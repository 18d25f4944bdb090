---------------------------- MODULE DriverProofs ----------------------------
(***************************************************************************)
(* Proofs about Driver, for any number of calls, any channel capacity, any *)
(* bounds and with COPY sent by whatever command.                          *)
(***************************************************************************)
EXTENDS Driver, TLAPS


-----------------------------------------------------------------------------
(* Facts about the operators. *)

(* Sequences: the facts used below, stated once.                            *)
LEMMA EmptyIsSeq == ASSUME NEW S PROVE <<>> \in Seq(S) /\ Len(<<>>) = 0
  OBVIOUS

LEMMA OneIsSeq == ASSUME NEW S, NEW x \in S PROVE <<x>> \in Seq(S)
  OBVIOUS

LEMMA AppendIsSeq ==
    ASSUME NEW S, NEW s \in Seq(S), NEW x \in S
    PROVE  /\ Append(s, x) \in Seq(S) /\ Len(Append(s, x)) = Len(s) + 1
           /\ \A i \in 1..Len(s) : Append(s, x)[i] = s[i]
           /\ Append(s, x)[Len(s) + 1] = x
  OBVIOUS

LEMMA TailIsSeq ==
    ASSUME NEW S, NEW s \in Seq(S), s # <<>>
    PROVE  /\ Tail(s) \in Seq(S) /\ Len(Tail(s)) = Len(s) - 1
           /\ Head(s) \in S /\ Head(s) = s[1] /\ Len(s) >= 1
           /\ \A i \in 1..Len(Tail(s)) : Tail(s)[i] = s[i + 1]
  OBVIOUS

LEMMA ConcatIsSeq ==
    ASSUME NEW S, NEW s \in Seq(S), NEW t \in Seq(S)
    PROVE  /\ s \o t \in Seq(S) /\ Len(s \o t) = Len(s) + Len(t)
           /\ \A i \in 1..Len(s \o t) :
                 (s \o t)[i] = IF i <= Len(s) THEN s[i] ELSE t[i - Len(s)]
  OBVIOUS

LEMMA PrefixIsSeq ==
    ASSUME NEW S, NEW s \in Seq(S), NEW k \in 0..Len(s)
    PROVE  /\ SubSeq(s, 1, k) \in Seq(S) /\ Len(SubSeq(s, 1, k)) = k
           /\ \A i \in 1..k : SubSeq(s, 1, k)[i] = s[i]
  OBVIOUS


(* What the external server may emit next has the type of a message that    *)
(* neither ends the exchange nor the stream, and keeps the server busy.     *)
LEMMA EmitsTyped ==
    \A e \in Emits : /\ e.type \in MsgTypes \ ({"ReadyForQuery", "Notice"} \cup Ends)
                     /\ e.arg \in Args
                     /\ e.next \in ServerStages \ {"idle", "gone"}
<1> DEFINE Good(e) == /\ e.type \in MsgTypes \ ({"ReadyForQuery", "Notice"} \cup Ends)
                      /\ e.arg \in Args
                      /\ e.next \in ServerStages \ {"idle", "gone"}
<1>1. \A e \in CopyByQuery : Good(e)
  BY DEF Emit, CopyByQuery, CopyStart, MsgTypes, Args, ServerStages, Ends
<1>2. ASSUME NEW k PROVE \A e \in RowsEmits(k) : Good(e)
  BY DEF Emit, RowsEmits, Failure, Complete, MsgTypes, Args, ServerStages, Ends
<1>3. ASSUME NEW k PROVE \A e \in BeginEmits(k) : Good(e)
  BY <1>1, <1>2 DEF Emit, BeginEmits, Failure, Complete, Empty, CopyStart, MsgTypes, Args, ServerStages, Ends
<1>4. ASSUME NEW k PROVE \A e \in DescribeEmits(k) : Good(e)
  BY DEF Emit, DescribeEmits, MsgTypes, Args, ServerStages, Ends
<1>5. \A e \in {Complete, Empty, Failure} : Good(e)
  BY DEF Emit, Failure, Complete, Empty, MsgTypes, Args, ServerStages, Ends
<1>6. Good(Emit("ParameterDescription", "none", "describe"))
  BY DEF Emit, MsgTypes, Args, ServerStages, Ends
<1> HIDE DEF Good
<1>7. \A e \in Emits : Good(e)
  BY <1>1, <1>2, <1>3, <1>4, <1>5, <1>6 DEF Emit, Emits
<1> QED
  BY <1>7 DEF Emit, Good
(* Recording a message keeps the shape of the pending command.              *)
LEMMA AbsorbTyped ==
    ASSUME NEW p \in Pending, NEW m \in Messages
    PROVE  Absorb(p, m) \in Pending
<1>1. FirstError(p, "Server") \in Pending /\ FirstError(p, "ColumnAlignment") \in Pending
  BY DEF FirstError, Pending, Errors
<1>2. EndSet(p) \in Pending
  <2>1. Append(p.results, p.current) \in Seq(Seq(Rows))
    BY AppendIsSeq DEF Pending
  <2> QED
    BY <2>1, EmptyIsSeq DEF EndSet, Pending
<1>3. [p EXCEPT !.current = Append(@, [of |-> m.of, n |-> m.n])] \in Pending
  <2>1. [of |-> m.of, n |-> m.n] \in Rows
    BY DEF Messages, Rows
  <2>2. Append(p.current, [of |-> m.of, n |-> m.n]) \in Seq(Rows)
    BY <2>1, AppendIsSeq DEF Pending
  <2> QED
    BY <2>2 DEF Pending
<1>4. [p EXCEPT !.results = Append(@, <<>>)] \in Pending
  <2>1. Append(p.results, <<>>) \in Seq(Seq(Rows))
    BY AppendIsSeq, EmptyIsSeq DEF Pending
  <2> QED
    BY <2>1 DEF Pending
<1>5. [p EXCEPT !.error = "Server"] \in Pending
  BY DEF Pending, Errors
<1>6. [p EXCEPT !.seen = @ \cup {m}] \in Pending
  BY DEF Pending
<1> QED
  BY <1>1, <1>2, <1>3, <1>4, <1>5, <1>6 DEF Absorb

(* The answer to a pending command is a reply.                              *)
LEMMA OutcomeTyped ==
    ASSUME NEW p \in Pending
    PROVE  Outcome(p) \in Replies
<1>1. <<p.current>> \in Seq(Seq(Rows))
  BY DEF Pending
<1> QED
  BY <1>1 DEF Outcome, Ok, Err, Replies, Pending, Errors

LEMMA ErrTyped == \A e \in Errors : Err(e) \in Replies
  BY DEF Err, Replies, Errors

LEMMA AnswerTyped ==
    ASSUME NEW f \in [Calls -> Replies \cup {None}], NEW c, NEW r \in Replies
    PROVE  Answer(f, c, r) \in [Calls -> Replies \cup {None}]
  BY DEF Answer

LEMMA FreshTyped == \A b \in Commands : Fresh(b) \in Pending
  BY DEF Fresh, Commands, Pending

(* Draining the channel keeps the types.                                    *)
LEMMA CloseInboxTyped ==
    ASSUME NEW queue, NEW f \in [Calls -> Replies \cup {None}], CloseInbox(queue, f)
    PROVE  /\ inboxOpen' \in BOOLEAN
           /\ inbox' \in Seq(Commands) /\ Len(inbox') = 0
           /\ reply' \in [Calls -> Replies \cup {None}]
<1>1. Err("Closed") \in Replies
  BY ErrTyped DEF Errors
<1> QED
  BY <1>1, EmptyIsSeq DEF CloseInbox

(* One message more from the server.                                        *)
LEMMA DeliverTyped ==
    ASSUME TypeOK, NEW m \in Messages, NEW stage \in ServerStages, Deliver(m, stage)
    PROVE  /\ toClient' \in Seq(Messages)
           /\ srv' \in Server
           /\ served' \in [Calls -> Seq(Nat)]
           /\ faults' \in [Calls -> Seq(Errors)]
<1>1. toClient' \in Seq(Messages)
  BY DEF Deliver, TypeOK
<1>2. srv' \in Server
  <2>1. srv.rows \in Nat /\ srv.sets \in Nat
    BY DEF TypeOK, Server
  <2>2. PICK r \in Nat, n \in Nat : srv' = [srv EXCEPT !.stage = stage, !.rows = r, !.sets = n]
    <3> DEFINE ends == m.type \in {"CommandComplete", "EmptyQueryResponse", "PortalSuspended"}
               r == IF m.type = "DataRow" THEN srv.rows + 1 ELSE IF ends THEN 0 ELSE srv.rows
               n == IF ends THEN srv.sets + 1 ELSE srv.sets
    <3>1. r \in Nat /\ n \in Nat
      BY <2>1
    <3>2. srv' = [srv EXCEPT !.stage = stage, !.rows = r, !.sets = n]
      BY DEF Deliver
    <3> HIDE DEF r, n
    <3> QED
      BY <3>1, <3>2
  <2> QED
    BY <2>2 DEF TypeOK, Server
<1>3. served' \in [Calls -> Seq(Nat)]
  <2>1. srv.rows \in Nat
    BY DEF TypeOK, Server
  <2>2. ASSUME NEW c \in Calls PROVE Append(served[c], srv.rows) \in Seq(Nat)
    BY <2>1, AppendIsSeq DEF TypeOK
  <2> QED
    BY <2>2 DEF Deliver, TypeOK
<1>4. faults' \in [Calls -> Seq(Errors)]
  <2> DEFINE fault == CASE m.type = "ErrorResponse" -> <<"Server">>
                        [] m.arg = "misaligned" -> <<"ColumnAlignment">>
                        [] m.arg = "text" -> <<"NotBinary">>
                        [] OTHER -> <<>>
  <2>1. fault \in Seq(Errors)
    <3>1. "Server" \in Errors /\ "ColumnAlignment" \in Errors /\ "NotBinary" \in Errors
      BY DEF Errors
    <3> QED
      BY <3>1, OneIsSeq, EmptyIsSeq
  <2>2. faults' = [faults EXCEPT ![srv.call] = @ \o fault]
    BY DEF Deliver
  <2> HIDE DEF fault
  <2>3. ASSUME NEW c \in Calls PROVE faults[c] \o fault \in Seq(Errors)
    BY <2>1, ConcatIsSeq DEF TypeOK
  <2> QED
    BY <2>2, <2>3 DEF TypeOK
<1> QED
  BY <1>1, <1>2, <1>3, <1>4

-----------------------------------------------------------------------------
(* Type correctness. *)

LEMMA InitTyped == Init => TypeOK
<1> SUFFICES ASSUME Init PROVE TypeOK
  OBVIOUS
<1>1. inbox = <<>> /\ inbox \in Seq(Commands) /\ Len(inbox) <= COMMAND_BUFFER
  BY EmptyIsSeq, BufferAssumption DEF Init
<1>2. toServer \in Seq(Batches) /\ toClient \in Seq(Messages)
  BY EmptyIsSeq DEF Init
<1>3. served \in [Calls -> Seq(Nat)] /\ faults \in [Calls -> Seq(Errors)]
  BY EmptyIsSeq DEF Init
<1>4. srv \in Server /\ txStatus \in TxStatus
  BY StatusAssumption DEF Init, Server, ServerStages, CommandKinds
<1>5. notices \in 0..MaxNotices
  BY BoundsAssumption DEF Init
<1> QED
  BY <1>1, <1>2, <1>3, <1>4, <1>5 DEF Init, TypeOK

(* The steps that only callers take.                                        *)
LEMMA CallersTyped == TypeOK /\ Callers => TypeOK'
<1> SUFFICES ASSUME TypeOK, Callers PROVE TypeOK'
  OBVIOUS
<1>1. ASSUME NEW c \in Calls, NEW k \in CommandKinds, NEW doing \in {"waiting", "closing"},
             Enqueue(c, k, doing)
      PROVE  /\ call' \in [Calls -> {"idle", "waiting", "closing", "cancelled"}]
             /\ inbox' \in Seq(Commands) /\ Len(inbox') <= COMMAND_BUFFER
             /\ reply' \in [Calls -> Replies \cup {None}]
  <2>1. [call |-> c, kind |-> k] \in Commands
    BY DEF Commands
  <2>2. CASE inboxOpen
    <3>1. /\ Append(inbox, [call |-> c, kind |-> k]) \in Seq(Commands)
          /\ Len(Append(inbox, [call |-> c, kind |-> k])) = Len(inbox) + 1
      BY <2>1, AppendIsSeq DEF TypeOK
    <3>2. inbox' = Append(inbox, [call |-> c, kind |-> k]) /\ Len(inbox) < COMMAND_BUFFER
      BY <1>1, <2>2 DEF Enqueue, HasRoom
    <3>3. Len(inbox) \in Nat
      BY DEF TypeOK
    <3>4. Len(inbox') <= COMMAND_BUFFER
      BY <3>1, <3>2, <3>3, BufferAssumption
    <3> QED
      BY <1>1, <2>2, <3>1, <3>2, <3>4 DEF Enqueue, TypeOK
  <2>3. CASE ~inboxOpen
    <3>1. Err("Closed") \in Replies
      BY ErrTyped DEF Errors
    <3> QED
      BY <1>1, <2>3, <3>1 DEF Enqueue, TypeOK
  <2> QED
    BY <2>2, <2>3
<1>2. ASSUME NEW c \in Calls, NEW k \in Kinds, Send(c, k) PROVE TypeOK'
  <2>1. k \in CommandKinds
    BY KindsAssumption
  <2> QED
    BY <1>1, <1>2, <2>1 DEF Send, TypeOK, wireVars
<1>3. ASSUME NEW c \in Calls, Cancel(c) PROVE TypeOK'
  BY <1>3 DEF Cancel, TypeOK, wireVars
<1>4. ASSUME NEW c \in Calls, SessionClose(c) PROVE TypeOK'
  <2>1. "Close" \in CommandKinds
    BY DEF CommandKinds
  <2> QED
    BY <1>1, <1>4, <2>1 DEF SessionClose, TypeOK, wireVars
<1>5. CASE SessionCloseReturns
  BY <1>5 DEF SessionCloseReturns, TypeOK, wireVars
<1>6. CASE SessionDrop
  <2>1. [call |-> None, kind |-> "Close"] \in Commands
    BY DEF Commands, CommandKinds
  <2>2. inbox' \in Seq(Commands) /\ Len(inbox') <= COMMAND_BUFFER
    BY <1>6, <2>1, AppendIsSeq, BufferAssumption DEF SessionDrop, HasRoom, TypeOK
  <2> QED
    BY <1>6, <2>2 DEF SessionDrop, TypeOK, wireVars
<1>7. CASE HandlesDrop
  BY <1>7 DEF HandlesDrop, TypeOK, wireVars
<1> QED
  BY <1>2, <1>3, <1>4, <1>5, <1>6, <1>7 DEF Callers

(* The steps of the driver task.                                            *)
LEMMA DriverTyped == TypeOK /\ DriverStep => TypeOK'
<1> SUFFICES ASSUME TypeOK, DriverStep PROVE TypeOK'
  OBVIOUS
<1>E. /\ Err("Build") \in Replies /\ Err("Closed") \in Replies /\ Err("Io") \in Replies
      /\ Ok("Close", <<>>, {}) \in Replies
  BY ErrTyped, EmptyIsSeq DEF Errors, Ok, Replies, CommandKinds
<1>R. ASSUME Recv
      PROVE  /\ Head(inbox) \in Commands
             /\ Tail(inbox) \in Seq(Commands) /\ Len(Tail(inbox)) <= COMMAND_BUFFER
  BY <1>R, TailIsSeq, BufferAssumption DEF Recv, TypeOK
<1>T. ASSUME NEW types, Read(types)
      PROVE  toClient' \in Seq(Messages) /\ Head(toClient) \in Messages
  BY <1>T, TailIsSeq DEF Read, TypeOK
<1>F. ASSUME NEW b \in Batches, FlushOk(b) PROVE toServer' \in Seq(Batches)
  BY <1>F, AppendIsSeq DEF FlushOk, TypeOK
<1>C. Commands \subseteq Batches
  BY DEF Commands, Batches
<1>P. ASSUME NEW e \in {"Closed", "Io"}, FailPending(e)
      PROVE  /\ driver' = "exited" /\ pending' = None /\ inboxOpen' \in BOOLEAN
             /\ inbox' \in Seq(Commands) /\ Len(inbox') <= COMMAND_BUFFER
             /\ reply' \in [Calls -> Replies \cup {None}]
  <2> DEFINE f == IF pending = None THEN reply ELSE Answer(reply, pending.call, Err(e))
  <2>1. f \in [Calls -> Replies \cup {None}]
    BY <1>E, AnswerTyped DEF TypeOK
  <2>2. CloseInbox(inbox, f)
    BY <1>P DEF FailPending
  <2> QED
    BY <1>P, <2>1, <2>2, CloseInboxTyped, BufferAssumption DEF FailPending
<1>1. CASE StartBuildError
  <2>1. reply' \in [Calls -> Replies \cup {None}]
    BY <1>1, <1>E, AnswerTyped DEF StartBuildError, TypeOK
  <2> QED
    BY <1>1, <1>R, <2>1 DEF StartBuildError, TypeOK, callerVars, wireVars
<1>2. CASE StartFlushed
  <2>1. pending' \in Pending
    BY <1>2, <1>R, FreshTyped DEF StartFlushed
  <2>2. toServer' \in Seq(Batches)
    BY <1>2, <1>R, <1>F, <1>C DEF StartFlushed
  <2> QED
    BY <1>2, <1>R, <2>1, <2>2 DEF StartFlushed, TypeOK, callerVars
<1>3. CASE StartFlushError
  <2>1. reply' \in [Calls -> Replies \cup {None}]
    BY <1>3, <1>E, AnswerTyped DEF StartFlushError, TypeOK
  <2>2. Msg("Ack", Head(inbox).call, "none") \in Messages
    BY <1>3, <1>R DEF StartFlushError, Msg, Messages, MsgTypes, Args, Commands
  <2>3. <<Msg("Ack", Head(inbox).call, "none")>> \o toClient \in Seq(Messages)
    <3>1. <<Msg("Ack", Head(inbox).call, "none")>> \in Seq(Messages)
      BY <2>2, OneIsSeq
    <3> QED
      BY <3>1, ConcatIsSeq DEF TypeOK
  <2>4. toClient' \in Seq(Messages)
    BY <1>3, <2>3 DEF StartFlushError, TypeOK
  <2> QED
    BY <1>3, <1>R, <2>1, <2>4 DEF StartFlushError, TypeOK, callerVars, wireVars
<1>4. CASE StartClose
  <2>1. PICK r \in {Ok("Close", <<>>, {}), Err("Io")} :
           /\ IF r.ok THEN FlushOk(Head(inbox)) ELSE FlushFails /\ UNCHANGED toServer
           /\ CloseInbox(Tail(inbox), Answer(reply, Head(inbox).call, r))
    BY <1>4 DEF StartClose
  <2>2. Answer(reply, Head(inbox).call, r) \in [Calls -> Replies \cup {None}]
    BY <1>E, AnswerTyped DEF TypeOK
  <2>3. /\ inboxOpen' \in BOOLEAN
        /\ inbox' \in Seq(Commands) /\ Len(inbox') <= COMMAND_BUFFER
        /\ reply' \in [Calls -> Replies \cup {None}]
    BY <2>1, <2>2, CloseInboxTyped, BufferAssumption
  <2>4. toServer' \in Seq(Batches)
    BY <1>4, <1>R, <1>F, <1>C, <2>1 DEF StartClose, TypeOK
  <2>5. pending' \in Pending
    BY <1>4, FreshTyped DEF StartClose, Commands, CommandKinds
  <2> QED
    BY <1>4, <2>3, <2>4, <2>5 DEF StartClose, TypeOK, callerVars
<1>5. CASE Shutdown
  <2>1. [call |-> None, kind |-> "Close"] \in Batches
    BY DEF Batches, CommandKinds
  <2>2. toServer' \in Seq(Batches)
    BY <1>5, <2>1, AppendIsSeq DEF Shutdown, TypeOK
  <2> QED
    BY <1>5, <2>2 DEF Shutdown, TypeOK, callerVars
<1>6. CASE OnMessage
  <2>1. pending' \in Pending \cup {None}
    BY <1>6, <1>T, AbsorbTyped DEF OnMessage, TypeOK
  <2> QED
    BY <1>6, <1>T, <2>1 DEF OnMessage, TypeOK, callerVars, wireVars
<1>7. CASE OnReadyForQuery
  <2>1. txStatus' \in TxStatus
    BY <1>7, <1>T DEF OnReadyForQuery, Read, Messages
  <2>2. reply' \in [Calls -> Replies \cup {None}] /\ pending' \in Pending \cup {None}
    <3>1. CASE pending = None \/ pending.kind = "Close"
      BY <1>7, <3>1 DEF OnReadyForQuery, TypeOK
    <3>2. CASE ~(pending = None \/ pending.kind = "Close")
      <4>1. Outcome(pending) \in Replies
        BY <3>2, OutcomeTyped DEF TypeOK
      <4>2. Answer(reply, pending.call, Outcome(pending)) \in [Calls -> Replies \cup {None}]
        BY <4>1, AnswerTyped DEF TypeOK
      <4> QED
        BY <1>7, <3>2, <4>2 DEF OnReadyForQuery
    <3> QED
      BY <3>1, <3>2
  <2> QED
    BY <1>7, <1>T, <2>1, <2>2 DEF OnReadyForQuery, TypeOK, callerVars, wireVars
<1>8. CASE OnCopyInResponseIgnored
  BY <1>8, <1>T DEF OnCopyInResponseIgnored, TypeOK, callerVars, wireVars
<1>9. CASE OnCopyInResponse
  <2>1. pending \in Pending
    BY <1>9 DEF OnCopyInResponse, CopyInPending, TypeOK
  <2>2. /\ [call |-> pending.call, kind |-> "CopyDone"] \in Batches
        /\ [call |-> pending.call, kind |-> "CopyFail"] \in Batches
    BY <2>1 DEF Pending, Batches
  <2>3. toServer' \in Seq(Batches)
    BY <1>9, <1>F, <2>2 DEF OnCopyInResponse
  <2>4. \A e \in {"CopyEncode", "NotBinary"} : FirstError(pending, e) \in Pending
    BY <2>1 DEF FirstError, Pending, Errors
  <2>5. pending' \in Pending
    BY <1>9, <2>1, <2>4 DEF OnCopyInResponse
  <2> QED
    BY <1>9, <1>T, <2>3, <2>5 DEF OnCopyInResponse, TypeOK, callerVars
<1>10. CASE OnCopyWriteError
  BY <1>10, <1>T, <1>P DEF OnCopyWriteError, TypeOK, callerVars, wireVars
<1>11. CASE OnReaderEnd
  BY <1>11, <1>T, <1>P DEF OnReaderEnd, TypeOK, callerVars, wireVars
<1> QED
  BY <1>1, <1>2, <1>3, <1>4, <1>5, <1>6, <1>7, <1>8, <1>9,
     <1>10, <1>11 DEF DriverStep

(* The steps of the external server.                                        *)
LEMMA ServerTyped ==
    TypeOK /\ (ServerStep \/ ServerCopyAbort \/ ServerNotice \/ ServerDie) => TypeOK'
<1> SUFFICES ASSUME TypeOK,
                    ServerStep \/ ServerCopyAbort \/ ServerNotice \/ ServerDie
             PROVE  TypeOK'
  OBVIOUS
<1> USE DEF serverFrame, callerVars
<1>M. ASSUME NEW t \in MsgTypes \ {"ReadyForQuery"}, NEW c \in Calls \cup {None}
      PROVE  Msg(t, c, "none") \in Messages
  BY <1>M DEF Msg, Messages, Args
<1>1. CASE ServerTake
  <2>1. toServer' \in Seq(Batches) /\ Head(toServer) \in Batches
    BY <1>1, TailIsSeq DEF ServerTake, TypeOK
  <2>2. Append(toClient, Msg("Eof", None, "none")) \in Seq(Messages)
    <3>1. Msg("Eof", None, "none") \in Messages
      BY <1>M DEF MsgTypes, Ends
    <3> QED
      BY <3>1, AppendIsSeq DEF TypeOK
  <2>3. toClient' \in Seq(Messages)
    BY <1>1, <2>2 DEF ServerTake, TypeOK
  <2>4. srv' \in Server
    <3> DEFINE b == Head(toServer)
    <3>1. \/ b.kind \in CommandKinds \ {"Close"}
             /\ srv' = [srv EXCEPT !.stage = "begin", !.call = b.call, !.kind = b.kind,
                                   !.rows = 0, !.sets = 0]
          \/ \E s \in {"copied", "copyFailed"} : srv' = [srv EXCEPT !.stage = s]
          \/ srv' = srv
          \/ srv' = [srv EXCEPT !.stage = "gone", !.call = None]
      BY <1>1 DEF ServerTake
    <3>2. srv \in Server /\ b.call \in Calls \cup {None}
      BY <2>1 DEF TypeOK, Batches
    <3> HIDE DEF b
    <3>3. ASSUME NEW s \in ServerStages PROVE [srv EXCEPT !.stage = s] \in Server
      BY <3>2 DEF Server
    <3>4. [srv EXCEPT !.stage = "gone", !.call = None] \in Server
      BY <3>2 DEF Server, ServerStages
    <3>5. ASSUME b.kind \in CommandKinds
          PROVE  [srv EXCEPT !.stage = "begin", !.call = b.call, !.kind = b.kind,
                             !.rows = 0, !.sets = 0] \in Server
      BY <3>2, <3>5 DEF Server, ServerStages
    <3> QED
      BY <3>1, <3>2, <3>3, <3>4, <3>5 DEF ServerStages
  <2> QED
    BY <1>1, <2>1, <2>3, <2>4 DEF ServerTake, TypeOK
<1>2. CASE ServerEmit
  <2>1. PICK e \in Emits :
           Deliver([Msg(e.type, srv.call, e.arg) EXCEPT
                       !.n = IF e.type = "DataRow" THEN srv.rows + 1 ELSE 0], e.next)
    BY <1>2 DEF ServerEmit
  <2>2. [Msg(e.type, srv.call, e.arg) EXCEPT
            !.n = IF e.type = "DataRow" THEN srv.rows + 1 ELSE 0] \in Messages
    <3>1. srv.rows \in Nat /\ srv.call \in Calls \cup {None}
      BY DEF TypeOK, Server
    <3> QED
      BY <3>1, EmitsTyped DEF Msg, Messages
  <2>3. e.next \in ServerStages
    BY EmitsTyped
  <2> QED
    BY <1>2, <2>1, <2>2, <2>3, DeliverTyped DEF ServerEmit, TypeOK
<1>3. CASE ServerReady
  <2>1. PICK s \in TxStatus :
           /\ toClient' = Append(toClient, Msg("ReadyForQuery", srv.call, s))
           /\ srv' = [srv EXCEPT !.stage = "idle", !.call = None, !.tx = s]
    BY <1>3 DEF ServerReady
  <2>2. Msg("ReadyForQuery", srv.call, s) \in Messages
    BY DEF Msg, Messages, MsgTypes, Args, TypeOK, Server
  <2>3. toClient' \in Seq(Messages)
    BY <2>1, <2>2, AppendIsSeq DEF TypeOK
  <2>4. srv' \in Server
    BY <2>1 DEF TypeOK, Server, ServerStages
  <2> QED
    BY <1>3, <2>3, <2>4 DEF ServerReady, TypeOK
<1>4. CASE ServerCopyAbort
  <2>1. Msg("ErrorResponse", srv.call, "none") \in Messages
    BY <1>M DEF MsgTypes, TypeOK, Server
  <2>2. "ready" \in ServerStages
    BY DEF ServerStages
  <2> QED
    BY <1>4, <2>1, <2>2, DeliverTyped DEF ServerCopyAbort, TypeOK
<1>5. CASE ServerNotice
  <2>1. Msg("Notice", None, "none") \in Messages
    BY <1>M DEF MsgTypes
  <2>2. toClient' \in Seq(Messages)
    BY <1>5, <2>1, AppendIsSeq DEF ServerNotice, TypeOK
  <2>3. notices' \in 0..MaxNotices
    BY <1>5, BoundsAssumption DEF ServerNotice, TypeOK
  <2> QED
    BY <1>5, <2>2, <2>3 DEF ServerNotice, TypeOK
<1>6. CASE ServerDie
  <2>1. \A end \in Ends : <<Msg(end, None, "none")>> \in Seq(Messages)
    BY <1>M, OneIsSeq DEF MsgTypes, Ends
  <2>2. \A fatal \in {<<>>, <<Msg("ErrorResponse", None, "none")>>} : fatal \in Seq(Messages)
    BY <1>M, OneIsSeq, EmptyIsSeq DEF MsgTypes
  <2>3. toClient' \in Seq(Messages)
    <3>1. CASE \E k \in 0..Len(toClient) :
                  toClient' = SubSeq(toClient, 1, k) \o <<Msg("ReadError", None, "none")>>
      <4>1. PICK k \in 0..Len(toClient) :
               toClient' = SubSeq(toClient, 1, k) \o <<Msg("ReadError", None, "none")>>
        BY <3>1
      <4>2. SubSeq(toClient, 1, k) \in Seq(Messages)
        BY PrefixIsSeq DEF TypeOK
      <4>3. <<Msg("ReadError", None, "none")>> \in Seq(Messages)
        BY <2>1 DEF Ends
      <4> QED
        BY <4>1, <4>2, <4>3, ConcatIsSeq
    <3>2. CASE \E end \in Ends, fatal \in {<<>>, <<Msg("ErrorResponse", None, "none")>>} :
                  toClient' = toClient \o fatal \o <<Msg(end, None, "none")>>
      <4>1. PICK end \in Ends, fatal \in {<<>>, <<Msg("ErrorResponse", None, "none")>>} :
               toClient' = toClient \o fatal \o <<Msg(end, None, "none")>>
        BY <3>2
      <4>2. toClient \o fatal \in Seq(Messages)
        BY <2>2, ConcatIsSeq DEF TypeOK
      <4>3. <<Msg(end, None, "none")>> \in Seq(Messages)
        BY <2>1
      <4> QED
        BY <4>1, <4>2, <4>3, ConcatIsSeq
    <3> QED
      BY <1>6, <3>1, <3>2 DEF ServerDie
  <2>4. srv' \in Server /\ toServer' \in Seq(Batches)
    BY <1>6, EmptyIsSeq DEF ServerDie, TypeOK, Server, ServerStages
  <2> QED
    BY <1>6, <2>3, <2>4 DEF ServerDie, TypeOK
<1> QED
  BY <1>1, <1>2, <1>3, <1>4, <1>5, <1>6 DEF ServerStep

LEMMA NextTyped == TypeOK /\ [Next]_vars => TypeOK'
<1>1. ASSUME TypeOK, Quiescent \/ UNCHANGED vars PROVE TypeOK'
  BY <1>1 DEF Quiescent, vars, TypeOK
<1> QED
  BY <1>1, CallersTyped, DriverTyped, ServerTyped DEF Next

(* Every reachable state of the driver, its callers and the wire is well    *)
(* typed; in particular the command channel stays within its capacity.      *)
THEOREM TypeCorrect == Spec => []TypeOK
  BY InitTyped, NextTyped, PTL DEF Spec

-----------------------------------------------------------------------------
(* One exchange at a time: OneExchange is inductive, given TypeOK. *)

LEMMA AppendOwned ==
    ASSUME NEW S, NEW s \in Seq(S), NEW x \in S, Owned(s), x.kind # "Close" => x.call # None
    PROVE  Owned(Append(s, x))
<1>1. \A i \in 1..Len(Append(s, x)) : i \in 1..Len(s) \/ i = Len(s) + 1
  BY AppendIsSeq
<1> QED
  BY <1>1, AppendIsSeq DEF Owned

LEMMA TailOwned ==
    ASSUME NEW S, NEW s \in Seq(S), s # <<>>, Owned(s)
    PROVE  /\ Head(s) \in S /\ Owned(Tail(s))
           /\ Head(s).kind # "Close" => Head(s).call # None
<1>1. \A i \in 1..Len(Tail(s)) : i + 1 \in 1..Len(s)
  BY TailIsSeq
<1>2. 1 \in 1..Len(s)
  BY TailIsSeq
<1> QED
  BY <1>1, <1>2, TailIsSeq DEF Owned

LEMMA InitOneExchange == Init => OneExchange
  BY DEF Init, OneExchange, OwnerInv, Owned, WriterInv, StreamInv, ExchangeInv, PendingInv, InFlight

(* Recording a message that is the command's own, or an unsolicited one,    *)
(* leaves the command's identity alone and what it collected its own.       *)
LEMMA AbsorbOwn ==
    ASSUME NEW p \in Pending, NEW m \in Messages,
           m.of = p.call \/ m.type \in Unsolicited
    PROVE  LET q == Absorb(p, m) IN
           /\ q.call = p.call /\ q.kind = p.kind
           /\ (\A x \in p.seen : x.of = p.call) => \A x \in q.seen : x.of = p.call
           /\ OwnRows(p.current, p.call) => OwnRows(q.current, p.call)
           /\ /\ \A i \in 1..Len(p.results) : OwnRows(p.results[i], p.call)
              /\ OwnRows(p.current, p.call)
              => \A i \in 1..Len(q.results) : OwnRows(q.results[i], p.call)
<1> DEFINE Keeps(q) ==
           /\ q.call = p.call /\ q.kind = p.kind
           /\ (\A x \in p.seen : x.of = p.call) => \A x \in q.seen : x.of = p.call
           /\ OwnRows(p.current, p.call) => OwnRows(q.current, p.call)
           /\ /\ \A i \in 1..Len(p.results) : OwnRows(p.results[i], p.call)
              /\ OwnRows(p.current, p.call)
              => \A i \in 1..Len(q.results) : OwnRows(q.results[i], p.call)
<1>T. /\ p.current \in Seq(Rows) /\ p.results \in Seq(Seq(Rows))
      /\ OwnRows(<<>>, p.call)
  BY EmptyIsSeq DEF Pending, OwnRows
<1>1. \A e : Keeps([p EXCEPT !.error = e])
  BY DEF Pending
<1>2. Keeps(FirstError(p, "Server")) /\ Keeps(FirstError(p, "ColumnAlignment"))
  BY <1>1 DEF FirstError
<1>3. Keeps([p EXCEPT !.results = Append(@, p.current), !.current = <<>>])
  <2>1. /\ Len(Append(p.results, p.current)) = Len(p.results) + 1
        /\ \A i \in 1..Len(p.results) : Append(p.results, p.current)[i] = p.results[i]
        /\ Append(p.results, p.current)[Len(p.results) + 1] = p.current
    BY <1>T, AppendIsSeq
  <2>2. ASSUME \A i \in 1..Len(p.results) : OwnRows(p.results[i], p.call),
               OwnRows(p.current, p.call),
               NEW i \in 1..Len(Append(p.results, p.current))
        PROVE  OwnRows(Append(p.results, p.current)[i], p.call)
    <3>1. CASE i \in 1..Len(p.results)
      BY <2>1, <2>2, <3>1
    <3>2. CASE i = Len(p.results) + 1
      BY <2>1, <2>2, <3>2
    <3> QED
      BY <1>T, <2>1, <3>1, <3>2
  <2> QED
    BY <1>T, <2>2 DEF Pending
<1>4. Keeps([p EXCEPT !.results = Append(@, <<>>)])
  <2>1. /\ Len(Append(p.results, <<>>)) = Len(p.results) + 1
        /\ \A i \in 1..Len(p.results) : Append(p.results, <<>>)[i] = p.results[i]
        /\ Append(p.results, <<>>)[Len(p.results) + 1] = <<>>
    BY <1>T, AppendIsSeq, EmptyIsSeq
  <2>2. ASSUME \A i \in 1..Len(p.results) : OwnRows(p.results[i], p.call),
               NEW i \in 1..Len(Append(p.results, <<>>))
        PROVE  OwnRows(Append(p.results, <<>>)[i], p.call)
    <3>1. CASE i \in 1..Len(p.results)
      BY <2>1, <2>2, <3>1
    <3>2. CASE i = Len(p.results) + 1
      BY <1>T, <2>1, <3>2
    <3> QED
      BY <1>T, <2>1, <3>1, <3>2
  <2> QED
    BY <1>T, <2>2 DEF Pending
<1>5. ASSUME m.of = p.call
      PROVE  Keeps([p EXCEPT !.current = Append(@, [of |-> m.of, n |-> m.n])])
  <2> DEFINE r == [of |-> m.of, n |-> m.n]
  <2>1. r \in Rows /\ r.of = p.call
    BY <1>5 DEF Rows, Messages
  <2> HIDE DEF r
  <2>2. OwnRows(p.current, p.call) => OwnRows(Append(p.current, r), p.call)
    BY <1>T, <2>1, AppendIsSeq DEF OwnRows
  <2>3. Keeps([p EXCEPT !.current = Append(@, r)])
    BY <2>2 DEF Pending
  <2> QED
    BY <2>3 DEF r
<1>6. ASSUME m.of = p.call PROVE Keeps([p EXCEPT !.seen = @ \cup {m}])
  BY <1>6 DEF Pending
<1>7. m.type \in Stored(p.kind) \/ m.type = "DataRow" => m.of = p.call
  BY DEF Stored, Unsolicited, Ends
<1>8. Keeps(p)
  OBVIOUS
<1> HIDE DEF Keeps
<1>9. Keeps(Absorb(p, m))
  BY <1>1, <1>2, <1>3, <1>4, <1>5, <1>6, <1>7, <1>8 DEF Absorb, EndSet
<1> QED
  BY <1>9 DEF Keeps

(* Callers touch only the channel.                                          *)
LEMMA CallersOneExchange == TypeOK /\ OneExchange /\ Callers => OneExchange'
<1> SUFFICES ASSUME TypeOK, OneExchange, Callers PROVE OneExchange'
  OBVIOUS
<1>1. UNCHANGED <<driver, pending, txStatus, writer, toServer, toClient, srv>>
  BY DEF Callers, Send, Cancel, SessionClose, SessionCloseReturns, SessionDrop,
         HandlesDrop, Enqueue, wireVars
<1>2. \/ inbox' = inbox
      \/ \E b \in Commands : (b.kind # "Close" => b.call # None) /\ inbox' = Append(inbox, b)
  <2>1. ASSUME NEW c \in Calls, NEW k \in CommandKinds, NEW d, Enqueue(c, k, d)
        PROVE  \/ inbox' = inbox
               \/ \E b \in Commands : (b.kind # "Close" => b.call # None)
                                      /\ inbox' = Append(inbox, b)
    <3>1. [call |-> c, kind |-> k] \in Commands /\ c # None
      BY CallsAssumption DEF Commands
    <3>2. inbox' = inbox \/ inbox' = Append(inbox, [call |-> c, kind |-> k])
      BY <2>1 DEF Enqueue
    <3> QED
      BY <3>1, <3>2
  <2>2. CASE \E c \in Calls, k \in Kinds : Send(c, k)
    BY <2>1, <2>2, KindsAssumption DEF Send
  <2>3. CASE \E c \in Calls : SessionClose(c)
    BY <2>1, <2>3 DEF SessionClose, CommandKinds
  <2>4. CASE SessionDrop
    <3>1. [call |-> None, kind |-> "Close"] \in Commands
      BY DEF Commands, CommandKinds
    <3> QED
      BY <2>4, <3>1 DEF SessionDrop
  <2>5. CASE SessionCloseReturns \/ HandlesDrop \/ \E c \in Calls : Cancel(c)
    BY <2>5 DEF SessionCloseReturns, HandlesDrop, Cancel
  <2> QED
    BY <2>2, <2>3, <2>4, <2>5 DEF Callers
<1>3. Owned(inbox)'
  <2>1. CASE inbox' = inbox
    BY <2>1 DEF OneExchange, OwnerInv, Owned
  <2>2. ASSUME NEW b \in Commands, b.kind # "Close" => b.call # None,
               inbox' = Append(inbox, b)
        PROVE  Owned(inbox)'
    <3>1. Owned(Append(inbox, b))
      BY <2>2, AppendOwned DEF OneExchange, OwnerInv, TypeOK
    <3> QED
      BY <2>2, <3>1 DEF Owned
  <2> QED
    BY <1>2, <2>1, <2>2
<1>4. Owned(toServer)'
  BY <1>1 DEF OneExchange, OwnerInv, Owned
<1> QED
  BY <1>1, <1>3, <1>4 DEF OneExchange, OwnerInv, WriterInv, StreamInv, ExchangeInv, PendingInv,
                    InFlight, Written, Serving, Answered, CopyBatch

(* Taking a command from the channel.                                       *)
LEMMA StartOneExchange ==
    TypeOK /\ OneExchange
    /\ (StartBuildError \/ StartFlushed \/ StartFlushError \/ StartClose \/ Shutdown)
    => OneExchange'
<1> SUFFICES ASSUME TypeOK, OneExchange,
                    StartBuildError \/ StartFlushed \/ StartFlushError \/ StartClose \/ Shutdown
             PROVE  OneExchange'
  OBVIOUS
<1> USE DEF callerVars, wireVars
<1>R. ASSUME Recv
      PROVE  /\ Head(inbox) \in Commands
             /\ Head(inbox).kind # "Close" => Head(inbox).call # None
             /\ Owned(Tail(inbox))
  BY <1>R, TailOwned DEF Recv, TypeOK, OneExchange, OwnerInv
<1>T. ASSUME NEW b \in Batches, b.kind # "Close" => b.call # None
      PROVE  Owned(Append(toServer, b))
  BY <1>T, AppendOwned DEF OneExchange, OwnerInv, TypeOK
<1>1. CASE StartBuildError
  BY <1>1, <1>R DEF StartBuildError, OneExchange, OwnerInv, WriterInv, StreamInv,
                    ExchangeInv, PendingInv, InFlight, Written, Serving, Answered, CopyBatch
<1>2. CASE StartFlushed
  <2> DEFINE b == Head(inbox)
  <2>1. /\ b \in Commands /\ b.kind # "Close" /\ b.call # None
        /\ driver = "running" /\ pending = None /\ writer = "open"
        /\ pending' = Fresh(b)
        /\ UNCHANGED <<driver, txStatus, writer, toClient, srv>>
    BY <1>2, <1>R DEF StartFlushed, Recv, FlushOk
  <2>2. /\ InFlight' /\ pending'.call = b.call /\ pending'.kind = b.kind
        /\ pending'.seen = {} /\ pending'.current = <<>> /\ pending'.results = <<>>
    <3>1. pending' # None
      BY <2>1, NoneAssumption, FreshTyped
    <3> QED
      BY <2>1, <3>1 DEF Fresh, InFlight
  <2>3. OwnerInv'
    <3>1. b \in Batches /\ (toServer' = toServer \/ toServer' = Append(toServer, b))
      BY <1>2, <2>1 DEF StartFlushed, FlushOk, Commands, Batches
    <3> HIDE DEF b
    <3>2. Owned(toServer)'
      BY <1>T, <2>1, <3>1 DEF OneExchange, OwnerInv, Owned
    <3>3. Owned(inbox)'
      BY <1>2, <1>R DEF StartFlushed, Owned
    <3> QED
      BY <2>1, <2>2, <3>2, <3>3 DEF OneExchange, OwnerInv
  <2>4. WriterInv'
    BY <2>1, <2>2 DEF OneExchange, WriterInv, InFlight
  <2>5. \A i \in 1..Len(toClient) : toClient[i].of = None
    BY <2>1 DEF OneExchange, StreamInv
  <2>6. StreamInv'
    BY <2>1, <2>2, <2>5 DEF StreamInv, InFlight
  <2>7. ExchangeInv'
    <3> SUFFICES ASSUME srv.stage # "gone" PROVE Written'
      BY <2>1, <2>2 DEF ExchangeInv, InFlight
    <3>1. srv.stage = "idle" /\ \A i \in 1..Len(toServer) : CopyBatch(toServer[i])
      BY <2>1 DEF OneExchange, ExchangeInv
    <3>2. toServer' = Append(toServer, b) /\ b \in Batches
      BY <1>2, <2>1 DEF StartFlushed, FlushOk, Commands, Batches
    <3>3. b = [call |-> pending'.call, kind |-> pending'.kind]
      BY <2>1, <2>2 DEF Commands
    <3> HIDE DEF b
    <3>4. /\ Len(toServer') = Len(toServer) + 1
          /\ \A i \in 1..Len(toServer) : toServer'[i] = toServer[i]
          /\ toServer'[Len(toServer) + 1] = b
          /\ Len(toServer) \in Nat /\ toServer' # <<>>
      <4>1. toServer \in Seq(Batches)
        BY DEF TypeOK
      <4>2. Len(toServer') = Len(toServer) + 1 /\ Len(toServer) \in Nat
        BY <3>2, <4>1, AppendIsSeq
      <4>3. toServer' # <<>>
        BY <4>2, EmptyIsSeq
      <4> QED
        BY <3>2, <4>1, <4>2, <4>3, AppendIsSeq
    <3> QED
      BY <2>1, <2>5, <3>1, <3>3, <3>4 DEF Written, CopyBatch
  <2>8. PendingInv'
    BY <2>2 DEF PendingInv, OwnRows
  <2> QED
    BY <2>3, <2>4, <2>6, <2>7, <2>8 DEF OneExchange
<1>3. CASE StartFlushError
  <2>1. /\ driver = "running" /\ pending = None /\ srv.stage = "gone" /\ writer' = "broken"
        /\ UNCHANGED <<driver, pending, srv>>
    BY <1>3 DEF StartFlushError, Recv, FlushFails, OneExchange, WriterInv
  <2> DEFINE m == Msg("Ack", Head(inbox).call, "none")
  <2>2. m \in Messages /\ m.of # None
    BY <1>3, <1>R DEF StartFlushError, Msg, Messages, MsgTypes, Args, Commands
  <2> HIDE DEF m
  <2>3. \A i \in 1..Len(toClient') : toClient'[i].of = None => toClient'[i].type \in Unsolicited
    <3>1. CASE toClient' = toClient
      BY <3>1 DEF OneExchange, OwnerInv
    <3>2. CASE toClient' = <<m>> \o toClient
      <4>1. <<m>> \in Seq(Messages) /\ Len(<<m>>) = 1 /\ <<m>>[1] = m
        BY <2>2, OneIsSeq
      <4>2. /\ Len(toClient') = 1 + Len(toClient)
            /\ \A i \in 1..Len(toClient') :
                  toClient'[i] = IF i <= 1 THEN <<m>>[i] ELSE toClient[i - 1]
        BY <3>2, <4>1, ConcatIsSeq DEF TypeOK
      <4>3. ASSUME NEW i \in 1..Len(toClient'), i # 1
            PROVE  toClient'[i] = toClient[i - 1] /\ i - 1 \in 1..Len(toClient)
        BY <4>2, <4>3 DEF TypeOK
      <4>4. \A i \in 1..Len(toClient) : toClient[i].of = None => toClient[i].type \in Unsolicited
        BY DEF OneExchange, OwnerInv
      <4> QED
        BY <2>2, <4>1, <4>2, <4>3, <4>4
    <3> QED
      BY <1>3, <3>1, <3>2 DEF StartFlushError, m
  <2> QED
    BY <1>3, <1>R, <2>1, <2>3 DEF StartFlushError, OneExchange, OwnerInv, WriterInv, StreamInv,
                                  ExchangeInv, PendingInv, InFlight
<1>4. CASE StartClose
  <2>1. ~InFlight' /\ pending' # None /\ writer' = "shut" /\ Len(inbox') = 0
        /\ UNCHANGED <<driver, srv, toClient>>
    <3>1. [call |-> None, kind |-> "Close"] \in Commands
      BY DEF Commands, CommandKinds
    <3>2. pending' # None /\ ~InFlight'
      BY <1>4, <3>1, NoneAssumption, FreshTyped DEF StartClose, Fresh, InFlight
    <3> QED
      BY <1>4, <3>2, EmptyIsSeq DEF StartClose, CloseInbox
  <2>2. toServer' = toServer \/ toServer' = Append(toServer, Head(inbox))
    BY <1>4 DEF StartClose, FlushOk
  <2>3. Head(inbox) \in Batches
    BY <1>4, <1>R DEF StartClose, Commands, Batches
  <2>4. Owned(toServer)' /\ Owned(inbox)'
    BY <1>4, <1>T, <2>1, <2>2, <2>3 DEF StartClose, OneExchange, OwnerInv, Owned
  <2> QED
    BY <2>1, <2>4 DEF OneExchange, OwnerInv, WriterInv, StreamInv, ExchangeInv, PendingInv
<1>5. CASE Shutdown
  <2>1. Owned(toServer)' /\ Owned(inbox)'
    BY <1>5, <1>T DEF Shutdown, OneExchange, OwnerInv, Owned
  <2> QED
    BY <1>5, <2>1 DEF Shutdown, OneExchange, OwnerInv, WriterInv, StreamInv, ExchangeInv,
                      PendingInv, InFlight
<1> QED
  BY <1>1, <1>2, <1>3, <1>4, <1>5
(* Reading takes the first message and shifts the others.                   *)
LEMMA ReadShifts ==
    ASSUME TypeOK, NEW types, Read(types)
    PROVE  /\ Head(toClient) \in Messages /\ Head(toClient) = toClient[1]
           /\ Head(toClient).type \in types /\ 1 \in 1..Len(toClient)
           /\ Len(toClient) \in Nat /\ Len(toClient') = Len(toClient) - 1
           /\ \A i \in 1..Len(toClient') :
                 toClient'[i] = toClient[i + 1] /\ i + 1 \in 1..Len(toClient)
<1>1. toClient \in Seq(Messages) /\ toClient # <<>> /\ toClient' = Tail(toClient)
      /\ Head(toClient).type \in types
  BY DEF TypeOK, Read
<1>2. /\ Len(Tail(toClient)) = Len(toClient) - 1
      /\ Head(toClient) \in Messages /\ Head(toClient) = toClient[1] /\ Len(toClient) >= 1
      /\ \A i \in 1..Len(Tail(toClient)) : Tail(toClient)[i] = toClient[i + 1]
  BY <1>1, TailIsSeq
<1>3. Len(toClient) \in Nat
  BY <1>1
<1>4. \A i \in 1..Len(Tail(toClient)) : i + 1 \in 1..Len(toClient)
  BY <1>2, <1>3
<1> QED
  BY <1>1, <1>2, <1>3, <1>4

(* Reading anything but ReadyForQuery goes on with the same exchange; a     *)
(* CopyInResponse may add a CopyDone or a CopyFail to what is written.      *)
LEMMA ReadWithinExchange ==
    ASSUME TypeOK, OneExchange, NEW types, Read(types),
           "ReadyForQuery" \notin types,
           UNCHANGED <<inbox, driver, txStatus, writer, srv>>,
           (pending = None) <=> (pending' = None),
           pending # None => pending'.call = pending.call /\ pending'.kind = pending.kind,
           PendingInv',
           \/ toServer' = toServer
           \/ /\ types = {"CopyInResponse"}
              /\ InFlight
              /\ \E b \in Batches : /\ CopyBatch(b) /\ b.call = pending.call
                                    /\ toServer' = Append(toServer, b)
    PROVE  OneExchange'
<1>0. /\ inbox' = inbox /\ driver' = driver /\ txStatus' = txStatus
      /\ writer' = writer /\ srv' = srv
  OBVIOUS
<1>1. InFlight' <=> InFlight
  BY DEF InFlight
<1>2. /\ toClient[1].type \in types /\ 1 \in 1..Len(toClient) /\ Len(toClient) \in Nat
      /\ Len(toClient') = Len(toClient) - 1
      /\ \A i \in 1..Len(toClient') :
            toClient'[i] = toClient[i + 1] /\ i + 1 \in 1..Len(toClient)
  BY ReadShifts
<1>3. OwnerInv'
  <2>1. Owned(inbox)'
    BY <1>0 DEF OneExchange, OwnerInv, Owned
  <2>2. Owned(toServer)'
    <3>1. CASE toServer' = toServer
      BY <3>1 DEF OneExchange, OwnerInv, Owned
    <3>2. ASSUME InFlight, NEW b \in Batches, b.call = pending.call,
                 toServer' = Append(toServer, b)
          PROVE  Owned(toServer)'
      <4>1. Owned(Append(toServer, b))
        BY <3>2, AppendOwned DEF OneExchange, OwnerInv, TypeOK
      <4> QED
        BY <3>2, <4>1 DEF Owned
    <3> QED
      BY <3>1, <3>2
  <2> QED
    BY <1>1, <1>2, <2>1, <2>2 DEF OneExchange, OwnerInv, InFlight
<1>4. WriterInv'
  BY <1>1 DEF OneExchange, WriterInv
<1>5. StreamInv'
  <2>1. ASSUME driver = "running", pending = None, writer = "open"
        PROVE  \A i \in 1..Len(toClient') : toClient'[i].of = None
    BY <1>2, <2>1 DEF OneExchange, StreamInv
  <2>2. ASSUME driver = "running", InFlight
        PROVE  \A i \in 1..Len(toClient') : toClient'[i].of \in {None, pending'.call}
    BY <1>2, <2>2 DEF OneExchange, StreamInv, InFlight
  <2>3. ASSUME driver = "running", InFlight, NEW i \in 1..Len(toClient'),
               NEW j \in 1..Len(toClient'), i < j, toClient'[i].type = "ReadyForQuery"
        PROVE  toClient'[j].of = None
    <3>1. i + 1 < j + 1 /\ toClient[i + 1].type = "ReadyForQuery"
          /\ toClient'[j] = toClient[j + 1] /\ i + 1 \in 1..Len(toClient) /\ j + 1 \in 1..Len(toClient)
      BY <1>2, <2>3
    <3>2. \A k, l \in 1..Len(toClient) :
             k < l /\ toClient[k].type = "ReadyForQuery" => toClient[l].of = None
      BY <2>3 DEF OneExchange, StreamInv
    <3> QED
      BY <3>1, <3>2
  <2> QED
    BY <1>1, <2>1, <2>2, <2>3 DEF StreamInv
<1>6. ASSUME NEW b \in Batches, CopyBatch(b), toServer' = Append(toServer, b),
             \A i \in 1..Len(toServer) : CopyBatch(toServer[i])
      PROVE  \A i \in 1..Len(toServer') : CopyBatch(toServer'[i])
  <2>1. toServer \in Seq(Batches)
    BY DEF TypeOK
  <2>2. /\ Len(toServer') = Len(toServer) + 1 /\ Len(toServer) \in Nat
        /\ \A i \in 1..Len(toServer) : toServer'[i] = toServer[i]
        /\ toServer'[Len(toServer) + 1] = b
    BY <1>6, <2>1, AppendIsSeq
  <2>3. \A i \in 1..Len(toServer') : i \in 1..Len(toServer) \/ i = Len(toServer) + 1
    BY <2>2
  <2> QED
    BY <1>6, <2>2, <2>3
<1>7. ExchangeInv'
  <2> SUFFICES ASSUME driver = "running", srv.stage # "gone", pending = None \/ InFlight
               PROVE  ExchangeInv'
    BY <1>0, <1>1 DEF ExchangeInv, InFlight
  <2>1. CASE pending = None
    BY <1>0, <1>1, <2>1 DEF OneExchange, ExchangeInv, InFlight
  <2>2. CASE InFlight /\ Written
    <3>1. types # {"CopyInResponse"}
      <4>1. toClient[1].of = None
        BY <1>2, <2>2 DEF Written
      <4>2. toClient[1].type \in Unsolicited
        BY <1>2, <4>1 DEF OneExchange, OwnerInv
      <4> QED
        BY <1>2, <4>2 DEF Unsolicited, Ends
    <3>2. toServer' = toServer
      BY <3>1
    <3>3. \A i \in 1..Len(toClient') : toClient'[i].of = None
      BY <1>2, <2>2 DEF Written
    <3>4. Written'
      BY <2>2, <3>2, <3>3 DEF Written, InFlight, CopyBatch
    <3> QED
      BY <1>0, <1>1, <2>2, <3>4 DEF ExchangeInv, InFlight
  <2>3. ASSUME \A i \in 1..Len(toServer) : CopyBatch(toServer[i])
        PROVE  \A i \in 1..Len(toServer') : CopyBatch(toServer'[i])
    BY <1>6, <2>3 DEF CopyBatch
  <2>4. CASE InFlight /\ Serving
    <3>1. \A i \in 1..Len(toClient') : toClient'[i].type # "ReadyForQuery"
      BY <1>2, <2>4 DEF Serving
    <3>2. Serving'
      BY <2>3, <2>4, <3>1 DEF Serving, InFlight
    <3> QED
      BY <1>0, <1>1, <2>4, <3>2 DEF ExchangeInv, InFlight
  <2>5. CASE InFlight /\ Answered
    <3>1. PICK k \in 1..Len(toClient) :
             toClient[k].type = "ReadyForQuery" /\ toClient[k].arg = srv.tx
      BY <2>5 DEF Answered
    <3>2. k # 1
      BY <1>2, <3>1
    <3>3. k - 1 \in 1..Len(toClient') /\ (k - 1) + 1 = k
      BY <1>2, <3>2
    <3>4. toClient'[k - 1] = toClient[k]
      BY <1>2, <3>3
    <3>5. Answered'
      BY <2>3, <2>5, <3>1, <3>3, <3>4 DEF Answered
    <3> QED
      BY <1>0, <1>1, <2>5, <3>5 DEF ExchangeInv, InFlight
  <2> QED
    BY <2>1, <2>2, <2>4, <2>5 DEF OneExchange, ExchangeInv, InFlight
<1> QED
  BY <1>3, <1>4, <1>5, <1>7 DEF OneExchange
(* Reading from the socket.                                                 *)
LEMMA ReadOneExchange ==
    TypeOK /\ OneExchange
    /\ (OnMessage \/ OnReadyForQuery \/ OnCopyInResponseIgnored \/ OnCopyInResponse
        \/ OnCopyWriteError \/ OnReaderEnd)
    => OneExchange'
<1> SUFFICES ASSUME TypeOK, OneExchange,
                    \/ OnMessage \/ OnReadyForQuery \/ OnCopyInResponseIgnored
                    \/ OnCopyInResponse \/ OnCopyWriteError \/ OnReaderEnd
             PROVE  OneExchange'
  OBVIOUS
<1> USE DEF callerVars, wireVars
<1>P. pending # None => pending \in Pending
  BY DEF TypeOK
<1>H. ASSUME NEW types, Read(types), InFlight
      PROVE  /\ Head(toClient).of = pending.call \/ Head(toClient).type \in Unsolicited
  <2>1. Head(toClient) = toClient[1] /\ 1 \in 1..Len(toClient) /\ driver = "running"
    BY <1>H, ReadShifts DEF Read
  <2> QED
    BY <1>H, <2>1 DEF OneExchange, StreamInv, OwnerInv
<1>1. CASE OnMessage
  <2> DEFINE T == MsgTypes \ (Ends \cup {"ReadyForQuery", "CopyInResponse"})
  <2>1. Read(T) /\ "ReadyForQuery" \notin T /\ toServer' = toServer
        /\ UNCHANGED <<inbox, driver, txStatus, writer, srv>>
        /\ pending' = IF pending = None THEN None ELSE Absorb(pending, Head(toClient))
    BY <1>1 DEF OnMessage
  <2> HIDE DEF T
  <2>2. Head(toClient) \in Messages
    BY <2>1, ReadShifts
  <2>3. pending # None => pending' # None /\ pending'.kind = pending.kind
                          /\ pending'.call = pending.call
    <3>1. ASSUME pending # None PROVE pending' \in Pending
      BY <1>P, <2>1, <2>2, <3>1, AbsorbTyped
    <3>2. ASSUME pending # None, pending.kind = "Close"
          PROVE  pending' = pending
      <4>1. Absorb(pending, Head(toClient)) = pending
        BY <3>2 DEF Absorb, RowKinds, Stored
      <4> QED
        BY <2>1, <3>2, <4>1
    <3>3. ASSUME InFlight
          PROVE  pending'.kind = pending.kind /\ pending'.call = pending.call
      BY <1>P, <1>H, <2>1, <2>2, <3>3, AbsorbOwn DEF InFlight
    <3> QED
      BY <3>1, <3>2, <3>3, NoneAssumption DEF InFlight
  <2>4. PendingInv'
    <3> SUFFICES ASSUME InFlight' PROVE PendingInv'
      BY DEF PendingInv
    <3>1. InFlight
      BY <2>1, <2>3 DEF InFlight
    <3> DEFINE p == pending
               q == Absorb(pending, Head(toClient))
    <3>2. /\ \A m \in p.seen : m.of = p.call
          /\ OwnRows(p.current, p.call)
          /\ \A i \in 1..Len(p.results) : OwnRows(p.results[i], p.call)
      BY <3>1 DEF OneExchange, PendingInv
    <3>3. /\ \A m \in q.seen : m.of = p.call
          /\ OwnRows(q.current, p.call)
          /\ \A i \in 1..Len(q.results) : OwnRows(q.results[i], p.call)
      BY <1>P, <1>H, <2>1, <2>2, <3>1, <3>2, AbsorbOwn DEF InFlight
    <3>4. pending' = q /\ pending'.call = p.call
      BY <2>1, <2>3, <3>1 DEF InFlight
    <3> HIDE DEF p, q
    <3> QED
      BY <3>3, <3>4 DEF PendingInv
  <2>5. (pending = None) <=> (pending' = None)
    BY <2>1, <2>3
  <2> QED
    BY <2>1, <2>3, <2>4, <2>5, ReadWithinExchange
<1>2. CASE OnReadyForQuery
  <2>1. /\ Read({"ReadyForQuery"}) /\ driver = "running"
        /\ UNCHANGED <<inbox, driver, writer, toServer, srv>>
        /\ txStatus' = Head(toClient).arg
    BY <1>2 DEF OnReadyForQuery, Read
  <2>2. /\ Head(toClient) = toClient[1] /\ toClient[1].type = "ReadyForQuery"
        /\ 1 \in 1..Len(toClient)
        /\ Len(toClient) \in Nat /\ Len(toClient') = Len(toClient) - 1
        /\ \A i \in 1..Len(toClient') :
              toClient'[i] = toClient[i + 1] /\ i + 1 \in 1..Len(toClient)
    BY <2>1, ReadShifts
  <2>3. toClient[1].of # None
    BY <2>2 DEF OneExchange, OwnerInv, Unsolicited, Ends
  <2>4. CASE InFlight
    <3>1. pending' = None /\ ~InFlight'
      BY <1>2, <2>4 DEF OnReadyForQuery, InFlight
    <3>2. \A i \in 1..Len(toClient') : toClient'[i].of = None
      <4>1. \A k, l \in 1..Len(toClient) :
               k < l /\ toClient[k].type = "ReadyForQuery" => toClient[l].of = None
        BY <2>1, <2>4 DEF OneExchange, StreamInv
      <4>2. \A i \in 1..Len(toClient') : 1 < i + 1
        BY <2>2
      <4> QED
        BY <2>2, <4>1, <4>2
    <3>3. OwnerInv'
      BY <2>1, <2>2, <3>1 DEF OneExchange, OwnerInv
    <3>4. WriterInv'
      BY <2>1, <2>4, <3>1 DEF OneExchange, WriterInv
    <3>5. StreamInv'
      BY <3>1, <3>2 DEF StreamInv
    <3>6. ASSUME srv.stage # "gone"
          PROVE  /\ srv.stage = "idle" /\ srv.tx = toClient[1].arg
                 /\ \A i \in 1..Len(toServer) : CopyBatch(toServer[i])
      <4>1. ~Written
        BY <2>2, <2>3 DEF Written
      <4>2. ~Serving
        BY <2>2 DEF Serving
      <4>3. Answered
        BY <2>1, <2>4, <3>6, <4>1, <4>2 DEF OneExchange, ExchangeInv
      <4>4. PICK k \in 1..Len(toClient) :
               toClient[k].type = "ReadyForQuery" /\ toClient[k].arg = srv.tx
        BY <4>3 DEF Answered
      <4>5. k = 1
        <5>1. toClient[k].of # None
          BY <4>4 DEF OneExchange, OwnerInv, Unsolicited, Ends
        <5>2. ~(1 < k)
          BY <2>1, <2>2, <2>4, <5>1 DEF OneExchange, StreamInv
        <5> QED
          BY <2>2, <5>2
      <4> QED
        BY <4>3, <4>4, <4>5 DEF Answered
    <3>7. ExchangeInv'
      BY <2>1, <2>2, <3>1, <3>6 DEF ExchangeInv, CopyBatch
    <3>8. PendingInv'
      BY <3>1 DEF PendingInv
    <3> QED
      BY <3>3, <3>4, <3>5, <3>7, <3>8 DEF OneExchange
  <2>5. CASE pending = None
    <3>1. pending' = None /\ ~InFlight'
      BY <1>2, <2>5 DEF OnReadyForQuery, InFlight
    <3>2. writer # "open" /\ srv.stage = "gone"
      BY <2>1, <2>2, <2>3, <2>5 DEF OneExchange, StreamInv, WriterInv
    <3> QED
      BY <2>1, <2>2, <2>5, <3>1, <3>2 DEF OneExchange, OwnerInv, WriterInv, StreamInv,
                                    ExchangeInv, PendingInv
  <2>6. CASE pending # None /\ pending.kind = "Close"
    <3>1. pending' = pending /\ ~InFlight'
      BY <1>2, <2>6 DEF OnReadyForQuery, InFlight
    <3> QED
      BY <2>1, <2>2, <2>6, <3>1 DEF OneExchange, OwnerInv, WriterInv, StreamInv,
                                    ExchangeInv, PendingInv
  <2> QED
    BY <2>4, <2>5, <2>6 DEF InFlight
<1>3. CASE OnCopyInResponseIgnored
  <2> DEFINE T == {"CopyInResponse"}
  <2>1. Read(T) /\ "ReadyForQuery" \notin T /\ toServer' = toServer /\ pending' = pending
        /\ UNCHANGED <<inbox, driver, txStatus, writer, srv>>
    BY <1>3 DEF OnCopyInResponseIgnored
  <2> HIDE DEF T
  <2>2. PendingInv'
    BY <2>1 DEF OneExchange, PendingInv, InFlight
  <2> QED
    BY <2>1, <2>2, ReadWithinExchange
<1>4. CASE OnCopyInResponse
  <2>1. /\ Read({"CopyInResponse"}) /\ InFlight /\ pending \in Pending
        /\ UNCHANGED <<inbox, driver, txStatus, writer, srv>>
    BY <1>4, <1>P DEF OnCopyInResponse, CopyInPending, InFlight
  <2>2. \/ toServer' = toServer
        \/ \E b \in Batches : /\ CopyBatch(b) /\ b.call = pending.call
                              /\ toServer' = Append(toServer, b)
    <3>1. /\ [call |-> pending.call, kind |-> "CopyDone"] \in Batches
          /\ [call |-> pending.call, kind |-> "CopyFail"] \in Batches
      BY <2>1 DEF Batches, Pending
    <3> QED
      BY <1>4, <3>1 DEF OnCopyInResponse, FlushOk, CopyBatch
  <2>3. /\ pending' # None /\ pending'.call = pending.call /\ pending'.kind = pending.kind
        /\ pending'.seen = pending.seen /\ pending'.current = pending.current
        /\ pending'.results = pending.results
    <3>1. ASSUME NEW e \in {"CopyEncode", "NotBinary"}
          PROVE  LET q == FirstError(pending, e) IN
                 /\ q \in Pending /\ q.call = pending.call /\ q.kind = pending.kind
                 /\ q.seen = pending.seen /\ q.current = pending.current
                 /\ q.results = pending.results
      BY <2>1 DEF FirstError, Pending, Errors
    <3>2. pending' = pending \/ \E e \in {"CopyEncode", "NotBinary"} : pending' = FirstError(pending, e)
      BY <1>4 DEF OnCopyInResponse
    <3> QED
      BY <2>1, <3>1, <3>2, NoneAssumption DEF InFlight
  <2>4. PendingInv'
    BY <2>1, <2>3 DEF OneExchange, PendingInv
  <2>5. "ReadyForQuery" \notin {"CopyInResponse"}
    OBVIOUS
  <2> QED
    BY <2>1, <2>2, <2>3, <2>4, <2>5, ReadWithinExchange DEF InFlight
<1>5. CASE OnCopyWriteError \/ OnReaderEnd
  <2>1. \E types : Read(types)
    BY <1>5 DEF OnCopyWriteError, OnReaderEnd
  <2>2. driver' = "exited" /\ pending' = None /\ ~InFlight' /\ srv' = srv /\ Len(inbox') = 0
    BY <1>5, EmptyIsSeq DEF OnCopyWriteError, OnReaderEnd, FailPending, CloseInbox, InFlight
  <2>3. Owned(inbox)' /\ Owned(toServer)'
    BY <1>5, <2>2 DEF OnCopyWriteError, OnReaderEnd, OneExchange, OwnerInv, Owned
  <2>4. OwnerInv'
    BY <2>1, <2>2, <2>3, ReadShifts DEF OneExchange, OwnerInv
  <2> QED
    BY <2>2, <2>4 DEF OneExchange, WriterInv, StreamInv, ExchangeInv, PendingInv
<1> QED
  BY <1>1, <1>2, <1>3, <1>4, <1>5

(* Sending: the message is the last one.                                    *)
LEMMA SendExtends ==
    ASSUME TypeOK, NEW m \in Messages, toClient' = Append(toClient, m)
    PROVE  /\ Len(toClient) \in Nat /\ Len(toClient') = Len(toClient) + 1
           /\ \A i \in 1..Len(toClient) : toClient'[i] = toClient[i]
           /\ toClient'[Len(toClient')] = m
           /\ \A i \in 1..Len(toClient') : i \in 1..Len(toClient) \/ i = Len(toClient')
<1>1. toClient \in Seq(Messages)
  BY DEF TypeOK
<1>2. /\ Len(toClient) \in Nat /\ Len(toClient') = Len(toClient) + 1
      /\ \A i \in 1..Len(toClient) : toClient'[i] = toClient[i]
      /\ toClient'[Len(toClient) + 1] = m
  BY <1>1, AppendIsSeq
<1> QED
  BY <1>2

(* A message of the exchange that is being served, in the middle of it.     *)
LEMMA SendWithinExchange ==
    ASSUME TypeOK, OneExchange, Connected,
           NEW m \in Messages, toClient' = Append(toClient, m),
           m.of = srv.call, m.type # "ReadyForQuery",
           srv.stage # "idle", srv'.stage \notin {"idle", "gone"}, srv'.call = srv.call,
           UNCHANGED <<inbox, driver, pending, txStatus, writer, toServer>>
    PROVE  OneExchange'
<1>0. /\ inbox' = inbox /\ driver' = driver /\ pending' = pending /\ txStatus' = txStatus
      /\ writer' = writer /\ toServer' = toServer
  OBVIOUS
<1>1. driver = "running" /\ srv.stage # "gone" /\ srv.call # None
  BY DEF Connected, OneExchange, OwnerInv
<1>2. pending # None /\ (InFlight => Serving)
  BY <1>1 DEF OneExchange, ExchangeInv, Written, Answered
<1>3. InFlight' <=> InFlight
  BY <1>0 DEF InFlight
<1>4. OwnerInv'
  BY <1>0, <1>1, <1>3, SendExtends DEF OneExchange, OwnerInv, Owned
<1>5. WriterInv'
  BY <1>0, <1>1, <1>3 DEF OneExchange, WriterInv
<1>6. ASSUME InFlight PROVE Serving'
  BY <1>0, <1>2, <1>6, SendExtends DEF Serving, CopyBatch
<1>7. StreamInv'
  <2>1. ASSUME InFlight
        PROVE  /\ \A i \in 1..Len(toClient') : toClient'[i].of \in {None, pending'.call}
               /\ \A i \in 1..Len(toClient') : toClient'[i].type # "ReadyForQuery"
    BY <1>0, <1>1, <1>2, <1>6, <2>1, SendExtends DEF OneExchange, StreamInv, Serving
  <2> QED
    BY <1>0, <1>2, <1>3, <2>1 DEF StreamInv
<1>8. ExchangeInv'
  BY <1>0, <1>2, <1>3, <1>6 DEF ExchangeInv
<1>9. PendingInv'
  BY <1>0 DEF OneExchange, PendingInv, InFlight
<1> QED
  BY <1>4, <1>5, <1>7, <1>8, <1>9 DEF OneExchange

(* An unsolicited message, at any time.                                     *)
LEMMA SendUnsolicited ==
    ASSUME TypeOK, OneExchange,
           NEW m \in Messages, toClient' = Append(toClient, m),
           m.of = None, m.type \in Unsolicited,
           UNCHANGED <<inbox, driver, pending, txStatus, writer, toServer, srv>>
    PROVE  OneExchange'
<1>0. /\ inbox' = inbox /\ driver' = driver /\ pending' = pending /\ txStatus' = txStatus
      /\ writer' = writer /\ toServer' = toServer /\ srv' = srv
  OBVIOUS
<1>1. (InFlight' <=> InFlight) /\ m.type # "ReadyForQuery"
  BY <1>0 DEF InFlight, Unsolicited, Ends
<1>2. OwnerInv'
  BY <1>0, <1>1, SendExtends DEF OneExchange, OwnerInv, Owned
<1>3. WriterInv'
  BY <1>0, <1>1 DEF OneExchange, WriterInv
<1>4. StreamInv'
  <2>1. ASSUME driver = "running", pending = None, writer = "open"
        PROVE  \A i \in 1..Len(toClient') : toClient'[i].of = None
    BY <2>1, SendExtends DEF OneExchange, StreamInv
  <2>2. ASSUME driver = "running", InFlight
        PROVE  \A i \in 1..Len(toClient') : toClient'[i].of \in {None, pending.call}
    BY <2>2, SendExtends DEF OneExchange, StreamInv
  <2>3. ASSUME driver = "running", InFlight, NEW i \in 1..Len(toClient'),
               NEW j \in 1..Len(toClient'), i < j, toClient'[i].type = "ReadyForQuery"
        PROVE  toClient'[j].of = None
    <3>1. CASE j = Len(toClient')
      BY <3>1, SendExtends
    <3>2. CASE j \in 1..Len(toClient)
      <4>1. i \in 1..Len(toClient)
        BY <2>3, <3>2, SendExtends
      <4>2. toClient'[i] = toClient[i] /\ toClient'[j] = toClient[j]
        BY <3>2, <4>1, SendExtends
      <4> QED
        BY <2>3, <3>2, <4>1, <4>2 DEF OneExchange, StreamInv
    <3> QED
      BY <3>1, <3>2, SendExtends
  <2> QED
    BY <1>0, <1>1, <2>1, <2>2, <2>3 DEF StreamInv
<1>5. ExchangeInv'
  <2>1. ASSUME Written PROVE Written'
    BY <1>0, <2>1, SendExtends DEF Written, CopyBatch
  <2>2. ASSUME Serving PROVE Serving'
    BY <1>0, <1>1, <2>2, SendExtends DEF Serving, CopyBatch
  <2>3. ASSUME Answered PROVE Answered'
    <3>1. PICK k \in 1..Len(toClient) :
             toClient[k].type = "ReadyForQuery" /\ toClient[k].arg = srv.tx
      BY <2>3 DEF Answered
    <3>2. k \in 1..Len(toClient') /\ toClient'[k] = toClient[k]
      BY SendExtends
    <3> QED
      BY <1>0, <2>3, <3>1, <3>2 DEF Answered, CopyBatch
  <2> QED
    BY <1>0, <1>1, <2>1, <2>2, <2>3 DEF OneExchange, ExchangeInv, CopyBatch
<1>6. PendingInv'
  BY <1>0 DEF OneExchange, PendingInv, InFlight
<1> QED
  BY <1>2, <1>3, <1>4, <1>5, <1>6 DEF OneExchange

(* The server reads what was written.                                       *)
LEMMA TakeOneExchange == TypeOK /\ OneExchange /\ ServerTake => OneExchange'
<1> SUFFICES ASSUME TypeOK, OneExchange, ServerTake PROVE OneExchange'
  OBVIOUS
<1> DEFINE b == Head(toServer)
<1>0. /\ inbox' = inbox /\ driver' = driver /\ pending' = pending /\ txStatus' = txStatus
      /\ writer' = writer /\ driver = "running" /\ srv.stage # "gone"
      /\ toServer # <<>> /\ toServer' = Tail(toServer)
  BY DEF ServerTake, serverFrame, callerVars, Connected
<1>1. (InFlight' <=> InFlight) /\ PendingInv'
  BY <1>0 DEF InFlight, OneExchange, PendingInv
<1>2. toServer \in Seq(Batches) /\ srv \in Server
  BY DEF TypeOK
<1>3. /\ b \in Batches /\ (b.kind # "Close" => b.call # None) /\ Owned(toServer)'
      /\ b = toServer[1] /\ 1 \in 1..Len(toServer) /\ Len(toServer) \in Nat
      /\ Len(toServer') = Len(toServer) - 1
      /\ \A i \in 1..Len(toServer') : toServer'[i] = toServer[i + 1] /\ i + 1 \in 1..Len(toServer)
  <2>1. Owned(toServer)
    BY DEF OneExchange, OwnerInv
  <2>2. b \in Batches /\ (b.kind # "Close" => b.call # None) /\ Owned(Tail(toServer))
    BY <1>0, <1>2, <2>1, TailOwned
  <2>3. /\ b = toServer[1] /\ Len(toServer) >= 1 /\ Len(toServer) \in Nat
        /\ Len(toServer') = Len(toServer) - 1
        /\ \A i \in 1..Len(toServer') : toServer'[i] = toServer[i + 1]
    BY <1>0, <1>2, TailIsSeq
  <2>4. \A i \in 1..Len(toServer') : i + 1 \in 1..Len(toServer)
    BY <2>3
  <2>5. 1 \in 1..Len(toServer)
    BY <2>3
  <2>6. Owned(toServer)'
    BY <1>0, <2>2 DEF Owned
  <2> QED
    BY <2>2, <2>3, <2>4, <2>5, <2>6
<1> HIDE DEF b
<1>4. ASSUME \A i \in 1..Len(toServer) : CopyBatch(toServer[i])
      PROVE  CopyBatch(b) /\ \A i \in 1..Len(toServer') : CopyBatch(toServer'[i])
  BY <1>3, <1>4
<1>5. ASSUME InFlight, Written
      PROVE  \/ CopyBatch(b) /\ b # [call |-> pending.call, kind |-> pending.kind]
                /\ toServer' # <<>>
             \/ b = [call |-> pending.call, kind |-> pending.kind] /\ Len(toServer') = 0
  <2>1. CASE Len(toServer) = 1
    BY <1>3, <1>5, <2>1 DEF Written
  <2>2. CASE Len(toServer) # 1
    <3>1. CopyBatch(b) /\ Len(toServer') # 0
      BY <1>3, <1>5, <2>2 DEF Written
    <3>2. pending.kind \in CommandKinds
      BY <1>5 DEF InFlight, TypeOK, Pending
    <3>3. b # [call |-> pending.call, kind |-> pending.kind]
      BY <3>1, <3>2 DEF CopyBatch, CommandKinds
    <3> QED
      BY <3>1, <3>3, EmptyIsSeq
  <2> QED
    BY <2>1, <2>2
<1>6. Owned(inbox)'
  BY <1>0 DEF OneExchange, OwnerInv, Owned
(* A new command is taken up: it is the pending one.                        *)
<1>7. CASE /\ srv.stage = "idle" /\ b.kind \in CommandKinds \ {"Close"}
           /\ srv' = [srv EXCEPT !.stage = "begin", !.call = b.call, !.kind = b.kind,
                                 !.rows = 0, !.sets = 0]
           /\ UNCHANGED toClient
  <2>1. srv'.stage = "begin" /\ srv'.call = b.call /\ b.call # None /\ ~CopyBatch(b)
        /\ toClient' = toClient
    BY <1>2, <1>3, <1>7 DEF Server, CopyBatch, CommandKinds
  <2>2. OwnerInv'
    BY <1>0, <1>1, <1>3, <1>6, <2>1 DEF OneExchange, OwnerInv, InFlight
  <2>3. pending # None
    BY <1>0, <1>4, <2>1 DEF OneExchange, ExchangeInv
  <2>4. ASSUME InFlight
        PROVE  b = [call |-> pending.call, kind |-> pending.kind] /\ Len(toServer') = 0
               /\ \A i \in 1..Len(toClient) : toClient[i].of = None
    <3>1. Written
      <4>1. ~Serving /\ ~Answered
        BY <1>4, <1>7, <2>1 DEF Serving, Answered
      <4> QED
        BY <1>0, <2>4, <4>1 DEF OneExchange, ExchangeInv
    <3> QED
      BY <1>5, <2>1, <2>4, <3>1 DEF Written
  <2>5. ASSUME InFlight PROVE Serving'
    <3>1. srv'.call = pending'.call
      BY <1>0, <2>1, <2>4, <2>5
    <3>2. \A i \in 1..Len(toClient') : toClient'[i].type # "ReadyForQuery"
      BY <2>1, <2>4, <2>5 DEF OneExchange, OwnerInv, Unsolicited, Ends
    <3> QED
      BY <2>1, <2>4, <2>5, <3>1, <3>2 DEF Serving
  <2>6. ExchangeInv'
    BY <1>0, <1>1, <2>3, <2>5 DEF ExchangeInv
  <2>7. WriterInv' /\ StreamInv'
    BY <1>0, <1>1, <2>1 DEF OneExchange, WriterInv, StreamInv, InFlight
  <2> QED
    BY <1>1, <2>2, <2>6, <2>7 DEF OneExchange
(* CopyDone or CopyFail, in copy mode or after it.                          *)
<1>8. CASE /\ \/ srv.stage = "copy" /\ \E s \in {"copied", "copyFailed"} :
                                          srv' = [srv EXCEPT !.stage = s]
              \/ srv.stage = "idle" /\ srv' = srv
           /\ CopyBatch(b)
           /\ UNCHANGED toClient
  <2>1. /\ toClient' = toClient /\ srv'.call = srv.call /\ srv'.tx = srv.tx
        /\ srv.stage = "idle" => srv'.stage = "idle"
        /\ srv.stage # "idle" => srv'.stage \notin {"idle", "gone"}
        /\ srv'.stage # "gone"
    BY <1>0, <1>2, <1>8 DEF Server
  <2>2. OwnerInv'
    BY <1>0, <1>1, <1>3, <1>6, <2>1 DEF OneExchange, OwnerInv, InFlight
  <2>3. WriterInv' /\ StreamInv'
    BY <1>0, <1>1, <2>1 DEF OneExchange, WriterInv, StreamInv, InFlight
  <2>4. ASSUME InFlight, Written PROVE Written'
    <3>1. toServer' # <<>> /\ Len(toServer') # 0
      <4>1. pending.kind \in CommandKinds
        BY <2>4 DEF InFlight, TypeOK, Pending
      <4>2. b # [call |-> pending.call, kind |-> pending.kind]
        BY <1>8, <4>1 DEF CopyBatch, CommandKinds
      <4>3. toServer' # <<>>
        BY <1>5, <2>4, <4>2
      <4>4. toServer' \in Seq(Batches)
        BY <1>0, <1>2, TailIsSeq
      <4> QED
        BY <4>3, <4>4
    <3>2. Len(toServer') \in 1..Len(toServer') /\ Len(toServer') + 1 = Len(toServer)
      BY <1>3, <3>1
    <3>3. toServer'[Len(toServer')] = toServer[Len(toServer)]
      BY <1>3, <3>2
    <3>4. \A i \in 1..(Len(toServer') - 1) : CopyBatch(toServer'[i])
      <4> TAKE i \in 1..(Len(toServer') - 1)
      <4>1. i + 1 \in 1..(Len(toServer) - 1) /\ i \in 1..Len(toServer')
        BY <1>3, <3>2
      <4>2. CopyBatch(toServer[i + 1])
        BY <2>4, <4>1 DEF Written
      <4> QED
        BY <1>3, <4>1, <4>2
    <3> QED
      BY <1>0, <2>1, <2>4, <3>1, <3>3, <3>4 DEF Written
  <2>5. ASSUME Serving PROVE Serving'
    BY <1>0, <1>4, <2>1, <2>5 DEF Serving
  <2>6. ASSUME Answered PROVE Answered'
    BY <1>0, <1>4, <2>1, <2>6 DEF Answered
  <2>7. ASSUME pending = None
        PROVE  srv'.stage = "idle" /\ txStatus = srv'.tx
               /\ \A i \in 1..Len(toServer') : CopyBatch(toServer'[i])
    BY <1>0, <1>4, <2>1, <2>7 DEF OneExchange, ExchangeInv
  <2>8. ExchangeInv'
    BY <1>0, <1>1, <2>4, <2>5, <2>6, <2>7 DEF OneExchange, ExchangeInv, InFlight
  <2> QED
    BY <1>1, <2>2, <2>3, <2>8 DEF OneExchange
(* Terminate: only the Close sentinel can be pending.                       *)
<1>9. CASE /\ srv.stage = "idle" /\ b.kind = "Close"
           /\ srv' = [srv EXCEPT !.stage = "gone", !.call = None]
           /\ toClient' = Append(toClient, Msg("Eof", None, "none"))
  <2>1. srv'.stage = "gone" /\ ~CopyBatch(b)
    BY <1>2, <1>9 DEF Server, CopyBatch
  <2>2. ~InFlight /\ pending # None
    <3>1. ASSUME InFlight PROVE FALSE
      <4>1. Written
        BY <1>0, <1>4, <1>9, <2>1, <3>1 DEF OneExchange, ExchangeInv, Serving, Answered
      <4>2. b = [call |-> pending.call, kind |-> pending.kind]
        BY <1>5, <2>1, <3>1, <4>1
      <4> QED
        BY <1>9, <3>1, <4>2 DEF InFlight
    <3>2. pending # None
      BY <1>0, <1>4, <2>1 DEF OneExchange, ExchangeInv
    <3> QED
      BY <3>1, <3>2
  <2>3. Msg("Eof", None, "none") \in Messages /\ Msg("Eof", None, "none").type \in Unsolicited
    BY DEF Msg, Messages, MsgTypes, Args, Unsolicited, Ends
  <2>4. OwnerInv'
    BY <1>0, <1>1, <1>3, <1>6, <1>9, <2>1, <2>2, <2>3, SendExtends
       DEF OneExchange, OwnerInv
  <2> QED
    BY <1>0, <1>1, <2>1, <2>2, <2>4 DEF OneExchange, WriterInv, StreamInv, ExchangeInv
<1> QED
  BY <1>7, <1>8, <1>9 DEF ServerTake, b, CopyBatch

(* ReadyForQuery closes the exchange that is being served.                  *)
LEMMA ReadyOneExchange == TypeOK /\ OneExchange /\ ServerReady => OneExchange'
<1> SUFFICES ASSUME TypeOK, OneExchange, ServerReady PROVE OneExchange'
  OBVIOUS
<1>0. /\ inbox' = inbox /\ driver' = driver /\ pending' = pending /\ txStatus' = txStatus
      /\ writer' = writer /\ toServer' = toServer
      /\ driver = "running" /\ srv.stage \notin {"gone", "idle"}
  BY DEF ServerReady, serverFrame, callerVars, Connected
<1>1. PICK s \in TxStatus :
         /\ toClient' = Append(toClient, Msg("ReadyForQuery", srv.call, s))
         /\ srv' = [srv EXCEPT !.stage = "idle", !.call = None, !.tx = s]
  BY DEF ServerReady
<1> DEFINE m == Msg("ReadyForQuery", srv.call, s)
<1>2. /\ m \in Messages /\ m.type = "ReadyForQuery" /\ m.arg = s /\ m.of = srv.call
      /\ srv'.stage = "idle" /\ srv'.tx = s
  BY <1>1 DEF Msg, Messages, MsgTypes, Args, TypeOK, Server
<1>3. toClient' = Append(toClient, m)
  BY <1>1
<1> HIDE DEF m
<1>4. srv.call # None /\ pending # None /\ (InFlight => Serving) /\ (InFlight' <=> InFlight)
  BY <1>0 DEF OneExchange, OwnerInv, ExchangeInv, Written, Answered, InFlight
<1>5. OwnerInv'
  BY <1>0, <1>2, <1>3, <1>4, SendExtends DEF OneExchange, OwnerInv, Owned
<1>6. WriterInv'
  BY <1>0, <1>2, <1>4 DEF OneExchange, WriterInv
<1>7. StreamInv'
  <2>1. ASSUME InFlight
        PROVE  \A i \in 1..Len(toClient') : toClient'[i].of \in {None, pending'.call}
    BY <1>0, <1>2, <1>3, <1>4, <2>1, SendExtends DEF OneExchange, StreamInv, Serving
  <2>2. ASSUME InFlight, NEW i \in 1..Len(toClient'), NEW j \in 1..Len(toClient'),
               i < j, toClient'[i].type = "ReadyForQuery"
        PROVE  FALSE
    <3>1. i = Len(toClient')
      BY <1>3, <1>2, <1>4, <2>2, SendExtends DEF Serving
    <3> QED
      BY <1>2, <1>3, <2>2, <3>1, SendExtends
  <2> QED
    BY <1>0, <1>4, <2>1, <2>2 DEF StreamInv
<1>8. ASSUME InFlight PROVE Answered'
  <2>1. Len(toClient') \in 1..Len(toClient')
    BY <1>2, <1>3, SendExtends
  <2>2. toClient'[Len(toClient')] = m
    BY <1>2, <1>3, SendExtends
  <2>3. \A i \in 1..Len(toServer') : CopyBatch(toServer'[i])
    BY <1>0, <1>4, <1>8 DEF Serving, CopyBatch
  <2> QED
    BY <1>2, <2>1, <2>2, <2>3 DEF Answered
<1>9. ExchangeInv'
  BY <1>0, <1>4, <1>8 DEF ExchangeInv
<1>10. PendingInv'
  BY <1>0 DEF OneExchange, PendingInv, InFlight
<1> QED
  BY <1>5, <1>6, <1>7, <1>9, <1>10 DEF OneExchange

(* The connection is lost.                                                  *)
LEMMA DieOneExchange == TypeOK /\ OneExchange /\ ServerDie => OneExchange'
<1> SUFFICES ASSUME TypeOK, OneExchange, ServerDie PROVE OneExchange'
  OBVIOUS
<1>0. /\ inbox' = inbox /\ driver' = driver /\ pending' = pending /\ txStatus' = txStatus
      /\ writer' = writer /\ Len(toServer') = 0 /\ srv'.stage = "gone"
  BY EmptyIsSeq DEF ServerDie, serverFrame, callerVars, TypeOK, Server
<1>1. ASSUME NEW t \in {"Eof", "ReadError", "ErrorResponse"}
      PROVE  /\ Msg(t, None, "none") \in Messages /\ Msg(t, None, "none").of = None
             /\ Msg(t, None, "none").type \in Unsolicited
  BY DEF Msg, Messages, MsgTypes, Args, Unsolicited, Ends
<1>2. \A i \in 1..Len(toClient') :
         \/ toClient'[i].of = None /\ toClient'[i].type \in Unsolicited
         \/ i \in 1..Len(toClient) /\ toClient'[i] = toClient[i]
  <2>T. toClient \in Seq(Messages)
    BY DEF TypeOK
  <2>1. ASSUME NEW k \in 0..Len(toClient), NEW m \in Messages, m.of = None,
               m.type \in Unsolicited, toClient' = SubSeq(toClient, 1, k) \o <<m>>
        PROVE  \A i \in 1..Len(toClient') :
                  \/ toClient'[i].of = None /\ toClient'[i].type \in Unsolicited
                  \/ i \in 1..Len(toClient) /\ toClient'[i] = toClient[i]
    <3>1. /\ SubSeq(toClient, 1, k) \in Seq(Messages) /\ Len(SubSeq(toClient, 1, k)) = k
          /\ \A i \in 1..k : SubSeq(toClient, 1, k)[i] = toClient[i]
      BY <2>T, PrefixIsSeq
    <3>2. <<m>> \in Seq(Messages) /\ Len(<<m>>) = 1 /\ <<m>>[1] = m
      BY OneIsSeq
    <3>3. /\ Len(toClient') = k + 1
          /\ \A i \in 1..Len(toClient') :
                toClient'[i] = IF i <= k THEN SubSeq(toClient, 1, k)[i] ELSE <<m>>[i - k]
      BY <2>1, <3>1, <3>2, ConcatIsSeq
    <3> TAKE i \in 1..Len(toClient')
    <3>4. CASE i <= k
      BY <2>T, <3>1, <3>3, <3>4
    <3>5. CASE i = k + 1
      BY <2>1, <3>2, <3>3, <3>5
    <3> QED
      BY <3>3, <3>4, <3>5
  <2>2. ASSUME NEW f \in Seq(Messages), NEW m \in Messages, m.of = None,
               m.type \in Unsolicited, toClient' = toClient \o f \o <<m>>,
               \A i \in 1..Len(f) : f[i].of = None /\ f[i].type \in Unsolicited
        PROVE  \A i \in 1..Len(toClient') :
                  \/ toClient'[i].of = None /\ toClient'[i].type \in Unsolicited
                  \/ i \in 1..Len(toClient) /\ toClient'[i] = toClient[i]
    <3>1. <<m>> \in Seq(Messages) /\ Len(<<m>>) = 1 /\ <<m>>[1] = m
      BY OneIsSeq
    <3>2. /\ toClient \o f \in Seq(Messages) /\ Len(toClient \o f) = Len(toClient) + Len(f)
          /\ \A i \in 1..Len(toClient \o f) :
                (toClient \o f)[i] = IF i <= Len(toClient) THEN toClient[i]
                                     ELSE f[i - Len(toClient)]
      BY <2>T, ConcatIsSeq
    <3>3. /\ Len(toClient') = Len(toClient) + Len(f) + 1
          /\ \A i \in 1..Len(toClient') :
                toClient'[i] = IF i <= Len(toClient) + Len(f) THEN (toClient \o f)[i]
                               ELSE <<m>>[i - (Len(toClient) + Len(f))]
      BY <2>2, <3>1, <3>2, ConcatIsSeq
    <3>4. Len(toClient) \in Nat /\ Len(f) \in Nat
      BY <2>T
    <3> TAKE i \in 1..Len(toClient')
    <3>5. CASE i <= Len(toClient)
      BY <3>2, <3>3, <3>4, <3>5
    <3>6. CASE i > Len(toClient) /\ i <= Len(toClient) + Len(f)
      <4>1. toClient'[i] = f[i - Len(toClient)] /\ i - Len(toClient) \in 1..Len(f)
        BY <3>2, <3>3, <3>4, <3>6
      <4> QED
        BY <2>2, <4>1
    <3>7. CASE i = Len(toClient) + Len(f) + 1
      BY <2>2, <3>1, <3>3, <3>4, <3>7
    <3> QED
      BY <3>3, <3>4, <3>5, <3>6, <3>7
  <2>3. CASE \E k \in 0..Len(toClient) :
                toClient' = SubSeq(toClient, 1, k) \o <<Msg("ReadError", None, "none")>>
    BY <1>1, <2>1, <2>3
  <2>4. CASE \E end \in Ends, fatal \in {<<>>, <<Msg("ErrorResponse", None, "none")>>} :
                toClient' = toClient \o fatal \o <<Msg(end, None, "none")>>
    <3>1. PICK end \in Ends, fatal \in {<<>>, <<Msg("ErrorResponse", None, "none")>>} :
             toClient' = toClient \o fatal \o <<Msg(end, None, "none")>>
      BY <2>4
    <3>2. fatal \in Seq(Messages)
          /\ \A i \in 1..Len(fatal) : fatal[i].of = None /\ fatal[i].type \in Unsolicited
      <4> DEFINE m == Msg("ErrorResponse", None, "none")
      <4>1. m \in Messages /\ m.of = None /\ m.type \in Unsolicited
        BY <1>1
      <4> HIDE DEF m
      <4>2. <<m>> \in Seq(Messages) /\ Len(<<m>>) = 1 /\ <<m>>[1] = m
        BY <4>1, OneIsSeq
      <4>3. fatal = <<>> \/ fatal = <<m>>
        BY <3>1 DEF m
      <4>4. CASE fatal = <<>>
        BY <4>4, EmptyIsSeq
      <4>5. CASE fatal = <<m>>
        BY <4>1, <4>2, <4>5
      <4> QED
        BY <4>3, <4>4, <4>5
    <3>3. Msg(end, None, "none") \in Messages /\ Msg(end, None, "none").of = None
          /\ Msg(end, None, "none").type \in Unsolicited
      BY <1>1 DEF Ends
    <3> QED
      BY <2>2, <3>1, <3>2, <3>3
  <2> QED
    BY <2>3, <2>4 DEF ServerDie
<1>3. (InFlight' <=> InFlight) /\ PendingInv'
  BY <1>0 DEF InFlight, OneExchange, PendingInv
<1>4. OwnerInv'
  BY <1>0, <1>2, <1>3 DEF OneExchange, OwnerInv, Owned, InFlight
<1>5. WriterInv'
  BY <1>0, <1>3 DEF OneExchange, WriterInv
<1>6. StreamInv'
  <2>1. ASSUME driver = "running", InFlight, NEW i \in 1..Len(toClient'),
               NEW j \in 1..Len(toClient'), i < j, toClient'[i].type = "ReadyForQuery"
        PROVE  toClient'[j].of = None
    <3>1. i \in 1..Len(toClient) /\ toClient'[i] = toClient[i]
      BY <1>2, <2>1 DEF Unsolicited, Ends
    <3> QED
      BY <1>2, <2>1, <3>1 DEF OneExchange, StreamInv
  <2>2. ASSUME driver = "running"
        PROVE  /\ InFlight => \A i \in 1..Len(toClient') : toClient'[i].of \in {None, pending.call}
               /\ pending = None /\ writer = "open"
                     => \A i \in 1..Len(toClient') : toClient'[i].of = None
    BY <1>2, <2>2 DEF OneExchange, StreamInv
  <2> QED
    BY <1>0, <1>3, <2>1, <2>2 DEF StreamInv
<1> QED
  BY <1>0, <1>3, <1>4, <1>5, <1>6 DEF OneExchange, ExchangeInv

LEMMA ServerOneExchange ==
    TypeOK /\ OneExchange /\ (ServerStep \/ ServerCopyAbort \/ ServerNotice \/ ServerDie)
    => OneExchange'
<1> SUFFICES ASSUME TypeOK, OneExchange,
                    ServerStep \/ ServerCopyAbort \/ ServerNotice \/ ServerDie
             PROVE  OneExchange'
  OBVIOUS
<1>T. srv \in Server
  BY DEF TypeOK
<1>1. CASE ServerEmit
  <2>1. PICK e \in Emits :
           Deliver([Msg(e.type, srv.call, e.arg) EXCEPT
                       !.n = IF e.type = "DataRow" THEN srv.rows + 1 ELSE 0], e.next)
    BY <1>1 DEF ServerEmit
  <2> DEFINE m == [Msg(e.type, srv.call, e.arg) EXCEPT
                      !.n = IF e.type = "DataRow" THEN srv.rows + 1 ELSE 0]
  <2>2. /\ m \in Messages /\ m.of = srv.call /\ m.type # "ReadyForQuery"
    BY <1>T, EmitsTyped DEF Msg, Messages, Server
  <2>3. toClient' = Append(toClient, m) /\ srv'.call = srv.call /\ srv'.stage = e.next
    BY <1>T, <2>1 DEF Deliver, Server
  <2> HIDE DEF m
  <2>4. srv'.stage \notin {"idle", "gone"} /\ srv.stage # "idle"
    BY <2>3, EmitsTyped DEF Emits
  <2> QED
    BY <1>1, <2>2, <2>3, <2>4, SendWithinExchange DEF ServerEmit, serverFrame, callerVars
<1>2. CASE ServerCopyAbort
  <2> DEFINE m == Msg("ErrorResponse", srv.call, "none")
  <2>1. m \in Messages /\ m.of = srv.call /\ m.type # "ReadyForQuery"
    BY <1>T DEF Msg, Messages, MsgTypes, Args, Server
  <2>2. toClient' = Append(toClient, m) /\ srv'.call = srv.call /\ srv'.stage = "ready"
    BY <1>T, <1>2 DEF ServerCopyAbort, Deliver, Server
  <2> HIDE DEF m
  <2> QED
    BY <1>2, <2>1, <2>2, SendWithinExchange DEF ServerCopyAbort, serverFrame, callerVars
<1>3. CASE ServerNotice
  <2> DEFINE m == Msg("Notice", None, "none")
  <2>1. m \in Messages /\ m.of = None /\ m.type \in Unsolicited
    BY DEF Msg, Messages, MsgTypes, Args, Unsolicited
  <2>2. toClient' = Append(toClient, m)
    BY <1>3 DEF ServerNotice
  <2> HIDE DEF m
  <2> QED
    BY <1>3, <2>1, <2>2, SendUnsolicited DEF ServerNotice, serverFrame, callerVars
<1> QED
  BY <1>1, <1>2, <1>3, TakeOneExchange, ReadyOneExchange, DieOneExchange DEF ServerStep

LEMMA NextOneExchange == TypeOK /\ OneExchange /\ [Next]_vars => OneExchange'
<1>1. ASSUME OneExchange, Quiescent \/ UNCHANGED vars PROVE OneExchange'
  BY <1>1 DEF Quiescent, vars, OneExchange, OwnerInv, Owned, WriterInv, StreamInv, ExchangeInv,
              PendingInv, InFlight, Written, Serving, Answered, CopyBatch
<1> QED
  BY <1>1, CallersOneExchange, StartOneExchange, ReadOneExchange, ServerOneExchange
     DEF Next, DriverStep

(* At most one exchange is under way and it is the pending command's: the   *)
(* strict FIFO pipelining of the run loop (recv only while nothing is       *)
(* pending, answer only at ReadyForQuery), for any mix of callers,          *)
(* cancellations, server answers and connection failures.                   *)
THEOREM ExchangesAreSerial == Spec => []OneExchange
<1>1. OneExchange /\ TypeOK /\ [Next]_vars => OneExchange'
  BY NextOneExchange
<1> QED
  BY <1>1, InitOneExchange, TypeCorrect, PTL DEF Spec

(* Between two commands of a usable connection the server is idle and no    *)
(* message of an earlier exchange is left to read: a cancelled, rejected or *)
(* failed call leaves nothing behind for the next one (driver.rs, run).     *)
THEOREM BoundariesAreClean == Spec => []CleanBoundary
<1>1. OneExchange => CleanBoundary
  BY DEF OneExchange, ExchangeInv, StreamInv, CleanBoundary, CopyBatch
<1> QED
  BY <1>1, ExchangesAreSerial, PTL

(* Between two commands DriverState::transaction_status is the server's.    *)
THEOREM StatusIsFresh == Spec => []IdleStatusFresh
<1>1. OneExchange => IdleStatusFresh
  BY DEF OneExchange, ExchangeInv, IdleStatusFresh
<1> QED
  BY <1>1, ExchangesAreSerial, PTL

OwnReply(c, r) == r # None /\ r.ok =>
                     /\ \A m \in r.seen : m.of = c
                     /\ \A i \in 1..Len(r.results) : OwnRows(r.results[i], c)

(* What the pending command is answered with at ReadyForQuery is its own.   *)
LEMMA OutcomeOwn ==
    ASSUME TypeOK, OneExchange, InFlight
    PROVE  OwnReply(pending.call, Outcome(pending))
<1>1. /\ \A m \in pending.seen : m.of = pending.call
      /\ OwnRows(pending.current, pending.call)
      /\ \A i \in 1..Len(pending.results) : OwnRows(pending.results[i], pending.call)
  BY DEF OneExchange, PendingInv
<1>2. Len(<<pending.current>>) = 1 /\ <<pending.current>>[1] = pending.current
  OBVIOUS
<1>3. \A i \in 1..Len(<<pending.current>>) : OwnRows(<<pending.current>>[i], pending.call)
  BY <1>1, <1>2
<1>4. CASE ~Outcome(pending).ok
  BY <1>4 DEF OwnReply
<1>5. CASE Outcome(pending).ok
  <2>1. /\ Outcome(pending).seen = pending.seen
        /\ Outcome(pending).results \in {pending.results, <<pending.current>>}
    BY <1>5 DEF Outcome, Ok, Err
  <2> QED
    BY <1>1, <1>3, <2>1 DEF OwnReply
<1> QED
  BY <1>4, <1>5

LEMMA NextReplyIsOwn ==
    TypeOK /\ OneExchange /\ ReplyIsOwn /\ [Next]_vars => ReplyIsOwn'
<1> SUFFICES ASSUME TypeOK, OneExchange, ReplyIsOwn, [Next]_vars PROVE ReplyIsOwn'
  OBVIOUS
<1> USE DEF callerVars, wireVars, serverFrame
<1>0. reply \in [Calls -> Replies \cup {None}] /\ \A c \in Calls : OwnReply(c, reply[c])
  BY DEF TypeOK, ReplyIsOwn, OwnReply
<1>1. SUFFICES \A c \in Calls : OwnReply(c, reply'[c])
  BY <1>1 DEF ReplyIsOwn, OwnReply
<1>E. \A c, e : OwnReply(c, Err(e))
  BY DEF OwnReply, Err
<1>2. ASSUME NEW c, NEW r, OwnReply(c, r)
      PROVE  /\ \A d \in Calls : OwnReply(d, Answer(reply, c, r)[d])
             /\ DOMAIN Answer(reply, c, r) = Calls
  <2>1. CASE c = None
    BY <1>0, <2>1 DEF Answer
  <2>2. CASE c # None
    <3>1. Answer(reply, c, r) = [reply EXCEPT ![c] = r]
      BY <2>2 DEF Answer
    <3>2. ASSUME NEW d \in Calls PROVE OwnReply(d, [reply EXCEPT ![c] = r][d])
      <4>1. CASE d = c
        BY <1>0, <1>2, <4>1
      <4>2. CASE d # c
        BY <1>0, <4>2
      <4> QED
        BY <4>1, <4>2
    <3> QED
      BY <1>0, <3>1, <3>2
  <2> QED
    BY <2>1, <2>2
<1>3. ASSUME NEW q, NEW rs, \A d \in Calls : OwnReply(d, rs[d]), CloseInbox(q, rs)
      PROVE  \A d \in Calls : OwnReply(d, reply'[d])
  <2> TAKE d \in Calls
  <2>1. reply'[d] = Err("Closed") \/ reply'[d] = rs[d]
    BY <1>3 DEF CloseInbox
  <2> QED
    BY <1>3, <1>E, <2>1
<1>4. CASE reply' = reply
  BY <1>0, <1>4
<1>5. CASE \E c \in Calls : \E k, doing : Enqueue(c, k, doing)
  <2>1. PICK c \in Calls : reply' = reply \/ reply' = [reply EXCEPT ![c] = Err("Closed")]
    BY <1>5 DEF Enqueue
  <2>2. CASE reply' = [reply EXCEPT ![c] = Err("Closed")]
    <3> TAKE d \in Calls
    <3>1. reply'[d] = Err("Closed") \/ reply'[d] = reply[d]
      BY <1>0, <2>2
    <3> QED
      BY <1>0, <1>E, <3>1
  <2> QED
    BY <1>4, <2>1, <2>2
<1>6. CASE Callers
  BY <1>4, <1>5, <1>6 DEF Callers, Send, Cancel, SessionClose, SessionCloseReturns,
                          SessionDrop, HandlesDrop
<1>7. CASE StartBuildError \/ StartFlushError
  <2>1. \E e : reply' = Answer(reply, Head(inbox).call, Err(e))
    BY <1>7 DEF StartBuildError, StartFlushError
  <2> QED
    BY <1>2, <1>E, <2>1
<1>8. CASE StartClose
  <2>1. PICK r \in {Ok("Close", <<>>, {}), Err("Io")} :
           CloseInbox(Tail(inbox), Answer(reply, Head(inbox).call, r))
    BY <1>8 DEF StartClose
  <2>2. OwnReply(Head(inbox).call, Ok("Close", <<>>, {}))
    BY EmptyIsSeq DEF OwnReply, Ok
  <2>3. OwnReply(Head(inbox).call, r)
    BY <1>E, <2>1, <2>2
  <2> QED
    BY <1>2, <1>3, <2>1, <2>3
<1>9. CASE OnReadyForQuery
  <2>1. CASE InFlight
    <3>1. reply' = Answer(reply, pending.call, Outcome(pending))
      BY <1>9, <2>1 DEF OnReadyForQuery, InFlight
    <3>2. OwnReply(pending.call, Outcome(pending))
      BY <2>1, OutcomeOwn
    <3> QED
      BY <1>2, <3>1, <3>2
  <2>2. CASE ~InFlight
    BY <1>4, <1>9, <2>2 DEF OnReadyForQuery, InFlight
  <2> QED
    BY <2>1, <2>2
<1>10. CASE OnCopyWriteError \/ OnReaderEnd
  <2>1. PICK e : FailPending(e)
    BY <1>10 DEF OnCopyWriteError, OnReaderEnd
  <2>2. CASE pending = None
    BY <1>0, <1>3, <2>1, <2>2 DEF FailPending
  <2>3. CASE pending # None
    BY <1>2, <1>3, <1>E, <2>1, <2>3 DEF FailPending
  <2> QED
    BY <2>2, <2>3
<1>11. CASE StartFlushed \/ Shutdown \/ OnMessage \/ OnCopyInResponseIgnored \/ OnCopyInResponse
  BY <1>4, <1>11 DEF StartFlushed, Shutdown, OnMessage, OnCopyInResponseIgnored, OnCopyInResponse
<1>12. CASE ServerTake \/ ServerEmit \/ ServerReady \/ ServerCopyAbort \/ ServerNotice
            \/ ServerDie \/ Quiescent \/ UNCHANGED vars
  BY <1>4, <1>12 DEF ServerTake, ServerEmit, ServerReady, ServerCopyAbort, ServerNotice,
                     ServerDie, Quiescent, vars
<1> QED
  BY <1>6, <1>7, <1>8, <1>9, <1>10, <1>11, <1>12 DEF Next, DriverStep, ServerStep

(* No response is ever matched to the wrong caller: what a successful reply *)
(* carries was sent by the server for that very command (on_message), for   *)
(* any number of callers and any interleaving of cancellations and faults.  *)
THEOREM RepliesAreOwn == Spec => []ReplyIsOwn
<1>1. Init => ReplyIsOwn
  BY DEF Init, ReplyIsOwn
<1>2. TypeOK /\ OneExchange /\ ReplyIsOwn /\ [Next]_vars => ReplyIsOwn'
  BY NextReplyIsOwn
<1> QED
  BY <1>1, <1>2, TypeCorrect, ExchangesAreSerial, PTL DEF Spec

-----------------------------------------------------------------------------
(* What the replies say.  The invariant follows a call from the channel to  *)
(* its answer, and the answer from the server's messages to the pending     *)
(* command.                                                                 *)

(* What a call owns before it is started: nothing.                          *)
Untouched(c) == reply[c] = None /\ served[c] = <<>> /\ faults[c] = <<>>
Queued(c) == \E i \in 1..Len(inbox) : inbox[i].call = c
Pends(c) == pending # None /\ pending.call = c
Apart == \A i, j \in 1..Len(inbox) : i < j => inbox[i].call # inbox[j].call \/ inbox[i].call = None

(* A call enters the channel once, waits there untouched, and is answered   *)
(* only when it is no longer under way.                                     *)
OnceInv ==
    /\ \A c \in Calls : call[c] = "idle" => Untouched(c) /\ ~Queued(c) /\ ~Pends(c)
    /\ \A c \in Calls : Queued(c) => Untouched(c) /\ ~Pends(c)
    /\ \A c \in Calls : Pends(c) => reply[c] = None
    /\ Apart

(* Behind the Close sentinel nothing is served any more.                    *)
ClosingInv ==
    pending # None /\ pending.kind = "Close" =>
        /\ pending.call = None
        /\ driver = "running" /\ srv.stage # "gone" =>
              /\ srv.stage = "idle"
              /\ \A i \in 1..Len(toServer) : CopyBatch(toServer[i]) \/ toServer[i].kind = "Close"

(* What the server is working on.                                           *)
BusyInv ==
    /\ srv.stage \in {"begin", "describe", "params", "exec"} => srv.rows = 0
    /\ srv.stage = "params" => srv.kind = "Prepare"
    /\ srv.stage = "describe" => srv.kind \in {"Prepare", "ExtendedQuery"}
    /\ driver = "running" /\ InFlight /\ srv.stage \notin {"idle", "gone"} => srv.kind = pending.kind

(* Outside an exchange a live server sends notices only, and nothing of an  *)
(* exchange follows the errors and ends that a dying one sends.             *)
QuietInv ==
    driver = "running" =>
        /\ srv.stage # "gone" =>
              \A i \in 1..Len(toClient) : toClient[i].of = None => toClient[i].type = "Notice"
        /\ InFlight =>
              \A i, j \in 1..Len(toClient) :
                 i < j /\ toClient[i].of = None /\ toClient[i].type # "Notice"
                     => toClient[j].type # "ReadyForQuery"

(* The server finds fault with a column count or a format only where the    *)
(* pending command looks at it.                                             *)
Fits(m, kind) ==
    /\ m.arg = "misaligned" => m.type \in {"RowDescription", "NoData"} /\ kind = "ExtendedQuery"
    /\ m.arg = "text" => m.type = "CopyInResponse" /\ kind = "CopyIn"
    /\ m.type = "CopyInResponse" => m.arg \in {"binary", "text"}
FitInv ==
    driver = "running" /\ InFlight =>
        \A i \in 1..Len(toClient) : toClient[i].of # None => Fits(toClient[i], pending.kind)

(* The exchange can still be answered.                                      *)
Live == srv.stage # "gone" \/ \E i \in 1..Len(toClient) : toClient[i].type = "ReadyForQuery"

FaultOf(m) == IF m.type = "ErrorResponse" THEN "Server"
              ELSE IF m.arg = "misaligned" THEN "ColumnAlignment"
              ELSE IF m.arg = "text" THEN "NotBinary" ELSE None
Blamed == {"Server", "ColumnAlignment", "NotBinary"}
Innocent(m) == m.of # None => FaultOf(m) = None

(* Where the first of the faults fs shows: in the error that the pending    *)
(* command carries, or else in the first message of t that is not innocent. *)
Blames(error, fs, t) ==
    /\ error \in Blamed => fs # <<>> /\ error = Head(fs)
    /\ error = None /\ fs = <<>> => \A i \in 1..Len(t) : Innocent(t[i])
    /\ error = None /\ fs # <<>> =>
          \E k \in 1..Len(t) : /\ t[k].of # None /\ FaultOf(t[k]) = Head(fs)
                              /\ \A j \in 1..(k - 1) : Innocent(t[j])

(* The pending command carries its first fault, or will read it first.      *)
FaultInv ==
    driver = "running" /\ InFlight /\ Live =>
        /\ Blames(pending.error, faults[pending.call], toClient)
        /\ pending.kind = "SimpleQuery" => pending.error \in {None, "Server"}

(* What a pending query has collected, and what a message adds to it.       *)
Hold(p) == [results |-> p.results, current |-> p.current]
Step(kind, x, m) ==
    [results |-> IF kind = "SimpleQuery" /\ m.type = "CommandComplete"
                 THEN Append(x.results, x.current)
                 ELSE IF kind = "SimpleQuery" /\ m.type = "EmptyQueryResponse"
                 THEN Append(x.results, <<>>) ELSE x.results,
     current |-> IF m.type = "DataRow" THEN Append(x.current, [of |-> m.of, n |-> m.n])
                 ELSE IF kind = "SimpleQuery" /\ m.type = "CommandComplete"
                 THEN <<>> ELSE x.current]

(* f[i] is what x has become when the first i messages of t are read.       *)
Path(f, kind, x, t) ==
    f[0] = x /\ \A i \in 1..Len(t) : f[i] = Step(kind, f[i - 1], t[i])

(* The rows of a result set of k rows, and the sets of these sizes.         *)
RowsTo(c, k) == [j \in 1..k |-> [of |-> c, n |-> j]]
Sets(c, sizes) == [i \in 1..Len(sizes) |-> RowsTo(c, sizes[i])]

(* x is all that the server sent for c when c is answered, and so far.      *)
Whole(kind, c, sizes, x) == (IF kind = "SimpleQuery" THEN x.results ELSE <<x.current>>) = Sets(c, sizes)
SoFar(kind, c, stage, rows, sizes, x) ==
    IF stage = "idle" THEN sizes = <<>> /\ x.results = <<>> /\ x.current = <<>>
    ELSE IF kind = "SimpleQuery" THEN x.results = Sets(c, sizes) /\ x.current = RowsTo(c, rows)
    ELSE IF stage = "ready" THEN <<x.current>> = Sets(c, sizes)
    ELSE sizes = <<>> /\ x.current = RowsTo(c, rows)

(* What is collected along f is whole at the ReadyForQuery, and up to date  *)
(* as long as there is none.                                                *)
NoReady(t) == \A r \in 1..Len(t) : t[r].type # "ReadyForQuery"
Covers(f, kind, c, x, t, stage, rows, sizes) ==
    /\ Path(f, kind, x, t)
    /\ \A r \in 1..Len(t) : t[r].type = "ReadyForQuery" => Whole(kind, c, sizes, f[r])
    /\ stage # "gone" /\ NoReady(t) => SoFar(kind, c, stage, rows, sizes, f[Len(t)])

(* Unless something is wrong with it, a pending query will have collected   *)
(* all that the server sent for it when it reads its ReadyForQuery.         *)
Gathers(f) == Covers(f, pending.kind, pending.call, Hold(pending), toClient,
                     srv.stage, srv.rows, served[pending.call])
RowInv ==
    driver = "running" /\ InFlight /\ Live /\ pending.kind \in RowKinds /\ faults[pending.call] = <<>> =>
        \E f : Gathers(f)

(* Sequences: one element more at the end.                                  *)
LEMMA ConcatOne ==
    ASSUME NEW S, NEW s \in Seq(S), NEW x \in S
    PROVE  s \o <<x>> = Append(s, x) /\ s \o <<>> = s
  OBVIOUS

EndsSet == {"CommandComplete", "EmptyQueryResponse", "PortalSuspended"}

(* How what the server sends depends on the command and on where it is.     *)
Allowed(kind, rows, type, arg, next) ==
    /\ type = "DataRow" => next = "rows"
    /\ next \in {"begin", "describe", "params", "exec"} => rows = 0 \/ type \in EndsSet
    /\ next = "params" => kind = "Prepare"
    /\ next = "describe" => kind \in {"Prepare", "ExtendedQuery"}
    /\ arg = "misaligned" => type \in {"RowDescription", "NoData"} /\ kind = "ExtendedQuery"
    /\ arg = "text" => type = "CopyInResponse" /\ kind = "CopyIn"
    /\ type = "CopyInResponse" => arg \in {"binary", "text"}
    /\ kind = "SimpleQuery" =>
          /\ type # "PortalSuspended"
          /\ type = "EmptyQueryResponse" => rows = 0
    /\ kind \in RowKinds \ {"SimpleQuery"} =>
          /\ type \in EndsSet => next = "ready"
          /\ next = "ready" => type \in EndsSet \cup {"ErrorResponse"}

LEMMA EmitsAllowed ==
    ASSUME BusyInv
    PROVE  /\ \A e \in Emits : Allowed(srv.kind, srv.rows, e.type, e.arg, e.next)
           /\ Emits # {} => srv.stage \notin {"idle", "gone", "ready"}
<1> DEFINE Good(e) == Allowed(srv.kind, srv.rows, e.type, e.arg, e.next)
<1> USE DEF EndsSet, RowKinds
<1>1. \A e \in CopyByQuery : Good(e)
  BY DEF Allowed, Emit, CopyByQuery, CopyStart
<1>2. \A e \in RowsEmits(srv.kind) : Good(e)
  BY DEF Allowed, Emit, RowsEmits, Failure, Complete
<1>3. ASSUME srv.rows = 0 PROVE \A e \in BeginEmits(srv.kind) : Good(e)
  BY <1>1, <1>2, <1>3 DEF Allowed, Emit, BeginEmits, Failure, Complete, Empty, CopyStart
<1>4. ASSUME srv.rows = 0, srv.kind \in {"Prepare", "ExtendedQuery"}
      PROVE  \A e \in DescribeEmits(srv.kind) : Good(e)
  BY <1>4 DEF Allowed, Emit, DescribeEmits
<1>5. Good(Failure) /\ Good(Complete) /\ (srv.rows = 0 => Good(Empty))
  BY DEF Allowed, Emit, Failure, Complete, Empty
<1>6. ASSUME srv.rows = 0, srv.kind = "Prepare"
      PROVE  Good(Emit("ParameterDescription", "none", "describe"))
  BY <1>6 DEF Allowed, Emit
<1> HIDE DEF Good
<1>7. \A e \in Emits : Good(e)
  BY <1>1, <1>2, <1>3, <1>4, <1>5, <1>6 DEF Emits, BusyInv
<1>8. Emits # {} => srv.stage \notin {"idle", "gone", "ready"}
  BY DEF Emits
<1> QED
  BY <1>7, <1>8 DEF Good

(* One message of the exchange that is being served.                        *)
Sends(m, stage) ==
    /\ driver = "running" /\ srv.stage \notin {"idle", "gone", "ready"}
    /\ srv.call \in Calls /\ m.of = srv.call
    /\ m.type \notin {"ReadyForQuery", "Notice"} \cup Ends
    /\ m.type = "DataRow" => m.n = srv.rows + 1
    /\ Allowed(srv.kind, srv.rows, m.type, m.arg, stage)
    /\ stage \in ServerStages \ {"idle", "gone"}
    /\ toClient' = Append(toClient, m)
    /\ srv'.stage = stage /\ srv'.call = srv.call /\ srv'.kind = srv.kind
    /\ srv'.rows = IF m.type = "DataRow" THEN srv.rows + 1
                   ELSE IF m.type \in EndsSet THEN 0 ELSE srv.rows
    /\ \A c \in Calls : served'[c] = IF c = srv.call /\ m.type \in EndsSet
                                     THEN Append(served[c], srv.rows) ELSE served[c]
    /\ \A c \in Calls : faults'[c] = IF c = srv.call /\ FaultOf(m) # None
                                     THEN Append(faults[c], FaultOf(m)) ELSE faults[c]
    /\ UNCHANGED <<call, reply, inbox, inboxOpen, driver, pending, toServer>>

LEMMA DeliverSends ==
    ASSUME TypeOK, OneExchange, Connected, srv.stage \notin {"idle", "ready"},
           NEW m \in Messages, NEW stage \in ServerStages \ {"idle", "gone"},
           m.of = srv.call, m.type \notin {"ReadyForQuery", "Notice"} \cup Ends,
           m.type = "DataRow" => m.n = srv.rows + 1,
           Allowed(srv.kind, srv.rows, m.type, m.arg, stage),
           Deliver(m, stage), UNCHANGED <<serverFrame, toServer, notices>>
    PROVE  Sends(m, stage)
<1>1. driver = "running" /\ srv.stage # "gone" /\ srv.call \in Calls /\ srv \in Server
  BY DEF Connected, OneExchange, OwnerInv, TypeOK, Server
<1>2. /\ toClient' = Append(toClient, m)
      /\ srv'.stage = stage /\ srv'.call = srv.call /\ srv'.kind = srv.kind
      /\ srv'.rows = IF m.type = "DataRow" THEN srv.rows + 1
                     ELSE IF m.type \in EndsSet THEN 0 ELSE srv.rows
  BY <1>1 DEF Deliver, Server, EndsSet
<1>3. ASSUME NEW c \in Calls
      PROVE  served'[c] = IF c = srv.call /\ m.type \in EndsSet
                          THEN Append(served[c], srv.rows) ELSE served[c]
  BY <1>1 DEF Deliver, TypeOK, EndsSet
<1>4. ASSUME NEW c \in Calls
      PROVE  faults'[c] = IF c = srv.call /\ FaultOf(m) # None
                          THEN Append(faults[c], FaultOf(m)) ELSE faults[c]
  <2> DEFINE fault == CASE m.type = "ErrorResponse" -> <<"Server">>
                        [] m.arg = "misaligned" -> <<"ColumnAlignment">>
                        [] m.arg = "text" -> <<"NotBinary">>
                        [] OTHER -> <<>>
  <2>1. fault = IF FaultOf(m) = None THEN <<>> ELSE <<FaultOf(m)>>
    <3>1. None # "Server" /\ None # "ColumnAlignment" /\ None # "NotBinary"
      BY NoneAssumption DEF Errors
    <3>2. CASE m.type = "ErrorResponse"
      <4>1. m.arg # "misaligned" /\ m.arg # "text"
        BY <3>2 DEF Allowed
      <4> QED
        BY <3>1, <3>2, <4>1 DEF FaultOf
    <3>3. CASE m.type # "ErrorResponse" /\ m.arg = "misaligned"
      BY <3>1, <3>3 DEF FaultOf
    <3>4. CASE m.type # "ErrorResponse" /\ m.arg = "text"
      BY <3>1, <3>4 DEF FaultOf
    <3>5. CASE m.type # "ErrorResponse" /\ m.arg \notin {"misaligned", "text"}
      BY <3>1, <3>5 DEF FaultOf
    <3> QED
      BY <3>2, <3>3, <3>4, <3>5
  <2>2. FaultOf(m) = None \/ FaultOf(m) \in Errors
    BY DEF FaultOf, Errors
  <2>3. faults' = [faults EXCEPT ![srv.call] = @ \o fault]
    BY DEF Deliver
  <2> HIDE DEF fault
  <2>4. faults[c] \in Seq(Errors) /\ faults \in [Calls -> Seq(Errors)]
    BY DEF TypeOK
  <2>5. faults'[c] = IF c = srv.call THEN faults[c] \o fault ELSE faults[c]
    BY <1>1, <2>3, <2>4
  <2>6. CASE FaultOf(m) = None
    <3>1. faults[c] \o <<>> = faults[c]
      BY <2>4
    <3> QED
      BY <2>1, <2>5, <2>6, <3>1
  <2>7. CASE FaultOf(m) \in Errors /\ FaultOf(m) # None
    <3>1. faults[c] \o <<FaultOf(m)>> = Append(faults[c], FaultOf(m))
      BY <2>4, <2>7, ConcatOne
    <3> QED
      BY <2>1, <2>5, <2>7, <3>1
  <2> QED
    BY <2>2, <2>6, <2>7
<1> QED
  BY <1>1, <1>2, <1>3, <1>4 DEF Sends, serverFrame, callerVars

LEMMA ServerSends ==
    ASSUME TypeOK, OneExchange, BusyInv, ServerEmit \/ ServerCopyAbort
    PROVE  \E m \in Messages, stage \in ServerStages : Sends(m, stage)
<1>0. Connected /\ UNCHANGED <<serverFrame, toServer, notices>>
  BY DEF ServerEmit, ServerCopyAbort
<1>1. CASE ServerEmit
  <2>1. PICK e \in Emits :
           Deliver([Msg(e.type, srv.call, e.arg) EXCEPT !.n = IF e.type = "DataRow"
                                                             THEN srv.rows + 1 ELSE 0], e.next)
    BY <1>1 DEF ServerEmit
  <2> DEFINE m == [Msg(e.type, srv.call, e.arg) EXCEPT !.n = IF e.type = "DataRow"
                                                             THEN srv.rows + 1 ELSE 0]
  <2>2. /\ e.type \in MsgTypes \ ({"ReadyForQuery", "Notice"} \cup Ends) /\ e.arg \in Args
        /\ e.next \in ServerStages \ {"idle", "gone"}
    BY EmitsTyped
  <2>3. /\ m.type = e.type /\ m.of = srv.call /\ m.arg = e.arg
        /\ m.n = IF e.type = "DataRow" THEN srv.rows + 1 ELSE 0
    BY DEF Msg
  <2>4. m \in Messages
    <3>1. srv.rows \in Nat /\ srv.call \in Calls \cup {None}
      BY DEF TypeOK, Server
    <3>2. (IF e.type = "DataRow" THEN srv.rows + 1 ELSE 0) \in Nat
      BY <3>1
    <3> QED
      BY <2>2, <3>1, <3>2 DEF Msg, Messages
  <2>5. Deliver(m, e.next)
    BY <2>1
  <2> HIDE DEF m
  <2>6. Allowed(srv.kind, srv.rows, m.type, m.arg, e.next)
    BY <2>3, EmitsAllowed
  <2>7. srv.stage \notin {"idle", "gone", "ready"}
    BY EmitsAllowed
  <2>8. Sends(m, e.next)
    BY <1>0, <2>2, <2>3, <2>4, <2>5, <2>6, <2>7, DeliverSends
  <2> QED
    BY <2>2, <2>4, <2>8
<1>2. CASE ServerCopyAbort
  <2> DEFINE m == Msg("ErrorResponse", srv.call, "none")
  <2>1. Deliver(m, "ready") /\ srv.stage = "copy"
    BY <1>2 DEF ServerCopyAbort
  <2>2. m.type = "ErrorResponse" /\ m.of = srv.call /\ m.arg = "none" /\ m \in Messages
    BY DEF Msg, Messages, TypeOK, Server, MsgTypes, Args
  <2> HIDE DEF m
  <2>3. Allowed(srv.kind, srv.rows, m.type, m.arg, "ready")
    BY <2>2 DEF Allowed, EndsSet
  <2>4. Sends(m, "ready")
    BY <1>0, <2>1, <2>2, <2>3, DeliverSends DEF ServerStages, Ends
  <2> QED
    BY <2>2, <2>4 DEF ServerStages
<1> QED
  BY <1>1, <1>2

(* The state of the connection, as far as the answers depend on it.         *)
WireInv == ClosingInv /\ BusyInv /\ QuietInv /\ FitInv

(* A message is read and the loop goes on.                                  *)
ReadsOn ==
    /\ driver = "running" /\ \E types : Read(types)
    /\ UNCHANGED <<driver, srv, served, faults, call, inbox, inboxOpen>>
    /\ \/ pending' = None
       \/ /\ pending # None /\ pending' # None
          /\ pending'.call = pending.call /\ pending'.kind = pending.kind
    /\ toServer' = toServer \/ InFlight

(* ... within an exchange.                                                  *)
LEMMA ReadWithin ==
    ASSUME TypeOK, OneExchange, OnMessage \/ OnCopyInResponseIgnored \/ OnCopyInResponse
    PROVE  /\ ReadsOn /\ reply' = reply /\ (pending # None => pending' # None)
           /\ \E types : Read(types) /\ types \cap (Ends \cup {"ReadyForQuery"}) = {}
<1> USE DEF callerVars, wireVars
<1>P. pending # None => pending \in Pending
  BY DEF TypeOK
<1>1. CASE OnMessage
  <2> DEFINE T == MsgTypes \ (Ends \cup {"ReadyForQuery", "CopyInResponse"})
  <2>1. /\ Read(T) /\ T \cap (Ends \cup {"ReadyForQuery"}) = {} /\ toServer' = toServer
        /\ UNCHANGED <<driver, srv, served, faults, call, inbox, inboxOpen, reply>>
        /\ pending' = IF pending = None THEN None ELSE Absorb(pending, Head(toClient))
    BY <1>1 DEF OnMessage
  <2> HIDE DEF T
  <2>2. Head(toClient) \in Messages /\ Head(toClient) = toClient[1] /\ 1 \in 1..Len(toClient)
        /\ driver = "running"
    BY <2>1, ReadShifts DEF Read
  <2>3. ASSUME pending # None
        PROVE  pending' # None /\ pending'.call = pending.call /\ pending'.kind = pending.kind
    <3>1. pending' \in Pending /\ pending' = Absorb(pending, Head(toClient))
      BY <1>P, <2>1, <2>2, <2>3, AbsorbTyped
    <3>2. ASSUME pending.kind = "Close" PROVE pending' = pending
      BY <3>1, <3>2 DEF Absorb, RowKinds, Stored
    <3>3. ASSUME pending.kind # "Close"
          PROVE  pending'.kind = pending.kind /\ pending'.call = pending.call
      <4>1. Head(toClient).of = pending.call \/ Head(toClient).type \in Unsolicited
        BY <2>2, <2>3, <3>3 DEF OneExchange, StreamInv, OwnerInv, InFlight
      <4> QED
        BY <1>P, <2>2, <2>3, <3>1, <4>1, AbsorbOwn
    <3> QED
      BY <3>1, <3>2, <3>3, NoneAssumption
  <2> QED
    BY <2>1, <2>2, <2>3 DEF ReadsOn
<1>2. CASE OnCopyInResponseIgnored
  <2>1. /\ Read({"CopyInResponse"}) /\ driver = "running"
        /\ UNCHANGED <<driver, pending, srv, served, faults, call, inbox, inboxOpen, reply, toServer>>
    BY <1>2 DEF OnCopyInResponseIgnored, Read
  <2>2. {"CopyInResponse"} \cap (Ends \cup {"ReadyForQuery"}) = {}
    BY DEF Ends
  <2> QED
    BY <2>1, <2>2 DEF ReadsOn
<1>3. CASE OnCopyInResponse
  <2>1. /\ Read({"CopyInResponse"}) /\ driver = "running"
        /\ UNCHANGED <<driver, srv, served, faults, call, inbox, inboxOpen, reply>>
    BY <1>3 DEF OnCopyInResponse, Read
  <2>2. InFlight /\ pending \in Pending
    BY <1>3, <1>P DEF OnCopyInResponse, CopyInPending, InFlight
  <2>3. pending' = pending \/ \E e \in Errors : pending' = FirstError(pending, e)
    BY <1>3 DEF OnCopyInResponse, Errors
  <2>4. pending' \in Pending /\ pending'.call = pending.call /\ pending'.kind = pending.kind
    BY <2>2, <2>3 DEF FirstError, Pending
  <2> QED
    BY <2>1, <2>2, <2>4, NoneAssumption DEF ReadsOn, Ends, InFlight
<1> QED
  BY <1>1, <1>2, <1>3

LEMMA ReadReady ==
    ASSUME TypeOK, OnReadyForQuery
    PROVE  /\ ReadsOn /\ Read({"ReadyForQuery"})
           /\ InFlight => pending' = None /\ reply' = Answer(reply, pending.call, Outcome(pending))
           /\ ~InFlight => UNCHANGED <<pending, reply>>
<1> USE DEF callerVars, wireVars
<1>1. /\ driver = "running" /\ Read({"ReadyForQuery"})
      /\ UNCHANGED <<driver, srv, served, faults, call, inbox, inboxOpen, toServer>>
  BY DEF OnReadyForQuery, Read
<1>2. /\ InFlight => pending' = None /\ reply' = Answer(reply, pending.call, Outcome(pending))
      /\ ~InFlight => pending' = pending /\ reply' = reply
  BY DEF OnReadyForQuery, InFlight
<1> QED
  BY <1>1, <1>2 DEF ReadsOn, InFlight

LEMMA ReadWire ==
    ASSUME TypeOK, OneExchange, WireInv, ReadsOn
    PROVE  WireInv'
<1>1. PICK types : Read(types)
  BY DEF ReadsOn
<1>2. /\ Len(toClient) \in Nat /\ Len(toClient') = Len(toClient) - 1
      /\ \A i \in 1..Len(toClient') : toClient'[i] = toClient[i + 1] /\ i + 1 \in 1..Len(toClient)
  BY <1>1, ReadShifts
<1>3. InFlight' => InFlight /\ pending'.kind = pending.kind
  BY DEF ReadsOn, InFlight
<1>4. ClosingInv'
  BY DEF WireInv, ClosingInv, ReadsOn, InFlight
<1>5. BusyInv'
  BY <1>3 DEF WireInv, BusyInv, ReadsOn
<1>6. QuietInv'
  <2>1. ASSUME srv.stage # "gone", NEW i \in 1..Len(toClient'), toClient'[i].of = None
        PROVE  toClient'[i].type = "Notice"
    BY <1>2, <2>1 DEF WireInv, QuietInv, ReadsOn
  <2>2. ASSUME InFlight, NEW i \in 1..Len(toClient'), NEW j \in 1..Len(toClient'), i < j,
               toClient'[i].of = None, toClient'[i].type # "Notice"
        PROVE  toClient'[j].type # "ReadyForQuery"
    <3>1. /\ i + 1 \in 1..Len(toClient) /\ j + 1 \in 1..Len(toClient) /\ i + 1 < j + 1
          /\ toClient'[i] = toClient[i + 1] /\ toClient'[j] = toClient[j + 1]
      BY <1>2, <2>2
    <3> QED
      BY <2>2, <3>1 DEF WireInv, QuietInv, ReadsOn
  <2>3. srv' = srv
    BY DEF ReadsOn
  <2> QED
    BY <1>3, <2>1, <2>2, <2>3 DEF QuietInv
<1>7. FitInv'
  <2>1. ASSUME InFlight, NEW i \in 1..Len(toClient'), toClient'[i].of # None
        PROVE  Fits(toClient'[i], pending.kind)
    BY <1>2, <2>1 DEF WireInv, FitInv, ReadsOn
  <2> QED
    BY <1>3, <2>1 DEF FitInv
<1> QED
  BY <1>4, <1>5, <1>6, <1>7 DEF WireInv

(* A command is started, and nothing of an exchange is under way.           *)
LEMMA StartWire ==
    ASSUME TypeOK, OneExchange, WireInv, StartFlushed
    PROVE  /\ WireInv' /\ InFlight' /\ pending' = Fresh(Head(inbox))
           /\ Head(inbox) \in Commands /\ Head(inbox).call \in Calls
           /\ pending = None /\ driver = "running" /\ (srv.stage # "gone" => srv.stage = "idle")
           /\ \A i \in 1..Len(toClient) : toClient[i].of = None /\ toClient[i].type # "ReadyForQuery"
<1> USE DEF callerVars, wireVars
<1> DEFINE b == Head(inbox)
<1>1. /\ b.kind # "Close" /\ driver = "running" /\ pending = None /\ writer = "open"
      /\ pending' = Fresh(b) /\ inbox # <<>>
      /\ UNCHANGED <<driver, toClient, srv>>
  BY DEF StartFlushed, Recv, FlushOk
<1>2. b \in Commands /\ b.call \in Calls
  <2>1. b \in Commands /\ b = inbox[1] /\ Len(inbox) >= 1 /\ Len(inbox) \in Nat
    BY <1>1, TailIsSeq DEF TypeOK
  <2>2. Owned(inbox)
    BY DEF OneExchange, OwnerInv
  <2> QED
    BY <1>1, <2>1, <2>2 DEF Owned, Commands
<1> HIDE DEF b
<1>3. pending' \in Pending /\ pending'.kind = b.kind /\ InFlight'
  BY <1>1, <1>2, FreshTyped, NoneAssumption DEF InFlight, Fresh
<1>4. srv.stage # "gone" => srv.stage = "idle"
  BY <1>1 DEF OneExchange, ExchangeInv
<1>5. \A i \in 1..Len(toClient) : toClient[i].of = None /\ toClient[i].type # "ReadyForQuery"
  BY <1>1 DEF OneExchange, StreamInv, OwnerInv, Unsolicited, Ends
<1>6. ClosingInv'
  BY <1>1, <1>3 DEF ClosingInv, InFlight
<1>7. BusyInv'
  BY <1>1, <1>4 DEF WireInv, BusyInv
<1>8. QuietInv'
  BY <1>1, <1>5 DEF WireInv, QuietInv
<1>9. FitInv'
  BY <1>1, <1>5 DEF FitInv
<1> QED
  BY <1>1, <1>2, <1>3, <1>4, <1>5, <1>6, <1>7, <1>8, <1>9 DEF WireInv, b

LEMMA CloseWire ==
    ASSUME TypeOK, OneExchange, WireInv, StartClose
    PROVE  /\ WireInv' /\ ~InFlight' /\ pending' # None /\ pending'.call = None
<1> USE DEF callerVars, wireVars
<1>1. /\ driver = "running" /\ pending = None /\ inbox # <<>> /\ Head(inbox).kind = "Close"
      /\ pending' = Fresh([call |-> None, kind |-> "Close"])
      /\ toServer' = toServer \/ toServer' = Append(toServer, Head(inbox))
      /\ UNCHANGED <<driver, toClient, srv>>
  BY DEF StartClose, Recv, FlushOk
<1>2. [call |-> None, kind |-> "Close"] \in Commands
  BY DEF Commands, CommandKinds
<1>3. pending' # None /\ pending'.kind = "Close" /\ pending'.call = None /\ ~InFlight'
  BY <1>1, <1>2, FreshTyped, NoneAssumption DEF InFlight, Fresh
<1>4. ASSUME srv.stage # "gone"
      PROVE  /\ srv.stage = "idle"
             /\ \A i \in 1..Len(toServer') : CopyBatch(toServer'[i]) \/ toServer'[i].kind = "Close"
  <2>1. srv.stage = "idle" /\ \A i \in 1..Len(toServer) : CopyBatch(toServer[i])
    BY <1>1, <1>4 DEF OneExchange, ExchangeInv
  <2>2. CASE toServer' = Append(toServer, Head(inbox))
    <3>1. Head(inbox) \in Batches /\ toServer \in Seq(Batches)
      <4>1. inbox \in Seq(Commands) /\ inbox # <<>> /\ toServer \in Seq(Batches)
        BY <1>1 DEF TypeOK
      <4>2. Head(inbox) \in Commands
        BY <4>1, TailIsSeq
      <4> QED
        BY <4>1, <4>2 DEF Commands, Batches
    <3>2. /\ Len(toServer') = Len(toServer) + 1 /\ Len(toServer) \in Nat
          /\ \A i \in 1..Len(toServer) : toServer'[i] = toServer[i]
          /\ toServer'[Len(toServer) + 1] = Head(inbox)
      BY <2>2, <3>1, AppendIsSeq
    <3> SUFFICES ASSUME NEW i \in 1..Len(toServer')
                 PROVE  CopyBatch(toServer'[i]) \/ toServer'[i].kind = "Close"
      BY <2>1
    <3>3. CASE i = Len(toServer) + 1
      BY <1>1, <2>1, <3>2, <3>3
    <3>4. CASE i # Len(toServer) + 1
      <4>1. i \in 1..Len(toServer)
        BY <3>2, <3>4
      <4> QED
        BY <2>1, <3>2, <4>1
    <3> QED
      BY <3>3, <3>4
  <2> QED
    BY <1>1, <2>1, <2>2
<1>5. ClosingInv'
  BY <1>1, <1>3, <1>4 DEF ClosingInv, CopyBatch
<1>6. BusyInv' /\ QuietInv' /\ FitInv'
  BY <1>1, <1>3 DEF WireInv, BusyInv, QuietInv, FitInv
<1> QED
  BY <1>3, <1>5, <1>6 DEF WireInv

(* The write of a command fails: the connection is gone.                    *)
LEMMA FlushErrorWire ==
    ASSUME TypeOK, OneExchange, WireInv, StartFlushError
    PROVE  WireInv' /\ ~InFlight /\ ~InFlight' /\ pending' = None
<1> USE DEF callerVars, wireVars
<1>1. /\ driver = "running" /\ pending = None /\ srv.stage = "gone"
      /\ UNCHANGED <<driver, pending, srv>>
  BY DEF StartFlushError, Recv, FlushFails, OneExchange, WriterInv
<1> QED
  BY <1>1 DEF WireInv, ClosingInv, BusyInv, QuietInv, FitInv, InFlight

LEMMA ExitWire ==
    ASSUME WireInv, driver' = "exited", pending' = None, srv' = srv
    PROVE  WireInv'
  BY DEF WireInv, ClosingInv, BusyInv, QuietInv, FitInv, InFlight

LEMMA SameWire ==
    ASSUME WireInv, UNCHANGED <<driver, pending, toServer, toClient, srv>>
    PROVE  WireInv'
  BY DEF WireInv, ClosingInv, BusyInv, QuietInv, FitInv, InFlight, CopyBatch, Fits

(* The server reads a batch: a command, the end of a COPY, or Terminate.    *)
LEMMA TakeForms ==
    ASSUME TypeOK, OneExchange, WireInv, ServerTake
    PROVE  /\ driver = "running" /\ srv.stage # "gone"
           /\ UNCHANGED <<driver, pending, call, reply, inbox, inboxOpen, served, faults>>
           /\ \A i \in 1..Len(toServer') : \E j \in 1..Len(toServer) : toServer'[i] = toServer[j]
           /\ \/ /\ InFlight /\ srv.stage = "idle" /\ toClient' = toClient
                 /\ srv'.stage = "begin" /\ srv'.call = pending.call /\ srv'.kind = pending.kind
                 /\ srv'.rows = 0
                 /\ \A i \in 1..Len(toClient) : toClient[i].of = None
              \/ /\ srv.stage = "copy" /\ toClient' = toClient
                 /\ srv'.stage \in {"copied", "copyFailed"}
                 /\ srv'.call = srv.call /\ srv'.kind = srv.kind /\ srv'.rows = srv.rows
              \/ UNCHANGED <<srv, toClient>>
              \/ /\ srv.stage = "idle" /\ srv'.stage = "gone"
                 /\ toClient' = Append(toClient, Msg("Eof", None, "none"))
<1> DEFINE b == Head(toServer)
<1>0. /\ driver = "running" /\ srv.stage # "gone"
      /\ UNCHANGED <<driver, pending, call, reply, inbox, inboxOpen, served, faults>>
      /\ toServer # <<>> /\ toServer' = Tail(toServer)
  BY DEF ServerTake, serverFrame, callerVars, Connected
<1>1. toServer \in Seq(Batches) /\ srv \in Server
  BY DEF TypeOK
<1>2. /\ b = toServer[1] /\ Len(toServer) >= 1 /\ Len(toServer) \in Nat
      /\ Len(toServer') = Len(toServer) - 1
      /\ \A i \in 1..Len(toServer') : toServer'[i] = toServer[i + 1]
  BY <1>0, <1>1, TailIsSeq
<1>3. \A i \in 1..Len(toServer') : \E j \in 1..Len(toServer) : toServer'[i] = toServer[j]
  <2> TAKE i \in 1..Len(toServer')
  <2>1. i + 1 \in 1..Len(toServer)
    BY <1>2
  <2> QED
    BY <1>2, <2>1
<1>4. \/ /\ srv.stage = "idle" /\ b.kind \in CommandKinds \ {"Close"}
         /\ srv' = [srv EXCEPT !.stage = "begin", !.call = b.call, !.kind = b.kind,
                               !.rows = 0, !.sets = 0]
         /\ UNCHANGED toClient
      \/ /\ srv.stage = "copy" /\ b.kind \in {"CopyDone", "CopyFail"}
         /\ srv' = [srv EXCEPT !.stage = IF b.kind = "CopyDone" THEN "copied" ELSE "copyFailed"]
         /\ UNCHANGED toClient
      \/ UNCHANGED <<srv, toClient>>
      \/ /\ srv.stage = "idle"
         /\ srv' = [srv EXCEPT !.stage = "gone", !.call = None]
         /\ toClient' = Append(toClient, Msg("Eof", None, "none"))
  BY DEF ServerTake
<1> HIDE DEF b
<1>5. CASE /\ srv.stage = "idle" /\ b.kind \in CommandKinds \ {"Close"}
           /\ srv' = [srv EXCEPT !.stage = "begin", !.call = b.call, !.kind = b.kind,
                                 !.rows = 0, !.sets = 0]
           /\ UNCHANGED toClient
  <2>1. ~CopyBatch(b) /\ 1 \in 1..Len(toServer)
    BY <1>2, <1>5 DEF CopyBatch, CommandKinds
  <2>2. pending # None /\ pending.kind # "Close"
    <3>1. pending # None
      BY <1>0, <1>2, <1>5, <2>1 DEF OneExchange, ExchangeInv
    <3>2. pending.kind # "Close"
      BY <1>0, <1>2, <1>5, <2>1, <3>1 DEF WireInv, ClosingInv
    <3> QED
      BY <3>1, <3>2
  <2>3. Written
    BY <1>0, <1>2, <1>5, <2>1, <2>2 DEF OneExchange, ExchangeInv, InFlight, Serving, Answered
  <2>4. Len(toServer) = 1
    BY <1>2, <2>1, <2>3 DEF Written
  <2>5. b = [call |-> pending.call, kind |-> pending.kind]
    BY <1>2, <2>3, <2>4 DEF Written
  <2>6. /\ srv'.stage = "begin" /\ srv'.call = b.call /\ srv'.kind = b.kind /\ srv'.rows = 0
        /\ b.call = pending.call /\ b.kind = pending.kind
    BY <1>1, <1>5, <2>5 DEF Server
  <2> QED
    BY <1>0, <1>3, <1>5, <2>2, <2>3, <2>6 DEF InFlight, Written
<1>6. CASE /\ srv.stage = "copy" /\ b.kind \in {"CopyDone", "CopyFail"}
           /\ srv' = [srv EXCEPT !.stage = IF b.kind = "CopyDone" THEN "copied" ELSE "copyFailed"]
           /\ UNCHANGED toClient
  <2>1. /\ srv'.stage \in {"copied", "copyFailed"} /\ srv'.call = srv.call
        /\ srv'.kind = srv.kind /\ srv'.rows = srv.rows
    BY <1>1, <1>6 DEF Server
  <2> QED
    BY <1>0, <1>3, <1>6, <2>1
<1>7. CASE /\ srv.stage = "idle"
           /\ srv' = [srv EXCEPT !.stage = "gone", !.call = None]
           /\ toClient' = Append(toClient, Msg("Eof", None, "none"))
  <2>1. srv'.stage = "gone"
    BY <1>1, <1>7 DEF Server
  <2> QED
    BY <1>0, <1>3, <1>7, <2>1
<1> QED
  BY <1>0, <1>3, <1>4, <1>5, <1>6, <1>7

(* The stream is cut and goes on, if at all, with messages that belong to   *)
(* no exchange: how a connection ends.                                      *)
CutAt(k) ==
    /\ k \in 0..Len(toClient) /\ Len(toClient') \in Nat /\ k <= Len(toClient')
    /\ \A i \in 1..k : toClient'[i] = toClient[i]
    /\ \A i \in (k + 1)..Len(toClient') : toClient'[i].of = None /\ toClient'[i].type \in Unsolicited

LEMMA DieCuts ==
    ASSUME TypeOK, ServerDie
    PROVE  /\ \E k \in 0..Len(toClient) : CutAt(k)
           /\ driver = "running" /\ srv'.stage = "gone" /\ Len(toServer') = 0
           /\ UNCHANGED <<driver, pending, call, reply, inbox, inboxOpen, served, faults>>
<1>0. /\ driver = "running" /\ srv'.stage = "gone" /\ Len(toServer') = 0
      /\ UNCHANGED <<driver, pending, call, reply, inbox, inboxOpen, served, faults>>
  BY EmptyIsSeq DEF ServerDie, serverFrame, callerVars, TypeOK, Server, Connected
<1>T. toClient \in Seq(Messages) /\ Len(toClient) \in Nat
  BY DEF TypeOK
<1>1. ASSUME NEW t \in {"Eof", "ReadError", "ErrorResponse"}
      PROVE  /\ Msg(t, None, "none") \in Messages /\ Msg(t, None, "none").of = None
             /\ Msg(t, None, "none").type \in Unsolicited
  BY DEF Msg, Messages, MsgTypes, Args, Unsolicited, Ends
<1>2. ASSUME NEW k \in 0..Len(toClient), NEW m \in Messages, m.of = None,
             m.type \in Unsolicited, toClient' = SubSeq(toClient, 1, k) \o <<m>>
      PROVE  CutAt(k)
  <2>1. /\ SubSeq(toClient, 1, k) \in Seq(Messages) /\ Len(SubSeq(toClient, 1, k)) = k
        /\ \A i \in 1..k : SubSeq(toClient, 1, k)[i] = toClient[i]
    BY <1>T, PrefixIsSeq
  <2>2. <<m>> \in Seq(Messages) /\ Len(<<m>>) = 1 /\ <<m>>[1] = m
    BY OneIsSeq
  <2>3. /\ Len(toClient') = k + 1
        /\ \A i \in 1..Len(toClient') :
              toClient'[i] = IF i <= k THEN SubSeq(toClient, 1, k)[i] ELSE <<m>>[i - k]
    BY <1>2, <2>1, <2>2, ConcatIsSeq
  <2>4. k \in Nat
    BY <1>T
  <2>5. \A i \in 1..k : toClient'[i] = toClient[i]
    BY <2>1, <2>3, <2>4
  <2>6. \A i \in (k + 1)..Len(toClient') : toClient'[i] = m
    BY <2>2, <2>3, <2>4
  <2>7. Len(toClient') \in Nat /\ k <= Len(toClient')
    BY <2>3, <2>4
  <2>8. \A i \in (k + 1)..Len(toClient') : toClient'[i].of = None /\ toClient'[i].type \in Unsolicited
    BY <1>2, <2>6
  <2> QED
    BY <2>5, <2>7, <2>8, Zenon DEF CutAt
<1>3. ASSUME NEW m \in Messages, m.of = None, m.type \in Unsolicited,
             NEW f \in Seq(Messages), \A i \in 1..Len(f) : f[i].of = None /\ f[i].type \in Unsolicited,
             toClient' = toClient \o f \o <<m>>
      PROVE  CutAt(Len(toClient))
  <2>1. <<m>> \in Seq(Messages) /\ Len(<<m>>) = 1 /\ <<m>>[1] = m
    BY OneIsSeq
  <2>2. /\ toClient \o f \in Seq(Messages) /\ Len(toClient \o f) = Len(toClient) + Len(f)
        /\ \A i \in 1..Len(toClient \o f) :
              (toClient \o f)[i] = IF i <= Len(toClient) THEN toClient[i]
                                   ELSE f[i - Len(toClient)]
    BY <1>T, ConcatIsSeq
  <2>3. /\ Len(toClient') = Len(toClient) + Len(f) + 1
        /\ \A i \in 1..Len(toClient') :
              toClient'[i] = IF i <= Len(toClient) + Len(f) THEN (toClient \o f)[i]
                             ELSE <<m>>[i - (Len(toClient) + Len(f))]
    BY <1>3, <2>1, <2>2, ConcatIsSeq
  <2>4. Len(f) \in Nat
    BY <1>3
  <2>5. \A i \in 1..Len(toClient) : toClient'[i] = toClient[i]
    BY <1>T, <2>2, <2>3, <2>4
  <2>6. ASSUME NEW i \in (Len(toClient) + 1)..Len(toClient')
        PROVE  toClient'[i].of = None /\ toClient'[i].type \in Unsolicited
    <3>1. CASE i <= Len(toClient) + Len(f)
      <4>1. toClient'[i] = f[i - Len(toClient)] /\ i - Len(toClient) \in 1..Len(f)
        BY <1>T, <2>2, <2>3, <2>4, <3>1
      <4> QED
        BY <1>3, <4>1
    <3>2. CASE i = Len(toClient) + Len(f) + 1
      <4>1. toClient'[i] = <<m>>[1]
        BY <1>T, <2>3, <2>4, <3>2
      <4> QED
        BY <1>3, <2>1, <4>1
    <3>3. ASSUME NEW n, n = Len(toClient')
          PROVE  i <= Len(toClient) + Len(f) \/ i = Len(toClient) + Len(f) + 1
      <4>1. n \in Nat /\ n = Len(toClient) + Len(f) + 1 /\ i \in (Len(toClient) + 1)..n
        BY <1>T, <2>3, <2>4, <3>3
      <4> QED
        BY <1>T, <2>4, <4>1
    <3> QED
      BY <3>1, <3>2, <3>3
  <2>7. Len(toClient') \in Nat /\ Len(toClient) <= Len(toClient') /\ Len(toClient) \in 0..Len(toClient)
    BY <1>T, <2>3, <2>4
  <2> QED
    BY <2>5, <2>6, <2>7, Zenon DEF CutAt
<1>4. \E k \in 0..Len(toClient) : CutAt(k)
  <2>1. CASE \E k \in 0..Len(toClient) :
                toClient' = SubSeq(toClient, 1, k) \o <<Msg("ReadError", None, "none")>>
    <3>1. PICK k \in 0..Len(toClient) :
                toClient' = SubSeq(toClient, 1, k) \o <<Msg("ReadError", None, "none")>>
      BY <2>1
    <3> DEFINE m == Msg("ReadError", None, "none")
    <3>2. m \in Messages /\ m.of = None /\ m.type \in Unsolicited
          /\ toClient' = SubSeq(toClient, 1, k) \o <<m>>
      BY <1>1, <3>1
    <3> HIDE DEF m
    <3>3. CutAt(k)
      BY <1>2, <3>2
    <3> QED
      BY <3>3
  <2>2. CASE \E end \in Ends, fatal \in {<<>>, <<Msg("ErrorResponse", None, "none")>>} :
                toClient' = toClient \o fatal \o <<Msg(end, None, "none")>>
    <3>1. PICK end \in Ends, f \in {<<>>, <<Msg("ErrorResponse", None, "none")>>} :
                toClient' = toClient \o f \o <<Msg(end, None, "none")>>
      BY <2>2
    <3> DEFINE m == Msg(end, None, "none")
    <3>2. m \in Messages /\ m.of = None /\ m.type \in Unsolicited
      BY <1>1, <3>1 DEF Ends
    <3>3. f \in Seq(Messages) /\ \A i \in 1..Len(f) : f[i].of = None /\ f[i].type \in Unsolicited
      <4>1. CASE f = <<>>
        BY <4>1, EmptyIsSeq
      <4>2. CASE f = <<Msg("ErrorResponse", None, "none")>>
        <5> DEFINE e == Msg("ErrorResponse", None, "none")
        <5>1. e \in Messages /\ e.of = None /\ e.type \in Unsolicited
          BY <1>1
        <5>2. f = <<e>>
          BY <4>2
        <5> HIDE DEF e
        <5> QED
          BY <5>1, <5>2, OneIsSeq
      <4> QED
        BY <4>1, <4>2
    <3>4. toClient' = toClient \o f \o <<m>>
      BY <3>1
    <3> HIDE DEF m
    <3>5. CutAt(Len(toClient))
      BY <1>3, <3>2, <3>3, <3>4
    <3>6. Len(toClient) \in 0..Len(toClient)
      BY <1>T
    <3> QED
      BY <3>5, <3>6
  <2> QED
    BY <2>1, <2>2 DEF ServerDie
<1> QED
  BY <1>0, <1>4

(* The server adds a message that no exchange owns, or of the one it serves.*)
LEMMA QuietAppend ==
    ASSUME TypeOK, QuietInv, driver = "running", srv.stage # "gone",
           NEW m \in Messages, toClient' = Append(toClient, m), pending' = pending,
           m.of = None /\ srv'.stage # "gone" => m.type = "Notice"
    PROVE  QuietInv'
<1>1. /\ Len(toClient) \in Nat /\ Len(toClient') = Len(toClient) + 1
      /\ \A i \in 1..Len(toClient) : toClient'[i] = toClient[i]
      /\ toClient'[Len(toClient')] = m
      /\ \A i \in 1..Len(toClient') : i \in 1..Len(toClient) \/ i = Len(toClient')
  BY SendExtends
<1>2. \A i \in 1..Len(toClient) : toClient[i].of = None => toClient[i].type = "Notice"
  BY DEF QuietInv
<1>3. ASSUME srv'.stage # "gone", NEW i \in 1..Len(toClient'), toClient'[i].of = None
      PROVE  toClient'[i].type = "Notice"
  BY <1>1, <1>2, <1>3
<1>4. ASSUME NEW i \in 1..Len(toClient'), NEW j \in 1..Len(toClient'), i < j,
             toClient'[i].of = None, toClient'[i].type # "Notice"
      PROVE  toClient'[j].type # "ReadyForQuery"
  <2>1. i \in 1..Len(toClient)
    BY <1>1, <1>4
  <2> QED
    BY <1>1, <1>2, <1>4, <2>1
<1> QED
  BY <1>3, <1>4 DEF QuietInv

LEMMA FitAppend ==
    ASSUME TypeOK, FitInv, driver = "running",
           NEW m \in Messages, toClient' = Append(toClient, m), pending' = pending,
           m.of # None /\ InFlight => Fits(m, pending.kind)
    PROVE  FitInv'
<1>1. /\ Len(toClient) \in Nat /\ Len(toClient') = Len(toClient) + 1
      /\ \A i \in 1..Len(toClient) : toClient'[i] = toClient[i]
      /\ toClient'[Len(toClient')] = m
      /\ \A i \in 1..Len(toClient') : i \in 1..Len(toClient) \/ i = Len(toClient')
  BY SendExtends
<1>2. InFlight' <=> InFlight
  BY DEF InFlight
<1>3. ASSUME InFlight, NEW i \in 1..Len(toClient'), toClient'[i].of # None
      PROVE  Fits(toClient'[i], pending.kind)
  BY <1>1, <1>3 DEF FitInv
<1> QED
  BY <1>2, <1>3 DEF FitInv

LEMMA TakeWire ==
    ASSUME TypeOK, OneExchange, WireInv, ServerTake
    PROVE  WireInv'
<1>0. /\ driver = "running" /\ srv.stage # "gone" /\ UNCHANGED <<driver, pending>>
      /\ \A i \in 1..Len(toServer') : \E j \in 1..Len(toServer) : toServer'[i] = toServer[j]
  BY TakeForms
<1>1. InFlight' <=> InFlight
  BY <1>0 DEF InFlight
<1>2. ASSUME pending # None, pending.kind = "Close"
      PROVE  /\ srv.stage = "idle"
             /\ \A i \in 1..Len(toServer') : CopyBatch(toServer'[i]) \/ toServer'[i].kind = "Close"
  BY <1>0, <1>2 DEF WireInv, ClosingInv
<1>3. CASE /\ InFlight /\ srv.stage = "idle" /\ toClient' = toClient
           /\ srv'.stage = "begin" /\ srv'.call = pending.call /\ srv'.kind = pending.kind
           /\ srv'.rows = 0
  <2>1. ClosingInv'
    BY <1>0, <1>3 DEF InFlight, ClosingInv
  <2>2. BusyInv'
    BY <1>0, <1>3 DEF BusyInv
  <2>3. QuietInv'
    BY <1>0, <1>1, <1>3 DEF WireInv, QuietInv
  <2>4. FitInv'
    BY <1>0, <1>1, <1>3 DEF WireInv, FitInv
  <2> QED
    BY <2>1, <2>2, <2>3, <2>4 DEF WireInv
<1>4. CASE /\ srv.stage = "copy" /\ toClient' = toClient
           /\ srv'.stage \in {"copied", "copyFailed"}
           /\ srv'.call = srv.call /\ srv'.kind = srv.kind /\ srv'.rows = srv.rows
  <2>1. ClosingInv'
    <3>1. ~(pending # None /\ pending.kind = "Close")
      BY <1>2, <1>4
    <3> QED
      BY <1>0, <3>1 DEF ClosingInv
  <2>2. BusyInv'
    BY <1>0, <1>1, <1>4 DEF WireInv, BusyInv
  <2>3. QuietInv'
    BY <1>0, <1>1, <1>4 DEF WireInv, QuietInv
  <2>4. FitInv'
    BY <1>0, <1>1, <1>4 DEF WireInv, FitInv
  <2> QED
    BY <2>1, <2>2, <2>3, <2>4 DEF WireInv
<1>5. CASE UNCHANGED <<srv, toClient>>
  <2>1. ClosingInv'
    BY <1>0, <1>2, <1>5 DEF WireInv, ClosingInv, CopyBatch
  <2>2. BusyInv' /\ QuietInv' /\ FitInv'
    BY <1>0, <1>1, <1>5 DEF WireInv, BusyInv, QuietInv, FitInv
  <2> QED
    BY <2>1, <2>2 DEF WireInv
<1>6. CASE /\ srv.stage = "idle" /\ srv'.stage = "gone"
           /\ toClient' = Append(toClient, Msg("Eof", None, "none"))
  <2> DEFINE m == Msg("Eof", None, "none")
  <2>1. m \in Messages /\ m.of = None /\ toClient' = Append(toClient, m)
    BY <1>6 DEF Msg, Messages, MsgTypes, Args, Ends
  <2> HIDE DEF m
  <2>2. ClosingInv' /\ BusyInv'
    BY <1>0, <1>6 DEF WireInv, ClosingInv, BusyInv
  <2>3. QuietInv'
    BY <1>0, <1>6, <2>1, QuietAppend DEF WireInv
  <2>4. FitInv'
    BY <1>0, <2>1, FitAppend DEF WireInv
  <2> QED
    BY <2>2, <2>3, <2>4 DEF WireInv
<1> QED
  BY <1>3, <1>4, <1>5, <1>6, TakeForms

(* While something is served, it is for the pending command.                *)
LEMMA ServedIsPending ==
    ASSUME OneExchange, WireInv, driver = "running", srv.stage \notin {"idle", "gone"}
    PROVE  InFlight /\ srv.call = pending.call /\ srv.kind = pending.kind
           /\ \A i \in 1..Len(toClient) : toClient[i].type # "ReadyForQuery"
<1>1. pending # None
  BY DEF OneExchange, ExchangeInv
<1>2. pending.kind # "Close"
  BY <1>1 DEF WireInv, ClosingInv
<1>3. InFlight /\ Serving
  BY <1>1, <1>2 DEF InFlight, OneExchange, ExchangeInv, Written, Answered
<1> QED
  BY <1>3 DEF Serving, WireInv, BusyInv

LEMMA SendsWire ==
    ASSUME TypeOK, OneExchange, WireInv, NEW m \in Messages, NEW stage, Sends(m, stage)
    PROVE  WireInv'
<1>1. /\ driver = "running" /\ srv.stage \notin {"idle", "gone"} /\ m.of = srv.call /\ m.of \in Calls
      /\ toClient' = Append(toClient, m) /\ UNCHANGED <<driver, pending>>
      /\ srv'.stage = stage /\ stage \notin {"idle", "gone"} /\ srv'.kind = srv.kind
      /\ srv'.rows = IF m.type = "DataRow" THEN srv.rows + 1
                     ELSE IF m.type \in EndsSet THEN 0 ELSE srv.rows
      /\ Allowed(srv.kind, srv.rows, m.type, m.arg, stage)
  BY DEF Sends
<1>2. InFlight /\ srv.kind = pending.kind
  BY <1>1, ServedIsPending
<1>3. m.of # None /\ Fits(m, pending.kind)
  BY <1>1, <1>2, CallsAssumption DEF Allowed, Fits
<1>4. ClosingInv'
  BY <1>1, <1>2 DEF ClosingInv, InFlight
<1>5. BusyInv'
  <2>1. stage \in {"begin", "describe", "params", "exec"} => srv'.rows = 0
    BY <1>1 DEF Allowed, EndsSet
  <2> QED
    BY <1>1, <1>2, <2>1 DEF BusyInv, Allowed
<1>6. QuietInv'
  BY <1>1, <1>3, QuietAppend DEF WireInv
<1>7. FitInv'
  BY <1>1, <1>3, FitAppend DEF WireInv
<1> QED
  BY <1>4, <1>5, <1>6, <1>7 DEF WireInv

(* ReadyForQuery ends what is served.                                       *)
LEMMA ReadyEnds ==
    ASSUME TypeOK, OneExchange, WireInv, ServerReady
    PROVE  /\ driver = "running" /\ srv.stage \notin {"idle", "gone"}
           /\ srv.stage # "ready" => srv.stage = "begin" /\ srv.kind = "SimpleQuery"
           /\ UNCHANGED <<driver, pending, call, reply, inbox, inboxOpen, toServer, served, faults>>
           /\ srv'.stage = "idle" /\ srv'.rows = srv.rows
           /\ \E m \in Messages : /\ m.type = "ReadyForQuery" /\ m.of = srv.call
                                  /\ m.arg \in TxStatus /\ toClient' = Append(toClient, m)
<1>1. /\ driver = "running" /\ srv.stage \notin {"idle", "gone"}
      /\ srv.stage # "ready" => srv.stage = "begin" /\ srv.kind = "SimpleQuery"
      /\ UNCHANGED <<driver, pending, call, reply, inbox, inboxOpen, toServer, served, faults>>
  BY DEF ServerReady, Connected, serverFrame, callerVars
<1>2. PICK s \in TxStatus : /\ toClient' = Append(toClient, Msg("ReadyForQuery", srv.call, s))
                            /\ srv' = [srv EXCEPT !.stage = "idle", !.call = None, !.tx = s]
  BY DEF ServerReady
<1>3. srv'.stage = "idle" /\ srv'.rows = srv.rows
  BY <1>2 DEF TypeOK, Server
<1> DEFINE m == Msg("ReadyForQuery", srv.call, s)
<1>4. m \in Messages /\ m.type = "ReadyForQuery" /\ m.of = srv.call /\ m.arg \in TxStatus
  BY DEF Msg, Messages, MsgTypes, Args, TypeOK, Server
<1> QED
  BY <1>1, <1>2, <1>3, <1>4

LEMMA ReadyWire ==
    ASSUME TypeOK, OneExchange, WireInv, ServerReady
    PROVE  WireInv'
<1>1. /\ driver = "running" /\ srv.stage \notin {"idle", "gone"}
      /\ UNCHANGED <<driver, pending>> /\ srv'.stage = "idle"
  BY ReadyEnds
<1>2. PICK m \in Messages : /\ m.type = "ReadyForQuery" /\ m.of = srv.call
                            /\ m.arg \in TxStatus /\ toClient' = Append(toClient, m)
  BY ReadyEnds
<1>3. InFlight
  BY <1>1, ServedIsPending
<1>4. m.of # None /\ Fits(m, pending.kind)
  BY <1>1, <1>2, StatusAssumption DEF Fits, OneExchange, OwnerInv
<1>5. ClosingInv' /\ BusyInv'
  BY <1>1, <1>3 DEF ClosingInv, BusyInv, InFlight
<1>6. QuietInv'
  BY <1>1, <1>2, <1>4, QuietAppend DEF WireInv
<1>7. FitInv'
  BY <1>1, <1>2, <1>4, FitAppend DEF WireInv
<1> QED
  BY <1>5, <1>6, <1>7 DEF WireInv

LEMMA NoticeSent ==
    ASSUME ServerNotice
    PROVE  /\ driver = "running" /\ srv.stage # "gone"
           /\ UNCHANGED <<driver, pending, call, reply, inbox, inboxOpen, toServer, srv, served, faults>>
           /\ \E m \in Messages : /\ m.type = "Notice" /\ m.of = None /\ m.arg = "none"
                                  /\ toClient' = Append(toClient, m)
<1>1. /\ driver = "running" /\ srv.stage # "gone"
      /\ UNCHANGED <<driver, pending, call, reply, inbox, inboxOpen, toServer, srv, served, faults>>
      /\ toClient' = Append(toClient, Msg("Notice", None, "none"))
  BY DEF ServerNotice, Connected, serverFrame, callerVars
<1> DEFINE m == Msg("Notice", None, "none")
<1>2. m \in Messages /\ m.type = "Notice" /\ m.of = None /\ m.arg = "none"
  BY DEF Msg, Messages, MsgTypes, Args
<1> QED
  BY <1>1, <1>2

LEMMA NoticeWire ==
    ASSUME TypeOK, WireInv, ServerNotice
    PROVE  WireInv'
<1>1. /\ driver = "running" /\ srv.stage # "gone" /\ UNCHANGED <<driver, pending, toServer, srv>>
  BY NoticeSent
<1>2. PICK m \in Messages : m.type = "Notice" /\ m.of = None /\ toClient' = Append(toClient, m)
  BY NoticeSent
<1>3. ClosingInv' /\ BusyInv'
  BY <1>1 DEF WireInv, ClosingInv, BusyInv, InFlight, CopyBatch
<1>4. QuietInv'
  BY <1>1, <1>2, QuietAppend DEF WireInv
<1>5. FitInv'
  BY <1>1, <1>2, FitAppend DEF WireInv
<1> QED
  BY <1>3, <1>4, <1>5 DEF WireInv

LEMMA DieWire ==
    ASSUME TypeOK, WireInv, ServerDie
    PROVE  WireInv'
<1>1. driver = "running" /\ srv'.stage = "gone" /\ UNCHANGED <<driver, pending>>
  BY DieCuts
<1>2. PICK k \in 0..Len(toClient) : CutAt(k)
  BY DieCuts
<1>3. ClosingInv' /\ BusyInv'
  BY <1>1 DEF WireInv, ClosingInv, BusyInv, InFlight
<1>4. (InFlight' <=> InFlight) /\ k \in Nat /\ Len(toClient) \in Nat /\ Len(toClient') \in Nat
  BY <1>1, <1>2 DEF InFlight, CutAt, TypeOK
<1>5. \A i \in 1..Len(toClient') : i \in 1..k \/ i \in (k + 1)..Len(toClient')
  BY <1>4
<1>6. \A i \in 1..k : i \in 1..Len(toClient)
  BY <1>4
<1>7. \A i \in (k + 1)..Len(toClient') : toClient'[i].of = None /\ toClient'[i].type # "ReadyForQuery"
  BY <1>2 DEF CutAt, Unsolicited, Ends
<1>8. \A i \in 1..k : toClient'[i] = toClient[i]
  BY <1>2 DEF CutAt
<1>9. QuietInv'
  <2>1. ASSUME InFlight, NEW i \in 1..Len(toClient'), NEW j \in 1..Len(toClient'), i < j,
               toClient'[i].of = None, toClient'[i].type # "Notice"
        PROVE  toClient'[j].type # "ReadyForQuery"
    <3>1. CASE j \in (k + 1)..Len(toClient')
      BY <1>7, <3>1
    <3>2. CASE j \in 1..k
      <4>1. i \in 1..k
        BY <1>4, <2>1, <3>2
      <4> QED
        BY <1>1, <1>6, <1>8, <2>1, <3>2, <4>1 DEF WireInv, QuietInv
    <3> QED
      BY <1>5, <3>1, <3>2
  <2> QED
    BY <1>1, <1>4, <2>1 DEF QuietInv
<1>10. FitInv'
  <2>1. ASSUME InFlight, NEW i \in 1..Len(toClient'), toClient'[i].of # None
        PROVE  Fits(toClient'[i], pending.kind)
    <3>1. i \in 1..k
      BY <1>5, <1>7, <2>1
    <3> QED
      BY <1>1, <1>6, <1>8, <2>1, <3>1 DEF WireInv, FitInv
  <2> QED
    BY <1>1, <1>4, <2>1 DEF FitInv
<1> QED
  BY <1>3, <1>9, <1>10 DEF WireInv

LEMMA NextWire == TypeOK /\ OneExchange /\ WireInv /\ [Next]_vars => WireInv'
<1> SUFFICES ASSUME TypeOK, OneExchange, WireInv, [Next]_vars PROVE WireInv'
  OBVIOUS
<1>1. CASE Callers \/ StartBuildError \/ Quiescent \/ UNCHANGED vars
  <2>1. UNCHANGED <<driver, pending, toServer, toClient, srv>>
    BY <1>1 DEF Callers, Send, Cancel, SessionClose, SessionCloseReturns, SessionDrop, HandlesDrop,
                Enqueue, StartBuildError, Quiescent, vars, wireVars, callerVars
  <2> QED
    BY <2>1, SameWire
<1>2. CASE Shutdown \/ OnCopyWriteError \/ OnReaderEnd
  <2>1. driver' = "exited" /\ pending' = None /\ srv' = srv
    BY <1>2 DEF Shutdown, OnCopyWriteError, OnReaderEnd, FailPending, wireVars, callerVars
  <2> QED
    BY <2>1, ExitWire
<1>3. CASE StartFlushed \/ StartClose \/ StartFlushError
  BY <1>3, StartWire, CloseWire, FlushErrorWire
<1>4. CASE OnMessage \/ OnCopyInResponseIgnored \/ OnCopyInResponse \/ OnReadyForQuery
  BY <1>4, ReadWithin, ReadReady, ReadWire
<1>5. CASE ServerEmit \/ ServerCopyAbort
  BY <1>5, ServerSends, SendsWire DEF WireInv
<1>6. CASE ServerTake \/ ServerReady \/ ServerNotice \/ ServerDie
  BY <1>6, TakeWire, ReadyWire, NoticeWire, DieWire
<1> QED
  BY <1>1, <1>2, <1>3, <1>4, <1>5, <1>6 DEF Next, DriverStep, ServerStep

LEMMA QueuedAppend ==
    ASSUME TypeOK, NEW b \in Commands, inbox' = Append(inbox, b)
    PROVE  /\ \A c : Queued(c)' => Queued(c) \/ b.call = c
           /\ Apart /\ (b.call = None \/ ~Queued(b.call)) => Apart'
<1>1. inbox \in Seq(Commands) /\ Len(inbox) \in Nat
  BY DEF TypeOK
<1>2. /\ Len(inbox') = Len(inbox) + 1
      /\ \A i \in 1..Len(inbox) : inbox'[i] = inbox[i]
      /\ inbox'[Len(inbox) + 1] = b
  BY <1>1, AppendIsSeq
<1>3. \A i \in 1..Len(inbox') : i \in 1..Len(inbox) \/ i = Len(inbox) + 1
  BY <1>1, <1>2
<1>4. \A c : Queued(c)' => Queued(c) \/ b.call = c
  BY <1>2, <1>3 DEF Queued
<1>5. ASSUME Apart, b.call = None \/ ~Queued(b.call),
             NEW i \in 1..Len(inbox'), NEW j \in 1..Len(inbox'), i < j
      PROVE  inbox'[i].call # inbox'[j].call \/ inbox'[i].call = None
  <2>1. i \in 1..Len(inbox)
    BY <1>1, <1>2, <1>5
  <2>2. CASE j \in 1..Len(inbox)
    BY <1>2, <1>5, <2>1, <2>2 DEF Apart
  <2>3. CASE j = Len(inbox) + 1
    BY <1>2, <1>5, <2>1, <2>3 DEF Queued
  <2> QED
    BY <1>3, <2>2, <2>3
<1> QED
  BY <1>4, <1>5 DEF Apart

LEMMA QueuedTail ==
    ASSUME TypeOK, inbox # <<>>, inbox' = Tail(inbox)
    PROVE  /\ Head(inbox) \in Commands /\ Queued(Head(inbox).call)
           /\ \A c : Queued(c)' => Queued(c)
           /\ Apart => Apart'
           /\ \A h : Apart /\ h = Head(inbox).call /\ h # None => ~Queued(h)'
<1>1. inbox \in Seq(Commands) /\ Len(inbox) \in Nat
  BY DEF TypeOK
<1>2. /\ Head(inbox) \in Commands /\ Head(inbox) = inbox[1] /\ Len(inbox) >= 1
      /\ Len(inbox') = Len(inbox) - 1
      /\ \A i \in 1..Len(inbox') : inbox'[i] = inbox[i + 1]
  BY <1>1, TailIsSeq
<1>3. 1 \in 1..Len(inbox)
  BY <1>1, <1>2
<1>4. \A i \in 1..Len(inbox') : i + 1 \in 1..Len(inbox) /\ 1 < i + 1
  BY <1>1, <1>2
<1>5. Queued(Head(inbox).call)
  BY <1>2, <1>3 DEF Queued
<1>6. \A c : Queued(c)' => Queued(c)
  BY <1>2, <1>4 DEF Queued
<1>7. ASSUME Apart PROVE Apart'
  <2> SUFFICES ASSUME NEW i \in 1..Len(inbox'), NEW j \in 1..Len(inbox'), i < j
               PROVE  inbox'[i].call # inbox'[j].call \/ inbox'[i].call = None
    BY DEF Apart
  <2>1. i + 1 < j + 1
    BY <1>1, <1>2
  <2> QED
    BY <1>2, <1>4, <1>7, <2>1 DEF Apart
<1>8. ASSUME Apart, Head(inbox).call # None, NEW i \in 1..Len(inbox')
      PROVE  inbox'[i].call # Head(inbox).call
  BY <1>2, <1>3, <1>4, <1>8 DEF Apart
<1>9. ASSUME NEW h, Apart, h = Head(inbox).call, h # None PROVE ~Queued(h)'
  BY <1>8, <1>9 DEF Queued
<1> QED
  BY <1>2, <1>5, <1>6, <1>7, <1>9

LEMMA QueuedNone ==
    ASSUME Len(inbox') = 0
    PROVE  Apart' /\ \A c : ~Queued(c)'
<1>1. 1..Len(inbox') = {}
  OBVIOUS
<1> QED
  BY <1>1 DEF Apart, Queued

(* A step that lets a call go on only from the caller to the channel, from  *)
(* there to the driver, and from any of these to its answer.                *)
GoesOn ==
    /\ Apart'
    /\ \A c \in Calls : call'[c] = "idle" => call[c] = "idle"
    /\ \A c \in Calls : Queued(c)' => Queued(c) \/ (call[c] = "idle" /\ call'[c] # "idle")
    /\ \A c \in Calls : Pends(c)' => Pends(c) \/ (Queued(c) /\ ~Queued(c)')
    /\ \A c \in Calls : reply'[c] # reply[c] =>
                            /\ Pends(c) \/ Queued(c) \/ call[c] = "idle"
                            /\ call'[c] # "idle" /\ ~Queued(c)' /\ ~Pends(c)'
    /\ \A c \in Calls : served'[c] # served[c] \/ faults'[c] # faults[c] => Pends(c)

LEMMA OnceKept == ASSUME OnceInv, GoesOn PROVE OnceInv'
<1> USE DEF GoesOn
<1>1. ASSUME NEW c \in Calls, call'[c] = "idle"
      PROVE  Untouched(c)' /\ ~Queued(c)' /\ ~Pends(c)'
  <2>1. call[c] = "idle" /\ Untouched(c) /\ ~Queued(c) /\ ~Pends(c)
    BY <1>1 DEF OnceInv
  <2> QED
    BY <1>1, <2>1 DEF Untouched
<1>2. ASSUME NEW c \in Calls, Queued(c)'
      PROVE  Untouched(c)' /\ ~Pends(c)'
  <2>1. Untouched(c) /\ ~Pends(c)
    BY <1>2 DEF OnceInv
  <2> QED
    BY <1>2, <2>1 DEF Untouched
<1>3. ASSUME NEW c \in Calls, Pends(c)'
      PROVE  reply'[c] = None
  <2>1. reply[c] = None
    BY <1>3 DEF OnceInv, Untouched
  <2> QED
    BY <1>3, <2>1
<1> QED
  BY <1>1, <1>2, <1>3 DEF OnceInv

(* What Answer and CloseInbox change.                                       *)
LEMMA AnswerFacts ==
    ASSUME NEW rs, DOMAIN rs = Calls, NEW c, NEW r
    PROVE  /\ DOMAIN Answer(rs, c, r) = Calls
           /\ \A d \in Calls : Answer(rs, c, r)[d] = IF d = c THEN r ELSE rs[d]
<1>1. CASE c = None
  BY <1>1, CallsAssumption DEF Answer
<1>2. CASE c # None
  BY <1>2 DEF Answer
<1> QED
  BY <1>1, <1>2

LEMMA CloseInboxFacts ==
    ASSUME NEW q, NEW rs, CloseInbox(q, rs)
    PROVE  /\ inbox' = <<>> /\ Len(inbox') = 0
           /\ \A c \in Calls : \/ reply'[c] = rs[c]
                               \/ reply'[c] = Err("Closed") /\ \E i \in 1..Len(q) : q[i].call = c
  BY EmptyIsSeq DEF CloseInbox

LEMMA CallersOnce ==
    ASSUME TypeOK, OnceInv, Callers
    PROVE  OnceInv'
<1>1. UNCHANGED <<pending, served, faults>>
  BY DEF Callers, Send, Cancel, SessionClose, SessionCloseReturns, SessionDrop, HandlesDrop,
         Enqueue, wireVars
<1>2. /\ call \in [Calls -> {"idle", "waiting", "closing", "cancelled"}]
      /\ reply \in [Calls -> Replies \cup {None}] /\ Apart
  BY DEF TypeOK, OnceInv
<1>3. \A c \in Calls : Pends(c)' => Pends(c)
  BY <1>1 DEF Pends
<1>4. ASSUME inbox' = inbox PROVE Apart' /\ \A c : Queued(c)' => Queued(c)
  BY <1>2, <1>4 DEF Apart, Queued
<1>5. ASSUME NEW c \in Calls, NEW k \in CommandKinds, NEW d \in {"waiting", "closing"}, Enqueue(c, k, d)
      PROVE  OnceInv'
  <2>1. call[c] = "idle" /\ call' = [call EXCEPT ![c] = d]
    BY <1>5 DEF Enqueue
  <2>2. ~Queued(c) /\ ~Pends(c)
    BY <2>1 DEF OnceInv
  <2>3. \A x \in Calls : call'[x] = "idle" => call[x] = "idle" /\ x # c
    BY <1>2, <2>1
  <2>31. call'[c] # "idle"
    BY <1>2, <2>1
  <2>4. CASE inbox' = Append(inbox, [call |-> c, kind |-> k]) /\ reply' = reply
    <3> DEFINE b == [call |-> c, kind |-> k]
    <3>1. b \in Commands /\ b.call = c /\ inbox' = Append(inbox, b)
      BY <2>4 DEF Commands
    <3> HIDE DEF b
    <3>2. Apart' /\ \A x : Queued(x)' => Queued(x) \/ x = c
      BY <1>2, <2>2, <3>1, QueuedAppend
    <3>g. GoesOn
      BY <1>1, <1>3, <2>1, <2>3, <2>31, <2>4, <3>2 DEF GoesOn
    <3> QED
      BY <3>g, OnceKept
  <2>5. CASE inbox' = inbox /\ reply' = [reply EXCEPT ![c] = Err("Closed")]
    <3>1. \A x \in Calls : reply'[x] # reply[x] => x = c
      BY <1>2, <2>5
    <3>2. ~Queued(c)' /\ ~Pends(c)'
      BY <1>3, <1>4, <2>2, <2>5
    <3>g. GoesOn
      BY <1>1, <1>3, <1>4, <2>1, <2>3, <2>31, <2>5, <3>1, <3>2 DEF GoesOn
    <3> QED
      BY <3>g, OnceKept
  <2> QED
    BY <1>5, <2>4, <2>5 DEF Enqueue
<1>6. CASE \E c \in Calls : Cancel(c)
  <2>1. PICK c \in Calls : call' = [call EXCEPT ![c] = "cancelled"] /\ UNCHANGED <<reply, inbox>>
    BY <1>6 DEF Cancel
  <2>2. \A x \in Calls : call'[x] = "idle" => call[x] = "idle"
    BY <1>2, <2>1
  <2>g. GoesOn
    BY <1>1, <1>3, <1>4, <2>1, <2>2 DEF GoesOn
  <2> QED
    BY <2>g, OnceKept
<1>7. CASE SessionCloseReturns \/ HandlesDrop
  <2>1. UNCHANGED <<call, reply, inbox>>
    BY <1>7 DEF SessionCloseReturns, HandlesDrop
  <2>g. GoesOn
    BY <1>1, <1>3, <1>4, <2>1 DEF GoesOn
  <2> QED
    BY <2>g, OnceKept
<1>8. CASE SessionDrop
  <2> DEFINE b == [call |-> None, kind |-> "Close"]
  <2>1. UNCHANGED <<call, reply>> /\ (inbox' = inbox \/ inbox' = Append(inbox, b))
    BY <1>8 DEF SessionDrop
  <2>2. b \in Commands /\ b.call = None
    BY DEF Commands, CommandKinds
  <2> HIDE DEF b
  <2>3. Apart' /\ \A x \in Calls : Queued(x)' => Queued(x)
    BY <1>2, <1>4, <2>1, <2>2, QueuedAppend, CallsAssumption
  <2>g. GoesOn
    BY <1>1, <1>3, <2>1, <2>3 DEF GoesOn
  <2> QED
    BY <2>g, OnceKept
<1> QED
  BY <1>5, <1>6, <1>7, <1>8, KindsAssumption DEF Callers, Send, SessionClose, CommandKinds

(* The driver takes a command from the channel.                             *)
LEMMA StartOnce ==
    ASSUME TypeOK, OneExchange, WireInv, OnceInv,
           StartBuildError \/ StartFlushError \/ StartFlushed \/ StartClose
    PROVE  OnceInv'
<1> USE DEF callerVars, wireVars
<1>1. /\ UNCHANGED <<call, served, faults>> /\ pending = None /\ inbox # <<>>
  BY DEF StartBuildError, StartFlushError, StartFlushed, StartClose, Recv
<1>2. PICK h : h = Head(inbox).call
  OBVIOUS
<1>3. /\ DOMAIN reply = Calls /\ Apart /\ inbox \in Seq(Commands)
      /\ \A c \in Calls : Queued(c) => call[c] # "idle"
  BY DEF TypeOK, OnceInv
<1>4. Queued(h)
  <2>1. Head(inbox) = inbox[1] /\ Len(inbox) >= 1 /\ Len(inbox) \in Nat
    BY <1>1, <1>3, TailIsSeq
  <2>2. 1 \in 1..Len(inbox)
    BY <2>1
  <2> QED
    BY <1>2, <2>1, <2>2 DEF Queued
<1>5. ASSUME inbox' = Tail(inbox)
      PROVE  Apart' /\ (\A c : Queued(c)' => Queued(c)) /\ (h # None => ~Queued(h)')
  BY <1>1, <1>2, <1>3, <1>5, QueuedTail
<1>6. CASE StartBuildError \/ StartFlushError
  <2>1. PICK r : reply' = Answer(reply, h, r)
    BY <1>2, <1>6 DEF StartBuildError, StartFlushError
  <2>2. inbox' = Tail(inbox) /\ pending' = pending
    BY <1>6 DEF StartBuildError, StartFlushError
  <2>3. \A c \in Calls : reply'[c] # reply[c] => c = h
    BY <1>3, <2>1, AnswerFacts
  <2>4. \A c \in Calls : ~Pends(c)'
    BY <1>1, <2>2 DEF Pends
  <2>5. \A c \in Calls : reply'[c] # reply[c] => Queued(c) /\ ~Queued(c)' /\ call'[c] # "idle"
    BY <1>1, <1>3, <1>4, <1>5, <2>2, <2>3, CallsAssumption
  <2>g. GoesOn
    BY <1>1, <1>5, <2>2, <2>4, <2>5 DEF GoesOn
  <2> QED
    BY <2>g, OnceKept
<1>7. CASE StartFlushed
  <2>1. inbox' = Tail(inbox) /\ reply' = reply /\ pending' = Fresh(Head(inbox))
    BY <1>7 DEF StartFlushed
  <2>2. \A c \in Calls : Pends(c)' => c = h
    BY <1>2, <2>1 DEF Pends, Fresh
  <2>3. \A c \in Calls : Pends(c)' => Queued(c) /\ ~Queued(c)'
    BY <1>4, <1>5, <2>1, <2>2, CallsAssumption
  <2>g. GoesOn
    BY <1>1, <1>5, <2>1, <2>3 DEF GoesOn
  <2> QED
    BY <2>g, OnceKept
<1>8. CASE StartClose
  <2>1. PICK r : CloseInbox(Tail(inbox), Answer(reply, h, r))
    BY <1>2, <1>8 DEF StartClose
  <2>2. Apart' /\ \A c : ~Queued(c)'
    BY <2>1, CloseInboxFacts, QueuedNone
  <2>3. \A c \in Calls : ~Pends(c)'
    BY <1>8, CloseWire, CallsAssumption DEF Pends
  <2>4. ASSUME NEW c \in Calls, reply'[c] # reply[c] PROVE Queued(c)
    <3>1. CASE c = h
      BY <1>4, <3>1
    <3>2. CASE c # h
      <4>1. Answer(reply, h, r)[c] = reply[c]
        BY <1>3, <3>2, AnswerFacts
      <4>2. PICK i \in 1..Len(Tail(inbox)) : Tail(inbox)[i].call = c
        <5> DEFINE rs == Answer(reply, h, r)
                   q == Tail(inbox)
        <5>1. CloseInbox(q, rs) /\ rs[c] = reply[c]
          BY <2>1, <4>1
        <5> HIDE DEF rs, q
        <5>2. reply'[c] = rs[c] \/ \E i \in 1..Len(q) : q[i].call = c
          BY <5>1, CloseInboxFacts
        <5>3. \E i \in 1..Len(q) : q[i].call = c
          BY <2>4, <5>1, <5>2, Zenon
        <5> QED
          BY <5>3 DEF q
      <4>3. /\ Len(Tail(inbox)) = Len(inbox) - 1 /\ Tail(inbox)[i] = inbox[i + 1] /\ Len(inbox) \in Nat
        BY <1>1, <1>3, TailIsSeq
      <4>4. i + 1 \in 1..Len(inbox)
        BY <4>3
      <4> QED
        BY <4>2, <4>3, <4>4 DEF Queued
    <3> QED
      BY <3>1, <3>2
  <2>g. GoesOn
    BY <1>1, <1>3, <2>2, <2>3, <2>4 DEF GoesOn
  <2> QED
    BY <2>g, OnceKept
<1> QED
  BY <1>6, <1>7, <1>8

(* The driver reads, or ends.                                               *)
LEMMA ReadOnce ==
    ASSUME TypeOK, OneExchange, WireInv, OnceInv,
           \/ OnMessage \/ OnCopyInResponseIgnored \/ OnCopyInResponse \/ OnReadyForQuery
           \/ OnCopyWriteError \/ OnReaderEnd \/ Shutdown
    PROVE  OnceInv'
<1> USE DEF callerVars, wireVars
<1>1. DOMAIN reply = Calls /\ Apart
      /\ \A c \in Calls : Queued(c) \/ Pends(c) => call[c] # "idle"
  BY DEF TypeOK, OnceInv
<1>2. ASSUME inbox' = inbox PROVE Apart' /\ \A c : Queued(c)' <=> Queued(c)
  BY <1>1, <1>2 DEF Apart, Queued
<1>3. CASE OnMessage \/ OnCopyInResponseIgnored \/ OnCopyInResponse
  <2>1. ReadsOn /\ reply' = reply
    BY <1>3, ReadWithin
  <2>2. \A c \in Calls : Pends(c)' => Pends(c)
    BY <2>1 DEF ReadsOn, Pends
  <2>g. GoesOn
    BY <1>2, <2>1, <2>2 DEF GoesOn, ReadsOn
  <2> QED
    BY <2>g, OnceKept
<1>4. CASE OnReadyForQuery
  <2>1. /\ ReadsOn
        /\ InFlight => pending' = None /\ reply' = Answer(reply, pending.call, Outcome(pending))
        /\ ~InFlight => UNCHANGED <<pending, reply>>
    BY <1>4, ReadReady
  <2>2. \A c \in Calls : Pends(c)' => Pends(c)
    BY <2>1 DEF ReadsOn, Pends
  <2>3. ASSUME NEW c \in Calls, reply'[c] # reply[c]
        PROVE  Pends(c) /\ ~Pends(c)' /\ ~Queued(c)'
    <3>1. InFlight /\ pending' = None /\ reply' = Answer(reply, pending.call, Outcome(pending))
      BY <2>1, <2>3
    <3>2. c = pending.call
      BY <1>1, <2>3, <3>1, AnswerFacts
    <3>3. Pends(c) /\ ~Pends(c)'
      BY <3>1, <3>2 DEF Pends, InFlight
    <3> QED
      BY <1>2, <2>1, <3>3 DEF ReadsOn, OnceInv
  <2>g. GoesOn
    BY <1>1, <1>2, <2>1, <2>2, <2>3 DEF GoesOn, ReadsOn
  <2> QED
    BY <2>g, OnceKept
<1>5. CASE OnCopyWriteError \/ OnReaderEnd
  <2>1. UNCHANGED <<call, served, faults>> /\ \E e : FailPending(e)
    BY <1>5 DEF OnCopyWriteError, OnReaderEnd
  <2>2. PICK e : FailPending(e)
    BY <2>1
  <2> DEFINE rs == IF pending = None THEN reply ELSE Answer(reply, pending.call, Err(e))
  <2>3. CloseInbox(inbox, rs) /\ pending' = None
    BY <2>2 DEF FailPending
  <2>4. \A c \in Calls : rs[c] # reply[c] => Pends(c)
    BY <1>1, AnswerFacts DEF Pends
  <2> HIDE DEF rs
  <2>5. Apart' /\ \A c : ~Queued(c)'
    BY <2>3, CloseInboxFacts, QueuedNone
  <2>6. \A c \in Calls : ~Pends(c)'
    BY <2>3 DEF Pends
  <2>7. \A c \in Calls : reply'[c] # reply[c] => Pends(c) \/ Queued(c)
    BY <2>3, <2>4, CloseInboxFacts DEF Queued
  <2>g. GoesOn
    BY <1>1, <2>1, <2>5, <2>6, <2>7 DEF GoesOn
  <2> QED
    BY <2>g, OnceKept
<1>6. CASE Shutdown
  <2>1. UNCHANGED <<call, served, faults, pending, inbox, reply>>
    BY <1>6 DEF Shutdown
  <2>2. \A c \in Calls : Pends(c)' => Pends(c)
    BY <2>1 DEF Pends
  <2>g. GoesOn
    BY <1>2, <2>1, <2>2 DEF GoesOn
  <2> QED
    BY <2>g, OnceKept
<1> QED
  BY <1>3, <1>4, <1>5, <1>6

LEMMA NextOnce == TypeOK /\ OneExchange /\ WireInv /\ OnceInv /\ [Next]_vars => OnceInv'
<1> SUFFICES ASSUME TypeOK, OneExchange, WireInv, OnceInv, [Next]_vars PROVE OnceInv'
  OBVIOUS
<1>1. ASSUME UNCHANGED <<call, reply, inbox, pending>>,
             \A c \in Calls : served'[c] # served[c] \/ faults'[c] # faults[c] => Pends(c)
      PROVE  OnceInv'
  <2>1. Apart' /\ (\A c : Queued(c)' => Queued(c)) /\ \A c : Pends(c)' => Pends(c)
    BY <1>1 DEF OnceInv, Apart, Queued, Pends
  <2>g. GoesOn
    BY <1>1, <2>1 DEF GoesOn
  <2> QED
    BY <2>g, OnceKept
<1>2. CASE ServerEmit \/ ServerCopyAbort
  <2>1. PICK m \in Messages, stage \in ServerStages : Sends(m, stage)
    BY <1>2, ServerSends DEF WireInv
  <2>2. driver = "running" /\ srv.stage \notin {"idle", "gone"} /\ UNCHANGED <<call, reply, inbox, pending>>
        /\ \A c \in Calls : served'[c] # served[c] \/ faults'[c] # faults[c] => c = srv.call
    BY <2>1 DEF Sends
  <2>3. InFlight /\ srv.call = pending.call
    BY <2>2, ServedIsPending
  <2> QED
    BY <1>1, <2>2, <2>3 DEF Pends, InFlight
<1>3. CASE ServerTake \/ ServerReady \/ ServerNotice \/ ServerDie \/ Quiescent \/ UNCHANGED vars
  <2>1. UNCHANGED <<call, reply, inbox, pending, served, faults>>
    BY <1>3 DEF ServerTake, ServerReady, ServerNotice, ServerDie, Quiescent, vars, serverFrame, callerVars
  <2> QED
    BY <1>1, <2>1
<1> QED
  BY <1>2, <1>3, CallersOnce, StartOnce, ReadOnce DEF Next, DriverStep, ServerStep

LEMMA FaultIsError == \A m : FaultOf(m) # None => FaultOf(m) \in Blamed /\ FaultOf(m) \in Errors
  BY DEF FaultOf, Blamed, Errors

(* An innocent message is read, or sent.                                    *)
LEMMA BlamesTail ==
    ASSUME NEW t \in Seq(Messages), t # <<>>, NEW fs \in Seq(Errors), NEW e, NEW d, Blames(e, fs, t),
           e = None => Innocent(t[1]), d = e \/ d \notin Blamed \cup {None}
    PROVE  Blames(d, fs, Tail(t))
<1>1. /\ Len(t) \in Nat /\ Len(t) >= 1 /\ Len(Tail(t)) = Len(t) - 1
      /\ \A i \in 1..Len(Tail(t)) : Tail(t)[i] = t[i + 1]
  BY TailIsSeq
<1>2. \A i \in 1..Len(Tail(t)) : i + 1 \in 1..Len(t)
  BY <1>1
<1>3. CASE d = e /\ e = None /\ fs = <<>>
  BY <1>1, <1>2, <1>3 DEF Blames
<1>4. CASE d = e /\ e = None /\ fs # <<>>
  <2>1. PICK k \in 1..Len(t) : /\ t[k].of # None /\ FaultOf(t[k]) = Head(fs)
                               /\ \A j \in 1..(k - 1) : Innocent(t[j])
    BY <1>4 DEF Blames
  <2>2. k # 1
    <3>1. Head(fs) \in Errors
      BY <1>4, TailIsSeq
    <3> QED
      BY <1>4, <2>1, <3>1, NoneAssumption DEF Innocent
  <2>3. k - 1 \in 1..Len(Tail(t)) /\ (k - 1) + 1 = k
    BY <1>1, <2>2
  <2>4. Tail(t)[k - 1] = t[k]
    BY <1>1, <2>3
  <2>5. \A j \in 1..((k - 1) - 1) : Innocent(Tail(t)[j])
    <3> TAKE j \in 1..((k - 1) - 1)
    <3>1. j \in 1..Len(Tail(t)) /\ j + 1 \in 1..(k - 1)
      BY <1>1, <2>3
    <3> QED
      BY <1>1, <2>1, <3>1
  <2>6. d \notin Blamed
    BY <1>4, NoneAssumption DEF Blamed, Errors
  <2> QED
    BY <1>4, <2>1, <2>3, <2>4, <2>5, <2>6 DEF Blames
<1>5. CASE d # None
  BY <1>5 DEF Blames
<1> QED
  BY <1>3, <1>4, <1>5

LEMMA BlamesAppend ==
    ASSUME NEW t \in Seq(Messages), NEW m \in Messages, NEW fs, NEW e, Blames(e, fs, t), Innocent(m)
    PROVE  Blames(e, fs, Append(t, m))
<1> DEFINE u == Append(t, m)
<1>1. /\ Len(t) \in Nat /\ Len(u) = Len(t) + 1
      /\ \A i \in 1..Len(t) : u[i] = t[i]
      /\ u[Len(t) + 1] = m
  BY AppendIsSeq
<1> HIDE DEF u
<1>2. \A i \in 1..Len(u) : i \in 1..Len(t) \/ i = Len(t) + 1
  BY <1>1
<1>3. \A i \in 1..Len(t) : i \in 1..Len(u)
  BY <1>1
<1>4. ASSUME e = None, fs = <<>> PROVE \A i \in 1..Len(u) : Innocent(u[i])
  BY <1>1, <1>2, <1>4 DEF Blames
<1>5. ASSUME e = None, fs # <<>>
      PROVE  \E k \in 1..Len(u) : /\ u[k].of # None /\ FaultOf(u[k]) = Head(fs)
                                 /\ \A j \in 1..(k - 1) : Innocent(u[j])
  <2>1. PICK k \in 1..Len(t) : /\ t[k].of # None /\ FaultOf(t[k]) = Head(fs)
                               /\ \A j \in 1..(k - 1) : Innocent(t[j])
    BY <1>5 DEF Blames
  <2>2. \A j \in 1..(k - 1) : j \in 1..Len(t)
    BY <1>1
  <2> QED
    BY <1>1, <1>3, <2>1, <2>2
<1>6. Blames(e, fs, u)
  BY <1>4, <1>5 DEF Blames
<1> QED
  BY <1>6 DEF u

LEMMA AppendHead ==
    ASSUME NEW S, NEW s \in Seq(S), NEW x \in S
    PROVE  /\ Append(s, x) # <<>>
           /\ s = <<>> => Head(Append(s, x)) = x
           /\ s # <<>> => Head(Append(s, x)) = Head(s)
<1> DEFINE a == Append(s, x)
<1>1. /\ a \in Seq(S) /\ Len(a) = Len(s) + 1 /\ Len(s) \in Nat
      /\ \A i \in 1..Len(s) : a[i] = s[i]
      /\ a[Len(s) + 1] = x
  BY AppendIsSeq
<1> HIDE DEF a
<1>2. a # <<>>
  BY <1>1, EmptyIsSeq
<1>3. Head(a) = a[1]
  BY <1>1, <1>2, TailIsSeq
<1>4. ASSUME s = <<>> PROVE Head(a) = x
  <2>1. Len(s) = 0
    BY <1>4, EmptyIsSeq
  <2> QED
    BY <1>1, <1>3, <2>1
<1>5. ASSUME s # <<>> PROVE Head(a) = Head(s)
  <2>1. Head(s) = s[1] /\ Len(s) >= 1
    BY <1>5, TailIsSeq
  <2>2. 1 \in 1..Len(s)
    BY <1>1, <2>1
  <2> QED
    BY <1>1, <1>3, <2>1, <2>2
<1> QED
  BY <1>2, <1>4, <1>5 DEF a

(* A message with a fault is sent, or read.                                 *)
LEMMA BlamesSend ==
    ASSUME NEW t \in Seq(Messages), NEW m \in Messages, NEW fs \in Seq(Errors), NEW e,
           Blames(e, fs, t), m.of # None, FaultOf(m) # None
    PROVE  Blames(e, Append(fs, FaultOf(m)), Append(t, m))
<1> DEFINE u == Append(t, m)
           gs == Append(fs, FaultOf(m))
<1>1. /\ Len(t) \in Nat /\ Len(u) = Len(t) + 1
      /\ \A i \in 1..Len(t) : u[i] = t[i]
      /\ u[Len(t) + 1] = m
  BY AppendIsSeq
<1>2. FaultOf(m) \in Errors
  BY FaultIsError
<1>3. /\ gs # <<>> /\ (fs = <<>> => Head(gs) = FaultOf(m))
      /\ fs # <<>> => Head(gs) = Head(fs)
  BY <1>2, AppendHead
<1> HIDE DEF u, gs
<1>4. ASSUME e = None
      PROVE  \E k \in 1..Len(u) : /\ u[k].of # None /\ FaultOf(u[k]) = Head(gs)
                                 /\ \A j \in 1..(k - 1) : Innocent(u[j])
  <2>1. CASE fs = <<>>
    <3>1. \A i \in 1..Len(t) : Innocent(t[i])
      BY <1>4, <2>1 DEF Blames
    <3>2. Len(t) + 1 \in 1..Len(u) /\ (Len(t) + 1) - 1 = Len(t)
      BY <1>1
    <3>3. \A j \in 1..((Len(t) + 1) - 1) : Innocent(u[j])
      BY <1>1, <3>1, <3>2
    <3> QED
      BY <1>1, <1>3, <2>1, <3>2, <3>3
  <2>2. CASE fs # <<>>
    <3>1. PICK k \in 1..Len(t) : /\ t[k].of # None /\ FaultOf(t[k]) = Head(fs)
                                 /\ \A j \in 1..(k - 1) : Innocent(t[j])
      BY <1>4, <2>2 DEF Blames
    <3>2. k \in 1..Len(u) /\ \A j \in 1..(k - 1) : j \in 1..Len(t)
      BY <1>1
    <3>3. u[k] = t[k] /\ \A j \in 1..(k - 1) : Innocent(u[j])
      BY <1>1, <3>1, <3>2
    <3> QED
      BY <1>3, <2>2, <3>1, <3>2, <3>3
  <2> QED
    BY <2>1, <2>2
<1>5. Blames(e, gs, u)
  BY <1>3, <1>4 DEF Blames
<1> QED
  BY <1>5 DEF u, gs

LEMMA BlamesRead ==
    ASSUME NEW t \in Seq(Messages), t # <<>>, NEW fs \in Seq(Errors), Blames(None, fs, t),
           ~Innocent(t[1]), NEW s
    PROVE  Blames(FaultOf(t[1]), fs, s)
<1>1. 1 \in 1..Len(t) /\ t[1].of # None /\ FaultOf(t[1]) # None
  <2>1. Len(t) \in Nat /\ Len(t) >= 1
    BY TailIsSeq
  <2> QED
    BY <2>1 DEF Innocent
<1>2. fs # <<>>
  BY <1>1 DEF Blames
<1>3. PICK k \in 1..Len(t) : /\ t[k].of # None /\ FaultOf(t[k]) = Head(fs)
                             /\ \A j \in 1..(k - 1) : Innocent(t[j])
  BY <1>2 DEF Blames
<1>4. k = 1
  <2>1. ASSUME k # 1 PROVE FALSE
    <3>1. 1 \in 1..(k - 1)
      BY <2>1
    <3> QED
      BY <1>3, <3>1
  <2> QED
    BY <2>1
<1> QED
  BY <1>1, <1>2, <1>3, <1>4 DEF Blames

(* The stream is cut behind the end of the exchange.                        *)
LEMMA BlamesCut ==
    ASSUME TypeOK, NEW k \in 0..Len(toClient), CutAt(k), NEW fs, NEW e, Blames(e, fs, toClient),
           NEW r \in 1..k, \A j \in (r + 1)..Len(toClient) : toClient[j].of = None
    PROVE  Blames(e, fs, toClient')
<1>1. /\ Len(toClient) \in Nat /\ Len(toClient') \in Nat /\ k \in Nat /\ k <= Len(toClient')
      /\ \A i \in 1..k : toClient'[i] = toClient[i]
      /\ \A i \in (k + 1)..Len(toClient') : toClient'[i].of = None
  BY DEF CutAt, TypeOK
<1>2. \A i \in 1..Len(toClient') : i \in 1..k \/ i \in (k + 1)..Len(toClient')
  BY <1>1
<1>3. \A i \in 1..k : i \in 1..Len(toClient) /\ i \in 1..Len(toClient')
  BY <1>1
<1>4. ASSUME e = None, fs = <<>> PROVE \A i \in 1..Len(toClient') : Innocent(toClient'[i])
  BY <1>1, <1>2, <1>3, <1>4 DEF Blames, Innocent
<1>5. ASSUME e = None, fs # <<>>
      PROVE  \E n \in 1..Len(toClient') : /\ toClient'[n].of # None /\ FaultOf(toClient'[n]) = Head(fs)
                                         /\ \A j \in 1..(n - 1) : Innocent(toClient'[j])
  <2>1. PICK n \in 1..Len(toClient) : /\ toClient[n].of # None /\ FaultOf(toClient[n]) = Head(fs)
                                      /\ \A j \in 1..(n - 1) : Innocent(toClient[j])
    BY <1>5 DEF Blames
  <2>2. n <= r
    BY <1>1, <2>1
  <2>3. n \in 1..k /\ \A j \in 1..(n - 1) : j \in 1..k
    BY <1>1, <2>2
  <2> QED
    BY <1>1, <1>3, <2>1, <2>3
<1> QED
  BY <1>4, <1>5 DEF Blames

(* What on_message does to the error of the pending command.                *)
LEMMA AbsorbError ==
    ASSUME NEW p \in Pending, NEW m \in Messages, p.kind # "Close"
    PROVE  /\ m.type = "ErrorResponse" /\ p.kind = "SimpleQuery" => Absorb(p, m).error = "Server"
           /\ m.type = "ErrorResponse" /\ p.kind # "SimpleQuery" =>
                 Absorb(p, m).error = IF p.error = None THEN "Server" ELSE p.error
           /\ /\ m.type \in {"RowDescription", "NoData"} /\ m.arg = "misaligned"
              /\ p.kind = "ExtendedQuery"
              => Absorb(p, m).error = IF p.error = None THEN "ColumnAlignment" ELSE p.error
           /\ m.type # "ErrorResponse" /\ m.arg # "misaligned" => Absorb(p, m).error = p.error
           /\ m.type = "Notice" => Absorb(p, m) = p
           /\ p.error # None /\ p.kind # "SimpleQuery" => Absorb(p, m).error = p.error
<1>0. p.kind \in CommandKinds
  BY DEF Pending
<1>1. ASSUME m.type = "ErrorResponse", p.kind = "SimpleQuery"
      PROVE  Absorb(p, m) = [p EXCEPT !.error = "Server"]
  BY <1>1 DEF Absorb, Stored
<1>2. ASSUME m.type = "ErrorResponse", p.kind # "SimpleQuery"
      PROVE  Absorb(p, m) = FirstError(p, "Server")
  <2>1. m.type \notin Stored(p.kind)
    BY <1>2 DEF Stored
  <2> QED
    BY <1>2, <2>1 DEF Absorb
<1>3. ASSUME m.type \in {"RowDescription", "NoData"}, m.arg = "misaligned",
             p.kind \in {"ExtendedQuery", "ExecutePrepared"}
      PROVE  Absorb(p, m) = FirstError(p, "ColumnAlignment")
  BY <1>3 DEF Absorb, Stored
<1>4. ASSUME m.type # "ErrorResponse",
             ~(/\ m.type \in {"RowDescription", "NoData"} /\ m.arg = "misaligned"
               /\ p.kind \in {"ExtendedQuery", "ExecutePrepared"})
      PROVE  Absorb(p, m).error = p.error
  <2>1. CASE m.type = "DataRow" /\ p.kind \in RowKinds
    <3>1. Absorb(p, m) = [p EXCEPT !.current = Append(@, [of |-> m.of, n |-> m.n])]
      BY <2>1 DEF Absorb, Stored, RowKinds
    <3> QED
      BY <3>1 DEF Pending
  <2>2. CASE m.type = "CommandComplete" /\ p.kind = "SimpleQuery"
    <3>1. Absorb(p, m) = EndSet(p)
      BY <2>2 DEF Absorb, Stored, RowKinds
    <3> QED
      BY <3>1 DEF Pending, EndSet
  <2>3. CASE m.type = "EmptyQueryResponse" /\ p.kind = "SimpleQuery"
    <3>1. Absorb(p, m) = [p EXCEPT !.results = Append(@, <<>>)]
      BY <2>3 DEF Absorb, Stored, RowKinds
    <3> QED
      BY <3>1 DEF Pending
  <2>4. CASE /\ ~(m.type = "DataRow" /\ p.kind \in RowKinds)
             /\ ~(m.type \in {"CommandComplete", "EmptyQueryResponse"} /\ p.kind = "SimpleQuery")
    <3>1. Absorb(p, m) \in {p, [p EXCEPT !.seen = @ \cup {m}]}
      BY <1>4, <2>4 DEF Absorb
    <3> QED
      BY <3>1 DEF Pending
  <2> QED
    BY <2>1, <2>2, <2>3, <2>4
<1>5. m.type = "Notice" => Absorb(p, m) = p
  BY DEF Absorb, Stored
<1>6. \A e : /\ FirstError(p, e).error = IF p.error = None THEN e ELSE p.error
             /\ [p EXCEPT !.error = e].error = e
  BY DEF FirstError, Pending
<1> QED
  BY <1>1, <1>2, <1>3, <1>4, <1>5, <1>6

(* What reading the first message, one of the exchange, does to the error.  *)
LEMMA ReadError ==
    ASSUME TypeOK, OneExchange, WireInv, InFlight,
           OnMessage \/ OnCopyInResponseIgnored \/ OnCopyInResponse
    PROVE  /\ toClient[1].of # None /\ pending.error = None =>
                 \/ pending'.error = FaultOf(toClient[1])
                 \/ Innocent(toClient[1]) /\ pending'.error = "CopyEncode"
           /\ pending.error # None /\ (pending.kind = "SimpleQuery" => pending.error = "Server")
                 => pending'.error = pending.error
           /\ toClient[1].type = "Notice" => pending' = pending
           /\ pending.kind = "SimpleQuery" /\ pending.error \in {None, "Server"}
                 => pending'.error \in {None, "Server"}
<1>1. /\ pending \in Pending /\ pending # None /\ pending.kind # "Close"
      /\ toClient[1] \in Messages /\ Head(toClient) = toClient[1] /\ driver = "running"
      /\ 1 \in 1..Len(toClient)
  <2>1. PICK types : Read(types)
    BY ReadWithin
  <2> QED
    BY <2>1, ReadShifts DEF Read, InFlight, TypeOK
<1> DEFINE m == toClient[1]
<1>2. m.of # None => Fits(m, pending.kind)
  BY <1>1 DEF WireInv, FitInv
<1>3. m.of = None => m.type \in Unsolicited
  BY <1>1 DEF OneExchange, OwnerInv
<1>4. CASE OnMessage
  <2>1. pending' = Absorb(pending, m) /\ m.type # "CopyInResponse"
    BY <1>1, <1>4 DEF OnMessage, Read
  <2>2. m.of # None => /\ m.arg # "text"
                       /\ m.arg = "misaligned" => /\ m.type \in {"RowDescription", "NoData"}
                                                  /\ pending.kind = "ExtendedQuery"
    BY <1>2, <2>1 DEF Fits
  <2> HIDE DEF m
  <2>3. m.of # None /\ pending.error = None => pending'.error = FaultOf(m)
    <3>1. CASE m.type = "ErrorResponse"
      BY <1>1, <2>1, <3>1, AbsorbError DEF FaultOf, m
    <3>2. CASE m.type # "ErrorResponse" /\ m.arg = "misaligned"
      BY <1>1, <2>1, <2>2, <3>2, AbsorbError DEF FaultOf, m
    <3>3. CASE m.type # "ErrorResponse" /\ m.arg # "misaligned"
      BY <1>1, <2>1, <2>2, <3>3, AbsorbError DEF FaultOf, m
    <3> QED
      BY <3>1, <3>2, <3>3
  <2>4. m.type = "Notice" => pending' = pending
    BY <1>1, <2>1, AbsorbError DEF m
  <2>5. pending.kind = "SimpleQuery" => pending'.error \in {pending.error, "Server"}
    <3>1. CASE m.type = "ErrorResponse"
      BY <1>1, <2>1, <3>1, AbsorbError DEF m
    <3>2. CASE m.type # "ErrorResponse" /\ m.arg # "misaligned"
      BY <1>1, <2>1, <3>2, AbsorbError DEF m
    <3>3. CASE m.type # "ErrorResponse" /\ m.arg = "misaligned" /\ pending.kind = "SimpleQuery"
      <4>1. m.of = None
        BY <2>2, <3>3
      <4>2. m.type = "Notice" \/ m.type \in Ends
        BY <1>3, <3>3, <4>1 DEF Unsolicited, m
      <4>3. m.type \notin Ends
        BY <1>1, <1>4 DEF OnMessage, Read, m
      <4> QED
        BY <2>4, <4>2, <4>3
    <3> QED
      BY <3>1, <3>2, <3>3
  <2>6. pending.error # None /\ pending.kind # "SimpleQuery" => pending'.error = pending.error
    BY <1>1, <2>1, AbsorbError DEF m
  <2> QED
    BY <2>3, <2>4, <2>5, <2>6 DEF m
<1>5. CASE OnCopyInResponseIgnored
  <2>1. pending' = pending /\ m.type = "CopyInResponse" /\ pending.kind # "CopyIn"
    BY <1>1, <1>5 DEF OnCopyInResponseIgnored, Read, CopyInPending
  <2>2. m.of # None /\ FaultOf(m) = None
    BY <1>2, <1>3, <2>1 DEF Unsolicited, Ends, Fits, FaultOf
  <2> QED
    BY <2>1, <2>2
<1>6. CASE OnCopyInResponse
  <2>1. m.type = "CopyInResponse" /\ pending.kind = "CopyIn"
    BY <1>1, <1>6 DEF OnCopyInResponse, Read, CopyInPending
  <2>2. m.of # None /\ m.arg \in {"binary", "text"}
    BY <1>2, <1>3, <2>1 DEF Unsolicited, Ends, Fits
  <2>3. \/ m.arg = "binary" /\ pending' = pending
        \/ pending' = FirstError(pending, IF m.arg = "binary" THEN "CopyEncode" ELSE "NotBinary")
    BY <1>1, <1>6 DEF OnCopyInResponse
  <2>4. \A e : FirstError(pending, e).error = IF pending.error = None THEN e ELSE pending.error
    BY <1>1 DEF FirstError, Pending
  <2>5. FaultOf(m) = IF m.arg = "text" THEN "NotBinary" ELSE None
    BY <2>1, <2>2 DEF FaultOf
  <2> HIDE DEF m
  <2>6. pending.error # None => pending'.error = pending.error
    BY <2>3, <2>4
  <2>7. pending.error = None => \/ pending'.error = FaultOf(m)
                                \/ FaultOf(m) = None /\ pending'.error = "CopyEncode"
    BY <2>2, <2>3, <2>4, <2>5
  <2>8. m.type # "Notice" /\ pending.kind # "SimpleQuery"
    BY <2>1
  <2> QED
    BY <2>6, <2>7, <2>8 DEF m, Innocent
<1> QED
  BY <1>4, <1>5, <1>6

LEMMA ReadFault ==
    ASSUME TypeOK, OneExchange, WireInv, FaultInv,
           OnMessage \/ OnCopyInResponseIgnored \/ OnCopyInResponse
    PROVE  FaultInv'
<1> SUFFICES ASSUME InFlight', Live'
             PROVE  /\ Blames(pending'.error, faults'[pending'.call], toClient')
                    /\ pending'.kind = "SimpleQuery" => pending'.error \in {None, "Server"}
  BY DEF FaultInv
<1>1. ReadsOn
  BY ReadWithin
<1>2. PICK types : Read(types)
  BY ReadWithin
<1>3. /\ InFlight /\ pending'.call = pending.call /\ pending'.kind = pending.kind
      /\ faults' = faults /\ srv' = srv /\ driver = "running"
  BY <1>1 DEF ReadsOn, InFlight
<1>4. /\ Len(toClient) \in Nat /\ Len(toClient') = Len(toClient) - 1 /\ 1 \in 1..Len(toClient)
      /\ \A i \in 1..Len(toClient') : toClient'[i] = toClient[i + 1] /\ i + 1 \in 1..Len(toClient)
  BY <1>2, ReadShifts
<1>5. /\ toClient \in Seq(Messages) /\ toClient # <<>> /\ toClient' = Tail(toClient)
      /\ faults[pending.call] \in Seq(Errors)
  BY <1>2, <1>3 DEF TypeOK, Read, OneExchange, OwnerInv, Pending, InFlight
<1>6. Live
  BY <1>3, <1>4 DEF Live
<1>7. toClient[1].of # None \/ toClient[1].type = "Notice"
  <2> SUFFICES ASSUME toClient[1].of = None, toClient[1].type # "Notice" PROVE FALSE
    OBVIOUS
  <2>1. srv.stage = "gone"
    BY <1>3, <1>4 DEF WireInv, QuietInv
  <2>2. PICK i \in 1..Len(toClient') : toClient'[i].type = "ReadyForQuery"
    BY <1>3, <2>1 DEF Live
  <2>3. i + 1 \in 1..Len(toClient) /\ 1 < i + 1 /\ toClient[i + 1].type = "ReadyForQuery"
    BY <1>4, <2>2
  <2> QED
    BY <1>3, <1>4, <2>3 DEF WireInv, QuietInv
<1>8. /\ Blames(pending.error, faults[pending.call], toClient)
      /\ pending.kind = "SimpleQuery" => pending.error \in {None, "Server"}
  BY <1>3, <1>6 DEF FaultInv
<1>9. pending'.kind = "SimpleQuery" => pending'.error \in {None, "Server"}
  BY <1>3, <1>8, ReadError
<1> DEFINE fs == faults[pending.call]
<1>10. Blames(pending'.error, fs, Tail(toClient))
  <2> HIDE DEF fs
  <2>0. fs \in Seq(Errors) /\ Blames(pending.error, fs, toClient)
    BY <1>5, <1>8 DEF fs
  <2>1. CASE toClient[1].type = "Notice" /\ toClient[1].of = None
    <3>1. pending'.error = pending.error /\ Innocent(toClient[1])
      BY <1>3, <2>1, ReadError DEF Innocent
    <3> QED
      BY <1>5, <2>0, <3>1, BlamesTail
  <2>2. CASE pending.error # None
    <3>1. pending'.error = pending.error
      BY <1>3, <1>8, <2>2, ReadError
    <3> QED
      BY <1>5, <2>0, <2>2, <3>1, BlamesTail
  <2>3. CASE pending.error = None /\ toClient[1].of # None /\ Innocent(toClient[1])
    <3>1. pending'.error \in {None, "CopyEncode"}
      BY <1>3, <2>3, ReadError DEF Innocent
    <3>2. pending'.error = pending.error \/ pending'.error \notin Blamed \cup {None}
      BY <2>3, <3>1, NoneAssumption DEF Blamed, Errors
    <3> QED
      BY <1>5, <2>0, <2>3, <3>2, BlamesTail
  <2>4. CASE pending.error = None /\ ~Innocent(toClient[1])
    <3>1. pending'.error = FaultOf(toClient[1])
      BY <1>3, <2>4, ReadError DEF Innocent
    <3>2. Blames(None, fs, toClient)
      BY <2>0, <2>4
    <3>3. \A s : Blames(FaultOf(toClient[1]), fs, s)
      BY <1>5, <2>0, <2>4, <3>2, BlamesRead
    <3> QED
      BY <3>1, <3>3
  <2> QED
    BY <1>7, <2>1, <2>2, <2>3, <2>4
<1> QED
  BY <1>3, <1>5, <1>9, <1>10

LEMMA StartFault ==
    ASSUME TypeOK, OneExchange, WireInv, OnceInv, StartFlushed
    PROVE  FaultInv'
<1>1. /\ pending' = Fresh(Head(inbox)) /\ Head(inbox).call \in Calls /\ inbox # <<>>
      /\ \A i \in 1..Len(toClient) : toClient[i].of = None
      /\ toClient' = toClient /\ faults' = faults /\ inbox' = Tail(inbox)
  BY StartWire DEF StartFlushed, Recv
<1>2. pending'.call = Head(inbox).call /\ pending'.error = None
  BY <1>1 DEF Fresh
<1>3. Queued(Head(inbox).call)
  BY <1>1, QueuedTail
<1>4. faults[Head(inbox).call] = <<>>
  BY <1>1, <1>3 DEF OnceInv, Untouched
<1>5. Blames(None, <<>>, toClient)
  BY <1>1, NoneAssumption DEF Blames, Blamed, Innocent, Errors
<1> QED
  BY <1>1, <1>2, <1>4, <1>5 DEF FaultInv

(* The server sends an innocent message, or nothing.                        *)
LEMMA QuietFault ==
    ASSUME TypeOK, FaultInv, driver = "running", srv.stage # "gone", pending' = pending,
           driver' = driver, faults' = faults,
           \/ toClient' = toClient
           \/ \E m \in Messages : Innocent(m) /\ toClient' = Append(toClient, m)
    PROVE  FaultInv'
<1> SUFFICES ASSUME InFlight, FaultInv
             PROVE  /\ Blames(pending.error, faults[pending.call], toClient')
                    /\ pending.kind = "SimpleQuery" => pending.error \in {None, "Server"}
  BY DEF FaultInv, InFlight
<1>1. /\ Blames(pending.error, faults[pending.call], toClient)
      /\ pending.kind = "SimpleQuery" => pending.error \in {None, "Server"}
  BY DEF FaultInv, Live
<1>2. toClient \in Seq(Messages)
  BY DEF TypeOK
<1> QED
  BY <1>1, <1>2, BlamesAppend

LEMMA SendsFault ==
    ASSUME TypeOK, OneExchange, WireInv, FaultInv, NEW m \in Messages, NEW stage, Sends(m, stage)
    PROVE  FaultInv'
<1>1. /\ driver = "running" /\ srv.stage \notin {"idle", "gone"} /\ m.of = srv.call /\ srv.call \in Calls
      /\ toClient' = Append(toClient, m) /\ UNCHANGED <<driver, pending>>
      /\ \A c \in Calls : faults'[c] = IF c = srv.call /\ FaultOf(m) # None
                                     THEN Append(faults[c], FaultOf(m)) ELSE faults[c]
  BY DEF Sends
<1>2. InFlight /\ srv.call = pending.call
  BY <1>1, ServedIsPending
<1>3. /\ Blames(pending.error, faults[pending.call], toClient)
      /\ pending.kind = "SimpleQuery" => pending.error \in {None, "Server"}
  BY <1>1, <1>2 DEF FaultInv, Live
<1>4. toClient \in Seq(Messages) /\ faults[pending.call] \in Seq(Errors) /\ m.of # None
  BY <1>1, <1>2, CallsAssumption DEF TypeOK
<1>5. Blames(pending.error, faults'[pending.call], toClient')
  <2>1. CASE FaultOf(m) = None
    BY <1>1, <1>2, <1>3, <1>4, <2>1, BlamesAppend DEF Innocent
  <2>2. CASE FaultOf(m) # None
    <3>1. faults'[pending.call] = Append(faults[pending.call], FaultOf(m))
      BY <1>1, <1>2, <2>2
    <3> QED
      BY <1>1, <1>3, <1>4, <2>2, <3>1, BlamesSend
  <2> QED
    BY <2>1, <2>2
<1> QED
  BY <1>1, <1>3, <1>5 DEF FaultInv

LEMMA DieFault ==
    ASSUME TypeOK, OneExchange, FaultInv, ServerDie
    PROVE  FaultInv'
<1>1. driver = "running" /\ srv'.stage = "gone" /\ UNCHANGED <<driver, pending, faults>>
  BY DieCuts
<1>2. PICK k \in 0..Len(toClient) : CutAt(k)
  BY DieCuts
<1> SUFFICES ASSUME InFlight, Live'
             PROVE  /\ Blames(pending.error, faults[pending.call], toClient')
                    /\ pending.kind = "SimpleQuery" => pending.error \in {None, "Server"}
  BY <1>1 DEF FaultInv, InFlight
<1>3. PICK r \in 1..Len(toClient') : toClient'[r].type = "ReadyForQuery"
  BY <1>1 DEF Live
<1>4. r \in 1..k /\ r \in 1..Len(toClient) /\ toClient[r].type = "ReadyForQuery"
  <2>1. /\ Len(toClient) \in Nat /\ Len(toClient') \in Nat /\ k \in Nat
        /\ \A i \in 1..k : toClient'[i] = toClient[i]
        /\ \A i \in (k + 1)..Len(toClient') : toClient'[i].type # "ReadyForQuery"
    <3>1. Len(toClient) \in Nat /\ Len(toClient') \in Nat
      BY <1>2 DEF CutAt, TypeOK
    <3>2. k \in Nat
      BY <3>1
    <3>3. \A i \in (k + 1)..Len(toClient') : toClient'[i].type # "ReadyForQuery"
      BY <1>2 DEF CutAt, Unsolicited, Ends
    <3> QED
      BY <1>2, <3>1, <3>2, <3>3 DEF CutAt
  <2>2. r \in 1..k
    BY <1>3, <2>1
  <2>3. r \in 1..Len(toClient)
    BY <2>1, <2>2
  <2> QED
    BY <1>3, <2>1, <2>2, <2>3
<1>5. Live
  BY <1>4 DEF Live
<1>6. /\ Blames(pending.error, faults[pending.call], toClient)
      /\ pending.kind = "SimpleQuery" => pending.error \in {None, "Server"}
  BY <1>1, <1>5 DEF FaultInv
<1>7. \A j \in (r + 1)..Len(toClient) : toClient[j].of = None
  <2> TAKE j \in (r + 1)..Len(toClient)
  <2>1. Len(toClient) \in Nat
    BY DEF TypeOK
  <2>2. j \in 1..Len(toClient) /\ r < j
    BY <1>4, <2>1
  <2> QED
    BY <1>1, <1>4, <2>2 DEF OneExchange, StreamInv
<1> QED
  BY <1>2, <1>4, <1>6, <1>7, BlamesCut

LEMMA NextFault == TypeOK /\ OneExchange /\ WireInv /\ OnceInv /\ FaultInv /\ [Next]_vars => FaultInv'
<1> SUFFICES ASSUME TypeOK, OneExchange, WireInv, OnceInv, FaultInv, [Next]_vars PROVE FaultInv'
  OBVIOUS
<1>1. CASE Callers \/ StartBuildError \/ Quiescent \/ UNCHANGED vars
  <2>1. UNCHANGED <<driver, pending, toClient, srv, faults>>
    BY <1>1 DEF Callers, Send, Cancel, SessionClose, SessionCloseReturns, SessionDrop, HandlesDrop,
                Enqueue, StartBuildError, Quiescent, vars, wireVars, callerVars
  <2> QED
    BY <2>1 DEF FaultInv, InFlight, Live
<1>2. CASE Shutdown \/ OnCopyWriteError \/ OnReaderEnd
  <2>1. driver' = "exited"
    BY <1>2 DEF Shutdown, OnCopyWriteError, OnReaderEnd, FailPending
  <2> QED
    BY <2>1 DEF FaultInv
<1>3. CASE StartClose \/ StartFlushError
  BY <1>3, CloseWire, FlushErrorWire DEF FaultInv
<1>4. CASE OnReadyForQuery
  <2>1. ~InFlight'
    BY <1>4, ReadReady DEF InFlight
  <2> QED
    BY <2>1 DEF FaultInv
<1>5. CASE ServerEmit \/ ServerCopyAbort
  BY <1>5, ServerSends, SendsFault DEF WireInv
<1>6. CASE ServerTake
  <2>1. driver = "running" /\ srv.stage # "gone" /\ UNCHANGED <<driver, pending, faults>>
        /\ (toClient' = toClient \/ toClient' = Append(toClient, Msg("Eof", None, "none")))
    BY <1>6, TakeForms
  <2> DEFINE m == Msg("Eof", None, "none")
  <2>2. m \in Messages /\ Innocent(m)
    BY DEF Msg, Messages, MsgTypes, Args, Ends, Innocent
  <2> QED
    BY <2>1, <2>2, QuietFault
<1>7. CASE ServerReady
  <2>1. driver = "running" /\ srv.stage # "gone" /\ UNCHANGED <<driver, pending, faults>>
    BY <1>7, ReadyEnds
  <2>2. PICK m \in Messages : /\ m.type = "ReadyForQuery" /\ m.arg \in TxStatus
                              /\ toClient' = Append(toClient, m)
    BY <1>7, ReadyEnds
  <2>3. Innocent(m)
    BY <2>2, StatusAssumption DEF Innocent, FaultOf
  <2> QED
    BY <2>1, <2>2, <2>3, QuietFault
<1>8. CASE ServerNotice
  <2>1. driver = "running" /\ srv.stage # "gone" /\ UNCHANGED <<driver, pending, faults>>
    BY <1>8, NoticeSent
  <2>2. PICK m \in Messages : m.of = None /\ toClient' = Append(toClient, m)
    BY <1>8, NoticeSent
  <2>3. Innocent(m)
    BY <2>2 DEF Innocent
  <2> QED
    BY <2>1, <2>2, <2>3, QuietFault
<1> QED
  BY <1>1, <1>2, <1>3, <1>4, <1>5, <1>6, <1>7, <1>8, StartFault, ReadFault, DieFault
  DEF Next, DriverStep, ServerStep

LEMMA RowsEmpty == \A c : RowsTo(c, 0) = <<>> /\ Sets(c, <<>>) = <<>>
<1> TAKE c
<1>1. 1..0 = {} /\ Len(<<>>) = 0
  OBVIOUS
<1> QED
  BY <1>1 DEF RowsTo, Sets

LEMMA SameSeq ==
    ASSUME NEW S, NEW s \in Seq(S), NEW T, NEW t \in Seq(T), Len(s) = Len(t),
           \A i \in 1..Len(s) : s[i] = t[i]
    PROVE  s = t
  OBVIOUS

LEMMA RowsTyped ==
    ASSUME NEW c \in Calls, NEW k \in Nat
    PROVE  /\ RowsTo(c, k) \in Seq(Rows) /\ Len(RowsTo(c, k)) = k
           /\ \A i \in 1..k : RowsTo(c, k)[i] = [of |-> c, n |-> i]
<1>1. \A i \in 1..k : [of |-> c, n |-> i] \in Rows
  BY DEF Rows
<1> QED
  BY <1>1 DEF RowsTo

LEMMA RowsAppend ==
    ASSUME NEW c \in Calls, NEW k \in Nat
    PROVE  Append(RowsTo(c, k), [of |-> c, n |-> k + 1]) = RowsTo(c, k + 1)
<1> DEFINE s == RowsTo(c, k)
           r == [of |-> c, n |-> k + 1]
           u == RowsTo(c, k + 1)
<1>1. /\ s \in Seq(Rows) /\ Len(s) = k /\ \A i \in 1..k : s[i] = [of |-> c, n |-> i]
  BY RowsTyped
<1>2. /\ u \in Seq(Rows) /\ Len(u) = k + 1 /\ \A i \in 1..(k + 1) : u[i] = [of |-> c, n |-> i]
  BY RowsTyped
<1>3. r \in Rows /\ u[k + 1] = r
  BY <1>2 DEF Rows
<1> HIDE DEF s, u, r
<1>4. /\ Append(s, r) \in Seq(Rows) /\ Len(Append(s, r)) = k + 1
      /\ (\A i \in 1..k : Append(s, r)[i] = s[i]) /\ Append(s, r)[k + 1] = r
  BY <1>1, <1>3, AppendIsSeq
<1>5. ASSUME NEW i \in 1..(k + 1) PROVE Append(s, r)[i] = u[i]
  <2>1. CASE i \in 1..k
    BY <1>1, <1>2, <1>4, <2>1
  <2>2. CASE i = k + 1
    BY <1>3, <1>4, <2>2
  <2>3. i \in 1..k \/ i = k + 1
    OBVIOUS
  <2> QED
    BY <2>1, <2>2, <2>3
<1>6. Append(s, r) = u
  BY <1>2, <1>4, <1>5, SameSeq
<1> QED
  BY <1>6 DEF s, r, u

LEMMA SetsTyped ==
    ASSUME NEW c \in Calls, NEW v \in Seq(Nat)
    PROVE  /\ Sets(c, v) \in Seq(Seq(Rows)) /\ Len(Sets(c, v)) = Len(v)
           /\ \A i \in 1..Len(v) : Sets(c, v)[i] = RowsTo(c, v[i])
<1>1. Len(v) \in Nat /\ \A i \in 1..Len(v) : RowsTo(c, v[i]) \in Seq(Rows)
  BY RowsTyped
<1> QED
  BY <1>1 DEF Sets

LEMMA SetsAppend ==
    ASSUME NEW c \in Calls, NEW v \in Seq(Nat), NEW k \in Nat
    PROVE  Append(Sets(c, v), RowsTo(c, k)) = Sets(c, Append(v, k))
<1> DEFINE s == Sets(c, v)
           r == RowsTo(c, k)
           w == Append(v, k)
           u == Sets(c, w)
<1>1. /\ s \in Seq(Seq(Rows)) /\ Len(s) = Len(v) /\ \A i \in 1..Len(v) : s[i] = RowsTo(c, v[i])
  BY SetsTyped
<1>2. /\ w \in Seq(Nat) /\ Len(w) = Len(v) + 1 /\ Len(v) \in Nat
      /\ (\A i \in 1..Len(v) : w[i] = v[i]) /\ w[Len(v) + 1] = k
  BY AppendIsSeq
<1> HIDE DEF w
<1>3. /\ u \in Seq(Seq(Rows)) /\ Len(u) = Len(w) /\ \A i \in 1..Len(w) : u[i] = RowsTo(c, w[i])
  BY <1>2, SetsTyped
<1>4. r \in Seq(Rows)
  BY RowsTyped
<1>41. u[Len(v) + 1] = r
  BY <1>2, <1>3
<1>42. \A i \in 1..Len(v) : u[i] = s[i]
  BY <1>1, <1>2, <1>3
<1> HIDE DEF s, r, u
<1>5. /\ Append(s, r) \in Seq(Seq(Rows)) /\ Len(Append(s, r)) = Len(v) + 1
      /\ (\A i \in 1..Len(v) : Append(s, r)[i] = s[i]) /\ Append(s, r)[Len(v) + 1] = r
  BY <1>1, <1>4, AppendIsSeq
<1>6. ASSUME NEW i \in 1..(Len(v) + 1) PROVE Append(s, r)[i] = u[i]
  <2>1. CASE i \in 1..Len(v)
    BY <1>42, <1>5, <2>1
  <2>2. CASE i = Len(v) + 1
    BY <1>41, <1>5, <2>2
  <2>3. i \in 1..Len(v) \/ i = Len(v) + 1
    BY <1>2
  <2> QED
    BY <2>1, <2>2, <2>3
<1>7. Append(s, r) = u
  BY <1>2, <1>3, <1>5, <1>6, SameSeq
<1> QED
  BY <1>7 DEF s, r, u, w

LEMMA SetsOne ==
    ASSUME NEW c \in Calls, NEW k \in Nat
    PROVE  Sets(c, Append(<<>>, k)) = <<RowsTo(c, k)>>
<1>1. <<>> \in Seq(Nat)
  BY EmptyIsSeq
<1>2. Append(Sets(c, <<>>), RowsTo(c, k)) = Sets(c, Append(<<>>, k))
  BY <1>1, SetsAppend
<1>3. Append(<<>>, RowsTo(c, k)) = <<RowsTo(c, k)>>
  OBVIOUS
<1> QED
  BY <1>2, <1>3, RowsEmpty

(* One message more keeps what was collected in step with what was sent.    *)
LEMMA SoFarStep ==
    ASSUME NEW kind \in RowKinds, NEW c \in Calls, NEW stage, stage \notin {"idle", "ready"},
           NEW rows \in Nat, NEW v \in Seq(Nat), NEW x, SoFar(kind, c, stage, rows, v, x),
           NEW m, m.of = c, m.type = "DataRow" => m.n = rows + 1, FaultOf(m) = None,
           NEW next, next # "idle", Allowed(kind, rows, m.type, m.arg, next),
           NEW k, k = IF m.type = "DataRow" THEN rows + 1 ELSE IF m.type \in EndsSet THEN 0 ELSE rows,
           NEW w, w = IF m.type \in EndsSet THEN Append(v, rows) ELSE v
    PROVE  SoFar(kind, c, next, k, w, Step(kind, x, m))
<1> DEFINE y == Step(kind, x, m)
<1>0. m.type # "ErrorResponse"
  BY NoneAssumption DEF FaultOf, Errors
<1>1. /\ y.results = IF kind = "SimpleQuery" /\ m.type = "CommandComplete"
                     THEN Append(x.results, x.current)
                     ELSE IF kind = "SimpleQuery" /\ m.type = "EmptyQueryResponse"
                     THEN Append(x.results, <<>>) ELSE x.results
      /\ y.current = IF m.type = "DataRow" THEN Append(x.current, [of |-> m.of, n |-> m.n])
                     ELSE IF kind = "SimpleQuery" /\ m.type = "CommandComplete"
                     THEN <<>> ELSE x.current
  BY DEF Step
<1> HIDE DEF y
<1>2. CASE kind = "SimpleQuery"
  <2>1. x.results = Sets(c, v) /\ x.current = RowsTo(c, rows)
    BY <1>2 DEF SoFar
  <2>2. SUFFICES y.results = Sets(c, w) /\ y.current = RowsTo(c, k)
    BY <1>2 DEF SoFar, y
  <2>3. CASE m.type = "DataRow"
    <3>1. y.results = Sets(c, v) /\ w = v /\ k = rows + 1
      BY <1>1, <2>1, <2>3 DEF EndsSet
    <3>2. y.current = Append(RowsTo(c, rows), [of |-> c, n |-> rows + 1])
      BY <1>1, <2>1, <2>3
    <3> QED
      BY <3>1, <3>2, RowsAppend
  <2>4. CASE m.type = "CommandComplete"
    <3>1. y.results = Append(Sets(c, v), RowsTo(c, rows)) /\ y.current = <<>> /\ k = 0 /\ w = Append(v, rows)
      BY <1>1, <1>2, <2>1, <2>4 DEF EndsSet
    <3> QED
      BY <3>1, SetsAppend, RowsEmpty
  <2>5. CASE m.type = "EmptyQueryResponse"
    <3>1. rows = 0
      BY <1>2, <2>5 DEF Allowed
    <3>2. /\ y.results = Append(Sets(c, v), RowsTo(c, rows)) /\ y.current = RowsTo(c, rows)
          /\ k = 0 /\ w = Append(v, rows)
      BY <1>1, <1>2, <2>1, <2>5, <3>1, RowsEmpty DEF EndsSet
    <3> QED
      BY <3>1, <3>2, SetsAppend
  <2>6. CASE m.type \notin {"DataRow", "CommandComplete", "EmptyQueryResponse"}
    <3>1. m.type \notin EndsSet
      BY <1>2, <2>6 DEF Allowed, EndsSet
    <3> QED
      BY <1>1, <2>1, <2>6, <3>1
  <2> QED
    BY <2>3, <2>4, <2>5, <2>6
<1>3. CASE kind # "SimpleQuery"
  <2>1. v = <<>> /\ x.current = RowsTo(c, rows)
    BY <1>3 DEF SoFar
  <2>2. /\ m.type \in EndsSet => next = "ready"
        /\ next = "ready" => m.type \in EndsSet
    BY <1>0, <1>3 DEF Allowed
  <2>3. CASE m.type = "DataRow"
    <3>1. w = v /\ k = rows + 1 /\ next # "ready"
      BY <2>2, <2>3 DEF EndsSet
    <3>2. y.current = Append(RowsTo(c, rows), [of |-> c, n |-> rows + 1])
      BY <1>1, <2>1, <2>3
    <3>3. y.current = RowsTo(c, k)
      BY <3>1, <3>2, RowsAppend
    <3> QED
      BY <1>3, <2>1, <3>1, <3>3 DEF SoFar, y
  <2>4. CASE m.type \in EndsSet
    <3>1. next = "ready" /\ w = Append(<<>>, rows) /\ y.current = RowsTo(c, rows)
      BY <1>1, <1>3, <2>1, <2>2, <2>4 DEF EndsSet
    <3>2. <<y.current>> = Sets(c, w)
      BY <3>1, SetsOne
    <3> QED
      BY <1>3, <3>1, <3>2 DEF SoFar, y
  <2>5. CASE m.type # "DataRow" /\ m.type \notin EndsSet
    <3>1. w = v /\ k = rows /\ y.current = x.current /\ next # "ready"
      BY <1>1, <1>3, <2>2, <2>5
    <3> QED
      BY <1>3, <2>1, <3>1 DEF SoFar, y
  <2> QED
    BY <2>3, <2>4, <2>5
<1> QED
  BY <1>2, <1>3

(* What on_message does to the rows of a pending query.                     *)
LEMMA AbsorbHold ==
    ASSUME NEW p \in Pending, NEW m \in Messages, p.kind \in RowKinds
    PROVE  Hold(Absorb(p, m)) = Step(p.kind, Hold(p), m)
<1>1. CASE m.type = "DataRow"
  <2>1. Absorb(p, m) = [p EXCEPT !.current = Append(@, [of |-> m.of, n |-> m.n])]
    BY <1>1 DEF Absorb, Stored, RowKinds
  <2> QED
    BY <1>1, <2>1 DEF Pending, Hold, Step
<1>2. CASE m.type = "CommandComplete" /\ p.kind = "SimpleQuery"
  <2>1. Absorb(p, m) = EndSet(p)
    BY <1>2 DEF Absorb, Stored, RowKinds
  <2> QED
    BY <1>2, <2>1 DEF Pending, EndSet, Hold, Step
<1>3. CASE m.type = "EmptyQueryResponse" /\ p.kind = "SimpleQuery"
  <2>1. Absorb(p, m) = [p EXCEPT !.results = Append(@, <<>>)]
    BY <1>3 DEF Absorb, Stored, RowKinds
  <2> QED
    BY <1>3, <2>1 DEF Pending, Hold, Step
<1>4. CASE /\ m.type # "DataRow"
           /\ ~(m.type \in {"CommandComplete", "EmptyQueryResponse"} /\ p.kind = "SimpleQuery")
  <2>1. Absorb(p, m) \in {p, [p EXCEPT !.error = "Server"], FirstError(p, "Server"),
                          FirstError(p, "ColumnAlignment"), [p EXCEPT !.seen = @ \cup {m}]}
    BY <1>4 DEF Absorb
  <2>2. Absorb(p, m).results = p.results /\ Absorb(p, m).current = p.current
    BY <2>1 DEF Pending, FirstError
  <2>3. Step(p.kind, Hold(p), m) = Hold(p)
    BY <1>4 DEF Step, Hold
  <2> QED
    BY <2>2, <2>3 DEF Hold
<1> QED
  BY <1>1, <1>2, <1>3, <1>4

(* Messages that add nothing to a query.                                    *)
Neutral == {"Notice", "ErrorResponse", "ReadyForQuery", "CopyInResponse"} \cup Ends
LEMMA StepIdle ==
    ASSUME NEW kind, NEW x, NEW m, m.type \in Neutral,
           x = [results |-> x.results, current |-> x.current]
    PROVE  Step(kind, x, m) = x
  BY DEF Step, Neutral, Ends

LEMMA PathShape ==
    ASSUME NEW f, NEW kind, NEW x, NEW t, Len(t) \in Nat, Path(f, kind, x, t),
           x = [results |-> x.results, current |-> x.current], NEW k \in 0..Len(t)
    PROVE  f[k] = [results |-> f[k].results, current |-> f[k].current]
<1>1. CASE k = 0
  BY <1>1 DEF Path
<1>2. CASE k \in 1..Len(t)
  <2>1. f[k] = Step(kind, f[k - 1], t[k])
    BY <1>2 DEF Path
  <2> QED
    BY <2>1 DEF Step
<1>3. k = 0 \/ k \in 1..Len(t)
  OBVIOUS
<1> QED
  BY <1>1, <1>2, <1>3

(* The first message is read.                                               *)
LEMMA CoversTail ==
    ASSUME NEW f, NEW kind, NEW c, NEW x, NEW t \in Seq(Messages), NEW stage, NEW rows, NEW v,
           Covers(f, kind, c, x, t, stage, rows, v), t # <<>>, t[1].type # "ReadyForQuery"
    PROVE  \E g : Covers(g, kind, c, Step(kind, x, t[1]), Tail(t), stage, rows, v)
<1> DEFINE u == Tail(t)
           g == [i \in Nat |-> f[i + 1]]
<1>1. /\ Len(t) \in Nat /\ Len(t) >= 1 /\ Len(u) = Len(t) - 1 /\ Len(u) \in Nat
      /\ \A i \in 1..Len(u) : u[i] = t[i + 1]
  BY TailIsSeq
<1> HIDE DEF u
<1>2. \A i \in 1..Len(u) : i \in Nat /\ i - 1 \in Nat /\ i + 1 \in 1..Len(t) /\ (i - 1) + 1 = i
                           /\ (i + 1) - 1 = i
  BY <1>1
<1>3. \A i \in 2..Len(t) : i - 1 \in 1..Len(u) /\ (i - 1) + 1 = i
  BY <1>1
<1>4. f[0] = x /\ \A i \in 1..Len(t) : f[i] = Step(kind, f[i - 1], t[i])
  BY DEF Covers, Path
<1>5. 1 \in 1..Len(t) /\ 1 - 1 = 0 /\ 0 + 1 = 1 /\ 0 \in Nat
  BY <1>1
<1>6. g[0] = Step(kind, x, t[1])
  BY <1>4, <1>5
<1>7. \A i \in Nat : g[i] = f[i + 1]
  OBVIOUS
<1> HIDE DEF g
<1>8. ASSUME NEW i \in 1..Len(u) PROVE g[i] = Step(kind, g[i - 1], u[i])
  <2>1. g[i] = f[i + 1] /\ g[i - 1] = f[i] /\ u[i] = t[i + 1]
    BY <1>1, <1>2, <1>7
  <2>2. f[i + 1] = Step(kind, f[i], t[i + 1])
    BY <1>2, <1>4
  <2> QED
    BY <2>1, <2>2
<1>9. ASSUME NEW r \in 1..Len(u), u[r].type = "ReadyForQuery" PROVE Whole(kind, c, v, g[r])
  BY <1>1, <1>2, <1>7, <1>9 DEF Covers
<1>10. NoReady(u) => NoReady(t)
  <2> SUFFICES ASSUME NoReady(u), NEW r \in 1..Len(t) PROVE t[r].type # "ReadyForQuery"
    BY DEF NoReady
  <2>1. r = 1 \/ r \in 2..Len(t)
    BY <1>1
  <2> QED
    BY <1>1, <1>3, <2>1 DEF NoReady
<1>11. g[Len(u)] = f[Len(t)]
  <2>1. Len(u) + 1 = Len(t)
    BY <1>1
  <2> QED
    BY <1>1, <1>7, <2>1
<1>12. stage # "gone" /\ NoReady(u) => SoFar(kind, c, stage, rows, v, g[Len(u)])
  BY <1>10, <1>11 DEF Covers
<1>13. Covers(g, kind, c, Step(kind, x, t[1]), u, stage, rows, v)
  BY <1>6, <1>8, <1>9, <1>12 DEF Covers, Path
<1> QED
  BY <1>13 DEF u

(* One more message is sent.                                                *)
LEMMA CoversAppend ==
    ASSUME NEW f, NEW kind, NEW c, NEW x, NEW t \in Seq(Messages), NEW stage, NEW rows, NEW v,
           Covers(f, kind, c, x, t, stage, rows, v), NEW m \in Messages,
           NEW next, NEW k, NEW w, NoReady(t) \/ w = v,
           NEW y, y = Step(kind, f[Len(t)], m),
           m.type = "ReadyForQuery" => Whole(kind, c, w, y),
           m.type # "ReadyForQuery" /\ next # "gone" /\ NoReady(t) => SoFar(kind, c, next, k, w, y)
    PROVE  \E g : Covers(g, kind, c, x, Append(t, m), next, k, w)
<1> DEFINE u == Append(t, m)
           g == [i \in Nat |-> IF i <= Len(t) THEN f[i] ELSE y]
<1>1. /\ Len(t) \in Nat /\ Len(u) = Len(t) + 1
      /\ \A i \in 1..Len(t) : u[i] = t[i]
      /\ u[Len(t) + 1] = m
  BY AppendIsSeq
<1> HIDE DEF u
<1>2. \A i \in 1..Len(u) : i \in 1..Len(t) \/ i = Len(t) + 1
  BY <1>1
<1>3. \A i \in 1..Len(t) : i \in 1..Len(u) /\ i - 1 \in Nat /\ i - 1 <= Len(t) /\ i \in Nat /\ i <= Len(t)
  BY <1>1
<1>4. \A i \in Nat : i <= Len(t) => g[i] = f[i]
  OBVIOUS
<1>5. /\ Len(t) + 1 \in Nat /\ ~(Len(t) + 1 <= Len(t)) /\ (Len(t) + 1) - 1 = Len(t)
      /\ Len(t) <= Len(t) /\ 0 \in Nat /\ 0 <= Len(t) /\ Len(t) + 1 \in 1..Len(u)
  BY <1>1
<1>6. g[Len(t) + 1] = y
  BY <1>5
<1> HIDE DEF g
<1>7. f[0] = x /\ \A i \in 1..Len(t) : f[i] = Step(kind, f[i - 1], t[i])
  BY DEF Covers, Path
<1>8. g[0] = x /\ g[Len(t)] = f[Len(t)]
  BY <1>1, <1>4, <1>5, <1>7
<1>9. ASSUME NEW i \in 1..Len(u) PROVE g[i] = Step(kind, g[i - 1], u[i])
  <2>1. CASE i \in 1..Len(t)
    BY <1>1, <1>3, <1>4, <1>7, <2>1
  <2>2. CASE i = Len(t) + 1
    BY <1>1, <1>5, <1>6, <1>8, <2>2
  <2> QED
    BY <1>2, <2>1, <2>2
<1>10. ASSUME NEW r \in 1..Len(u), u[r].type = "ReadyForQuery" PROVE Whole(kind, c, w, g[r])
  <2>1. CASE r \in 1..Len(t)
    <3>1. t[r].type = "ReadyForQuery" /\ w = v
      BY <1>1, <1>10, <2>1 DEF NoReady
    <3> QED
      BY <1>3, <1>4, <2>1, <3>1 DEF Covers
  <2>2. CASE r = Len(t) + 1
    BY <1>1, <1>6, <1>10, <2>2
  <2> QED
    BY <1>2, <2>1, <2>2
<1>11. ASSUME next # "gone", NoReady(u) PROVE SoFar(kind, c, next, k, w, g[Len(u)])
  <2>1. NoReady(t) /\ m.type # "ReadyForQuery"
    BY <1>1, <1>3, <1>5, <1>11 DEF NoReady
  <2> QED
    BY <1>1, <1>6, <1>11, <2>1
<1>12. Covers(g, kind, c, x, u, next, k, w)
  BY <1>8, <1>9, <1>10, <1>11 DEF Covers, Path
<1> QED
  BY <1>12 DEF u

(* The stream is cut behind the end of the exchange.                        *)
LEMMA CoversCut ==
    ASSUME NEW f, NEW kind, NEW c, NEW x, NEW t, Len(t) \in Nat, NEW stage, NEW rows, NEW v,
           Covers(f, kind, c, x, t, stage, rows, v),
           x = [results |-> x.results, current |-> x.current],
           NEW u, Len(u) \in Nat, NEW k \in 0..Len(t), k <= Len(u),
           \A i \in 1..k : u[i] = t[i],
           \A i \in (k + 1)..Len(u) : u[i].type \in Neutral \ {"ReadyForQuery"},
           NEW n
    PROVE  \E g : Covers(g, kind, c, x, u, "gone", n, v)
<1> DEFINE g == [i \in Nat |-> IF i <= k THEN f[i] ELSE f[k]]
<1>1. k \in Nat /\ \A i \in 1..k : i \in 1..Len(t) /\ i \in Nat /\ i <= k /\ i - 1 \in Nat /\ i - 1 <= k
  OBVIOUS
<1>2. f[0] = x /\ \A i \in 1..Len(t) : f[i] = Step(kind, f[i - 1], t[i])
  BY DEF Covers, Path
<1>3. f[k] = [results |-> f[k].results, current |-> f[k].current]
  BY PathShape DEF Covers
<1>4. \A i \in Nat : (i <= k => g[i] = f[i]) /\ (i > k => g[i] = f[k])
  BY <1>1
<1> HIDE DEF g
<1>5. g[0] = x
  BY <1>1, <1>2, <1>4
<1>6. ASSUME NEW i \in 1..Len(u) PROVE g[i] = Step(kind, g[i - 1], u[i])
  <2>1. CASE i \in 1..k
    BY <1>1, <1>2, <1>4, <2>1
  <2>2. CASE i \in (k + 1)..Len(u)
    <3>1. i \in Nat /\ i - 1 \in Nat /\ i > k /\ (i - 1 = k \/ i - 1 > k) /\ k <= k
      BY <1>1, <2>2
    <3>2. g[i] = f[k] /\ g[i - 1] = f[k]
      BY <1>1, <1>4, <3>1
    <3>3. Step(kind, f[k], u[i]) = f[k]
      BY <1>3, <2>2, StepIdle
    <3> QED
      BY <3>2, <3>3
  <2>3. i \in 1..k \/ i \in (k + 1)..Len(u)
    BY <1>1
  <2> QED
    BY <2>1, <2>2, <2>3
<1>7. ASSUME NEW r \in 1..Len(u), u[r].type = "ReadyForQuery" PROVE Whole(kind, c, v, g[r])
  <2>1. r \in 1..k \/ r \in (k + 1)..Len(u)
    BY <1>1
  <2>2. r \in 1..k
    BY <1>7, <2>1
  <2> QED
    BY <1>1, <1>4, <1>7, <2>2 DEF Covers
<1>8. Covers(g, kind, c, x, u, "gone", n, v)
  BY <1>5, <1>6, <1>7 DEF Covers, Path
<1> QED
  BY <1>8

(* What RowInv says of, and in, a state.                                    *)
Asked == /\ driver = "running" /\ InFlight /\ Live
         /\ pending.kind \in RowKinds /\ faults[pending.call] = <<>>

LEMMA AskedFacts ==
    ASSUME TypeOK, OneExchange, InFlight
    PROVE  /\ pending \in Pending /\ pending.call \in Calls /\ toClient \in Seq(Messages)
           /\ served[pending.call] \in Seq(Nat) /\ faults[pending.call] \in Seq(Errors)
           /\ Hold(pending) = [results |-> Hold(pending).results, current |-> Hold(pending).current]
           /\ srv.rows \in Nat
<1>1. pending \in Pending /\ pending.call \in Calls
  BY DEF TypeOK, InFlight, OneExchange, OwnerInv, Pending
<1> QED
  BY <1>1 DEF TypeOK, Hold, Server

(* A message is read within the exchange.                                   *)
LEMMA ReadRows ==
    ASSUME TypeOK, OneExchange, WireInv, RowInv,
           OnMessage \/ OnCopyInResponseIgnored \/ OnCopyInResponse
    PROVE  RowInv'
<1> SUFFICES ASSUME Asked' PROVE \E f : Gathers(f)'
  BY DEF RowInv, Asked
<1>1. ReadsOn
  BY ReadWithin
<1>2. PICK types : Read(types) /\ types \cap (Ends \cup {"ReadyForQuery"}) = {}
  BY ReadWithin
<1>3. /\ InFlight /\ pending'.call = pending.call /\ pending'.kind = pending.kind
      /\ faults' = faults /\ served' = served /\ srv' = srv /\ driver = "running"
  BY <1>1 DEF ReadsOn, InFlight, Asked
<1>4. /\ Len(toClient) \in Nat /\ Len(toClient') = Len(toClient) - 1 /\ 1 \in 1..Len(toClient)
      /\ \A i \in 1..Len(toClient') : toClient'[i] = toClient[i + 1] /\ i + 1 \in 1..Len(toClient)
      /\ Head(toClient) = toClient[1] /\ toClient[1] \in Messages /\ toClient[1].type \in types
  BY <1>2, ReadShifts
<1>5. Live
  BY <1>3, <1>4 DEF Live, Asked
<1>6. Asked
  BY <1>3, <1>5 DEF Asked
<1>7. PICK f : Gathers(f)
  BY <1>6 DEF RowInv, Asked
<1>8. toClient # <<>> /\ toClient' = Tail(toClient) /\ toClient[1].type # "ReadyForQuery"
  BY <1>2, <1>4 DEF Read
<1>9. Hold(pending') = Step(pending.kind, Hold(pending), toClient[1])
  <2>1. pending \in Pending /\ pending # None /\ pending.kind \in RowKinds
    BY <1>6, AskedFacts DEF Asked, InFlight
  <2>2. CASE OnMessage
    BY <1>4, <2>1, <2>2, AbsorbHold DEF OnMessage
  <2>3. CASE OnCopyInResponseIgnored
    <3>1. pending' = pending /\ toClient[1].type = "CopyInResponse"
      BY <1>4, <2>3 DEF OnCopyInResponseIgnored, Read
    <3>2. toClient[1].type \in Neutral
      BY <3>1 DEF Neutral
    <3> QED
      BY <1>3, <3>1, <3>2, StepIdle, AskedFacts
  <2>4. CASE OnCopyInResponse
    BY <2>1, <2>4 DEF OnCopyInResponse, CopyInPending, RowKinds
  <2> QED
    BY <2>2, <2>3, <2>4
<1>10. PICK g : Covers(g, pending.kind, pending.call, Step(pending.kind, Hold(pending), toClient[1]),
                       Tail(toClient), srv.stage, srv.rows, served[pending.call])
  BY <1>3, <1>7, <1>8, CoversTail, AskedFacts DEF Gathers
<1>11. Gathers(g)'
  BY <1>3, <1>8, <1>9, <1>10 DEF Gathers
<1> QED
  BY <1>11

(* A command starts with nothing collected and nothing sent.                *)
LEMMA StartRows ==
    ASSUME TypeOK, OneExchange, WireInv, OnceInv, StartFlushed
    PROVE  RowInv'
<1>1. /\ pending' = Fresh(Head(inbox)) /\ Head(inbox).call \in Calls /\ inbox # <<>>
      /\ (srv.stage # "gone" => srv.stage = "idle") /\ pending = None /\ driver = "running"
      /\ \A i \in 1..Len(toClient) : toClient[i].of = None /\ toClient[i].type # "ReadyForQuery"
      /\ toClient' = toClient /\ srv' = srv /\ served' = served /\ inbox' = Tail(inbox)
  BY StartWire DEF StartFlushed, Recv
<1> DEFINE c == Head(inbox).call
           x == Hold(pending')
<1>2. pending'.call = c /\ x = [results |-> <<>>, current |-> <<>>]
  BY <1>1 DEF Fresh, Hold
<1>3. served[c] = <<>>
  <2>1. Queued(c)
    BY <1>1, QueuedTail
  <2> QED
    BY <1>1, <2>1 DEF OnceInv, Untouched
<1>4. Len(toClient) \in Nat
  BY DEF TypeOK
<1>5. x = [results |-> x.results, current |-> x.current] /\ x.results = <<>> /\ x.current = <<>>
  BY <1>2
<1> HIDE DEF c, x
<1>6. PICK f : f = [i \in Nat |-> x]
  OBVIOUS
<1>7. \A i \in 1..Len(toClient) : i \in Nat /\ i - 1 \in Nat
  BY <1>4
<1>8. \A i \in 1..Len(toClient) : toClient[i].type \in Neutral
  BY <1>1 DEF OneExchange, OwnerInv, Unsolicited, Neutral
<1>9. Path(f, pending'.kind, x, toClient)
  <2>1. ASSUME NEW i \in 1..Len(toClient) PROVE f[i] = Step(pending'.kind, f[i - 1], toClient[i])
    <3>1. f[i] = x /\ f[i - 1] = x
      BY <1>6, <1>7
    <3>2. Step(pending'.kind, x, toClient[i]) = x
      BY <1>5, <1>8, StepIdle
    <3> QED
      BY <3>1, <3>2
  <2> QED
    BY <1>6, <2>1 DEF Path
<1>10. srv.stage # "gone" => SoFar(pending'.kind, c, srv.stage, srv.rows, served[c], f[Len(toClient)])
  BY <1>1, <1>3, <1>4, <1>5, <1>6 DEF SoFar
<1>11. Covers(f, pending'.kind, c, x, toClient, srv.stage, srv.rows, served[c])
  BY <1>1, <1>9, <1>10 DEF Covers
<1>12. Gathers(f)'
  BY <1>1, <1>2, <1>11 DEF Gathers, x
<1> QED
  BY <1>12 DEF RowInv

(* The server sends a message.                                              *)
LEMMA AppendRows ==
    ASSUME TypeOK, OneExchange, RowInv, driver = "running", srv.stage # "gone",
           UNCHANGED <<driver, pending>>, NEW m \in Messages, toClient' = Append(toClient, m),
           InFlight => (faults'[pending.call] = <<>> => faults[pending.call] = <<>>),
           InFlight => (NoReady(toClient) \/ served'[pending.call] = served[pending.call]),
           ASSUME Asked, faults'[pending.call] = <<>>, NEW x, NEW y, y = Step(pending.kind, x, m),
                  NoReady(toClient) =>
                     SoFar(pending.kind, pending.call, srv.stage, srv.rows, served[pending.call], x)
           PROVE  /\ m.type = "ReadyForQuery" => Whole(pending.kind, pending.call, served'[pending.call], y)
                  /\ m.type # "ReadyForQuery" /\ srv'.stage # "gone" /\ NoReady(toClient) =>
                        SoFar(pending.kind, pending.call, srv'.stage, srv'.rows, served'[pending.call], y)
    PROVE  RowInv'
<1> SUFFICES ASSUME Asked' PROVE \E f : Gathers(f)'
  BY DEF RowInv, Asked
<1>1. InFlight /\ pending.kind \in RowKinds /\ faults'[pending.call] = <<>>
  BY DEF Asked, InFlight
<1>2. Asked
  BY <1>1 DEF Asked, Live
<1>3. PICK f : Gathers(f)
  BY <1>2 DEF RowInv, Asked
<1>4. PICK y : y = Step(pending.kind, f[Len(toClient)], m)
  OBVIOUS
<1>5. NoReady(toClient) =>
         SoFar(pending.kind, pending.call, srv.stage, srv.rows, served[pending.call], f[Len(toClient)])
  BY <1>3 DEF Gathers, Covers
<1>6. /\ m.type = "ReadyForQuery" => Whole(pending.kind, pending.call, served'[pending.call], y)
      /\ m.type # "ReadyForQuery" /\ srv'.stage # "gone" /\ NoReady(toClient) =>
            SoFar(pending.kind, pending.call, srv'.stage, srv'.rows, served'[pending.call], y)
  BY <1>1, <1>2, <1>4, <1>5
<1>7. toClient \in Seq(Messages)
  BY DEF TypeOK
<1>8. NoReady(toClient) \/ served'[pending.call] = served[pending.call]
  BY <1>1
<1>9. Covers(f, pending.kind, pending.call, Hold(pending), toClient, srv.stage, srv.rows,
             served[pending.call])
  BY <1>3 DEF Gathers
<1>10. PICK g : Covers(g, pending.kind, pending.call, Hold(pending), Append(toClient, m),
                      srv'.stage, srv'.rows, served'[pending.call])
  <2>1. PICK next, k, w : next = srv'.stage /\ k = srv'.rows /\ w = served'[pending.call]
    OBVIOUS
  <2>2. /\ m.type = "ReadyForQuery" => Whole(pending.kind, pending.call, w, y)
        /\ m.type # "ReadyForQuery" /\ next # "gone" /\ NoReady(toClient) =>
              SoFar(pending.kind, pending.call, next, k, w, y)
        /\ NoReady(toClient) \/ w = served[pending.call]
    BY <1>6, <1>8, <2>1
  <2>3. \E g : Covers(g, pending.kind, pending.call, Hold(pending), Append(toClient, m), next, k, w)
    BY <1>4, <1>7, <1>9, <2>2, CoversAppend
  <2> QED
    BY <2>1, <2>3
<1>11. Gathers(g)'
  BY <1>10 DEF Gathers
<1> QED
  BY <1>11

LEMMA SendsRows ==
    ASSUME TypeOK, OneExchange, WireInv, RowInv, NEW m \in Messages, NEW stage, Sends(m, stage)
    PROVE  RowInv'
<1>1. /\ driver = "running" /\ srv.stage \notin {"idle", "gone", "ready"} /\ m.of = srv.call
      /\ m.type # "ReadyForQuery" /\ (m.type = "DataRow" => m.n = srv.rows + 1)
      /\ Allowed(srv.kind, srv.rows, m.type, m.arg, stage) /\ stage \notin {"idle", "gone"}
      /\ toClient' = Append(toClient, m) /\ UNCHANGED <<driver, pending>> /\ srv'.stage = stage
      /\ srv'.rows = IF m.type = "DataRow" THEN srv.rows + 1
                     ELSE IF m.type \in EndsSet THEN 0 ELSE srv.rows
      /\ \A c \in Calls : served'[c] = IF c = srv.call /\ m.type \in EndsSet
                                       THEN Append(served[c], srv.rows) ELSE served[c]
      /\ \A c \in Calls : faults'[c] = IF c = srv.call /\ FaultOf(m) # None
                                       THEN Append(faults[c], FaultOf(m)) ELSE faults[c]
  BY DEF Sends
<1>2. InFlight /\ srv.call = pending.call /\ srv.kind = pending.kind /\ NoReady(toClient)
  BY <1>1, ServedIsPending DEF NoReady
<1>3. /\ pending.call \in Calls /\ served[pending.call] \in Seq(Nat) /\ srv.rows \in Nat
      /\ faults[pending.call] \in Seq(Errors)
  BY <1>2, AskedFacts
<1>4. ASSUME faults'[pending.call] = <<>> PROVE faults[pending.call] = <<>> /\ FaultOf(m) = None
  <2>1. CASE FaultOf(m) = None
    BY <1>1, <1>3, <1>4, <2>1
  <2>2. CASE FaultOf(m) # None
    <3>1. FaultOf(m) \in Errors
      BY <2>2, FaultIsError
    <3>2. Append(faults[pending.call], FaultOf(m)) # <<>>
      BY <1>3, <3>1, AppendHead
    <3> QED
      BY <1>1, <1>2, <1>3, <1>4, <2>2, <3>2
  <2> QED
    BY <2>1, <2>2
<1>5. ASSUME Asked, faults'[pending.call] = <<>>, NEW x, NEW y, y = Step(pending.kind, x, m),
             NoReady(toClient) =>
                SoFar(pending.kind, pending.call, srv.stage, srv.rows, served[pending.call], x)
      PROVE  SoFar(pending.kind, pending.call, srv'.stage, srv'.rows, served'[pending.call], y)
  <2>1. pending.kind \in RowKinds /\ FaultOf(m) = None
    BY <1>4, <1>5 DEF Asked
  <2>2. SoFar(pending.kind, pending.call, srv.stage, srv.rows, served[pending.call], x)
    BY <1>2, <1>5
  <2>3. PICK w, k : /\ w = served'[pending.call] /\ k = srv'.rows
    OBVIOUS
  <2>4. /\ k = IF m.type = "DataRow" THEN srv.rows + 1
               ELSE IF m.type \in EndsSet THEN 0 ELSE srv.rows
        /\ w = IF m.type \in EndsSet THEN Append(served[pending.call], srv.rows)
               ELSE served[pending.call]
    BY <1>1, <1>2, <1>3, <2>3
  <2>5. m.of = pending.call /\ Allowed(pending.kind, srv.rows, m.type, m.arg, stage)
    BY <1>1, <1>2
  <2>6. SoFar(pending.kind, pending.call, stage, k, w, Step(pending.kind, x, m))
    BY <1>1, <1>3, <2>1, <2>2, <2>4, <2>5, SoFarStep
  <2> QED
    BY <1>1, <1>5, <2>3, <2>6
<1> QED
  BY <1>1, <1>2, <1>4, <1>5, AppendRows

LEMMA ReadyRows ==
    ASSUME TypeOK, OneExchange, WireInv, RowInv, ServerReady
    PROVE  RowInv'
<1>1. /\ driver = "running" /\ srv.stage \notin {"idle", "gone"}
      /\ srv.stage # "ready" => srv.stage = "begin" /\ srv.kind = "SimpleQuery"
      /\ UNCHANGED <<driver, pending, served, faults>>
  BY ReadyEnds
<1>2. PICK m \in Messages : m.type = "ReadyForQuery" /\ toClient' = Append(toClient, m)
  BY ReadyEnds
<1>3. InFlight /\ srv.kind = pending.kind /\ NoReady(toClient)
  BY <1>1, ServedIsPending DEF NoReady
<1>4. ASSUME NEW x, NEW y, y = Step(pending.kind, x, m),
             SoFar(pending.kind, pending.call, srv.stage, srv.rows, served[pending.call], x)
      PROVE  Whole(pending.kind, pending.call, served[pending.call], y)
  <2>1. y.results = x.results /\ y.current = x.current
    BY <1>2, <1>4 DEF Step
  <2> QED
    BY <1>1, <1>3, <1>4, <2>1 DEF SoFar, Whole
<1> QED
  BY <1>1, <1>2, <1>3, <1>4, AppendRows

(* A notice, or the end of the stream.                                      *)
LEMMA NoticeRows ==
    ASSUME TypeOK, OneExchange, RowInv, driver = "running", srv.stage # "gone",
           UNCHANGED <<driver, pending, served, faults>>,
           NEW m \in Messages, m.type \in {"Notice", "Eof"}, toClient' = Append(toClient, m),
           srv' = srv \/ srv'.stage = "gone"
    PROVE  RowInv'
<1>1. m.type # "ReadyForQuery"
  OBVIOUS
<1>2. ASSUME srv' = srv, NEW x, NEW y, y = Step(pending.kind, x, m),
             SoFar(pending.kind, pending.call, srv.stage, srv.rows, served[pending.call], x)
      PROVE  SoFar(pending.kind, pending.call, srv.stage, srv.rows, served[pending.call], y)
  <2>1. y.results = x.results /\ y.current = x.current
    BY <1>2 DEF Step
  <2> QED
    BY <1>2, <2>1 DEF SoFar
<1> QED
  BY <1>1, <1>2, AppendRows

LEMMA TakeRows ==
    ASSUME TypeOK, OneExchange, WireInv, RowInv, ServerTake
    PROVE  RowInv'
<1>1. driver = "running" /\ srv.stage # "gone" /\ UNCHANGED <<driver, pending, served, faults>>
  BY TakeForms
<1>2. CASE /\ srv.stage = "idle" /\ srv'.stage = "gone"
           /\ toClient' = Append(toClient, Msg("Eof", None, "none"))
  <2> DEFINE m == Msg("Eof", None, "none")
  <2>1. m \in Messages /\ m.type = "Eof"
    BY DEF Msg, Messages, MsgTypes, Args, Ends
  <2> QED
    BY <1>1, <1>2, <2>1, NoticeRows
<1>3. ASSUME toClient' = toClient, srv'.stage # "gone",
             ASSUME NEW x, NoReady(toClient), InFlight,
                    SoFar(pending.kind, pending.call, srv.stage, srv.rows, served[pending.call], x)
             PROVE  SoFar(pending.kind, pending.call, srv'.stage, srv'.rows, served[pending.call], x)
      PROVE  RowInv'
  <2> SUFFICES ASSUME Asked' PROVE \E f : Gathers(f)'
    BY DEF RowInv, Asked
  <2>1. Asked
    BY <1>1 DEF Asked, InFlight, Live
  <2>2. PICK f : Gathers(f)
    BY <2>1 DEF RowInv, Asked
  <2>3. InFlight
    BY <2>1 DEF Asked
  <2>4. /\ Path(f, pending.kind, Hold(pending), toClient)
        /\ \A r \in 1..Len(toClient) : toClient[r].type = "ReadyForQuery" =>
              Whole(pending.kind, pending.call, served[pending.call], f[r])
        /\ NoReady(toClient) => SoFar(pending.kind, pending.call, srv.stage, srv.rows,
                                     served[pending.call], f[Len(toClient)])
    BY <1>1, <2>2 DEF Gathers, Covers
  <2>5. NoReady(toClient) => SoFar(pending.kind, pending.call, srv'.stage, srv'.rows,
                                   served[pending.call], f[Len(toClient)])
    BY <1>3, <2>3, <2>4
  <2>6. Gathers(f)'
    BY <1>1, <1>3, <2>4, <2>5 DEF Gathers, Covers
  <2> QED
    BY <2>6
<1>4. CASE /\ InFlight /\ srv.stage = "idle" /\ toClient' = toClient
           /\ srv'.stage = "begin" /\ srv'.rows = 0
  <2>1. ASSUME NEW x, SoFar(pending.kind, pending.call, srv.stage, srv.rows, served[pending.call], x)
        PROVE  SoFar(pending.kind, pending.call, srv'.stage, srv'.rows, served[pending.call], x)
    BY <1>4, <2>1, RowsEmpty DEF SoFar
  <2> QED
    BY <1>3, <1>4, <2>1
<1>5. CASE /\ srv.stage = "copy" /\ toClient' = toClient
           /\ srv'.stage \in {"copied", "copyFailed"} /\ srv'.rows = srv.rows
  <2>1. ASSUME NEW x, SoFar(pending.kind, pending.call, srv.stage, srv.rows, served[pending.call], x)
        PROVE  SoFar(pending.kind, pending.call, srv'.stage, srv'.rows, served[pending.call], x)
    BY <1>5, <2>1 DEF SoFar
  <2> QED
    BY <1>3, <1>5, <2>1
<1>6. CASE UNCHANGED <<srv, toClient>>
  BY <1>1, <1>3, <1>6
<1> QED
  BY <1>2, <1>4, <1>5, <1>6, TakeForms

LEMMA DieRows ==
    ASSUME TypeOK, OneExchange, RowInv, ServerDie
    PROVE  RowInv'
<1>1. driver = "running" /\ srv'.stage = "gone" /\ UNCHANGED <<driver, pending, served, faults>>
  BY DieCuts
<1>2. PICK k \in 0..Len(toClient) : CutAt(k)
  BY DieCuts
<1> SUFFICES ASSUME Asked' PROVE \E f : Gathers(f)'
  BY DEF RowInv, Asked
<1>3. PICK r \in 1..Len(toClient') : toClient'[r].type = "ReadyForQuery"
  BY <1>1 DEF Asked, Live
<1>4. /\ Len(toClient) \in Nat /\ Len(toClient') \in Nat /\ k <= Len(toClient')
      /\ \A i \in 1..k : toClient'[i] = toClient[i]
      /\ \A i \in (k + 1)..Len(toClient') : toClient'[i].type \in Neutral \ {"ReadyForQuery"}
  BY <1>2 DEF CutAt, TypeOK, Unsolicited, Neutral, Ends
<1>5. \A i \in 1..Len(toClient') : i \in 1..k \/ i \in (k + 1)..Len(toClient')
  BY <1>4
<1>6. r \in 1..k
  BY <1>3, <1>4, <1>5
<1>7. r \in 1..Len(toClient) /\ toClient[r].type = "ReadyForQuery"
  BY <1>3, <1>4, <1>6
<1>8. Asked
  BY <1>1, <1>7 DEF Asked, InFlight, Live
<1>9. PICK f : Gathers(f)
  BY <1>8 DEF RowInv, Asked
<1>10. Hold(pending) = [results |-> Hold(pending).results, current |-> Hold(pending).current]
  BY <1>8, AskedFacts DEF Asked
<1>11. \E g : Covers(g, pending.kind, pending.call, Hold(pending), toClient', "gone", srv'.rows,
                     served[pending.call])
  <2>1. PICK u, n : u = toClient' /\ n = srv'.rows
    OBVIOUS
  <2>2. \E g : Covers(g, pending.kind, pending.call, Hold(pending), u, "gone", n,
                      served[pending.call])
    BY <1>4, <1>9, <1>10, <2>1, CoversCut DEF Gathers
  <2> QED
    BY <2>1, <2>2
<1>12. PICK g : Covers(g, pending.kind, pending.call, Hold(pending), toClient', "gone", srv'.rows,
                       served[pending.call])
  BY <1>11
<1>13. Gathers(g)'
  BY <1>1, <1>12 DEF Gathers
<1> QED
  BY <1>13

LEMMA NextRows == TypeOK /\ OneExchange /\ WireInv /\ OnceInv /\ RowInv /\ [Next]_vars => RowInv'
<1> SUFFICES ASSUME TypeOK, OneExchange, WireInv, OnceInv, RowInv, [Next]_vars PROVE RowInv'
  OBVIOUS
<1>1. CASE Callers \/ StartBuildError \/ Quiescent \/ UNCHANGED vars
  <2>1. UNCHANGED <<driver, pending, toClient, srv, faults, served>>
    BY <1>1 DEF Callers, Send, Cancel, SessionClose, SessionCloseReturns, SessionDrop, HandlesDrop,
                Enqueue, StartBuildError, Quiescent, vars, wireVars, callerVars
  <2>2. ASSUME NEW f, Gathers(f) PROVE Gathers(f)'
    BY <2>1, <2>2 DEF Gathers
  <2> QED
    BY <2>1, <2>2 DEF RowInv, InFlight, Live
<1>2. CASE Shutdown \/ OnCopyWriteError \/ OnReaderEnd
  <2>1. driver' = "exited"
    BY <1>2 DEF Shutdown, OnCopyWriteError, OnReaderEnd, FailPending
  <2> QED
    BY <2>1 DEF RowInv
<1>3. CASE StartClose \/ StartFlushError
  BY <1>3, CloseWire, FlushErrorWire DEF RowInv
<1>4. CASE OnReadyForQuery
  <2>1. ~InFlight'
    BY <1>4, ReadReady DEF InFlight
  <2> QED
    BY <2>1 DEF RowInv
<1>5. CASE ServerEmit \/ ServerCopyAbort
  BY <1>5, ServerSends, SendsRows DEF WireInv
<1>6. CASE ServerNotice
  <2>1. driver = "running" /\ srv.stage # "gone" /\ UNCHANGED <<driver, pending, srv, served, faults>>
    BY <1>6, NoticeSent
  <2>2. PICK m \in Messages : m.type = "Notice" /\ toClient' = Append(toClient, m)
    BY <1>6, NoticeSent
  <2> QED
    BY <2>1, <2>2, NoticeRows
<1> QED
  BY <1>1, <1>2, <1>3, <1>4, <1>5, <1>6, TakeRows, ReadyRows, StartRows, ReadRows, DieRows
  DEF Next, DriverStep, ServerStep

(* What an answer r of call c says of what the server sent for c.           *)
TrueReply(c, r, sizes, fs) ==
    r # None =>
        /\ r.ok => fs = <<>>
        /\ r.error \in Blamed => fs # <<>> /\ r.error = Head(fs)
        /\ r.ok /\ r.kind \in RowKinds => r.results = Sets(c, sizes)
TrueReplies == \A c \in Calls : TrueReply(c, reply[c], served[c], faults[c])

LEMMA TrueRepliesMean == TrueReplies <=> ReplyIsComplete /\ FirstFaultReported
<1>1. \A c \in Calls : Sets(c, served[c]) =
         [i \in 1..Len(served[c]) |-> [j \in 1..served[c][i] |-> [of |-> c, n |-> j]]]
  BY DEF Sets, RowsTo
<1> QED
  BY <1>1 DEF TrueReplies, TrueReply, ReplyIsComplete, FirstFaultReported, Blamed

LEMMA TrueErr ==
    \A e \in {"Closed", "Io", "Build"} : \A c, sizes, fs : TrueReply(c, Err(e), sizes, fs)
  BY DEF TrueReply, Err, Blamed

(* What the pending command is answered with at its ReadyForQuery.          *)
LEMMA OutcomeTrue ==
    ASSUME TypeOK, OneExchange, FaultInv, RowInv, InFlight, Read({"ReadyForQuery"})
    PROVE  TrueReply(pending.call, Outcome(pending), served[pending.call], faults[pending.call])
<1> DEFINE c == pending.call
           fs == faults[pending.call]
<1>1. /\ driver = "running" /\ 1 \in 1..Len(toClient) /\ toClient[1].type = "ReadyForQuery"
      /\ toClient[1] \in Messages /\ Len(toClient) \in Nat
  BY ReadShifts DEF Read
<1>2. Live
  BY <1>1 DEF Live
<1>3. Blames(pending.error, fs, toClient)
  BY <1>1, <1>2 DEF FaultInv
<1>4. fs \in Seq(Errors) /\ pending \in Pending /\ c \in Calls
  BY AskedFacts
<1>5. ASSUME pending.error = None PROVE fs = <<>>
  <2> SUFFICES ASSUME fs # <<>> PROVE FALSE
    OBVIOUS
  <2> HIDE DEF fs
  <2>1. PICK k \in 1..Len(toClient) : toClient[k].of # None /\ FaultOf(toClient[k]) = Head(fs)
    BY <1>3, <1>5 DEF Blames
  <2>2. Head(fs) \in Errors
    BY <1>4, TailIsSeq
  <2>3. k # 1
    <3>1. toClient[1].arg \in TxStatus
      BY <1>1 DEF Messages
    <3>2. FaultOf(toClient[1]) = None
      BY <1>1, <3>1, StatusAssumption DEF FaultOf
    <3> QED
      BY <2>1, <2>2, <3>2, NoneAssumption
  <2>4. 1 < k
    BY <1>1, <2>3
  <2> QED
    BY <1>1, <2>1, <2>4 DEF OneExchange, StreamInv
<1>6. ASSUME pending.error = None, pending.kind \in RowKinds
      PROVE  (IF pending.kind = "SimpleQuery" THEN pending.results ELSE <<pending.current>>)
                = Sets(c, served[c])
  <2>1. PICK f : Gathers(f)
    BY <1>1, <1>2, <1>5, <1>6 DEF RowInv
  <2>2. /\ f[0] = Hold(pending) /\ f[1] = Step(pending.kind, f[1 - 1], toClient[1])
        /\ Whole(pending.kind, c, served[c], f[1])
    BY <1>1, <2>1 DEF Gathers, Covers, Path
  <2>3. f[1] = Hold(pending)
    <3>1. f[1] = Step(pending.kind, Hold(pending), toClient[1])
      BY <2>2
    <3>2. toClient[1].type \in Neutral
      BY <1>1 DEF Neutral
    <3> QED
      BY <3>1, <3>2, StepIdle, AskedFacts
  <2> QED
    BY <2>2, <2>3 DEF Whole, Hold
<1> HIDE DEF c, fs
<1>7. CASE pending.error # None
  <2>1. Outcome(pending) = Err(pending.error)
    BY <1>7 DEF Outcome
  <2> QED
    BY <1>3, <2>1 DEF TrueReply, Err, Blames, c, fs
<1>8. CASE pending.error = None /\ pending.kind = "CopyIn" /\ pending.seen = {}
  <2>1. Outcome(pending) = Err("NoCommandComplete")
    BY <1>8 DEF Outcome
  <2> QED
    BY <2>1 DEF TrueReply, Err, Blamed
<1>9. CASE pending.error = None /\ ~(pending.kind = "CopyIn" /\ pending.seen = {})
  <2> DEFINE res == IF pending.kind = "SimpleQuery" THEN pending.results ELSE <<pending.current>>
  <2>1. Outcome(pending) = Ok(pending.kind, res, pending.seen)
    BY <1>9 DEF Outcome
  <2>2. pending.kind \in RowKinds => res = Sets(c, served[c])
    BY <1>6, <1>9
  <2> HIDE DEF res
  <2>3. /\ Outcome(pending).kind = pending.kind /\ Outcome(pending).results = res
        /\ Outcome(pending).error = None
    BY <2>1 DEF Ok
  <2>4. None \notin Blamed
    BY NoneAssumption DEF Blamed, Errors
  <2> QED
    BY <1>5, <1>9, <2>2, <2>3, <2>4 DEF TrueReply, c, fs
<1> QED
  BY <1>7, <1>8, <1>9

LEMMA NextTrue ==
    TypeOK /\ OneExchange /\ WireInv /\ OnceInv /\ FaultInv /\ RowInv /\ TrueReplies /\ [Next]_vars
        => TrueReplies'
<1> SUFFICES ASSUME TypeOK, OneExchange, WireInv, OnceInv, FaultInv, RowInv, TrueReplies, [Next]_vars
             PROVE  TrueReplies'
  OBVIOUS
<1> DEFINE Good(c, r) == TrueReply(c, r, served[c], faults[c])
<1> USE DEF callerVars, wireVars, serverFrame
<1>0. /\ DOMAIN reply = Calls /\ reply \in [Calls -> Replies \cup {None}]
      /\ \A c \in Calls : Good(c, reply[c])
  BY DEF TypeOK, TrueReplies
<1>E. \A e \in {"Closed", "Io", "Build"} : \A c : Good(c, Err(e))
  BY TrueErr
<1>1. ASSUME UNCHANGED <<served, faults>>, \A c \in Calls : Good(c, reply'[c]) PROVE TrueReplies'
  BY <1>1 DEF TrueReplies
<1> HIDE DEF Good
<1>2. ASSUME NEW c, NEW r, c \in Calls => Good(c, r)
      PROVE  \A d \in Calls : Good(d, Answer(reply, c, r)[d])
  BY <1>0, <1>2, AnswerFacts
<1>3. ASSUME NEW q, NEW rs, \A d \in Calls : Good(d, rs[d]), CloseInbox(q, rs)
      PROVE  \A d \in Calls : Good(d, reply'[d])
  BY <1>3, <1>E, CloseInboxFacts
<1>4. CASE UNCHANGED <<reply, served, faults>>
  BY <1>0, <1>1, <1>4
<1>5. CASE Callers
  <2>1. UNCHANGED <<served, faults>>
    BY <1>5 DEF Callers, Send, Cancel, SessionClose, SessionCloseReturns, SessionDrop, HandlesDrop
  <2>2. reply' = reply \/ \E c \in Calls : reply' = [reply EXCEPT ![c] = Err("Closed")]
    BY <1>5 DEF Callers, Send, Cancel, SessionClose, SessionCloseReturns, SessionDrop, HandlesDrop,
                Enqueue
  <2>3. \A d \in Calls : reply'[d] = reply[d] \/ reply'[d] = Err("Closed")
    BY <1>0, <2>2
  <2> QED
    BY <1>0, <1>1, <1>E, <2>1, <2>3
<1>6. CASE StartBuildError \/ StartFlushError
  <2>1. /\ UNCHANGED <<served, faults>>
        /\ \E e \in {"Closed", "Build"} : reply' = Answer(reply, Head(inbox).call, Err(e))
    BY <1>6 DEF StartBuildError, StartFlushError
  <2>2. \A d \in Calls : Good(d, reply'[d])
    BY <1>2, <1>E, <2>1
  <2> QED
    BY <1>1, <2>1, <2>2
<1>7. CASE StartClose
  <2>1. PICK r \in {Ok("Close", <<>>, {}), Err("Io")} :
           CloseInbox(Tail(inbox), Answer(reply, Head(inbox).call, r))
    BY <1>7 DEF StartClose
  <2>2. UNCHANGED <<served, faults>> /\ inbox # <<>>
    BY <1>7 DEF StartClose, Recv
  <2>3. ASSUME Head(inbox).call \in Calls PROVE Good(Head(inbox).call, Ok("Close", <<>>, {}))
    <3>1. Queued(Head(inbox).call)
      <4>1. inbox \in Seq(Commands) /\ Len(inbox) \in Nat
        BY DEF TypeOK
      <4>2. Head(inbox) = inbox[1] /\ Len(inbox) >= 1
        BY <2>2, <4>1, TailIsSeq
      <4> QED
        BY <4>1, <4>2 DEF Queued
    <3>2. faults[Head(inbox).call] = <<>>
      BY <2>3, <3>1 DEF OnceInv, Untouched
    <3>3. None \notin Blamed
      BY NoneAssumption DEF Blamed, Errors
    <3> QED
      BY <3>2, <3>3 DEF Good, TrueReply, Ok, RowKinds
  <2>4. \A d \in Calls : Good(d, Answer(reply, Head(inbox).call, r)[d])
    BY <1>2, <1>E, <2>1, <2>3
  <2> QED
    BY <1>1, <1>3, <2>1, <2>2, <2>4
<1>8. CASE OnReadyForQuery
  <2>1. UNCHANGED <<served, faults>> /\ Read({"ReadyForQuery"})
    BY <1>8 DEF OnReadyForQuery
  <2>2. CASE InFlight
    <3>1. reply' = Answer(reply, pending.call, Outcome(pending))
      BY <1>8, <2>2, ReadReady
    <3>2. Good(pending.call, Outcome(pending))
      BY <2>1, <2>2, OutcomeTrue DEF Good
    <3> QED
      BY <1>1, <1>2, <2>1, <3>1, <3>2
  <2>3. CASE ~InFlight
    BY <1>4, <1>8, <2>1, <2>3, ReadReady
  <2> QED
    BY <2>2, <2>3
<1>9. CASE OnCopyWriteError \/ OnReaderEnd
  <2>1. PICK e \in {"Closed", "Io"} : FailPending(e)
    BY <1>9 DEF OnCopyWriteError, OnReaderEnd
  <2>2. UNCHANGED <<served, faults>>
    BY <1>9 DEF OnCopyWriteError, OnReaderEnd
  <2>3. CASE pending = None
    BY <1>0, <1>1, <1>3, <2>1, <2>2, <2>3 DEF FailPending
  <2>4. CASE pending # None
    <3>1. \A d \in Calls : Good(d, Answer(reply, pending.call, Err(e))[d])
      BY <1>2, <1>E, <2>1
    <3> QED
      BY <1>1, <1>3, <2>1, <2>2, <2>4, <3>1 DEF FailPending
  <2> QED
    BY <2>3, <2>4
<1>10. CASE StartFlushed \/ Shutdown \/ OnMessage \/ OnCopyInResponseIgnored \/ OnCopyInResponse
  BY <1>4, <1>10 DEF StartFlushed, Shutdown, OnMessage, OnCopyInResponseIgnored, OnCopyInResponse
<1>11. CASE ServerTake \/ ServerReady \/ ServerNotice \/ ServerDie \/ Quiescent \/ UNCHANGED vars
  BY <1>4, <1>11 DEF ServerTake, ServerReady, ServerNotice, ServerDie, Quiescent, vars
<1>12. CASE ServerEmit \/ ServerCopyAbort
  <2>1. PICK m \in Messages, stage \in ServerStages : Sends(m, stage)
    BY <1>12, ServerSends DEF WireInv
  <2>2. /\ reply' = reply /\ driver = "running" /\ srv.stage \notin {"idle", "gone"}
        /\ \A c \in Calls : c # srv.call => served'[c] = served[c] /\ faults'[c] = faults[c]
    BY <2>1 DEF Sends
  <2>3. Pends(srv.call)
    BY <2>2, ServedIsPending DEF InFlight, Pends
  <2> SUFFICES ASSUME NEW c \in Calls PROVE TrueReply(c, reply'[c], served'[c], faults'[c])
    BY DEF TrueReplies
  <2>4. CASE c = srv.call
    <3>1. reply[c] = None
      BY <2>3, <2>4 DEF OnceInv
    <3> QED
      BY <2>2, <3>1 DEF TrueReply
  <2>5. CASE c # srv.call
    BY <2>2, <2>5 DEF TrueReplies
  <2> QED
    BY <2>4, <2>5
<1> QED
  BY <1>5, <1>6, <1>7, <1>8, <1>9, <1>10, <1>11, <1>12 DEF Next, DriverStep, ServerStep

LEMMA InitReplies == Init => WireInv /\ OnceInv /\ FaultInv /\ RowInv /\ TrueReplies
<1> SUFFICES ASSUME Init PROVE WireInv /\ OnceInv /\ FaultInv /\ RowInv /\ TrueReplies
  OBVIOUS
<1>1. /\ pending = None /\ srv.stage = "idle" /\ Len(inbox) = 0 /\ Len(toClient) = 0 /\ ~InFlight
      /\ \A c \in Calls : reply[c] = None /\ served[c] = <<>> /\ faults[c] = <<>>
  BY EmptyIsSeq DEF Init, InFlight
<1>2. 1..Len(inbox) = {} /\ 1..Len(toClient) = {}
  BY <1>1
<1>3. WireInv
  BY <1>1, <1>2 DEF WireInv, ClosingInv, BusyInv, QuietInv, FitInv
<1>4. OnceInv
  BY <1>1, <1>2 DEF OnceInv, Untouched, Queued, Pends, Apart
<1>5. FaultInv /\ RowInv /\ TrueReplies
  BY <1>1 DEF FaultInv, RowInv, TrueReplies, TrueReply
<1> QED
  BY <1>3, <1>4, <1>5

(* The inductive invariant behind the two theorems below.                   *)
RepliesInv == WireInv /\ OnceInv /\ FaultInv /\ RowInv /\ TrueReplies

LEMMA RepliesInvariant == Spec => []RepliesInv
<1>1. Init => RepliesInv
  BY InitReplies DEF RepliesInv
<1>2. TypeOK /\ OneExchange /\ RepliesInv /\ [Next]_vars => RepliesInv'
  BY NextWire, NextOnce, NextFault, NextRows, NextTrue DEF RepliesInv
<1> QED
  BY <1>1, <1>2, TypeCorrect, ExchangesAreSerial, PTL DEF Spec

(* A query that is answered with success is answered with exactly the rows  *)
(* and result sets that the server sent for it, in order (on_message, with  *)
(* its mem::take of the current rows), whatever else goes on: the answer of *)
(* a query that was cancelled, that followed a failed one, or whose         *)
(* connection was lost behind its ReadyForQuery included.                   *)
THEOREM RepliesAreComplete == Spec => []ReplyIsComplete
<1>1. RepliesInv => ReplyIsComplete
  BY TrueRepliesMean DEF RepliesInv
<1> QED
  BY <1>1, RepliesInvariant, PTL

(* A command with which the server or the column check found fault is never *)
(* answered with success, and the error that its caller gets is the first   *)
(* one (error.take().or(..)), not one that came after it.                   *)
THEOREM FirstFaultsReported == Spec => []FirstFaultReported
<1>1. RepliesInv => FirstFaultReported
  BY TrueRepliesMean DEF RepliesInv
<1> QED
  BY <1>1, RepliesInvariant, PTL

-----------------------------------------------------------------------------
(* The driver implements CommandQueue. *)

(* What a server that is gone has not read was not a command, and outside   *)
(* an exchange no ReadyForQuery is left to read.                            *)
StillInv ==
    Up => /\ srv.stage = "gone" => \A i \in 1..Len(toServer) : Trailing(toServer[i])
          /\ ~InFlight => NoReady(toClient)

(* Everything the argument rests on.                                        *)
OrderInv == TypeOK /\ OneExchange /\ WireInv /\ OnceInv /\ StillInv

(* Reading keeps what is true of every message to read.                     *)
LEMMA ReadKeepsNoReady ==
    ASSUME TypeOK, NEW types, Read(types), NoReady(toClient)
    PROVE  NoReady(toClient)'
<1>1. \A i \in 1..Len(toClient') : toClient'[i] = toClient[i + 1] /\ i + 1 \in 1..Len(toClient)
  BY ReadShifts
<1> QED
  BY <1>1 DEF NoReady

(* Behind the ReadyForQuery of an exchange there is no other.               *)
LEMMA ReadyIsLast ==
    ASSUME TypeOK, OneExchange, Read({"ReadyForQuery"}), InFlight
    PROVE  /\ NoReady(toClient)'
           /\ toClient[1].of = pending.call /\ toClient[1].type = "ReadyForQuery"
           /\ 1 \in 1..Len(toClient)
<1>1. /\ toClient[1].type = "ReadyForQuery" /\ 1 \in 1..Len(toClient)
      /\ \A i \in 1..Len(toClient') : toClient'[i] = toClient[i + 1] /\ i + 1 \in 1..Len(toClient)
  BY ReadShifts
<1>2. driver = "running"
  BY DEF Read
<1>3. \A i \in 1..Len(toClient') : 1 < i + 1
  BY <1>1, ReadShifts
<1>4. \A j \in 1..Len(toClient) : toClient[j].of = None => toClient[j].type # "ReadyForQuery"
  BY DEF OneExchange, OwnerInv, Unsolicited, Ends
<1>5. \A i \in 1..Len(toClient') : toClient[i + 1].of = None
  BY <1>1, <1>2, <1>3 DEF OneExchange, StreamInv
<1>6. toClient[1].of = pending.call
  BY <1>1, <1>2, <1>4 DEF OneExchange, StreamInv
<1> QED
  BY <1>1, <1>4, <1>5, <1>6 DEF NoReady

(* What an appended message adds.                                           *)
LEMMA AppendNoReady ==
    ASSUME TypeOK, NEW m \in Messages, m.type # "ReadyForQuery", toClient' = Append(toClient, m)
    PROVE  /\ NoReady(toClient) => NoReady(toClient)'
           /\ \A c : Returning(c)' <=> Returning(c)
<1>1. toClient \in Seq(Messages) /\ Len(toClient) \in Nat
  BY DEF TypeOK
<1>2. /\ Len(toClient') = Len(toClient) + 1
      /\ \A i \in 1..Len(toClient) : toClient'[i] = toClient[i]
      /\ toClient'[Len(toClient) + 1] = m
  BY <1>1, AppendIsSeq
<1>3. /\ \A i \in 1..Len(toClient') : i \in 1..Len(toClient) \/ i = Len(toClient) + 1
      /\ \A i \in 1..Len(toClient) : i \in 1..Len(toClient')
  BY <1>1, <1>2
<1> QED
  BY <1>2, <1>3 DEF NoReady, Returning

(* A connection that is lost loses messages and ends in others.             *)
LEMMA CutNoReady ==
    ASSUME TypeOK, ServerDie
    PROVE  /\ NoReady(toClient) => NoReady(toClient)'
           /\ \A c : Returning(c)' => Returning(c)
<1>1. PICK k \in 0..Len(toClient) : CutAt(k)
  BY DieCuts
<1>2. toClient \in Seq(Messages) /\ Len(toClient) \in Nat
  BY DEF TypeOK
<1>3. \A i \in 1..Len(toClient') : i \in 1..k \/ i \in (k + 1)..Len(toClient')
  BY <1>1, <1>2 DEF CutAt
<1>4. \A i \in 1..k : i \in 1..Len(toClient)
  BY <1>1, <1>2
<1>5. \A i \in (k + 1)..Len(toClient') : toClient'[i].type # "ReadyForQuery"
  BY <1>1 DEF CutAt, Unsolicited, Ends
<1>6. \A i \in 1..k : toClient'[i] = toClient[i]
  BY <1>1 DEF CutAt
<1> QED
  BY <1>3, <1>4, <1>5, <1>6 DEF NoReady, Returning

(* The server reads a batch, or nothing is left to read when it closes.     *)
LEMMA TakeStill ==
    ASSUME TypeOK, OneExchange, WireInv, ServerTake, srv'.stage = "gone"
    PROVE  \A i \in 1..Len(toServer') : Trailing(toServer'[i])
<1> DEFINE b == Head(toServer)
<1>1. /\ driver = "running" /\ srv.stage = "idle" /\ b.kind = "Close" /\ toServer # <<>>
      /\ toServer' = Tail(toServer)
  BY DEF ServerTake, Connected, TypeOK, Server
<1>2. toServer \in Seq(Batches) /\ Len(toServer) \in Nat
  BY DEF TypeOK
<1>3. /\ b = toServer[1] /\ Len(toServer) >= 1 /\ Len(toServer') = Len(toServer) - 1
      /\ \A i \in 1..Len(toServer') : toServer'[i] = toServer[i + 1]
  BY <1>1, <1>2, TailIsSeq
<1>4. 1 \in 1..Len(toServer) /\ \A i \in 1..Len(toServer') : i + 1 \in 1..Len(toServer)
  BY <1>2, <1>3
<1>5. ~CopyBatch(toServer[1])
  BY <1>1, <1>3 DEF CopyBatch
<1>6. pending # None
  BY <1>1, <1>4, <1>5 DEF OneExchange, ExchangeInv
<1>7. ~InFlight
  <2> SUFFICES ASSUME InFlight PROVE FALSE
    OBVIOUS
  <2>1. Written
    BY <1>1, <1>4, <1>5 DEF OneExchange, ExchangeInv, Serving, Answered
  <2>2. Len(toServer) # 1
    BY <1>1, <1>3, <2>1 DEF Written, InFlight
  <2>3. 1 \in 1..(Len(toServer) - 1)
    BY <1>2, <1>3, <2>2
  <2> QED
    BY <1>5, <2>1, <2>3 DEF Written
<1>8. \A i \in 1..Len(toServer) : Trailing(toServer[i])
  BY <1>1, <1>6, <1>7 DEF WireInv, ClosingInv, InFlight, Trailing
<1> QED
  BY <1>3, <1>4, <1>8

LEMMA StartStill ==
    ASSUME OrderInv, StartBuildError \/ StartFlushed \/ StartFlushError \/ StartClose
    PROVE  StillInv'
<1> USE DEF callerVars, wireVars
<1>1. /\ driver = "running" /\ pending = None /\ UNCHANGED <<driver, srv>> /\ ~InFlight
      /\ srv.stage = "gone" => toServer' = toServer
  BY DEF StartBuildError, StartFlushed, StartFlushError, StartClose, Recv, FlushOk, InFlight
<1>2. NoReady(toClient)
  BY <1>1 DEF OrderInv, StillInv, Up
<1>3. srv'.stage = "gone" => \A i \in 1..Len(toServer') : Trailing(toServer'[i])
  BY <1>1 DEF OrderInv, StillInv, Up
<1>4. CASE toClient' = toClient
  BY <1>2, <1>3, <1>4 DEF StillInv, NoReady
<1>5. CASE toClient' # toClient
  <2> DEFINE m == Msg("Ack", Head(inbox).call, "none")
  <2>1. toClient' = <<m>> \o toClient
    BY <1>5 DEF StartBuildError, StartFlushed, StartFlushError, StartClose
  <2>2. inbox \in Seq(Commands) /\ inbox # <<>> /\ toClient \in Seq(Messages) /\ Len(toClient) \in Nat
    BY DEF OrderInv, TypeOK, StartBuildError, StartFlushed, StartFlushError, StartClose, Recv
  <2>3. Head(inbox) \in Commands
    BY <2>2, TailIsSeq
  <2>4. m \in Messages /\ m.type = "Ack"
    BY <2>3 DEF Msg, Messages, MsgTypes, Args, Commands
  <2> HIDE DEF m
  <2>5. <<m>> \in Seq(Messages) /\ Len(<<m>>) = 1 /\ <<m>>[1] = m
    BY <2>4
  <2>6. /\ Len(toClient') = 1 + Len(toClient)
        /\ \A i \in 1..Len(toClient') : toClient'[i] = IF i <= 1 THEN <<m>>[i] ELSE toClient[i - 1]
    BY <2>1, <2>2, <2>5, ConcatIsSeq
  <2>7. \A i \in 1..Len(toClient') : i = 1 \/ (~(i <= 1) /\ i - 1 \in 1..Len(toClient))
    BY <2>2, <2>6
  <2>8. NoReady(toClient)'
    BY <1>2, <2>4, <2>5, <2>6, <2>7 DEF NoReady
  <2> QED
    BY <1>3, <2>8 DEF StillInv
<1> QED
  BY <1>4, <1>5

LEMMA ReadStill ==
    ASSUME OrderInv, OnMessage \/ OnCopyInResponseIgnored \/ OnCopyInResponse \/ OnReadyForQuery
    PROVE  StillInv'
<1> USE DEF callerVars, wireVars
<1>1. /\ driver = "running" /\ UNCHANGED <<driver, srv>>
      /\ srv.stage = "gone" => toServer' = toServer
  BY DEF OnMessage, OnCopyInResponseIgnored, OnCopyInResponse, OnReadyForQuery, Read, FlushOk
<1>2. srv'.stage = "gone" => \A i \in 1..Len(toServer') : Trailing(toServer'[i])
  BY <1>1 DEF OrderInv, StillInv, Up
<1>3. ~InFlight => NoReady(toClient)
  BY <1>1 DEF OrderInv, StillInv, Up
<1>4. CASE OnMessage \/ OnCopyInResponseIgnored \/ OnCopyInResponse
  <2>1. PICK types : Read(types)
    BY <1>4 DEF OnMessage, OnCopyInResponseIgnored, OnCopyInResponse
  <2>2. ReadsOn /\ (pending # None => pending' # None)
    BY <1>4, ReadWithin DEF OrderInv
  <2>3. ~InFlight' => ~InFlight
    BY <2>2 DEF ReadsOn, InFlight
  <2> QED
    BY <1>2, <1>3, <2>1, <2>3, ReadKeepsNoReady DEF StillInv, OrderInv
<1>5. CASE OnReadyForQuery
  <2>1. Read({"ReadyForQuery"})
    BY <1>5 DEF OnReadyForQuery
  <2>2. NoReady(toClient)'
    BY <1>3, <2>1, ReadKeepsNoReady, ReadyIsLast DEF OrderInv
  <2> QED
    BY <1>2, <2>2 DEF StillInv
<1> QED
  BY <1>4, <1>5

LEMMA ServerStill ==
    ASSUME OrderInv, ServerStep \/ ServerCopyAbort \/ ServerNotice \/ ServerDie
    PROVE  StillInv'
<1> USE DEF OrderInv
<1>1. CASE ServerTake
  <2>1. driver = "running" /\ srv.stage # "gone" /\ UNCHANGED <<driver, pending>>
    BY <1>1, TakeForms
  <2>2. toClient' = toClient \/ toClient' = Append(toClient, Msg("Eof", None, "none"))
    BY <1>1, TakeForms
  <2>3. ~InFlight => NoReady(toClient)
    BY <2>1 DEF StillInv, Up
  <2> DEFINE m == Msg("Eof", None, "none")
  <2>4. m \in Messages /\ m.type # "ReadyForQuery"
    BY DEF Msg, Messages, MsgTypes, Args, Ends
  <2> HIDE DEF m
  <2>5. ~InFlight => NoReady(toClient)'
    BY <2>2, <2>3, <2>4, AppendNoReady DEF m, NoReady
  <2> QED
    BY <1>1, <2>1, <2>5, TakeStill DEF StillInv, InFlight
<1>2. CASE ServerEmit \/ ServerCopyAbort
  <2>1. PICK m \in Messages, stage \in ServerStages : Sends(m, stage)
    BY <1>2, ServerSends DEF WireInv
  <2>2. InFlight
    BY <2>1, ServedIsPending DEF Sends
  <2> QED
    BY <2>1, <2>2 DEF Sends, StillInv, InFlight
<1>3. CASE ServerReady
  <2>1. InFlight
    BY <1>3, ReadyEnds, ServedIsPending
  <2> QED
    BY <1>3, <2>1, ReadyEnds DEF StillInv, InFlight
<1>4. CASE ServerNotice
  <2>1. /\ driver = "running" /\ UNCHANGED <<driver, pending, toServer, srv>>
    BY <1>4, NoticeSent
  <2>2. PICK m \in Messages : m.type = "Notice" /\ toClient' = Append(toClient, m)
    BY <1>4, NoticeSent
  <2> QED
    BY <2>1, <2>2, AppendNoReady DEF StillInv, InFlight, Up
<1>5. CASE ServerDie
  <2>1. /\ driver = "running" /\ Len(toServer') = 0 /\ UNCHANGED <<driver, pending>>
    BY <1>5, DieCuts
  <2>2. 1..Len(toServer') = {}
    BY <2>1
  <2> QED
    BY <1>5, <2>1, <2>2, CutNoReady DEF StillInv, InFlight, Up
<1> QED
  BY <1>1, <1>2, <1>3, <1>4, <1>5 DEF ServerStep

LEMMA NextStill == OrderInv /\ [Next]_vars => StillInv'
<1> SUFFICES ASSUME OrderInv, [Next]_vars PROVE StillInv'
  OBVIOUS
<1>1. CASE Callers \/ Quiescent \/ UNCHANGED vars
  <2>1. UNCHANGED <<driver, pending, toServer, toClient, srv>>
    BY <1>1 DEF Callers, Send, Cancel, SessionClose, SessionCloseReturns, SessionDrop, HandlesDrop,
                Quiescent, vars, wireVars
  <2> QED
    BY <2>1 DEF OrderInv, StillInv, Up, InFlight, NoReady
<1>2. CASE OnCopyWriteError \/ OnReaderEnd \/ Shutdown
  BY <1>2 DEF OnCopyWriteError, OnReaderEnd, Shutdown, FailPending, StillInv, Up
<1> QED
  BY <1>1, <1>2, StartStill, ReadStill, ServerStill DEF Next, DriverStep, ServerStep

LEMMA OrderInvariant == Spec => []OrderInv
<1>1. Init => StillInv
  <2> SUFFICES ASSUME Init PROVE StillInv
    OBVIOUS
  <2>1. Len(toClient) = 0 /\ srv.stage = "idle"
    BY EmptyIsSeq DEF Init
  <2>2. 1..Len(toClient) = {}
    BY <2>1
  <2> QED
    BY <2>1, <2>2 DEF StillInv, NoReady
<1>2. TypeOK /\ OneExchange /\ RepliesInv /\ StillInv /\ [Next]_vars => StillInv'
  BY NextStill DEF RepliesInv, OrderInv
<1>3. TypeOK /\ OneExchange /\ RepliesInv /\ StillInv => OrderInv
  BY DEF RepliesInv, OrderInv
<1> QED
  BY <1>1, <1>2, <1>3, TypeCorrect, ExchangesAreSerial, RepliesInvariant, PTL DEF Spec

(* What CommandQueue sees of the exchange: nothing outside of one, ...      *)
Rest == Turn = None /\ Outgoing = {} /\ Working = None /\ Incoming = {}

LEMMA Boundary == OrderInv /\ Up /\ ~InFlight => Rest
<1> SUFFICES ASSUME OrderInv, Up, ~InFlight PROVE Rest
  OBVIOUS
<1> USE DEF OrderInv
<1>1. driver = "running" /\ NoReady(toClient)
  BY DEF Up, StillInv
<1>2. srv.stage \in {"idle", "gone"} /\ \A i \in 1..Len(toServer) : Trailing(toServer[i])
  <2>1. CASE srv.stage = "gone"
    BY <1>1, <2>1 DEF Up, StillInv
  <2>2. CASE srv.stage # "gone" /\ pending = None
    BY <1>1, <2>2 DEF OneExchange, ExchangeInv, Trailing
  <2>3. CASE srv.stage # "gone" /\ pending # None
    BY <1>1, <2>3 DEF WireInv, ClosingInv, InFlight, Trailing
  <2> QED
    BY <2>1, <2>2, <2>3
<1>3. Turn = None /\ Working = None
  BY <1>2 DEF Turn, Working
<1>4. Outgoing = {}
  BY <1>2 DEF Outgoing, OnWire
<1>5. Incoming = {}
  BY <1>1 DEF Incoming, Returning, NoReady
<1> QED
  BY <1>3, <1>4, <1>5 DEF Rest

(* ... nor behind the driver's exit, ...                                    *)
LEMMA Beyond == ~Up => Rest
  BY DEF Rest, Turn, Outgoing, Working, Incoming

(* ... and within one only the call whose turn it is.                       *)
Alone ==
    /\ Turn \in Calls /\ Turn = pending.call
    /\ Outgoing \subseteq {Turn} /\ Incoming \subseteq {Turn}
    /\ srv.stage \notin {"idle", "gone"} => Working = Turn /\ Outgoing = {} /\ Incoming = {}
    /\ srv.stage = "idle" => Working = None
    /\ srv.stage = "gone" => Working = None /\ Outgoing = {}
    /\ srv.stage = "idle" /\ Outgoing # {} => Outgoing = {Turn} /\ Incoming = {}

LEMMA Middle == OrderInv /\ Up /\ InFlight => Alone
<1> SUFFICES ASSUME OrderInv, Up, InFlight PROVE Alone
  OBVIOUS
<1> USE DEF OrderInv
<1>1. driver = "running" /\ Turn = pending.call
  BY DEF Up, Turn
<1>2. pending.call \in Calls
  BY DEF TypeOK, Pending, OneExchange, OwnerInv, InFlight
<1>3. Incoming \subseteq {Turn}
  <2>1. \A i \in 1..Len(toClient) : toClient[i].of \in {None, pending.call}
    BY <1>1 DEF OneExchange, StreamInv
  <2> QED
    BY <1>1, <2>1, CallsAssumption DEF Incoming, Returning
<1>4. ASSUME \A i \in 1..Len(toServer) : CopyBatch(toServer[i]) PROVE Outgoing = {}
  BY <1>4 DEF Outgoing, OnWire, Trailing
<1>5. CASE srv.stage \notin {"idle", "gone"}
  <2>1. Serving
    BY <1>1, <1>5 DEF OneExchange, ExchangeInv, Written, Answered
  <2>2. Working = Turn /\ Outgoing = {}
    BY <1>1, <1>4, <1>5, <2>1 DEF Serving, Working, Up
  <2>3. Incoming = {}
    BY <2>1 DEF Serving, Incoming, Returning
  <2> QED
    BY <1>1, <1>2, <1>3, <1>5, <2>2, <2>3 DEF Alone
<1>6. CASE srv.stage = "gone"
  <2>1. Outgoing = {}
    BY <1>6 DEF StillInv, Outgoing, OnWire
  <2> QED
    BY <1>1, <1>2, <1>3, <1>6, <2>1 DEF Alone, Working
<1>7. CASE srv.stage = "idle" /\ Written
  <2>1. toServer \in Seq(Batches) /\ Len(toServer) \in Nat
    BY DEF TypeOK
  <2>2. /\ toServer[Len(toServer)] = [call |-> pending.call, kind |-> pending.kind]
        /\ \A i \in 1..(Len(toServer) - 1) : CopyBatch(toServer[i])
    BY <1>7 DEF Written
  <2>3. \A i \in 1..Len(toServer) : i \in 1..(Len(toServer) - 1) \/ i = Len(toServer)
    BY <2>1
  <2>4. Outgoing \subseteq {Turn}
    BY <1>1, <2>2, <2>3 DEF Outgoing, OnWire, Trailing
  <2>5. Incoming = {}
    BY <1>7, CallsAssumption DEF Written, Incoming, Returning
  <2> QED
    BY <1>1, <1>2, <1>3, <1>7, <2>4, <2>5 DEF Alone, Working
<1>8. CASE srv.stage = "idle" /\ Answered
  BY <1>1, <1>2, <1>3, <1>4, <1>8 DEF Answered, Alone, Working
<1> QED
  BY <1>1, <1>5, <1>6, <1>7, <1>8 DEF OneExchange, ExchangeInv, Serving

(* The same at the end of a step.                                           *)
LEMMA BoundaryNext == OrderInv' /\ Up' /\ ~InFlight' => Rest'
  BY Boundary, PTL
LEMMA BeyondNext == ~Up' => Rest'
  BY Beyond, PTL
LEMMA MiddleNext == OrderInv' /\ Up' /\ InFlight' => Alone'
  BY Middle, PTL

(* The channel as CommandQueue sees it.                                     *)
LEMMA CallOf ==
    ASSUME NEW q \in Seq(Commands)
    PROVE  \A i \in 1..Len(q) : q[i].call \in Calls \cup {None}
<1>1. \A i \in 1..Len(q) : q[i] \in Commands
  OBVIOUS
<1>2. \A b \in Commands : b.call \in Calls \cup {None}
  BY DEF Commands
<1> QED
  BY <1>1, <1>2

LEMMA LineIs ==
    ASSUME TypeOK
    PROVE  /\ Line \in Seq(Calls \cup {None}) /\ Len(Line) = Len(inbox) /\ Len(inbox) \in Nat
           /\ \A i \in 1..Len(inbox) : Line[i] = inbox[i].call
           /\ inbox # <<>> => Line # <<>> /\ Head(Line) = Head(inbox).call
           /\ inbox = <<>> => Line = <<>>
           /\ Q!Waiting = {c \in Calls : Queued(c)}
<1>1. inbox \in Seq(Commands) /\ Len(inbox) \in Nat
  BY DEF TypeOK
<1>2. \A i \in 1..Len(inbox) : inbox[i].call \in Calls \cup {None}
  BY <1>1, CallOf
<1>3. Line \in Seq(Calls \cup {None}) /\ Len(Line) = Len(inbox)
  BY <1>1, <1>2 DEF Line
<1>4. \A i \in 1..Len(inbox) : Line[i] = inbox[i].call
  BY DEF Line
<1>5. ASSUME inbox # <<>> PROVE Line # <<>> /\ Head(Line) = Head(inbox).call
  <2>1. Len(inbox) >= 1 /\ Head(inbox) = inbox[1]
    BY <1>1, <1>5, TailIsSeq
  <2>2. 1 \in 1..Len(inbox) /\ Len(Line) >= 1
    BY <1>1, <1>3, <2>1
  <2>3. Line # <<>>
    BY <2>2
  <2>4. Head(Line) = Line[1]
    BY <1>3, <2>3, TailIsSeq
  <2> QED
    BY <1>4, <2>1, <2>2, <2>3, <2>4
<1>6. inbox = <<>> => Line = <<>>
  BY <1>3
<1>7. Q!Waiting = {c \in Calls : Queued(c)}
  BY <1>2, <1>3, <1>4, CallsAssumption DEF Q!Waiting, Queued
<1> QED
  BY <1>1, <1>3, <1>4, <1>5, <1>6, <1>7

LEMMA LineAppend ==
    ASSUME TypeOK, TypeOK', NEW b \in Commands, inbox' = Append(inbox, b)
    PROVE  Line' = Append(Line, b.call)
<1>1. inbox \in Seq(Commands) /\ Len(inbox) \in Nat
  BY DEF TypeOK
<1>2. /\ Len(inbox') = Len(inbox) + 1
      /\ \A i \in 1..Len(inbox) : inbox'[i] = inbox[i]
      /\ inbox'[Len(inbox) + 1] = b
  BY <1>1, AppendIsSeq
<1> DEFINE S == Calls \cup {None}
<1>3. Line' = [i \in 1..Len(inbox') |-> inbox'[i].call]
  BY DEF Line
<1>4. \A i \in 1..Len(inbox') : inbox'[i].call \in S
  BY CallOf DEF TypeOK
<1>5. Line' \in Seq(S) /\ Len(Line') = Len(inbox') /\ \A i \in 1..Len(inbox') : Line'[i] = inbox'[i].call
  BY <1>1, <1>2, <1>3, <1>4
<1>6. b.call \in S /\ Line \in Seq(S) /\ Len(Line) = Len(inbox)
      /\ \A i \in 1..Len(inbox) : Line[i] = inbox[i].call
  BY LineIs DEF Commands
<1> DEFINE t == Append(Line, b.call)
<1>7. /\ t \in Seq(S) /\ Len(t) = Len(Line) + 1
      /\ \A i \in 1..Len(Line) : t[i] = Line[i]
      /\ t[Len(Line) + 1] = b.call
  BY <1>6, AppendIsSeq
<1> HIDE DEF t, S
<1>8. \A i \in 1..Len(inbox') : i \in 1..Len(inbox) \/ i = Len(inbox) + 1
  BY <1>1, <1>2
<1>9. \A i \in 1..Len(inbox') : Line'[i] = t[i]
  BY <1>2, <1>5, <1>6, <1>7, <1>8
<1>10. Len(Line') = Len(t)
  BY <1>2, <1>5, <1>6, <1>7
<1>11. Line' = t
  BY <1>5, <1>7, <1>9, <1>10, SameSeq
<1> QED
  BY <1>11 DEF t

LEMMA LineTail ==
    ASSUME TypeOK, TypeOK', inbox # <<>>, inbox' = Tail(inbox)
    PROVE  Line' = Tail(Line)
<1>1. inbox \in Seq(Commands) /\ Len(inbox) \in Nat
  BY DEF TypeOK
<1>2. /\ Len(inbox') = Len(inbox) - 1 /\ Len(inbox) >= 1
      /\ \A i \in 1..Len(inbox') : inbox'[i] = inbox[i + 1]
  BY <1>1, TailIsSeq
<1> DEFINE S == Calls \cup {None}
<1>3. Line' = [i \in 1..Len(inbox') |-> inbox'[i].call]
  BY DEF Line
<1>4. \A i \in 1..Len(inbox') : inbox'[i].call \in S
  BY CallOf DEF TypeOK
<1>5. Line' \in Seq(S) /\ Len(Line') = Len(inbox') /\ \A i \in 1..Len(inbox') : Line'[i] = inbox'[i].call
  BY <1>1, <1>2, <1>3, <1>4
<1>6. /\ Line \in Seq(S) /\ Len(Line) = Len(inbox) /\ Line # <<>>
      /\ \A i \in 1..Len(inbox) : Line[i] = inbox[i].call
  BY LineIs
<1> DEFINE t == Tail(Line)
<1>7. t \in Seq(S) /\ Len(t) = Len(Line) - 1 /\ \A i \in 1..Len(t) : t[i] = Line[i + 1]
  BY <1>6, TailIsSeq
<1> HIDE DEF t, S
<1>8. \A i \in 1..Len(inbox') : i + 1 \in 1..Len(inbox)
  BY <1>1, <1>2
<1>9. Len(Line') = Len(t) /\ Len(t) = Len(inbox')
  BY <1>2, <1>5, <1>6, <1>7
<1>10. \A i \in 1..Len(inbox') : Line'[i] = t[i]
  BY <1>2, <1>5, <1>6, <1>7, <1>8, <1>9
<1>11. Line' = t
  BY <1>5, <1>7, <1>9, <1>10, SameSeq
<1> QED
  BY <1>11 DEF t

(* Answers as CommandQueue sees them: those who are told had none.          *)
LEMMA Tells ==
    ASSUME NEW told, DOMAIN told \subseteq Calls,
           \A c \in DOMAIN told : /\ call'[c] # "idle" /\ reply[c] = None
                                  /\ Said(reply'[c]) = told[c],
           \A c \in Calls \ DOMAIN told : reply'[c] = reply[c]
    PROVE  Q!Tell(told)
<1>1. DOMAIN told \subseteq Called'
  BY DEF Called
<1>2. \A c \in DOMAIN told : Answers[c] = None
  BY DEF Answers, Said
<1>3. Answers' = [c \in Calls |-> Said(reply'[c])]
  BY DEF Answers
<1>4. \A c \in Calls : Said(reply'[c]) = IF c \in DOMAIN told THEN told[c] ELSE Answers[c]
  BY DEF Answers
<1>5. Answers' = [c \in Calls |-> IF c \in DOMAIN told THEN told[c] ELSE Answers[c]]
  BY <1>3, <1>4
<1> QED
  BY <1>1, <1>2, <1>5 DEF Q!Tell

LEMMA SaidOf ==
    /\ \A e \in Errors : Said(Err(e)) = "err"
    /\ \A r \in Replies : Said(r) = IF r.ok THEN "ok" ELSE "err"
<1>1. \A r \in Replies : r # None
  BY NoneAssumption
<1>2. \A e \in Errors : Err(e) \in Replies /\ Err(e).ok = FALSE
  BY ErrTyped DEF Err
<1> QED
  BY <1>1, <1>2 DEF Said

(* What a step of the driver is to CommandQueue.                            *)
Does == Q!QNext \/ UNCHANGED Q!qvars
SameExchange == UNCHANGED <<Turn, Outgoing, Working, Incoming>>
SameCallers == UNCHANGED <<Called, Answers, Line, inboxOpen>>

LEMMA Stutter == SameExchange /\ SameCallers => Does
  BY DEF Does, SameExchange, SameCallers, Q!qvars, Q!exchange

LEMMA ExchangeSame == UNCHANGED <<driver, pending, toServer, toClient, srv>> => SameExchange
  BY DEF SameExchange, Turn, Outgoing, Working, Incoming, Up, InFlight, OnWire, Returning

LEMMA CallersSame == UNCHANGED <<call, reply, inbox, inboxOpen>> => SameCallers
  BY DEF SameCallers, Called, Answers, Line

(* A caller sends a command, or is told that the channel is closed.         *)
LEMMA EnqueueDoes ==
    ASSUME OrderInv, OrderInv', SameExchange, inboxOpen' = inboxOpen,
           NEW c \in Calls, NEW k \in CommandKinds, NEW d \in {"waiting", "closing"}, Enqueue(c, k, d)
    PROVE  Does
<1>1. call[c] = "idle" /\ call' = [call EXCEPT ![c] = d] /\ DOMAIN call = Calls /\ DOMAIN reply = Calls
  BY DEF Enqueue, OrderInv, TypeOK
<1>2. c \notin Called /\ Called' = Called \cup {c} /\ call'[c] # "idle"
  BY <1>1 DEF Called
<1>3. c # None
  BY CallsAssumption
<1>4. CASE inboxOpen /\ HasRoom /\ inbox' = Append(inbox, [call |-> c, kind |-> k]) /\ reply' = reply
  <2> DEFINE b == [call |-> c, kind |-> k]
  <2>1. b \in Commands /\ b.call = c /\ inbox' = Append(inbox, b)
    BY <1>4 DEF Commands
  <2> HIDE DEF b
  <2>2. Line' = Append(Line, c)
    BY <2>1, LineAppend DEF OrderInv
  <2>3. Len(Line) < COMMAND_BUFFER
    BY <1>4, LineIs DEF OrderInv, HasRoom
  <2>4. Answers' = Answers
    BY <1>4 DEF Answers
  <2>5. Called' = Called \cup ({c} \ {None})
    BY <1>2, <1>3
  <2>6. Q!Accept(c)
    BY <1>2, <1>4, <2>2, <2>3, <2>4, <2>5 DEF Q!Accept, Q!exchange, SameExchange
  <2> QED
    BY <2>6 DEF Does, Q!QNext
<1>5. CASE ~inboxOpen /\ reply' = [reply EXCEPT ![c] = Err("Closed")] /\ inbox' = inbox
  <2>1. reply[c] = None
    BY <1>1 DEF OrderInv, OnceInv, Untouched
  <2>2. "Closed" \in Errors /\ Said(reply'[c]) = "err"
    BY <1>1, <1>5, SaidOf DEF Errors
  <2>3. \A x \in Calls \ {c} : reply'[x] = reply[x]
    BY <1>1, <1>5
  <2> DEFINE told == [x \in {c} |-> "err"]
  <2>4. DOMAIN told = {c} /\ told[c] = "err"
    OBVIOUS
  <2> HIDE DEF told
  <2>5. Q!Tell(told)
    BY <1>2, <2>1, <2>2, <2>3, <2>4, Tells
  <2>6. Line' = Line
    BY <1>5 DEF Line
  <2>7. Q!Refuse(c)
    BY <1>2, <1>5, <2>5, <2>6 DEF Q!Refuse, Q!exchange, SameExchange, told
  <2> QED
    BY <2>7 DEF Does, Q!QNext
<1> QED
  BY <1>4, <1>5 DEF Enqueue

LEMMA CallersDo ==
    ASSUME OrderInv, OrderInv', Callers
    PROVE  Does
<1>1. SameExchange /\ inboxOpen' = inboxOpen
  BY ExchangeSame DEF Callers, Send, Cancel, SessionClose, SessionCloseReturns, SessionDrop, HandlesDrop,
                      wireVars
<1>2. CASE \E c \in Calls : SessionClose(c) \/ \E k \in Kinds : Send(c, k)
  <2>1. \E c \in Calls, k \in CommandKinds, d \in {"waiting", "closing"} : Enqueue(c, k, d)
    BY <1>2, KindsAssumption DEF SessionClose, Send, CommandKinds
  <2> QED
    BY <1>1, <2>1, EnqueueDoes
<1>3. CASE \E c \in Calls : Cancel(c)
  <2>1. PICK c \in Calls : /\ call[c] # "idle" /\ call' = [call EXCEPT ![c] = "cancelled"]
                           /\ UNCHANGED <<reply, inbox>>
    BY <1>3 DEF Cancel
  <2>2. Called' = Called
    BY <2>1 DEF Called, OrderInv, TypeOK
  <2>3. SameCallers
    BY <1>1, <2>1, <2>2 DEF SameCallers, Answers, Line
  <2> QED
    BY <1>1, <2>3, Stutter
<1>4. CASE SessionCloseReturns \/ HandlesDrop
  BY <1>1, <1>4, CallersSame, Stutter DEF SessionCloseReturns, HandlesDrop
<1>5. CASE SessionDrop
  <2>1. UNCHANGED <<call, reply>>
    BY <1>5 DEF SessionDrop
  <2>2. CASE inbox' = inbox
    BY <1>1, <2>1, <2>2, CallersSame, Stutter
  <2>3. CASE inbox' # inbox
    <3> DEFINE b == [call |-> None, kind |-> "Close"]
    <3>1. inboxOpen /\ HasRoom /\ inbox' = Append(inbox, b) /\ b \in Commands /\ b.call = None
      BY <1>5, <2>3 DEF SessionDrop, Commands, CommandKinds
    <3> HIDE DEF b
    <3>2. Line' = Append(Line, None)
      BY <3>1, LineAppend DEF OrderInv
    <3>3. Len(Line) < COMMAND_BUFFER
      BY <3>1, LineIs DEF OrderInv, HasRoom
    <3>4. Answers' = Answers /\ Called' = Called /\ None \notin Called
      BY <2>1, CallsAssumption DEF Answers, Called
    <3>5. Called' = Called \cup ({None} \ {None})
      BY <3>4
    <3>6. Q!Accept(None)
      BY <1>1, <3>1, <3>2, <3>3, <3>4, <3>5 DEF Q!Accept, Q!exchange, SameExchange
    <3> QED
      BY <3>6 DEF Does, Q!QNext
  <2> QED
    BY <2>2, <2>3
<1> QED
  BY <1>2, <1>3, <1>4, <1>5 DEF Callers

(* The first in the channel, and those behind it.                           *)
LEMMA FirstInLine ==
    ASSUME OrderInv, Recv
    PROVE  /\ Head(Line) = Head(inbox).call /\ Line # <<>> /\ Head(inbox) \in Commands
           /\ Head(inbox).kind # "Close" => Head(inbox).call \in Calls
           /\ Queued(Head(inbox).call)
           /\ \A c \in Calls : (\E i \in 1..Len(Tail(inbox)) : Tail(inbox)[i].call = c)
                                   <=> Queued(c) /\ c # Head(inbox).call
<1>1. inbox \in Seq(Commands) /\ Len(inbox) \in Nat /\ inbox # <<>>
  BY DEF OrderInv, TypeOK, Recv
<1> DEFINE t == Tail(inbox)
<1>2. /\ Head(inbox) = inbox[1] /\ Head(inbox) \in Commands /\ Len(inbox) >= 1
      /\ Len(t) = Len(inbox) - 1 /\ \A i \in 1..Len(t) : t[i] = inbox[i + 1]
  BY <1>1, TailIsSeq
<1> HIDE DEF t
<1>3. 1 \in 1..Len(inbox)
  BY <1>1, <1>2
<1>4. Head(Line) = Head(inbox).call /\ Line # <<>>
  BY <1>1, LineIs DEF OrderInv
<1>5. Head(inbox).kind # "Close" => Head(inbox).call \in Calls
  BY <1>2, <1>3 DEF OrderInv, OneExchange, OwnerInv, Owned, Commands
<1>6. Queued(Head(inbox).call)
  BY <1>2, <1>3 DEF Queued
<1>7. ASSUME NEW c \in Calls, NEW i \in 1..Len(t), t[i].call = c
      PROVE  Queued(c) /\ c # Head(inbox).call
  <2>1. i + 1 \in 1..Len(inbox) /\ 1 < i + 1
    BY <1>1, <1>2
  <2>2. inbox[i + 1].call = c
    BY <1>2, <1>7
  <2>3. inbox[1].call # inbox[i + 1].call \/ inbox[1].call = None
    BY <1>3, <2>1 DEF OrderInv, OnceInv, Apart
  <2> QED
    BY <1>2, <2>1, <2>2, <2>3, CallsAssumption DEF Queued
<1>8. ASSUME NEW c \in Calls, Queued(c), c # Head(inbox).call
      PROVE  \E i \in 1..Len(t) : t[i].call = c
  <2>1. PICK j \in 1..Len(inbox) : inbox[j].call = c
    BY <1>8 DEF Queued
  <2>2. j # 1
    BY <1>2, <1>8, <2>1
  <2>3. j - 1 \in 1..Len(t) /\ (j - 1) + 1 = j
    BY <1>1, <1>2, <2>2
  <2> QED
    BY <1>2, <2>1, <2>3
<1> QED
  BY <1>2, <1>4, <1>5, <1>6, <1>7, <1>8 DEF t

LEMMA ReplyDomain == OrderInv => DOMAIN reply = Calls
  BY DEF OrderInv, TypeOK

(* Who waits has not been answered.                                         *)
LEMMA Unanswered ==
    ASSUME OrderInv, NEW c \in Calls, Queued(c) \/ Pends(c)
    PROVE  reply[c] = None /\ call[c] # "idle"
  BY DEF OrderInv, OnceInv, Untouched

LEMMA RejectDoes ==
    ASSUME OrderInv, OrderInv', StartBuildError \/ StartFlushError
    PROVE  Does
<1> USE DEF callerVars, wireVars
<1>1. /\ Recv /\ driver = "running" /\ pending = None /\ inbox # <<>> /\ Head(inbox).kind # "Close"
      /\ UNCHANGED <<call, inboxOpen, driver, pending>> /\ inbox' = Tail(inbox)
  BY DEF StartBuildError, StartFlushError, Recv
<1>2. Rest /\ Rest'
  BY <1>1, Boundary, BoundaryNext DEF Up, InFlight
<1>3. SameExchange /\ Turn = None
  BY <1>2 DEF Rest, SameExchange
<1>4. PICK h : h = Head(inbox).call
  OBVIOUS
<1>5. h \in Calls /\ Head(Line) = h /\ Line # <<>> /\ Queued(h)
  BY <1>1, <1>4, FirstInLine
<1>6. Line' = Tail(Line) /\ Called' = Called
  BY <1>1, LineTail DEF OrderInv, Called
<1>7. PICK e \in {"Build", "Closed"} : reply' = Answer(reply, h, Err(e))
  BY <1>4 DEF StartBuildError, StartFlushError
<1>8. \A d \in Calls : reply'[d] = IF d = h THEN Err(e) ELSE reply[d]
  BY <1>7, AnswerFacts, ReplyDomain
<1>9. Said(reply'[h]) = "err"
  BY <1>5, <1>8, SaidOf DEF Errors
<1> DEFINE told == [c \in {h} |-> "err"]
<1>10. DOMAIN told = {h} /\ told[h] = "err"
  OBVIOUS
<1> HIDE DEF told
<1>11. reply[h] = None /\ call'[h] # "idle"
  BY <1>1, <1>5, Unanswered
<1>12. Q!Tell(told)
  BY <1>5, <1>8, <1>9, <1>10, <1>11, Tells
<1>13. Q!Reject
  BY <1>1, <1>3, <1>5, <1>6, <1>12 DEF Q!Reject, Q!exchange, SameExchange, told
<1> QED
  BY <1>13 DEF Does, Q!QNext

LEMMA StartDoes ==
    ASSUME OrderInv, OrderInv', StartFlushed
    PROVE  Does
<1> USE DEF callerVars
<1>1. /\ Recv /\ driver = "running" /\ pending = None /\ inbox # <<>> /\ Head(inbox).kind # "Close"
      /\ UNCHANGED <<call, reply, inboxOpen, driver, srv, toClient>> /\ inbox' = Tail(inbox)
      /\ pending' = Fresh(Head(inbox))
  BY DEF StartFlushed, Recv
<1>2. Rest
  BY <1>1, Boundary DEF Up, InFlight
<1>3. pending' # None /\ pending'.kind # "Close" /\ pending'.call = Head(inbox).call
  BY <1>1, FirstInLine, FreshTyped, NoneAssumption DEF Fresh
<1>4. Alone'
  BY <1>1, <1>3, MiddleNext DEF Up, InFlight
<1>5. Turn' = Head(Line) /\ Line # <<>>
  BY <1>1, <1>3, <1>4, FirstInLine DEF Alone
<1>6. Line' = Tail(Line) /\ Called' = Called /\ Answers' = Answers
  BY <1>1, LineTail DEF OrderInv, Called, Answers
<1>7. Working' = Working /\ Incoming' = Incoming
  BY <1>1 DEF Working, Incoming, Up, Returning
<1>8. Outgoing' \in {{Head(Line)}, {}}
  BY <1>4, <1>5 DEF Alone
<1>9. Q!Start
  BY <1>1, <1>2, <1>5, <1>6, <1>7, <1>8 DEF Q!Start, Rest
<1> QED
  BY <1>9 DEF Does, Q!QNext

LEMMA CloseDoes ==
    ASSUME OrderInv, OrderInv', StartClose
    PROVE  Does
<1> USE DEF callerVars
<1>1. /\ Recv /\ driver = "running" /\ pending = None /\ inbox # <<>>
      /\ UNCHANGED <<call, driver>> /\ pending' = Fresh([call |-> None, kind |-> "Close"])
  BY DEF StartClose, Recv
<1>2. pending'.kind = "Close"
  BY <1>1 DEF Fresh
<1>3. Rest /\ Rest'
  BY <1>1, <1>2, Boundary, BoundaryNext DEF Up, InFlight
<1>4. SameExchange /\ Turn = None
  BY <1>3 DEF Rest, SameExchange
<1>5. PICK h : h = Head(inbox).call
  OBVIOUS
<1>6. Head(Line) = h /\ Line # <<>> /\ Queued(h)
  BY <1>1, <1>5, FirstInLine
<1>7. PICK r \in {Ok("Close", <<>>, {}), Err("Io")} : CloseInbox(Tail(inbox), Answer(reply, h, r))
  BY <1>5 DEF StartClose
<1>8. r \in Replies
  <2>1. <<>> \in Seq(Seq(Rows)) /\ "Close" \in CommandKinds /\ "Io" \in Errors
    BY EmptyIsSeq DEF CommandKinds, Errors
  <2>2. Ok("Close", <<>>, {}) \in Replies
    BY <2>1 DEF Ok, Replies
  <2> QED
    BY <1>7, <2>1, <2>2, ErrTyped
<1>9. PICK result \in {"ok", "err"} : Said(r) = result
  BY <1>8, SaidOf DEF Replies
<1>10. inboxOpen' = FALSE /\ inbox' = <<>> /\ Called' = Called
  BY <1>1, <1>7 DEF CloseInbox, Called
<1>11. Line' = <<>>
  <2>1. Len(inbox') = 0
    BY <1>10, EmptyIsSeq
  <2>2. Line' = [i \in 1..0 |-> inbox'[i].call]
    BY <2>1 DEF Line
  <2> QED
    BY <2>2
<1>12. \A c \in Calls : reply'[c] = IF Queued(c) /\ c # h THEN Err("Closed")
                                    ELSE IF c = h THEN r ELSE reply[c]
  <2> DEFINE rs == Answer(reply, h, r)
  <2>1. \A c \in Calls : rs[c] = IF c = h THEN r ELSE reply[c]
    BY AnswerFacts, ReplyDomain
  <2> HIDE DEF rs
  <2>2. \A c \in Calls : reply'[c] = IF \E i \in 1..Len(Tail(inbox)) : Tail(inbox)[i].call = c
                                     THEN Err("Closed") ELSE rs[c]
    BY <1>7 DEF CloseInbox, rs
  <2>3. \A c \in Calls : (\E i \in 1..Len(Tail(inbox)) : Tail(inbox)[i].call = c) <=> Queued(c) /\ c # h
    BY <1>1, <1>5, FirstInLine
  <2> QED
    BY <2>1, <2>2, <2>3
<1>13. Q!Waiting = {c \in Calls : Queued(c)}
  BY LineIs DEF OrderInv
<1> DEFINE told == [c \in Q!Waiting |-> IF c = Head(Line) THEN result ELSE "err"]
<1>14. DOMAIN told = {c \in Calls : Queued(c)}
  BY <1>13
<1>15. \A c \in DOMAIN told : told[c] = IF c = h THEN result ELSE "err"
  BY <1>6
<1> HIDE DEF told
<1>16. Said(Err("Closed")) = "err"
  BY SaidOf DEF Errors
<1>17. \A c \in DOMAIN told : call'[c] # "idle" /\ reply[c] = None /\ Said(reply'[c]) = told[c]
  BY <1>1, <1>9, <1>12, <1>14, <1>15, <1>16, Unanswered
<1>18. \A c \in Calls \ DOMAIN told : reply'[c] = reply[c]
  BY <1>6, <1>12, <1>14
<1>19. Q!Tell(told)
  BY <1>14, <1>17, <1>18, Tells
<1>20. Q!Close
  BY <1>4, <1>6, <1>9, <1>10, <1>11, <1>19 DEF Q!Close, Q!exchange, SameExchange, told
<1> QED
  BY <1>20 DEF Does, Q!QNext

(* The driver exits: everyone who waits is told.                            *)
LEMMA DownDoes ==
    ASSUME OrderInv, OrderInv', OnCopyWriteError \/ OnReaderEnd \/ Shutdown
    PROVE  Does
<1> USE DEF callerVars
<1>1. /\ driver = "running" /\ driver' = "exited" /\ call' = call
      /\ inboxOpen' = FALSE /\ inbox' = <<>>
  BY DEF OnCopyWriteError, OnReaderEnd, Shutdown, FailPending, CloseInbox, Read
<1>2. Rest' /\ Called' = Called
  BY <1>1, BeyondNext DEF Up, Called
<1>3. Line' = <<>>
  <2>1. Len(inbox') = 0
    BY <1>1, EmptyIsSeq
  <2>2. Line' = [i \in 1..0 |-> inbox'[i].call]
    BY <2>1 DEF Line
  <2> QED
    BY <2>2
<1>4. Q!Waiting = {c \in Calls : Queued(c)}
  BY LineIs DEF OrderInv
<1>5. \A c \in Calls : c = Turn <=> Pends(c)
  <2>1. CASE InFlight
    BY <1>1, <2>1 DEF Turn, Up, Pends, InFlight
  <2>2. CASE ~InFlight
    <3>1. pending # None => pending.call = None
      BY <2>2 DEF OrderInv, WireInv, ClosingInv, InFlight
    <3> QED
      BY <2>2, <3>1, CallsAssumption DEF Turn, Pends
  <2> QED
    BY <2>1, <2>2
<1>6. Turn \in Calls \cup {None}
  BY <1>1, Middle DEF Alone, Turn, Up
<1>7. \A c \in Calls : \/ (Queued(c) \/ Pends(c)) /\ \E e \in Errors : reply'[c] = Err(e)
                       \/ ~Queued(c) /\ ~Pends(c) /\ reply'[c] = reply[c]
  <2>1. CASE Shutdown
    <3>1. reply' = reply /\ pending = None /\ Len(inbox) = 0
      BY <2>1, EmptyIsSeq DEF Shutdown
    <3>2. \A c : ~Queued(c) /\ ~Pends(c)
      BY <3>1 DEF Queued, Pends
    <3> QED
      BY <3>1, <3>2
  <2>2. CASE OnCopyWriteError \/ OnReaderEnd
    <3>1. PICK e \in {"Closed", "Io"} : FailPending(e)
      BY <2>2 DEF OnCopyWriteError, OnReaderEnd
    <3> DEFINE rs == IF pending = None THEN reply ELSE Answer(reply, pending.call, Err(e))
    <3>2. \A c \in Calls : rs[c] = IF Pends(c) THEN Err(e) ELSE reply[c]
      BY AnswerFacts, ReplyDomain DEF Pends
    <3> HIDE DEF rs
    <3>3. CloseInbox(inbox, rs)
      BY <3>1 DEF FailPending, rs
    <3>4. \A c \in Calls : reply'[c] = IF Queued(c) THEN Err("Closed") ELSE rs[c]
      BY <3>3 DEF CloseInbox, Queued
    <3>5. "Closed" \in Errors /\ e \in Errors
      BY <3>1 DEF Errors
    <3> QED
      BY <3>2, <3>4, <3>5
  <2> QED
    BY <2>1, <2>2
<1> DEFINE told == [c \in (Q!Waiting \cup {Turn}) \ {None} |-> "err"]
<1>8. DOMAIN told = {c \in Calls : Queued(c) \/ Pends(c)}
  BY <1>4, <1>5, <1>6, CallsAssumption
<1>9. \A c \in DOMAIN told : told[c] = "err"
  OBVIOUS
<1> HIDE DEF told
<1>10. \A c \in DOMAIN told : call'[c] # "idle" /\ reply[c] = None /\ Said(reply'[c]) = told[c]
  BY <1>1, <1>7, <1>8, <1>9, Unanswered, SaidOf
<1>11. \A c \in Calls \ DOMAIN told : reply'[c] = reply[c]
  BY <1>7, <1>8
<1>12. Q!Tell(told)
  BY <1>8, <1>10, <1>11, Tells
<1>13. Q!Down
  BY <1>1, <1>2, <1>3, <1>12 DEF Q!Down, Rest, told
<1> QED
  BY <1>13 DEF Does, Q!QNext

(* The driver reads the ReadyForQuery of the call whose turn it is.         *)
LEMMA FinishDoes ==
    ASSUME OrderInv, OrderInv', OnReadyForQuery
    PROVE  Does
<1> USE DEF callerVars, wireVars
<1>1. /\ Read({"ReadyForQuery"}) /\ driver = "running"
      /\ UNCHANGED <<call, inbox, inboxOpen, driver, toServer, srv>>
  BY DEF OnReadyForQuery, Read
<1>2. InFlight
  <2>1. 1 \in 1..Len(toClient) /\ toClient[1].type = "ReadyForQuery"
    BY <1>1, ReadShifts DEF OrderInv
  <2> QED
    BY <1>1, <2>1 DEF OrderInv, StillInv, Up, NoReady
<1>3. pending' = None /\ reply' = Answer(reply, pending.call, Outcome(pending))
  BY <1>2, ReadReady DEF OrderInv
<1>4. Alone
  BY <1>1, <1>2, Middle DEF Up
<1>5. Rest'
  BY <1>1, <1>3, BoundaryNext DEF Up, InFlight
<1>6. PICK c \in Calls : c = Turn
  BY <1>4 DEF Alone
<1>7. c = pending.call /\ c # None
  BY <1>4, <1>6, CallsAssumption DEF Alone
<1>8. Incoming = {Turn}
  <2>1. 1 \in 1..Len(toClient) /\ toClient[1].type = "ReadyForQuery" /\ toClient[1].of = c
    BY <1>1, <1>2, <1>7, ReadyIsLast DEF OrderInv
  <2>2. c \in Incoming
    BY <1>1, <2>1 DEF Incoming, Returning, Up
  <2> QED
    BY <1>4, <1>6, <2>2 DEF Alone
<1>9. Outgoing' = Outgoing /\ Working' = Working
  BY <1>1 DEF Outgoing, Working, Up, OnWire
<1>10. Line' = Line /\ Called' = Called
  BY <1>1 DEF Line, Called
<1>11. \A d \in Calls : reply'[d] = IF d = c THEN Outcome(pending) ELSE reply[d]
  BY <1>3, <1>7, AnswerFacts, ReplyDomain
<1>12. Outcome(pending) \in Replies
  BY <1>2, OutcomeTyped DEF OrderInv, TypeOK, InFlight
<1>13. PICK result \in {"ok", "err"} : Said(Outcome(pending)) = result
  BY <1>12, SaidOf DEF Replies
<1> DEFINE told == [d \in {Turn} |-> result]
<1>14. DOMAIN told = {c} /\ told[c] = result
  BY <1>6
<1> HIDE DEF told
<1>15. reply[c] = None /\ call'[c] # "idle"
  BY <1>1, <1>2, <1>7, Unanswered DEF Pends, InFlight
<1>16. Q!Tell(told)
  BY <1>11, <1>13, <1>14, <1>15, Tells
<1>17. Q!Finish
  BY <1>1, <1>5, <1>6, <1>7, <1>8, <1>9, <1>10, <1>13, <1>16 DEF Q!Finish, Rest, told
<1> QED
  BY <1>17 DEF Does, Q!QNext

(* Any other message changes nothing that CommandQueue sees.                *)
LEMMA ReadDoes ==
    ASSUME OrderInv, OrderInv', OnMessage \/ OnCopyInResponseIgnored \/ OnCopyInResponse
    PROVE  Does
<1>1. /\ ReadsOn /\ reply' = reply /\ (pending # None => pending' # None)
      /\ \E types : Read(types) /\ types \cap (Ends \cup {"ReadyForQuery"}) = {}
  BY ReadWithin DEF OrderInv
<1>2. PICK types : Read(types) /\ "ReadyForQuery" \notin types
  BY <1>1
<1>3. /\ driver = "running" /\ UNCHANGED <<driver, srv, call, inbox, inboxOpen>>
  BY <1>1 DEF ReadsOn
<1>4. Turn' = Turn /\ Working' = Working
  BY <1>1 DEF ReadsOn, Turn, Working, Up, InFlight
<1>5. Incoming' = Incoming
  <2>1. /\ toClient[1].type # "ReadyForQuery" /\ Len(toClient') = Len(toClient) - 1
        /\ Len(toClient) \in Nat
        /\ \A i \in 1..Len(toClient') : toClient'[i] = toClient[i + 1] /\ i + 1 \in 1..Len(toClient)
    BY <1>2, ReadShifts DEF OrderInv
  <2>2. \A i \in 1..Len(toClient) : i # 1 => i - 1 \in 1..Len(toClient') /\ (i - 1) + 1 = i
    BY <2>1
  <2>3. \A c : Returning(c)' => Returning(c)
    BY <2>1 DEF Returning
  <2>4. ASSUME NEW c, NEW i \in 1..Len(toClient), toClient[i].of = c, toClient[i].type = "ReadyForQuery"
        PROVE  Returning(c)'
    <3>1. i # 1
      BY <2>1, <2>4
    <3>2. i - 1 \in 1..Len(toClient') /\ toClient'[i - 1] = toClient[i]
      BY <2>1, <2>2, <3>1
    <3> QED
      BY <2>4, <3>2 DEF Returning
  <2>5. \A c : Returning(c)' <=> Returning(c)
    BY <2>3, <2>4 DEF Returning
  <2> QED
    BY <1>3, <2>5 DEF Incoming, Up
<1>6. Outgoing' = Outgoing
  <2>1. CASE toServer' = toServer
    BY <1>3, <2>1 DEF Outgoing, Up, OnWire
  <2>2. CASE toServer' # toServer
    <3>1. PICK b \in Batches : toServer' = Append(toServer, b) /\ Trailing(b)
      <4>1. \E k \in {"CopyDone", "CopyFail"} :
               toServer' = Append(toServer, [call |-> pending.call, kind |-> k])
        BY <2>2 DEF OnMessage, OnCopyInResponseIgnored, OnCopyInResponse, FlushOk, wireVars
      <4>2. pending # None
        BY <2>2 DEF OnMessage, OnCopyInResponseIgnored, OnCopyInResponse, CopyInPending, wireVars
      <4>3. pending.call \in Calls \cup {None}
        BY <4>2 DEF OrderInv, TypeOK, Pending
      <4> QED
        BY <4>1, <4>3 DEF Batches, Trailing, CopyBatch
    <3>2. toServer \in Seq(Batches) /\ Len(toServer) \in Nat
      BY DEF OrderInv, TypeOK
    <3>3. /\ Len(toServer') = Len(toServer) + 1
          /\ \A i \in 1..Len(toServer) : toServer'[i] = toServer[i]
          /\ toServer'[Len(toServer) + 1] = b
      BY <3>1, <3>2, AppendIsSeq
    <3>4. /\ \A i \in 1..Len(toServer') : i \in 1..Len(toServer) \/ i = Len(toServer) + 1
          /\ \A i \in 1..Len(toServer) : i \in 1..Len(toServer')
      BY <3>2, <3>3
    <3>5. \A c : OnWire(c)' <=> OnWire(c)
      BY <3>1, <3>3, <3>4 DEF OnWire
    <3> QED
      BY <1>3, <3>5 DEF Outgoing, Up
  <2> QED
    BY <2>1, <2>2
<1>7. SameExchange
  BY <1>4, <1>5, <1>6 DEF SameExchange
<1> QED
  BY <1>1, <1>3, <1>7, CallersSame, Stutter

(* The server reads the command whose turn it is, what is left of a COPY,   *)
(* or Terminate.                                                            *)
LEMMA TakeDoes ==
    ASSUME OrderInv, OrderInv', ServerTake
    PROVE  Does
<1>1. /\ driver = "running" /\ srv.stage # "gone"
      /\ UNCHANGED <<driver, pending, call, reply, inbox, inboxOpen>>
  BY TakeForms DEF OrderInv
<1>2. SameCallers /\ Turn' = Turn
  BY <1>1, CallersSame DEF Turn, Up, InFlight
<1>3. CASE InFlight /\ srv.stage = "idle" /\ toClient' = toClient /\ srv'.stage = "begin"
  <2>1. Alone /\ Alone' /\ Turn # None
    BY <1>1, <1>3, Middle, MiddleNext, CallsAssumption DEF Up, InFlight, Alone
  <2>2. srv'.stage # srv.stage
    BY <1>3
  <2>3. /\ Head(toServer).kind \in CommandKinds \ {"Close"} /\ toServer # <<>>
    BY <1>3, <2>2 DEF ServerTake, OrderInv, TypeOK, Server
  <2>4. Outgoing # {}
    <3>1. toServer \in Seq(Batches) /\ Len(toServer) \in Nat
      BY DEF OrderInv, TypeOK
    <3>2. Head(toServer) = toServer[1] /\ Len(toServer) >= 1
      BY <2>3, <3>1, TailIsSeq
    <3>3. 1 \in 1..Len(toServer)
      BY <3>1, <3>2
    <3>4. ~Trailing(toServer[1])
      BY <2>3, <3>2 DEF Trailing, CopyBatch, CommandKinds
    <3>5. toServer[1] \in Batches
      BY <3>1, <3>3
    <3>6. toServer[1].call \in Calls
      BY <2>3, <3>2, <3>3, <3>5 DEF OrderInv, OneExchange, OwnerInv, Owned, Batches
    <3> QED
      BY <1>1, <3>3, <3>4, <3>6 DEF Outgoing, OnWire, Up
  <2>5. Outgoing = {Turn} /\ Incoming = {} /\ Working = None
    BY <1>3, <2>1, <2>4 DEF Alone
  <2>6. Working' = Turn' /\ Outgoing' = {} /\ Incoming' = {}
    BY <1>3, <2>1 DEF Alone
  <2>7. Q!Serve
    BY <1>2, <2>5, <2>6 DEF Q!Serve, SameCallers
  <2> QED
    BY <2>7 DEF Does, Q!QNext
<1>4. CASE srv.stage = "copy" /\ srv'.stage \in {"copied", "copyFailed"}
  <2>1. InFlight
    BY <1>1, <1>4, ServedIsPending DEF OrderInv
  <2>2. Alone /\ Alone'
    BY <1>1, <2>1, Middle, MiddleNext DEF Up, InFlight
  <2>3. SameExchange
    BY <1>2, <1>4, <2>2 DEF Alone, SameExchange
  <2> QED
    BY <1>2, <2>3, Stutter
<1>5. CASE UNCHANGED <<srv, toClient>>
  <2>1. Working' = Working /\ Incoming' = Incoming
    BY <1>1, <1>5 DEF Working, Incoming, Returning, Up
  <2>2. /\ toServer # <<>> /\ toServer' = Tail(toServer) /\ CopyBatch(Head(toServer))
    BY <1>5 DEF ServerTake, OrderInv, TypeOK, Server, CopyBatch
  <2>3. toServer \in Seq(Batches) /\ Len(toServer) \in Nat
    BY DEF OrderInv, TypeOK
  <2>4. /\ Head(toServer) = toServer[1] /\ Len(toServer) >= 1 /\ Len(toServer') = Len(toServer) - 1
        /\ \A i \in 1..Len(toServer') : toServer'[i] = toServer[i + 1]
    BY <2>2, <2>3, TailIsSeq
  <2>5. /\ \A i \in 1..Len(toServer') : i + 1 \in 1..Len(toServer)
        /\ \A i \in 1..Len(toServer) : i # 1 => i - 1 \in 1..Len(toServer') /\ (i - 1) + 1 = i
    BY <2>3, <2>4
  <2>6. Trailing(toServer[1])
    BY <2>2, <2>4 DEF Trailing
  <2>7. \A c : OnWire(c)' => OnWire(c)
    BY <2>4, <2>5 DEF OnWire
  <2>8. ASSUME NEW c, NEW i \in 1..Len(toServer), toServer[i].call = c, ~Trailing(toServer[i])
        PROVE  OnWire(c)'
    <3>1. i # 1
      BY <2>6, <2>8
    <3>2. i - 1 \in 1..Len(toServer') /\ toServer'[i - 1] = toServer[i]
      BY <2>4, <2>5, <3>1
    <3> QED
      BY <2>8, <3>2 DEF OnWire
  <2>9. \A c : OnWire(c)' <=> OnWire(c)
    BY <2>7, <2>8 DEF OnWire
  <2>10. SameExchange
    BY <1>1, <1>2, <2>1, <2>9 DEF SameExchange, Outgoing, Up
  <2> QED
    BY <1>2, <2>10, Stutter
<1>6. CASE srv'.stage = "gone" /\ toClient' = Append(toClient, Msg("Eof", None, "none"))
  <2> DEFINE m == Msg("Eof", None, "none")
  <2>1. m \in Messages /\ m.type # "ReadyForQuery"
    BY DEF Msg, Messages, MsgTypes, Args, Ends
  <2> HIDE DEF m
  <2>2. \A c : Returning(c)' <=> Returning(c)
    BY <1>6, <2>1, AppendNoReady DEF m, OrderInv
  <2>3. Incoming' = Incoming
    BY <1>1, <2>2 DEF Incoming, Up
  <2>4. Working' = None /\ Outgoing' = {}
    BY <1>6 DEF Working, Outgoing, OrderInv, StillInv, OnWire
  <2>5. Q!Lose
    BY <1>2, <2>3, <2>4 DEF Q!Lose, SameCallers
  <2> QED
    BY <2>5 DEF Does, Q!QNext
<1> QED
  BY <1>3, <1>4, <1>5, <1>6, TakeForms DEF OrderInv

LEMMA ServerDoes ==
    ASSUME OrderInv, OrderInv', ServerEmit \/ ServerCopyAbort \/ ServerReady \/ ServerNotice \/ ServerDie
    PROVE  Does
<1>1. CASE ServerEmit \/ ServerCopyAbort
  <2>1. PICK m \in Messages, stage \in ServerStages : Sends(m, stage)
    BY <1>1, ServerSends DEF OrderInv, WireInv
  <2>2. InFlight
    BY <2>1, ServedIsPending DEF Sends, OrderInv
  <2>3. /\ driver = "running" /\ UNCHANGED <<driver, pending, call, reply, inbox, inboxOpen>>
        /\ srv.stage \notin {"idle", "gone"} /\ srv'.stage \notin {"idle", "gone"}
    BY <2>1 DEF Sends
  <2>4. Alone /\ Alone' /\ Turn' = Turn
    BY <2>2, <2>3, Middle, MiddleNext DEF Up, InFlight, Turn
  <2>5. SameExchange
    BY <2>3, <2>4 DEF Alone, SameExchange
  <2> QED
    BY <2>3, <2>5, CallersSame, Stutter
<1>2. CASE ServerReady
  <2>1. /\ driver = "running" /\ srv.stage \notin {"idle", "gone"} /\ srv'.stage = "idle"
        /\ UNCHANGED <<driver, pending, call, reply, inbox, inboxOpen, toServer>>
    BY <1>2, ReadyEnds DEF OrderInv
  <2>2. InFlight /\ srv.call = pending.call
    BY <2>1, ServedIsPending DEF OrderInv
  <2>3. Alone /\ Alone' /\ Turn' = Turn /\ SameCallers
    BY <2>1, <2>2, Middle, MiddleNext, CallersSame DEF Up, InFlight, Turn
  <2>4. PICK m \in Messages : /\ m.type = "ReadyForQuery" /\ m.of = srv.call
                              /\ toClient' = Append(toClient, m)
    BY <1>2, ReadyEnds DEF OrderInv
  <2>5. Len(toClient') = Len(toClient) + 1 /\ toClient'[Len(toClient) + 1] = m /\ Len(toClient) \in Nat
    BY <2>4, AppendIsSeq DEF OrderInv, TypeOK
  <2>6. Len(toClient) + 1 \in 1..Len(toClient')
    BY <2>5
  <2>7. PICK c \in Calls : c = Turn
    BY <2>3 DEF Alone
  <2>8. c = srv.call /\ c # None
    BY <2>2, <2>3, <2>7, CallsAssumption DEF Alone
  <2>9. Returning(c)'
    BY <2>4, <2>5, <2>6, <2>8 DEF Returning
  <2>10. c \in Incoming'
    BY <2>1, <2>9 DEF Incoming, Up
  <2>11. Incoming' = {Turn} /\ Working' = None
    BY <2>1, <2>3, <2>7, <2>10 DEF Alone
  <2>12. Outgoing' = Outgoing /\ Working = Turn
    BY <2>1, <2>3 DEF Outgoing, OnWire, Up, Alone
  <2>13. Q!Served
    BY <2>3, <2>7, <2>8, <2>11, <2>12 DEF Q!Served, SameCallers
  <2> QED
    BY <2>13 DEF Does, Q!QNext
<1>3. CASE ServerNotice
  <2>1. driver = "running" /\ UNCHANGED <<driver, pending, call, reply, inbox, inboxOpen, toServer, srv>>
    BY <1>3, NoticeSent
  <2>2. PICK m \in Messages : m.type = "Notice" /\ toClient' = Append(toClient, m)
    BY <1>3, NoticeSent
  <2>3. \A c : Returning(c)' <=> Returning(c)
    BY <2>2, AppendNoReady DEF OrderInv
  <2>4. SameExchange
    BY <2>1, <2>3 DEF SameExchange, Turn, Outgoing, Working, Incoming, Up, InFlight, OnWire
  <2> QED
    BY <2>1, <2>4, CallersSame, Stutter
<1>4. CASE ServerDie
  <2>1. /\ driver = "running" /\ srv'.stage = "gone" /\ Len(toServer') = 0
        /\ UNCHANGED <<driver, pending, call, reply, inbox, inboxOpen>>
    BY <1>4, DieCuts DEF OrderInv
  <2>2. 1..Len(toServer') = {}
    BY <2>1
  <2>3. Turn' = Turn /\ Working' = None /\ Outgoing' = {}
    BY <2>1, <2>2 DEF Turn, Working, Outgoing, Up, InFlight, OnWire
  <2>4. Incoming' \subseteq Incoming
    BY <1>4, <2>1, CutNoReady DEF OrderInv, Incoming, Up
  <2>5. \E x : Incoming \subseteq {x}
    BY <2>1, Middle, Boundary DEF Up, Alone, Rest
  <2>6. Incoming' \in {Incoming, {}}
    BY <2>4, <2>5
  <2>7. Q!Lose
    BY <2>1, <2>3, <2>6, CallersSame DEF Q!Lose, SameCallers
  <2> QED
    BY <2>7 DEF Does, Q!QNext
<1> QED
  BY <1>1, <1>2, <1>3, <1>4

LEMMA NextDoes == OrderInv /\ OrderInv' /\ [Next]_vars => [Q!QNext]_(Q!qvars)
<1> SUFFICES ASSUME OrderInv, OrderInv', [Next]_vars PROVE Does
  BY DEF Does
<1>1. CASE Quiescent \/ UNCHANGED vars
  BY <1>1, ExchangeSame, CallersSame, Stutter DEF Quiescent, vars
<1> QED
  BY <1>1, CallersDo, RejectDoes, StartDoes, CloseDoes, DownDoes, FinishDoes, ReadDoes, TakeDoes,
     ServerDoes DEF Next, DriverStep, ServerStep

(* The driver implements CommandQueue (ServesInOrder): whatever is          *)
(* cancelled, rejected or lost, commands are sent in the order in which the *)
(* channel took them, one at a time, each is executed at most once and only *)
(* in its turn, and each is answered once; an answer of success means that  *)
(* its own ReadyForQuery has been read.  What session handles, streams,     *)
(* scopes and the migration runner rely on when they send one command after *)
(* another is this.                                                         *)
THEOREM DriverServesInOrder == Spec => ServesInOrder
<1>1. Init => Q!QInit
  <2> SUFFICES ASSUME Init PROVE Q!QInit
    OBVIOUS
  <2>1. Len(inbox) = 0 /\ Len(toClient) = 0 /\ Len(toServer) = 0
    BY EmptyIsSeq DEF Init
  <2>2. 1..Len(toClient) = {} /\ 1..Len(toServer) = {}
    BY <2>1
  <2>3. Line = <<>>
    <3>1. Line = [i \in 1..0 |-> inbox[i].call]
      BY <2>1 DEF Line
    <3> QED
      BY <3>1
  <2>4. Called = {} /\ Answers = [c \in Calls |-> None] /\ inboxOpen = TRUE
    BY DEF Init, Called, Answers, Said
  <2>5. Turn = None /\ Working = None
    BY DEF Init, Turn, Working, InFlight
  <2>6. Outgoing = {} /\ Incoming = {}
    BY <2>2 DEF Outgoing, Incoming, OnWire, Returning
  <2> QED
    BY <2>3, <2>4, <2>5, <2>6 DEF Q!QInit
<1>2. OrderInv /\ OrderInv' /\ [Next]_vars => [Q!QNext]_(Q!qvars)
  BY NextDoes
<1> QED
  BY <1>1, <1>2, OrderInvariant, PTL DEF Spec, ServesInOrder, Q!QSpec
=============================================================================
