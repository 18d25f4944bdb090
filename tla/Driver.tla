------------------------------- MODULE Driver -------------------------------
(***************************************************************************)
(* The driver task of a babar session                                      *)
(* (crates/core/src/session/driver.rs) with the callers that send it       *)
(* commands over a bounded channel and the PostgreSQL server at the other  *)
(* end of its socket.                                                      *)
(*                                                                         *)
(* One call of the public API sends at most one Command and waits on its   *)
(* oneshot.  SessionCalls go through &Session, HandleCalls through a       *)
(* cloned command sender (a prepared statement, a row stream, the cleanup  *)
(* task of a transaction guard) and may outlive the Session.               *)
(*                                                                         *)
(* The server is external: it answers a batch with any message sequence    *)
(* that the wire protocol allows for it, interleaves notices, and may die. *)
(* A row is identified by the call whose statement produced it and its     *)
(* position in its result set, which is all that the properties tell apart.*)
(***************************************************************************)
EXTENDS Integers, Sequences

CONSTANTS
    SessionCalls,    \* calls made through the Session value
    HandleCalls,     \* calls made through cloned senders
    None,            \* absence of a call, a pending command, a reply, an error
    Kinds,           \* the command kinds that callers use
    COMMAND_BUFFER,  \* capacity of the command channel
    TxStatus,        \* transaction status indicators the server reports
    MaxRows,         \* bound: rows per result set
    MaxSets,         \* bound: statements in one simple query
    MaxNotices,      \* bound: unsolicited messages
    CopyViaQuery     \* whether COPY FROM STDIN is sent as an ordinary query

Calls == SessionCalls \cup HandleCalls

(* The variants of enum Command. *)
CommandKinds == {"SimpleQuery", "ExtendedQuery", "CopyIn", "Prepare",
                 "ExecutePrepared", "BindPortal", "ExecutePortal",
                 "ClosePortal", "CloseStatement", "Close"}

ASSUME CallsAssumption == None \notin Calls /\ SessionCalls \cap HandleCalls = {}
ASSUME KindsAssumption == Kinds \subseteq CommandKinds \ {"Close"}
ASSUME StatusAssumption == {"I"} \subseteq TxStatus /\ TxStatus \subseteq {"I", "T", "E"}
ASSUME BufferAssumption == COMMAND_BUFFER \in Nat \ {0}
ASSUME BoundsAssumption ==
    /\ MaxRows \in Nat /\ MaxSets \in Nat \ {0} /\ MaxNotices \in Nat
    /\ CopyViaQuery \in BOOLEAN

VARIABLES
    call,       \* call[c]: what the caller of c is doing
    reply,      \* reply[c]: what the driver put on c's oneshot
    session,    \* the Session value: open, inside close(), or gone
    handles,    \* whether some cloned sender is still alive
    inbox,      \* the command channel
    inboxOpen,  \* FALSE once the receiver closed it
    driver,     \* whether the run loop is still running
    pending,    \* Driver::pending
    txStatus,   \* DriverState::transaction_status
    writer,     \* the write half of the socket
    toServer,   \* frontend batches on their way
    toClient,   \* backend messages on their way, then how the stream ends
    srv,        \* the server's side of the connection
    notices,    \* unsolicited messages sent so far
    served,     \* served[c]: row counts of the result sets sent for c (history)
    faults      \* faults[c]: what is wrong with c, in wire order (history)

callerVars == <<call, session, handles>>
wireVars   == <<toServer, srv, notices, served, faults>>
vars == <<call, reply, session, handles, inbox, inboxOpen, driver, pending,
          txStatus, writer, toServer, toClient, srv, notices, served, faults>>

-----------------------------------------------------------------------------
(* Data *)

Ends == {"Eof", "ReadError"}
MsgTypes == {"Ack", "RowDescription", "NoData", "ParameterDescription",
             "DataRow", "CommandComplete", "EmptyQueryResponse",
             "PortalSuspended", "ErrorResponse", "CopyInResponse",
             "ReadyForQuery", "Notice"} \cup Ends
Args == {"none", "aligned", "misaligned", "binary", "text"} \cup TxStatus
Errors == {"Build", "Closed", "Io", "Server", "ColumnAlignment",
           "NotBinary", "CopyEncode", "NoCommandComplete"}

(* A backend message.  "Ack" stands for ParseComplete, BindComplete and      *)
(* CloseComplete; "aligned" for a column count that equals expected_columns. *)
Messages == {m \in [type : MsgTypes, of : Calls \cup {None}, arg : Args, n : Nat] :
                m.type = "ReadyForQuery" => m.arg \in TxStatus}
Msg(type, of, arg) == [type |-> type, of |-> of, arg |-> arg, n |-> 0]

Rows == [of : Calls \cup {None}, n : Nat]

(* A Command in the channel; the Close that Session::drop sends has no      *)
(* caller.                                                                  *)
Commands == [call : Calls \cup {None}, kind : CommandKinds]

(* What the driver writes in one flush.                                     *)
Batches == [call : Calls \cup {None},
            kind : CommandKinds \cup {"CopyDone", "CopyFail"}]

(* enum Pending: `seen` is the set of messages whose content the variant     *)
(* stores (command_tag, param_oids, row_fields, has_more).                   *)
Pending == [call : Calls \cup {None}, kind : CommandKinds,
            results : Seq(Seq(Rows)), current : Seq(Rows),
            seen : SUBSET Messages, error : Errors \cup {None}]
Fresh(cmd) == [call |-> cmd.call, kind |-> cmd.kind, results |-> <<>>,
               current |-> <<>>, seen |-> {}, error |-> None]

Replies == [ok : BOOLEAN, kind : CommandKinds \cup {None}, results : Seq(Seq(Rows)),
            seen : SUBSET Messages, error : Errors \cup {None}]
Ok(kind, results, seen) ==
    [ok |-> TRUE, kind |-> kind, results |-> results, seen |-> seen, error |-> None]
Err(e) ==
    [ok |-> FALSE, kind |-> None, results |-> <<>>, seen |-> {}, error |-> e]

ASSUME NoneAssumption == None \notin Pending /\ None \notin Replies /\ None \notin Errors

ServerStages == {"idle", "begin", "describe", "params", "rows", "exec", "copy",
                 "copied", "copyFailed", "ready", "gone"}
Server == [stage : ServerStages, call : Calls \cup {None}, kind : CommandKinds,
           rows : Nat, sets : Nat, tx : TxStatus]

Init ==
    /\ call = [c \in Calls |-> "idle"]
    /\ reply = [c \in Calls |-> None]
    /\ session = "open"
    /\ handles \in BOOLEAN
    /\ inbox = <<>>
    /\ inboxOpen = TRUE
    /\ driver = "running"
    /\ pending = None
    /\ txStatus = "I"
    /\ writer = "open"
    /\ toServer = <<>>
    /\ toClient = <<>>
    /\ srv = [stage |-> "idle", call |-> None, kind |-> "Close",
              rows |-> 0, sets |-> 0, tx |-> "I"]
    /\ notices = 0
    /\ served = [c \in Calls |-> <<>>]
    /\ faults = [c \in Calls |-> <<>>]

-----------------------------------------------------------------------------
(* Callers *)

(* Room in the bounded channel.                                             *)
HasRoom == Len(inbox) < COMMAND_BUFFER

(* tx.send(command).await: waits for room, fails at once on a closed        *)
(* channel.                                                                 *)
Enqueue(c, k, doing) ==
    /\ call[c] = "idle"
    /\ call' = [call EXCEPT ![c] = doing]
    /\ \/ /\ inboxOpen /\ HasRoom
          /\ inbox' = Append(inbox, [call |-> c, kind |-> k])
          /\ UNCHANGED reply
       \/ /\ ~inboxOpen
          /\ reply' = [reply EXCEPT ![c] = Err("Closed")]
          /\ UNCHANGED inbox

Send(c, k) ==
    /\ c \in SessionCalls => session = "open"
    /\ c \in HandleCalls => handles
    /\ Enqueue(c, k, "waiting")
    /\ UNCHANGED <<session, handles, inboxOpen, driver, pending, txStatus,
                   writer, toClient, wireVars>>

(* A caller drops the future of a call: only the oneshot receiver goes.     *)
Cancel(c) ==
    /\ call[c] \in {"waiting", "closing"} /\ reply[c] = None
    /\ call' = [call EXCEPT ![c] = "cancelled"]
    /\ UNCHANGED <<reply, session, handles, inbox, inboxOpen, driver, pending,
                   txStatus, writer, toClient, wireVars>>

(* No call borrows the Session any more: close(self) and drop need that.    *)
Unborrowed == \A c \in SessionCalls : call[c] = "waiting" => reply[c] # None

(* Session::close sends Close and waits for its reply.                      *)
SessionClose(c) ==
    /\ session = "open" /\ Unborrowed
    /\ c \in SessionCalls
    /\ session' = "closing"
    /\ Enqueue(c, "Close", "closing")
    /\ UNCHANGED <<handles, inboxOpen, driver, pending, txStatus, writer,
                   toClient, wireVars>>

(* close() returns (its reply, or its 5 second timeout): `closed` is set,   *)
(* so the Session's drop sends nothing.                                     *)
SessionCloseReturns ==
    /\ session = "closing"
    /\ \E c \in SessionCalls : call[c] = "closing"
    /\ session' = "gone"
    /\ UNCHANGED <<call, reply, handles, inbox, inboxOpen, driver, pending,
                   txStatus, writer, toClient, wireVars>>

(* Session::drop, also of a close() that was itself dropped: try_send(Close)*)
(* does nothing on a full or closed channel.                                *)
SessionDrop ==
    /\ \/ session = "open" /\ Unborrowed
       \/ session = "closing" /\ \A c \in SessionCalls : call[c] # "closing"
    /\ session' = "gone"
    /\ inbox' = IF inboxOpen /\ HasRoom
                THEN Append(inbox, [call |-> None, kind |-> "Close"])
                ELSE inbox
    /\ UNCHANGED <<call, reply, handles, inboxOpen, driver, pending, txStatus,
                   writer, toClient, wireVars>>

(* The last prepared handle, stream or cleanup task goes away.              *)
HandlesDrop ==
    /\ handles
    /\ \A c \in HandleCalls : call[c] = "waiting" => reply[c] # None
    /\ handles' = FALSE
    /\ UNCHANGED <<call, reply, session, inbox, inboxOpen, driver, pending,
                   txStatus, writer, toClient, wireVars>>

-----------------------------------------------------------------------------
(* The driver task *)

(* Put result r on the oneshot of call c; the Close of Session::drop has    *)
(* none.                                                                    *)
Answer(replies, c, r) ==
    IF c = None THEN replies ELSE [replies EXCEPT ![c] = r]

(* inbox.close(), then fail_command for everything that is still queued.    *)
(* CloseInboxForgotten: the channel is left open and undrained.             *)
CloseInboxForgotten(queue, replies) ==
    inbox' = queue /\ reply' = replies /\ UNCHANGED inboxOpen
CloseInbox(queue, replies) ==
    /\ inboxOpen' = FALSE
    /\ inbox' = <<>>
    /\ reply' = [c \in Calls |-> IF \E i \in 1..Len(queue) : queue[i].call = c
                                 THEN Err("Closed") ELSE replies[c]]

(* fail_pending(err) and the break out of the run loop: the task ends and   *)
(* drops both socket halves.                                                *)
FailPending(e) ==
    /\ driver' = "exited"
    /\ pending' = None
    /\ CloseInbox(inbox, IF pending = None THEN reply
                         ELSE Answer(reply, pending.call, Err(e)))

(* inbox.recv(), polled only while nothing is pending.  RecvUnguarded: the  *)
(* next command is started while one is in flight.                          *)
RecvUnguarded == driver = "running" /\ inbox # <<>>
Recv == driver = "running" /\ pending = None /\ inbox # <<>>

(* start: the frontend encoder rejects the command (an embedded NUL, a      *)
(* length that does not fit); nothing is written.                           *)
StartBuildError ==
    /\ Recv
    /\ Head(inbox).kind # "Close"
    /\ inbox' = Tail(inbox)
    /\ reply' = Answer(reply, Head(inbox).call, Err("Build"))
    /\ UNCHANGED <<callerVars, inboxOpen, driver, pending, txStatus, writer,
                   toClient, wireVars>>

(* Flush of a batch that the socket accepts.  Writes into a socket whose    *)
(* peer is gone may still be accepted, and are lost.                        *)
FlushOk(batch) ==
    /\ writer = "open"
    /\ toServer' = IF srv.stage = "gone" THEN toServer ELSE Append(toServer, batch)

(* Flush that fails: the peer is gone, and every later write fails too.     *)
FlushFails == writer = "broken" \/ (writer = "open" /\ srv.stage = "gone")

StartFlushed ==
    /\ Recv
    /\ Head(inbox).kind # "Close"
    /\ FlushOk(Head(inbox))
    /\ inbox' = Tail(inbox)
    /\ pending' = Fresh(Head(inbox))
    /\ UNCHANGED <<callerVars, reply, inboxOpen, driver, txStatus, writer,
                   toClient, srv, notices, served, faults>>

(* start returns the error, run only logs it: the loop goes on with nothing *)
(* pending.  The server may have answered part of what was written.         *)
StartFlushError ==
    /\ Recv
    /\ Head(inbox).kind # "Close"
    /\ FlushFails
    /\ writer' = "broken"
    /\ inbox' = Tail(inbox)
    /\ reply' = Answer(reply, Head(inbox).call, Err("Closed"))
    /\ \/ UNCHANGED toClient
       \/ writer = "open" /\ toClient' = <<Msg("Ack", Head(inbox).call, "none")>> \o toClient
    /\ UNCHANGED <<callerVars, inboxOpen, driver, pending, txStatus, wireVars>>

(* start(Close): Terminate, shutdown of the write half, the reply, then the *)
(* channel is closed and drained.  The Close sentinel stays pending and the *)
(* loop goes on.                                                            *)
StartClose ==
    /\ Recv
    /\ Head(inbox).kind = "Close"
    /\ \E r \in {Ok("Close", <<>>, {}), Err("Io")} :
          /\ IF r.ok THEN FlushOk(Head(inbox)) ELSE FlushFails /\ UNCHANGED toServer
          /\ CloseInbox(Tail(inbox), Answer(reply, Head(inbox).call, r))
    /\ writer' = "shut"
    /\ pending' = Fresh([call |-> None, kind |-> "Close"])
    /\ UNCHANGED <<callerVars, driver, txStatus, toClient, srv, notices,
                   served, faults>>

(* ShutdownWithoutBreak: the loop goes on after Terminate.                  *)
ShutdownWithoutBreak ==
    /\ driver = "running" /\ pending = None /\ inbox = <<>> /\ inboxOpen
    /\ session = "gone" /\ ~handles
    /\ writer' = "shut"
    /\ UNCHANGED <<callerVars, reply, inbox, inboxOpen, driver, pending,
                   txStatus, toClient, wireVars>>

(* inbox.recv() returns None: every sender is gone.  shutdown() writes      *)
(* Terminate, ignoring errors, and the loop breaks.                         *)
Shutdown ==
    /\ driver = "running" /\ pending = None
    /\ inbox = <<>> /\ inboxOpen
    /\ session = "gone" /\ ~handles
    /\ driver' = "exited"
    /\ inboxOpen' = FALSE
    /\ writer' = "shut"
    /\ toServer' = IF srv.stage = "gone" \/ writer # "open" THEN toServer
                   ELSE Append(toServer, [call |-> None, kind |-> "Close"])
    /\ UNCHANGED <<callerVars, reply, inbox, pending, txStatus, toClient, srv,
                   notices, served, faults>>

(* reader.next() yields a message of one of these types.                    *)
Read(types) ==
    /\ driver = "running"
    /\ toClient # <<>>
    /\ Head(toClient).type \in types
    /\ toClient' = Tail(toClient)

(* error.take().or(e): the first error stays.                               *)
FirstError(p, e) == [p EXCEPT !.error = IF @ = None THEN e ELSE @]

(* The message types whose content each variant of Pending stores.          *)
Stored(kind) ==
    CASE kind \in {"ExtendedQuery", "ExecutePrepared", "CopyIn"} -> {"CommandComplete"}
      [] kind = "Prepare" -> {"ParameterDescription", "RowDescription", "NoData"}
      [] kind = "ExecutePortal" -> {"PortalSuspended"}
      [] OTHER -> {}

RowKinds == {"SimpleQuery", "ExtendedQuery", "ExecutePrepared", "ExecutePortal"}

(* results.push(mem::take(current_rows)).  EndSetKeepsRows: the rows stay   *)
(* behind for the next statement.                                           *)
EndSetKeepsRows(p) == [p EXCEPT !.results = Append(@, p.current)]
EndSet(p) == [p EXCEPT !.results = Append(@, p.current), !.current = <<>>]

(* The arms of on_message that update the pending command without           *)
(* answering it.  Everything else is ignored, with a warning or without.    *)
Absorb(p, m) ==
    CASE m.type = "DataRow" /\ p.kind \in RowKinds ->
            [p EXCEPT !.current = Append(@, [of |-> m.of, n |-> m.n])]
      [] m.type = "CommandComplete" /\ p.kind = "SimpleQuery" -> EndSet(p)
      [] m.type = "EmptyQueryResponse" /\ p.kind = "SimpleQuery" ->
            [p EXCEPT !.results = Append(@, <<>>)]
      [] m.type = "ErrorResponse" /\ p.kind = "SimpleQuery" ->
            [p EXCEPT !.error = "Server"]
      [] m.type = "ErrorResponse" /\ p.kind \notin {"SimpleQuery", "Close"} ->
            FirstError(p, "Server")
      [] /\ m.type \in {"RowDescription", "NoData"} /\ m.arg = "misaligned"
         /\ p.kind \in {"ExtendedQuery", "ExecutePrepared"} ->
            FirstError(p, "ColumnAlignment")
      [] m.type \in Stored(p.kind) -> [p EXCEPT !.seen = @ \cup {m}]
      [] OTHER -> p

(* Any other message: recorded in the pending command, or ignored.          *)
OnMessage ==
    /\ Read(MsgTypes \ (Ends \cup {"ReadyForQuery", "CopyInResponse"}))
    /\ pending' = IF pending = None THEN None ELSE Absorb(pending, Head(toClient))
    /\ UNCHANGED <<callerVars, reply, inbox, inboxOpen, driver, txStatus,
                   writer, wireVars>>

(* What the pending command is answered with at ReadyForQuery.              *)
(* OutcomePartial: results that arrived before an error count as success.   *)
OutcomePartial(p) ==
    IF p.error # None /\ p.results = <<>> THEN Err(p.error)
    ELSE Ok(p.kind, IF p.kind = "SimpleQuery" THEN p.results ELSE <<p.current>>, p.seen)
Outcome(p) ==
    IF p.error # None THEN Err(p.error)
    ELSE IF p.kind = "CopyIn" /\ p.seen = {} THEN Err("NoCommandComplete")
    ELSE Ok(p.kind, IF p.kind = "SimpleQuery" THEN p.results ELSE <<p.current>>, p.seen)

(* OnReadyForQueryStatusWhenOk: the status is stored only with a success.   *)
OnReadyForQueryStatusWhenOk ==
    /\ Read({"ReadyForQuery"})
    /\ IF pending = None \/ pending.kind = "Close"
       THEN UNCHANGED <<reply, pending, txStatus>>
       ELSE /\ reply' = Answer(reply, pending.call, Outcome(pending))
            /\ pending' = None
            /\ txStatus' = IF pending.error = None THEN Head(toClient).arg ELSE txStatus
    /\ UNCHANGED <<callerVars, inbox, inboxOpen, driver, writer, wireVars>>

(* ReadyForQuery: record the transaction status, answer the pending command *)
(* and return to idle.  The Close sentinel ignores it, like no command.     *)
OnReadyForQuery ==
    /\ Read({"ReadyForQuery"})
    /\ txStatus' = Head(toClient).arg
    /\ IF pending = None \/ pending.kind = "Close"
       THEN UNCHANGED <<reply, pending>>
       ELSE /\ reply' = Answer(reply, pending.call, Outcome(pending))
            /\ pending' = None
    /\ UNCHANGED <<callerVars, inbox, inboxOpen, driver, writer, wireVars>>

CopyInPending == pending # None /\ pending.kind = "CopyIn"

(* CopyInResponse for a command that is not a CopyIn: a warning only.       *)
OnCopyInResponseIgnored ==
    /\ Read({"CopyInResponse"})
    /\ ~CopyInPending
    /\ UNCHANGED <<callerVars, reply, inbox, inboxOpen, driver, pending,
                   txStatus, writer, wireVars>>

(* CopyInResponse for a CopyIn: binary data is streamed whole, ending with  *)
(* CopyDone; a chunk that cannot be framed, or a text format, makes it      *)
(* CopyFail and is remembered as the error.                                 *)
OnCopyInResponse ==
    /\ Read({"CopyInResponse"})
    /\ CopyInPending
    /\ \/ /\ Head(toClient).arg = "binary"
          /\ FlushOk([call |-> pending.call, kind |-> "CopyDone"])
          /\ UNCHANGED pending
       \/ /\ FlushOk([call |-> pending.call, kind |-> "CopyFail"])
          /\ pending' = FirstError(pending, IF Head(toClient).arg = "binary"
                                            THEN "CopyEncode" ELSE "NotBinary")
    /\ UNCHANGED <<callerVars, reply, inbox, inboxOpen, driver, txStatus,
                   writer, srv, notices, served, faults>>

(* on_message returns the error of a failed COPY write: the loop ends.      *)
OnCopyWriteError ==
    /\ Read({"CopyInResponse"})
    /\ CopyInPending
    /\ FlushFails
    /\ FailPending("Io")
    /\ writer' = "broken"
    /\ UNCHANGED <<callerVars, txStatus, wireVars>>

(* End of stream, or an error of the reader (I/O, or an undecodable frame;  *)
(* "Io" stands for both).                                                   *)
OnReaderEnd ==
    /\ Read(Ends)
    /\ FailPending(IF Head(toClient).type = "Eof" THEN "Closed" ELSE "Io")
    /\ UNCHANGED <<callerVars, txStatus, writer, wireVars>>

-----------------------------------------------------------------------------
(* The server (external): what the wire protocol lets it send next, as      *)
(* a message type, its argument and the next stage.                         *)

Emit(type, arg, next) == [type |-> type, arg |-> arg, next |-> next]

Failure == Emit("ErrorResponse", "none", "ready")
Complete == Emit("CommandComplete", "none", "ready")
Empty == Emit("EmptyQueryResponse", "none", "ready")
CopyStart(format) == Emit("CopyInResponse", format, "copy")
CopyByQuery == IF CopyViaQuery THEN {CopyStart("binary")} ELSE {}

RowsEmits(kind) ==
    {Failure, Emit("DataRow", "none", "rows")} \cup
    CASE kind = "SimpleQuery" -> {Emit("CommandComplete", "none", "begin")}
      [] kind = "ExecutePortal" -> {Complete, Emit("PortalSuspended", "none", "ready")}
      [] OTHER -> {Complete}

BeginEmits(kind) ==
    {Failure} \cup
    CASE kind = "SimpleQuery" ->
            {Emit("RowDescription", "none", "rows"), Emit("CommandComplete", "none", "begin")}
            \cup (IF srv.sets = 0 THEN {Empty} ELSE {}) \cup CopyByQuery
      [] kind = "ExtendedQuery" -> {Emit("Ack", "none", "describe")}
      [] kind = "CopyIn" -> {CopyStart("binary"), CopyStart("text"), Complete, Empty}
      [] kind = "Prepare" -> {Emit("Ack", "none", "params")}
      [] kind = "ExecutePrepared" -> {Emit("Ack", "none", "rows")}
      [] kind = "ExecutePortal" -> RowsEmits(kind)
      [] OTHER -> {Emit("Ack", "none", "ready")}

DescribeEmits(kind) ==
    IF kind = "Prepare"
    THEN {Emit("RowDescription", "none", "ready"), Emit("NoData", "none", "ready")}
    ELSE {Emit("RowDescription", "aligned", "rows"), Emit("RowDescription", "misaligned", "rows"),
          Emit("NoData", "aligned", "exec"), Emit("NoData", "misaligned", "exec")}

Emits ==
    CASE srv.stage = "begin" -> BeginEmits(srv.kind)
      [] srv.stage = "params" -> {Emit("ParameterDescription", "none", "describe")}
      [] srv.stage = "describe" -> DescribeEmits(srv.kind)
      [] srv.stage = "rows" -> RowsEmits(srv.kind)
      [] srv.stage = "exec" -> {Complete, Empty, Failure} \cup CopyByQuery
      [] srv.stage = "copied" -> {Complete, Failure}
      [] srv.stage = "copyFailed" -> {Failure}
      [] OTHER -> {}

(* What a server does after the driver dropped the socket is not observable.*)
Connected == driver = "running" /\ srv.stage # "gone"

serverFrame == <<callerVars, reply, inbox, inboxOpen, driver, pending,
                 txStatus, writer>>

(* The server reads a batch.  A CopyDone or CopyFail that arrives after it  *)
(* left copy mode is discarded; Terminate makes it close the connection.    *)
ServerTake ==
    /\ Connected
    /\ toServer # <<>>
    /\ toServer' = Tail(toServer)
    /\ LET b == Head(toServer) IN
       \/ /\ srv.stage = "idle" /\ b.kind \in CommandKinds \ {"Close"}
          /\ srv' = [srv EXCEPT !.stage = "begin", !.call = b.call, !.kind = b.kind,
                                !.rows = 0, !.sets = 0]
          /\ UNCHANGED toClient
       \/ /\ srv.stage = "copy" /\ b.kind \in {"CopyDone", "CopyFail"}
          /\ srv' = [srv EXCEPT !.stage = IF b.kind = "CopyDone" THEN "copied" ELSE "copyFailed"]
          /\ UNCHANGED toClient
       \/ /\ srv.stage = "idle" /\ b.kind \in {"CopyDone", "CopyFail"}
          /\ UNCHANGED <<srv, toClient>>
       \/ /\ srv.stage = "idle" /\ b.kind = "Close"
          /\ srv' = [srv EXCEPT !.stage = "gone", !.call = None]
          /\ toClient' = Append(toClient, Msg("Eof", None, "none"))
    /\ UNCHANGED <<serverFrame, notices, served, faults>>

(* The server sends its next message.  History: a message that ends a       *)
(* result set adds its row count to served, and faults records what makes   *)
(* the command fail.                                                        *)
Deliver(m, stage) ==
    LET c == srv.call
        endsSet == m.type \in {"CommandComplete", "EmptyQueryResponse", "PortalSuspended"}
        fault == CASE m.type = "ErrorResponse" -> <<"Server">>
                   [] m.arg = "misaligned" -> <<"ColumnAlignment">>
                   [] m.arg = "text" -> <<"NotBinary">>
                   [] OTHER -> <<>>
    IN  /\ toClient' = Append(toClient, m)
        /\ srv' = [srv EXCEPT !.stage = stage,
                              !.rows = IF m.type = "DataRow" THEN @ + 1
                                       ELSE IF endsSet THEN 0 ELSE @,
                              !.sets = IF endsSet THEN @ + 1 ELSE @]
        /\ served' = [served EXCEPT ![c] = IF endsSet THEN Append(@, srv.rows) ELSE @]
        /\ faults' = [faults EXCEPT ![c] = @ \o fault]

ServerEmit ==
    /\ Connected
    /\ \E e \in Emits :
          /\ e.type = "DataRow" => srv.rows < MaxRows
          /\ srv.stage = "begin" /\ srv.kind = "SimpleQuery" => srv.sets < MaxSets
          /\ Deliver([Msg(e.type, srv.call, e.arg) EXCEPT !.n = IF e.type = "DataRow"
                                                             THEN srv.rows + 1 ELSE 0],
                     e.next)
    /\ UNCHANGED <<serverFrame, toServer, notices>>

(* A COPY fails on the server while it waits for data (a statement timeout).*)
ServerCopyAbort ==
    /\ Connected /\ srv.stage = "copy"
    /\ Deliver(Msg("ErrorResponse", srv.call, "none"), "ready")
    /\ UNCHANGED <<serverFrame, toServer, notices>>

(* ReadyForQuery ends the exchange and reports the transaction status.      *)
ServerReady ==
    /\ Connected
    /\ \/ srv.stage = "ready"
       \/ srv.stage = "begin" /\ srv.kind = "SimpleQuery" /\ srv.sets > 0
    /\ \E s \in TxStatus :
          /\ toClient' = Append(toClient, Msg("ReadyForQuery", srv.call, s))
          /\ srv' = [srv EXCEPT !.stage = "idle", !.call = None, !.tx = s]
    /\ UNCHANGED <<serverFrame, toServer, notices, served, faults>>

(* NoticeResponse, ParameterStatus or a message the codec does not know.    *)
ServerNotice ==
    /\ Connected /\ notices < MaxNotices
    /\ notices' = notices + 1
    /\ toClient' = Append(toClient, Msg("Notice", None, "none"))
    /\ UNCHANGED <<serverFrame, toServer, srv, served, faults>>

(* The connection is lost: a reset may cut off what was already sent; an    *)
(* orderly end, perhaps after a FATAL error, comes behind all of it.        *)
ServerDie ==
    /\ Connected
    /\ \/ \E k \in 0..Len(toClient) :
             toClient' = SubSeq(toClient, 1, k) \o <<Msg("ReadError", None, "none")>>
       \/ \E end \in Ends, fatal \in {<<>>, <<Msg("ErrorResponse", None, "none")>>} :
             toClient' = toClient \o fatal \o <<Msg(end, None, "none")>>
    /\ toServer' = <<>>
    /\ srv' = [srv EXCEPT !.stage = "gone", !.call = None]
    /\ UNCHANGED <<serverFrame, notices, served, faults>>

-----------------------------------------------------------------------------
Callers ==
    \/ \E c \in Calls : Cancel(c) \/ SessionClose(c) \/ \E k \in Kinds : Send(c, k)
    \/ SessionCloseReturns \/ SessionDrop \/ HandlesDrop

DriverStep ==
    \/ StartBuildError \/ StartFlushed \/ StartFlushError \/ StartClose \/ Shutdown
    \/ OnMessage \/ OnReadyForQuery \/ OnCopyInResponseIgnored \/ OnCopyInResponse
    \/ OnCopyWriteError \/ OnReaderEnd

ServerStep == ServerTake \/ ServerEmit \/ ServerReady

(* Nothing is left to do until a caller or the network acts.                *)
Quiescent ==
    /\ driver = "exited" \/ (pending = None /\ inbox = <<>>)
    /\ UNCHANGED vars

Next == Callers \/ DriverStep \/ ServerStep
        \/ ServerCopyAbort \/ ServerNotice \/ ServerDie \/ Quiescent

Spec == Init /\ [][Next]_vars

(* tokio keeps polling a task that is ready, and a live server works off    *)
(* what it received.  Neither callers nor failures are fair.                *)
FairSpec == Spec /\ WF_vars(DriverStep) /\ WF_vars(ServerStep)

-----------------------------------------------------------------------------
(* Properties *)

(* The variables hold values of their types, in particular the channel      *)
(* never exceeds its capacity.                                              *)
TypeOK ==
    /\ call \in [Calls -> {"idle", "waiting", "closing", "cancelled"}]
    /\ reply \in [Calls -> Replies \cup {None}]
    /\ session \in {"open", "closing", "gone"} /\ handles \in BOOLEAN
    /\ inbox \in Seq(Commands) /\ Len(inbox) <= COMMAND_BUFFER
    /\ inboxOpen \in BOOLEAN
    /\ driver \in {"running", "exited"}
    /\ pending \in Pending \cup {None}
    /\ txStatus \in TxStatus
    /\ writer \in {"open", "broken", "shut"}
    /\ toServer \in Seq(Batches)
    /\ toClient \in Seq(Messages)
    /\ srv \in Server
    /\ notices \in 0..MaxNotices
    /\ served \in [Calls -> Seq(Nat)]
    /\ faults \in [Calls -> Seq(Errors)]

OwnRows(rows, c) == \A j \in 1..Len(rows) : rows[j].of = c

(* A successful reply holds only rows, tags and descriptions that the       *)
(* server sent for that very command: no response is ever matched to the    *)
(* wrong caller, whatever was cancelled, rejected or half written before.   *)
ReplyIsOwn ==
    \A c \in Calls : reply[c] # None /\ reply[c].ok =>
        /\ \A m \in reply[c].seen : m.of = c
        /\ \A i \in 1..Len(reply[c].results) : OwnRows(reply[c].results[i], c)

(* A successful query reply is exactly what the server sent: every result   *)
(* set, every row, in order, nothing lost, doubled or merged between the    *)
(* statements of one simple query.                                          *)
ReplyIsComplete ==
    \A c \in Calls : reply[c] # None /\ reply[c].ok /\ reply[c].kind \in RowKinds =>
        reply[c].results =
            [i \in 1..Len(served[c]) |-> [j \in 1..served[c][i] |-> [of |-> c, n |-> j]]]

(* A command that the server or the column check found wrong is never       *)
(* answered with success, and the error reported is the first one.          *)
FirstFaultReported ==
    \A c \in Calls : reply[c] # None =>
        /\ reply[c].ok => faults[c] = <<>>
        /\ reply[c].error \in {"Server", "ColumnAlignment", "NotBinary"} =>
              faults[c] # <<>> /\ reply[c].error = Head(faults[c])

(* "The next command after the cancelled one starts from a known Idle       *)
(* state": while nothing is pending on a usable connection, the server is   *)
(* idle and no byte of an exchange is under way, except the CopyDone or     *)
(* CopyFail that crossed a server-side failure of the same COPY.            *)
CleanBoundary ==
    driver = "running" /\ pending = None /\ writer = "open" /\ srv.stage # "gone" =>
        /\ srv.stage = "idle"
        /\ \A i \in 1..Len(toServer) : toServer[i].kind \in {"CopyDone", "CopyFail"}
        /\ \A i \in 1..Len(toClient) : toClient[i].of = None

(* Between commands the atomic transaction status is the server's own, so   *)
(* what the pool and the transaction scopes read there is not stale.        *)
IdleStatusFresh ==
    driver = "running" /\ pending = None /\ writer = "open" /\ srv.stage # "gone" =>
        txStatus = srv.tx

(* The inductive invariant behind the four invariants above.                *)

InFlight == pending # None /\ pending.kind # "Close"
CopyBatch(b) == b.kind \in {"CopyDone", "CopyFail"}
Unsolicited == {"Notice", "ErrorResponse"} \cup Ends

(* Commands, and what is sent for them, carry the call they belong to.      *)
Owned(queue) == \A i \in 1..Len(queue) : queue[i].kind # "Close" => queue[i].call # None
OwnerInv ==
    /\ Owned(inbox) /\ Owned(toServer)
    /\ srv.stage \notin {"idle", "gone"} => srv.call # None
    /\ InFlight => pending.call # None
    /\ \A i \in 1..Len(toClient) : toClient[i].of = None => toClient[i].type \in Unsolicited

(* Where the write half can be while the loop runs.                         *)
WriterInv ==
    driver = "running" =>
        /\ InFlight => writer = "open"
        /\ pending = None => writer \in {"open", "broken"}
        /\ writer = "broken" => srv.stage = "gone"

(* What is left to read belongs to the pending command, and nothing of it   *)
(* comes after its ReadyForQuery.                                           *)
StreamInv ==
    driver = "running" =>
        /\ pending = None /\ writer = "open" =>
              \A i \in 1..Len(toClient) : toClient[i].of = None
        /\ InFlight =>
              /\ \A i \in 1..Len(toClient) : toClient[i].of \in {None, pending.call}
              /\ \A i, j \in 1..Len(toClient) :
                    i < j /\ toClient[i].type = "ReadyForQuery" => toClient[j].of = None

(* An exchange is either written and unread, being served, or answered.     *)
Written ==
    /\ srv.stage = "idle"
    /\ toServer # <<>>
    /\ toServer[Len(toServer)] = [call |-> pending.call, kind |-> pending.kind]
    /\ \A i \in 1..(Len(toServer) - 1) : CopyBatch(toServer[i])
    /\ \A i \in 1..Len(toClient) : toClient[i].of = None
Serving ==
    /\ srv.stage # "idle"
    /\ srv.call = pending.call
    /\ \A i \in 1..Len(toServer) : CopyBatch(toServer[i])
    /\ \A i \in 1..Len(toClient) : toClient[i].type # "ReadyForQuery"
Answered ==
    /\ srv.stage = "idle"
    /\ \A i \in 1..Len(toServer) : CopyBatch(toServer[i])
    /\ \E k \in 1..Len(toClient) :
          toClient[k].type = "ReadyForQuery" /\ toClient[k].arg = srv.tx

ExchangeInv ==
    driver = "running" /\ srv.stage # "gone" =>
        /\ pending = None => /\ srv.stage = "idle"
                             /\ \A i \in 1..Len(toServer) : CopyBatch(toServer[i])
                             /\ txStatus = srv.tx
        /\ InFlight => Written \/ Serving \/ Answered

(* What the pending command has collected is its own.                       *)
PendingInv ==
    InFlight =>
        /\ \A m \in pending.seen : m.of = pending.call
        /\ OwnRows(pending.current, pending.call)
        /\ \A i \in 1..Len(pending.results) : OwnRows(pending.results[i], pending.call)

(* At most one exchange is under way; it belongs to the pending command and *)
(* to nobody else, from the write to the ReadyForQuery that answers it.     *)
OneExchange ==
    OwnerInv /\ WriterInv /\ StreamInv /\ ExchangeInv /\ PendingInv

(* What the callers see of all this is CommandQueue.  Behind its exit the   *)
(* driver has dropped the socket, and nothing is under way.                 *)
Up == driver = "running"
Said(r) == IF r = None THEN None ELSE IF r.ok THEN "ok" ELSE "err"
Trailing(b) == CopyBatch(b) \/ b.kind = "Close"
OnWire(c) == \E i \in 1..Len(toServer) : toServer[i].call = c /\ ~Trailing(toServer[i])
Returning(c) == \E i \in 1..Len(toClient) :
                   toClient[i].of = c /\ toClient[i].type = "ReadyForQuery"

Called == {c \in Calls : call[c] # "idle"}
Answers == [c \in Calls |-> Said(reply[c])]
Line == [i \in 1..Len(inbox) |-> inbox[i].call]
Turn == IF Up /\ InFlight THEN pending.call ELSE None
Outgoing == {c \in Calls : Up /\ OnWire(c)}
Working == IF Up /\ srv.stage \notin {"idle", "gone"} THEN srv.call ELSE None
Incoming == {c \in Calls : Up /\ Returning(c)}

Q == INSTANCE CommandQueue WITH
        Callers <- Calls, Capacity <- COMMAND_BUFFER,
        asked <- Called, answer <- Answers, queue <- Line, open <- inboxOpen,
        turn <- Turn, wire <- Outgoing, working <- Working, complete <- Incoming

(* Callers are served in order: every step of callers, driver and server is *)
(* a step of CommandQueue or none, so each command is sent in its turn,     *)
(* executed at most once and answered once, with success only when its own  *)
(* ReadyForQuery has been read.                                             *)
ServesInOrder == Q!QSpec

(* A COPY FROM STDIN that came as a query: the driver ignored the server's  *)
(* CopyInResponse and sends neither data nor CopyFail, the server waits for *)
(* them, and behind the pending query no other command is read.             *)
CopyStarved == srv.stage = "copy" /\ srv.kind # "CopyIn"

(* Every command that entered the channel is answered: with a result, an    *)
(* error, or Closed when the connection or the driver goes away first.  The *)
(* exception is a connection that a COPY FROM STDIN sent as a query blocks  *)
(* for ever: its caller and all behind it wait until the connection fails.  *)
EveryCallAnswered ==
    (\A c \in Calls : call[c] # "idle" ~> reply[c] # None) \/ <>[]CopyStarved

(* Once the Session and every cloned sender are gone the driver task ends,  *)
(* even if the channel was full when Session::drop tried to send Close.     *)
(* Behind such a COPY it never reads the channel again and does not.        *)
DriverEnds == (session = "gone" /\ ~handles ~> driver = "exited") \/ <>[]CopyStarved
=============================================================================
