--------------------------- MODULE RowStreamProofs ---------------------------
(***************************************************************************)
(* Proofs about row streams, for every number of streams on a session,     *)
(* every result, every batch size, every row that does not decode, every   *)
(* number of other calls and of dropped futures.                           *)
(***************************************************************************)
EXTENDS RowStream, SequenceTheorems, TLAPS

-----------------------------------------------------------------------------
(* The inductive invariant *)

CallOps == {"prepare", "undo stmt", "begin", "bind", "fail stmt", "fail commit"}
TaskOps == {"execute", "close portal", "close stmt", "commit"}
Ops == CallOps \cup TaskOps
Fetching == {"check", "execute", "deliver"}
Closing == {"close portal", "close stmt", "commit", "done"}
Places == Ops \cup {"idle", "check", "deliver", "done", "failed", "dropped"}
Items == [kind : {"row", "err"}, n : Nat]
Replies == [kind : {"none", "ok", "err"}, rows : Seq(Nat), more : BOOLEAN]
Commands == [stream : Streams, op : Ops]

Typed ==
    /\ pc \in [Streams -> Places] /\ reply \in [Streams -> Replies] /\ queue \in Seq(Commands)
    /\ batch \in [Streams -> Seq(Nat)] /\ more \in [Streams -> BOOLEAN]
    /\ buffer \in [Streams -> Seq(Items)] /\ got \in [Streams -> Seq(Items)]
    /\ consumer \in [Streams -> {"none", "open", "closed", "ended"}]
    /\ pos \in [Streams -> Nat] /\ alive \in BOOLEAN
    /\ \A s \in Streams : ask[s].rows \in Nat /\ ask[s].size \in Nat /\ pos[s] <= ask[s].rows

(* A command in the channel is the one its stream waits for, or one of a    *)
(* call that was dropped; a stream has at most one.                         *)
Entry(c) ==
    \/ pc[c.stream] = c.op /\ reply[c.stream].kind = "none"
    \/ pc[c.stream] = "dropped" /\ c.op \in CallOps
Channel ==
    /\ \A i \in 1..Len(queue) : Entry(queue[i])
    /\ \A i, j \in 1..Len(queue) : i # j => queue[i].stream # queue[j].stream

Dead == ~alive => queue = <<>> /\ stmts = {} /\ portals = {} /\ ~own

(* The task runs once the caller has its stream, and no sooner.             *)
Phase(s) ==
    /\ consumer[s] = "none" =>
          /\ pc[s] \in CallOps \cup {"idle", "failed", "dropped"}
          /\ got[s] = <<>> /\ buffer[s] = <<>> /\ batch[s] = <<>> /\ pos[s] = 0
    /\ consumer[s] # "none" => pc[s] \in Fetching \cup Closing
    /\ consumer[s] = "ended" => pc[s] = "done"

(* The items that went to the consumer, pulled or not, and the rows that    *)
(* are fetched and still to be sent.                                        *)
All(s) == got[s] \o buffer[s]
Ahead(s) == IF pc[s] = "execute" /\ reply[s].kind = "ok" THEN reply[s].rows ELSE batch[s]
RowsTo(s, n) == \A i \in 1..n : All(s)[i] = Item("row", i)

Fetches(s) ==
    /\ RowsTo(s, Len(All(s)))
    /\ \A k \in 1..Len(Ahead(s)) : Ahead(s)[k] = Len(All(s)) + k
    /\ pos[s] = Len(All(s)) + Len(Ahead(s))
    /\ pc[s] # "deliver" => batch[s] = <<>>
    /\ pc[s] = "deliver" /\ ~more[s] => pos[s] = ask[s].rows
    /\ pc[s] = "execute" /\ reply[s].kind = "ok" /\ ~reply[s].more => pos[s] = ask[s].rows
Complete(s) == Len(All(s)) = ask[s].rows /\ RowsTo(s, Len(All(s)))
Errored(s) ==
    /\ Len(All(s)) >= 1 /\ All(s)[Len(All(s))].kind = "err"
    /\ RowsTo(s, Len(All(s)) - 1)
Streaming(s) ==
    consumer[s] = "open" =>
        /\ Len(buffer[s]) <= ask[s].size /\ Len(Ahead(s)) <= ask[s].size
        /\ pos[s] <= Len(All(s)) + Len(Ahead(s)) /\ pos[s] <= ask[s].rows
        /\ pc[s] \in Fetching => Fetches(s)
        /\ pc[s] \in Closing => Complete(s) \/ Errored(s)

(* Where a stream may still have a statement or a portal on the server.     *)
Clear(s) ==
    /\ s \in stmts =>
          /\ pc[s] \notin {"idle", "fail commit", "failed", "commit", "done"}
          /\ pc[s] = "prepare" => reply[s].kind = "ok"
          /\ pc[s] \in {"undo stmt", "fail stmt", "close stmt"} => reply[s].kind = "none"
    /\ s \in portals =>
          \/ pc[s] \in Fetching \cup {"dropped"}
          \/ pc[s] = "bind" /\ reply[s].kind = "ok"
          \/ pc[s] = "close portal" /\ reply[s].kind = "none"

(* A transaction that began for a stream has a stream that will end it, or  *)
(* one whose call was dropped.                                              *)
Owing(s) ==
    \/ pc[s] \in {"bind", "fail stmt", "close portal", "close stmt", "dropped"} \cup Fetching
    \/ pc[s] = "begin" /\ reply[s].kind = "ok"
    \/ pc[s] \in {"fail commit", "commit"} /\ reply[s].kind = "none"
Held == own => \E s \in Streams : Owing(s)

Fine(s) == Phase(s) /\ Streaming(s) /\ Clear(s)
Inv == Typed /\ Channel /\ Dead /\ (\A s \in Streams : Fine(s)) /\ Held /\ HonestRows

-----------------------------------------------------------------------------
(* A step of one stream *)

Same(t) ==
    /\ pc'[t] = pc[t] /\ reply'[t] = reply[t] /\ batch'[t] = batch[t] /\ more'[t] = more[t]
    /\ buffer'[t] = buffer[t] /\ got'[t] = got[t] /\ consumer'[t] = consumer[t]

Honest(s) ==
    /\ InOrder(s)
    /\ consumer[s] = "ended" =>
          \/ Len(got[s]) = ask[s].rows /\ \A i \in DOMAIN got[s] : got[s][i].kind = "row"
          \/ got[s] # <<>> /\ got[s][Len(got[s])].kind = "err"

LEMMA SameKeeps ==
    ASSUME NEW t, Same(t), ask' = ask, pos'[t] = pos[t], t \in stmts' => t \in stmts,
           t \in portals' => t \in portals, Fine(t), Honest(t)
    PROVE  Fine(t)' /\ Honest(t)' /\ (Owing(t) => Owing(t)')
<1>1. Phase(t)' /\ Clear(t)' /\ Honest(t)' /\ (Owing(t) => Owing(t)')
  <2>1. Phase(t)'
    BY DEF Same, Fine, Phase
  <2>2. Clear(t)'
    BY DEF Same, Fine, Clear
  <2>3. Honest(t)'
    BY DEF Same, Honest, InOrder
  <2>4. Owing(t) => Owing(t)'
    BY DEF Same, Owing
  <2> QED
    BY <2>1, <2>2, <2>3, <2>4
<1>2. All(t)' = All(t) /\ Ahead(t)' = Ahead(t)
  BY DEF Same, All, Ahead
<1>3. Streaming(t)'
  BY <1>2 DEF Same, Fine, Streaming, Fetches, Complete, Errored, RowsTo
<1> QED
  BY <1>1, <1>3 DEF Fine

LEMMA LocalKeeps ==
    ASSUME Inv, NEW s \in Streams, \A t \in Streams \ {s} : Same(t),
           UNCHANGED <<ask, server, alive>>,
           Typed', Channel', Dead', Fine(s)', Honest(s)',
           own /\ Owing(s) => Owing(s)'
    PROVE  Inv'
<1>1. UNCHANGED <<ask, pos, stmts, portals, own, alive>>
  BY DEF server
<1>2. \A t \in Streams : Fine(t) /\ Honest(t)
  BY DEF Inv, HonestRows, Honest
<1>3. \A t \in Streams \ {s} : Fine(t)' /\ Honest(t)' /\ (Owing(t) => Owing(t)')
  BY <1>1, <1>2, SameKeeps
<1>4. Held'
  BY <1>1, <1>3 DEF Inv, Held
<1>5. HonestRows'
  BY <1>3 DEF HonestRows, Honest
<1> QED
  BY <1>3, <1>4, <1>5 DEF Inv

(* A stream that waits for no answer has no command in the channel.         *)
LEMMA NoCommand ==
    ASSUME Inv, NEW s \in Streams, pc[s] \notin Ops \/ reply[s].kind # "none", pc[s] # "dropped"
    PROVE  \A i \in 1..Len(queue) : queue[i].stream # s
<1> SUFFICES ASSUME NEW i \in 1..Len(queue), queue[i].stream = s
             PROVE  FALSE
  OBVIOUS
<1>1. queue[i] \in Commands
  BY DEF Inv, Typed
<1>2. Entry(queue[i]) /\ queue[i].op \in Ops
  BY <1>1 DEF Inv, Channel, Commands
<1> QED
  BY <1>2 DEF Entry

LEMMA ReplyFacts ==
    /\ NoReply \in Replies /\ OkReply \in Replies /\ ErrReply \in Replies
    /\ NoReply.kind = "none" /\ OkReply.kind = "ok" /\ ErrReply.kind = "err"
<1>1. NoReply \in Replies /\ NoReply.kind = "none"
  <2>1. <<>> \in Seq(Nat)
    OBVIOUS
  <2> QED
    BY <2>1 DEF NoReply, Replies
<1>2. OkReply \in Replies /\ OkReply.kind = "ok"
  BY <1>1 DEF OkReply, Replies
<1>3. ErrReply \in Replies /\ ErrReply.kind = "err"
  BY <1>1 DEF ErrReply, Replies
<1> QED
  BY <1>1, <1>2, <1>3

LEMMA EntriesHold ==
    ASSUME \A i \in 1..Len(queue') : \A d : d = queue'[i] => Entry(d)'
    PROVE  (\A i \in 1..Len(queue) : Entry(queue[i]))'
BY DEF Entry

(* Sending a command, whatever becomes of the stream's other fields.        *)
LEMMA IssueFacts ==
    ASSUME Inv, NEW s \in Streams, NEW op \in Ops, Issue(s, op), UNCHANGED alive,
           UNCHANGED <<stmts, portals, own>>, pc[s] \notin Ops \/ reply[s].kind # "none",
           pc[s] # "dropped"
    PROVE  /\ pc' \in [Streams -> Places] /\ reply' \in [Streams -> Replies]
           /\ queue' \in Seq(Commands) /\ Channel' /\ Dead'
           /\ pc'[s] = op /\ reply'[s].kind = IF alive THEN "none" ELSE "err"
           /\ \A t \in Streams \ {s} : pc'[t] = pc[t] /\ reply'[t] = reply[t]
<1> DEFINE c == [stream |-> s, op |-> op]
<1>1. /\ pc \in [Streams -> Places] /\ reply \in [Streams -> Replies] /\ queue \in Seq(Commands)
      /\ op \in Places
  BY DEF Inv, Typed, Places
<1>2. /\ pc' = [pc EXCEPT ![s] = op]
      /\ reply' = [reply EXCEPT ![s] = IF alive THEN NoReply ELSE ErrReply]
      /\ queue' = IF alive THEN Append(queue, c) ELSE queue
  BY DEF Issue
<1>3. c \in Commands /\ c.stream = s /\ c.op = op
  BY DEF Commands
<1> HIDE DEF c
<1>4. pc' \in [Streams -> Places] /\ pc'[s] = op /\ \A t \in Streams \ {s} : pc'[t] = pc[t]
  BY <1>1, <1>2
<1>5. /\ reply' \in [Streams -> Replies] /\ reply'[s] = IF alive THEN NoReply ELSE ErrReply
      /\ \A t \in Streams \ {s} : reply'[t] = reply[t]
  BY <1>1, <1>2, ReplyFacts
<1>6. queue' \in Seq(Commands)
  BY <1>1, <1>2, <1>3
<1>7. \A i \in 1..Len(queue) : queue[i].stream # s /\ queue[i].stream \in Streams
  <2>1. \A i \in 1..Len(queue) : queue[i] \in Commands
    BY <1>1
  <2>2. \A d \in Commands : d.stream \in Streams
    BY DEF Commands
  <2> QED
    BY <2>1, <2>2, NoCommand
<1>8. ASSUME NEW i \in 1..Len(queue), NEW d, d = queue[i]
      PROVE  Entry(d)'
  <2>1. Entry(d) /\ d.stream # s /\ d.stream \in Streams
    BY <1>7, <1>8 DEF Inv, Channel
  <2> QED
    BY <1>4, <1>5, <2>1 DEF Entry
<1>9. Channel'
  <2>1. CASE alive
    <3>1. /\ Len(queue') = Len(queue) + 1 /\ queue'[Len(queue) + 1] = c /\ Len(queue) \in Nat
          /\ \A i \in 1..Len(queue) : queue'[i] = queue[i]
      BY <1>1, <1>2, <1>3, <2>1
    <3>2. \A i \in 1..Len(queue') : i \in 1..Len(queue) \/ i = Len(queue) + 1
      BY <3>1
    <3>3. Entry(c)'
      BY <1>3, <1>4, <1>5, <2>1, ReplyFacts DEF Entry
    <3>4. ASSUME NEW i \in 1..Len(queue'), NEW d, d = queue'[i]
          PROVE  Entry(d)'
      <4>1. CASE i \in 1..Len(queue)
        BY <1>8, <3>1, <3>4, <4>1
      <4>2. CASE i = Len(queue) + 1
        BY <3>1, <3>3, <3>4, <4>2 DEF c
      <4> QED
        BY <3>2, <4>1, <4>2
    <3>5. \A i, j \in 1..Len(queue') : i # j => queue'[i].stream # queue'[j].stream
      BY <1>3, <1>7, <3>1, <3>2 DEF Inv, Channel
    <3> QED
      BY <3>4, <3>5, EntriesHold DEF Channel
  <2>2. CASE ~alive
    BY <1>2, <1>8, <2>2, EntriesHold DEF Inv, Channel
  <2> QED
    BY <2>1, <2>2
<1>10. Dead'
  BY <1>2 DEF Inv, Dead
<1> QED
  BY <1>4, <1>5, <1>6, <1>9, <1>10, ReplyFacts

LEMMA DoneFacts ==
    ASSUME Inv, NEW s \in Streams, NEW at \in Places, Done(s, at), UNCHANGED alive,
           UNCHANGED <<stmts, portals, own>>,
           at = "dropped" \/ reply[s].kind # "none" \/ pc[s] \notin Ops, pc[s] # "dropped",
           at = "dropped" => pc[s] \in CallOps
    PROVE  /\ pc' \in [Streams -> Places] /\ reply' \in [Streams -> Replies]
           /\ queue' = queue /\ Channel' /\ Dead'
           /\ pc'[s] = at /\ reply'[s].kind = "none"
           /\ \A t \in Streams \ {s} : pc'[t] = pc[t] /\ reply'[t] = reply[t]
<1>1. /\ pc \in [Streams -> Places] /\ reply \in [Streams -> Replies] /\ queue \in Seq(Commands)
  BY DEF Inv, Typed
<1>2. pc' = [pc EXCEPT ![s] = at] /\ reply' = [reply EXCEPT ![s] = NoReply] /\ queue' = queue
  BY DEF Done
<1>3. pc' \in [Streams -> Places] /\ pc'[s] = at /\ \A t \in Streams \ {s} : pc'[t] = pc[t]
  BY <1>1, <1>2
<1>4. /\ reply' \in [Streams -> Replies] /\ reply'[s] = NoReply
      /\ \A t \in Streams \ {s} : reply'[t] = reply[t]
  BY <1>1, <1>2, ReplyFacts
<1>5. ASSUME NEW i \in 1..Len(queue), NEW d, d = queue[i]
      PROVE  Entry(d)'
  <2>1. d \in Commands
    BY <1>1, <1>5
  <2>2. d.stream \in Streams /\ d.op \in Ops /\ Entry(d)
    BY <1>5, <2>1 DEF Commands, Inv, Channel
  <2>3. CASE d.stream # s
    BY <1>3, <1>4, <2>2, <2>3 DEF Entry
  <2>4. CASE d.stream = s
    <3>1. at = "dropped" /\ pc[s] \in CallOps
      BY <1>5, <2>4, NoCommand
    <3>2. pc[s] = d.op
      BY <2>2, <2>4 DEF Entry
    <3> QED
      BY <1>3, <2>4, <3>1, <3>2 DEF Entry
  <2> QED
    BY <2>3, <2>4
<1>6. Channel'
  BY <1>2, <1>5, EntriesHold DEF Inv, Channel
<1>7. Dead'
  BY <1>2 DEF Inv, Dead
<1> QED
  BY <1>2, <1>3, <1>4, <1>6, <1>7, ReplyFacts

-----------------------------------------------------------------------------
(* The call *)

(* A stream whose call has not returned has shown its consumer nothing.     *)
LEMMA NotYet ==
    ASSUME Inv, NEW s \in Streams, pc[s] \in CallOps \cup {"idle"}
    PROVE  /\ consumer[s] = "none" /\ got[s] = <<>> /\ buffer[s] = <<>> /\ batch[s] = <<>>
           /\ pos[s] = 0 /\ Clear(s) /\ Honest(s)
<1>1. Phase(s) /\ Clear(s) /\ consumer[s] \in {"none", "open", "closed", "ended"}
  BY DEF Inv, Fine, Typed
<1>2. pc[s] \notin Fetching \cup Closing
  BY DEF CallOps, Fetching, Closing
<1> QED
  BY <1>1, <1>2 DEF Phase, Inv, HonestRows, Honest

LEMMA CallKeeps ==
    ASSUME Inv, NEW s \in Streams, pc[s] \in CallOps \cup {"idle"},
           UNCHANGED <<ask, buffer, got, batch, more, server, alive, consumer>>,
           pc' \in [Streams -> Places], reply' \in [Streams -> Replies], queue' \in Seq(Commands),
           Channel', Dead', \A t \in Streams \ {s} : pc'[t] = pc[t] /\ reply'[t] = reply[t],
           pc'[s] \in CallOps \cup {"failed", "dropped"}, Clear(s)', own /\ Owing(s) => Owing(s)'
    PROVE  Inv'
<1>1. /\ consumer[s] = "none" /\ got[s] = <<>> /\ buffer[s] = <<>> /\ batch[s] = <<>>
      /\ pos[s] = 0 /\ Honest(s)
  BY NotYet
<1>2. Typed'
  BY DEF Inv, Typed, server
<1>3. Phase(s)' /\ Streaming(s)'
  BY <1>1 DEF Phase, Streaming, server
<1>4. Honest(s)'
  BY <1>1 DEF Honest, InOrder
<1>5. \A t \in Streams \ {s} : Same(t)
  BY DEF Same
<1>6. UNCHANGED <<ask, server, alive>> /\ Fine(s)'
  BY <1>3 DEF Fine
<1> QED
  BY <1>2, <1>4, <1>5, <1>6, LocalKeeps

LEMMA CallIssues ==
    ASSUME Inv, NEW s \in Streams, NEW op \in CallOps, Issue(s, op), UNCHANGED <<consumer, Await>>,
           pc[s] = "idle" \/ (pc[s] \in CallOps /\ reply[s].kind # "none"),
           s \in stmts => op \notin {"prepare", "fail commit"},
           s \notin portals,
           Owing(s) => op \in {"bind", "fail stmt", "fail commit"}
    PROVE  Inv'
<1>1. op \in Ops /\ pc[s] # "dropped" /\ (pc[s] \notin Ops \/ reply[s].kind # "none")
      /\ pc[s] \in CallOps \cup {"idle"}
  BY DEF Ops, CallOps, TaskOps
<1>2. UNCHANGED <<ask, buffer, got, batch, more, server, alive, consumer>>
      /\ UNCHANGED <<stmts, portals, own>> /\ UNCHANGED alive
  BY DEF Await, server
<1>3. /\ pc' \in [Streams -> Places] /\ reply' \in [Streams -> Replies]
      /\ queue' \in Seq(Commands) /\ Channel' /\ Dead'
      /\ pc'[s] = op /\ reply'[s].kind = IF alive THEN "none" ELSE "err"
      /\ \A t \in Streams \ {s} : pc'[t] = pc[t] /\ reply'[t] = reply[t]
  BY <1>1, <1>2, IssueFacts
<1>4. ~alive => stmts = {} /\ ~own
  BY DEF Inv, Dead
<1>5. Clear(s)'
  BY <1>2, <1>3, <1>4 DEF Clear, CallOps
<1>6. own /\ Owing(s) => Owing(s)'
  BY <1>3, <1>4 DEF Owing
<1> QED
  BY <1>1, <1>2, <1>3, <1>5, <1>6, CallKeeps

LEMMA CallReturns ==
    ASSUME Inv, NEW s \in Streams, NEW at \in {"failed", "dropped"}, Done(s, at),
           UNCHANGED <<ask, buffer, got, batch, more, server, alive, consumer>>,
           pc[s] \in CallOps,
           at = "failed" => reply[s].kind # "none" /\ s \notin stmts /\ s \notin portals /\ ~Owing(s)
    PROVE  Inv'
<1>1. /\ at \in Places /\ (at = "dropped" \/ reply[s].kind # "none" \/ pc[s] \notin Ops)
      /\ pc[s] # "dropped" /\ (at = "dropped" => pc[s] \in CallOps) /\ pc[s] \in CallOps \cup {"idle"}
      /\ at \in CallOps \cup {"failed", "dropped"}
  BY DEF Places, CallOps
<1>2. UNCHANGED <<stmts, portals, own>> /\ UNCHANGED alive
  BY DEF server
<1>3. /\ pc' \in [Streams -> Places] /\ reply' \in [Streams -> Replies]
      /\ queue' = queue /\ Channel' /\ Dead'
      /\ pc'[s] = at /\ reply'[s].kind = "none"
      /\ \A t \in Streams \ {s} : pc'[t] = pc[t] /\ reply'[t] = reply[t]
  BY <1>1, <1>2, DoneFacts
<1>4. queue' \in Seq(Commands)
  BY <1>3 DEF Inv, Typed
<1>5. Clear(s)'
  BY <1>2, <1>3 DEF Clear
<1>6. own /\ Owing(s) => Owing(s)'
  BY <1>3 DEF Owing
<1> QED
  BY <1>1, <1>3, <1>4, <1>5, <1>6, CallKeeps

LEMMA StartKeeps == ASSUME Inv, NEW s \in Streams, Start(s) PROVE Inv'
<1>1. pc[s] = "idle" /\ Issue(s, "prepare") /\ UNCHANGED <<consumer, Await>> /\ "prepare" \in CallOps
  BY DEF Start, CallOps
<1>2. Clear(s)
  BY <1>1, NotYet
<1>3. s \notin stmts /\ s \notin portals /\ ~Owing(s)
  BY <1>1, <1>2 DEF Clear, Owing, Fetching
<1> QED
  BY <1>1, <1>3, CallIssues

LEMMA AfterPrepare == ASSUME Inv, NEW s \in Streams, Prepared(s) \/ Mismatch(s) PROVE Inv'
<1>1. pc[s] = "prepare" /\ reply[s].kind = "ok" /\ UNCHANGED <<consumer, Await>>
      /\ \E op \in {"begin", "undo stmt"} : Issue(s, op)
  BY DEF Prepared, Mismatch, On
<1>2. pc[s] \in CallOps /\ {"begin", "undo stmt"} \subseteq CallOps
  BY <1>1 DEF CallOps
<1>3. Clear(s)
  BY <1>2, NotYet
<1>4. s \notin portals /\ ~Owing(s)
  BY <1>1, <1>3 DEF Clear, Owing, Fetching
<1>5. PICK op \in {"begin", "undo stmt"} : Issue(s, op)
  BY <1>1
<1> QED
  BY <1>1, <1>2, <1>4, <1>5, CallIssues

LEMMA AfterBegin == ASSUME Inv, NEW s \in Streams, BeginFails(s) \/ Begun(s) PROVE Inv'
<1>1. pc[s] = "begin" /\ reply[s].kind \in {"ok", "err"} /\ UNCHANGED <<consumer, Await>>
      /\ \E op \in {"undo stmt", "fail stmt", "bind"} :
            Issue(s, op) /\ (reply[s].kind = "ok" => op # "undo stmt")
  BY DEF BeginFails, Begun, On
<1>2. pc[s] \in CallOps /\ {"undo stmt", "fail stmt", "bind"} \subseteq CallOps
  BY <1>1 DEF CallOps
<1>3. Clear(s)
  BY <1>2, NotYet
<1>4. s \notin portals /\ (Owing(s) => reply[s].kind = "ok")
  BY <1>1, <1>3 DEF Clear, Owing, Fetching
<1>5. PICK op \in {"undo stmt", "fail stmt", "bind"} :
         Issue(s, op) /\ (reply[s].kind = "ok" => op # "undo stmt")
  BY <1>1
<1>6. op \in CallOps /\ op \notin {"prepare", "fail commit"}
      /\ (Owing(s) => op \in {"bind", "fail stmt", "fail commit"})
  BY <1>2, <1>4, <1>5
<1> QED
  BY <1>1, <1>2, <1>4, <1>5, <1>6, CallIssues

LEMMA AfterBind == ASSUME Inv, NEW s \in Streams, BindFails(s) \/ FailStmt(s) PROVE Inv'
<1>1. pc[s] \in CallOps /\ reply[s].kind # "none" /\ UNCHANGED <<consumer, Await>>
      /\ \/ pc[s] = "bind" /\ reply[s].kind = "err" /\ Issue(s, "fail stmt")
         \/ pc[s] = "fail stmt" /\ Issue(s, "fail commit")
  BY DEF BindFails, FailStmt, On, CallOps
<1>2. Clear(s) /\ "fail stmt" \in CallOps /\ "fail commit" \in CallOps
  BY <1>1, NotYet DEF CallOps
<1>3. s \notin portals /\ (pc[s] = "fail stmt" => s \notin stmts)
  BY <1>1, <1>2 DEF Clear, Fetching
<1>4. CASE pc[s] = "bind" /\ reply[s].kind = "err" /\ Issue(s, "fail stmt")
  BY <1>1, <1>2, <1>3, <1>4, CallIssues
<1>5. CASE pc[s] = "fail stmt" /\ Issue(s, "fail commit")
  BY <1>1, <1>2, <1>3, <1>5, CallIssues
<1> QED
  BY <1>1, <1>4, <1>5

LEMMA CallFails ==
    ASSUME Inv, NEW s \in Streams, PrepareFails(s) \/ Undone(s) \/ FailCommit(s)
    PROVE  Inv'
<1>1. reply[s].kind # "none" /\ Done(s, "failed") /\ UNCHANGED <<consumer, Await>>
      /\ ((pc[s] = "prepare" /\ reply[s].kind = "err") \/ pc[s] \in {"undo stmt", "fail commit"})
  BY DEF PrepareFails, Undone, FailCommit, On
<1>2. pc[s] \in CallOps /\ UNCHANGED <<ask, buffer, got, batch, more, server, alive, consumer>>
  BY <1>1 DEF CallOps, Await
<1>3. Clear(s)
  BY <1>2, NotYet
<1>4. s \notin stmts /\ s \notin portals /\ ~Owing(s)
  BY <1>1, <1>3 DEF Clear, Owing, Fetching
<1> QED
  BY <1>1, <1>2, <1>4, CallReturns

LEMMA DropCallKeeps == ASSUME Inv, NEW s \in Streams, DropCall(s) PROVE Inv'
<1>1. Done(s, "dropped") /\ pc[s] \in CallOps
      /\ UNCHANGED <<ask, buffer, got, batch, more, server, alive, consumer>>
  BY DEF DropCall, CallOps
<1> QED
  BY <1>1, CallReturns

LEMMA BoundKeeps == ASSUME Inv, NEW s \in Streams, Bound(s) PROVE Inv'
<1>1. pc[s] = "bind" /\ reply[s].kind = "ok" /\ Done(s, "check")
      /\ consumer' = [consumer EXCEPT ![s] = "open"] /\ UNCHANGED Await
  BY DEF Bound, On
<1>2. UNCHANGED <<ask, buffer, got, batch, more, server, alive>> /\ UNCHANGED <<stmts, portals, own>>
      /\ pos' = pos /\ UNCHANGED alive
  BY <1>1 DEF Await, server
<1>3. /\ consumer[s] = "none" /\ got[s] = <<>> /\ buffer[s] = <<>> /\ batch[s] = <<>>
      /\ pos[s] = 0 /\ Clear(s) /\ Honest(s)
  BY <1>1, NotYet DEF CallOps
<1>4. /\ pc' \in [Streams -> Places] /\ reply' \in [Streams -> Replies]
      /\ queue' = queue /\ Channel' /\ Dead'
      /\ pc'[s] = "check" /\ reply'[s].kind = "none"
      /\ \A t \in Streams \ {s} : pc'[t] = pc[t] /\ reply'[t] = reply[t]
  BY <1>1, <1>2, DoneFacts DEF Places
<1>5. /\ consumer' \in [Streams -> {"none", "open", "closed", "ended"}] /\ consumer'[s] = "open"
      /\ \A t \in Streams \ {s} : consumer'[t] = consumer[t]
  BY <1>1 DEF Inv, Typed
<1>6. Typed'
  BY <1>2, <1>4, <1>5 DEF Inv, Typed
<1>7. \A t \in Streams \ {s} : Same(t)
  BY <1>2, <1>4, <1>5 DEF Same
<1>8. Phase(s)'
  BY <1>4, <1>5 DEF Phase, Fetching
<1>9. Streaming(s)'
  <2>1. All(s)' = <<>> /\ Ahead(s)' = <<>>
    BY <1>2, <1>3, <1>4 DEF All, Ahead
  <2>2. ask[s].size \in Nat /\ ask[s].rows \in Nat
    BY DEF Inv, Typed
  <2> QED
    BY <1>2, <1>3, <1>4, <2>1, <2>2 DEF Streaming, Fetches, RowsTo, Closing
<1>10. Clear(s)'
  BY <1>1, <1>2, <1>4 DEF Clear, Fetching
<1>11. Honest(s)'
  BY <1>2, <1>3, <1>5 DEF Honest, InOrder
<1>12. Owing(s)'
  BY <1>4 DEF Owing, Fetching
<1> QED
  BY <1>2, <1>4, <1>6, <1>7, <1>8, <1>9, <1>10, <1>11, <1>12, LocalKeeps DEF Fine

-----------------------------------------------------------------------------
(* The task *)

LEMMA TaskKeeps ==
    ASSUME Inv, NEW s \in Streams, pc[s] \in Fetching \cup {"close portal", "close stmt", "commit"},
           UNCHANGED Fields,
           pc' \in [Streams -> Places], reply' \in [Streams -> Replies], queue' \in Seq(Commands),
           batch' \in [Streams -> Seq(Nat)], more' \in [Streams -> BOOLEAN],
           buffer' \in [Streams -> Seq(Items)], Channel', Dead',
           \A t \in Streams \ {s} : /\ pc'[t] = pc[t] /\ reply'[t] = reply[t] /\ batch'[t] = batch[t]
                                    /\ more'[t] = more[t] /\ buffer'[t] = buffer[t],
           pc'[s] \in Fetching \cup Closing, Streaming(s)', Clear(s)', own /\ Owing(s) => Owing(s)'
    PROVE  Inv'
<1>1. UNCHANGED <<ask, server, alive>> /\ UNCHANGED <<got, consumer>> /\ UNCHANGED <<pos, own>>
  BY DEF Fields, server
<1>2. Typed'
  BY <1>1 DEF Inv, Typed
<1>3. consumer[s] # "none" /\ consumer[s] # "ended"
  BY DEF Inv, Fine, Phase, Fetching, CallOps
<1>4. Phase(s)'
  BY <1>1, <1>3 DEF Phase
<1>5. Honest(s)'
  BY <1>1 DEF Inv, HonestRows, Honest, InOrder
<1>6. \A t \in Streams \ {s} : Same(t)
  BY <1>1 DEF Same
<1>7. Fine(s)'
  BY <1>4 DEF Fine
<1> QED
  BY <1>1, <1>2, <1>5, <1>6, <1>7, LocalKeeps

LEMMA TaskFacts ==
    ASSUME Inv, NEW s \in Streams, UNCHANGED Fields
    PROVE  /\ UNCHANGED <<stmts, portals, own>> /\ UNCHANGED <<alive, pos, ask, got, consumer>>
           /\ alive' = alive
           /\ batch \in [Streams -> Seq(Nat)] /\ more \in [Streams -> BOOLEAN]
           /\ buffer \in [Streams -> Seq(Items)] /\ Streaming(s) /\ Clear(s) /\ queue \in Seq(Commands)
           /\ got[s] \in Seq(Items) /\ buffer[s] \in Seq(Items) /\ batch[s] \in Seq(Nat)
           /\ reply[s] \in Replies /\ ask[s].size \in Nat /\ ask[s].rows \in Nat /\ pos[s] \in Nat
           /\ (~alive => stmts = {} /\ portals = {} /\ ~own)
BY DEF Inv, Typed, Fine, Fields, server, Dead

(* Going to cleanup_stream, or on from one of its steps to the next.        *)
LEMMA CleaningClear ==
    ASSUME Inv, NEW s \in Streams, UNCHANGED Fields,
           reply'[s].kind = IF alive THEN "none" ELSE "err",
           \/ pc[s] \in Fetching /\ pc'[s] \in {"close portal", "execute"}
           \/ pc[s] = "close portal" /\ reply[s].kind # "none" /\ pc'[s] = "close stmt"
           \/ pc[s] = "close stmt" /\ reply[s].kind # "none" /\ pc'[s] = "commit"
    PROVE  Clear(s)' /\ (own /\ Owing(s) => Owing(s)')
<1>1. UNCHANGED <<stmts, portals, own>> /\ Clear(s) /\ (~alive => stmts = {} /\ portals = {} /\ ~own)
  BY TaskFacts
<1>2. Clear(s)'
  <2>1. CASE pc[s] \in Fetching /\ pc'[s] \in {"close portal", "execute"}
    BY <1>1, <2>1 DEF Clear, Fetching
  <2>2. CASE pc[s] = "close portal" /\ reply[s].kind # "none" /\ pc'[s] = "close stmt"
    BY <1>1, <2>2 DEF Clear, Fetching
  <2>3. CASE pc[s] = "close stmt" /\ reply[s].kind # "none" /\ pc'[s] = "commit"
    BY <1>1, <2>3 DEF Clear, Fetching
  <2> QED
    BY <2>1, <2>2, <2>3
<1>3. own => Owing(s)'
  BY <1>1 DEF Owing, Fetching
<1> QED
  BY <1>2, <1>3

LEMMA FetchKeeps == ASSUME Inv, NEW s \in Streams, Fetch(s) PROVE Inv'
<1>1. PICK op \in {"close portal", "execute"} :
         Issue(s, op) /\ (op = "close portal" => consumer[s] = "closed")
  BY DEF Fetch, Closed
<1>2. pc[s] = "check" /\ UNCHANGED Fields /\ batch' = batch /\ more' = more /\ buffer' = buffer
      /\ op \in Ops /\ pc[s] \notin Ops /\ pc[s] # "dropped" /\ pc[s] \in Fetching
      /\ op \in Fetching \cup Closing
  BY <1>1 DEF Fetch, Ops, CallOps, TaskOps, Fetching, Closing
<1>3. /\ UNCHANGED <<stmts, portals, own>> /\ UNCHANGED <<alive, pos, ask, got, consumer>>
      /\ alive' = alive
      /\ batch \in [Streams -> Seq(Nat)] /\ more \in [Streams -> BOOLEAN]
      /\ buffer \in [Streams -> Seq(Items)] /\ Streaming(s)
  BY <1>2, TaskFacts
<1>4. /\ pc' \in [Streams -> Places] /\ reply' \in [Streams -> Replies]
      /\ queue' \in Seq(Commands) /\ Channel' /\ Dead'
      /\ pc'[s] = op /\ reply'[s].kind = IF alive THEN "none" ELSE "err"
      /\ \A t \in Streams \ {s} : pc'[t] = pc[t] /\ reply'[t] = reply[t]
  BY <1>1, <1>2, <1>3, IssueFacts
<1>5. Clear(s)' /\ (own /\ Owing(s) => Owing(s)')
  BY <1>1, <1>2, <1>4, CleaningClear
<1>6. Streaming(s)'
  <2> SUFFICES ASSUME consumer[s] = "open"
               PROVE  Streaming(s)'
    BY <1>3 DEF Streaming
  <2>1. pc'[s] = "execute"
    BY <1>1, <1>4
  <2>2. All(s)' = All(s) /\ Ahead(s)' = Ahead(s)
    BY <1>2, <1>3, <1>4 DEF All, Ahead
  <2>3. Fetches(s)'
    BY <1>2, <1>3, <1>4, <2>1, <2>2 DEF Streaming, Fetches, RowsTo
  <2> QED
    BY <1>2, <1>3, <2>1, <2>2, <2>3 DEF Streaming, Closing
<1> QED
  BY <1>2, <1>3, <1>4, <1>5, <1>6, TaskKeeps

LEMMA FetchedKeeps == ASSUME Inv, NEW s \in Streams, Fetched(s) PROVE Inv'
<1>1. pc[s] = "execute" /\ reply[s].kind = "ok" /\ Done(s, "deliver") /\ UNCHANGED Fields
      /\ batch' = [batch EXCEPT ![s] = reply[s].rows] /\ more' = [more EXCEPT ![s] = reply[s].more]
      /\ buffer' = buffer
  BY DEF Fetched, On
<1>2. pc[s] # "dropped" /\ pc[s] \in Fetching /\ "deliver" \in Places /\ "deliver" \in Fetching \cup Closing
  BY <1>1 DEF Fetching, Places
<1>3. /\ UNCHANGED <<stmts, portals, own>> /\ UNCHANGED <<alive, pos, ask, got, consumer>>
      /\ alive' = alive
      /\ batch \in [Streams -> Seq(Nat)] /\ more \in [Streams -> BOOLEAN] /\ reply[s] \in Replies
      /\ buffer \in [Streams -> Seq(Items)] /\ Streaming(s) /\ Clear(s) /\ queue \in Seq(Commands)
  BY <1>1, TaskFacts
<1>4. /\ pc' \in [Streams -> Places] /\ reply' \in [Streams -> Replies]
      /\ queue' = queue /\ Channel' /\ Dead'
      /\ pc'[s] = "deliver" /\ reply'[s].kind = "none"
      /\ \A t \in Streams \ {s} : pc'[t] = pc[t] /\ reply'[t] = reply[t]
  BY <1>1, <1>2, <1>3, DoneFacts
<1>5. /\ batch' \in [Streams -> Seq(Nat)] /\ batch'[s] = reply[s].rows
      /\ more' \in [Streams -> BOOLEAN] /\ more'[s] = reply[s].more
      /\ \A t \in Streams \ {s} : batch'[t] = batch[t] /\ more'[t] = more[t]
  <2>1. reply[s].rows \in Seq(Nat) /\ reply[s].more \in BOOLEAN
    BY <1>3 DEF Replies
  <2> QED
    BY <1>1, <1>3, <2>1
<1>6. Clear(s)' /\ Owing(s)'
  BY <1>1, <1>3, <1>4 DEF Clear, Owing, Fetching
<1>7. Streaming(s)'
  <2> SUFFICES ASSUME consumer[s] = "open"
               PROVE  Streaming(s)'
    BY <1>3 DEF Streaming
  <2>1. All(s)' = All(s) /\ Ahead(s)' = Ahead(s)
    BY <1>1, <1>3, <1>4, <1>5 DEF All, Ahead
  <2>2. Fetches(s)'
    <3>1. Fetches(s)
      BY <1>2, <1>3 DEF Streaming
    <3>2. RowsTo(s, Len(All(s)))'
      BY <2>1, <3>1 DEF Fetches, RowsTo
    <3>3. \A k \in 1..Len(Ahead(s)') : Ahead(s)'[k] = Len(All(s)') + k
      BY <2>1, <3>1 DEF Fetches
    <3>4. pos'[s] = Len(All(s)') + Len(Ahead(s)')
      BY <1>3, <2>1, <3>1 DEF Fetches
    <3>5. ~more'[s] => pos'[s] = ask'[s].rows
      BY <1>1, <1>3, <1>5, <3>1 DEF Fetches
    <3> QED
      BY <1>4, <3>2, <3>3, <3>4, <3>5 DEF Fetches
  <2> QED
    BY <1>1, <1>3, <1>4, <2>1, <2>2 DEF Streaming, Closing
<1> QED
  BY <1>1, <1>2, <1>3, <1>4, <1>5, <1>6, <1>7, TaskKeeps

Grown(u, v, x) ==
    /\ Len(u) \in Nat /\ Len(v) = Len(u) + 1 /\ v[Len(u) + 1] = x
    /\ \A i \in 1..Len(u) : v[i] = u[i]

LEMMA SendItem ==
    ASSUME NEW g \in Seq(Items), NEW b \in Seq(Items), NEW x \in Items
    PROVE  Grown(b, Append(b, x), x) /\ Grown(g \o b, g \o Append(b, x), x)
<1> DEFINE a == Append(b, x)
<1>1. /\ a \in Seq(Items) /\ Len(a) = Len(b) + 1 /\ Len(b) \in Nat /\ Len(g) \in Nat
      /\ \A i \in 1..Len(b) : a[i] = b[i]
      /\ a[Len(b) + 1] = x
  OBVIOUS
<1> HIDE DEF a
<1>2. /\ Len(g \o a) = Len(g) + Len(a)
      /\ \A i \in 1..Len(g) + Len(a) : (g \o a)[i] = IF i <= Len(g) THEN g[i] ELSE a[i - Len(g)]
  BY <1>1, ConcatProperties
<1>3. /\ Len(g \o b) = Len(g) + Len(b)
      /\ \A i \in 1..Len(g) + Len(b) : (g \o b)[i] = IF i <= Len(g) THEN g[i] ELSE b[i - Len(g)]
  BY <1>1, ConcatProperties
<1>4. Len(g \o a) = Len(g \o b) + 1 /\ Len(g \o b) \in Nat
  BY <1>1, <1>2, <1>3
<1>5. (g \o a)[Len(g) + Len(b) + 1] = x
  <2>1. /\ Len(g) + Len(b) + 1 \in 1..Len(g) + Len(a) /\ ~(Len(g) + Len(b) + 1 <= Len(g))
        /\ Len(g) + Len(b) + 1 - Len(g) = Len(b) + 1
    BY <1>1
  <2> QED
    BY <1>1, <1>2, <2>1
<1>6. \A i \in 1..Len(g) + Len(b) : (g \o a)[i] = (g \o b)[i]
  <2> TAKE i \in 1..Len(g) + Len(b)
  <2>1. i \in 1..Len(g) + Len(a)
    BY <1>1
  <2>2. CASE i <= Len(g)
    BY <1>2, <1>3, <2>1, <2>2
  <2>3. CASE ~(i <= Len(g))
    <3>1. i - Len(g) \in 1..Len(b)
      BY <1>1, <2>3
    <3> QED
      BY <1>1, <1>2, <1>3, <2>1, <2>3, <3>1
  <2> QED
    BY <2>2, <2>3
<1> QED
  BY <1>1, <1>3, <1>4, <1>5, <1>6 DEF a, Grown

LEMMA PullItem ==
    ASSUME NEW g \in Seq(Items), NEW b \in Seq(Items), b # <<>>
    PROVE  /\ Append(g, Head(b)) \in Seq(Items) /\ Tail(b) \in Seq(Items)
           /\ Len(Tail(b)) = Len(b) - 1 /\ Len(b) \in Nat
           /\ Append(g, Head(b)) \o Tail(b) = g \o b
<1> DEFINE a == Append(g, Head(b))
           r == Tail(b)
<1>1. /\ Head(b) \in Items /\ Head(b) = b[1] /\ r \in Seq(Items) /\ Len(r) = Len(b) - 1
      /\ \A i \in 1..Len(b) - 1 : r[i] = b[i + 1]
  BY HeadTailProperties
<1>2. Len(b) \in Nat /\ Len(b) >= 1 /\ Len(g) \in Nat
  BY <1>1, HeadTailProperties
<1>3. /\ a \in Seq(Items) /\ Len(a) = Len(g) + 1 /\ \A i \in 1..Len(g) : a[i] = g[i]
      /\ a[Len(g) + 1] = b[1]
  BY <1>1, AppendProperties
<1> HIDE DEF a, r
<1>4. /\ a \o r \in Seq(Items) /\ Len(a \o r) = Len(a) + Len(r)
      /\ \A i \in 1..Len(a) + Len(r) : (a \o r)[i] = IF i <= Len(a) THEN a[i] ELSE r[i - Len(a)]
  BY <1>1, <1>3, ConcatProperties
<1>5. /\ g \o b \in Seq(Items) /\ Len(g \o b) = Len(g) + Len(b)
      /\ \A i \in 1..Len(g) + Len(b) : (g \o b)[i] = IF i <= Len(g) THEN g[i] ELSE b[i - Len(g)]
  BY ConcatProperties
<1>6. Len(a \o r) = Len(g \o b) /\ Len(a) + Len(r) = Len(g) + Len(b)
  BY <1>1, <1>2, <1>3, <1>4, <1>5
<1>7. \A i \in 1..Len(g) + Len(b) : (a \o r)[i] = (g \o b)[i]
  <2> TAKE i \in 1..Len(g) + Len(b)
  <2>1. CASE i <= Len(g)
    BY <1>2, <1>3, <1>4, <1>5, <1>6, <2>1
  <2>2. CASE i = Len(g) + 1
    <3>1. ~(i <= Len(g)) /\ i - Len(g) = 1 /\ i <= Len(a)
      BY <1>2, <1>3, <2>2
    <3> QED
      BY <1>3, <1>4, <1>5, <1>6, <2>2, <3>1
  <2>3. CASE i > Len(g) + 1
    <3>1. ~(i <= Len(g)) /\ ~(i <= Len(a)) /\ i - Len(a) \in 1..Len(b) - 1 /\ (i - Len(a)) + 1 = i - Len(g)
      BY <1>2, <1>3, <2>3
    <3>2. (a \o r)[i] = r[i - Len(a)] /\ (g \o b)[i] = b[i - Len(g)]
      BY <1>4, <1>5, <1>6, <3>1
    <3> QED
      BY <1>1, <3>1, <3>2
  <2>4. \A m, k \in Nat : k <= m \/ k = m + 1 \/ k > m + 1
    OBVIOUS
  <2>5. i \in Nat
    BY <1>2
  <2> QED
    BY <1>2, <2>1, <2>2, <2>3, <2>4, <2>5
<1>8. a \o r = g \o b
  BY <1>4, <1>5, <1>6, <1>7, SeqEqual
<1> QED
  BY <1>1, <1>2, <1>3, <1>8 DEF a, r

LEMMA ErrItem == \A i \in Nat : /\ Item("err", 0) \in Items /\ Item("err", 0).kind = "err"
                                /\ Item("row", i) \in Items /\ Item("row", i).kind = "row"
                                /\ Item("row", i).n = i
BY DEF Item, Items

LEMMA SequenceHead ==
    ASSUME NEW q \in Seq(Nat), q # <<>>
    PROVE  /\ Head(q) \in Nat /\ Head(q) = q[1] /\ Tail(q) \in Seq(Nat)
           /\ Len(Tail(q)) = Len(q) - 1 /\ Len(q) \in Nat
           /\ \A i \in 1..Len(q) - 1 : Tail(q)[i] = q[i + 1]
BY HeadTailProperties

LEMMA Shift == \A m, n : m \in Nat /\ n = m + 1 => n >= 1 /\ n - 1 = m
OBVIOUS

(* One more item for the consumer.                                          *)
LEMMA SentFacts ==
    ASSUME NEW s \in Streams, NEW x \in Items, got[s] \in Seq(Items), buffer[s] \in Seq(Items),
           got'[s] = got[s], buffer'[s] = Append(buffer[s], x)
    PROVE  /\ Len(buffer'[s]) = Len(buffer[s]) + 1 /\ Len(buffer[s]) \in Nat
           /\ Len(All(s)) \in Nat /\ Len(All(s)') = Len(All(s)) + 1
           /\ All(s)'[Len(All(s)) + 1] = x
           /\ \A i \in 1..Len(All(s)) : All(s)'[i] = All(s)[i]
<1>1. All(s) = got[s] \o buffer[s] /\ All(s)' = got[s] \o buffer'[s]
  BY Zenon DEF All
<1>2. Grown(buffer[s], buffer'[s], x) /\ Grown(All(s), All(s)', x)
  BY <1>1, SendItem, Zenon
<1> QED
  BY <1>2, Zenon DEF Grown

(* An error is the last item.                                               *)
LEMMA SendsError ==
    ASSUME Inv, NEW s \in Streams, UNCHANGED Fields, consumer[s] = "open", RowsTo(s, Len(All(s))),
           Len(All(s)) \in Nat, Len(All(s)') = Len(All(s)) + 1, All(s)'[Len(All(s)) + 1].kind = "err",
           \A i \in 1..Len(All(s)) : All(s)'[i] = All(s)[i],
           Len(buffer'[s]) <= ask[s].size,
           pc'[s] = "close portal", Len(batch'[s]) \in Nat, Len(batch'[s]) <= ask[s].size,
           pos[s] <= Len(All(s)) + 1 + Len(batch'[s])
    PROVE  Streaming(s)'
<1>1. UNCHANGED <<alive, pos, ask, got, consumer>> /\ Streaming(s)
  BY TaskFacts
<1>2. Ahead(s)' = batch'[s]
  BY DEF Ahead
<1>3. Errored(s)'
  <2>1. Len(All(s)') >= 1 /\ Len(All(s)') - 1 = Len(All(s))
    BY Shift, Zenon
  <2> QED
    BY <2>1 DEF Errored, RowsTo
<1>4. pos[s] <= ask[s].rows
  BY <1>1 DEF Streaming
<1> QED
  BY <1>1, <1>2, <1>3, <1>4 DEF Streaming, Fetching

LEMMA ClosedIsFree ==
    ASSUME NEW s \in Streams, consumer'[s] # "open"
    PROVE  Streaming(s)'
BY DEF Streaming

LEMMA OpenOrClosed ==
    ASSUME Inv, NEW s \in Streams, pc[s] \in Fetching \cup {"close portal", "close stmt", "commit"}
    PROVE  consumer[s] \in {"open", "closed"}
BY DEF Inv, Typed, Fine, Phase, Fetching, CallOps

LEMMA FetchFailsKeeps == ASSUME Inv, NEW s \in Streams, FetchFails(s) PROVE Inv'
<1>1. pc[s] = "execute" /\ reply[s].kind = "err" /\ Issue(s, "close portal") /\ UNCHANGED Fields
      /\ batch' = batch /\ more' = more /\ (Room(s) \/ Closed(s))
      /\ buffer' = IF Closed(s) THEN buffer ELSE [buffer EXCEPT ![s] = Append(@, Item("err", 0))]
  BY DEF FetchFails, On
<1>2. pc[s] # "dropped" /\ pc[s] \in Fetching /\ "close portal" \in Ops
      /\ "close portal" \in Fetching \cup Closing
  BY <1>1 DEF Fetching, Closing, Ops, TaskOps
<1>3. /\ UNCHANGED <<stmts, portals, own>> /\ UNCHANGED <<alive, pos, ask, got, consumer>>
      /\ alive' = alive
      /\ batch \in [Streams -> Seq(Nat)] /\ more \in [Streams -> BOOLEAN]
      /\ buffer \in [Streams -> Seq(Items)] /\ Streaming(s) /\ buffer[s] \in Seq(Items)
      /\ ask[s].size \in Nat /\ got[s] \in Seq(Items)
  BY <1>1, TaskFacts
<1>4. /\ pc' \in [Streams -> Places] /\ reply' \in [Streams -> Replies]
      /\ queue' \in Seq(Commands) /\ Channel' /\ Dead'
      /\ pc'[s] = "close portal" /\ reply'[s].kind = IF alive THEN "none" ELSE "err"
      /\ \A t \in Streams \ {s} : pc'[t] = pc[t] /\ reply'[t] = reply[t]
  BY <1>1, <1>2, <1>3, IssueFacts
<1>5. Clear(s)' /\ (own /\ Owing(s) => Owing(s)')
  BY <1>1, <1>2, <1>4, CleaningClear
<1>6. /\ buffer' \in [Streams -> Seq(Items)] /\ \A t \in Streams \ {s} : buffer'[t] = buffer[t]
      /\ ~Closed(s) => buffer'[s] = Append(buffer[s], Item("err", 0))
  <2>1. Append(buffer[s], Item("err", 0)) \in Seq(Items)
    BY <1>3, ErrItem, AppendProperties
  <2> QED
    BY <1>1, <1>3, <2>1
<1>7. Streaming(s)'
  <2>1. CASE consumer[s] = "open"
    <3>1. ~Closed(s) /\ Room(s)
      BY <1>1, <2>1 DEF Closed
    <3>2. Ahead(s) = batch[s] /\ Fetches(s)
      BY <1>1, <1>2, <1>3, <2>1 DEF Ahead, Streaming
    <3>3. batch[s] = <<>> /\ RowsTo(s, Len(All(s)))
      BY <1>1, <3>2 DEF Fetches
    <3>4. Len(batch[s]) = 0 /\ pos[s] = Len(All(s)) + 0 /\ Len(All(s)) \in Nat
      <4>1. All(s) \in Seq(Items)
        BY <1>3, ConcatProperties DEF All
      <4> QED
        BY <3>2, <3>3, <4>1 DEF Fetches
    <3>5. Len(batch'[s]) \in Nat /\ Len(batch'[s]) <= ask[s].size /\ pos[s] <= Len(All(s)) + 1 + Len(batch'[s])
      <4>1. Len(batch'[s]) = 0 /\ ask[s].size \in Nat
        BY <1>1, <1>3, <3>4
      <4> QED
        BY <3>4, <4>1
    <3>6. /\ Len(buffer'[s]) = Len(buffer[s]) + 1 /\ Len(buffer[s]) \in Nat
          /\ Len(All(s)') = Len(All(s)) + 1
          /\ All(s)'[Len(All(s)) + 1].kind = "err"
          /\ \A i \in 1..Len(All(s)) : All(s)'[i] = All(s)[i]
      <4>1. got'[s] = got[s] /\ buffer'[s] = Append(buffer[s], Item("err", 0))
        BY <1>3, <1>6, <3>1
      <4>2. Item("err", 0) \in Items /\ Item("err", 0).kind = "err"
        BY ErrItem
      <4> QED
        BY <1>3, <4>1, <4>2, SentFacts, Zenon
    <3>7. Len(buffer'[s]) <= ask[s].size
      BY <1>3, <3>1, <3>6 DEF Room
    <3> QED
      BY <1>1, <1>4, <2>1, <3>3, <3>4, <3>5, <3>6, <3>7, SendsError
  <2> QED
    BY <1>3, <2>1, ClosedIsFree
<1> QED
  BY <1>1, <1>2, <1>3, <1>4, <1>5, <1>6, <1>7, TaskKeeps

LEMMA DeliverKeeps == ASSUME Inv, NEW s \in Streams, Deliver(s) PROVE Inv'
<1>1. /\ pc[s] = "deliver" /\ batch[s] # <<>> /\ (Room(s) \/ Closed(s)) /\ UNCHANGED Fields
      /\ more' = more
      /\ IF Closed(s)
         THEN Issue(s, "close portal") /\ UNCHANGED <<batch, buffer>>
         ELSE /\ batch' = [batch EXCEPT ![s] = Tail(@)]
              /\ buffer' = [buffer EXCEPT ![s] = Append(@, Sent(s, Head(batch[s])))]
              /\ IF Stops(s, Head(batch[s]))
                 THEN Issue(s, "close portal")
                 ELSE UNCHANGED <<pc, reply, queue>>
  BY DEF Deliver, DeliverWhen
<1>2. pc[s] # "dropped" /\ pc[s] \in Fetching /\ "close portal" \in Ops /\ pc[s] \notin Ops
      /\ "close portal" \in Fetching \cup Closing /\ "deliver" \in Fetching \cup Closing
  BY <1>1 DEF Fetching, Closing, Ops, TaskOps, CallOps
<1>3. /\ UNCHANGED <<stmts, portals, own>> /\ UNCHANGED <<alive, pos, ask, got, consumer>>
      /\ alive' = alive
      /\ batch \in [Streams -> Seq(Nat)] /\ more \in [Streams -> BOOLEAN]
      /\ buffer \in [Streams -> Seq(Items)] /\ Streaming(s) /\ Clear(s) /\ buffer[s] \in Seq(Items)
      /\ batch[s] \in Seq(Nat) /\ ask[s].size \in Nat /\ ask[s].rows \in Nat /\ pos[s] \in Nat
      /\ got[s] \in Seq(Items)
  BY <1>1, TaskFacts
<1>4. ASSUME Issue(s, "close portal")
      PROVE  /\ pc' \in [Streams -> Places] /\ reply' \in [Streams -> Replies]
             /\ queue' \in Seq(Commands) /\ Channel' /\ Dead'
             /\ pc'[s] = "close portal" /\ reply'[s].kind = IF alive THEN "none" ELSE "err"
             /\ \A t \in Streams \ {s} : pc'[t] = pc[t] /\ reply'[t] = reply[t]
             /\ Clear(s)' /\ (own /\ Owing(s) => Owing(s)')
  <2>1. /\ pc' \in [Streams -> Places] /\ reply' \in [Streams -> Replies]
        /\ queue' \in Seq(Commands) /\ Channel' /\ Dead'
        /\ pc'[s] = "close portal" /\ reply'[s].kind = IF alive THEN "none" ELSE "err"
        /\ \A t \in Streams \ {s} : pc'[t] = pc[t] /\ reply'[t] = reply[t]
    BY <1>2, <1>3, <1>4, IssueFacts
  <2> QED
    BY <1>1, <1>2, <2>1, CleaningClear
<1>5. CASE Closed(s)
  <2>1. Issue(s, "close portal") /\ batch' = batch /\ buffer' = buffer /\ consumer'[s] # "open"
    BY <1>1, <1>3, <1>5 DEF Closed
  <2>2. Streaming(s)'
    BY <2>1, ClosedIsFree
  <2> QED
    BY <1>1, <1>2, <1>3, <1>4, <2>1, <2>2, TaskKeeps
<1>6. CASE ~Closed(s)
  <2>1. /\ Head(batch[s]) \in Nat /\ Head(batch[s]) = batch[s][1] /\ Tail(batch[s]) \in Seq(Nat)
        /\ Len(Tail(batch[s])) = Len(batch[s]) - 1 /\ Len(batch[s]) \in Nat /\ Len(batch[s]) >= 1
        /\ \A i \in 1..Len(batch[s]) - 1 : Tail(batch[s])[i] = batch[s][i + 1]
    <3>1. /\ Head(batch[s]) \in Nat /\ Head(batch[s]) = batch[s][1] /\ Tail(batch[s]) \in Seq(Nat)
          /\ Len(Tail(batch[s])) = Len(batch[s]) - 1 /\ Len(batch[s]) \in Nat
          /\ \A i \in 1..Len(batch[s]) - 1 : Tail(batch[s])[i] = batch[s][i + 1]
      <4>1. batch[s] \in Seq(Nat) /\ batch[s] # <<>>
        BY <1>1, <1>3
      <4> QED
        BY <4>1, SequenceHead, Zenon
    <3>2. Len(batch[s]) # 0
      BY <1>1, <1>3, EmptySeq
    <3> QED
      BY <3>1, <3>2
  <2> DEFINE h == Head(batch[s])
             r == Tail(batch[s])
             x == Sent(s, h)
             b == Append(buffer[s], x)
  <2>2. x \in Items
    BY <2>1, ErrItem DEF Sent
  <2>3. b \in Seq(Items)
    BY <1>3, <2>2, AppendProperties
  <2>4. /\ batch' \in [Streams -> Seq(Nat)] /\ batch'[s] = r
        /\ buffer' \in [Streams -> Seq(Items)] /\ buffer'[s] = b
        /\ \A t \in Streams \ {s} : batch'[t] = batch[t] /\ buffer'[t] = buffer[t]
    <3>1. batch' = [batch EXCEPT ![s] = r] /\ buffer' = [buffer EXCEPT ![s] = b] /\ r \in Seq(Nat)
      BY <1>1, <1>6, <2>1
    <3> HIDE DEF r, b
    <3> QED
      BY <1>3, <2>3, <3>1
  <2>5. consumer[s] = "open" /\ Room(s)
    BY <1>1, <1>2, <1>6, OpenOrClosed DEF Closed
  <2>6. Fetches(s) /\ Ahead(s) = batch[s]
    BY <1>1, <1>2, <1>3, <2>5 DEF Streaming, Ahead
  <2>7. /\ RowsTo(s, Len(All(s))) /\ pos[s] = Len(All(s)) + Len(batch[s]) /\ h = Len(All(s)) + 1
        /\ Len(All(s)) \in Nat /\ \A i \in 1..Len(r) : r[i] = Len(All(s)) + 1 + i
    <3>1. All(s) \in Seq(Items)
      BY <1>3, ConcatProperties DEF All
    <3>2. \A k \in 1..Len(batch[s]) : batch[s][k] = Len(All(s)) + k
      BY <2>6 DEF Fetches
    <3>3. Len(All(s)) \in Nat
      BY <3>1
    <3>4. \A i \in 1..Len(r) : i + 1 \in 1..Len(batch[s]) /\ i \in 1..Len(batch[s]) - 1
                              /\ Len(All(s)) + (i + 1) = Len(All(s)) + 1 + i
      BY <2>1, <3>3, SMTT(20)
    <3>5. h = Len(All(s)) + 1
      BY <2>1, <3>2
    <3> QED
      BY <2>1, <2>6, <3>2, <3>3, <3>4, <3>5 DEF Fetches
  <2>8. Len(batch[s]) <= ask[s].size /\ Len(buffer[s]) < ask[s].size
    BY <1>3, <2>5, <2>6 DEF Streaming, Room
  <2>11. /\ Len(buffer'[s]) <= ask[s].size
         /\ Len(All(s)') = Len(All(s)) + 1 /\ All(s)'[Len(All(s)) + 1] = x
         /\ \A i \in 1..Len(All(s)) : All(s)'[i] = All(s)[i]
    <3>1. got'[s] = got[s] /\ buffer'[s] = Append(buffer[s], x)
      BY <1>3, <2>4
    <3> HIDE DEF h, r, x, b
    <3>2. /\ Len(buffer'[s]) = Len(buffer[s]) + 1 /\ Len(buffer[s]) \in Nat
          /\ Len(All(s)') = Len(All(s)) + 1 /\ All(s)'[Len(All(s)) + 1] = x
          /\ \A i \in 1..Len(All(s)) : All(s)'[i] = All(s)[i]
      BY <1>3, <2>2, <3>1, SentFacts, Zenon
    <3>3. Len(buffer'[s]) <= ask[s].size
      <4>1. Len(buffer'[s]) = Len(buffer[s]) + 1 /\ Len(buffer[s]) \in Nat
        BY <3>2, Zenon
      <4> QED
        BY <1>3, <2>8, <4>1
    <3> QED
      BY <3>2, <3>3, Zenon
  <2>9. CASE Stops(s, h)
    <3>1. Issue(s, "close portal") /\ x = Item("err", 0)
      BY <1>1, <1>6, <2>9 DEF Stops, Sent
    <3>2. pc'[s] = "close portal"
      BY <1>4, <3>1
    <3>3. Len(batch'[s]) \in Nat /\ Len(batch'[s]) <= ask[s].size /\ pos[s] <= Len(All(s)) + 1 + Len(batch'[s])
      BY <1>3, <2>1, <2>4, <2>7, <2>8
    <3>4. All(s)'[Len(All(s)) + 1].kind = "err"
      BY <2>11, <3>1, ErrItem
    <3>5. Streaming(s)'
      BY <1>1, <2>5, <2>7, <2>8, <2>11, <3>2, <3>3, <3>4, SendsError
    <3> HIDE DEF h, r, x, b
    <3> QED
      BY <1>1, <1>2, <1>3, <1>4, <2>4, <3>1, <3>5, TaskKeeps
  <2>10. CASE ~Stops(s, h)
    <3>1. UNCHANGED <<pc, reply, queue>> /\ x = Item("row", h)
      BY <1>1, <1>6, <2>10 DEF Stops, Sent
    <3> HIDE DEF h, r, x, b
    <3>3. Ahead(s)' = r
      BY <1>1, <1>3, <2>4, <3>1 DEF Ahead
    <3>4. /\ Len(All(s)') = Len(All(s)) + 1 /\ All(s)'[Len(All(s)) + 1] = x
          /\ \A i \in 1..Len(All(s)) : All(s)'[i] = All(s)[i]
      BY <2>11, Zenon
    <3> HIDE DEF All, Ahead
    <3>5. \A i \in 1..Len(All(s)') : All(s)'[i] = Item("row", i)
      <4> TAKE i \in 1..Len(All(s)')
      <4>1. i \in 1..Len(All(s)) \/ i = Len(All(s)) + 1
        BY <2>7, <3>4
      <4>2. CASE i \in 1..Len(All(s))
        BY <2>7, <3>4, <4>2 DEF RowsTo
      <4>3. CASE i = Len(All(s)) + 1
        BY <2>7, <3>1, <3>4, <4>3
      <4> QED
        BY <4>1, <4>2, <4>3
    <3>6. /\ \A i \in 1..Len(r) : r[i] = Len(All(s)') + i
          /\ pos[s] = Len(All(s)') + Len(r) /\ Len(buffer'[s]) <= ask[s].size /\ Len(r) <= ask[s].size
          /\ pos[s] <= ask[s].rows
      <4>1. Len(r) = Len(batch[s]) - 1 /\ Len(batch[s]) \in Nat /\ Len(batch[s]) >= 1
        BY <2>1 DEF r
      <4>2. pos[s] = Len(All(s)') + Len(r)
        <5>1. pos[s] = Len(All(s)) + Len(batch[s]) /\ Len(All(s)) \in Nat
              /\ Len(All(s)') = Len(All(s)) + 1
          BY <2>7, <3>4, Zenon
        <5>2. batch \in [Streams -> Seq(Nat)] /\ pos \in [Streams -> Nat]
          BY DEF Inv, Typed
        <5> QED
          BY <4>1, <5>1, <5>2
      <4>3. Len(r) <= ask[s].size
        BY <1>3, <2>8, <4>1
      <4>4. pos[s] <= ask[s].rows
        BY <1>3, <2>5 DEF Streaming
      <4> QED
        BY <2>7, <2>11, <3>4, <4>2, <4>3, <4>4
    <3>7. Fetches(s)'
      <4>1. pc'[s] = "deliver" /\ more' = more /\ (~more[s] => pos[s] = ask[s].rows)
        BY <1>1, <2>6, <3>1 DEF Fetches
      <4> QED
        BY <1>3, <2>4, <3>3, <3>5, <3>6, <4>1 DEF Fetches, RowsTo
    <3>8. Streaming(s)'
      <4>1. pc'[s] = "deliver" /\ "deliver" \notin Closing
        BY <1>1, <3>1 DEF Closing
      <4>2. Len(All(s)') + Len(r) = pos[s] /\ pos[s] <= Len(All(s)') + Len(r)
        BY <1>3, <3>6
      <4> QED
        BY <1>3, <2>4, <3>3, <3>6, <3>7, <4>1, <4>2 DEF Streaming
    <3>9. Clear(s)' /\ (Owing(s) => Owing(s)')
      BY <1>3, <3>1 DEF Clear, Owing
    <3>10. pc' \in [Streams -> Places] /\ reply' \in [Streams -> Replies] /\ queue' \in Seq(Commands)
           /\ pc'[s] \in Fetching \cup Closing
      BY <1>1, <1>2, <3>1 DEF Inv, Typed
    <3>11. Channel' /\ Dead'
      BY <1>3, <3>1 DEF Inv, Channel, Entry, Dead
    <3> QED
      BY <1>1, <1>2, <1>3, <2>4, <3>1, <3>8, <3>9, <3>10, <3>11, TaskKeeps
  <2> QED
    BY <2>9, <2>10
<1> QED
  BY <1>5, <1>6

(* On to cleanup_stream, or to its next step, with nothing more to send.    *)
LEMMA CleansUp ==
    ASSUME Inv, NEW s \in Streams, NEW op \in {"close portal", "close stmt", "commit"},
           UNCHANGED Fields, UNCHANGED <<batch, more, buffer>>, Issue(s, op),
           \/ pc[s] = "deliver" /\ op = "close portal"
           \/ pc[s] = "close portal" /\ reply[s].kind # "none" /\ op = "close stmt"
           \/ pc[s] = "close stmt" /\ reply[s].kind # "none" /\ op = "commit",
           consumer[s] = "open" => Complete(s) \/ Errored(s)
    PROVE  Inv'
<1>1. pc[s] # "dropped" /\ (pc[s] \notin Ops \/ reply[s].kind # "none") /\ op \in Ops
      /\ pc[s] \in Fetching \cup {"close portal", "close stmt", "commit"}
      /\ op \in Fetching \cup Closing
  BY DEF Fetching, Closing, Ops, TaskOps, CallOps
<1>2. /\ UNCHANGED <<stmts, portals, own>> /\ UNCHANGED <<alive, pos, ask, got, consumer>>
      /\ alive' = alive
      /\ batch \in [Streams -> Seq(Nat)] /\ more \in [Streams -> BOOLEAN]
      /\ buffer \in [Streams -> Seq(Items)] /\ Streaming(s)
  BY TaskFacts
<1>3. /\ pc' \in [Streams -> Places] /\ reply' \in [Streams -> Replies]
      /\ queue' \in Seq(Commands) /\ Channel' /\ Dead'
      /\ pc'[s] = op /\ reply'[s].kind = IF alive THEN "none" ELSE "err"
      /\ \A t \in Streams \ {s} : pc'[t] = pc[t] /\ reply'[t] = reply[t]
  BY <1>1, <1>2, IssueFacts
<1>4. Clear(s)' /\ (own /\ Owing(s) => Owing(s)')
  BY <1>3, CleaningClear DEF Fetching
<1>5. Streaming(s)'
  <2> SUFFICES ASSUME consumer[s] = "open"
               PROVE  Streaming(s)'
    BY <1>2 DEF Streaming
  <2>1. All(s)' = All(s) /\ Ahead(s)' = Ahead(s)
    BY <1>2, <1>3 DEF All, Ahead
  <2>2. Complete(s)' \/ Errored(s)'
    BY <1>2, <2>1 DEF Complete, Errored, RowsTo
  <2> QED
    BY <1>2, <1>3, <2>1, <2>2 DEF Streaming, Fetching
<1>6. batch' \in [Streams -> Seq(Nat)] /\ more' \in [Streams -> BOOLEAN] /\ buffer' \in [Streams -> Seq(Items)]
      /\ \A t \in Streams \ {s} : batch'[t] = batch[t] /\ more'[t] = more[t] /\ buffer'[t] = buffer[t]
  BY <1>2
<1> QED
  BY <1>1, <1>3, <1>4, <1>5, <1>6, TaskKeeps

LEMMA BatchDoneKeeps == ASSUME Inv, NEW s \in Streams, BatchDone(s) PROVE Inv'
<1>1. /\ pc[s] = "deliver" /\ batch[s] = <<>> /\ UNCHANGED Fields /\ UNCHANGED <<batch, more, buffer>>
      /\ IF more[s] THEN Done(s, "check") ELSE Issue(s, "close portal")
  BY DEF BatchDone
<1>2. pc[s] # "dropped" /\ pc[s] \in Fetching /\ pc[s] \notin Ops /\ "check" \in Places
      /\ "check" \in Fetching \cup Closing
  BY <1>1 DEF Fetching, Places, Ops, CallOps, TaskOps
<1>3. /\ UNCHANGED <<stmts, portals, own>> /\ UNCHANGED <<alive, pos, ask, got, consumer>>
      /\ alive' = alive
      /\ batch \in [Streams -> Seq(Nat)] /\ more \in [Streams -> BOOLEAN] /\ queue \in Seq(Commands)
      /\ buffer \in [Streams -> Seq(Items)] /\ Streaming(s) /\ Clear(s) /\ got[s] \in Seq(Items)
      /\ buffer[s] \in Seq(Items) /\ pos[s] \in Nat /\ ask[s].rows \in Nat
  BY <1>1, TaskFacts
<1>4. ASSUME consumer[s] = "open"
      PROVE  Fetches(s) /\ Ahead(s) = <<>>
  BY <1>1, <1>2, <1>3, <1>4 DEF Streaming, Ahead
<1>5. CASE more[s]
  <2>1. /\ pc' \in [Streams -> Places] /\ reply' \in [Streams -> Replies]
        /\ queue' = queue /\ Channel' /\ Dead'
        /\ pc'[s] = "check" /\ reply'[s].kind = "none"
        /\ \A t \in Streams \ {s} : pc'[t] = pc[t] /\ reply'[t] = reply[t]
    BY <1>1, <1>2, <1>3, <1>5, DoneFacts
  <2>2. Clear(s)' /\ Owing(s)'
    BY <1>1, <1>3, <2>1 DEF Clear, Owing, Fetching
  <2>3. Streaming(s)'
    <3> SUFFICES ASSUME consumer[s] = "open"
                 PROVE  Streaming(s)'
      BY <1>3 DEF Streaming
    <3>1. All(s)' = All(s) /\ Ahead(s)' = Ahead(s)
      BY <1>1, <1>3, <2>1 DEF All, Ahead
    <3>2. Fetches(s)'
      BY <1>1, <1>3, <1>4, <2>1, <3>1 DEF Fetches, RowsTo
    <3> QED
      BY <1>1, <1>3, <2>1, <3>1, <3>2 DEF Streaming, Closing
  <2>4. batch' \in [Streams -> Seq(Nat)] /\ more' \in [Streams -> BOOLEAN] /\ buffer' \in [Streams -> Seq(Items)]
        /\ \A t \in Streams \ {s} : batch'[t] = batch[t] /\ more'[t] = more[t] /\ buffer'[t] = buffer[t]
    BY <1>1, <1>3
  <2> QED
    BY <1>1, <1>2, <1>3, <2>1, <2>2, <2>3, <2>4, TaskKeeps
<1>6. CASE ~more[s]
  <2>1. ASSUME consumer[s] = "open"
        PROVE  Complete(s)
    <3>1. pos[s] = ask[s].rows /\ pos[s] = Len(All(s)) + Len(Ahead(s)) /\ RowsTo(s, Len(All(s)))
      BY <1>1, <1>4, <1>6, <2>1 DEF Fetches
    <3>2. Len(All(s)) \in Nat
      <4>1. All(s) \in Seq(Items)
        BY <1>3, ConcatProperties DEF All
      <4> QED
        BY <4>1
    <3>3. Len(Ahead(s)) = 0
      BY <1>4, <2>1
    <3>4. pos[s] = Len(All(s))
      BY <3>1, <3>2, <3>3
    <3> QED
      BY <3>1, <3>4 DEF Complete
  <2> QED
    BY <1>1, <1>6, <2>1, CleansUp
<1> QED
  BY <1>5, <1>6

LEMMA CleanupKeeps ==
    ASSUME Inv, NEW s \in Streams, CleanupStmt(s) \/ CleanupCommit(s)
    PROVE  Inv'
<1>1. /\ UNCHANGED Fields /\ UNCHANGED <<batch, more, buffer>> /\ reply[s].kind # "none"
      /\ \/ pc[s] = "close portal" /\ Issue(s, "close stmt")
         \/ pc[s] = "close stmt" /\ Issue(s, "commit")
  BY DEF CleanupStmt, CleanupCommit
<1>2. consumer[s] = "open" => Complete(s) \/ Errored(s)
  <2>1. pc[s] \in Closing
    BY <1>1 DEF Closing
  <2> QED
    BY <2>1 DEF Inv, Fine, Streaming
<1> QED
  BY <1>1, <1>2, CleansUp

LEMMA CleanedUpKeeps == ASSUME Inv, NEW s \in Streams, CleanedUp(s) PROVE Inv'
<1>1. /\ pc[s] = "commit" /\ reply[s].kind # "none" /\ Done(s, "done") /\ UNCHANGED Fields
      /\ UNCHANGED <<batch, more, buffer>>
  BY DEF CleanedUp
<1>2. pc[s] # "dropped" /\ "done" \in Places /\ "done" \in Fetching \cup Closing /\ pc[s] \in Closing
  BY <1>1 DEF Closing, Places
<1>3. /\ UNCHANGED <<stmts, portals, own>> /\ UNCHANGED <<alive, pos, ask, got, consumer>>
      /\ alive' = alive
      /\ batch \in [Streams -> Seq(Nat)] /\ more \in [Streams -> BOOLEAN] /\ queue \in Seq(Commands)
      /\ buffer \in [Streams -> Seq(Items)] /\ Streaming(s) /\ Clear(s)
  BY <1>1, TaskFacts
<1>4. /\ pc' \in [Streams -> Places] /\ reply' \in [Streams -> Replies]
      /\ queue' = queue /\ Channel' /\ Dead'
      /\ pc'[s] = "done" /\ reply'[s].kind = "none"
      /\ \A t \in Streams \ {s} : pc'[t] = pc[t] /\ reply'[t] = reply[t]
  BY <1>1, <1>2, <1>3, DoneFacts
<1>5. Clear(s)' /\ ~Owing(s)
  BY <1>1, <1>3, <1>4 DEF Clear, Owing, Fetching
<1>6. Streaming(s)'
  <2> SUFFICES ASSUME consumer[s] = "open"
               PROVE  Streaming(s)'
    BY <1>3 DEF Streaming
  <2>1. All(s)' = All(s) /\ Ahead(s)' = Ahead(s)
    BY <1>1, <1>3, <1>4 DEF All, Ahead
  <2>2. Complete(s)' \/ Errored(s)'
    BY <1>2, <1>3, <2>1 DEF Streaming, Complete, Errored, RowsTo
  <2> QED
    BY <1>1, <1>3, <1>4, <2>1, <2>2 DEF Streaming, Fetching
<1>7. batch' \in [Streams -> Seq(Nat)] /\ more' \in [Streams -> BOOLEAN] /\ buffer' \in [Streams -> Seq(Items)]
      /\ \A t \in Streams \ {s} : batch'[t] = batch[t] /\ more'[t] = more[t] /\ buffer'[t] = buffer[t]
  BY <1>1, <1>3
<1> QED
  BY <1>1, <1>2, <1>3, <1>4, <1>5, <1>6, <1>7, TaskKeeps

-----------------------------------------------------------------------------
(* The consumer *)

(* Rows from the first, with nothing behind an error.                       *)
RowsOrErr(u) ==
    \/ \A i \in 1..Len(u) : u[i] = Item("row", i)
    \/ /\ Len(u) >= 1 /\ u[Len(u)].kind = "err"
       /\ \A i \in 1..Len(u) - 1 : u[i] = Item("row", i)

(* What was pulled is the beginning of what was sent.                       *)
LEMMA PulledInOrder ==
    ASSUME NEW g \in Seq(Items), NEW b \in Seq(Items), NEW u, u = g \o b, RowsOrErr(u)
    PROVE  \A i \in DOMAIN g : IF g[i].kind = "row" THEN g[i].n = i ELSE i = Len(g)
<1>1. /\ Len(u) = Len(g) + Len(b) /\ Len(g) \in Nat /\ Len(b) \in Nat
      /\ \A i \in 1..Len(g) : u[i] = g[i]
  BY ConcatProperties
<1> SUFFICES ASSUME NEW i \in 1..Len(g)
             PROVE  IF g[i].kind = "row" THEN g[i].n = i ELSE i = Len(g)
  OBVIOUS
<1>2. i \in Nat /\ i <= Len(u) /\ i <= Len(g) /\ 1 <= i /\ u[i] = g[i] /\ Len(u) \in Nat
  BY <1>1
<1>3. \A k \in Nat : Item("row", k).kind = "row" /\ Item("row", k).n = k
  BY ErrItem
<1>4. u[i] = Item("row", i) \/ i = Len(u)
  <2>1. i \in 1..Len(u) /\ (i # Len(u) => i \in 1..Len(u) - 1)
    BY <1>2
  <2> QED
    BY <2>1 DEF RowsOrErr
<1>5. CASE u[i] = Item("row", i)
  BY <1>2, <1>3, <1>5
<1>6. CASE i = Len(u) /\ u[i] # Item("row", i)
  <2>1. i = Len(g)
    BY <1>1, <1>2, <1>6
  <2>2. i \in 1..Len(u)
    BY <1>2
  <2>3. u[i].kind = "err"
    BY <1>6, <2>2 DEF RowsOrErr
  <2> QED
    BY <1>2, <2>1, <2>3
<1> QED
  BY <1>4, <1>5, <1>6

LEMMA ConsumerKeeps ==
    ASSUME Inv, NEW s \in Streams, UNCHANGED Pulling, consumer[s] = "open",
           buffer' \in [Streams -> Seq(Items)], got' \in [Streams -> Seq(Items)],
           consumer' \in [Streams -> {"none", "open", "closed", "ended"}],
           \A t \in Streams \ {s} : buffer'[t] = buffer[t] /\ got'[t] = got[t] /\ consumer'[t] = consumer[t],
           consumer'[s] # "none", consumer'[s] = "ended" => pc[s] = "done",
           Streaming(s)', Honest(s)'
    PROVE  Inv'
<1>1. /\ UNCHANGED <<ask, server, alive>> /\ UNCHANGED <<pc, reply, queue, batch, more>>
      /\ UNCHANGED <<pos, own, stmts, portals>>
  BY DEF Pulling, server
<1>2. Typed'
  BY <1>1 DEF Inv, Typed
<1>3. Channel' /\ Dead'
  BY <1>1 DEF Inv, Channel, Entry, Dead
<1>4. Phase(s)'
  BY <1>1 DEF Inv, Fine, Phase
<1>5. Clear(s)' /\ (Owing(s) => Owing(s)')
  BY <1>1 DEF Inv, Fine, Clear, Owing
<1>6. \A t \in Streams \ {s} : Same(t)
  BY <1>1 DEF Same
<1>7. Fine(s)'
  BY <1>4, <1>5 DEF Fine
<1> QED
  BY <1>1, <1>2, <1>3, <1>5, <1>6, <1>7, LocalKeeps

LEMMA ConsumerFacts ==
    ASSUME Inv, NEW s \in Streams, UNCHANGED Pulling, consumer[s] = "open"
    PROVE  /\ UNCHANGED <<pc, reply, batch, more, pos, ask>>
           /\ buffer \in [Streams -> Seq(Items)] /\ got \in [Streams -> Seq(Items)]
           /\ consumer \in [Streams -> {"none", "open", "closed", "ended"}]
           /\ ask[s].size \in Nat /\ ask[s].rows \in Nat /\ pos[s] \in Nat
           /\ Streaming(s) /\ Honest(s)
           /\ RowsTo(s, Len(All(s))) \/ Errored(s)
           /\ pc[s] = "done" => Complete(s) \/ Errored(s)
<1>1. /\ UNCHANGED <<pc, reply, batch, more, pos, ask>>
      /\ buffer \in [Streams -> Seq(Items)] /\ got \in [Streams -> Seq(Items)]
      /\ consumer \in [Streams -> {"none", "open", "closed", "ended"}]
      /\ ask[s].size \in Nat /\ ask[s].rows \in Nat /\ pos[s] \in Nat
  BY DEF Inv, Typed, Pulling, server
<1>2. Streaming(s) /\ pc[s] \in Fetching \cup Closing /\ Honest(s)
  BY DEF Inv, Fine, Phase, HonestRows, Honest
<1>3. (RowsTo(s, Len(All(s))) \/ Errored(s)) /\ (pc[s] = "done" => Complete(s) \/ Errored(s))
  BY <1>2 DEF Streaming, Fetches, Complete, Closing
<1> QED
  BY <1>1, <1>2, <1>3

LEMMA PullKeeps == ASSUME Inv, NEW s \in Streams, Pull(s) PROVE Inv'
<1>1. /\ consumer[s] = "open" /\ buffer[s] # <<>> /\ UNCHANGED Pulling /\ consumer' = consumer
      /\ got' = [got EXCEPT ![s] = Append(@, Head(buffer[s]))]
      /\ buffer' = [buffer EXCEPT ![s] = Tail(@)]
  BY DEF Pull
<1>2. /\ UNCHANGED <<pc, reply, batch, more, pos, ask>>
      /\ buffer \in [Streams -> Seq(Items)] /\ got \in [Streams -> Seq(Items)]
      /\ consumer \in [Streams -> {"none", "open", "closed", "ended"}]
      /\ ask[s].size \in Nat /\ Streaming(s)
      /\ RowsTo(s, Len(All(s))) \/ Errored(s)
  BY <1>1, ConsumerFacts
<1>3. got[s] \in Seq(Items) /\ buffer[s] \in Seq(Items)
  BY <1>2
<1>4. PICK g, b : g = Append(got[s], Head(buffer[s])) /\ b = Tail(buffer[s])
  OBVIOUS
<1>5. g \in Seq(Items) /\ b \in Seq(Items) /\ Len(b) = Len(buffer[s]) - 1 /\ Len(buffer[s]) \in Nat
  BY <1>1, <1>3, <1>4, PullItem, Zenon
<1>6. g \o b = got[s] \o buffer[s]
  BY <1>1, <1>3, <1>4, PullItem, Zenon
<1>7. got' = [got EXCEPT ![s] = g] /\ buffer' = [buffer EXCEPT ![s] = b]
  BY <1>1, <1>4
<1>8. /\ buffer' \in [Streams -> Seq(Items)] /\ got' \in [Streams -> Seq(Items)]
      /\ got'[s] = g /\ buffer'[s] = b
      /\ \A t \in Streams \ {s} : buffer'[t] = buffer[t] /\ got'[t] = got[t]
  BY <1>2, <1>5, <1>7
<1>9. All(s)' = g \o b /\ All(s)' = All(s)
  BY <1>6, <1>8, Zenon DEF All
<1>10. Ahead(s)' = Ahead(s) /\ Len(b) <= ask[s].size
  <2>1. Len(buffer[s]) <= ask[s].size
    BY <1>1, <1>2 DEF Streaming
  <2> QED
    BY <1>2, <1>5, <2>1 DEF Ahead
<1>11. Streaming(s)'
  BY <1>1, <1>2, <1>8, <1>9, <1>10 DEF Streaming, Fetches, Complete, Errored, RowsTo
<1>12. Honest(s)'
  <2>1. PICK u : u = All(s)
    OBVIOUS
  <2>2. RowsOrErr(u)
    BY <1>2, <2>1, Zenon DEF RowsTo, Errored, RowsOrErr
  <2>3. u = g \o b
    BY <1>9, <2>1, Zenon
  <2>4. \A i \in DOMAIN g : IF g[i].kind = "row" THEN g[i].n = i ELSE i = Len(g)
    BY <1>5, <2>2, <2>3, PulledInOrder, Zenon
  <2> QED
    BY <1>1, <1>8, <2>4 DEF Honest, InOrder
<1> QED
  BY <1>1, <1>2, <1>8, <1>11, <1>12, ConsumerKeeps

LEMMA EndKeeps == ASSUME Inv, NEW s \in Streams, End(s) PROVE Inv'
<1>1. /\ consumer[s] = "open" /\ buffer[s] = <<>> /\ pc[s] = "done" /\ UNCHANGED Pulling
      /\ consumer' = [consumer EXCEPT ![s] = "ended"] /\ got' = got /\ buffer' = buffer
  BY DEF End
<1>2. /\ buffer \in [Streams -> Seq(Items)] /\ got \in [Streams -> Seq(Items)] /\ ask' = ask
      /\ consumer \in [Streams -> {"none", "open", "closed", "ended"}]
      /\ Honest(s) /\ (Complete(s) \/ Errored(s))
  BY <1>1, ConsumerFacts
<1>3. /\ consumer' \in [Streams -> {"none", "open", "closed", "ended"}] /\ consumer'[s] = "ended"
      /\ \A t \in Streams \ {s} : consumer'[t] = consumer[t]
  BY <1>1, <1>2
<1>4. All(s) = got[s] /\ got[s] \in Seq(Items)
  BY <1>1, <1>2, ConcatEmptySeq DEF All
<1>5. \/ Len(got[s]) = ask[s].rows /\ \A i \in DOMAIN got[s] : got[s][i].kind = "row"
      \/ got[s] # <<>> /\ got[s][Len(got[s])].kind = "err"
  <2>1. CASE Complete(s)
    <3>1. Len(got[s]) = ask[s].rows /\ \A i \in 1..Len(got[s]) : got[s][i] = Item("row", i)
      BY <1>4, <2>1 DEF Complete, RowsTo
    <3>2. \A i \in 1..Len(got[s]) : i \in Nat
      BY <1>4
    <3> QED
      BY <1>4, <3>1, <3>2, ErrItem
  <2>2. CASE Errored(s)
    BY <1>4, <2>2 DEF Errored
  <2> QED
    BY <1>2, <2>1, <2>2
<1>6. Honest(s)'
  BY <1>1, <1>2, <1>5 DEF Honest, InOrder
<1> QED
  BY <1>1, <1>2, <1>3, <1>6, ClosedIsFree, ConsumerKeeps

LEMMA CloseKeeps == ASSUME Inv, NEW s \in Streams, Close(s) PROVE Inv'
<1>1. /\ consumer[s] = "open" /\ UNCHANGED Pulling
      /\ consumer' = [consumer EXCEPT ![s] = "closed"] /\ got' = got /\ buffer' = buffer
  BY DEF Close
<1>2. /\ buffer \in [Streams -> Seq(Items)] /\ got \in [Streams -> Seq(Items)]
      /\ consumer \in [Streams -> {"none", "open", "closed", "ended"}] /\ Honest(s)
  BY <1>1, ConsumerFacts
<1>3. /\ consumer' \in [Streams -> {"none", "open", "closed", "ended"}] /\ consumer'[s] = "closed"
      /\ \A t \in Streams \ {s} : consumer'[t] = consumer[t]
  BY <1>1, <1>2
<1>4. Honest(s)'
  BY <1>1, <1>2, <1>3 DEF Honest, InOrder
<1> QED
  BY <1>1, <1>2, <1>3, <1>4, ClosedIsFree, ConsumerKeeps

-----------------------------------------------------------------------------
(* The server *)

LEMMA ServerKeeps ==
    ASSUME Inv, NEW s \in Streams, UNCHANGED <<pc, ask, batch, more, buffer, got, consumer>>,
           reply' \in [Streams -> Replies], queue' \in Seq(Commands), alive' \in BOOLEAN,
           pos' \in [Streams -> Nat], pos'[s] <= ask[s].rows, Channel', Dead',
           \A t \in Streams \ {s} : /\ reply'[t] = reply[t] /\ pos'[t] = pos[t]
                                    /\ t \in stmts' => t \in stmts
                                    /\ t \in portals' => t \in portals,
           pos'[s] # pos[s] => consumer[s] # "none",
           Streaming(s)', Clear(s)',
           own' => Owing(s)' \/ (own /\ ~Owing(s))
    PROVE  Inv'
<1>1. Typed'
  BY DEF Inv, Typed
<1>2. Phase(s)' /\ Honest(s)'
  BY DEF Inv, Fine, Phase, HonestRows, Honest, InOrder
<1>3. \A t \in Streams \ {s} : Same(t)
  BY DEF Same
<1>4. \A t \in Streams : Fine(t) /\ Honest(t)
  BY DEF Inv, HonestRows, Honest
<1>5. \A t \in Streams \ {s} : Fine(t)' /\ Honest(t)' /\ (Owing(t) => Owing(t)')
  BY <1>3, <1>4, SameKeeps
<1>6. Held'
  BY <1>5 DEF Inv, Held
<1>7. HonestRows'
  BY <1>2, <1>5 DEF HonestRows, Honest
<1> QED
  BY <1>1, <1>2, <1>5, <1>6, <1>7 DEF Inv, Fine

LEMMA PortionFacts ==
    ASSUME NEW s, ask[s].rows \in Nat, ask[s].size \in Nat, pos[s] \in Nat, pos[s] <= ask[s].rows
    PROVE  \E n \in Nat :
             /\ n <= ask[s].size /\ pos[s] + n <= ask[s].rows
             /\ Portion(s) \in Replies /\ Portion(s).kind = "ok" /\ Len(Portion(s).rows) = n
             /\ \A k \in 1..n : Portion(s).rows[k] = pos[s] + k
             /\ ~Portion(s).more => pos[s] + n = ask[s].rows
<1>1. PICK a \in Nat, z \in Nat, p \in Nat : a = ask[s].rows /\ z = ask[s].size /\ p = pos[s]
  OBVIOUS
<1>2. PICK n \in Nat : n = IF a - p < z THEN a - p ELSE z
  BY <1>1
<1>3. PICK q : q = [i \in 1..n |-> p + i]
  OBVIOUS
<1>4. Portion(s) = [kind |-> "ok", rows |-> q, more |-> a - p >= z]
  BY <1>1, <1>2, <1>3 DEF Portion
<1>5. q \in Seq(Nat) /\ Len(q) = n /\ \A k \in 1..n : q[k] = p + k
  BY <1>3
<1>6. (a - p >= z) \in BOOLEAN
  BY <1>1
<1>7. /\ Portion(s) \in Replies /\ Portion(s).kind = "ok" /\ Portion(s).rows = q
      /\ Portion(s).more = (a - p >= z)
  BY <1>4, <1>5, <1>6 DEF Replies
<1>8. n <= z /\ p + n <= a /\ (~(a - p >= z) => p + n = a)
  BY <1>1, <1>2
<1> QED
  BY <1>1, <1>5, <1>7, <1>8

(* The next command.                                                        *)
LEMMA NextCommand ==
    ASSUME Inv, queue # <<>>, NEW c, c = Head(queue), queue' = Tail(queue), UNCHANGED <<pc, alive>>,
           \A t \in Streams \ {c.stream} : reply'[t] = reply[t]
    PROVE  /\ c.stream \in Streams /\ c.op \in Ops /\ Entry(c) /\ alive
           /\ queue' \in Seq(Commands) /\ Channel' /\ Dead'
<1>1. queue \in Seq(Commands)
  BY DEF Inv, Typed
<1>2. /\ c \in Commands /\ c = queue[1] /\ queue' \in Seq(Commands) /\ Len(queue) \in Nat
      /\ Len(queue') = Len(queue) - 1 /\ \A i \in 1..Len(queue) - 1 : queue'[i] = queue[i + 1]
  BY <1>1, HeadTailProperties
<1>3. Len(queue) >= 1
  BY <1>1, <1>2, EmptySeq
<1>4. c.stream \in Streams /\ c.op \in Ops
  BY <1>2 DEF Commands
<1>5. 1 \in 1..Len(queue)
  BY <1>2, <1>3
<1>6. Entry(c)
  BY <1>2, <1>5 DEF Inv, Channel
<1>7. alive /\ Dead'
  BY DEF Inv, Dead, Typed
<1>8. ASSUME NEW i \in 1..Len(queue'), NEW d, d = queue'[i]
      PROVE  /\ i + 1 \in 1..Len(queue) /\ d = queue[i + 1] /\ i + 1 # 1
             /\ d.stream \in Streams \ {c.stream} /\ Entry(d)
  <2>1. i + 1 \in 1..Len(queue) /\ d = queue[i + 1] /\ i + 1 # 1
    BY <1>2, <1>3, <1>8
  <2>2. d \in Commands
    BY <1>1, <2>1
  <2>3. d.stream \in Streams
    BY <2>2 DEF Commands
  <2> QED
    BY <1>2, <1>5, <2>1, <2>3 DEF Inv, Channel
<1>9. \A i \in 1..Len(queue') : \A d : d = queue'[i] => Entry(d)'
  BY <1>8 DEF Entry
<1>10. \A i, j \in 1..Len(queue') : i # j => queue'[i].stream # queue'[j].stream
  <2> SUFFICES ASSUME NEW i \in 1..Len(queue'), NEW j \in 1..Len(queue'), i # j
               PROVE  queue'[i].stream # queue'[j].stream
    OBVIOUS
  <2>1. i + 1 # j + 1
    BY <1>2
  <2>2. /\ i + 1 \in 1..Len(queue) /\ queue'[i] = queue[i + 1]
        /\ j + 1 \in 1..Len(queue) /\ queue'[j] = queue[j + 1]
    BY <1>8
  <2> QED
    BY <2>1, <2>2 DEF Inv, Channel
<1>11. Channel'
  BY <1>9, <1>10, EntriesHold DEF Channel
<1> QED
  BY <1>2, <1>4, <1>6, <1>7, <1>11

(* What a command that works does to its stream, and to the others.         *)
LEMMA EffectFacts ==
    ASSUME Inv, NEW c, c.stream \in Streams, c.op \in Ops, Effect(c)
    PROVE  /\ \A t \in Streams \ {c.stream} :
                 pos'[t] = pos[t] /\ (t \in stmts' => t \in stmts) /\ (t \in portals' => t \in portals)
           /\ c.op # "execute" => pos' = pos
           /\ c.op = "execute" => pos' = [pos EXCEPT ![c.stream] = @ + Len(Portion(c.stream).rows)]
           /\ c.op # "prepare" /\ c.stream \in stmts' => c.stream \in stmts
           /\ c.op # "bind" /\ c.stream \in portals' => c.stream \in portals
           /\ c.op \in {"close stmt", "undo stmt", "fail stmt"} => c.stream \notin stmts'
           /\ c.op = "close portal" => c.stream \notin portals'
           /\ c.op \in {"commit", "fail commit"} => ~own'
           /\ c.op # "begin" /\ own' => own
<1>0. pos \in [Streams -> Nat]
  BY DEF Inv, Typed
<1>1. CASE c.op = "prepare"
  BY <1>1 DEF Effect
<1>2. CASE c.op = "begin"
  BY <1>2 DEF Effect
<1>3. CASE c.op = "bind"
  BY <1>3 DEF Effect
<1>4. CASE c.op = "execute"
  BY <1>0, <1>4 DEF Effect
<1>5. CASE c.op = "close portal"
  BY <1>5 DEF Effect
<1>6. CASE c.op \in {"close stmt", "undo stmt", "fail stmt"}
  BY <1>6 DEF Effect
<1>7. CASE c.op \in {"commit", "fail commit"}
  BY <1>7 DEF Effect, NoTx
<1> QED
  BY <1>1, <1>2, <1>3, <1>4, <1>5, <1>6, <1>7 DEF Ops, CallOps, TaskOps

LEMMA ExecuteOutcome ==
    ASSUME Execute, NEW c, c = Head(queue)
    PROVE  /\ queue # <<>> /\ queue' = Tail(queue)
           /\ UNCHANGED <<pc, ask, batch, more, buffer, got, consumer, alive>>
           /\ \E r : /\ reply' = IF pc[c.stream] = c.op THEN [reply EXCEPT ![c.stream] = r] ELSE reply
                     /\ \/ Effect(c) /\ r = IF c.op = "execute" THEN Portion(c.stream) ELSE OkReply
                        \/ /\ Aborts /\ r = ErrReply
                           /\ c.op \in {"prepare", "begin", "bind", "execute"}
<1>1. ~Works(c) => c.op \in {"prepare", "begin", "bind", "execute"}
  BY DEF Works
<1> QED
  BY <1>1 DEF Execute

LEMMA ExecuteKeeps == ASSUME Inv, Execute PROVE Inv'
<1>1. PICK c : c = Head(queue)
  OBVIOUS
<1>2. /\ queue # <<>> /\ queue' = Tail(queue)
      /\ UNCHANGED <<pc, ask, batch, more, buffer, got, consumer, alive>>
  BY <1>1, ExecuteOutcome
<1>3. PICK r : /\ reply' = IF pc[c.stream] = c.op THEN [reply EXCEPT ![c.stream] = r] ELSE reply
               /\ \/ Effect(c) /\ r = IF c.op = "execute" THEN Portion(c.stream) ELSE OkReply
                  \/ /\ Aborts /\ r = ErrReply
                     /\ c.op \in {"prepare", "begin", "bind", "execute"}
  BY <1>1, ExecuteOutcome
<1>4. /\ reply \in [Streams -> Replies] /\ pc \in [Streams -> Places] /\ pos \in [Streams -> Nat]
      /\ batch \in [Streams -> Seq(Nat)] /\ alive' \in BOOLEAN
  BY <1>2 DEF Inv, Typed
<1>5. \A t \in Streams \ {c.stream} : reply'[t] = reply[t]
  BY <1>3, <1>4
<1>6. /\ c.stream \in Streams /\ c.op \in Ops /\ Entry(c) /\ alive
      /\ queue' \in Seq(Commands) /\ Channel' /\ Dead'
  BY <1>1, <1>2, <1>5, NextCommand
<1>7. PICK s \in Streams, op \in Ops : s = c.stream /\ op = c.op
  BY <1>6
<1>8. /\ ask[s].rows \in Nat /\ ask[s].size \in Nat /\ pos[s] \in Nat /\ pos[s] <= ask[s].rows
      /\ Phase(s) /\ Streaming(s) /\ Clear(s)
  BY <1>7 DEF Inv, Typed, Fine
<1>9. PICK n \in Nat :
         /\ n <= ask[s].size /\ pos[s] + n <= ask[s].rows
         /\ Portion(s) \in Replies /\ Portion(s).kind = "ok" /\ Len(Portion(s).rows) = n
         /\ \A k \in 1..n : Portion(s).rows[k] = pos[s] + k
         /\ ~Portion(s).more => pos[s] + n = ask[s].rows
  BY <1>8, PortionFacts
<1>10. r \in Replies /\ r.kind \in {"ok", "err"}
  BY <1>3, <1>7, <1>9, ReplyFacts
(* What the server does to its own state, worked or refused.                *)
<1>11. /\ \A t \in Streams \ {s} :
             pos'[t] = pos[t] /\ (t \in stmts' => t \in stmts) /\ (t \in portals' => t \in portals)
       /\ op # "execute" => pos' = pos
       /\ pos' = pos \/ pos' = [pos EXCEPT ![s] = @ + n]
       /\ op # "prepare" /\ s \in stmts' => s \in stmts
       /\ op # "bind" /\ s \in portals' => s \in portals
       /\ r.kind = "err" => stmts' = stmts /\ portals' = portals /\ pos' = pos
       /\ op \in {"close stmt", "undo stmt", "fail stmt"} => s \notin stmts'
       /\ op = "close portal" => s \notin portals'
       /\ op \in {"commit", "fail commit"} => ~own'
       /\ (op # "begin" \/ r.kind = "err") /\ own' => own
       /\ op = "execute" /\ r.kind = "ok" => r = Portion(s) /\ pos' = [pos EXCEPT ![s] = @ + n]
  <2>1. CASE Effect(c) /\ r = IF c.op = "execute" THEN Portion(c.stream) ELSE OkReply
    <3>1. r.kind = "ok" /\ (op = "execute" => r = Portion(s))
      BY <1>7, <1>9, <2>1, ReplyFacts
    <3> QED
      BY <1>6, <1>7, <1>9, <2>1, <3>1, EffectFacts
  <2>2. CASE Aborts /\ r = ErrReply /\ c.op \in {"prepare", "begin", "bind", "execute"}
    <3>1. r.kind = "err" /\ UNCHANGED <<own, stmts, portals, pos>>
      BY <2>2, ReplyFacts DEF Aborts
    <3>2. op \in {"prepare", "begin", "bind", "execute"}
      BY <1>7, <2>2
    <3> QED
      BY <3>1, <3>2
  <2> QED
    BY <1>3, <2>1, <2>2
<1>12. pos' \in [Streams -> Nat] /\ pos'[s] <= ask[s].rows /\ (pos'[s] # pos[s] => pos' # pos)
  <2>1. pos[s] + n \in Nat
    BY <1>8
  <2>2. pos'[s] = pos[s] \/ pos'[s] = pos[s] + n
    BY <1>4, <1>11
  <2>3. pos' \in [Streams -> Nat]
    BY <1>4, <1>11, <2>1
  <2> QED
    BY <1>8, <1>9, <2>2, <2>3
<1>13. CASE pc[s] = "dropped" /\ op \in CallOps
  <2>1. pc[s] # op /\ op # "execute" /\ consumer[s] = "none"
    BY <1>8, <1>13 DEF CallOps, Phase, Fetching, Closing
  <2>2. reply' = reply /\ pos' = pos
    BY <1>3, <1>7, <1>11, <2>1
  <2>3. Clear(s)' /\ Owing(s)' /\ Streaming(s)'
    BY <1>2, <1>13, <2>1, ClosedIsFree DEF Clear, Owing
  <2> QED
    BY <1>2, <1>4, <1>6, <1>11, <1>12, <2>2, <2>3, ServerKeeps
<1>14. CASE pc[s] = op /\ reply[s].kind = "none"
  <2>1. reply' = [reply EXCEPT ![s] = r]
    BY <1>3, <1>7, <1>14
  <2>2. reply' \in [Streams -> Replies] /\ reply'[s] = r /\ \A t \in Streams \ {s} : reply'[t] = reply[t]
    BY <1>4, <1>10, <2>1
  <2>3. pc'[s] = op
    BY <1>2, <1>14
  <2>4. Clear(s)'
    <3>1. ASSUME s \in stmts'
          PROVE  /\ pc'[s] \notin {"idle", "fail commit", "failed", "commit", "done"}
                 /\ pc'[s] = "prepare" => reply'[s].kind = "ok"
                 /\ pc'[s] \in {"undo stmt", "fail stmt", "close stmt"} => reply'[s].kind = "none"
      <4>1. CASE op = "prepare"
        BY <1>8, <1>10, <1>11, <1>14, <2>2, <2>3, <3>1, <4>1 DEF Clear
      <4>2. CASE op # "prepare"
        BY <1>8, <1>11, <1>14, <2>3, <3>1, <4>2 DEF Clear
      <4> QED
        BY <4>1, <4>2
    <3>2. ASSUME s \in portals'
          PROVE  \/ pc'[s] \in Fetching \cup {"dropped"}
                 \/ pc'[s] = "bind" /\ reply'[s].kind = "ok"
      <4>1. CASE op = "bind"
        BY <1>8, <1>10, <1>11, <1>14, <2>2, <2>3, <3>2, <4>1 DEF Clear, Fetching
      <4>2. CASE op # "bind"
        BY <1>8, <1>11, <1>14, <2>3, <3>2, <4>2 DEF Clear
      <4> QED
        BY <4>1, <4>2
    <3> QED
      BY <3>1, <3>2 DEF Clear
  <2>5. own' => Owing(s)' \/ (own /\ ~Owing(s))
    <3> SUFFICES ASSUME own', Owing(s)
                 PROVE  Owing(s)' \/ (own /\ ~Owing(s))
      BY <1>10, <1>11, <1>14, <2>2, <2>3 DEF Owing
    <3> QED
      BY <1>11, <1>14, <2>2, <2>3 DEF Owing
  <2>6. pos'[s] # pos[s] => consumer[s] # "none"
    BY <1>8, <1>11, <1>14 DEF Phase, CallOps
  <2>7. Streaming(s)'
    <3>1. CASE consumer[s] # "open"
      BY <1>2, <3>1, ClosedIsFree
    <3>2. CASE consumer[s] = "open" /\ ~(op = "execute" /\ r.kind = "ok")
      <4>1. pos' = pos
        BY <1>10, <1>11, <3>2
      <4>2. All(s)' = All(s) /\ Ahead(s)' = Ahead(s)
        BY <1>2, <1>14, <2>2, <3>2 DEF All, Ahead
      <4> QED
        BY <1>2, <1>8, <1>14, <2>2, <2>3, <3>2, <4>1, <4>2 DEF Streaming, Fetches, Complete, Errored, RowsTo
    <3>3. CASE consumer[s] = "open" /\ op = "execute" /\ r.kind = "ok"
      <4>1. r = Portion(s) /\ pos'[s] = pos[s] + n
        BY <1>4, <1>11, <3>3
      <4>2. Fetches(s) /\ batch[s] = <<>> /\ Ahead(s) = <<>> /\ Len(buffer[s]) <= ask[s].size
        BY <1>8, <1>14, <3>3 DEF Streaming, Fetches, Ahead, Fetching
      <4>3. All(s) \in Seq(Items) /\ Len(All(s)) \in Nat /\ pos[s] = Len(All(s)) + Len(Ahead(s))
            /\ RowsTo(s, Len(All(s)))
        <5>1. got[s] \in Seq(Items) /\ buffer[s] \in Seq(Items)
          BY DEF Inv, Typed
        <5>2. All(s) \in Seq(Items)
          BY <5>1, ConcatProperties DEF All
        <5> QED
          BY <4>2, <5>2 DEF Fetches
      <4>4. pos[s] = Len(All(s))
        <5>1. Len(Ahead(s)) = 0
          BY <4>2
        <5> QED
          BY <1>8, <4>3, <5>1
      <4>5. All(s)' = All(s) /\ Ahead(s)' = r.rows
        BY <1>2, <1>14, <2>2, <3>3 DEF All, Ahead
      <4>6. /\ Len(r.rows) = n /\ n <= ask[s].size /\ \A k \in 1..n : r.rows[k] = Len(All(s)) + k
            /\ pos'[s] = Len(All(s)) + n /\ pos'[s] <= ask[s].rows
            /\ ~r.more => pos'[s] = ask[s].rows
        BY <1>9, <1>12, <4>1, <4>4
      <4>7. pc'[s] = "execute" /\ reply'[s] = r /\ r.kind = "ok"
        BY <2>2, <2>3, <3>3
      <4>8. Fetches(s)'
        BY <1>2, <4>2, <4>3, <4>5, <4>6, <4>7 DEF Fetches, RowsTo
      <4>9. pos'[s] <= Len(All(s)) + n
        BY <1>4, <4>3, <4>6
      <4> QED
        BY <1>2, <4>2, <4>5, <4>6, <4>7, <4>8, <4>9 DEF Streaming, Closing
    <3> QED
      BY <3>1, <3>2, <3>3
  <2> QED
    BY <1>2, <1>4, <1>6, <1>11, <1>12, <2>2, <2>4, <2>5, <2>6, <2>7, ServerKeeps
<1> QED
  BY <1>6, <1>7, <1>13, <1>14 DEF Entry

(* A step that leaves every stream as it is, on a server that has less.     *)
LEMMA NothingGained ==
    ASSUME Inv, \A t \in Streams : Same(t), ask' = ask, pos' = pos,
           \A t \in Streams : (t \in stmts' => t \in stmts) /\ (t \in portals' => t \in portals),
           own' => own, Typed', Channel', Dead'
    PROVE  Inv'
<1>1. \A t \in Streams : Fine(t) /\ Honest(t)
  BY DEF Inv, HonestRows, Honest
<1>2. \A t \in Streams : Fine(t)' /\ Honest(t)' /\ (Owing(t) => Owing(t)')
  BY <1>1, SameKeeps
<1> QED
  BY <1>2 DEF Inv, Held, HonestRows, Honest

LEMMA OtherKeeps == ASSUME Inv, Other PROVE Inv'
<1>1. /\ alive /\ UNCHANGED <<pc, ask, reply, queue, batch, more, buffer, got, consumer, alive>>
      /\ UNCHANGED <<stmts, pos>> /\ (own' => own) /\ (portals' = portals \/ portals' = {})
  BY DEF Other, Aborts, NoTx
<1>2. Typed' /\ Channel' /\ Dead'
  BY <1>1 DEF Inv, Typed, Channel, Entry, Dead
<1>3. \A t \in Streams : Same(t)
  BY <1>1 DEF Same
<1> QED
  BY <1>1, <1>2, <1>3, NothingGained

(* A break answers every command with an error.                             *)
LEMMA DieKeeps == ASSUME Inv, Die PROVE Inv'
<1>1. /\ UNCHANGED <<pc, ask, batch, more, buffer, got, consumer, pos>>
      /\ queue' = <<>> /\ alive' = FALSE /\ stmts' = {} /\ portals' = {} /\ own' = FALSE
      /\ reply' = [s \in Streams |-> IF Waiting(s) /\ reply[s].kind = "none" THEN ErrReply ELSE reply[s]]
  BY DEF Die
<1>2. \A s \in Streams : /\ reply'[s] = reply[s] \/ (reply'[s] = ErrReply /\ reply[s].kind = "none")
                         /\ reply'[s] \in Replies
  <2>1. reply \in [Streams -> Replies]
    BY DEF Inv, Typed
  <2> QED
    BY <1>1, <2>1, ReplyFacts
<1>3. Typed'
  <2>1. reply' \in [Streams -> Replies]
    BY <1>1, <1>2
  <2>2. queue' \in Seq(Commands)
    BY <1>1
  <2> QED
    BY <1>1, <2>1, <2>2 DEF Inv, Typed
<1>4. Channel' /\ Dead' /\ Held'
  BY <1>1 DEF Channel, Dead, Held
<1>5. ASSUME NEW s \in Streams
      PROVE  Fine(s)' /\ Honest(s)'
  <2>1. Fine(s) /\ Honest(s)
    BY DEF Inv, HonestRows, Honest
  <2>2. Phase(s)' /\ Clear(s)' /\ Honest(s)'
    BY <1>1, <2>1 DEF Fine, Phase, Clear, Honest, InOrder
  <2>3. All(s)' = All(s) /\ Ahead(s)' = Ahead(s)
    BY <1>1, <1>2, ReplyFacts DEF All, Ahead
  <2>4. reply'[s].kind = "ok" => reply'[s] = reply[s]
    BY <1>2, ReplyFacts
  <2>5. Streaming(s)'
    BY <1>1, <2>1, <2>3, <2>4 DEF Fine, Streaming, Fetches, Complete, Errored, RowsTo
  <2> QED
    BY <2>2, <2>5 DEF Fine
<1>6. HonestRows'
  BY <1>5 DEF HonestRows, Honest
<1> QED
  BY <1>3, <1>4, <1>5, <1>6 DEF Inv

-----------------------------------------------------------------------------
(* The theorems *)

LEMMA Starts == Init => Inv
<1> SUFFICES ASSUME Init
             PROVE  Inv
  OBVIOUS
<1>1. Typed
  <2>1. \A s \in Streams : ask[s].rows \in Nat /\ ask[s].size \in Nat
    BY StreamAssumption DEF Init
  <2>2. \A s \in Streams : pos[s] = 0
    BY DEF Init
  <2>3. reply \in [Streams -> Replies]
    BY ReplyFacts DEF Init
  <2>4. <<>> \in Seq(Nat) /\ <<>> \in Seq(Items) /\ <<>> \in Seq(Commands)
    OBVIOUS
  <2> QED
    BY <2>1, <2>2, <2>3, <2>4 DEF Init, Typed, Places
<1>2. Channel /\ Dead /\ Held
  BY DEF Init, Channel, Dead, Held
<1>3. ASSUME NEW s \in Streams
      PROVE  Fine(s) /\ Honest(s)
  <2>1. Phase(s)
    BY DEF Init, Phase
  <2>2. Streaming(s) /\ Clear(s)
    BY DEF Init, Streaming, Clear
  <2>3. Honest(s)
    BY DEF Init, Honest, InOrder
  <2> QED
    BY <2>1, <2>2, <2>3 DEF Fine
<1> QED
  BY <1>1, <1>2, <1>3 DEF Inv, HonestRows, Honest

LEMMA Steps == Inv /\ [Next]_vars => Inv'
<1> SUFFICES ASSUME Inv, [Next]_vars
             PROVE  Inv'
  OBVIOUS
<1>1. ASSUME NEW s \in Streams, Start(s) \/ Call(s) \/ DropCall(s)
      PROVE  Inv'
  BY <1>1, StartKeeps, AfterPrepare, AfterBegin, AfterBind, CallFails, BoundKeeps, DropCallKeeps
     DEF Call
<1>2. ASSUME NEW s \in Streams, Task(s)
      PROVE  Inv'
  BY <1>2, FetchKeeps, FetchedKeeps, FetchFailsKeeps, DeliverKeeps, BatchDoneKeeps, CleanupKeeps,
     CleanedUpKeeps DEF Task
<1>3. ASSUME NEW s \in Streams, Pull(s) \/ End(s) \/ Close(s)
      PROVE  Inv'
  BY <1>3, PullKeeps, EndKeeps, CloseKeeps
<1>4. CASE Execute \/ Other \/ Die
  BY <1>4, ExecuteKeeps, OtherKeeps, DieKeeps
<1>5. CASE UNCHANGED vars
  <2>1. UNCHANGED <<pc, ask, reply, queue, batch, more, buffer, got, consumer, alive>>
        /\ UNCHANGED <<own, stmts, portals, pos>>
    BY <1>5 DEF vars, server
  <2>2. Typed' /\ Channel' /\ Dead'
    BY <2>1 DEF Inv, Typed, Channel, Entry, Dead
  <2>3. \A t \in Streams : Same(t)
    BY <2>1 DEF Same
  <2> QED
    BY <2>1, <2>2, <2>3, NothingGained
<1> QED
  BY <1>1, <1>2, <1>3, <1>4, <1>5 DEF Next

LEMMA Always == Spec => []Inv
<1> QED
  BY Starts, Steps, PTL DEF Spec

(* The consumer of every stream sees the rows of its own result in order,   *)
(* without a gap, nothing after an error, and an end only when every row or *)
(* an error came first: whatever the other streams and calls of the Session *)
(* do to the transaction and its portals, whenever the connection breaks.   *)
THEOREM StreamsAreHonest == Spec => []HonestRows
<1>1. Inv => HonestRows
  BY DEF Inv
<1> QED
  BY <1>1, Always, PTL

(* drive_stream never fetches more than two batches ahead of its consumer,  *)
(* for every batch size: the bound on its memory, which is twice what        *)
(* 04-prepared-and-streaming.md:82 lets one expect.                          *)
THEOREM BackpressureHolds == Spec => []FetchedAhead
<1>1. ASSUME Inv, NEW s \in Streams, consumer[s] = "open"
      PROVE  pos[s] - Len(got[s]) <= 2 * ask[s].size
  <2>1. /\ ask[s].size \in Nat /\ pos[s] \in Nat
        /\ Len(buffer[s]) <= ask[s].size /\ Len(Ahead(s)) <= ask[s].size
        /\ pos[s] <= Len(All(s)) + Len(Ahead(s))
    BY <1>1 DEF Inv, Typed, Fine, Streaming
  <2>2. got \in [Streams -> Seq(Items)] /\ buffer \in [Streams -> Seq(Items)]
        /\ reply \in [Streams -> Replies] /\ batch \in [Streams -> Seq(Nat)]
    BY <1>1 DEF Inv, Typed
  <2>3. PICK g \in Seq(Items), b \in Seq(Items) : g = got[s] /\ b = buffer[s]
    BY <2>2
  <2>4. Len(g \o b) = Len(g) + Len(b) /\ Len(g) \in Nat /\ Len(b) \in Nat
    BY <2>3, ConcatProperties
  <2>5. PICK a \in Seq(Nat) : a = Ahead(s)
    <3>1. reply[s].rows \in Seq(Nat) /\ batch[s] \in Seq(Nat)
      BY <2>2 DEF Replies
    <3> QED
      BY <3>1 DEF Ahead
  <2>6. Len(a) \in Nat
    BY <2>5
  <2>7. All(s) = g \o b
    BY <2>3 DEF All
  <2>8. pos[s] <= (Len(g) + Len(b)) + Len(a) /\ Len(b) <= ask[s].size /\ Len(a) <= ask[s].size
    BY <2>1, <2>3, <2>4, <2>5, <2>7
  <2>9. pos[s] - Len(g) <= 2 * ask[s].size
    BY <2>1, <2>4, <2>6, <2>8, SMTT(20)
  <2> QED
    BY <2>3, <2>9
<1>2. Inv => FetchedAhead
  BY <1>1 DEF FetchedAhead
<1> QED
  BY <1>2, Always, PTL

(* A stream that is over, drained, dropped by its consumer or failed, has   *)
(* left no portal and no statement on the server, and no transaction that   *)
(* another stream is not still to end.                                      *)
THEOREM StreamsCleanUp == Spec => []LeavesNothing
<1>1. ASSUME Inv, NEW s \in Streams, pc[s] \in {"done", "failed"}
      PROVE  /\ s \notin stmts /\ s \notin portals
             /\ own => \E t \in Streams \ {s} : pc[t] \notin {"idle", "done", "failed"}
  <2>1. s \notin stmts /\ s \notin portals
    BY <1>1 DEF Inv, Fine, Clear, Fetching
  <2>2. \A t \in Streams : Owing(t) => pc[t] \notin {"idle", "done", "failed"}
    BY DEF Owing, Fetching
  <2>3. own => \E t \in Streams : Owing(t)
    BY <1>1 DEF Inv, Held
  <2> QED
    BY <1>1, <2>1, <2>2, <2>3
<1>2. Inv => LeavesNothing
  BY <1>1 DEF LeavesNothing
<1> QED
  BY <1>2, Always, PTL
=============================================================================
