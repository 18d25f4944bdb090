------------------------------ MODULE RowStream ------------------------------
(***************************************************************************)
(* Session::stream_with_batch_size and the task it leaves behind           *)
(* (crates/core/src/session/stream.rs): a temporary statement, an implicit *)
(* transaction, a portal read in batches, a bounded channel of rows, and   *)
(* the clean-up, with several streams and other calls on one Session.      *)
(*                                                                         *)
(* A command takes effect on the server in one step, in the order of the   *)
(* command channel: Driver shows that its reply is its own.  Rows are      *)
(* numbered, and a row that the decoder rejects is a number of its own.    *)
(***************************************************************************)
EXTENDS Naturals, Sequences, FiniteSets

CONSTANTS
    Streams,        \* the calls of stream_with_batch_size
    Asks,           \* Asks[s] : what s may ask for: the rows of its result, its batch
                    \* size (0 stands for any that is refused), the row that does not
                    \* decode (0 if all do)
    MaxOthers,      \* other statements on the session
    MaxDrops,       \* futures dropped before they return the stream
    MayDie          \* the connection may break

ASSUME StreamAssumption ==
    /\ \A s \in Streams : \A a \in Asks[s] : a.rows \in Nat /\ a.size \in Nat /\ a.bad \in Nat
    /\ MayDie \in BOOLEAN

VARIABLES
    pc,         \* pc[s] : the command s waits for, or where it is
    ask,        \* ask[s] : what s asked for
    reply,      \* reply[s] : what the driver answered
    queue,      \* the command channel
    batch,      \* batch[s] : rows fetched and not yet sent on
    more,       \* more[s] : the portal was suspended
    buffer,     \* buffer[s] : the channel to the consumer
    got,        \* got[s] : items the consumer has pulled
    consumer,   \* consumer[s] : "none", "open", "closed" (stops), "ended" (saw the end)
    tx,         \* the server's transaction: "none", "open", "failed"
    own,        \* own : the transaction began for a stream
    stmts,      \* the server's temporary statements
    portals,    \* the server's portals
    pos,        \* pos[s] : rows the portal has given
    alive, others, drops

server == <<tx, own, stmts, portals, pos>>
vars == <<pc, ask, reply, queue, batch, more, buffer, got, consumer, server, alive, others, drops>>

Row(s, i) == IF i = ask[s].bad THEN "bad" ELSE "row"
Item(k, i) == [kind |-> k, n |-> i]
NoReply == [kind |-> "none", rows |-> <<>>, more |-> FALSE]
OkReply == [NoReply EXCEPT !.kind = "ok"]
ErrReply == [NoReply EXCEPT !.kind = "err"]

Init ==
    /\ pc = [s \in Streams |-> "idle"]
    /\ ask \in {f \in [Streams -> UNION {Asks[s] : s \in Streams}] : \A s \in Streams : f[s] \in Asks[s]}
    /\ reply = [s \in Streams |-> NoReply]
    /\ queue = <<>>
    /\ batch = [s \in Streams |-> <<>>] /\ more = [s \in Streams |-> FALSE]
    /\ buffer = [s \in Streams |-> <<>>] /\ got = [s \in Streams |-> <<>>]
    /\ consumer = [s \in Streams |-> "none"]
    /\ tx = "none" /\ own = FALSE /\ stmts = {} /\ portals = {}
    /\ pos = [s \in Streams |-> 0]
    /\ alive = TRUE /\ others = 0 /\ drops = 0

-----------------------------------------------------------------------------
(* Commands *)

(* A command is sent and its reply awaited; a closed channel refuses it.   *)
Issue(s, op) ==
    /\ pc' = [pc EXCEPT ![s] = op]
    /\ queue' = IF alive THEN Append(queue, [stream |-> s, op |-> op]) ELSE queue
    /\ reply' = [reply EXCEPT ![s] = IF alive THEN NoReply ELSE ErrReply]
Done(s, at) == pc' = [pc EXCEPT ![s] = at] /\ reply' = [reply EXCEPT ![s] = NoReply] /\ UNCHANGED queue
On(s, op, kind) == pc[s] = op /\ reply[s].kind = kind
Await == <<ask, buffer, got, batch, more, server, alive, others, drops>>

-----------------------------------------------------------------------------
(* Session::stream_with_batch_size and RowStream::start *)

(* The temporary statement is prepared.                                    *)
Start(s) == pc[s] = "idle" /\ Issue(s, "prepare") /\ UNCHANGED <<consumer, Await>>
PrepareFails(s) == On(s, "prepare", "err") /\ Done(s, "failed") /\ UNCHANGED <<consumer, Await>>

(* The columns match the decoder, or the statement is closed again.        *)
Prepared(s) == On(s, "prepare", "ok") /\ Issue(s, "begin") /\ UNCHANGED <<consumer, Await>>
Mismatch(s) == On(s, "prepare", "ok") /\ Issue(s, "undo stmt") /\ UNCHANGED <<consumer, Await>>
BeginFails(s) == On(s, "begin", "err") /\ Issue(s, "undo stmt") /\ UNCHANGED <<consumer, Await>>
Undone(s) ==
    /\ pc[s] = "undo stmt" /\ reply[s].kind # "none"
    /\ Done(s, "failed") /\ UNCHANGED <<consumer, Await>>

(* The batch size is checked here, with the transaction already open.      *)
Begun(s) ==
    /\ On(s, "begin", "ok")
    /\ Issue(s, IF ask[s].size = 0 THEN "fail stmt" ELSE "bind")
    /\ UNCHANGED <<consumer, Await>>
BindFails(s) == On(s, "bind", "err") /\ Issue(s, "fail stmt") /\ UNCHANGED <<consumer, Await>>
(* FailStmtNoCommit leaves the transaction open.                           *)
FailStmtNoCommit(s) ==
    /\ pc[s] = "fail stmt" /\ reply[s].kind # "none"
    /\ Done(s, "failed") /\ UNCHANGED <<consumer, Await>>
FailStmt(s) ==
    /\ pc[s] = "fail stmt" /\ reply[s].kind # "none"
    /\ Issue(s, "fail commit") /\ UNCHANGED <<consumer, Await>>
FailCommit(s) ==
    /\ pc[s] = "fail commit" /\ reply[s].kind # "none"
    /\ Done(s, "failed") /\ UNCHANGED <<consumer, Await>>

(* drive_stream is spawned and the caller has its RowStream.               *)
Bound(s) ==
    /\ On(s, "bind", "ok") /\ Done(s, "check")
    /\ consumer' = [consumer EXCEPT ![s] = "open"] /\ UNCHANGED Await

(* The caller drops the future before it returns: nothing is undone.       *)
DropCall(s) ==
    /\ drops < MaxDrops /\ drops' = drops + 1
    /\ pc[s] \in {"prepare", "undo stmt", "begin", "bind", "fail stmt", "fail commit"}
    /\ Done(s, "dropped")
    /\ UNCHANGED <<ask, buffer, got, batch, more, server, alive, others, consumer>>

-----------------------------------------------------------------------------
(* drive_stream *)

Closed(s) == consumer[s] = "closed"
Fields == <<ask, got, server, alive, others, drops, consumer>>

(* is_closed is looked at before every batch and before every row.         *)
Fetch(s) ==
    /\ pc[s] = "check" /\ Issue(s, IF Closed(s) THEN "close portal" ELSE "execute")
    /\ UNCHANGED <<Fields, batch, more, buffer>>

(* The channel of rows holds one batch.                                    *)
RoomAlways(s) == TRUE
Room(s) == Len(buffer[s]) < ask[s].size

(* row_tx.send waits for room, and fails once the consumer has gone.       *)
Fetched(s) ==
    /\ On(s, "execute", "ok") /\ Done(s, "deliver")
    /\ batch' = [batch EXCEPT ![s] = reply[s].rows] /\ more' = [more EXCEPT ![s] = reply[s].more]
    /\ UNCHANGED <<Fields, buffer>>
FetchFails(s) ==
    /\ On(s, "execute", "err") /\ (Room(s) \/ Closed(s)) /\ Issue(s, "close portal")
    /\ buffer' = IF Closed(s) THEN buffer ELSE [buffer EXCEPT ![s] = Append(@, Item("err", 0))]
    /\ UNCHANGED <<Fields, batch, more>>

(* One row.  A row that does not decode is sent as an error, and is the    *)
(* last.                                                                   *)
Stops(s, i) == Row(s, i) = "bad"
Sent(s, i) == IF Row(s, i) = "bad" THEN Item("err", 0) ELSE Item("row", i)
DeliverWhen(s, ready) ==
    /\ pc[s] = "deliver" /\ batch[s] # <<>> /\ ready
    /\ IF Closed(s)
       THEN Issue(s, "close portal") /\ UNCHANGED <<batch, buffer>>
       ELSE /\ batch' = [batch EXCEPT ![s] = Tail(@)]
            /\ buffer' = [buffer EXCEPT ![s] = Append(@, Sent(s, Head(batch[s])))]
            /\ IF Stops(s, Head(batch[s]))
               THEN Issue(s, "close portal")
               ELSE UNCHANGED <<pc, reply, queue>>
    /\ UNCHANGED <<Fields, more>>
DeliverBlocks(s) == DeliverWhen(s, Room(s))
Deliver(s) == DeliverWhen(s, Room(s) \/ Closed(s))

(* The batch is done: has_more decides.  BatchDoneShort takes every batch  *)
(* for the last.                                                           *)
BatchDoneShort(s) ==
    /\ pc[s] = "deliver" /\ batch[s] = <<>>
    /\ Issue(s, "close portal")
    /\ UNCHANGED <<Fields, batch, more, buffer>>
BatchDone(s) ==
    /\ pc[s] = "deliver" /\ batch[s] = <<>>
    /\ IF more[s] THEN Done(s, "check") ELSE Issue(s, "close portal")
    /\ UNCHANGED <<Fields, batch, more, buffer>>

(* cleanup_stream: the portal, the statement, the transaction, each reply  *)
(* awaited and dropped.  The channel of rows closes when it is over.       *)
CleanupStmt(s) ==
    /\ pc[s] = "close portal" /\ reply[s].kind # "none"
    /\ Issue(s, "close stmt") /\ UNCHANGED <<Fields, batch, more, buffer>>
CleanupCommit(s) ==
    /\ pc[s] = "close stmt" /\ reply[s].kind # "none"
    /\ Issue(s, "commit") /\ UNCHANGED <<Fields, batch, more, buffer>>
CleanedUp(s) ==
    /\ pc[s] = "commit" /\ reply[s].kind # "none"
    /\ Done(s, "done") /\ UNCHANGED <<Fields, batch, more, buffer>>

-----------------------------------------------------------------------------
(* The consumer *)

Pulling == <<pc, ask, reply, queue, batch, more, server, alive, others, drops>>
Pull(s) ==
    /\ consumer[s] = "open" /\ buffer[s] # <<>>
    /\ got' = [got EXCEPT ![s] = Append(@, Head(buffer[s]))]
    /\ buffer' = [buffer EXCEPT ![s] = Tail(@)] /\ UNCHANGED <<consumer, Pulling>>
End(s) ==
    /\ consumer[s] = "open" /\ buffer[s] = <<>> /\ pc[s] = "done"
    /\ consumer' = [consumer EXCEPT ![s] = "ended"] /\ UNCHANGED <<got, buffer, Pulling>>

(* RowStream::close, or drop.                                              *)
Close(s) ==
    /\ consumer[s] = "open" /\ consumer' = [consumer EXCEPT ![s] = "closed"]
    /\ UNCHANGED <<got, buffer, Pulling>>

-----------------------------------------------------------------------------
(* The server (external) *)

NoTx == tx' = "none" /\ own' = FALSE /\ portals' = {} /\ UNCHANGED <<stmts, pos>>
Aborts == tx' = (IF tx = "none" THEN "none" ELSE "failed") /\ UNCHANGED <<own, stmts, portals, pos>>

(* The rows an Execute returns: up to the batch size, suspended when that  *)
(* many were there, whether or not more are.                               *)
Portion(s) ==
    LET left == ask[s].rows - pos[s]
        n == IF left < ask[s].size THEN left ELSE ask[s].size
    IN  [kind |-> "ok", rows |-> [i \in 1..n |-> pos[s] + i], more |-> left >= ask[s].size]

Works(c) ==
    CASE c.op = "prepare" -> tx # "failed"
      [] c.op = "begin" -> tx # "failed"
      [] c.op = "bind" -> tx # "failed" /\ c.stream \in stmts
      [] c.op = "execute" -> tx # "failed" /\ c.stream \in portals
      [] OTHER -> TRUE

Effect(c) ==
    CASE c.op = "prepare" -> stmts' = stmts \cup {c.stream} /\ UNCHANGED <<tx, own, portals, pos>>
      [] c.op = "begin" -> tx' = "open" /\ own' = (own \/ tx = "none") /\ UNCHANGED <<stmts, portals, pos>>
      [] c.op = "bind" ->
            \* outside a transaction the portal ends with the command's Sync
            portals' = (IF tx = "none" THEN portals ELSE portals \cup {c.stream})
            /\ UNCHANGED <<tx, own, stmts, pos>>
      [] c.op = "execute" ->
            pos' = [pos EXCEPT ![c.stream] = @ + Len(Portion(c.stream).rows)]
            /\ UNCHANGED <<tx, own, stmts, portals>>
      [] c.op = "close portal" -> portals' = portals \ {c.stream} /\ UNCHANGED <<tx, own, stmts, pos>>
      [] c.op \in {"close stmt", "undo stmt", "fail stmt"} ->
            stmts' = stmts \ {c.stream} /\ UNCHANGED <<tx, own, portals, pos>>
      [] c.op \in {"commit", "fail commit"} -> NoTx

(* The next command of the channel; a statement may also be refused.       *)
Execute ==
    /\ queue # <<>> /\ queue' = Tail(queue)
    /\ LET c == Head(queue)
           result == IF c.op = "execute" THEN Portion(c.stream) ELSE OkReply
           answer(r) == IF pc[c.stream] = c.op THEN [reply EXCEPT ![c.stream] = r] ELSE reply
       IN  \/ Works(c) /\ Effect(c) /\ reply' = answer(result) /\ UNCHANGED others
           \/ ~Works(c) /\ Aborts /\ reply' = answer(ErrReply) /\ UNCHANGED others
           \/ /\ c.op \in {"prepare", "begin", "bind", "execute"} /\ Works(c) /\ others < MaxOthers
              /\ others' = others + 1 /\ Aborts /\ reply' = answer(ErrReply)
    /\ UNCHANGED <<pc, ask, batch, more, buffer, got, consumer, alive, drops>>

(* Another call on the same Session: one that fails, or the boundary of a  *)
(* transaction scope.                                                      *)
Other ==
    /\ alive /\ others < MaxOthers /\ others' = others + 1
    /\ \/ Aborts
       \/ tx # "failed" /\ tx' = "open" /\ UNCHANGED <<own, stmts, portals, pos>>
       \/ NoTx
    /\ UNCHANGED <<pc, ask, reply, queue, batch, more, buffer, got, consumer, alive, drops>>

(* The connection breaks: every command fails, the session is gone.        *)
Waiting(s) == pc[s] \notin {"idle", "check", "deliver", "done", "failed", "dropped"}
Die ==
    /\ MayDie /\ alive /\ alive' = FALSE /\ queue' = <<>>
    /\ reply' = [s \in Streams |-> IF Waiting(s) /\ reply[s].kind = "none" THEN ErrReply ELSE reply[s]]
    /\ tx' = "none" /\ own' = FALSE /\ stmts' = {} /\ portals' = {}
    /\ UNCHANGED <<pc, ask, batch, more, buffer, got, consumer, pos, others, drops>>

-----------------------------------------------------------------------------
Call(s) ==
    \/ PrepareFails(s) \/ Prepared(s) \/ Mismatch(s) \/ BeginFails(s) \/ Undone(s) \/ Begun(s)
    \/ BindFails(s) \/ FailStmt(s) \/ FailCommit(s) \/ Bound(s)
Task(s) ==
    \/ Fetch(s) \/ Fetched(s) \/ FetchFails(s) \/ Deliver(s) \/ BatchDone(s) \/ CleanupStmt(s)
    \/ CleanupCommit(s) \/ CleanedUp(s)

Next ==
    \/ \E s \in Streams : \/ Start(s) \/ Call(s) \/ DropCall(s) \/ Task(s)
                          \/ Pull(s) \/ End(s) \/ Close(s)
    \/ Execute \/ Other \/ Die

(* Spawned tasks and the driver run; the caller polls the future it holds. *)
(* Nothing makes a consumer pull.                                          *)
Fairness == WF_vars(Execute) /\ \A s \in Streams : WF_vars(Call(s)) /\ WF_vars(Task(s))
Spec == Init /\ [][Next]_vars /\ Fairness

-----------------------------------------------------------------------------
(* Properties *)

TypeOK ==
    /\ \A s \in Streams : Len(buffer[s]) <= ask[s].size /\ pos[s] <= ask[s].rows
    /\ Len(queue) <= Cardinality(Streams) + MaxDrops
    /\ (tx = "none") => ~own /\ portals = {}

(* A consumer sees the rows of its own result, in order, without a gap,    *)
(* and nothing after an error; and the end of a stream is honest: unless   *)
(* an error came first, every row did.  Other calls on the Session that    *)
(* abort the transaction or destroy the portal can cut a stream short, but *)
(* never silently.                                                         *)
InOrder(s) ==
    \A i \in DOMAIN got[s] : IF got[s][i].kind = "row" THEN got[s][i].n = i
                             ELSE i = Len(got[s])
HonestRows ==
    \A s \in Streams :
        /\ InOrder(s)
        /\ consumer[s] = "ended" =>
              \/ Len(got[s]) = ask[s].rows /\ \A i \in DOMAIN got[s] : got[s][i].kind = "row"
              \/ got[s] # <<>> /\ got[s][Len(got[s])].kind = "err"

(* At most two batches are fetched ahead of the consumer: one in the       *)
(* channel (stream.rs:124), and one that waits to enter it.  A batch is    *)
(* asked for before the consumer pulls, against                            *)
(* docs/book/04-prepared-and-streaming.md:82: "the driver only fetches the *)
(* next batch when the consumer pulls".                                    *)
FetchedAhead ==
    \A s \in Streams : consumer[s] = "open" => pos[s] - Len(got[s]) <= 2 * ask[s].size

(* Whoever has seen the end of a stream, or its error, finds the session   *)
(* as it was: no portal, no statement, and no transaction but another's.   *)
LeavesNothing ==
    \A s \in Streams :
        pc[s] \in {"done", "failed"} =>
            /\ s \notin stmts /\ s \notin portals
            /\ own => \E t \in Streams \ {s} : pc[t] \notin {"idle", "done", "failed"}

(* A stream that is dropped or drained gives its portal, statement and     *)
(* transaction back, and a call that is not dropped returns.               *)
Finishes ==
    \A s \in Streams :
        /\ consumer[s] = "closed" ~> pc[s] = "done"
        /\ pc[s] = "prepare" ~> pc[s] \in {"failed", "dropped"} \/ consumer[s] # "none"
=============================================================================
