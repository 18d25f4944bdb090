--------------------------- MODULE StatementCache ---------------------------
(***************************************************************************)
(* The prepared-statement cache of a session                               *)
(* (crates/core/src/session/cache.rs) with the calls that use it:          *)
(* prepare_query and prepare_command (session/mod.rs), close and drop of   *)
(* their handles (session/prepared.rs).                                    *)
(*                                                                         *)
(* A handle is one prepare call and the PreparedQuery or PreparedCommand   *)
(* that it yields.  The cache is behind a mutex, one critical section per  *)
(* step.  Commands reach the server in the order they were sent, one       *)
(* exchange at a time: what module Driver shows of the driver task.        *)
(* Executing a statement changes nothing here and is left out.             *)
(***************************************************************************)
EXTENDS Integers, FiniteSets, Sequences

CONSTANTS
    Handles,   \* prepare calls
    Keys,      \* CacheKeys: SQL hash and parameter types
    None,      \* no entry
    Abandon    \* whether callers drop the futures of prepare and close midway

ASSUME HandlesAssumption == IsFiniteSet(Handles)
ASSUME NoneAssumption == None \notin [name : Nat, handles : Nat]
ASSUME FlagAssumption == Abandon \in BOOLEAN

VARIABLES
    retain,    \* StatementCache::retain_on_zero_handles (pooled sessions)
    stmts,     \* StatementCache::stmts: name and live handles per key
    counter,   \* StatementCache::counter
    pc,        \* pc[h]: where the call, then its handle, is
    key,       \* key[h]: what it prepares
    fits,      \* fits[h]: whether its decoder matches the row description
    name,      \* name[h]: the server-side statement name
    queue,     \* commands on their way to the server
    server,    \* the statements that exist on the server
    overlapped \* keys that were prepared twice at a time (history)

vars == <<retain, stmts, counter, pc, key, fits, name, queue, server, overlapped>>

Preparing == {"missed", "named", "preparing", "prepared"}
Releasing == {"close", "drop"}             \* the handle still counts
Closing == {"close_send", "drop_send"}     \* CloseStatement is to be sent
Abandoned == {"cancelled", "leaked"}       \* leaked: the handle counts for ever
Over == {"gone", "failed"} \cup Abandoned
States == {"new", "live"} \cup Preparing \cup Releasing \cup Closing \cup Over

Entry == [name : Nat, handles : Nat]
Statement == [name : Nat, key : Keys]
PrepareCommand(h) == [op |-> "Prepare", name |-> name[h], by |-> h]
CloseCommand(h) == [op |-> "CloseStatement", name |-> name[h], by |-> h]

Init ==
    /\ retain \in BOOLEAN
    /\ stmts = [k \in Keys |-> None]
    /\ counter = 0
    /\ pc = [h \in Handles |-> "new"]
    /\ key \in [Handles -> Keys]
    /\ fits \in [Handles -> BOOLEAN]
    /\ name = [h \in Handles |-> 0]
    /\ queue = <<>>
    /\ server = {}
    /\ overlapped = {}

Go(h, to) == pc' = [pc EXCEPT ![h] = to]

-----------------------------------------------------------------------------
(* StatementCache *)

(* checkout counts one more handle.                                         *)
Checkout(k) == [stmts EXCEPT ![k].handles = @ + 1]

Insert(k, n) == [stmts EXCEPT ![k] = [name |-> n, handles |-> 1]]

(* release_handle returns the statement only when the entry goes.           *)
(* ReleasesLastOffByOne: the entry goes with the last but one handle.       *)
ReleasesLastOffByOne(k) == stmts[k] # None /\ stmts[k].handles <= 2 /\ ~retain
ReleasesLast(k) == stmts[k] # None /\ stmts[k].handles <= 1 /\ ~retain

ReleaseHandle(k) ==
    IF stmts[k] = None THEN stmts
    ELSE IF ReleasesLast(k) THEN [stmts EXCEPT ![k] = None]
    ELSE [stmts EXCEPT ![k].handles = IF @ > 1 THEN @ - 1 ELSE 0]

-----------------------------------------------------------------------------
(* prepare_query and prepare_command *)

(* A hit yields the handle at once.                                         *)
Hit(h) ==
    /\ pc[h] = "new" /\ stmts[key[h]] # None
    /\ stmts' = Checkout(key[h])
    /\ name' = [name EXCEPT ![h] = stmts[key[h]].name]
    /\ Go(h, "live")
    /\ UNCHANGED <<retain, counter, key, fits, queue, server, overlapped>>

Miss(h) ==
    /\ pc[h] = "new" /\ stmts[key[h]] = None
    /\ Go(h, "missed")
    /\ overlapped' = IF \E g \in Handles : key[g] = key[h] /\ pc[g] \in Preparing
                     THEN overlapped \cup {key[h]} ELSE overlapped
    /\ UNCHANGED <<retain, stmts, counter, key, fits, name, queue, server>>

(* next_name.  NextNameReused: the number of cached statements plus one.    *)
NextNameReused(h) ==
    /\ pc[h] = "missed"
    /\ counter' = counter + 1
    /\ name' = [name EXCEPT ![h] = Cardinality({k \in Keys : stmts[k] # None}) + 1]
    /\ Go(h, "named")
    /\ UNCHANGED <<retain, stmts, key, fits, queue, server, overlapped>>
NextName(h) ==
    /\ pc[h] = "missed"
    /\ counter' = counter + 1
    /\ name' = [name EXCEPT ![h] = counter + 1]
    /\ Go(h, "named")
    /\ UNCHANGED <<retain, stmts, key, fits, queue, server, overlapped>>

(* resolve_type_oids or the send fails, or Prepare goes out.                *)
ResolveFails(h) ==
    /\ pc[h] = "named"
    /\ Go(h, "failed")
    /\ UNCHANGED <<retain, stmts, counter, key, fits, name, queue, server, overlapped>>
SendPrepare(h) ==
    /\ pc[h] = "named"
    /\ queue' = Append(queue, PrepareCommand(h))
    /\ Go(h, "preparing")
    /\ UNCHANGED <<retain, stmts, counter, key, fits, name, server, overlapped>>

(* validate_row_description finds a mismatch: the statement is closed.      *)
(* prepare_command has no decoder, and for it fits[h] is TRUE.              *)
(* MismatchNotClosed: it is left on the server.                             *)
MismatchNotClosed(h) ==
    /\ pc[h] = "prepared" /\ ~fits[h]
    /\ Go(h, "failed")
    /\ UNCHANGED <<retain, stmts, counter, key, fits, name, queue, server, overlapped>>
Mismatch(h) ==
    /\ pc[h] = "prepared" /\ ~fits[h]
    /\ queue' = Append(queue, CloseCommand(h))
    /\ Go(h, "failed")
    /\ UNCHANGED <<retain, stmts, counter, key, fits, name, server, overlapped>>

Store(h) ==
    /\ pc[h] = "prepared" /\ fits[h]
    /\ stmts' = Insert(key[h], name[h])
    /\ Go(h, "live")
    /\ UNCHANGED <<retain, counter, key, fits, name, queue, server, overlapped>>

(* The caller drops the future of the prepare, or of close: the handle is   *)
(* marked closed by then, so its drop does no clean-up.                     *)
Cancel(h) ==
    /\ Abandon /\ pc[h] \in Preparing \cup {"close", "close_send"}
    /\ Go(h, IF pc[h] = "close" THEN "leaked" ELSE "cancelled")
    /\ UNCHANGED <<retain, stmts, counter, key, fits, name, queue, server, overlapped>>

-----------------------------------------------------------------------------
(* close and drop of a handle *)

Close(h) ==
    /\ pc[h] = "live"
    /\ Go(h, "close")
    /\ UNCHANGED <<retain, stmts, counter, key, fits, name, queue, server, overlapped>>

(* schedule_close_on_drop spawns the clean-up.                              *)
Drop(h) ==
    /\ pc[h] = "live"
    /\ Go(h, "drop")
    /\ UNCHANGED <<retain, stmts, counter, key, fits, name, queue, server, overlapped>>

(* Releasing the handle decides whether CloseStatement is to be sent.       *)
Release(h) ==
    /\ pc[h] \in Releasing
    /\ stmts' = ReleaseHandle(key[h])
    /\ Go(h, IF ~ReleasesLast(key[h]) THEN "gone"
             ELSE IF pc[h] = "close" THEN "close_send" ELSE "drop_send")
    /\ UNCHANGED <<retain, counter, key, fits, name, queue, server, overlapped>>

(* CloseStatement names the statement of this handle.                       *)
SendClose(h) ==
    /\ pc[h] \in Closing
    /\ queue' = Append(queue, CloseCommand(h))
    /\ Go(h, "gone")
    /\ UNCHANGED <<retain, stmts, counter, key, fits, name, server, overlapped>>

-----------------------------------------------------------------------------
(* The server (external): Parse creates a statement or fails, Close removes *)
(* it if it exists.                                                         *)

ServerPrepare ==
    /\ queue # <<>> /\ Head(queue).op = "Prepare"
    /\ queue' = Tail(queue)
    /\ LET h == Head(queue).by IN
       \/ /\ server' = server \cup {[name |-> Head(queue).name, key |-> key[h]]}
          /\ pc' = IF pc[h] = "preparing" THEN [pc EXCEPT ![h] = "prepared"] ELSE pc
       \/ /\ pc' = IF pc[h] = "preparing" THEN [pc EXCEPT ![h] = "failed"] ELSE pc
          /\ UNCHANGED server
    /\ UNCHANGED <<retain, stmts, counter, key, fits, name, overlapped>>

ServerClose ==
    /\ queue # <<>> /\ Head(queue).op = "CloseStatement"
    /\ queue' = Tail(queue)
    /\ server' = {s \in server : s.name # Head(queue).name}
    /\ UNCHANGED <<retain, stmts, counter, pc, key, fits, name, overlapped>>

HandleStep(h) ==
    \/ NextName(h) \/ ResolveFails(h) \/ SendPrepare(h) \/ Mismatch(h) \/ Store(h)
    \/ Release(h) \/ SendClose(h)

(* Every handle is gone and every command was served.                       *)
Quiescent ==
    /\ queue = <<>>
    /\ \A h \in Handles : pc[h] \in Over
    /\ UNCHANGED vars

Next ==
    \/ \E h \in Handles : Hit(h) \/ Miss(h) \/ HandleStep(h) \/ Cancel(h)
                          \/ Close(h) \/ Drop(h)
    \/ ServerPrepare \/ ServerClose \/ Quiescent

Spec == Init /\ [][Next]_vars

(* The runtime goes on with started calls and spawned clean-ups, and the    *)
(* server answers.                                                          *)
FairSpec == /\ Spec
            /\ \A h \in Handles : WF_vars(HandleStep(h))
            /\ WF_vars(ServerPrepare) /\ WF_vars(ServerClose)

-----------------------------------------------------------------------------
(* Properties *)

TypeOK ==
    /\ retain \in BOOLEAN
    /\ stmts \in [Keys -> Entry \cup {None}]
    /\ counter \in Nat
    /\ pc \in [Handles -> States]
    /\ key \in [Handles -> Keys] /\ fits \in [Handles -> BOOLEAN]
    /\ name \in [Handles -> Nat]
    /\ queue \in Seq([op : {"Prepare", "CloseStatement"}, name : Nat, by : Handles])
    /\ server \subseteq Statement /\ overlapped \subseteq Keys

(* Somebody has decided to close statement n.                               *)
Doomed(n) ==
    \/ \E i \in 1..Len(queue) : queue[i].op = "CloseStatement" /\ queue[i].name = n
    \/ \E h \in Handles : pc[h] \in Closing /\ name[h] = n

(* What a cache hit returns exists on the server, belongs to that key, and  *)
(* nobody is about to close it, however prepares, closes and drops of the   *)
(* same key overlap.                                                        *)
HitIsAlive ==
    \A k \in Keys : stmts[k] # None =>
        [name |-> stmts[k].name, key |-> k] \in server /\ ~Doomed(stmts[k].name)

(* A handle whose key was never prepared twice at a time can be executed:   *)
(* its statement exists on the server, and nobody is about to close it      *)
(* before the last handle that shares it is released.                       *)
HandleWorks(h) ==
    [name |-> name[h], key |-> key[h]] \in server /\ ~Doomed(name[h])
LiveHandleWorksApart ==
    \A h \in Handles : pc[h] = "live" /\ key[h] \notin overlapped => HandleWorks(h)

(* The books agree with the handles and with the server.  The handles       *)
(* counted for an entry are the ones that exist, and those whose close()    *)
(* was abandoned before it could release them; a statement on the server is *)
(* cached, about to be cached or rejected, or on its way out: none is       *)
(* forgotten there but by a prepare or close that was abandoned.            *)
CountIsExact(k) ==
    stmts[k] # None =>
        stmts[k].handles = Cardinality({h \in Handles :
            key[h] = k /\ pc[h] \in {"live", "leaked"} \cup Releasing})
Accounted(s) ==
    \/ stmts[s.key] # None /\ stmts[s.key].name = s.name
    \/ \E h \in Handles : pc[h] \in {"prepared"} \cup Abandoned /\ name[h] = s.name
    \/ Doomed(s.name)
BooksAgree ==
    /\ \A k \in Keys \ overlapped : CountIsExact(k)
    /\ \A s \in server : s.key \notin overlapped => Accounted(s)

(* A session that does not retain statements is left without any once all   *)
(* its handles are closed or dropped, none of them abandoned or prepared    *)
(* twice at a time.                                                         *)
Settled == /\ \A h \in Handles : pc[h] \in {"drop", "drop_send", "gone", "failed"}
           /\ ~retain /\ overlapped = {}
ServerIsLeftClean == Settled ~> server = {}
=============================================================================
