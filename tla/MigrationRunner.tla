--------------------------- MODULE MigrationRunner ---------------------------
(***************************************************************************)
(* Migrator::apply and Migrator::rollback (crates/core/src/migration/      *)
(* runner.rs), several at once, one SQL statement at a time, against a     *)
(* database with a state table and a session-level advisory lock.          *)
(*                                                                         *)
(* Each runner has a connection of its own.  A statement may be refused, a *)
(* connection may break between any two statements, and the future of a    *)
(* call may be dropped at any await: what it had sent still runs, what it  *)
(* left open stays open, and the connection may be used again.             *)
(***************************************************************************)
EXTENDS Integers, MigrationPlan

CONSTANTS
    Runners,        \* one connection each
    Pooled,         \* the runners whose connection comes from a pool
    Sources,        \* the sources a call may be given
    Root,           \* Root[s] : the directory of source s
    Bigint,         \* the largest version the state table's column holds
    ReuseOpen,      \* a connection is used again with its transaction left open
    MaxCalls,       \* calls of apply and rollback in a behaviour
    MaxSteps,       \* the largest argument of rollback
    MaxFaults       \* refused statements, broken connections, dropped futures

ASSUME RunnerAssumption == Pooled \subseteq Runners /\ MaxSteps \in Nat

(* A directory has finitely many files; a version is an unsigned number.   *)
ASSUME SourceAssumption ==
    \A s \in Sources :
        Load(Root[s]).ok =>
            /\ IsFiniteSet(DOMAIN Load(Root[s]).value)
            /\ \A i \in DOMAIN Load(Root[s]).value :
                  LET file == Load(Root[s]).value[i].file
                  IN  file.numeric => file.version \in Nat

VARIABLES
    rows,       \* the committed rows of the state table
    net,        \* net[v] : committed runs of v's up script less its down script
    tx,         \* tx[r] : "none", "open" or "failed": the connection's transaction
    work,       \* work[r] : what that transaction has done
    locks,      \* locks[r] : how many times r's session holds the advisory lock
    waiting,    \* waiting[r] : r's session has asked for the lock
    call,       \* call[r] : the call in progress
    left,       \* left[r] : "no", "refused" or "dropped": how a call on r's
                \* connection may have left its lock, or anything, behind
    calls, faults

vars == <<rows, net, tx, work, locks, waiting, call, left, calls, faults>>
db == <<rows, net>>
session == <<tx, work, locks, waiting>>

-----------------------------------------------------------------------------
(* The database (external) *)

CatalogOf == [s \in Sources |-> FromSource(Root[s])]
Catalogs == {[i \in DOMAIN c.value |-> Row(c.value[i])] :
                c \in {d \in {CatalogOf[s] : s \in Sources} : d.ok}}
Versions == UNION {{c[i].version : i \in DOMAIN c} : c \in Catalogs}

(* What a transaction has done to the counts and to the rows, and what a   *)
(* statement adds to it.                                                   *)
NoWork == [net |-> [v \in Versions |-> 0], added |-> {}, removed |-> {}]
Apply(w, op) ==
    LET v == op.row.version IN
    CASE op.op = "up" -> [w EXCEPT !.net[v] = @ + 1]
      [] op.op = "down" -> [w EXCEPT !.net[v] = @ - 1]
      [] op.op = "insert" -> [w EXCEPT !.added = @ \cup {op.row}]
      [] op.op = "delete" -> [w EXCEPT !.added = {x \in @ : x.version # v},
                                       !.removed = @ \cup {v}]

(* The database with a transaction's work, which is what its session sees. *)
After(w) == [rows |-> {x \in rows : x.version \notin w.removed} \cup w.added,
             net |-> [v \in DOMAIN net |-> net[v] + w.net[v]]]
Seen(r) == After(work[r])

(* A statement on r's session: inside a transaction it adds to its work,   *)
(* outside it is its own transaction.                                      *)
Does(r, op) ==
    IF tx[r] = "none"
    THEN LET d == After(Apply(NoWork, op))
         IN  rows' = d.rows /\ net' = d.net /\ UNCHANGED <<tx, work>>
    ELSE work' = [work EXCEPT ![r] = Apply(@, op)] /\ UNCHANGED <<tx, db>>

(* A statement that fails aborts the transaction it is in.                 *)
Refused(r) ==
    /\ tx' = [tx EXCEPT ![r] = IF @ = "none" THEN "none" ELSE "failed"]
    /\ UNCHANGED <<db, work>>

(* A fault the environment adds; a failed transaction refuses by itself.   *)
Fault(r) ==
    \/ tx[r] = "failed" /\ UNCHANGED faults
    \/ tx[r] # "failed" /\ faults < MaxFaults /\ faults' = faults + 1

Unbroken == UNCHANGED faults

-----------------------------------------------------------------------------
(* The call *)

Idle == [pc |-> "idle", source |-> CHOOSE s \in Sources : TRUE, dir |-> "up", steps |-> 0,
         plan |-> <<>>, ok |-> TRUE, clean |-> TRUE, before |-> 0]

Init ==
    /\ rows = {} /\ net = [v \in Versions |-> 0]
    /\ tx = [r \in Runners |-> "none"]
    /\ work = [r \in Runners |-> NoWork]
    /\ locks = [r \in Runners |-> 0]
    /\ waiting = [r \in Runners |-> FALSE]
    /\ call = [r \in Runners |-> Idle]
    /\ left = [r \in Runners |-> "no"]
    /\ calls = 0 /\ faults = 0

Goto(r, pc) == call' = [call EXCEPT ![r].pc = pc]
At(r, pc) == call[r].pc = pc

(* The `?` of a statement before the lock is taken, and of one after it.   *)
Return(r) == call' = [call EXCEPT ![r] = Idle]
Bail(r) == call' = [call EXCEPT ![r].pc = "unlock", ![r].ok = FALSE]

(* Migrator::apply or rollback is called on an idle connection.  A call on *)
(* a connection whose lock request is still queued waits behind it.        *)
Start(r) ==
    /\ At(r, "idle") /\ calls < MaxCalls /\ ~waiting[r]
    /\ tx[r] = "none" \/ ReuseOpen
    /\ \E s \in Sources : \E d \in {[dir |-> "up", steps |-> 0]}
                               \cup {[dir |-> "down", steps |-> n] : n \in 1..MaxSteps} :
         call' = [call EXCEPT ![r] =
                    [pc |-> "ensure", source |-> s, dir |-> d.dir, steps |-> d.steps, plan |-> <<>>,
                     ok |-> TRUE, clean |-> tx[r] = "none" /\ locks[r] = 0, before |-> 0]]
    /\ calls' = calls + 1
    /\ UNCHANGED <<db, session, left, faults>>

(* ensure_state_table, without the lock.                                   *)
Ensure(r) ==
    /\ At(r, "ensure") /\ UNCHANGED <<locks, left, calls>>
    /\ \/ /\ tx[r] # "failed" /\ Unbroken /\ Goto(r, "lock")
          /\ waiting' = [waiting EXCEPT ![r] = TRUE] /\ UNCHANGED <<db, tx, work>>
       \/ Fault(r) /\ Refused(r) /\ Return(r) /\ UNCHANGED waiting

(* acquire_advisory_lock.  The server grants it when no other session has  *)
(* it, to a session whose call was dropped as well.                        *)
Acquire(r) ==
    /\ waiting[r] /\ tx[r] # "failed"
    /\ \A q \in Runners \ {r} : locks[q] = 0
    /\ locks' = [locks EXCEPT ![r] = @ + 1]
    /\ waiting' = [waiting EXCEPT ![r] = FALSE]
    /\ IF At(r, "lock") THEN Goto(r, "load") ELSE UNCHANGED call
    /\ UNCHANGED <<db, tx, work, left, calls, faults>>
AcquireFails(r) ==
    /\ At(r, "lock") /\ waiting[r] /\ Fault(r)
    /\ waiting' = [waiting EXCEPT ![r] = FALSE]
    /\ Refused(r) /\ Return(r) /\ UNCHANGED <<locks, left, calls>>

(* load_applied_migrations orders the rows by version; the source is read  *)
(* and the plan made while the lock is held.                               *)
Applied(r) == LET s == ByVersion(Seen(r).rows) IN [i \in DOMAIN s |-> ParseRow(s[i])]
PlanOf(r) ==
    LET c == CatalogOf[call[r].source] IN
    IF ~c.ok THEN c
    ELSE IF call[r].dir = "up" THEN PlanApply(Applied(r), c.value)
    ELSE PlanRollback(Applied(r), c.value, call[r].steps)

(* execute_plan's next step, or the end of the plan.                       *)
NextStep(plan) ==
    IF plan = <<>> THEN "unlock"
    ELSE IF plan[1].pair[plan[1].kind] = "transactional" THEN "begin" ELSE "alone"
Continue(r, plan, n) ==
    call' = [call EXCEPT ![r] = [pc |-> NextStep(plan), source |-> @.source, dir |-> @.dir,
                                 steps |-> @.steps, plan |-> plan, ok |-> @.ok, clean |-> @.clean,
                                 before |-> n]]

LoadAndPlan(r) ==
    /\ At(r, "load") /\ UNCHANGED <<locks, waiting, left, calls>>
    /\ \/ LET p == PlanOf(r) IN
          /\ tx[r] # "failed" /\ Unbroken /\ UNCHANGED <<db, tx, work>>
          /\ IF p.ok THEN Continue(r, p.value, Len(Applied(r))) ELSE Bail(r)
       \/ Fault(r) /\ Refused(r) /\ Bail(r)

(* A script that opted out of transactions runs as one statement.          *)
Op(r, op) == [op |-> op, row |-> Row(call[r].plan[1].pair)]
Alone(r) ==
    /\ At(r, "alone") /\ UNCHANGED <<locks, waiting, left, calls>>
    /\ \/ tx[r] # "failed" /\ Unbroken /\ Does(r, Op(r, call[r].plan[1].kind)) /\ Goto(r, "begin")
       \/ Fault(r) /\ Refused(r) /\ Bail(r)

(* transactional_batch: BEGIN, a warning inside a transaction.  BeginLater *)
(* sends the script first.                                                 *)
BeginLater(r) ==
    /\ At(r, "begin") /\ UNCHANGED <<locks, waiting, left, calls, db, work, tx, faults>>
    /\ Goto(r, IF call[r].plan[1].pair[call[r].plan[1].kind] = "transactional"
               THEN "script" ELSE "record")
Begin(r) ==
    /\ At(r, "begin") /\ UNCHANGED <<locks, waiting, left, calls, db, work>>
    /\ LET s == call[r].plan[1]
           first == IF s.pair[s.kind] = "transactional" THEN "script" ELSE "record"
       IN  \/ /\ tx[r] # "failed" /\ Unbroken /\ Goto(r, first)
              /\ tx' = [tx EXCEPT ![r] = "open"]
           \/ /\ Fault(r) /\ Bail(r)
              /\ tx' = [tx EXCEPT ![r] = IF @ = "none" THEN "none" ELSE "failed"]

Script(r) ==
    /\ At(r, "script") /\ UNCHANGED <<locks, waiting, left, calls>>
    /\ \/ tx[r] # "failed" /\ Unbroken /\ Does(r, Op(r, call[r].plan[1].kind)) /\ Goto(r, "record")
       \/ Fault(r) /\ Refused(r) /\ Goto(r, "rollback")

(* The INSERT or the DELETE of the row.  A version above bigint, or one    *)
(* that is there, cannot be inserted; a DELETE that finds nothing succeeds.*)
Storable(r) ==
    LET row == Row(call[r].plan[1].pair) IN
    call[r].plan[1].kind = "up" => /\ row.version <= Bigint
                                   /\ \A x \in Seen(r).rows : x.version # row.version
Record(r) ==
    /\ At(r, "record") /\ UNCHANGED <<locks, waiting, left, calls>>
    /\ \/ /\ tx[r] # "failed" /\ Unbroken /\ Storable(r) /\ Goto(r, "commit")
          /\ Does(r, Op(r, IF call[r].plan[1].kind = "up" THEN "insert" ELSE "delete"))
       \/ /\ IF Storable(r) THEN Fault(r) ELSE Unbroken
          /\ Refused(r) /\ Goto(r, "rollback")

(* COMMIT, and the next step of the plan; a COMMIT that fails has rolled   *)
(* the transaction back.                                                   *)
Commit(r) ==
    /\ At(r, "commit") /\ UNCHANGED <<locks, waiting, left, calls>>
    /\ tx' = [tx EXCEPT ![r] = "none"] /\ work' = [work EXCEPT ![r] = NoWork]
    /\ \/ /\ Unbroken /\ tx[r] = "open"
          /\ rows' = Seen(r).rows /\ net' = Seen(r).net
          /\ Continue(r, Tail(call[r].plan), call[r].before)
       \/ faults < MaxFaults /\ faults' = faults + 1 /\ Bail(r) /\ UNCHANGED db

(* The ROLLBACK after a failed statement of the batch.  RollbackForgets    *)
(* does not return the error.                                              *)
RollbackForgets(r) ==
    /\ At(r, "rollback") /\ Goto(r, "unlock")
    /\ tx' = [tx EXCEPT ![r] = "none"] /\ work' = [work EXCEPT ![r] = NoWork]
    /\ UNCHANGED <<db, locks, waiting, left, calls, faults>>
Rollback(r) ==
    /\ At(r, "rollback") /\ Bail(r)
    /\ tx' = [tx EXCEPT ![r] = "none"] /\ work' = [work EXCEPT ![r] = NoWork]
    /\ UNCHANGED <<db, locks, waiting, left, calls, faults>>

(* release_advisory_lock.  finish_locked_operation drops its result, so a  *)
(* call whose unlock the server refuses returns what it would have, Ok     *)
(* included, with the lock still its session's.  UnlockUnlessFailed        *)
(* propagates the error of the plan first.                                 *)
UnlockUnlessFailed(r) ==
    /\ At(r, "unlock") /\ Return(r)
    /\ locks' = IF ~call[r].ok THEN locks ELSE [locks EXCEPT ![r] = IF @ = 0 THEN 0 ELSE @ - 1]
    /\ UNCHANGED <<db, tx, work, waiting, left, calls, faults>>
Unlock(r) ==
    /\ At(r, "unlock") /\ Return(r) /\ UNCHANGED <<waiting, calls>>
    /\ \/ /\ tx[r] # "failed" /\ Unbroken /\ UNCHANGED <<db, tx, work, left>>
          /\ locks' = [locks EXCEPT ![r] = IF @ = 0 THEN 0 ELSE @ - 1]
       \/ /\ Fault(r) /\ Refused(r) /\ UNCHANGED locks
          /\ left' = [left EXCEPT ![r] = IF @ = "dropped" THEN @ ELSE "refused"]

-----------------------------------------------------------------------------
(* What goes wrong around a call *)

(* The connection breaks: the server rolls back and drops the session's    *)
(* locks; the call, if there is one, returns an error.                     *)
Break(r) ==
    /\ faults < MaxFaults /\ faults' = faults + 1
    /\ tx' = [tx EXCEPT ![r] = "none"] /\ work' = [work EXCEPT ![r] = NoWork]
    /\ locks' = [locks EXCEPT ![r] = 0] /\ waiting' = [waiting EXCEPT ![r] = FALSE]
    /\ left' = [left EXCEPT ![r] = "no"]
    /\ Return(r) /\ UNCHANGED <<db, calls>>

(* The future of the call is dropped between two statements.               *)
DropCall(r) ==
    /\ ~At(r, "idle") /\ faults < MaxFaults /\ faults' = faults + 1
    /\ Return(r) /\ left' = [left EXCEPT ![r] = "dropped"]
    /\ UNCHANGED <<db, session, calls>>

(* A pooled connection is returned: recycle rolls back an open transaction,*)
(* and does nothing about the lock.                                        *)
Recycle(r) ==
    /\ r \in Pooled /\ At(r, "idle") /\ tx[r] # "none" /\ ~waiting[r]
    /\ tx' = [tx EXCEPT ![r] = "none"] /\ work' = [work EXCEPT ![r] = NoWork]
    /\ UNCHANGED <<db, locks, waiting, call, left, calls, faults>>

-----------------------------------------------------------------------------
Statement(r) ==
    \/ Ensure(r) \/ Acquire(r) \/ AcquireFails(r) \/ LoadAndPlan(r) \/ Alone(r) \/ Begin(r)
    \/ Script(r) \/ Record(r) \/ Commit(r) \/ Rollback(r) \/ Unlock(r)

Next == \E r \in Runners : Start(r) \/ Statement(r) \/ Break(r) \/ DropCall(r) \/ Recycle(r)

(* The server answers statements, and hands the lock over.                 *)
Fairness == WF_vars(\E r \in Runners : Statement(r))
Spec == Init /\ [][Next]_vars /\ Fairness

-----------------------------------------------------------------------------
(* Properties *)

PCs == {"idle", "ensure", "lock", "load", "alone", "begin", "script", "record", "commit",
        "rollback", "unlock"}

(* One session has the lock, and only a call that has it is past "lock".   *)
TypeOK ==
    /\ \A r \in Runners : /\ tx[r] \in {"none", "open", "failed"} /\ call[r].pc \in PCs
                          /\ (tx[r] = "none") => work[r] = NoWork
                          /\ waiting[r] => call[r].pc \in {"lock", "idle"}
    /\ \A r, q \in Runners : locks[r] > 0 /\ locks[q] > 0 => r = q

(* The scripts that have run are the scripts that are recorded.  A         *)
(* transactional up script never runs beyond its record, a transactional   *)
(* down script never beyond its removal; only a script that opted out may. *)
EffectsMatchRows ==
    \A v \in Versions :
        LET recorded == IF \E x \in rows : x.version = v THEN 1 ELSE 0
            always(k) == \A c \in Catalogs : \A i \in DOMAIN c :
                            c[i].version = v => c[i][k] = "transactional"
        IN  /\ always("up") => net[v] <= recorded
            /\ always("down") => net[v] >= recorded

(* A call that is about to return Ok, on a connection that nothing was     *)
(* left open on, has done what it was asked: apply leaves the whole        *)
(* catalog recorded, rollback as many rows fewer as it was told, or none.  *)
OkMeansDone ==
    \A r \in Runners :
        At(r, "unlock") /\ call[r].ok /\ call[r].clean =>
            LET c == CatalogOf[call[r].source].value
                want == IF call[r].dir = "up" THEN Len(c)
                        ELSE IF call[r].steps < call[r].before
                             THEN call[r].before - call[r].steps ELSE 0
            IN  rows = {Row(c[i]) : i \in 1..want}

(* A call that ends, however it ends, leaves its connection as it found    *)
(* it: no transaction unless its future was dropped, and no lock unless    *)
(* its future was dropped or the server refused the unlock.                *)
NothingLeft ==
    \A r \in Runners :
        At(r, "idle") => /\ left[r] # "dropped" => tx[r] = "none"
                         /\ left[r] = "no" => locks[r] = 0

(* The runners' history implements the abstract one.                       *)
H == INSTANCE MigrationHistory WITH rows <- rows, net <- net,
                                    Catalogs <- Catalogs, Versions <- Versions
Implements == H!HSpec

(* Every call returns, unless the lock stays with a session that no call   *)
(* will release it for: one whose call was dropped, with the lock or with  *)
(* its request for it in the queue, or one whose unlock was refused.       *)
CallsReturn ==
    \A r \in Runners :
        ~At(r, "idle") ~> (At(r, "idle") \/ \E q \in Runners : left[q] # "no" /\ locks[q] > 0)
=============================================================================
