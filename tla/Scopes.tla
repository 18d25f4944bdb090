------------------------------- MODULE Scopes -------------------------------
(***************************************************************************)
(* Transactions and savepoints (crates/core/src/transaction.rs, and their  *)
(* pooled counterparts in pool.rs) on one connection that several tenants  *)
(* use one after the other: the successive calls of one Session, or the    *)
(* successive owners of one pooled connection.                             *)
(*                                                                         *)
(* A tenant runs one transaction(f).  What f does is free: statements,     *)
(* savepoints, row streams, any result; its caller may drop it at any      *)
(* await.  A guard that is dropped while armed spawns a cleanup task, a    *)
(* stream ends with a COMMIT of its own, and a pooled connection is        *)
(* recycled: all of these send to the same command channel as the tenant.  *)
(*                                                                         *)
(* The channel with the driver behind it is what module Driver shows it to *)
(* be: commands are executed and answered one by one in the order sent.    *)
(* PostgreSQL's transaction commands are external.                         *)
(***************************************************************************)
EXTENDS Naturals, Sequences, FiniteSets

CONSTANTS
    Tenants,     \* number of tenants, in order of use
    MaxSavepoints, \* bound: savepoints opened
    MaxWrites,   \* bound: statements sent and streams opened
    MaxDrops,    \* bound: futures dropped by their callers
    Streams,     \* bodies open row streams
    CommitFails, \* the server may refuse a COMMIT (a deferred constraint)
    Fatal        \* the connection may be lost

ASSUME BoundsAssumption ==
    /\ Tenants \in Nat \ {0}
    /\ {MaxSavepoints, MaxWrites, MaxDrops} \subseteq Nat
ASSUME SwitchAssumption == {Streams, CommitFails, Fatal} \subseteq BOOLEAN

VARIABLES
    pooled,     \* a PoolConnection (recycled between tenants), not a Session
    tenant,     \* the tenant that uses the connection
    pc,         \* what it waits for
    frames,     \* its open scopes, innermost last
    opened,     \* savepoints opened so far
    sent,       \* statements sent so far
    drops,      \* futures dropped so far
    reply,      \* the answer to what it waits for
    tasks,      \* spawned tasks: cleanups and streams
    broken,     \* PooledScopeGuard::broken
    conn,       \* the connection: alive, dead (socket gone), discarded
    queue,      \* commands sent and not yet executed
    levels,     \* server: the open transaction and its savepoints
    failed,     \* server: the transaction is in the aborted state
    known,      \* DriverState::transaction_status is 'I'
    committed,  \* server: statements that took effect for good
    outcome,    \* what the call of each scope returned (history)
    acked,      \* statements answered with success (history)
    hollow,     \* tenants whose COMMIT met an aborted transaction (history)
    raced   \* tenants that raced with leftovers of others (history)

callVars == <<pooled, tenant, pc, frames, opened, sent, drops>>
serverVars == <<levels, failed, committed>>
history == <<outcome, acked, hollow, raced>>
vars == <<pooled, tenant, pc, frames, opened, sent, drops, reply, tasks, broken, conn,
          queue, levels, failed, known, committed, outcome, acked, hollow, raced>>

(* A scope is the transaction (1) or a savepoint (2, 3, ...) of a tenant;   *)
(* a statement carries the scopes it was sent in.                           *)
Scopes == [tenant : 1..Tenants, n : 1..(MaxSavepoints + 1)]
Writes == [tenant : 1..Tenants, n : 1..MaxWrites, in : SUBSET Scopes]
Top == frames[Len(frames)]
Tx(t) == [tenant |-> t, n |-> 1]

(* A command: what to do, with which scope or statement, for which tenant,  *)
(* sent by whom: the tenant, a tenant that no longer waits for the answer   *)
(* ("orphan"), or a spawned task.                                           *)
Cmd(op, arg, t, by) == [op |-> op, arg |-> arg, tenant |-> t, by |-> by]

Leftovers == {"cleanup", "stream"}

Init ==
    /\ pooled \in BOOLEAN
    /\ tenant = 1 /\ pc = "idle" /\ frames = <<>> /\ opened = 0 /\ sent = 0 /\ drops = 0
    /\ reply = "none" /\ tasks = {} /\ broken = FALSE
    /\ conn = "alive" /\ queue = <<>> /\ levels = <<>> /\ failed = FALSE
    /\ known = TRUE /\ committed = {}
    /\ outcome = [s \in Scopes |-> "none"]
    /\ acked = {} /\ hollow = {} /\ raced = {}

-----------------------------------------------------------------------------
(* The command channel *)

(* run_control_command: on a dead connection the answer is an error.        *)
Send(c) ==
    IF conn = "alive" THEN queue' = Append(queue, c) /\ reply' = "none"
    ELSE reply' = "err" /\ UNCHANGED queue

(* The tenant sends and waits.                                              *)
Call(op, arg, wait) ==
    /\ Send(Cmd(op, arg, tenant, "user"))
    /\ pc' = wait

Answered(wait, r) == pc = wait /\ reply = r

(* mark_broken after the answer r to a command of tenant t: a scope method  *)
(* marks on a connection error, a cleanup task on any.  The flag belongs to *)
(* one checkout.                                                            *)
Marked(t, bad) == broken' = (broken \/ (pooled /\ t = tenant /\ bad))

(* ScopeGuard::drop: the guards of the scopes in `dropped` are still        *)
(* armed, each spawns its cleanup.  SpawnedNone: nothing is spawned.        *)
SpawnedNone(dropped) == tasks
Spawned(dropped) ==
    tasks \cup {[kind |-> "cleanup", scope |-> s, step |-> 1] : s \in dropped}

-----------------------------------------------------------------------------
(* transaction(f) and savepoint(f) *)

Begin ==
    /\ pc = "idle" /\ tenant <= Tenants /\ conn # "discarded"
    /\ frames' = <<Tx(tenant)>>
    /\ Call("BEGIN", Tx(tenant), "begin")
    /\ UNCHANGED <<pooled, tenant, opened, sent, drops, tasks, broken, conn, serverVars, known, history>>

Savepoint ==
    /\ pc = "body" /\ opened < MaxSavepoints
    /\ LET s == [tenant |-> tenant, n |-> opened + 2] IN
          frames' = Append(frames, s) /\ Call("SAVEPOINT", s, "begin")
    /\ opened' = opened + 1
    /\ UNCHANGED <<pooled, tenant, sent, drops, tasks, broken, conn, serverVars, known, history>>

(* The scope is entered, and f runs.                                        *)
Entered ==
    /\ Answered("begin", "ok")
    /\ pc' = "body"
    /\ reply' = "none"
    /\ UNCHANGED <<pooled, tenant, frames, opened, sent, drops, tasks, broken, conn, queue,
                   serverVars, known, history>>

(* The innermost scope returns r: its frame is gone, and the enclosing f    *)
(* goes on, or the tenant is done.                                          *)
Leave(r) ==
    /\ outcome' = [outcome EXCEPT ![Top] = r]
    /\ frames' = SubSeq(frames, 1, Len(frames) - 1)
    /\ pc' = IF Len(frames) = 1 THEN "done" ELSE "body"

(* An early return by `?`: the guard is still armed when it goes out of     *)
(* scope.                                                                   *)
LeaveArmed(r) == Leave(r) /\ tasks' = Spawned({Top})

EnterFails ==
    /\ Answered("begin", "err")
    /\ LeaveArmed("err")
    /\ reply' = "none"
    /\ UNCHANGED <<pooled, tenant, opened, sent, drops, broken, conn, queue, serverVars,
                   known, acked, hollow, raced>>

(* execute, query and the other methods of a scope go to the session as     *)
(* they are.                                                                *)
Write ==
    /\ pc = "body" /\ sent < MaxWrites
    /\ sent' = sent + 1
    /\ LET in == {frames[i] : i \in 1..Len(frames)} IN
          Call("WRITE", [tenant |-> tenant, n |-> sent + 1, in |-> in], "write")
    /\ UNCHANGED <<pooled, tenant, frames, opened, drops, tasks, broken, conn, serverVars, known, history>>

(* f sees the result of a statement and goes on as it likes.  Only a pooled *)
(* scope records a connection error.                                        *)
Written ==
    /\ pc = "write" /\ reply # "none"
    /\ pc' = "body"
    /\ Marked(tenant, reply = "err" /\ conn = "dead")
    /\ reply' = "none"
    /\ UNCHANGED <<pooled, tenant, frames, opened, sent, drops, tasks, conn, queue,
                   serverVars, known, history>>

(* f returns Ok.  FinishRollsBackTo: the branches of a savepoint swapped.   *)
FinishRollsBackTo ==
    /\ pc = "body"
    /\ Call(IF Len(frames) = 1 THEN "COMMIT" ELSE "ROLLBACK_TO", Top, "finish")
    /\ UNCHANGED <<pooled, tenant, frames, opened, sent, drops, tasks, broken, conn,
                   serverVars, known, history>>
Finish ==
    /\ pc = "body"
    /\ Call(IF Len(frames) = 1 THEN "COMMIT" ELSE "RELEASE", Top, "finish")
    /\ UNCHANGED <<pooled, tenant, frames, opened, sent, drops, tasks, broken, conn,
                   serverVars, known, history>>

Finished ==
    /\ Answered("finish", "ok")
    /\ Leave("ok")
    /\ reply' = "none"
    /\ UNCHANGED <<pooled, tenant, opened, sent, drops, tasks, broken, conn, queue,
                   serverVars, known, acked, hollow, raced>>

(* COMMIT or RELEASE failed: `?` returns before disarm.                     *)
FinishFails ==
    /\ Answered("finish", "err")
    /\ LeaveArmed(IF Len(frames) = 1 THEN "unknown" ELSE "err")
    /\ reply' = "none"
    /\ UNCHANGED <<pooled, tenant, opened, sent, drops, broken, conn, queue, serverVars,
                   known, acked, hollow, raced>>

(* f returns Err.  AbandonReleases: a savepoint is released only.           *)
AbandonReleases ==
    /\ pc = "body"
    /\ IF Len(frames) = 1 THEN Call("ROLLBACK", Top, "abandon")
       ELSE Call("RELEASE", Top, "abandon2")
    /\ UNCHANGED <<pooled, tenant, frames, opened, sent, drops, tasks, broken, conn, serverVars,
                   known, history>>
Abandon ==
    /\ pc = "body"
    /\ Call(IF Len(frames) = 1 THEN "ROLLBACK" ELSE "ROLLBACK_TO", Top, "abandon")
    /\ UNCHANGED <<pooled, tenant, frames, opened, sent, drops, tasks, broken, conn, serverVars,
                   known, history>>

(* The transaction's guard is disarmed whatever ROLLBACK said; f's error    *)
(* marks a pooled connection only if ROLLBACK succeeded.                    *)
RolledBack ==
    /\ pc = "abandon" /\ Len(frames) = 1 /\ reply # "none"
    /\ Leave("err")
    /\ reply' = "none"
    /\ UNCHANGED <<pooled, tenant, opened, sent, drops, tasks, broken, conn, queue,
                   serverVars, known, acked, hollow, raced>>

(* rollback_savepoint: ROLLBACK TO, then RELEASE; the first error returns.  *)
RolledBackTo ==
    /\ Answered("abandon", "ok") /\ Len(frames) > 1
    /\ Call("RELEASE", Top, "abandon2")
    /\ UNCHANGED <<pooled, tenant, frames, opened, sent, drops, tasks, broken, conn, serverVars,
                   known, history>>
Released ==
    /\ Answered("abandon2", "ok")
    /\ Leave("err")
    /\ reply' = "none"
    /\ UNCHANGED <<pooled, tenant, opened, sent, drops, tasks, broken, conn, queue,
                   serverVars, known, acked, hollow, raced>>
RollbackToFails ==
    /\ reply = "err" /\ Len(frames) > 1 /\ pc \in {"abandon", "abandon2"}
    /\ LeaveArmed("err")
    /\ reply' = "none"
    /\ UNCHANGED <<pooled, tenant, opened, sent, drops, broken, conn, queue, serverVars,
                   known, acked, hollow, raced>>

(* The caller of a scope drops its future, with the scopes inside it: their *)
(* guards are armed, whatever they wait for.                                *)
Drop ==
    /\ drops < MaxDrops /\ frames # <<>>
    /\ drops' = drops + 1
    /\ \E k \in 1..Len(frames) :
          LET dropped == {frames[i] : i \in k..Len(frames)} IN
          /\ frames' = SubSeq(frames, 1, k - 1)
          /\ tasks' = Spawned(dropped)
          /\ outcome' = [s \in Scopes |-> IF s \notin dropped THEN outcome[s]
                                          ELSE IF s = Top /\ pc = "finish" THEN "unknown"
                                          ELSE "dropped"]
          /\ pc' = IF k = 1 THEN "done" ELSE "body"
    /\ reply' = "none"
    /\ queue' = [i \in 1..Len(queue) |->
                    IF queue[i].by = "user" THEN [queue[i] EXCEPT !.by = "orphan"] ELSE queue[i]]
    /\ UNCHANGED <<pooled, tenant, opened, sent, broken, conn, serverVars, known,
                   acked, hollow, raced>>

-----------------------------------------------------------------------------
(* Row streams: module RowStream has the rest of their life *)

(* stream(): BEGIN, and once it is answered the spawned task owns the rest. *)
(* A statement of the body, as far as the bound goes; bound: one stream at  *)
(* a time.                                                                  *)
OpenStream ==
    /\ Streams /\ pc = "body" /\ sent < MaxWrites
    /\ \A t \in tasks : t.kind # "stream"
    /\ sent' = sent + 1
    /\ Call("BEGIN", Tx(tenant), "stream")
    /\ UNCHANGED <<pooled, tenant, frames, opened, drops, tasks, broken, conn, serverVars, known, history>>

StreamOpened ==
    /\ pc = "stream" /\ reply # "none"
    /\ pc' = "body"
    /\ tasks' = IF reply = "err" THEN tasks
                ELSE tasks \cup {[kind |-> "stream", scope |-> Tx(tenant), step |-> 1]}
    /\ Marked(tenant, reply = "err" /\ conn = "dead")
    /\ reply' = "none"
    /\ UNCHANGED <<pooled, tenant, frames, opened, sent, drops, conn, queue, serverVars,
                   known, history>>

-----------------------------------------------------------------------------
(* Spawned tasks *)

(* What a task still sends.  A stream ends with finish_transaction_best_    *)
(* effort, a top-level guard with ROLLBACK, a savepoint guard with ROLLBACK *)
(* TO and then, whatever the answer, RELEASE.                               *)
Script(t) ==
    IF t.kind = "stream" THEN <<"COMMIT">>
    ELSE IF t.scope.n = 1 THEN <<"ROLLBACK">> ELSE <<"ROLLBACK_TO", "RELEASE">>

Waits(t) == \E i \in 1..Len(queue) : queue[i].by = t.kind /\ queue[i].arg = t.scope

(* A task that waits for no answer sends its next command, and is gone when *)
(* the last is answered, or the connection is dead.                         *)
TaskStep(t) ==
    /\ t \in tasks /\ ~Waits(t)
    /\ IF conn = "alive" /\ t.step <= Len(Script(t))
       THEN /\ queue' = Append(queue, Cmd(Script(t)[t.step], t.scope, t.scope.tenant, t.kind))
            /\ tasks' = (tasks \ {t}) \cup {[t EXCEPT !.step = @ + 1]}
       ELSE tasks' = tasks \ {t} /\ UNCHANGED queue
    /\ Marked(t.scope.tenant, t.kind = "cleanup" /\ conn = "dead")
    /\ UNCHANGED <<callVars, reply, conn, serverVars, known, history>>

-----------------------------------------------------------------------------
(* The hand-over to the next tenant *)

NextTenant == tenant' = tenant + 1 /\ pc' = "idle" /\ UNCHANGED <<opened, sent, drops>>

(* The same Session is used again at once.                                  *)
Reuse ==
    /\ ~pooled /\ pc = "done" /\ NextTenant
    /\ UNCHANGED <<pooled, frames, reply, tasks, broken, conn, queue, serverVars, known, history>>

(* Drop for PoolConnection: the flag decides that is set now, whatever a    *)
(* clean-up that still runs makes of it later.                              *)
DropConnection ==
    /\ pooled /\ pc = "done"
    /\ \/ broken /\ pc' = "idle" /\ conn' = "discarded"
       \/ ~broken /\ pc' = "dropped" /\ UNCHANGED conn
    /\ UNCHANGED <<pooled, tenant, frames, opened, sent, drops, reply, tasks, broken, queue,
                   serverVars, known, history>>

(* recycle, in a task of its own: the status that the driver last saw       *)
(* decides.                                                                 *)
Recycle ==
    /\ pc = "dropped"
    /\ IF known THEN pc' = "return" /\ UNCHANGED <<queue, reply>>
       ELSE Call("ROLLBACK", Tx(tenant), "recycle")
    /\ UNCHANGED <<pooled, tenant, frames, opened, sent, drops, tasks, broken, conn,
                   serverVars, known, history>>

RecycleFails ==
    /\ Answered("recycle", "err")
    /\ pc' = "idle" /\ conn' = "discarded"
    /\ reply' = "none"
    /\ UNCHANGED <<pooled, tenant, frames, opened, sent, drops, tasks, broken, queue,
                   serverVars, known, history>>

(* return_idle, and the next acquire with its new broken flag.              *)
Return ==
    /\ pc = "return" \/ Answered("recycle", "ok")
    /\ NextTenant /\ broken' = FALSE
    /\ reply' = "none"
    /\ UNCHANGED <<pooled, frames, tasks, conn, queue, serverVars, known, history>>

-----------------------------------------------------------------------------
(* The server (external) *)

Index(s) == {i \in 1..Len(levels) : levels[i].scope = s}

(* Executing c: answer, levels, failed and newly committed statements.      *)
Outcome(r, ls, f, new) == [reply |-> r, levels |-> ls, failed |-> f, new |-> new]
Refused == Outcome("err", levels, levels # <<>>, {})
Noted == Outcome("ok", levels, failed, {})         \* a WARNING
AllWrites == UNION {levels[i].writes : i \in 1..Len(levels)}
Level(s, ws) == [scope |-> s, writes |-> ws]

Executions(c) ==
    LET depth == Len(levels) IN
    CASE c.op = "BEGIN" ->
            IF failed THEN {Refused} ELSE IF depth > 0 THEN {Noted}
            ELSE {Outcome("ok", <<Level(c.arg, {})>>, FALSE, {})}
      [] c.op = "COMMIT" ->
            IF depth = 0 THEN {Noted}
            ELSE IF failed THEN {Outcome("ok", <<>>, FALSE, {})}
            ELSE {Outcome("ok", <<>>, FALSE, AllWrites)} \cup
                 (IF CommitFails THEN {Outcome("err", <<>>, FALSE, {})} ELSE {})
      [] c.op = "ROLLBACK" -> {Outcome("ok", <<>>, FALSE, {})}
      [] c.op = "SAVEPOINT" ->
            IF depth = 0 \/ failed THEN {Refused}
            ELSE {Outcome("ok", Append(levels, Level(c.arg, {})), FALSE, {})}
      [] c.op = "RELEASE" ->
            IF failed \/ Index(c.arg) = {} THEN {Refused}
            ELSE {LET i == CHOOSE i \in Index(c.arg) : TRUE
                      merged == UNION {levels[j].writes : j \in (i - 1)..depth}
                  IN  Outcome("ok", SubSeq(levels, 1, i - 2) \o
                                    <<Level(levels[i - 1].scope, merged)>>, FALSE, {})}
      [] c.op = "ROLLBACK_TO" ->
            IF Index(c.arg) = {} THEN {Refused}
            ELSE {LET i == CHOOSE i \in Index(c.arg) : TRUE
                  IN  Outcome("ok", SubSeq(levels, 1, i - 1) \o <<Level(c.arg, {})>>, FALSE, {})}
      [] c.op = "WRITE" ->
            {Refused} \cup
            IF failed THEN {}
            ELSE IF depth = 0 THEN {Outcome("ok", <<>>, FALSE, {c.arg})}
            ELSE {Outcome("ok", [levels EXCEPT ![depth].writes = @ \cup {c.arg}], FALSE, {})}

Owner == IF levels = <<>> THEN 0 ELSE levels[1].scope.tenant

(* The tenants for whom the execution of c is a race: the one whose scope   *)
(* is open, if a spawned task has not finished or c is what a dropped scope *)
(* left behind; two tenants that meet in one transaction; the one whose     *)
(* transaction is committed by a stream, or before the cleanup of one of    *)
(* its savepoints is through, which on a discarded connection it never is.  *)
Races(c) ==
    (IF frames # <<>> /\ (tasks # {} \/ c.by = "orphan") THEN {tenant} ELSE {})
    \cup (IF Owner \notin {0, c.tenant} THEN {Owner, c.tenant} ELSE {})
    \cup (IF c.by = "stream" \/ (c.op = "COMMIT" /\ (conn = "discarded" \/ \E t \in tasks : t.scope.n > 1))
          THEN {Owner} \ {0} ELSE {})

(* One command is executed, and its answer goes to the tenant if it still   *)
(* waits for it.                                                            *)
Execute ==
    /\ conn # "dead" /\ queue # <<>>
    /\ queue' = Tail(queue)
    /\ LET c == Head(queue)
       IN  \E x \in Executions(c) :
              /\ levels' = x.levels /\ failed' = x.failed
              /\ known' = (x.levels = <<>>)
              /\ committed' = committed \cup x.new
              /\ reply' = IF c.by = "user" THEN x.reply ELSE reply
              /\ acked' = IF c.op = "WRITE" /\ x.reply = "ok" THEN acked \cup {c.arg} ELSE acked
              /\ hollow' = IF c.op = "COMMIT" /\ failed THEN hollow \cup {Owner} ELSE hollow
              /\ raced' = raced \cup Races(c)
              /\ Marked(c.tenant, c.by = "cleanup" /\ x.reply = "err")
    /\ UNCHANGED <<callVars, tasks, conn, outcome>>

(* The connection is lost: what is queued is answered with an error, and    *)
(* the server rolls back.                                                   *)
Die ==
    /\ Fatal /\ conn = "alive"
    /\ conn' = "dead" /\ queue' = <<>> /\ levels' = <<>> /\ failed' = FALSE
    /\ reply' = IF pc \in {"body", "done", "idle", "dropped", "return"} \/ reply # "none" THEN reply
                ELSE "err"
    /\ UNCHANGED <<callVars, tasks, broken, known, committed, history>>

-----------------------------------------------------------------------------
TenantStep ==
    \/ Entered \/ EnterFails \/ Written \/ Finished \/ FinishFails \/ RolledBack
    \/ RolledBackTo \/ Released \/ RollbackToFails \/ StreamOpened
    \/ Reuse \/ DropConnection \/ Recycle \/ RecycleFails \/ Return

Body == Begin \/ Savepoint \/ Write \/ Finish \/ Abandon \/ OpenStream

Over ==
    /\ pc = "idle" /\ (tenant > Tenants \/ conn = "discarded") /\ tasks = {}
    /\ queue = <<>> \/ conn = "dead"
    /\ UNCHANGED vars

Next == Body \/ TenantStep \/ Drop \/ (\E t \in tasks : TaskStep(t)) \/ Execute \/ Die \/ Over

Spec == Init /\ [][Next]_vars

-----------------------------------------------------------------------------
(* Properties *)

(* The variables hold values of their types.                                *)
TypeOK ==
    /\ tenant \in 1..(Tenants + 1) /\ opened \in 0..MaxSavepoints
    /\ sent \in 0..MaxWrites /\ drops \in 0..MaxDrops
    /\ pc \in {"idle", "begin", "body", "write", "stream", "finish", "abandon", "abandon2",
               "done", "dropped", "recycle", "return"}
    /\ frames \in Seq(Scopes) /\ reply \in {"none", "ok", "err"}
    /\ tasks \subseteq [kind : Leftovers, scope : Scopes, step : 1..3]
    /\ conn \in {"alive", "dead", "discarded"} /\ {pooled, broken, failed, known} \subseteq BOOLEAN
    /\ \A i \in 1..Len(levels) : levels[i].scope \in Scopes /\ levels[i].writes \subseteq Writes
    /\ committed \subseteq Writes /\ acked \subseteq Writes
    /\ outcome \in [Scopes -> {"none", "ok", "err", "dropped", "unknown"}]
    /\ hollow \cup raced \subseteq 1..Tenants

(* Nothing of a scope that returned an error or was dropped ever takes      *)
(* effect, neither at its end nor later, unless its transaction raced with  *)
(* a stream, a cleanup or another tenant.                                   *)
FailedScopeLeavesNothing ==
    \A w \in committed : w.tenant \notin raced =>
        \A s \in w.in : outcome[s] \notin {"err", "dropped"}

(* A transaction that returned Ok, had no such race and did not commit an   *)
(* aborted transaction, made every acknowledged statement of its successful *)
(* scopes permanent.                                                        *)
OkScopeIsPermanent ==
    \A w \in acked :
        w.tenant \notin raced \cup hollow /\ (\A s \in w.in : outcome[s] = "ok")
            => w \in committed

(* No transaction outlives its scope: once nobody is inside one, every      *)
(* spawned task has run and every command is answered, the server is idle.  *)
(* What was lost, dropped or refused on the way, some guard covered it, or  *)
(* the pool discards the connection.                                        *)
NothingStaysOpen ==
    conn # "discarded" /\ frames = <<>> /\ pc \in {"idle", "done", "dropped", "return"}
    /\ tasks = {} /\ queue = <<>>
        => levels = <<>>
=============================================================================
