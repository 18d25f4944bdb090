-------------------------------- MODULE Pool --------------------------------
(***************************************************************************)
(* The connection pool (crates/core/src/pool.rs): acquire, the recycling   *)
(* of dropped connections, the maintenance task and close, all on several  *)
(* threads of the runtime.                                                 *)
(*                                                                         *)
(* A task is one call of Pool::acquire and what its caller does with the   *)
(* connection.  Every await is a step boundary: between two steps of one   *)
(* task any other may run.  PoolState is read and written under a mutex,   *)
(* one critical section per step; a notification that follows one is part  *)
(* of the step, since what can happen in between only adds or saves a      *)
(* wakeup that finds nothing.                                              *)
(*                                                                         *)
(* Time is abstracted: a session is found expired, or a deadline passed,   *)
(* at any check.  tokio's Notify is external: one stored permit, waiters   *)
(* in FIFO order.                                                          *)
(***************************************************************************)
EXTENDS Integers, FiniteSets, Sequences

CONSTANTS
    Tasks,        \* calls of Pool::acquire
    Conns,        \* bound: connections that can exist at once
    None,         \* no connection
    MAX_SIZE,     \* PoolConfig::max_size
    MIN_IDLE,     \* PoolConfig::min_idle
    HealthCheck,  \* whether a health check is configured
    Expiry,       \* whether idle_timeout or max_lifetime is configured
    Abandon       \* whether callers drop futures midway, or off the runtime

ASSUME SizeAssumption == MAX_SIZE \in Nat \ {0} /\ MIN_IDLE \in 0..MAX_SIZE
ASSUME FlagAssumption == {HealthCheck, Expiry, Abandon} \subseteq BOOLEAN
ASSUME ConnsAssumption == IsFiniteSet(Conns) /\ IsFiniteSet(Tasks) /\ None \notin Conns

VARIABLES
    pool,     \* the Pool value: being built, usable, not built, or gone
    closed,   \* PoolInner::closed
    closer,   \* where Pool::close is
    total,    \* PoolState::total
    idle,     \* PoolState::idle
    permit,   \* the permit Notify stores when notify_one finds no waiter
    waiters,  \* tasks waiting in Notify, oldest first
    pc,       \* pc[t]: where the task is
    own,      \* own[t]: the connection in the task's hands
    phase,    \* phase[c]: what is happening to the connection
    tx,       \* tx[c]: its transaction status once all it was sent is done
    known,    \* known[c]: DriverState::transaction_status of its session
    broken,   \* broken[c]: PoolConnection::broken
    maint,    \* the maintenance task, or Pool::new running ensure_min_idle
    leaked    \* slots counted in total that nobody will release (history)

notifyVars == <<permit, waiters>>
connVars == <<tx, known, broken>>
vars == <<pool, closed, closer, total, idle, permit, waiters, pc, own, phase,
          tx, known, broken, maint, leaked>>

Acquiring == {"check", "take", "discardExpired", "health", "discardUnhealthy",
              "reserve", "connect", "release", "register", "waiting",
              "wokenOne", "wokenAll"}
Finished == {"returned", "poolClosed", "timedOut", "failed", "cancelled"}
Phases == {"none", "idle", "inHand", "recycle", "rollback", "return", "discard",
           "ending"}

Init ==
    /\ pool = "starting" /\ closed = FALSE /\ closer = "none"
    /\ total = 0 /\ idle = <<>>
    /\ permit = FALSE /\ waiters = <<>>
    /\ pc = [t \in Tasks |-> "new"] /\ own = [t \in Tasks |-> None]
    /\ phase = [c \in Conns |-> "none"]
    /\ tx = [c \in Conns |-> "I"] /\ known = [c \in Conns |-> "I"]
    /\ broken = [c \in Conns |-> FALSE]
    /\ maint = [pc |-> "ensure", conn |-> None]
    /\ leaked = 0

-----------------------------------------------------------------------------
(* tokio::sync::Notify (external) *)

Woken(pcs) == [t \in Tasks |-> IF pcs[t] = "waiting" THEN "wokenAll" ELSE pcs[t]]

(* notify_waiters: everyone who waits is woken, no permit is stored.        *)
NotifyWaiters(pcs) == pc' = Woken(pcs) /\ waiters' = <<>> /\ UNCHANGED permit

(* notify_one: the oldest waiter is woken, or one permit is stored.         *)
NotifyOne(pcs, queue) ==
    IF queue = <<>>
    THEN permit' = TRUE /\ waiters' = <<>> /\ pc' = pcs
    ELSE /\ pc' = [pcs EXCEPT ![Head(queue)] = "wokenOne"]
         /\ waiters' = Tail(queue)
         /\ UNCHANGED permit

(* What a queue holds without the members of `out`, in order.               *)
Keep(queue, out) ==
    LET upTo[n \in 0..Len(queue)] ==
            IF n = 0 THEN <<>>
            ELSE IF queue[n] \in out THEN upTo[n - 1] ELSE Append(upTo[n - 1], queue[n])
    IN  upTo[Len(queue)]

Without(queue, t) == Keep(queue, {t})

-----------------------------------------------------------------------------
(* PoolState *)

Less(n, k) == IF n < k THEN 0 ELSE n - k   \* usize::saturating_sub

(* release_slot.                                                            *)
ReleaseSlot(pcs) == total' = Less(total, 1) /\ NotifyWaiters(pcs)

(* A session is dropped or closed: its driver task ends in its own time.    *)
DropSession(c) == phase' = [phase EXCEPT ![c] = "ending"]

(* Session::connect_pooled yields a new connection.                         *)
NewConnection(c, ph) ==
    /\ phase[c] = "none"
    /\ phase' = [phase EXCEPT ![c] = ph]
    /\ tx' = [tx EXCEPT ![c] = "I"]
    /\ known' = [known EXCEPT ![c] = "I"]
    /\ broken' = [broken EXCEPT ![c] = FALSE]

-----------------------------------------------------------------------------
(* Pool::acquire *)

At(t, from) == pc[t] = from
Go(t, to) == pc' = [pc EXCEPT ![t] = to]

Start(t) ==
    /\ At(t, "new") /\ pool = "up"
    /\ Go(t, "check")
    /\ UNCHANGED <<pool, closed, closer, total, idle, notifyVars, own, phase,
                   connVars, maint, leaked>>

Check(t) ==
    /\ pc[t] \in {"check", "wokenOne", "wokenAll"}
    /\ Go(t, IF closed THEN "poolClosed" ELSE "take")
    /\ UNCHANGED <<pool, closed, closer, total, idle, notifyVars, own, phase,
                   connVars, maint, leaked>>

(* try_take_idle, is_expired.  The PoolConnection gets a new broken flag;   *)
(* that of an idle session is FALSE anyway (IdleIsClean).                   *)
(* TakeIdlePeek: front() instead of pop_front().                            *)
TakeIdlePeek(t) ==
    /\ At(t, "take") /\ idle # <<>>
    /\ own' = [own EXCEPT ![t] = Head(idle)]
    /\ phase' = [phase EXCEPT ![Head(idle)] = "inHand"]
    /\ \/ Expiry /\ Go(t, "discardExpired")
       \/ Go(t, IF HealthCheck THEN "health" ELSE "held")
    /\ UNCHANGED <<pool, closed, closer, total, idle, notifyVars, connVars, maint, leaked>>
TakeIdle(t) ==
    /\ At(t, "take") /\ idle # <<>>
    /\ idle' = Tail(idle)
    /\ own' = [own EXCEPT ![t] = Head(idle)]
    /\ phase' = [phase EXCEPT ![Head(idle)] = "inHand"]
    /\ \/ Expiry /\ Go(t, "discardExpired")
       \/ Go(t, IF HealthCheck THEN "health" ELSE "held")
    /\ UNCHANGED <<pool, closed, closer, total, notifyVars, connVars, maint, leaked>>

TakeNothing(t) ==
    /\ At(t, "take") /\ idle = <<>>
    /\ Go(t, "reserve")
    /\ UNCHANGED <<pool, closed, closer, total, idle, notifyVars, own, phase,
                   connVars, maint, leaked>>

(* run_health_check: a query on the session, so it comes after everything   *)
(* the session was sent before.                                             *)
CheckHealth(t) ==
    /\ At(t, "health")
    /\ known' = [known EXCEPT ![own[t]] = tx[own[t]]]
    /\ Go(t, "held") \/ Go(t, "discardUnhealthy")
    /\ UNCHANGED <<pool, closed, closer, total, idle, notifyVars, own, phase,
                   tx, broken, maint, leaked>>

(* discard, then the next round, or AcquireFailed past the deadline.        *)
DiscardTaken(t) ==
    /\ pc[t] \in {"discardExpired", "discardUnhealthy"}
    /\ \E next \in {"check"} \cup (IF At(t, "discardUnhealthy") THEN {"failed"} ELSE {}) :
          ReleaseSlot([pc EXCEPT ![t] = next])
    /\ DropSession(own[t])
    /\ own' = [own EXCEPT ![t] = None]
    /\ UNCHANGED <<pool, closed, closer, idle, connVars, maint, leaked>>

(* try_reserve_slot.  ReserveOffByOne: the ceiling is passed by one.        *)
ReserveOffByOne(t) ==
    /\ At(t, "reserve")
    /\ IF total > MAX_SIZE THEN Go(t, "register") /\ UNCHANGED total
       ELSE Go(t, "connect") /\ total' = total + 1
    /\ UNCHANGED <<pool, closed, closer, idle, notifyVars, own, phase, connVars,
                   maint, leaked>>
Reserve(t) ==
    /\ At(t, "reserve")
    /\ IF total >= MAX_SIZE THEN Go(t, "register") /\ UNCHANGED total
       ELSE Go(t, "connect") /\ total' = total + 1
    /\ UNCHANGED <<pool, closed, closer, idle, notifyVars, own, phase, connVars,
                   maint, leaked>>

Connect(t) ==
    /\ At(t, "connect")
    /\ \E c \in Conns : NewConnection(c, "inHand") /\ own' = [own EXCEPT ![t] = c]
    /\ Go(t, "held")
    /\ UNCHANGED <<pool, closed, closer, total, idle, notifyVars, maint, leaked>>

ConnectFails(t) ==
    /\ At(t, "connect")
    /\ Go(t, "release")
    /\ UNCHANGED <<pool, closed, closer, total, idle, notifyVars, own, phase,
                   connVars, maint, leaked>>

(* ReleaseForgotten: the error is returned without giving the slot back.    *)
ReleaseForgotten(t) ==
    /\ At(t, "release")
    /\ Go(t, "failed")
    /\ UNCHANGED <<pool, closed, closer, total, idle, notifyVars, own, phase,
                   connVars, maint, leaked>>
Release(t) ==
    /\ At(t, "release")
    /\ ReleaseSlot([pc EXCEPT ![t] = "failed"])
    /\ UNCHANGED <<pool, closed, closer, idle, own, phase, connVars, maint, leaked>>

(* timeout(remaining, notified()): at once if nothing remains, at once if a *)
(* permit is stored, and otherwise the task waits.                          *)
Register(t) ==
    /\ At(t, "register")
    /\ \/ Go(t, "timedOut") /\ UNCHANGED notifyVars
       \/ permit /\ permit' = FALSE /\ Go(t, "check") /\ UNCHANGED waiters
       \/ ~permit /\ waiters' = Append(waiters, t) /\ Go(t, "waiting") /\ UNCHANGED permit
    /\ UNCHANGED <<pool, closed, closer, total, idle, own, phase, connVars, maint, leaked>>

(* The timer fires before a notification: timeout polls notified() first.   *)
(* TimeOutNever: notified() is awaited without a deadline.                  *)
TimeOutNever(t) == At(t, "waiting") /\ FALSE /\ UNCHANGED vars
TimeOut(t) ==
    /\ At(t, "waiting")
    /\ waiters' = Without(waiters, t)
    /\ Go(t, "timedOut")
    /\ UNCHANGED <<pool, closed, closer, total, idle, permit, own, phase, connVars,
                   maint, leaked>>

(* The caller drops the future of acquire.  A session in its hands is       *)
(* dropped; a slot it reserved is not given back.  A waiter that notify_one *)
(* had chosen passes the notification on.                                   *)
Cancel(t) ==
    /\ Abandon /\ pc[t] \in Acquiring
    /\ leaked' = leaked + (IF own[t] # None \/ pc[t] \in {"connect", "release"} THEN 1 ELSE 0)
    /\ phase' = IF own[t] = None THEN phase ELSE [phase EXCEPT ![own[t]] = "ending"]
    /\ own' = [own EXCEPT ![t] = None]
    /\ LET pcs == [pc EXCEPT ![t] = "cancelled"]
           queue == Without(waiters, t)
       IN  IF At(t, "wokenOne") THEN NotifyOne(pcs, queue)
           ELSE pc' = pcs /\ waiters' = queue /\ UNCHANGED permit
    /\ UNCHANGED <<pool, closed, closer, total, idle, connVars, maint>>

AcquireStep(t) ==
    \/ Check(t) \/ TakeIdle(t) \/ TakeNothing(t) \/ CheckHealth(t) \/ DiscardTaken(t)
    \/ Reserve(t) \/ Connect(t) \/ ConnectFails(t) \/ Release(t) \/ Register(t) \/ TimeOut(t)

-----------------------------------------------------------------------------
(* PoolConnection *)

(* A statement runs to its end and leaves the session in status s.          *)
Use(t, s) ==
    /\ At(t, "held")
    /\ tx' = [tx EXCEPT ![own[t]] = s]
    /\ known' = [known EXCEPT ![own[t]] = s]
    /\ UNCHANGED <<pool, closed, closer, total, idle, notifyVars, pc, own, phase,
                   broken, maint, leaked>>

(* record_error of an error that should_recycle.                            *)
UseFails(t) ==
    /\ At(t, "held")
    /\ broken' = [broken EXCEPT ![own[t]] = TRUE]
    /\ UNCHANGED <<pool, closed, closer, total, idle, notifyVars, pc, own, phase,
                   tx, known, maint, leaked>>

(* The caller drops the future of a call: the driver still runs the         *)
(* statement, and the status is known only when its ReadyForQuery arrives.  *)
UseAbandoned(t, s) ==
    /\ Abandon /\ At(t, "held")
    /\ tx' = [tx EXCEPT ![own[t]] = s]
    /\ UNCHANGED <<pool, closed, closer, total, idle, notifyVars, pc, own, phase,
                   known, broken, maint, leaked>>
StatusArrives(c) ==
    /\ known[c] # tx[c]
    /\ known' = [known EXCEPT ![c] = tx[c]]
    /\ UNCHANGED <<pool, closed, closer, total, idle, notifyVars, pc, own, phase,
                   tx, broken, maint, leaked>>

(* Drop for PoolConnection: recycle is spawned, if there is a runtime.      *)
Return(t) ==
    /\ At(t, "held")
    /\ Go(t, "returned")
    /\ own' = [own EXCEPT ![t] = None]
    /\ \/ phase' = [phase EXCEPT ![own[t]] = "recycle"] /\ UNCHANGED leaked
       \/ Abandon /\ DropSession(own[t]) /\ leaked' = leaked + 1
    /\ UNCHANGED <<pool, closed, closer, total, idle, notifyVars, connVars, maint>>

(* recycle.  RecycleAsIs: no look at the transaction status.                *)
RecycleAsIs(c) ==
    /\ phase[c] = "recycle"
    /\ phase' = [phase EXCEPT ![c] = IF broken[c] \/ closed THEN "discard" ELSE "return"]
    /\ UNCHANGED <<pool, closed, closer, total, idle, notifyVars, pc, own, connVars,
                   maint, leaked>>
Recycle(c) ==
    /\ phase[c] = "recycle"
    /\ phase' = [phase EXCEPT ![c] = IF broken[c] \/ closed THEN "discard"
                                     ELSE IF known[c] # "I" THEN "rollback"
                                     ELSE "return"]
    /\ UNCHANGED <<pool, closed, closer, total, idle, notifyVars, pc, own, connVars,
                   maint, leaked>>

Rollback(c) ==
    /\ phase[c] = "rollback"
    /\ \/ /\ tx' = [tx EXCEPT ![c] = "I"] /\ known' = [known EXCEPT ![c] = "I"]
          /\ phase' = [phase EXCEPT ![c] = "return"]
       \/ phase' = [phase EXCEPT ![c] = "discard"] /\ UNCHANGED <<tx, known>>
    /\ UNCHANGED <<pool, closed, closer, total, idle, notifyVars, pc, own, broken,
                   maint, leaked>>

(* ensure_min_idle goes on when its return_idle is done.                    *)
MaintAfter(c) == maint' = IF maint.pc = "returning" /\ maint.conn = c
                          THEN [pc |-> "ensure", conn |-> None] ELSE maint

(* return_idle of a session that is not to be discarded: closed is read     *)
(* again, under the lock.  ReturnUnchecked: it is not.                      *)
ReturnUnchecked(c) ==
    /\ phase[c] = "return"
    /\ idle' = Append(idle, c) /\ phase' = [phase EXCEPT ![c] = "idle"]
    /\ NotifyOne(pc, waiters)
    /\ MaintAfter(c)
    /\ UNCHANGED <<pool, closed, closer, total, own, connVars, leaked>>
ReturnIdle(c) ==
    /\ phase[c] = "return"
    /\ IF closed
       THEN ReleaseSlot(pc) /\ DropSession(c) /\ UNCHANGED idle
       ELSE /\ idle' = Append(idle, c) /\ phase' = [phase EXCEPT ![c] = "idle"]
            /\ NotifyOne(pc, waiters)
            /\ UNCHANGED total
    /\ MaintAfter(c)
    /\ UNCHANGED <<pool, closed, closer, own, connVars, leaked>>

(* return_idle finds the session expired.                                   *)
ReturnExpired(c) ==
    /\ Expiry /\ phase[c] = "return"
    /\ phase' = [phase EXCEPT ![c] = "discard"]
    /\ UNCHANGED <<pool, closed, closer, total, idle, notifyVars, pc, own, connVars,
                   maint, leaked>>

(* discard gives the slot back before it drops the session.                 *)
Discard(c) ==
    /\ phase[c] = "discard"
    /\ ReleaseSlot(pc)
    /\ DropSession(c)
    /\ MaintAfter(c)
    /\ UNCHANGED <<pool, closed, closer, idle, own, connVars, leaked>>

(* The driver task of a dropped session shuts the socket down.              *)
Ends(c) ==
    /\ phase[c] = "ending"
    /\ phase' = [phase EXCEPT ![c] = "none"]
    /\ UNCHANGED <<pool, closed, closer, total, idle, notifyVars, pc, own, connVars,
                   maint, leaked>>

ConnStep(c) ==
    Recycle(c) \/ Rollback(c) \/ ReturnIdle(c) \/ ReturnExpired(c) \/ Discard(c) \/ Ends(c)

-----------------------------------------------------------------------------
(* Maintenance, Pool::new and Pool::close *)

IdleConns == {idle[i] : i \in 1..Len(idle)}

(* maintenance_tick: expired idle sessions go, and nobody is notified.      *)
Tick ==
    /\ maint.pc = "sleep" /\ pool = "up" /\ ~closed
    /\ \E gone \in SUBSET (IF Expiry THEN IdleConns ELSE {}) :
          /\ idle' = Keep(idle, gone)
          /\ total' = Less(total, Cardinality(gone))
          /\ phase' = [c \in Conns |-> IF c \in gone THEN "ending" ELSE phase[c]]
    /\ maint' = [pc |-> "ensure", conn |-> None]
    /\ UNCHANGED <<pool, closed, closer, notifyVars, pc, own, connVars, leaked>>

Stop ==
    /\ maint.pc = "sleep" /\ (closed \/ pool = "gone")
    /\ maint' = [pc |-> "stopped", conn |-> None]
    /\ UNCHANGED <<pool, closed, closer, total, idle, notifyVars, pc, own, phase,
                   connVars, leaked>>

(* The decision of ensure_min_idle; done, the maintenance task sleeps, and  *)
(* Pool::new returns.                                                       *)
Ensure ==
    /\ maint.pc = "ensure"
    /\ IF closed \/ Len(idle) >= MIN_IDLE \/ total >= MAX_SIZE
       THEN /\ maint' = [pc |-> "sleep", conn |-> None]
            /\ pool' = IF pool = "starting" THEN "up" ELSE pool
            /\ UNCHANGED total
       ELSE maint' = [pc |-> "connect", conn |-> None] /\ total' = total + 1 /\ UNCHANGED pool
    /\ UNCHANGED <<closed, closer, idle, notifyVars, pc, own, phase, connVars, leaked>>

EnsureConnects ==
    /\ maint.pc = "connect"
    /\ \E c \in Conns : /\ NewConnection(c, "return")
                        /\ maint' = [pc |-> "returning", conn |-> c]
    /\ UNCHANGED <<pool, closed, closer, total, idle, notifyVars, pc, own, leaked>>

(* A failed connect ends ensure_min_idle; Pool::new returns the error and   *)
(* drops the pool, with the sessions it already had.                        *)
EnsureFails ==
    /\ maint.pc = "connect"
    /\ ReleaseSlot(pc)
    /\ IF pool = "starting"
       THEN /\ pool' = "gone" /\ idle' = <<>>
            /\ phase' = [c \in Conns |-> IF phase[c] = "idle" THEN "ending" ELSE phase[c]]
            /\ maint' = [pc |-> "stopped", conn |-> None]
       ELSE maint' = [pc |-> "sleep", conn |-> None] /\ UNCHANGED <<pool, idle, phase>>
    /\ UNCHANGED <<closed, closer, own, connVars, leaked>>

MaintStep == Tick \/ Stop \/ Ensure \/ EnsureConnects \/ EnsureFails

(* Pool::close: the flag and the wakeup, then the idle sessions.            *)
Close ==
    /\ pool = "up" /\ closer = "none"
    /\ closed' = TRUE /\ closer' = "drain"
    /\ NotifyWaiters(pc)
    /\ UNCHANGED <<pool, total, idle, own, phase, connVars, maint, leaked>>

CloseDrains ==
    /\ closer = "drain"
    /\ closer' = "done"
    /\ total' = Less(total, Len(idle)) /\ idle' = <<>>
    /\ phase' = [c \in Conns |-> IF c \in IdleConns THEN "ending" ELSE phase[c]]
    /\ UNCHANGED <<pool, closed, notifyVars, pc, own, connVars, maint, leaked>>

(* The last Pool value and the last PoolConnection are gone, and no task    *)
(* holds the PoolInner: it is dropped with its idle sessions.               *)
DropPool ==
    /\ pool = "up" /\ closer # "drain" /\ maint.pc \in {"sleep", "stopped"}
    /\ \A t \in Tasks : pc[t] \notin Acquiring \cup {"held"}
    /\ \A c \in Conns : phase[c] \in {"none", "idle", "ending"}
    /\ pool' = "gone" /\ idle' = <<>>
    /\ phase' = [c \in Conns |-> IF phase[c] = "idle" THEN "ending" ELSE phase[c]]
    /\ UNCHANGED <<closed, closer, total, notifyVars, pc, own, connVars, maint, leaked>>

(* Everything is over.                                                      *)
Quiescent ==
    /\ pool = "gone" /\ maint.pc = "stopped"
    /\ \A c \in Conns : phase[c] = "none"
    /\ UNCHANGED vars

Next ==
    \/ \E t \in Tasks : \/ Start(t) \/ AcquireStep(t) \/ Cancel(t) \/ Return(t) \/ UseFails(t)
                        \/ \E s \in {"I", "T"} : Use(t, s) \/ UseAbandoned(t, s)
    \/ \E c \in Conns : ConnStep(c) \/ StatusArrives(c)
    \/ MaintStep \/ Close \/ CloseDrains \/ DropPool \/ Quiescent

Spec == Init /\ [][Next]_vars

(* The runtime polls every task that can go on, timers fire, a connection   *)
(* attempt ends one way or the other.  Callers are not fair, and close() is *)
(* a caller's future.                                                       *)
FairSpec ==
    /\ Spec
    /\ \A t \in Tasks : WF_vars(AcquireStep(t))
    /\ \A c \in Conns : WF_vars(ConnStep(c))
    /\ WF_vars(MaintStep)

-----------------------------------------------------------------------------
(* Properties *)

TypeOK ==
    /\ pool \in {"starting", "up", "gone"} /\ closed \in BOOLEAN
    /\ closer \in {"none", "drain", "done"}
    /\ total \in 0..MAX_SIZE /\ idle \in Seq(Conns)
    /\ permit \in BOOLEAN /\ waiters \in Seq(Tasks)
    /\ pc \in [Tasks -> Acquiring \cup Finished \cup {"new", "held"}]
    /\ own \in [Tasks -> Conns \cup {None}]
    /\ phase \in [Conns -> Phases]
    /\ tx \in [Conns -> {"I", "T"}] /\ known \in [Conns -> {"I", "T"}]
    /\ broken \in [Conns -> BOOLEAN]
    /\ maint \in [pc : {"ensure", "connect", "returning", "sleep", "stopped"},
                  conn : Conns \cup {None}]
    /\ leaked \in Nat

(* The connections in the pool's care, and the slots that are reserved for  *)
(* one that is being opened.                                                *)
InCare == {c \in Conns : phase[c] \notin {"none", "ending"}}
Opening == {t \in Tasks : pc[t] \in {"connect", "release"}}
MaintSlots == IF maint.pc = "connect" THEN 1 ELSE 0

(* PoolState::total counts exactly the connections in the pool's care and   *)
(* the ones being opened, plus what abandoned calls left behind: no path    *)
(* through acquire, recycle, maintenance and close releases a slot twice,   *)
(* forgets one, or is saved by the saturating subtraction; and however they *)
(* race for the last slot, there are never more than max_size.              *)
SlotsTaken == Cardinality(InCare) + Cardinality(Opening) + MaintSlots
SlotsAccounted ==
    /\ pool # "gone" => total = SlotsTaken + leaked
    /\ SlotsTaken <= MAX_SIZE

(* A connection is in the idle queue once or in one caller's hands, and a   *)
(* caller that holds one holds a session that nobody recycles.              *)
Ownership ==
    /\ \A i, j \in 1..Len(idle) : idle[i] = idle[j] => i = j
    /\ \A c \in Conns : phase[c] = "idle" <=> c \in IdleConns
    /\ \A c \in Conns : phase[c] = "inHand" <=> \E t \in Tasks : own[t] = c
    /\ \A t, u \in Tasks : own[t] = own[u] /\ own[t] # None => t = u
    /\ \A t \in Tasks : own[t] # None <=>
          pc[t] \in {"discardExpired", "health", "discardUnhealthy", "held"}

(* An idle session, the next caller's, is not one that its last caller saw  *)
(* break, and it is outside any transaction.                                *)
IdleIsClean == \A c \in IdleConns : ~broken[c] /\ tx[c] = "I"

(* The pool as a store that lends connections: those between a drop and the *)
(* idle queue are being checked.                                            *)
Back == {c \in Conns : phase[c] \in {"recycle", "rollback", "return", "discard"}}
Stocking == maint.pc = "connect"
Serving == ~closed /\ pool # "gone"
Store == INSTANCE Lending WITH
            Borrowers <- Tasks, Items <- Conns, Limit <- MAX_SIZE,
            holder <- own, shelf <- idle, back <- Back, making <- Opening,
            stocking <- Stocking, lost <- leaked, open <- Serving

(* The pool lends: every step of callers, recycling, maintenance and close  *)
(* is a step of Lending or none.  A session is given to one caller at a     *)
(* time, the longest idle one first; a new one is opened only in a slot     *)
(* that was free; one reaches the idle queue only through recycle or the    *)
(* refill, and none does once the pool is closed.                           *)
Lends == Store!LSpec

(* No call of Pool::acquire stays at one of its awaits for ever: it comes   *)
(* back with a connection or an error, or goes round its loop again, which  *)
(* its deadline bounds unless it keeps finding sessions that have expired.  *)
AcquireReturns ==
    \A t \in Tasks : pc[t] \in Acquiring ~>
                       pc[t] \in Finished \cup {"held", "check", "wokenOne", "wokenAll"}

(* Once close() has drained the idle queue, every connection that no caller *)
(* holds is shut, those that return later included.  A close() whose future *)
(* is dropped before that is not assumed to go on.                          *)
ClosedPoolDrains == closer = "done" ~> \A c \in Conns : phase[c] \in {"none", "inHand"}
=============================================================================
