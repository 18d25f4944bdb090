----------------------------- MODULE PoolProofs -----------------------------
(***************************************************************************)
(* Proofs about Pool, for any number of callers and connections, any       *)
(* max_size and min_idle, with or without health checks, expiry and        *)
(* abandoned calls.                                                        *)
(***************************************************************************)
EXTENDS Pool, SequenceFacts, TLAPS

-----------------------------------------------------------------------------
(* Facts about the operators *)

(* Keep has the members of the queue that are not taken out, each as often  *)
(* as before and in the same order.                                         *)
LEMMA KeepFacts ==
    ASSUME NEW S, NEW q \in Seq(S), NEW out
    PROVE  /\ Keep(q, out) \in Seq(S)
           /\ Members(Keep(q, out)) = Members(q) \ out
           /\ Distinct(q) => Distinct(Keep(q, out)) /\ Store!InOrder(Keep(q, out), q)
<1> DEFINE L == Len(q)
           Next1(g, n) == IF n = 0 THEN <<>>
                          ELSE IF q[n] \in out THEN g[n - 1] ELSE Append(g[n - 1], q[n])
           Eq(f) == f = [n \in 0..L |-> Next1(f, n)]
           F == CHOOSE f : Eq(f)
<1>1. L \in Nat /\ q \in [1..L -> S]
  OBVIOUS
<1>2. \E f : Eq(f)
  <2> DEFINE T == {k \in 0..L : \E g \in [0..k -> Seq(S)] : \A n \in 0..k : g[n] = Next1(g, n)}
  <2>1. 0 \in T
    <3>1. [n \in 0..0 |-> <<>>] \in [0..0 -> Seq(S)]
      OBVIOUS
    <3>2. \A n \in 0..0 : [m \in 0..0 |-> <<>>][n] = Next1([m \in 0..0 |-> <<>>], n)
      OBVIOUS
    <3>3. 0 \in 0..L
      BY <1>1
    <3> HIDE DEF Next1
    <3> QED
      BY <3>1, <3>2, <3>3, Zenon
  <2>2. ASSUME NEW k \in 0..(L - 1), k \in T PROVE k + 1 \in T
    <3>1. PICK g \in [0..k -> Seq(S)] : \A n \in 0..k : g[n] = Next1(g, n)
      BY <2>2
    <3> DEFINE v == IF q[k + 1] \in out THEN g[k] ELSE Append(g[k], q[k + 1])
               h == [n \in 0..(k + 1) |-> IF n = k + 1 THEN v ELSE g[n]]
    <3>2. v \in Seq(S)
      BY <1>1, <3>1
    <3>3. h \in [0..(k + 1) -> Seq(S)]
      <4> HIDE DEF v
      <4> QED
        BY <3>1, <3>2
    <3>4. \A n \in 0..(k + 1) : h[n] = Next1(h, n)
      <4> TAKE n \in 0..(k + 1)
      <4>1. CASE n = 0
        BY <4>1, <3>1
      <4>2. CASE n \in 1..k
        <5>1. h[n] = g[n] /\ h[n - 1] = g[n - 1] /\ n \in 0..k /\ n # 0
          BY <4>2
        <5>2. g[n] = Next1(g, n)
          BY <5>1, <3>1
        <5> HIDE DEF h
        <5> QED
          BY <5>1, <5>2
      <4>3. CASE n = k + 1
        <5>1. h[n] = v /\ h[n - 1] = g[k] /\ n # 0
          BY <4>3
        <5> HIDE DEF h
        <5> QED
          BY <5>1, <4>3
      <4> QED
        BY <4>1, <4>2, <4>3
    <3>5. k + 1 \in 0..L
      BY <1>1
    <3> HIDE DEF h, Next1
    <3> QED
      BY <3>3, <3>4, <3>5
  <2>3. \A n \in 0..L : n \in T
    <3> HIDE DEF T
    <3> QED
      BY <1>1, <2>1, <2>2, InductionTo
  <2>4. PICK g \in [0..L -> Seq(S)] : \A n \in 0..L : g[n] = Next1(g, n)
    <3>1. L \in 0..L
      BY <1>1
    <3> HIDE DEF Next1, L
    <3> QED
      BY <2>3, <3>1, Zenon
  <2>5. g = [n \in 0..L |-> Next1(g, n)]
    <3> HIDE DEF Next1, L
    <3> QED
      BY <2>4
  <2> QED
    BY <2>5
<1>3. Eq(F)
  <2> HIDE DEF Eq
  <2> QED
    BY <1>2
<1>4. Keep(q, out) = F[L]
  BY DEF Keep
<1>5. \A n \in 0..L : F[n] = Next1(F, n)
  <2> HIDE DEF Next1, F, L
  <2> QED
    BY <1>3
<1> HIDE DEF F
<1> DEFINE To(n) == {q[i] : i \in 1..n}
           T == {n \in 0..L : /\ F[n] \in Seq(S) /\ Members(F[n]) = To(n) \ out
                              /\ Distinct(q) => Distinct(F[n]) /\ Store!InOrder(F[n], q)}
<1>6. 0 \in T
  <2>1. F[0] = <<>>
    BY <1>1, <1>5
  <2>2. To(0) = {}
    OBVIOUS
  <2>3. 0 \in 0..L
    BY <1>1
  <2> HIDE DEF To
  <2>4. F[0] \in Seq(S) /\ Members(F[0]) = To(0) \ out /\ Distinct(F[0])
    BY <2>1, <2>2, EmptySeqFacts
  <2>5. Store!InOrder(F[0], q)
    BY <2>1 DEF Store!InOrder
  <2> QED
    BY <2>3, <2>4, <2>5
<1>7. ASSUME NEW n \in 0..(L - 1), n \in T PROVE n + 1 \in T
  <2>1. F[n + 1] = IF q[n + 1] \in out THEN F[n] ELSE Append(F[n], q[n + 1])
    <3>1. n + 1 \in 0..L /\ n + 1 # 0 /\ (n + 1) - 1 = n
      BY <1>1
    <3> QED
      BY <1>5, <3>1
  <2>2. To(n + 1) = To(n) \cup {q[n + 1]} /\ q[n + 1] \in S /\ n + 1 \in 0..L
    BY <1>1
  <2>3. /\ F[n] \in Seq(S) /\ Members(F[n]) = To(n) \ out
        /\ Distinct(q) => Distinct(F[n]) /\ Store!InOrder(F[n], q)
    BY <1>7
  <2>4. Distinct(q) => q[n + 1] \notin To(n)
    BY <1>1 DEF Distinct
  <2> HIDE DEF To
  <2>5. CASE q[n + 1] \in out
    BY <2>1, <2>2, <2>3, <2>5
  <2>6. CASE q[n + 1] \notin out
    <3>1. F[n + 1] = Append(F[n], q[n + 1])
      BY <2>1, <2>6
    <3>2. /\ F[n + 1] \in Seq(S) /\ Members(F[n + 1]) = Members(F[n]) \cup {q[n + 1]}
          /\ Distinct(F[n]) /\ q[n + 1] \notin Members(F[n]) => Distinct(F[n + 1])
      BY <2>2, <2>3, <3>1, AppendFacts
    <3>3. ASSUME Distinct(q) PROVE Store!InOrder(F[n + 1], q)
      <4> DEFINE m == Len(F[n])
      <4>1. /\ m \in Nat /\ Len(F[n + 1]) = m + 1 /\ F[n + 1][m + 1] = q[n + 1]
            /\ \A i \in 1..m : F[n + 1][i] = F[n][i]
        BY <2>2, <2>3, <3>1, AppendFacts
      <4>2. \A i \in 1..m : \E k \in 1..n : F[n][i] = q[k]
        BY <2>3 DEF Members, To
      <4>3. \A i, j \in 1..m, k, l \in 1..L :
               i < j /\ F[n][i] = q[k] /\ F[n][j] = q[l] => k < l
        BY <2>3, <3>3 DEF Store!InOrder
      <4>4. n + 1 \in 1..L /\ n \in Nat
        BY <1>1
      <4> HIDE DEF m, L
      <4>5. ASSUME NEW i \in 1..(m + 1) PROVE \E k \in 1..L : F[n + 1][i] = q[k]
        <5>1. CASE i = m + 1
          BY <4>1, <4>4, <5>1
        <5>2. CASE i \in 1..m
          BY <1>1, <4>1, <4>2, <4>4, <5>2
        <5> QED
          BY <4>1, <5>1, <5>2
      <4>6. ASSUME NEW i \in 1..(m + 1), NEW j \in 1..(m + 1), NEW k \in 1..L, NEW l \in 1..L,
                   i < j, F[n + 1][i] = q[k], F[n + 1][j] = q[l]
            PROVE  k < l
        <5>1. i \in 1..m /\ F[n + 1][i] = F[n][i]
          BY <4>1, <4>6
        <5>2. CASE j \in 1..m
          BY <4>1, <4>3, <4>6, <5>1, <5>2
        <5>3. CASE j = m + 1
          <6>1. l = n + 1
            BY <3>3, <4>1, <4>4, <4>6, <5>3 DEF Distinct, L
          <6>2. PICK o \in 1..n : F[n][i] = q[o]
            BY <4>2, <5>1
          <6>3. o \in 1..L
            BY <4>4, <6>2, <1>1
          <6>4. k = o
            BY <3>3, <4>6, <5>1, <6>2, <6>3 DEF Distinct, L
          <6> QED
            BY <6>1, <6>4, <4>4
        <5> QED
          BY <4>1, <5>2, <5>3
      <4> QED
        BY <4>1, <4>5, <4>6 DEF Store!InOrder, L
    <3> QED
      BY <2>2, <2>3, <2>4, <2>6, <3>2, <3>3
  <2> QED
    BY <2>5, <2>6
<1>8. L \in T
  <2> HIDE DEF T
  <2>1. \A n \in 0..L : n \in T
    BY <1>1, <1>6, <1>7, InductionTo
  <2> QED
    BY <1>1, <2>1
<1>9. To(L) = Members(q)
  BY DEF Members
<1> QED
  BY <1>4, <1>8, <1>9

PCs == Acquiring \cup Finished \cup {"new", "held"}

(* notify_waiters moves everyone who waits, and nobody else.                *)
LEMMA NotifyWaitersFacts ==
    ASSUME NEW pcs \in [Tasks -> PCs], NotifyWaiters(pcs)
    PROVE  /\ pc' \in [Tasks -> PCs] /\ waiters' = <<>> /\ permit' = permit
           /\ \A u \in Tasks : \/ pc'[u] = pcs[u]
                               \/ pcs[u] = "waiting" /\ pc'[u] = "wokenAll"
  BY DEF NotifyWaiters, Woken, PCs, Acquiring

(* notify_one moves the oldest waiter, and nobody else.                     *)
LEMMA NotifyOneFacts ==
    ASSUME NEW pcs \in [Tasks -> PCs], NEW queue \in Seq(Tasks), Distinct(queue),
           \A u \in Members(queue) : pcs[u] = "waiting",
           permit \in BOOLEAN, NotifyOne(pcs, queue)
    PROVE  /\ pc' \in [Tasks -> PCs] /\ waiters' \in Seq(Tasks) /\ permit' \in BOOLEAN
           /\ \A u \in Tasks : \/ pc'[u] = pcs[u]
                               \/ pcs[u] = "waiting" /\ pc'[u] = "wokenOne"
           /\ Distinct(waiters') /\ \A u \in Members(waiters') : pc'[u] = "waiting"
<1>1. CASE queue = <<>>
  BY <1>1, EmptySeqFacts DEF NotifyOne
<1>2. CASE queue # <<>>
  <2>1. /\ Tail(queue) \in Seq(Tasks) /\ Head(queue) \in Tasks
        /\ Members(queue) = Members(Tail(queue)) \cup {Head(queue)}
        /\ Distinct(Tail(queue)) /\ Head(queue) \notin Members(Tail(queue))
    BY <1>2, TailFacts
  <2>2. /\ pc' = [pcs EXCEPT ![Head(queue)] = "wokenOne"] /\ waiters' = Tail(queue)
        /\ permit' = permit
    BY <1>2 DEF NotifyOne
  <2>3. \A u \in Members(Tail(queue)) : u \in Tasks
    BY <2>1 DEF Members
  <2> QED
    BY <2>1, <2>2, <2>3 DEF PCs, Acquiring
<1> QED
  BY <1>1, <1>2

-----------------------------------------------------------------------------
(* The inductive invariant *)

(* The queue of Notify holds tasks that wait, each once.                    *)
Queued == Distinct(waiters) /\ \A t \in Members(waiters) : pc[t] = "waiting"

(* The idle queue holds the idle connections, each once.                    *)
Shelved == /\ Distinct(idle)
           /\ \A c \in Conns : phase[c] = "idle" <=> c \in Members(idle)

(* A task has a connection exactly at the points of acquire where one is in *)
(* its hands, and no other task has the same.                               *)
Holding == {"discardExpired", "health", "discardUnhealthy", "held"}
Hands == /\ \A t \in Tasks : own[t] # None <=> pc[t] \in Holding
         /\ \A t \in Tasks : own[t] # None => phase[own[t]] = "inHand"
         /\ \A c \in Conns : phase[c] = "inHand" => \E t \in Tasks : own[t] = c
         /\ \A t, u \in Tasks : own[t] = own[u] /\ own[t] # None => t = u

(* Before the pool is up only ensure_min_idle works on it; once it is gone, *)
(* nobody does.                                                             *)
Nobody == /\ \A t \in Tasks : pc[t] \notin Acquiring \cup {"held"}
          /\ \A c \in Conns : phase[c] \in {"none", "ending"}
          /\ maint.pc \in {"sleep", "stopped"}
OnlyEnsure == /\ \A t \in Tasks : pc[t] = "new"
              /\ \A c \in Conns : \/ phase[c] \in {"none", "idle", "ending"}
                                  \/ /\ phase[c] \in {"return", "discard"}
                                     /\ maint.pc = "returning" /\ maint.conn = c
Staged == (pool = "gone" => Nobody) /\ (pool = "starting" => OnlyEnsure)

Inv == TypeOK /\ Queued /\ Shelved /\ Hands /\ Staged


(* A slot is given back: total falls by one, and everyone who waits wakes.  *)
LEMMA ReleaseSlotFacts ==
    ASSUME TypeOK, NEW pcs \in [Tasks -> PCs], ReleaseSlot(pcs)
    PROVE  /\ total' \in 0..MAX_SIZE /\ total' = IF total = 0 THEN 0 ELSE total - 1
           /\ pc' \in [Tasks -> PCs] /\ waiters' = <<>> /\ permit' = permit
           /\ \A u \in Tasks : \/ pc'[u] = pcs[u]
                               \/ pcs[u] = "waiting" /\ pc'[u] = "wokenAll"
<1>1. total' \in 0..MAX_SIZE /\ total' = IF total = 0 THEN 0 ELSE total - 1
  BY SizeAssumption DEF ReleaseSlot, Less, TypeOK
<1> QED
  BY <1>1, NotifyWaitersFacts DEF ReleaseSlot

LEMMA MaintAfterTyped ==
    ASSUME TypeOK, NEW c, MaintAfter(c)
    PROVE  maint' \in [pc : {"ensure", "connect", "returning", "sleep", "stopped"},
                       conn : Conns \cup {None}]
  BY DEF MaintAfter, TypeOK

(* A call that is dropped leaves the queue, and passes on what notify_one   *)
(* had chosen it for.                                                       *)
LEMMA CancelFacts ==
    ASSUME Inv, NEW t \in Tasks, Cancel(t)
    PROVE  /\ pc' \in [Tasks -> PCs] /\ waiters' \in Seq(Tasks) /\ permit' \in BOOLEAN
           /\ pc'[t] = "cancelled"
           /\ \A u \in Tasks \ {t} : \/ pc'[u] = pc[u]
                                     \/ pc[u] = "waiting" /\ pc'[u] = "wokenOne"
           /\ Distinct(waiters') /\ \A u \in Members(waiters') : pc'[u] = "waiting"
<1> DEFINE pcs == [pc EXCEPT ![t] = "cancelled"]
           queue == Without(waiters, t)
<1>1. /\ queue \in Seq(Tasks) /\ Distinct(queue) /\ Members(queue) = Members(waiters) \ {t}
  BY KeepFacts DEF Without, Inv, TypeOK, Queued
<1>2. pcs \in [Tasks -> PCs] /\ pcs[t] = "cancelled" /\ \A u \in Tasks \ {t} : pcs[u] = pc[u]
  BY DEF Inv, TypeOK, PCs, Finished
<1>3. Members(waiters) \subseteq Tasks
  BY DEF Members, Inv, TypeOK
<1>4. \A u \in Members(queue) : pcs[u] = "waiting"
  BY <1>1, <1>2, <1>3 DEF Inv, Queued
<1>5. permit \in BOOLEAN
  BY DEF Inv, TypeOK
<1>6. IF At(t, "wokenOne") THEN NotifyOne(pcs, queue)
      ELSE pc' = pcs /\ waiters' = queue /\ permit' = permit
  BY DEF Cancel
<1> HIDE DEF pcs, queue
<1>7. CASE At(t, "wokenOne")
  <2>1. NotifyOne(pcs, queue)
    BY <1>6, <1>7
  <2> QED
    BY <1>1, <1>2, <1>4, <1>5, <2>1, NotifyOneFacts
<1>8. CASE ~At(t, "wokenOne")
  BY <1>1, <1>2, <1>4, <1>5, <1>6, <1>8
<1> QED
  BY <1>7, <1>8

LEMMA WaitersAreTasks == ASSUME TypeOK PROVE Members(waiters) \subseteq Tasks
  BY DEF Members, TypeOK

LEMMA IdleAreConns == ASSUME TypeOK PROVE Members(idle) \subseteq Conns
  BY DEF Members, TypeOK

(* What a wakeup may do to the program counters.                            *)
Wakes(pcs) == \A u \in Tasks : \/ pc'[u] = pcs[u]
                               \/ pcs[u] = "waiting" /\ pc'[u] \in {"wokenOne", "wokenAll"}

LEMMA ReturnIdleFacts ==
    ASSUME Inv, NEW c \in Conns, ReturnIdle(c)
    PROVE  /\ Queued' /\ Wakes(pc)
           /\ \/ /\ closed /\ phase' = [phase EXCEPT ![c] = "ending"] /\ idle' = idle
                 /\ total' = IF total = 0 THEN 0 ELSE total - 1
              \/ /\ ~closed /\ phase' = [phase EXCEPT ![c] = "idle"] /\ idle' = Append(idle, c)
                 /\ total' = total
<1>1. pc \in [Tasks -> PCs]
  BY DEF Inv, TypeOK, PCs
<1>2. CASE closed
  <2>1. ReleaseSlot(pc) /\ DropSession(c) /\ idle' = idle
    BY <1>2 DEF ReturnIdle
  <2>2. /\ total' = IF total = 0 THEN 0 ELSE total - 1
        /\ waiters' = <<>> /\ Wakes(pc)
    BY <1>1, <2>1, ReleaseSlotFacts DEF Wakes, Inv
  <2>3. Queued'
    BY <2>2, EmptySeqFacts DEF Queued
  <2> QED
    BY <1>2, <2>1, <2>2, <2>3 DEF DropSession
<1>3. CASE ~closed
  <2>1. /\ NotifyOne(pc, waiters) /\ idle' = Append(idle, c) /\ total' = total
        /\ phase' = [phase EXCEPT ![c] = "idle"]
    BY <1>3 DEF ReturnIdle
  <2>2. waiters \in Seq(Tasks) /\ permit \in BOOLEAN /\ Queued
    BY DEF Inv, TypeOK
  <2>3. Wakes(pc) /\ Queued'
    BY <1>1, <2>1, <2>2, NotifyOneFacts DEF Wakes, Queued
  <2> QED
    BY <1>3, <2>1, <2>3
<1> QED
  BY <1>2, <1>3

(* Every step keeps the types.                                              *)
LEMMA TypesKept == ASSUME Inv, [Next]_vars PROVE TypeOK'
<1>1. ASSUME NEW t \in Tasks, Start(t) PROVE TypeOK'
  BY <1>1 DEF Start, Inv, TypeOK, PCs, Acquiring, Finished, Phases, vars, notifyVars, connVars, Go, At
<1>2. ASSUME NEW t \in Tasks, Check(t) PROVE TypeOK'
  BY <1>2 DEF Check, Inv, TypeOK, PCs, Acquiring, Finished, Phases, vars, notifyVars, connVars, Go, At
<1>3. ASSUME NEW t \in Tasks, TakeIdle(t) PROVE TypeOK'
  <2>1. Tail(idle) \in Seq(Conns) /\ Head(idle) \in Conns
    BY <1>3, TailFacts DEF TakeIdle, Inv, TypeOK
  <2> QED
    <3>1. pc' \in [Tasks -> PCs]
      BY <1>3 DEF TakeIdle, Go, Inv, TypeOK, PCs, Acquiring
    <3>2. own' \in [Tasks -> Conns \cup {None}] /\ phase' \in [Conns -> Phases] /\ idle' \in Seq(Conns)
      BY <1>3, <2>1 DEF TakeIdle, Inv, TypeOK, Phases
    <3> QED
      BY <1>3, <3>1, <3>2 DEF TakeIdle, Inv, TypeOK, PCs, notifyVars, connVars
<1>4. ASSUME NEW t \in Tasks, TakeNothing(t) PROVE TypeOK'
  BY <1>4 DEF TakeNothing, Inv, TypeOK, PCs, Acquiring, Finished, Phases, vars, notifyVars, connVars, Go, At
<1>5. ASSUME NEW t \in Tasks, CheckHealth(t) PROVE TypeOK'
  <2>1. pc' \in [Tasks -> PCs]
    BY <1>5 DEF CheckHealth, Go, Inv, TypeOK, PCs, Acquiring
  <2>2. known' \in [Conns -> {"I", "T"}]
    <3>1. known' = [known EXCEPT ![own[t]] = tx[own[t]]]
      BY <1>5 DEF CheckHealth
    <3>2. own[t] \in Conns => tx[own[t]] \in {"I", "T"}
      BY DEF Inv, TypeOK
    <3> QED
      BY <3>1, <3>2 DEF Inv, TypeOK
  <2> QED
    BY <1>5, <2>1, <2>2 DEF CheckHealth, Inv, TypeOK, PCs, notifyVars
<1>6. ASSUME NEW t \in Tasks, DiscardTaken(t) PROVE TypeOK'
  <2>1. PICK next \in {"check", "failed"} : ReleaseSlot([pc EXCEPT ![t] = next])
    BY <1>6 DEF DiscardTaken
  <2>2. [pc EXCEPT ![t] = next] \in [Tasks -> PCs]
    BY DEF Inv, TypeOK, PCs, Acquiring, Finished
  <2>3. total' \in 0..MAX_SIZE /\ pc' \in [Tasks -> PCs] /\ waiters' = <<>> /\ permit' = permit
    BY <2>1, <2>2, ReleaseSlotFacts DEF Inv
  <2>4. phase' \in [Conns -> Phases] /\ own' \in [Tasks -> Conns \cup {None}]
    BY <1>6 DEF DiscardTaken, DropSession, Inv, TypeOK, Phases
  <2>5. UNCHANGED <<pool, closed, closer, idle, tx, known, broken, maint, leaked>>
    BY <1>6 DEF DiscardTaken, connVars
  <2> QED
    BY <2>3, <2>4, <2>5 DEF Inv, TypeOK, PCs
<1>7. ASSUME NEW t \in Tasks, Reserve(t) PROVE TypeOK'
  <2>1. total' \in 0..MAX_SIZE
    BY <1>7, SizeAssumption DEF Reserve, Inv, TypeOK
  <2>2. pc' \in [Tasks -> PCs]
    BY <1>7 DEF Reserve, Go, Inv, TypeOK, PCs, Acquiring
  <2> QED
    BY <1>7, <2>1, <2>2 DEF Reserve, Inv, TypeOK, PCs, connVars, notifyVars
<1>8. ASSUME NEW t \in Tasks, Connect(t) PROVE TypeOK'
  <2>1. PICK c \in Conns : NewConnection(c, "inHand") /\ own' = [own EXCEPT ![t] = c]
    BY <1>8 DEF Connect
  <2> QED
    BY <1>8, <2>1 DEF Connect, Inv, TypeOK, PCs, Acquiring, Finished, Phases, vars, notifyVars, connVars, Go, At, NewConnection
<1>9. ASSUME NEW t \in Tasks, ConnectFails(t) PROVE TypeOK'
  BY <1>9 DEF ConnectFails, Inv, TypeOK, PCs, Acquiring, Finished, Phases, vars, notifyVars, connVars, Go, At
<1>10. ASSUME NEW t \in Tasks, Release(t) PROVE TypeOK'
  <2>1. [pc EXCEPT ![t] = "failed"] \in [Tasks -> PCs]
    BY DEF Inv, TypeOK, PCs, Acquiring, Finished
  <2>2. total' \in 0..MAX_SIZE /\ pc' \in [Tasks -> PCs] /\ waiters' = <<>> /\ permit' = permit
    BY <1>10, <2>1, ReleaseSlotFacts DEF Release, Inv
  <2> QED
    BY <1>10, <2>2 DEF Release, Inv, TypeOK, PCs, connVars
<1>11. ASSUME NEW t \in Tasks, Register(t) PROVE TypeOK'
  <2>1. Append(waiters, t) \in Seq(Tasks)
    BY AppendFacts DEF Inv, TypeOK
  <2>2. waiters' \in Seq(Tasks) /\ permit' \in BOOLEAN
    BY <1>11, <2>1 DEF Register, Inv, TypeOK, notifyVars
  <2>3. pc' \in [Tasks -> PCs]
    BY <1>11 DEF Register, Inv, TypeOK, Go, PCs, Acquiring, Finished
  <2> QED
    BY <1>11, <2>2, <2>3 DEF Register, Inv, TypeOK, PCs, connVars
<1>12. ASSUME NEW t \in Tasks, TimeOut(t) PROVE TypeOK'
  <2>1. Without(waiters, t) \in Seq(Tasks)
    BY KeepFacts DEF Without, Inv, TypeOK
  <2>2. pc' \in [Tasks -> PCs]
    BY <1>12 DEF TimeOut, Inv, TypeOK, Go, PCs, Acquiring, Finished
  <2> QED
    BY <1>12, <2>1, <2>2 DEF TimeOut, Inv, TypeOK, PCs, connVars
<1>13. ASSUME NEW t \in Tasks, Cancel(t) PROVE TypeOK'
  <2>1. /\ pc' \in [Tasks -> PCs] /\ waiters' \in Seq(Tasks) /\ permit' \in BOOLEAN
    BY <1>13, CancelFacts DEF Inv
  <2>2. leaked' \in Nat
    BY <1>13 DEF Cancel, Inv, TypeOK
  <2>3. phase' \in [Conns -> Phases]
    BY <1>13 DEF Cancel, Inv, TypeOK, Phases
  <2>4. own' \in [Tasks -> Conns \cup {None}]
    BY <1>13 DEF Cancel, Inv, TypeOK
  <2> QED
    BY <1>13, <2>1, <2>2, <2>3, <2>4 DEF Cancel, Inv, TypeOK, PCs, connVars
<1>14. ASSUME NEW t \in Tasks, NEW s \in {"I", "T"}, Use(t, s) PROVE TypeOK'
  BY <1>14 DEF Use, Inv, TypeOK, PCs, Acquiring, Finished, Phases, vars, notifyVars, connVars, Go, At
<1>15. ASSUME NEW t \in Tasks, NEW s \in {"I", "T"}, UseAbandoned(t, s) PROVE TypeOK'
  BY <1>15 DEF UseAbandoned, Inv, TypeOK, PCs, Acquiring, Finished, Phases, vars, notifyVars, connVars, Go, At
<1>16. ASSUME NEW t \in Tasks, UseFails(t) PROVE TypeOK'
  BY <1>16 DEF UseFails, Inv, TypeOK, PCs, Acquiring, Finished, Phases, vars, notifyVars, connVars, Go, At
<1>17. ASSUME NEW t \in Tasks, Return(t) PROVE TypeOK'
  <2>1. leaked' \in Nat /\ phase' \in [Conns -> Phases]
    BY <1>17 DEF Return, DropSession, Inv, TypeOK, Phases
  <2>2. pc' \in [Tasks -> PCs] /\ own' \in [Tasks -> Conns \cup {None}]
    BY <1>17 DEF Return, Go, Inv, TypeOK, PCs, Finished
  <2> QED
    BY <1>17, <2>1, <2>2 DEF Return, Inv, TypeOK, PCs, connVars, notifyVars
<1>18. ASSUME NEW c \in Conns, StatusArrives(c) PROVE TypeOK'
  BY <1>18 DEF StatusArrives, Inv, TypeOK, PCs, Acquiring, Finished, Phases, vars, notifyVars, connVars, Go, At
<1>19. ASSUME NEW c \in Conns, Recycle(c) PROVE TypeOK'
  BY <1>19 DEF Recycle, Inv, TypeOK, PCs, Acquiring, Finished, Phases, vars, notifyVars, connVars, Go, At
<1>20. ASSUME NEW c \in Conns, Rollback(c) PROVE TypeOK'
  BY <1>20, ZenonT(60) DEF Rollback, Inv, TypeOK, PCs, Acquiring, Finished, Phases, vars, notifyVars, connVars, Go, At
<1>21. ASSUME NEW c \in Conns, ReturnIdle(c) PROVE TypeOK'
  <2>1. maint' \in [pc : {"ensure", "connect", "returning", "sleep", "stopped"},
                      conn : Conns \cup {None}]
    BY <1>21, MaintAfterTyped DEF ReturnIdle, Inv
  <2>2. pc \in [Tasks -> PCs]
    BY DEF Inv, TypeOK, PCs
  <2>3. CASE closed
    <3>1. total' \in 0..MAX_SIZE /\ pc' \in [Tasks -> PCs] /\ waiters' = <<>> /\ permit' = permit
      BY <1>21, <2>2, <2>3, ReleaseSlotFacts DEF ReturnIdle, Inv
    <3>2. phase' \in [Conns -> Phases]
      BY <1>21, <2>3 DEF ReturnIdle, DropSession, Inv, TypeOK, Phases
    <3>3. UNCHANGED <<pool, closed, closer, idle, own, tx, known, broken, leaked>>
      BY <1>21, <2>3 DEF ReturnIdle, connVars
    <3> QED
      BY <2>1, <3>1, <3>2, <3>3 DEF Inv, TypeOK, PCs
  <2>4. CASE ~closed
    <3>1. /\ pc' \in [Tasks -> PCs] /\ waiters' \in Seq(Tasks) /\ permit' \in BOOLEAN
      <4>1. NotifyOne(pc, waiters)
        BY <1>21, <2>4 DEF ReturnIdle
      <4> QED
        BY <2>2, <4>1, NotifyOneFacts DEF Inv, TypeOK, Queued
    <3>2. idle' \in Seq(Conns)
      <4>1. idle' = Append(idle, c) /\ idle \in Seq(Conns)
        BY <1>21, <2>4 DEF ReturnIdle, Inv, TypeOK
      <4> QED
        BY <4>1, AppendFacts
    <3> QED
      BY <1>21, <2>1, <2>4, <3>1, <3>2 DEF ReturnIdle, Inv, TypeOK, PCs, Phases, connVars
  <2> QED
    BY <2>3, <2>4
<1>22. ASSUME NEW c \in Conns, ReturnExpired(c) PROVE TypeOK'
  BY <1>22 DEF ReturnExpired, Inv, TypeOK, PCs, Acquiring, Finished, Phases, vars, notifyVars, connVars, Go, At
<1>23. ASSUME NEW c \in Conns, Discard(c) PROVE TypeOK'
  <2>1. maint' \in [pc : {"ensure", "connect", "returning", "sleep", "stopped"},
                      conn : Conns \cup {None}]
    BY <1>23, MaintAfterTyped DEF Discard, Inv
  <2>2. pc \in [Tasks -> PCs]
    BY DEF Inv, TypeOK, PCs
  <2>3. total' \in 0..MAX_SIZE /\ pc' \in [Tasks -> PCs] /\ waiters' = <<>> /\ permit' = permit
    BY <1>23, <2>2, ReleaseSlotFacts DEF Discard, Inv
  <2> QED
    BY <1>23, <2>1, <2>3 DEF Discard, DropSession, Inv, TypeOK, PCs, Phases, connVars
<1>24. ASSUME NEW c \in Conns, Ends(c) PROVE TypeOK'
  BY <1>24 DEF Ends, Inv, TypeOK, PCs, Acquiring, Finished, Phases, vars, notifyVars, connVars, Go, At
<1>25. ASSUME Tick PROVE TypeOK'
  <2>1. PICK gone \in SUBSET (IF Expiry THEN IdleConns ELSE {}) :
            /\ idle' = Keep(idle, gone)
            /\ total' = Less(total, Cardinality(gone))
            /\ phase' = [c \in Conns |-> IF c \in gone THEN "ending" ELSE phase[c]]
    BY <1>25 DEF Tick
  <2>2. idle' \in Seq(Conns)
    BY <2>1, KeepFacts DEF Inv, TypeOK
  <2>3. total' \in 0..MAX_SIZE
    <3>1. gone \subseteq Conns
      BY <2>1 DEF IdleConns, Inv, TypeOK
    <3>2. Cardinality(gone) \in Nat
      BY <3>1, RemoveSome, ConnsAssumption
    <3> QED
      BY <2>1, <3>2, SizeAssumption DEF Less, Inv, TypeOK
  <2>4. phase' \in [Conns -> Phases]
    BY <2>1 DEF Inv, TypeOK, Phases
  <2> QED
    BY <1>25, <2>2, <2>3, <2>4 DEF Tick, Inv, TypeOK, connVars, notifyVars
<1>26. ASSUME Stop PROVE TypeOK'
  BY <1>26 DEF Stop, Inv, TypeOK, PCs, Acquiring, Finished, Phases, vars, notifyVars, connVars, Go, At
<1>27. ASSUME Ensure PROVE TypeOK'
  <2>1. total' \in 0..MAX_SIZE
    BY <1>27, SizeAssumption DEF Ensure, Inv, TypeOK
  <2>2. /\ maint' \in [pc : {"ensure", "connect", "returning", "sleep", "stopped"},
                        conn : Conns \cup {None}]
        /\ pool' \in {"starting", "up", "gone"}
    BY <1>27 DEF Ensure, Inv, TypeOK
  <2> QED
    BY <1>27, <2>1, <2>2 DEF Ensure, Inv, TypeOK, connVars, notifyVars
<1>28. ASSUME EnsureConnects PROVE TypeOK'
  <2>1. PICK c \in Conns : /\ NewConnection(c, "return")
                            /\ maint' = [pc |-> "returning", conn |-> c]
    BY <1>28 DEF EnsureConnects
  <2> QED
    BY <1>28, <2>1 DEF EnsureConnects, NewConnection, Inv, TypeOK, Phases, notifyVars
<1>29. ASSUME EnsureFails PROVE TypeOK'
  <2>1. pc \in [Tasks -> PCs]
    BY DEF Inv, TypeOK, PCs
  <2>2. total' \in 0..MAX_SIZE /\ pc' \in [Tasks -> PCs] /\ waiters' = <<>> /\ permit' = permit
    BY <1>29, <2>1, ReleaseSlotFacts DEF EnsureFails, Inv
  <2>3. /\ maint' \in [pc : {"ensure", "connect", "returning", "sleep", "stopped"},
                        conn : Conns \cup {None}]
        /\ pool' \in {"starting", "up", "gone"} /\ idle' \in Seq(Conns)
    <3>1. CASE pool = "starting"
      BY <1>29, <3>1 DEF EnsureFails, Inv, TypeOK
    <3>2. CASE pool # "starting"
      BY <1>29, <3>2 DEF EnsureFails, Inv, TypeOK
    <3> QED
      BY <3>1, <3>2
  <2>4. phase' \in [Conns -> Phases]
    BY <1>29 DEF EnsureFails, Inv, TypeOK, Phases
  <2> QED
    BY <1>29, <2>2, <2>3, <2>4 DEF EnsureFails, Inv, TypeOK, PCs, connVars
<1>30. ASSUME Close PROVE TypeOK'
  <2>1. pc \in [Tasks -> PCs]
    BY DEF Inv, TypeOK, PCs
  <2>2. pc' \in [Tasks -> PCs] /\ waiters' = <<>> /\ permit' = permit
    BY <1>30, <2>1, NotifyWaitersFacts DEF Close
  <2> QED
    BY <1>30, <2>2 DEF Close, Inv, TypeOK, PCs, connVars
<1>31. ASSUME CloseDrains PROVE TypeOK'
  <2>1. total' \in 0..MAX_SIZE
    <3>1. Len(idle) \in Nat
      BY DEF Inv, TypeOK
    <3> QED
      BY <1>31, <3>1, SizeAssumption DEF CloseDrains, Less, Inv, TypeOK
  <2>2. phase' \in [Conns -> Phases]
    BY <1>31 DEF CloseDrains, Inv, TypeOK, Phases
  <2> QED
    BY <1>31, <2>1, <2>2 DEF CloseDrains, Inv, TypeOK, notifyVars, connVars
<1>32. ASSUME DropPool PROVE TypeOK'
  BY <1>32 DEF DropPool, Inv, TypeOK, PCs, Acquiring, Finished, Phases, vars, notifyVars, connVars, Go, At
<1>33. ASSUME Quiescent PROVE TypeOK'
  BY <1>33 DEF Quiescent, Inv, TypeOK, PCs, Acquiring, Finished, Phases, vars, notifyVars, connVars, Go, At
<1>34. ASSUME UNCHANGED vars PROVE TypeOK'
  BY <1>34 DEF vars, Inv, TypeOK, PCs, Acquiring, Finished, Phases, vars, notifyVars, connVars, Go, At
<1> QED
  BY <1>1, <1>2, <1>3, <1>4, <1>5, <1>6, <1>7, <1>8, <1>9, <1>10, <1>11, <1>12, <1>13,
     <1>14, <1>15, <1>16, <1>17, <1>18, <1>19, <1>20, <1>21, <1>22, <1>23, <1>24, <1>25,
     <1>26, <1>27, <1>28, <1>29, <1>30, <1>31, <1>32, <1>33, <1>34
     DEF Next, AcquireStep, ConnStep, MaintStep

(* Every step keeps the queue of Notify in order.                           *)
LEMMA QueuedKept == ASSUME Inv, [Next]_vars PROVE Queued'
<1>1. ASSUME NEW t \in Tasks, Start(t) PROVE Queued'
  BY <1>1, WaitersAreTasks DEF Start, Inv, TypeOK, Queued, PCs, Acquiring, Finished, Phases, vars, notifyVars, connVars, Go, At, DropSession
<1>2. ASSUME NEW t \in Tasks, Check(t) PROVE Queued'
  BY <1>2, WaitersAreTasks DEF Check, Inv, TypeOK, Queued, PCs, Acquiring, Finished, Phases, vars, notifyVars, connVars, Go, At, DropSession
<1>3. ASSUME NEW t \in Tasks, TakeIdle(t) PROVE Queued'
  BY <1>3, WaitersAreTasks DEF TakeIdle, Inv, TypeOK, Queued, PCs, Acquiring, Finished, Phases, vars, notifyVars, connVars, Go, At, DropSession
<1>4. ASSUME NEW t \in Tasks, TakeNothing(t) PROVE Queued'
  BY <1>4, WaitersAreTasks DEF TakeNothing, Inv, TypeOK, Queued, PCs, Acquiring, Finished, Phases, vars, notifyVars, connVars, Go, At, DropSession
<1>5. ASSUME NEW t \in Tasks, CheckHealth(t) PROVE Queued'
  BY <1>5, WaitersAreTasks DEF CheckHealth, Inv, TypeOK, Queued, PCs, Acquiring, Finished, Phases, vars, notifyVars, connVars, Go, At, DropSession
<1>6. ASSUME NEW t \in Tasks, DiscardTaken(t) PROVE Queued'
  <2>1. waiters' = <<>>
    BY <1>6 DEF DiscardTaken, ReleaseSlot, NotifyWaiters
  <2> QED
    BY <2>1, EmptySeqFacts DEF Queued
<1>7. ASSUME NEW t \in Tasks, Reserve(t) PROVE Queued'
  BY <1>7, WaitersAreTasks DEF Reserve, Inv, TypeOK, Queued, PCs, Acquiring, Finished, Phases, vars, notifyVars, connVars, Go, At, DropSession
<1>8. ASSUME NEW t \in Tasks, Connect(t) PROVE Queued'
  BY <1>8, WaitersAreTasks DEF Connect, Inv, TypeOK, Queued, PCs, Acquiring, Finished, Phases, vars, notifyVars, connVars, Go, At, DropSession
<1>9. ASSUME NEW t \in Tasks, ConnectFails(t) PROVE Queued'
  BY <1>9, WaitersAreTasks DEF ConnectFails, Inv, TypeOK, Queued, PCs, Acquiring, Finished, Phases, vars, notifyVars, connVars, Go, At, DropSession
<1>10. ASSUME NEW t \in Tasks, Release(t) PROVE Queued'
  <2>1. waiters' = <<>>
    BY <1>10 DEF Release, ReleaseSlot, NotifyWaiters
  <2> QED
    BY <2>1, EmptySeqFacts DEF Queued
<1>11. ASSUME NEW t \in Tasks, Register(t) PROVE Queued'
  <2>1. CASE waiters' = Append(waiters, t) /\ Go(t, "waiting")
    <3>1. t \notin Members(waiters)
      BY <1>11 DEF Register, At, Inv, Queued
    <3>2. Members(waiters') = Members(waiters) \cup {t} /\ Distinct(waiters')
      BY <2>1, <3>1, AppendFacts DEF Inv, TypeOK, Queued
    <3>3. \A u \in Members(waiters) : pc'[u] = "waiting"
      BY <2>1, WaitersAreTasks DEF Go, Inv, TypeOK, Queued
    <3> QED
      BY <2>1, <3>2, <3>3 DEF Go, Inv, TypeOK, Queued
  <2>2. CASE waiters' = waiters /\ pc' \in {[pc EXCEPT ![t] = "timedOut"], [pc EXCEPT ![t] = "check"]}
    <3>1. t \notin Members(waiters)
      BY <1>11 DEF Register, At, Inv, Queued
    <3> QED
      BY <2>2, <3>1, WaitersAreTasks DEF Inv, TypeOK, Queued
  <2> QED
    BY <1>11, <2>1, <2>2 DEF Register, Go, notifyVars
<1>12. ASSUME NEW t \in Tasks, TimeOut(t) PROVE Queued'
  <2>1. Members(waiters') = Members(waiters) \ {t} /\ Distinct(waiters')
    BY <1>12, KeepFacts DEF TimeOut, Without, Inv, TypeOK, Queued
  <2> QED
    BY <1>12, <2>1, WaitersAreTasks DEF TimeOut, Go, Inv, TypeOK, Queued
<1>13. ASSUME NEW t \in Tasks, Cancel(t) PROVE Queued'
  BY <1>13, CancelFacts DEF Queued
<1>14. ASSUME NEW t \in Tasks, NEW s \in {"I", "T"}, Use(t, s) PROVE Queued'
  BY <1>14, WaitersAreTasks DEF Use, Inv, TypeOK, Queued, PCs, Acquiring, Finished, Phases, vars, notifyVars, connVars, Go, At, DropSession
<1>15. ASSUME NEW t \in Tasks, NEW s \in {"I", "T"}, UseAbandoned(t, s) PROVE Queued'
  BY <1>15, WaitersAreTasks DEF UseAbandoned, Inv, TypeOK, Queued, PCs, Acquiring, Finished, Phases, vars, notifyVars, connVars, Go, At, DropSession
<1>16. ASSUME NEW t \in Tasks, UseFails(t) PROVE Queued'
  BY <1>16, WaitersAreTasks DEF UseFails, Inv, TypeOK, Queued, PCs, Acquiring, Finished, Phases, vars, notifyVars, connVars, Go, At, DropSession
<1>17. ASSUME NEW t \in Tasks, Return(t) PROVE Queued'
  BY <1>17, WaitersAreTasks DEF Return, Inv, TypeOK, Queued, PCs, Acquiring, Finished, Phases, vars, notifyVars, connVars, Go, At, DropSession
<1>18. ASSUME NEW c \in Conns, StatusArrives(c) PROVE Queued'
  BY <1>18, WaitersAreTasks DEF StatusArrives, Inv, TypeOK, Queued, PCs, Acquiring, Finished, Phases, vars, notifyVars, connVars, Go, At, DropSession
<1>19. ASSUME NEW c \in Conns, Recycle(c) PROVE Queued'
  BY <1>19, WaitersAreTasks DEF Recycle, Inv, TypeOK, Queued, PCs, Acquiring, Finished, Phases, vars, notifyVars, connVars, Go, At, DropSession
<1>20. ASSUME NEW c \in Conns, Rollback(c) PROVE Queued'
  BY <1>20, WaitersAreTasks DEF Rollback, Inv, TypeOK, Queued, PCs, Acquiring, Finished, Phases, vars, notifyVars, connVars, Go, At, DropSession
<1>21. ASSUME NEW c \in Conns, ReturnIdle(c) PROVE Queued'
  BY <1>21, ReturnIdleFacts
<1>22. ASSUME NEW c \in Conns, ReturnExpired(c) PROVE Queued'
  BY <1>22, WaitersAreTasks DEF ReturnExpired, Inv, TypeOK, Queued, PCs, Acquiring, Finished, Phases, vars, notifyVars, connVars, Go, At, DropSession
<1>23. ASSUME NEW c \in Conns, Discard(c) PROVE Queued'
  <2>1. waiters' = <<>>
    BY <1>23 DEF Discard, ReleaseSlot, NotifyWaiters
  <2> QED
    BY <2>1, EmptySeqFacts DEF Queued
<1>24. ASSUME NEW c \in Conns, Ends(c) PROVE Queued'
  BY <1>24, WaitersAreTasks DEF Ends, Inv, TypeOK, Queued, PCs, Acquiring, Finished, Phases, vars, notifyVars, connVars, Go, At, DropSession
<1>25. ASSUME Tick PROVE Queued'
  BY <1>25, WaitersAreTasks DEF Tick, Inv, TypeOK, Queued, PCs, Acquiring, Finished, Phases, vars, notifyVars, connVars, Go, At, DropSession
<1>26. ASSUME Stop PROVE Queued'
  BY <1>26, WaitersAreTasks DEF Stop, Inv, TypeOK, Queued, PCs, Acquiring, Finished, Phases, vars, notifyVars, connVars, Go, At, DropSession
<1>27. ASSUME Ensure PROVE Queued'
  BY <1>27, WaitersAreTasks DEF Ensure, Inv, TypeOK, Queued, PCs, Acquiring, Finished, Phases, vars, notifyVars, connVars, Go, At, DropSession
<1>28. ASSUME EnsureConnects PROVE Queued'
  BY <1>28, WaitersAreTasks DEF EnsureConnects, Inv, TypeOK, Queued, PCs, Acquiring, Finished, Phases, vars, notifyVars, connVars, Go, At, DropSession
<1>29. ASSUME EnsureFails PROVE Queued'
  <2>1. waiters' = <<>>
    BY <1>29 DEF EnsureFails, ReleaseSlot, NotifyWaiters
  <2> QED
    BY <2>1, EmptySeqFacts DEF Queued
<1>30. ASSUME Close PROVE Queued'
  <2>1. waiters' = <<>>
    BY <1>30 DEF Close, ReleaseSlot, NotifyWaiters
  <2> QED
    BY <2>1, EmptySeqFacts DEF Queued
<1>31. ASSUME CloseDrains PROVE Queued'
  BY <1>31, WaitersAreTasks DEF CloseDrains, Inv, TypeOK, Queued, PCs, Acquiring, Finished, Phases, vars, notifyVars, connVars, Go, At, DropSession
<1>32. ASSUME DropPool PROVE Queued'
  BY <1>32, WaitersAreTasks DEF DropPool, Inv, TypeOK, Queued, PCs, Acquiring, Finished, Phases, vars, notifyVars, connVars, Go, At, DropSession
<1>33. ASSUME Quiescent PROVE Queued'
  BY <1>33, WaitersAreTasks DEF Quiescent, Inv, TypeOK, Queued, PCs, Acquiring, Finished, Phases, vars, notifyVars, connVars, Go, At, DropSession
<1>34. ASSUME UNCHANGED vars PROVE Queued'
  BY <1>34, WaitersAreTasks DEF vars, Inv, TypeOK, Queued, PCs, Acquiring, Finished, Phases, vars, notifyVars, connVars, Go, At, DropSession
<1> QED
  BY <1>1, <1>2, <1>3, <1>4, <1>5, <1>6, <1>7, <1>8, <1>9, <1>10, <1>11, <1>12, <1>13,
     <1>14, <1>15, <1>16, <1>17, <1>18, <1>19, <1>20, <1>21, <1>22, <1>23, <1>24, <1>25,
     <1>26, <1>27, <1>28, <1>29, <1>30, <1>31, <1>32, <1>33, <1>34
     DEF Next, AcquireStep, ConnStep, MaintStep

(* Every step keeps the idle queue in order.                                *)
LEMMA ShelvedKept == ASSUME Inv, [Next]_vars PROVE Shelved'
<1>1. ASSUME NEW t \in Tasks, Start(t) PROVE Shelved'
  BY <1>1, IdleAreConns DEF Start, Inv, TypeOK, Shelved, Hands, Holding, PCs, Acquiring, Finished, Phases, vars, notifyVars, connVars, Go, At, DropSession
<1>2. ASSUME NEW t \in Tasks, Check(t) PROVE Shelved'
  BY <1>2, IdleAreConns DEF Check, Inv, TypeOK, Shelved, Hands, Holding, PCs, Acquiring, Finished, Phases, vars, notifyVars, connVars, Go, At, DropSession
<1>3. ASSUME NEW t \in Tasks, TakeIdle(t) PROVE Shelved'
  <2>1. /\ idle # <<>> /\ idle' = Tail(idle) /\ phase' = [phase EXCEPT ![Head(idle)] = "inHand"]
    BY <1>3 DEF TakeIdle
  <2>2. /\ Head(idle) \in Conns /\ Members(idle) = Members(Tail(idle)) \cup {Head(idle)}
        /\ Distinct(Tail(idle)) /\ Head(idle) \notin Members(Tail(idle))
    BY <2>1, TailFacts DEF Inv, TypeOK, Shelved
  <2> QED
    BY <2>1, <2>2 DEF Inv, TypeOK, Shelved
<1>4. ASSUME NEW t \in Tasks, TakeNothing(t) PROVE Shelved'
  BY <1>4, IdleAreConns DEF TakeNothing, Inv, TypeOK, Shelved, Hands, Holding, PCs, Acquiring, Finished, Phases, vars, notifyVars, connVars, Go, At, DropSession
<1>5. ASSUME NEW t \in Tasks, CheckHealth(t) PROVE Shelved'
  BY <1>5, IdleAreConns DEF CheckHealth, Inv, TypeOK, Shelved, Hands, Holding, PCs, Acquiring, Finished, Phases, vars, notifyVars, connVars, Go, At, DropSession
<1>6. ASSUME NEW t \in Tasks, DiscardTaken(t) PROVE Shelved'
  BY <1>6, IdleAreConns DEF DiscardTaken, Inv, TypeOK, Shelved, Hands, Holding, PCs, Acquiring, Finished, Phases, vars, notifyVars, connVars, Go, At, DropSession
<1>7. ASSUME NEW t \in Tasks, Reserve(t) PROVE Shelved'
  BY <1>7, IdleAreConns DEF Reserve, Inv, TypeOK, Shelved, Hands, Holding, PCs, Acquiring, Finished, Phases, vars, notifyVars, connVars, Go, At, DropSession
<1>8. ASSUME NEW t \in Tasks, Connect(t) PROVE Shelved'
  <2>1. PICK c \in Conns : NewConnection(c, "inHand")
    BY <1>8 DEF Connect
  <2> QED
    BY <1>8, <2>1 DEF Connect, NewConnection, Inv, TypeOK, Shelved
<1>9. ASSUME NEW t \in Tasks, ConnectFails(t) PROVE Shelved'
  BY <1>9, IdleAreConns DEF ConnectFails, Inv, TypeOK, Shelved, Hands, Holding, PCs, Acquiring, Finished, Phases, vars, notifyVars, connVars, Go, At, DropSession
<1>10. ASSUME NEW t \in Tasks, Release(t) PROVE Shelved'
  BY <1>10, IdleAreConns DEF Release, Inv, TypeOK, Shelved, Hands, Holding, PCs, Acquiring, Finished, Phases, vars, notifyVars, connVars, Go, At, DropSession
<1>11. ASSUME NEW t \in Tasks, Register(t) PROVE Shelved'
  BY <1>11, IdleAreConns DEF Register, Inv, TypeOK, Shelved, Hands, Holding, PCs, Acquiring, Finished, Phases, vars, notifyVars, connVars, Go, At, DropSession
<1>12. ASSUME NEW t \in Tasks, TimeOut(t) PROVE Shelved'
  BY <1>12, IdleAreConns DEF TimeOut, Inv, TypeOK, Shelved, Hands, Holding, PCs, Acquiring, Finished, Phases, vars, notifyVars, connVars, Go, At, DropSession
<1>13. ASSUME NEW t \in Tasks, Cancel(t) PROVE Shelved'
  BY <1>13, IdleAreConns DEF Cancel, Inv, TypeOK, Shelved, Hands, Holding, PCs, Acquiring, Finished, Phases, vars, notifyVars, connVars, Go, At, DropSession
<1>14. ASSUME NEW t \in Tasks, NEW s \in {"I", "T"}, Use(t, s) PROVE Shelved'
  BY <1>14, IdleAreConns DEF Use, Inv, TypeOK, Shelved, Hands, Holding, PCs, Acquiring, Finished, Phases, vars, notifyVars, connVars, Go, At, DropSession
<1>15. ASSUME NEW t \in Tasks, NEW s \in {"I", "T"}, UseAbandoned(t, s) PROVE Shelved'
  BY <1>15, IdleAreConns DEF UseAbandoned, Inv, TypeOK, Shelved, Hands, Holding, PCs, Acquiring, Finished, Phases, vars, notifyVars, connVars, Go, At, DropSession
<1>16. ASSUME NEW t \in Tasks, UseFails(t) PROVE Shelved'
  BY <1>16, IdleAreConns DEF UseFails, Inv, TypeOK, Shelved, Hands, Holding, PCs, Acquiring, Finished, Phases, vars, notifyVars, connVars, Go, At, DropSession
<1>17. ASSUME NEW t \in Tasks, Return(t) PROVE Shelved'
  BY <1>17, IdleAreConns DEF Return, Inv, TypeOK, Shelved, Hands, Holding, PCs, Acquiring, Finished, Phases, vars, notifyVars, connVars, Go, At, DropSession
<1>18. ASSUME NEW c \in Conns, StatusArrives(c) PROVE Shelved'
  BY <1>18, IdleAreConns DEF StatusArrives, Inv, TypeOK, Shelved, Hands, Holding, PCs, Acquiring, Finished, Phases, vars, notifyVars, connVars, Go, At, DropSession
<1>19. ASSUME NEW c \in Conns, Recycle(c) PROVE Shelved'
  BY <1>19, IdleAreConns DEF Recycle, Inv, TypeOK, Shelved, Hands, Holding, PCs, Acquiring, Finished, Phases, vars, notifyVars, connVars, Go, At, DropSession
<1>20. ASSUME NEW c \in Conns, Rollback(c) PROVE Shelved'
  BY <1>20, IdleAreConns DEF Rollback, Inv, TypeOK, Shelved, Hands, Holding, PCs, Acquiring, Finished, Phases, vars, notifyVars, connVars, Go, At, DropSession
<1>21. ASSUME NEW c \in Conns, ReturnIdle(c) PROVE Shelved'
  <2>1. phase[c] = "return" /\ c \notin Members(idle)
    BY <1>21 DEF ReturnIdle, Inv, Shelved
  <2>2. CASE phase' = [phase EXCEPT ![c] = "ending"] /\ idle' = idle
    BY <2>1, <2>2 DEF Inv, TypeOK, Shelved
  <2>3. CASE phase' = [phase EXCEPT ![c] = "idle"] /\ idle' = Append(idle, c)
    <3>1. Members(idle') = Members(idle) \cup {c} /\ Distinct(idle')
      BY <2>1, <2>3, AppendFacts DEF Inv, TypeOK, Shelved
    <3> QED
      BY <2>3, <3>1 DEF Inv, TypeOK, Shelved
  <2> QED
    BY <1>21, <2>2, <2>3, ReturnIdleFacts
<1>22. ASSUME NEW c \in Conns, ReturnExpired(c) PROVE Shelved'
  BY <1>22, IdleAreConns DEF ReturnExpired, Inv, TypeOK, Shelved, Hands, Holding, PCs, Acquiring, Finished, Phases, vars, notifyVars, connVars, Go, At, DropSession
<1>23. ASSUME NEW c \in Conns, Discard(c) PROVE Shelved'
  BY <1>23, IdleAreConns DEF Discard, Inv, TypeOK, Shelved, Hands, Holding, PCs, Acquiring, Finished, Phases, vars, notifyVars, connVars, Go, At, DropSession
<1>24. ASSUME NEW c \in Conns, Ends(c) PROVE Shelved'
  BY <1>24, IdleAreConns DEF Ends, Inv, TypeOK, Shelved, Hands, Holding, PCs, Acquiring, Finished, Phases, vars, notifyVars, connVars, Go, At, DropSession
<1>25. ASSUME Tick PROVE Shelved'
  <2>1. PICK gone \in SUBSET (IF Expiry THEN IdleConns ELSE {}) :
            /\ idle' = Keep(idle, gone)
            /\ phase' = [c \in Conns |-> IF c \in gone THEN "ending" ELSE phase[c]]
    BY <1>25 DEF Tick
  <2>2. Members(idle') = Members(idle) \ gone /\ Distinct(idle')
    BY <2>1, KeepFacts DEF Inv, TypeOK, Shelved
  <2> QED
    BY <2>1, <2>2 DEF Inv, TypeOK, Shelved
<1>26. ASSUME Stop PROVE Shelved'
  BY <1>26, IdleAreConns DEF Stop, Inv, TypeOK, Shelved, Hands, Holding, PCs, Acquiring, Finished, Phases, vars, notifyVars, connVars, Go, At, DropSession
<1>27. ASSUME Ensure PROVE Shelved'
  BY <1>27, IdleAreConns DEF Ensure, Inv, TypeOK, Shelved, Hands, Holding, PCs, Acquiring, Finished, Phases, vars, notifyVars, connVars, Go, At, DropSession
<1>28. ASSUME EnsureConnects PROVE Shelved'
  <2>1. PICK c \in Conns : NewConnection(c, "return")
    BY <1>28 DEF EnsureConnects
  <2> QED
    BY <1>28, <2>1 DEF EnsureConnects, NewConnection, Inv, TypeOK, Shelved
<1>29. ASSUME EnsureFails PROVE Shelved'
  <2>1. CASE pool = "starting"
    <3>1. Members(idle') = {} /\ Distinct(idle')
      BY <1>29, <2>1, EmptySeqFacts DEF EnsureFails
    <3> QED
      BY <1>29, <2>1, <3>1 DEF EnsureFails, Inv, TypeOK, Shelved
  <2>2. CASE pool # "starting"
    BY <1>29, <2>2 DEF EnsureFails, Inv, Shelved
  <2> QED
    BY <2>1, <2>2
<1>30. ASSUME Close PROVE Shelved'
  BY <1>30, IdleAreConns DEF Close, Inv, TypeOK, Shelved, Hands, Holding, PCs, Acquiring, Finished, Phases, vars, notifyVars, connVars, Go, At, DropSession
<1>31. ASSUME CloseDrains PROVE Shelved'
  <2>1. Members(idle') = {} /\ Distinct(idle')
    BY <1>31, EmptySeqFacts DEF CloseDrains
  <2>2. IdleConns = Members(idle)
    BY DEF IdleConns, Members
  <2> QED
    BY <1>31, <2>1, <2>2 DEF CloseDrains, Inv, TypeOK, Shelved
<1>32. ASSUME DropPool PROVE Shelved'
  <2>1. Members(idle') = {} /\ Distinct(idle')
    BY <1>32, EmptySeqFacts DEF DropPool
  <2> QED
    BY <1>32, <2>1 DEF DropPool, Inv, TypeOK, Shelved
<1>33. ASSUME Quiescent PROVE Shelved'
  BY <1>33, IdleAreConns DEF Quiescent, Inv, TypeOK, Shelved, Hands, Holding, PCs, Acquiring, Finished, Phases, vars, notifyVars, connVars, Go, At, DropSession
<1>34. ASSUME UNCHANGED vars PROVE Shelved'
  BY <1>34, IdleAreConns DEF vars, Inv, TypeOK, Shelved, Hands, Holding, PCs, Acquiring, Finished, Phases, vars, notifyVars, connVars, Go, At, DropSession
<1> QED
  BY <1>1, <1>2, <1>3, <1>4, <1>5, <1>6, <1>7, <1>8, <1>9, <1>10, <1>11, <1>12, <1>13,
     <1>14, <1>15, <1>16, <1>17, <1>18, <1>19, <1>20, <1>21, <1>22, <1>23, <1>24, <1>25,
     <1>26, <1>27, <1>28, <1>29, <1>30, <1>31, <1>32, <1>33, <1>34
     DEF Next, AcquireStep, ConnStep, MaintStep

(* A step that gives or takes nobody a connection keeps Hands.              *)
LEMMA HandsFrame ==
    ASSUME Inv, own' = own,
           \A u \in Tasks : pc'[u] \in Holding <=> pc[u] \in Holding,
           \A d \in Conns : phase'[d] = "inHand" <=> phase[d] = "inHand"
    PROVE  Hands'
  BY DEF Inv, TypeOK, Hands

(* A task that puts its connection down.                                    *)
LEMMA HandsPutDown ==
    ASSUME Inv, NEW t \in Tasks, own[t] # None, own' = [own EXCEPT ![t] = None],
           pc'[t] \notin Holding,
           \A u \in Tasks \ {t} : pc'[u] \in Holding <=> pc[u] \in Holding,
           NEW p \in Phases \ {"inHand"}, phase' = [phase EXCEPT ![own[t]] = p]
    PROVE  Hands'
  BY ConnsAssumption DEF Inv, TypeOK, Hands

(* A task that takes a connection that nobody has.                          *)
LEMMA HandsPickUp ==
    ASSUME Inv, NEW t \in Tasks, own[t] = None, NEW c \in Conns, phase[c] # "inHand",
           own' = [own EXCEPT ![t] = c], phase' = [phase EXCEPT ![c] = "inHand"],
           pc'[t] \in Holding,
           \A u \in Tasks \ {t} : pc'[u] \in Holding <=> pc[u] \in Holding
    PROVE  Hands'
<1>1. c # None /\ own \in [Tasks -> Conns \cup {None}] /\ phase \in [Conns -> Phases]
  BY ConnsAssumption DEF Inv, TypeOK
<1>2. \A u \in Tasks : own[u] # c
  BY <1>1 DEF Inv, Hands
<1>3. \A u \in Tasks : own'[u] = IF u = t THEN c ELSE own[u]
  BY <1>1
<1>4. \A d \in Conns : phase'[d] = IF d = c THEN "inHand" ELSE phase[d]
  BY <1>1
<1>5. \A u \in Tasks : own'[u] # None <=> pc'[u] \in Holding
  BY <1>1, <1>3 DEF Inv, Hands
<1>6. \A u \in Tasks : own'[u] # None => phase'[own'[u]] = "inHand"
  BY <1>1, <1>3, <1>4 DEF Inv, Hands
<1>7. \A d \in Conns : phase'[d] = "inHand" => \E u \in Tasks : own'[u] = d
  <2> TAKE d \in Conns
  <2> HAVE phase'[d] = "inHand"
  <2>1. CASE d = c
    BY <2>1, <1>3
  <2>2. CASE d # c
    <3>1. PICK u \in Tasks : own[u] = d
      BY <2>2, <1>4 DEF Inv, Hands
    <3>2. u # t
      BY <3>1, ConnsAssumption
    <3> QED
      BY <3>1, <3>2, <1>3
  <2> QED
    BY <2>1, <2>2
<1>8. \A u, v \in Tasks : own'[u] = own'[v] /\ own'[u] # None => u = v
  BY <1>2, <1>3 DEF Inv, Hands
<1> QED
  BY <1>5, <1>6, <1>7, <1>8 DEF Hands

(* Every step keeps track of who has which connection.                      *)
LEMMA HandsKept == ASSUME Inv, [Next]_vars PROVE Hands'
<1>1. ASSUME NEW t \in Tasks, Start(t) PROVE Hands'
  BY <1>1, ConnsAssumption DEF Start, Inv, TypeOK, Shelved, Hands, Holding, PCs, Acquiring, Finished, Phases, vars, notifyVars, connVars, Go, At, DropSession
<1>2. ASSUME NEW t \in Tasks, Check(t) PROVE Hands'
  BY <1>2, ConnsAssumption DEF Check, Inv, TypeOK, Shelved, Hands, Holding, PCs, Acquiring, Finished, Phases, vars, notifyVars, connVars, Go, At, DropSession
<1>3. ASSUME NEW t \in Tasks, TakeIdle(t) PROVE Hands'
  <2>1. /\ idle # <<>> /\ phase' = [phase EXCEPT ![Head(idle)] = "inHand"]
        /\ own' = [own EXCEPT ![t] = Head(idle)] /\ At(t, "take")
    BY <1>3 DEF TakeIdle
  <2>2. Head(idle) \in Conns /\ phase[Head(idle)] = "idle"
    BY <2>1, TailFacts DEF Inv, TypeOK, Shelved
  <2>3. own[t] = None
    BY <2>1 DEF At, Inv, Hands, Holding
  <2>4. pc'[t] \in Holding /\ \A u \in Tasks \ {t} : pc'[u] = pc[u]
    BY <1>3 DEF TakeIdle, Go, Inv, TypeOK, Holding
  <2> QED
    BY <2>1, <2>2, <2>3, <2>4, HandsPickUp
<1>4. ASSUME NEW t \in Tasks, TakeNothing(t) PROVE Hands'
  BY <1>4, ConnsAssumption DEF TakeNothing, Inv, TypeOK, Shelved, Hands, Holding, PCs, Acquiring, Finished, Phases, vars, notifyVars, connVars, Go, At, DropSession
<1>5. ASSUME NEW t \in Tasks, CheckHealth(t) PROVE Hands'
  BY <1>5, ConnsAssumption DEF CheckHealth, Inv, TypeOK, Shelved, Hands, Holding, PCs, Acquiring, Finished, Phases, vars, notifyVars, connVars, Go, At, DropSession
<1>6. ASSUME NEW t \in Tasks, DiscardTaken(t) PROVE Hands'
  <2>1. own[t] # None /\ own' = [own EXCEPT ![t] = None] /\ phase' = [phase EXCEPT ![own[t]] = "ending"]
    BY <1>6 DEF DiscardTaken, DropSession, Inv, Hands, Holding
  <2>2. PICK next \in {"check", "failed"} : ReleaseSlot([pc EXCEPT ![t] = next])
    BY <1>6 DEF DiscardTaken
  <2>3. [pc EXCEPT ![t] = next] \in [Tasks -> PCs]
    BY DEF Inv, TypeOK, PCs, Acquiring, Finished
  <2>4. Wakes([pc EXCEPT ![t] = next])
    BY <2>2, <2>3, ReleaseSlotFacts DEF Wakes, Inv
  <2>5. pc'[t] \notin Holding /\ \A u \in Tasks \ {t} : pc'[u] \in Holding <=> pc[u] \in Holding
    BY <2>4 DEF Wakes, Holding, Inv, TypeOK
  <2> QED
    BY <2>1, <2>5, HandsPutDown DEF Phases
<1>7. ASSUME NEW t \in Tasks, Reserve(t) PROVE Hands'
  BY <1>7, ConnsAssumption DEF Reserve, Inv, TypeOK, Shelved, Hands, Holding, PCs, Acquiring, Finished, Phases, vars, notifyVars, connVars, Go, At, DropSession
<1>8. ASSUME NEW t \in Tasks, Connect(t) PROVE Hands'
  <2>1. PICK c \in Conns : NewConnection(c, "inHand") /\ own' = [own EXCEPT ![t] = c]
    BY <1>8 DEF Connect
  <2>2. phase[c] # "inHand" /\ phase' = [phase EXCEPT ![c] = "inHand"]
    BY <2>1 DEF NewConnection
  <2>3. own[t] = None
    BY <1>8 DEF Connect, At, Inv, Hands, Holding
  <2>4. pc'[t] \in Holding /\ \A u \in Tasks \ {t} : pc'[u] = pc[u]
    BY <1>8 DEF Connect, Go, Inv, TypeOK, Holding
  <2> QED
    BY <2>1, <2>2, <2>3, <2>4, HandsPickUp
<1>9. ASSUME NEW t \in Tasks, ConnectFails(t) PROVE Hands'
  BY <1>9, ConnsAssumption DEF ConnectFails, Inv, TypeOK, Shelved, Hands, Holding, PCs, Acquiring, Finished, Phases, vars, notifyVars, connVars, Go, At, DropSession
<1>10. ASSUME NEW t \in Tasks, Release(t) PROVE Hands'
  <2>1. [pc EXCEPT ![t] = "failed"] \in [Tasks -> PCs]
    BY DEF Inv, TypeOK, PCs, Finished
  <2>2. Wakes([pc EXCEPT ![t] = "failed"])
    BY <1>10, <2>1, ReleaseSlotFacts DEF Release, Wakes, Inv
  <2>3. \A u \in Tasks : pc'[u] \in Holding <=> pc[u] \in Holding
    BY <1>10, <2>2 DEF Release, At, Wakes, Holding, Inv, TypeOK
  <2> QED
    BY <1>10, <2>3, HandsFrame DEF Release
<1>11. ASSUME NEW t \in Tasks, Register(t) PROVE Hands'
  BY <1>11, ConnsAssumption DEF Register, Inv, TypeOK, Shelved, Hands, Holding, PCs, Acquiring, Finished, Phases, vars, notifyVars, connVars, Go, At, DropSession
<1>12. ASSUME NEW t \in Tasks, TimeOut(t) PROVE Hands'
  BY <1>12, ConnsAssumption DEF TimeOut, Inv, TypeOK, Shelved, Hands, Holding, PCs, Acquiring, Finished, Phases, vars, notifyVars, connVars, Go, At, DropSession
<1>13. ASSUME NEW t \in Tasks, Cancel(t) PROVE Hands'
  <2>1. pc'[t] = "cancelled" /\ \A u \in Tasks \ {t} : pc'[u] \in Holding <=> pc[u] \in Holding
    BY <1>13, CancelFacts DEF Holding
  <2>2. CASE own[t] = None
    <3>1. own' = own /\ phase' = phase
      BY <1>13, <2>2 DEF Cancel, Inv, TypeOK
    <3>2. pc[t] \notin Holding
      BY <2>2 DEF Inv, Hands
    <3> QED
      BY <2>1, <3>1, <3>2, HandsFrame DEF Holding
  <2>3. CASE own[t] # None
    BY <1>13, <2>1, <2>3, HandsPutDown DEF Cancel, Phases, Holding
  <2> QED
    BY <2>2, <2>3
<1>14. ASSUME NEW t \in Tasks, NEW s \in {"I", "T"}, Use(t, s) PROVE Hands'
  BY <1>14, ConnsAssumption DEF Use, Inv, TypeOK, Shelved, Hands, Holding, PCs, Acquiring, Finished, Phases, vars, notifyVars, connVars, Go, At, DropSession
<1>15. ASSUME NEW t \in Tasks, NEW s \in {"I", "T"}, UseAbandoned(t, s) PROVE Hands'
  BY <1>15, ConnsAssumption DEF UseAbandoned, Inv, TypeOK, Shelved, Hands, Holding, PCs, Acquiring, Finished, Phases, vars, notifyVars, connVars, Go, At, DropSession
<1>16. ASSUME NEW t \in Tasks, UseFails(t) PROVE Hands'
  BY <1>16, ConnsAssumption DEF UseFails, Inv, TypeOK, Shelved, Hands, Holding, PCs, Acquiring, Finished, Phases, vars, notifyVars, connVars, Go, At, DropSession
<1>17. ASSUME NEW t \in Tasks, Return(t) PROVE Hands'
  BY <1>17, ConnsAssumption, SMTT(20) DEF Return, Inv, TypeOK, Shelved, Hands, Holding, PCs, Acquiring, Finished, Phases, vars, notifyVars, connVars, Go, At, DropSession
<1>18. ASSUME NEW c \in Conns, StatusArrives(c) PROVE Hands'
  BY <1>18, ConnsAssumption DEF StatusArrives, Inv, TypeOK, Shelved, Hands, Holding, PCs, Acquiring, Finished, Phases, vars, notifyVars, connVars, Go, At, DropSession
<1>19. ASSUME NEW c \in Conns, Recycle(c) PROVE Hands'
  BY <1>19, ConnsAssumption DEF Recycle, Inv, TypeOK, Shelved, Hands, Holding, PCs, Acquiring, Finished, Phases, vars, notifyVars, connVars, Go, At, DropSession
<1>20. ASSUME NEW c \in Conns, Rollback(c) PROVE Hands'
  BY <1>20, ConnsAssumption DEF Rollback, Inv, TypeOK, Shelved, Hands, Holding, PCs, Acquiring, Finished, Phases, vars, notifyVars, connVars, Go, At, DropSession
<1>21. ASSUME NEW c \in Conns, ReturnIdle(c) PROVE Hands'
  <2>1. \A u \in Tasks : pc'[u] \in Holding <=> pc[u] \in Holding
    BY <1>21, ReturnIdleFacts DEF Wakes, Holding
  <2>2. \A d \in Conns : phase'[d] = "inHand" <=> phase[d] = "inHand"
    <3>1. phase[c] = "return"
      BY <1>21 DEF ReturnIdle
    <3> QED
      BY <1>21, <3>1, ReturnIdleFacts DEF Inv, TypeOK
  <2> QED
    BY <1>21, <2>1, <2>2, HandsFrame DEF ReturnIdle
<1>22. ASSUME NEW c \in Conns, ReturnExpired(c) PROVE Hands'
  BY <1>22, ConnsAssumption DEF ReturnExpired, Inv, TypeOK, Shelved, Hands, Holding, PCs, Acquiring, Finished, Phases, vars, notifyVars, connVars, Go, At, DropSession
<1>23. ASSUME NEW c \in Conns, Discard(c) PROVE Hands'
  <2>1. pc \in [Tasks -> PCs]
    BY DEF Inv, TypeOK, PCs
  <2>2. \A u \in Tasks : pc'[u] \in Holding <=> pc[u] \in Holding
    BY <1>23, <2>1, ReleaseSlotFacts DEF Discard, Holding, Inv
  <2>3. \A d \in Conns : phase'[d] = "inHand" <=> phase[d] = "inHand"
    BY <1>23 DEF Discard, DropSession, Inv, TypeOK
  <2> QED
    BY <1>23, <2>2, <2>3, HandsFrame DEF Discard
<1>24. ASSUME NEW c \in Conns, Ends(c) PROVE Hands'
  BY <1>24, ConnsAssumption DEF Ends, Inv, TypeOK, Shelved, Hands, Holding, PCs, Acquiring, Finished, Phases, vars, notifyVars, connVars, Go, At, DropSession
<1>25. ASSUME Tick PROVE Hands'
  <2>1. PICK gone \in SUBSET (IF Expiry THEN IdleConns ELSE {}) :
            phase' = [c \in Conns |-> IF c \in gone THEN "ending" ELSE phase[c]]
    BY <1>25 DEF Tick
  <2>2. \A d \in gone : phase[d] # "inHand"
    BY <2>1, IdleAreConns DEF IdleConns, Members, Inv, Shelved
  <2>3. \A d \in Conns : phase'[d] = "inHand" <=> phase[d] = "inHand"
    BY <2>1, <2>2
  <2> QED
    BY <1>25, <2>3, HandsFrame DEF Tick
<1>26. ASSUME Stop PROVE Hands'
  BY <1>26, ConnsAssumption DEF Stop, Inv, TypeOK, Shelved, Hands, Holding, PCs, Acquiring, Finished, Phases, vars, notifyVars, connVars, Go, At, DropSession
<1>27. ASSUME Ensure PROVE Hands'
  BY <1>27, ConnsAssumption DEF Ensure, Inv, TypeOK, Shelved, Hands, Holding, PCs, Acquiring, Finished, Phases, vars, notifyVars, connVars, Go, At, DropSession
<1>28. ASSUME EnsureConnects PROVE Hands'
  <2>1. PICK c \in Conns : NewConnection(c, "return")
    BY <1>28 DEF EnsureConnects
  <2>2. \A d \in Conns : phase'[d] = "inHand" <=> phase[d] = "inHand"
    BY <2>1 DEF NewConnection, Inv, TypeOK
  <2> QED
    BY <1>28, <2>2, HandsFrame DEF EnsureConnects
<1>29. ASSUME EnsureFails PROVE Hands'
  <2>1. pc \in [Tasks -> PCs]
    BY DEF Inv, TypeOK, PCs
  <2>2. \A u \in Tasks : pc'[u] \in Holding <=> pc[u] \in Holding
    BY <1>29, <2>1, ReleaseSlotFacts DEF EnsureFails, Holding, Inv
  <2>3. \A d \in Conns : phase'[d] = "inHand" <=> phase[d] = "inHand"
    BY <1>29 DEF EnsureFails, Inv, TypeOK
  <2> QED
    BY <1>29, <2>2, <2>3, HandsFrame DEF EnsureFails
<1>30. ASSUME Close PROVE Hands'
  <2>1. pc \in [Tasks -> PCs]
    BY DEF Inv, TypeOK, PCs
  <2>2. \A u \in Tasks : pc'[u] \in Holding <=> pc[u] \in Holding
    BY <1>30, <2>1, NotifyWaitersFacts DEF Close, Holding
  <2> QED
    BY <1>30, <2>2, HandsFrame DEF Close
<1>31. ASSUME CloseDrains PROVE Hands'
  <2>1. \A d \in Conns : phase'[d] = "inHand" <=> phase[d] = "inHand"
    BY <1>31 DEF CloseDrains, IdleConns, Members, Inv, TypeOK, Shelved
  <2> QED
    BY <1>31, <2>1, HandsFrame DEF CloseDrains
<1>32. ASSUME DropPool PROVE Hands'
  BY <1>32, ConnsAssumption DEF DropPool, Inv, TypeOK, Shelved, Hands, Holding, PCs, Acquiring, Finished, Phases, vars, notifyVars, connVars, Go, At, DropSession
<1>33. ASSUME Quiescent PROVE Hands'
  BY <1>33, ConnsAssumption DEF Quiescent, Inv, TypeOK, Shelved, Hands, Holding, PCs, Acquiring, Finished, Phases, vars, notifyVars, connVars, Go, At, DropSession
<1>34. ASSUME UNCHANGED vars PROVE Hands'
  BY <1>34, ConnsAssumption DEF vars, Inv, TypeOK, Shelved, Hands, Holding, PCs, Acquiring, Finished, Phases, vars, notifyVars, connVars, Go, At, DropSession
<1> QED
  BY <1>1, <1>2, <1>3, <1>4, <1>5, <1>6, <1>7, <1>8, <1>9, <1>10, <1>11, <1>12, <1>13,
     <1>14, <1>15, <1>16, <1>17, <1>18, <1>19, <1>20, <1>21, <1>22, <1>23, <1>24, <1>25,
     <1>26, <1>27, <1>28, <1>29, <1>30, <1>31, <1>32, <1>33, <1>34
     DEF Next, AcquireStep, ConnStep, MaintStep

(* Nobody works on a pool that is not there.                                *)
LEMMA StagedKept == ASSUME Inv, [Next]_vars PROVE Staged'
<1>1. ASSUME NEW t \in Tasks, Start(t) PROVE Staged'
  BY <1>1 DEF Start, Inv, TypeOK, Shelved, Hands, Staged, Nobody, OnlyEnsure, Holding, PCs, Acquiring, Finished, Phases, vars, notifyVars, connVars, Go, At, DropSession
<1>2. ASSUME NEW t \in Tasks, Check(t) PROVE Staged'
  BY <1>2 DEF Check, Inv, TypeOK, Shelved, Hands, Staged, Nobody, OnlyEnsure, Holding, PCs, Acquiring, Finished, Phases, vars, notifyVars, connVars, Go, At, DropSession
<1>3. ASSUME NEW t \in Tasks, TakeIdle(t) PROVE Staged'
  BY <1>3 DEF TakeIdle, Inv, TypeOK, Shelved, Hands, Staged, Nobody, OnlyEnsure, Holding, PCs, Acquiring, Finished, Phases, vars, notifyVars, connVars, Go, At, DropSession
<1>4. ASSUME NEW t \in Tasks, TakeNothing(t) PROVE Staged'
  BY <1>4 DEF TakeNothing, Inv, TypeOK, Shelved, Hands, Staged, Nobody, OnlyEnsure, Holding, PCs, Acquiring, Finished, Phases, vars, notifyVars, connVars, Go, At, DropSession
<1>5. ASSUME NEW t \in Tasks, CheckHealth(t) PROVE Staged'
  BY <1>5 DEF CheckHealth, Inv, TypeOK, Shelved, Hands, Staged, Nobody, OnlyEnsure, Holding, PCs, Acquiring, Finished, Phases, vars, notifyVars, connVars, Go, At, DropSession
<1>6. ASSUME NEW t \in Tasks, DiscardTaken(t) PROVE Staged'
  BY <1>6 DEF DiscardTaken, Inv, TypeOK, Shelved, Hands, Staged, Nobody, OnlyEnsure, Holding, PCs, Acquiring, Finished, Phases, vars, notifyVars, connVars, Go, At, DropSession
<1>7. ASSUME NEW t \in Tasks, Reserve(t) PROVE Staged'
  BY <1>7 DEF Reserve, Inv, TypeOK, Shelved, Hands, Staged, Nobody, OnlyEnsure, Holding, PCs, Acquiring, Finished, Phases, vars, notifyVars, connVars, Go, At, DropSession
<1>8. ASSUME NEW t \in Tasks, Connect(t) PROVE Staged'
  BY <1>8 DEF Connect, Inv, TypeOK, Shelved, Hands, Staged, Nobody, OnlyEnsure, Holding, PCs, Acquiring, Finished, Phases, vars, notifyVars, connVars, Go, At, DropSession
<1>9. ASSUME NEW t \in Tasks, ConnectFails(t) PROVE Staged'
  BY <1>9 DEF ConnectFails, Inv, TypeOK, Shelved, Hands, Staged, Nobody, OnlyEnsure, Holding, PCs, Acquiring, Finished, Phases, vars, notifyVars, connVars, Go, At, DropSession
<1>10. ASSUME NEW t \in Tasks, Release(t) PROVE Staged'
  BY <1>10 DEF Release, Inv, TypeOK, Shelved, Hands, Staged, Nobody, OnlyEnsure, Holding, PCs, Acquiring, Finished, Phases, vars, notifyVars, connVars, Go, At, DropSession
<1>11. ASSUME NEW t \in Tasks, Register(t) PROVE Staged'
  BY <1>11 DEF Register, Inv, TypeOK, Shelved, Hands, Staged, Nobody, OnlyEnsure, Holding, PCs, Acquiring, Finished, Phases, vars, notifyVars, connVars, Go, At, DropSession
<1>12. ASSUME NEW t \in Tasks, TimeOut(t) PROVE Staged'
  BY <1>12 DEF TimeOut, Inv, TypeOK, Shelved, Hands, Staged, Nobody, OnlyEnsure, Holding, PCs, Acquiring, Finished, Phases, vars, notifyVars, connVars, Go, At, DropSession
<1>13. ASSUME NEW t \in Tasks, Cancel(t) PROVE Staged'
  BY <1>13 DEF Cancel, Inv, TypeOK, Shelved, Hands, Staged, Nobody, OnlyEnsure, Holding, PCs, Acquiring, Finished, Phases, vars, notifyVars, connVars, Go, At, DropSession
<1>14. ASSUME NEW t \in Tasks, NEW s \in {"I", "T"}, Use(t, s) PROVE Staged'
  BY <1>14 DEF Use, Inv, TypeOK, Shelved, Hands, Staged, Nobody, OnlyEnsure, Holding, PCs, Acquiring, Finished, Phases, vars, notifyVars, connVars, Go, At, DropSession
<1>15. ASSUME NEW t \in Tasks, NEW s \in {"I", "T"}, UseAbandoned(t, s) PROVE Staged'
  BY <1>15 DEF UseAbandoned, Inv, TypeOK, Shelved, Hands, Staged, Nobody, OnlyEnsure, Holding, PCs, Acquiring, Finished, Phases, vars, notifyVars, connVars, Go, At, DropSession
<1>16. ASSUME NEW t \in Tasks, UseFails(t) PROVE Staged'
  BY <1>16 DEF UseFails, Inv, TypeOK, Shelved, Hands, Staged, Nobody, OnlyEnsure, Holding, PCs, Acquiring, Finished, Phases, vars, notifyVars, connVars, Go, At, DropSession
<1>17. ASSUME NEW t \in Tasks, Return(t) PROVE Staged'
  BY <1>17 DEF Return, Inv, TypeOK, Shelved, Hands, Staged, Nobody, OnlyEnsure, Holding, PCs, Acquiring, Finished, Phases, vars, notifyVars, connVars, Go, At, DropSession
<1>18. ASSUME NEW c \in Conns, StatusArrives(c) PROVE Staged'
  BY <1>18 DEF StatusArrives, Inv, TypeOK, Shelved, Hands, Staged, Nobody, OnlyEnsure, Holding, PCs, Acquiring, Finished, Phases, vars, notifyVars, connVars, Go, At, DropSession
<1>19. ASSUME NEW c \in Conns, Recycle(c) PROVE Staged'
  BY <1>19 DEF Recycle, Inv, TypeOK, Shelved, Hands, Staged, Nobody, OnlyEnsure, Holding, PCs, Acquiring, Finished, Phases, vars, notifyVars, connVars, Go, At, DropSession
<1>20. ASSUME NEW c \in Conns, Rollback(c) PROVE Staged'
  BY <1>20 DEF Rollback, Inv, TypeOK, Shelved, Hands, Staged, Nobody, OnlyEnsure, Holding, PCs, Acquiring, Finished, Phases, vars, notifyVars, connVars, Go, At, DropSession
<1>21. ASSUME NEW c \in Conns, ReturnIdle(c) PROVE Staged'
  <2>1. phase[c] = "return" /\ MaintAfter(c) /\ pool' = pool
    BY <1>21 DEF ReturnIdle
  <2>2. pool # "gone"
    BY <2>1 DEF Inv, Staged, Nobody
  <2>3. ASSUME pool = "starting" PROVE OnlyEnsure'
    <3>1. \A t \in Tasks : pc'[t] = "new"
      BY <1>21, <2>3, ReturnIdleFacts DEF Wakes, Inv, Staged, OnlyEnsure
    <3>2. \A d \in Conns : phase'[d] \in {"none", "idle", "ending"}
      BY <1>21, <2>1, <2>3, ReturnIdleFacts, SMTT(30) DEF Inv, TypeOK, Staged, OnlyEnsure
    <3> QED
      BY <3>1, <3>2 DEF OnlyEnsure
  <2> QED
    BY <2>1, <2>2, <2>3 DEF Staged
<1>22. ASSUME NEW c \in Conns, ReturnExpired(c) PROVE Staged'
  BY <1>22 DEF ReturnExpired, Inv, TypeOK, Shelved, Hands, Staged, Nobody, OnlyEnsure, Holding, PCs, Acquiring, Finished, Phases, vars, notifyVars, connVars, Go, At, DropSession
<1>23. ASSUME NEW c \in Conns, Discard(c) PROVE Staged'
  <2>1. pc \in [Tasks -> PCs]
    BY DEF Inv, TypeOK, PCs
  <2>2. phase[c] = "discard" /\ MaintAfter(c) /\ pool' = pool /\ phase' = [phase EXCEPT ![c] = "ending"]
    BY <1>23 DEF Discard, DropSession
  <2>3. pool # "gone"
    BY <2>2 DEF Inv, Staged, Nobody
  <2>4. ASSUME pool = "starting" PROVE OnlyEnsure'
    <3>1. \A t \in Tasks : pc'[t] = "new"
      BY <1>23, <2>1, <2>4, ReleaseSlotFacts DEF Discard, Inv, Staged, OnlyEnsure
    <3>2. \A d \in Conns : phase'[d] \in {"none", "idle", "ending"}
      BY <2>2, <2>4 DEF Inv, TypeOK, Staged, OnlyEnsure
    <3> QED
      BY <3>1, <3>2 DEF OnlyEnsure
  <2> QED
    BY <2>2, <2>3, <2>4 DEF Staged
<1>24. ASSUME NEW c \in Conns, Ends(c) PROVE Staged'
  BY <1>24 DEF Ends, Inv, TypeOK, Shelved, Hands, Staged, Nobody, OnlyEnsure, Holding, PCs, Acquiring, Finished, Phases, vars, notifyVars, connVars, Go, At, DropSession
<1>25. ASSUME Tick PROVE Staged'
  BY <1>25 DEF Tick, Inv, TypeOK, Shelved, Hands, Staged, Nobody, OnlyEnsure, Holding, PCs, Acquiring, Finished, Phases, vars, notifyVars, connVars, Go, At, DropSession
<1>26. ASSUME Stop PROVE Staged'
  BY <1>26 DEF Stop, Inv, TypeOK, Shelved, Hands, Staged, Nobody, OnlyEnsure, Holding, PCs, Acquiring, Finished, Phases, vars, notifyVars, connVars, Go, At, DropSession
<1>27. ASSUME Ensure PROVE Staged'
  BY <1>27 DEF Ensure, Inv, TypeOK, Shelved, Hands, Staged, Nobody, OnlyEnsure, Holding, PCs, Acquiring, Finished, Phases, vars, notifyVars, connVars, Go, At, DropSession
<1>28. ASSUME EnsureConnects PROVE Staged'
  <2>1. PICK c \in Conns : /\ NewConnection(c, "return")
                            /\ maint' = [pc |-> "returning", conn |-> c]
    BY <1>28 DEF EnsureConnects
  <2>2. maint.pc = "connect" /\ pool' = pool /\ pc' = pc
    BY <1>28 DEF EnsureConnects
  <2>3. pool # "gone"
    BY <2>2 DEF Inv, Staged, Nobody
  <2>4. ASSUME pool = "starting" PROVE OnlyEnsure'
    BY <2>1, <2>2, <2>4 DEF NewConnection, Inv, TypeOK, Staged, OnlyEnsure
  <2> QED
    BY <2>2, <2>3, <2>4 DEF Staged
<1>29. ASSUME EnsureFails PROVE Staged'
  <2>1. maint.pc = "connect" /\ pool # "gone"
    BY <1>29 DEF EnsureFails, Inv, Staged, Nobody
  <2>2. CASE pool # "starting"
    BY <1>29, <2>1, <2>2 DEF EnsureFails, Staged
  <2>3. CASE pool = "starting"
    <3>1. pc \in [Tasks -> PCs] /\ \A t \in Tasks : pc[t] = "new"
      BY <2>3 DEF Inv, TypeOK, PCs, Staged, OnlyEnsure
    <3>2. \A t \in Tasks : pc'[t] \notin Acquiring \cup {"held"}
      BY <1>29, <3>1, ReleaseSlotFacts DEF EnsureFails, Inv, Acquiring
    <3>3. \A d \in Conns : phase'[d] \in {"none", "ending"}
      BY <1>29, <2>1, <2>3 DEF EnsureFails, Inv, TypeOK, Staged, OnlyEnsure
    <3>4. pool' = "gone" /\ maint'.pc = "stopped"
      BY <1>29, <2>3 DEF EnsureFails
    <3> QED
      BY <3>2, <3>3, <3>4 DEF Staged, Nobody
  <2> QED
    BY <2>2, <2>3
<1>30. ASSUME Close PROVE Staged'
  BY <1>30 DEF Close, Inv, TypeOK, Shelved, Hands, Staged, Nobody, OnlyEnsure, Holding, PCs, Acquiring, Finished, Phases, vars, notifyVars, connVars, Go, At, DropSession
<1>31. ASSUME CloseDrains PROVE Staged'
  BY <1>31 DEF CloseDrains, Inv, TypeOK, Shelved, Hands, Staged, Nobody, OnlyEnsure, Holding, PCs, Acquiring, Finished, Phases, vars, notifyVars, connVars, Go, At, DropSession
<1>32. ASSUME DropPool PROVE Staged'
  BY <1>32 DEF DropPool, Inv, TypeOK, Shelved, Hands, Staged, Nobody, OnlyEnsure, Holding, PCs, Acquiring, Finished, Phases, vars, notifyVars, connVars, Go, At, DropSession
<1>33. ASSUME Quiescent PROVE Staged'
  BY <1>33 DEF Quiescent, Inv, TypeOK, Shelved, Hands, Staged, Nobody, OnlyEnsure, Holding, PCs, Acquiring, Finished, Phases, vars, notifyVars, connVars, Go, At, DropSession
<1>34. ASSUME UNCHANGED vars PROVE Staged'
  BY <1>34 DEF vars, Inv, TypeOK, Shelved, Hands, Staged, Nobody, OnlyEnsure, Holding, PCs, Acquiring, Finished, Phases, vars, notifyVars, connVars, Go, At, DropSession
<1> QED
  BY <1>1, <1>2, <1>3, <1>4, <1>5, <1>6, <1>7, <1>8, <1>9, <1>10, <1>11, <1>12, <1>13,
     <1>14, <1>15, <1>16, <1>17, <1>18, <1>19, <1>20, <1>21, <1>22, <1>23, <1>24, <1>25,
     <1>26, <1>27, <1>28, <1>29, <1>30, <1>31, <1>32, <1>33, <1>34
     DEF Next, AcquireStep, ConnStep, MaintStep

-----------------------------------------------------------------------------
(* Counting slots *)

(* As long as there is a pool, total counts what is in its care, what is    *)
(* being opened, and what was left behind.                                  *)
Slots == pool # "gone" => total = SlotsTaken + leaked

LEMMA SlotsAreFinite ==
    /\ IsFiniteSet(InCare) /\ Cardinality(InCare) \in Nat
    /\ IsFiniteSet(Opening) /\ Cardinality(Opening) \in Nat
    /\ MaintSlots \in {0, 1}
<1>1. InCare \subseteq Conns /\ Opening \subseteq Tasks
  BY DEF InCare, Opening
<1>2. MaintSlots \in {0, 1}
  BY DEF MaintSlots
<1> QED
  BY <1>1, <1>2, RemoveSome, ConnsAssumption

(* A connection leaves the pool's care, or comes into it.                   *)
LEMMA CareLeft ==
    ASSUME TypeOK, NEW c \in Conns, phase[c] \notin {"none", "ending"},
           phase' = [phase EXCEPT ![c] = "ending"]
    PROVE  Cardinality(InCare') = Cardinality(InCare) - 1 /\ Cardinality(InCare) >= 1
<1>1. InCare' = InCare \ {c} /\ c \in InCare
  BY DEF InCare, TypeOK
<1> QED
  BY <1>1, SlotsAreFinite, RemoveOne

LEMMA CareEntered ==
    ASSUME TypeOK, NEW c \in Conns, phase[c] = "none",
           NEW p \in Phases \ {"none", "ending"}, phase' = [phase EXCEPT ![c] = p]
    PROVE  Cardinality(InCare') = Cardinality(InCare) + 1
<1>1. InCare' = InCare \cup {c} /\ c \notin InCare
  BY DEF InCare, TypeOK
<1> QED
  BY <1>1, SlotsAreFinite, AddOne

(* A task starts to open a connection, or has it, or gives up.              *)
OpeningAt == {"connect", "release"}
LEMMA OpeningEntered ==
    ASSUME NEW t \in Tasks, pc[t] \notin OpeningAt, pc'[t] \in OpeningAt,
           \A u \in Tasks \ {t} : pc'[u] \in OpeningAt <=> pc[u] \in OpeningAt
    PROVE  Cardinality(Opening') = Cardinality(Opening) + 1
<1>1. Opening' = Opening \cup {t} /\ t \notin Opening
  BY DEF Opening, OpeningAt
<1> QED
  BY <1>1, SlotsAreFinite, AddOne

LEMMA OpeningLeft ==
    ASSUME NEW t \in Tasks, pc[t] \in OpeningAt, pc'[t] \notin OpeningAt,
           \A u \in Tasks \ {t} : pc'[u] \in OpeningAt <=> pc[u] \in OpeningAt
    PROVE  Cardinality(Opening') = Cardinality(Opening) - 1 /\ Cardinality(Opening) >= 1
<1>1. Opening' = Opening \ {t} /\ t \in Opening
  BY DEF Opening, OpeningAt
<1> QED
  BY <1>1, SlotsAreFinite, RemoveOne

LEMMA OpeningSame ==
    ASSUME \A u \in Tasks : pc'[u] \in OpeningAt <=> pc[u] \in OpeningAt
    PROVE  Opening' = Opening
  BY DEF Opening, OpeningAt

(* A step that moves nothing in or out.                                     *)
LEMMA SlotsFrame ==
    ASSUME Slots, pool' # "gone" => pool # "gone", total' = total, leaked' = leaked,
           InCare' = InCare, Opening' = Opening, MaintSlots' = MaintSlots
    PROVE  Slots'
  BY DEF Slots, SlotsTaken

(* No step releases a slot twice or forgets one.                            *)
LEMMA SlotsKept == ASSUME Inv, Slots, [Next]_vars PROVE Slots'
<1>1. ASSUME NEW t \in Tasks, Start(t) PROVE Slots'
  <2>1. InCare' = InCare
    BY <1>1 DEF Start, Inv, TypeOK, InCare, Hands, Holding, vars, DropSession
  <2>2. Opening' = Opening
    BY <1>1 DEF Start, Inv, TypeOK, Opening, Go, At, vars
  <2>3. /\ pool' # "gone" => pool # "gone"
        /\ total' = total /\ leaked' = leaked /\ MaintSlots' = MaintSlots
    BY <1>1 DEF Start, MaintSlots, vars
  <2> QED
    BY <2>1, <2>2, <2>3, SlotsFrame
<1>2. ASSUME NEW t \in Tasks, Check(t) PROVE Slots'
  <2>1. InCare' = InCare
    BY <1>2 DEF Check, Inv, TypeOK, InCare, Hands, Holding, vars, DropSession
  <2>2. Opening' = Opening
    BY <1>2 DEF Check, Inv, TypeOK, Opening, Go, At, vars
  <2>3. /\ pool' # "gone" => pool # "gone"
        /\ total' = total /\ leaked' = leaked /\ MaintSlots' = MaintSlots
    BY <1>2 DEF Check, MaintSlots, vars
  <2> QED
    BY <2>1, <2>2, <2>3, SlotsFrame
<1>3. ASSUME NEW t \in Tasks, TakeIdle(t) PROVE Slots'
  <2>1. InCare' = InCare
    <3>1. /\ idle # <<>> /\ phase' = [phase EXCEPT ![Head(idle)] = "inHand"]
      BY <1>3 DEF TakeIdle
    <3>2. Head(idle) \in Conns /\ phase[Head(idle)] = "idle"
      BY <3>1, TailFacts DEF Inv, TypeOK, Shelved
    <3> QED
      BY <3>1, <3>2 DEF InCare, Inv, TypeOK
  <2>2. Opening' = Opening
    BY <1>3 DEF TakeIdle, Inv, TypeOK, Opening, Go, At
  <2> QED
    BY <1>3, <2>1, <2>2, SlotsFrame DEF TakeIdle, MaintSlots
<1>4. ASSUME NEW t \in Tasks, TakeNothing(t) PROVE Slots'
  <2>1. InCare' = InCare
    BY <1>4 DEF TakeNothing, Inv, TypeOK, InCare, Hands, Holding, vars, DropSession
  <2>2. Opening' = Opening
    BY <1>4 DEF TakeNothing, Inv, TypeOK, Opening, Go, At, vars
  <2>3. /\ pool' # "gone" => pool # "gone"
        /\ total' = total /\ leaked' = leaked /\ MaintSlots' = MaintSlots
    BY <1>4 DEF TakeNothing, MaintSlots, vars
  <2> QED
    BY <2>1, <2>2, <2>3, SlotsFrame
<1>5. ASSUME NEW t \in Tasks, CheckHealth(t) PROVE Slots'
  <2>1. InCare' = InCare
    BY <1>5 DEF CheckHealth, Inv, TypeOK, InCare, Hands, Holding, vars, DropSession
  <2>2. Opening' = Opening
    BY <1>5 DEF CheckHealth, Inv, TypeOK, Opening, Go, At, vars
  <2>3. /\ pool' # "gone" => pool # "gone"
        /\ total' = total /\ leaked' = leaked /\ MaintSlots' = MaintSlots
    BY <1>5 DEF CheckHealth, MaintSlots, vars
  <2> QED
    BY <2>1, <2>2, <2>3, SlotsFrame
<1>6. ASSUME NEW t \in Tasks, DiscardTaken(t) PROVE Slots'
  <2>1. PICK next \in {"check", "failed"} : ReleaseSlot([pc EXCEPT ![t] = next])
    BY <1>6 DEF DiscardTaken
  <2>2. [pc EXCEPT ![t] = next] \in [Tasks -> PCs]
    BY DEF Inv, TypeOK, PCs, Acquiring, Finished
  <2>3. Wakes([pc EXCEPT ![t] = next]) /\ total' = IF total = 0 THEN 0 ELSE total - 1
    BY <2>1, <2>2, ReleaseSlotFacts DEF Wakes, Inv
  <2>4. Opening' = Opening
    BY <1>6, <2>3, OpeningSame DEF DiscardTaken, Wakes, OpeningAt, Inv, TypeOK
  <2>5. own[t] \in Conns /\ phase[own[t]] = "inHand" /\ phase' = [phase EXCEPT ![own[t]] = "ending"]
    BY <1>6 DEF DiscardTaken, DropSession, Inv, TypeOK, Hands, Holding
  <2>6. Cardinality(InCare') = Cardinality(InCare) - 1 /\ Cardinality(InCare) >= 1
    BY <2>5, CareLeft DEF Inv
  <2>7. pool' = pool /\ leaked' = leaked /\ MaintSlots' = MaintSlots /\ leaked \in Nat
    BY <1>6 DEF DiscardTaken, MaintSlots, Inv, TypeOK
  <2> QED
    BY <2>3, <2>4, <2>6, <2>7, SlotsAreFinite DEF Slots, SlotsTaken
<1>7. ASSUME NEW t \in Tasks, Reserve(t) PROVE Slots'
  <2>1. InCare' = InCare /\ MaintSlots' = MaintSlots /\ pool' = pool /\ leaked' = leaked
    BY <1>7 DEF Reserve, InCare, MaintSlots
  <2>2. CASE total >= MAX_SIZE
    <3>1. Opening' = Opening
      BY <1>7, <2>2, OpeningSame DEF Reserve, Go, At, OpeningAt, Inv, TypeOK
    <3> QED
      BY <1>7, <2>1, <2>2, <3>1, SlotsFrame DEF Reserve
  <2>3. CASE ~(total >= MAX_SIZE)
    <3>1. Cardinality(Opening') = Cardinality(Opening) + 1
      BY <1>7, <2>3, OpeningEntered DEF Reserve, Go, At, OpeningAt, Inv, TypeOK
    <3>2. total' = total + 1 /\ total \in Nat /\ leaked \in Nat
      BY <1>7, <2>3 DEF Reserve, Inv, TypeOK
    <3> QED
      BY <2>1, <3>1, <3>2, SlotsAreFinite DEF Slots, SlotsTaken
  <2> QED
    BY <2>2, <2>3
<1>8. ASSUME NEW t \in Tasks, Connect(t) PROVE Slots'
  <2>1. PICK c \in Conns : NewConnection(c, "inHand")
    BY <1>8 DEF Connect
  <2>2. Cardinality(InCare') = Cardinality(InCare) + 1
    BY <2>1, CareEntered DEF NewConnection, Phases, Inv
  <2>3. Cardinality(Opening') = Cardinality(Opening) - 1 /\ Cardinality(Opening) >= 1
    BY <1>8, OpeningLeft DEF Connect, Go, At, OpeningAt, Inv, TypeOK
  <2>4. pool' = pool /\ total' = total /\ leaked' = leaked /\ MaintSlots' = MaintSlots
    BY <1>8 DEF Connect, MaintSlots
  <2>5. total \in Nat /\ leaked \in Nat
    BY DEF Inv, TypeOK
  <2> QED
    BY <2>2, <2>3, <2>4, <2>5, SlotsAreFinite DEF Slots, SlotsTaken
<1>9. ASSUME NEW t \in Tasks, ConnectFails(t) PROVE Slots'
  <2>1. InCare' = InCare
    BY <1>9 DEF ConnectFails, Inv, TypeOK, InCare, Hands, Holding, vars, DropSession
  <2>2. Opening' = Opening
    BY <1>9 DEF ConnectFails, Inv, TypeOK, Opening, Go, At, vars
  <2>3. /\ pool' # "gone" => pool # "gone"
        /\ total' = total /\ leaked' = leaked /\ MaintSlots' = MaintSlots
    BY <1>9 DEF ConnectFails, MaintSlots, vars
  <2> QED
    BY <2>1, <2>2, <2>3, SlotsFrame
<1>10. ASSUME NEW t \in Tasks, Release(t) PROVE Slots'
  <2>1. [pc EXCEPT ![t] = "failed"] \in [Tasks -> PCs]
    BY DEF Inv, TypeOK, PCs, Finished
  <2>2. Wakes([pc EXCEPT ![t] = "failed"]) /\ total' = IF total = 0 THEN 0 ELSE total - 1
    BY <1>10, <2>1, ReleaseSlotFacts DEF Release, Wakes, Inv
  <2>3. Cardinality(Opening') = Cardinality(Opening) - 1 /\ Cardinality(Opening) >= 1
    <3>1. pc[t] \in OpeningAt /\ pc'[t] \notin OpeningAt
      BY <1>10, <2>2 DEF Release, At, Wakes, OpeningAt, Inv, TypeOK
    <3>2. \A u \in Tasks \ {t} : pc'[u] \in OpeningAt <=> pc[u] \in OpeningAt
      BY <2>2 DEF Wakes, OpeningAt, Inv, TypeOK
    <3> QED
      BY <3>1, <3>2, OpeningLeft
  <2>4. /\ pool' = pool /\ leaked' = leaked /\ MaintSlots' = MaintSlots /\ InCare' = InCare
        /\ total \in Nat /\ leaked \in Nat
    BY <1>10 DEF Release, MaintSlots, InCare, Inv, TypeOK
  <2> QED
    BY <2>2, <2>3, <2>4, SlotsAreFinite DEF Slots, SlotsTaken
<1>11. ASSUME NEW t \in Tasks, Register(t) PROVE Slots'
  <2>1. InCare' = InCare /\ MaintSlots' = MaintSlots
    BY <1>11 DEF Register, InCare, MaintSlots
  <2>2. Opening' = Opening
    BY <1>11, OpeningSame DEF Register, Inv, TypeOK, OpeningAt, Go, At
  <2> QED
    BY <1>11, <2>1, <2>2, SlotsFrame DEF Register
<1>12. ASSUME NEW t \in Tasks, TimeOut(t) PROVE Slots'
  <2>1. InCare' = InCare
    BY <1>12 DEF TimeOut, Inv, TypeOK, InCare, Hands, Holding, vars, DropSession
  <2>2. Opening' = Opening
    BY <1>12 DEF TimeOut, Inv, TypeOK, Opening, Go, At, vars
  <2>3. /\ pool' # "gone" => pool # "gone"
        /\ total' = total /\ leaked' = leaked /\ MaintSlots' = MaintSlots
    BY <1>12 DEF TimeOut, MaintSlots, vars
  <2> QED
    BY <2>1, <2>2, <2>3, SlotsFrame
<1>13. ASSUME NEW t \in Tasks, Cancel(t) PROVE Slots'
  <2>1. pc'[t] = "cancelled" /\ \A u \in Tasks \ {t} : pc'[u] \in OpeningAt <=> pc[u] \in OpeningAt
    BY <1>13, CancelFacts DEF OpeningAt
  <2>2. /\ pool' = pool /\ total' = total /\ MaintSlots' = MaintSlots
        /\ total \in Nat /\ leaked \in Nat
    BY <1>13 DEF Cancel, MaintSlots, Inv, TypeOK
  <2>3. CASE own[t] # None
    <3>1. own[t] \in Conns /\ phase[own[t]] = "inHand" /\ phase' = [phase EXCEPT ![own[t]] = "ending"]
      BY <1>13, <2>3 DEF Cancel, Inv, TypeOK, Hands
    <3>2. Cardinality(InCare') = Cardinality(InCare) - 1 /\ Cardinality(InCare) >= 1
      BY <3>1, CareLeft DEF Inv
    <3>3. Opening' = Opening
      BY <2>1, <2>3, OpeningSame DEF OpeningAt, Inv, Hands, Holding
    <3>4. leaked' = leaked + 1
      BY <1>13, <2>3 DEF Cancel
    <3> QED
      BY <2>2, <3>2, <3>3, <3>4, SlotsAreFinite DEF Slots, SlotsTaken
  <2>4. CASE own[t] = None /\ pc[t] \in OpeningAt
    <3>1. InCare' = InCare /\ leaked' = leaked + 1
      BY <1>13, <2>4 DEF Cancel, InCare, OpeningAt
    <3>2. Cardinality(Opening') = Cardinality(Opening) - 1 /\ Cardinality(Opening) >= 1
      <4>1. pc'[t] \notin OpeningAt
        BY <2>1 DEF OpeningAt
      <4> QED
        BY <2>1, <2>4, <4>1, OpeningLeft
    <3> QED
      BY <2>2, <3>1, <3>2, SlotsAreFinite DEF Slots, SlotsTaken
  <2>5. CASE own[t] = None /\ pc[t] \notin OpeningAt
    <3>1. InCare' = InCare /\ leaked' = leaked
      BY <1>13, <2>2, <2>5 DEF Cancel, InCare, OpeningAt
    <3>2. Opening' = Opening
      BY <2>1, <2>5, OpeningSame DEF OpeningAt
    <3> QED
      BY <2>2, <3>1, <3>2, SlotsFrame
  <2> QED
    BY <2>3, <2>4, <2>5
<1>14. ASSUME NEW t \in Tasks, NEW s \in {"I", "T"}, Use(t, s) PROVE Slots'
  <2>1. InCare' = InCare
    BY <1>14 DEF Use, Inv, TypeOK, InCare, Hands, Holding, vars, DropSession
  <2>2. Opening' = Opening
    BY <1>14 DEF Use, Inv, TypeOK, Opening, Go, At, vars
  <2>3. /\ pool' # "gone" => pool # "gone"
        /\ total' = total /\ leaked' = leaked /\ MaintSlots' = MaintSlots
    BY <1>14 DEF Use, MaintSlots, vars
  <2> QED
    BY <2>1, <2>2, <2>3, SlotsFrame
<1>15. ASSUME NEW t \in Tasks, NEW s \in {"I", "T"}, UseAbandoned(t, s) PROVE Slots'
  <2>1. InCare' = InCare
    BY <1>15 DEF UseAbandoned, Inv, TypeOK, InCare, Hands, Holding, vars, DropSession
  <2>2. Opening' = Opening
    BY <1>15 DEF UseAbandoned, Inv, TypeOK, Opening, Go, At, vars
  <2>3. /\ pool' # "gone" => pool # "gone"
        /\ total' = total /\ leaked' = leaked /\ MaintSlots' = MaintSlots
    BY <1>15 DEF UseAbandoned, MaintSlots, vars
  <2> QED
    BY <2>1, <2>2, <2>3, SlotsFrame
<1>16. ASSUME NEW t \in Tasks, UseFails(t) PROVE Slots'
  <2>1. InCare' = InCare
    BY <1>16 DEF UseFails, Inv, TypeOK, InCare, Hands, Holding, vars, DropSession
  <2>2. Opening' = Opening
    BY <1>16 DEF UseFails, Inv, TypeOK, Opening, Go, At, vars
  <2>3. /\ pool' # "gone" => pool # "gone"
        /\ total' = total /\ leaked' = leaked /\ MaintSlots' = MaintSlots
    BY <1>16 DEF UseFails, MaintSlots, vars
  <2> QED
    BY <2>1, <2>2, <2>3, SlotsFrame
<1>17. ASSUME NEW t \in Tasks, Return(t) PROVE Slots'
  <2>1. Opening' = Opening
    BY <1>17, OpeningSame DEF Return, Go, At, OpeningAt, Inv, TypeOK
  <2>2. /\ pool' = pool /\ total' = total /\ MaintSlots' = MaintSlots
        /\ total \in Nat /\ leaked \in Nat
    BY <1>17 DEF Return, MaintSlots, Inv, TypeOK
  <2>3. own[t] \in Conns /\ phase[own[t]] = "inHand"
    BY <1>17 DEF Return, At, Inv, TypeOK, Hands, Holding
  <2>4. CASE phase' = [phase EXCEPT ![own[t]] = "recycle"] /\ leaked' = leaked
    <3>1. InCare' = InCare
      BY <2>3, <2>4 DEF InCare, Inv, TypeOK
    <3> QED
      BY <2>1, <2>2, <2>4, <3>1, SlotsFrame
  <2>5. CASE phase' = [phase EXCEPT ![own[t]] = "ending"] /\ leaked' = leaked + 1
    <3>1. Cardinality(InCare') = Cardinality(InCare) - 1 /\ Cardinality(InCare) >= 1
      BY <2>3, <2>5, CareLeft DEF Inv
    <3> QED
      BY <2>1, <2>2, <2>5, <3>1, SlotsAreFinite DEF Slots, SlotsTaken
  <2> QED
    BY <1>17, <2>4, <2>5 DEF Return, DropSession
<1>18. ASSUME NEW c \in Conns, StatusArrives(c) PROVE Slots'
  <2>1. InCare' = InCare
    BY <1>18 DEF StatusArrives, Inv, TypeOK, InCare, Hands, Holding, vars, DropSession
  <2>2. Opening' = Opening
    BY <1>18 DEF StatusArrives, Inv, TypeOK, Opening, Go, At, vars
  <2>3. /\ pool' # "gone" => pool # "gone"
        /\ total' = total /\ leaked' = leaked /\ MaintSlots' = MaintSlots
    BY <1>18 DEF StatusArrives, MaintSlots, vars
  <2> QED
    BY <2>1, <2>2, <2>3, SlotsFrame
<1>19. ASSUME NEW c \in Conns, Recycle(c) PROVE Slots'
  <2>1. InCare' = InCare
    BY <1>19 DEF Recycle, Inv, TypeOK, InCare, Hands, Holding, vars, DropSession
  <2>2. Opening' = Opening
    BY <1>19 DEF Recycle, Inv, TypeOK, Opening, Go, At, vars
  <2>3. /\ pool' # "gone" => pool # "gone"
        /\ total' = total /\ leaked' = leaked /\ MaintSlots' = MaintSlots
    BY <1>19 DEF Recycle, MaintSlots, vars
  <2> QED
    BY <2>1, <2>2, <2>3, SlotsFrame
<1>20. ASSUME NEW c \in Conns, Rollback(c) PROVE Slots'
  <2>1. InCare' = InCare
    BY <1>20 DEF Rollback, Inv, TypeOK, InCare, Hands, Holding, vars, DropSession
  <2>2. Opening' = Opening
    BY <1>20 DEF Rollback, Inv, TypeOK, Opening, Go, At, vars
  <2>3. /\ pool' # "gone" => pool # "gone"
        /\ total' = total /\ leaked' = leaked /\ MaintSlots' = MaintSlots
    BY <1>20 DEF Rollback, MaintSlots, vars
  <2> QED
    BY <2>1, <2>2, <2>3, SlotsFrame
<1>21. ASSUME NEW c \in Conns, ReturnIdle(c) PROVE Slots'
  <2>1. Opening' = Opening
    BY <1>21, ReturnIdleFacts, OpeningSame DEF Wakes, OpeningAt
  <2>2. /\ pool' = pool /\ leaked' = leaked /\ MaintSlots' = MaintSlots
        /\ total \in Nat /\ leaked \in Nat /\ phase[c] = "return"
    BY <1>21 DEF ReturnIdle, MaintAfter, MaintSlots, Inv, TypeOK
  <2>3. CASE /\ phase' = [phase EXCEPT ![c] = "ending"]
             /\ total' = IF total = 0 THEN 0 ELSE total - 1
    <3>1. Cardinality(InCare') = Cardinality(InCare) - 1 /\ Cardinality(InCare) >= 1
      BY <2>2, <2>3, CareLeft DEF Inv
    <3> QED
      BY <2>1, <2>2, <2>3, <3>1, SlotsAreFinite DEF Slots, SlotsTaken
  <2>4. CASE phase' = [phase EXCEPT ![c] = "idle"] /\ total' = total
    <3>1. InCare' = InCare
      BY <2>2, <2>4 DEF InCare, Inv, TypeOK
    <3> QED
      BY <2>1, <2>2, <2>4, <3>1, SlotsFrame
  <2> QED
    BY <1>21, <2>3, <2>4, ReturnIdleFacts
<1>22. ASSUME NEW c \in Conns, ReturnExpired(c) PROVE Slots'
  <2>1. InCare' = InCare
    BY <1>22 DEF ReturnExpired, Inv, TypeOK, InCare, Hands, Holding, vars, DropSession
  <2>2. Opening' = Opening
    BY <1>22 DEF ReturnExpired, Inv, TypeOK, Opening, Go, At, vars
  <2>3. /\ pool' # "gone" => pool # "gone"
        /\ total' = total /\ leaked' = leaked /\ MaintSlots' = MaintSlots
    BY <1>22 DEF ReturnExpired, MaintSlots, vars
  <2> QED
    BY <2>1, <2>2, <2>3, SlotsFrame
<1>23. ASSUME NEW c \in Conns, Discard(c) PROVE Slots'
  <2>1. pc \in [Tasks -> PCs] /\ ReleaseSlot(pc)
    BY <1>23 DEF Discard, Inv, TypeOK, PCs
  <2>2. Wakes(pc) /\ total' = IF total = 0 THEN 0 ELSE total - 1
    BY <2>1, ReleaseSlotFacts DEF Wakes, Inv
  <2>3. Opening' = Opening
    BY <2>2, OpeningSame DEF Wakes, OpeningAt
  <2>4. Cardinality(InCare') = Cardinality(InCare) - 1 /\ Cardinality(InCare) >= 1
    BY <1>23, CareLeft DEF Discard, DropSession, Inv
  <2>5. /\ pool' = pool /\ leaked' = leaked /\ MaintSlots' = MaintSlots
        /\ total \in Nat /\ leaked \in Nat
    BY <1>23 DEF Discard, MaintAfter, MaintSlots, Inv, TypeOK
  <2> QED
    BY <2>2, <2>3, <2>4, <2>5, SlotsAreFinite DEF Slots, SlotsTaken
<1>24. ASSUME NEW c \in Conns, Ends(c) PROVE Slots'
  <2>1. InCare' = InCare
    BY <1>24 DEF Ends, Inv, TypeOK, InCare, Hands, Holding, vars, DropSession
  <2>2. Opening' = Opening
    BY <1>24 DEF Ends, Inv, TypeOK, Opening, Go, At, vars
  <2>3. /\ pool' # "gone" => pool # "gone"
        /\ total' = total /\ leaked' = leaked /\ MaintSlots' = MaintSlots
    BY <1>24 DEF Ends, MaintSlots, vars
  <2> QED
    BY <2>1, <2>2, <2>3, SlotsFrame
<1>25. ASSUME Tick PROVE Slots'
  <2>1. PICK gone \in SUBSET (IF Expiry THEN IdleConns ELSE {}) :
            /\ total' = Less(total, Cardinality(gone))
            /\ phase' = [c \in Conns |-> IF c \in gone THEN "ending" ELSE phase[c]]
    BY <1>25 DEF Tick
  <2>2. \A c \in gone : c \in Conns /\ phase[c] = "idle"
    BY <2>1, IdleAreConns DEF IdleConns, Members, Inv, Shelved
  <2>3. gone \subseteq InCare /\ InCare' = InCare \ gone
    BY <2>1, <2>2 DEF InCare, Inv, TypeOK
  <2>4. /\ Cardinality(InCare') = Cardinality(InCare) - Cardinality(gone)
        /\ Cardinality(gone) \in Nat /\ Cardinality(gone) <= Cardinality(InCare)
    BY <2>3, SlotsAreFinite, RemoveSome
  <2>5. /\ pool' = pool /\ leaked' = leaked /\ MaintSlots' = MaintSlots /\ Opening' = Opening
        /\ total \in Nat /\ leaked \in Nat
    BY <1>25 DEF Tick, MaintSlots, Opening, Inv, TypeOK
  <2> QED
    BY <2>1, <2>4, <2>5, SlotsAreFinite DEF Slots, SlotsTaken, Less
<1>26. ASSUME Stop PROVE Slots'
  <2>1. InCare' = InCare
    BY <1>26 DEF Stop, Inv, TypeOK, InCare, Hands, Holding, vars, DropSession
  <2>2. Opening' = Opening
    BY <1>26 DEF Stop, Inv, TypeOK, Opening, Go, At, vars
  <2>3. /\ pool' # "gone" => pool # "gone"
        /\ total' = total /\ leaked' = leaked /\ MaintSlots' = MaintSlots
    BY <1>26 DEF Stop, MaintSlots, vars
  <2> QED
    BY <2>1, <2>2, <2>3, SlotsFrame
<1>27. ASSUME Ensure PROVE Slots'
  <2>1. InCare' = InCare /\ Opening' = Opening /\ leaked' = leaked
    BY <1>27 DEF Ensure, InCare, Opening
  <2>2. CASE closed \/ Len(idle) >= MIN_IDLE \/ total >= MAX_SIZE
    BY <1>27, <2>1, <2>2, SlotsFrame DEF Ensure, MaintSlots
  <2>3. CASE ~(closed \/ Len(idle) >= MIN_IDLE \/ total >= MAX_SIZE)
    <3>1. /\ MaintSlots = 0 /\ MaintSlots' = 1 /\ total' = total + 1 /\ pool' = pool
          /\ total \in Nat /\ leaked \in Nat
      BY <1>27, <2>3 DEF Ensure, MaintSlots, Inv, TypeOK
    <3> QED
      BY <2>1, <3>1, SlotsAreFinite DEF Slots, SlotsTaken
  <2> QED
    BY <2>2, <2>3
<1>28. ASSUME EnsureConnects PROVE Slots'
  <2>1. PICK c \in Conns : /\ NewConnection(c, "return")
                            /\ maint' = [pc |-> "returning", conn |-> c]
    BY <1>28 DEF EnsureConnects
  <2>2. Cardinality(InCare') = Cardinality(InCare) + 1
    BY <2>1, CareEntered DEF NewConnection, Phases, Inv
  <2>3. /\ MaintSlots = 1 /\ MaintSlots' = 0 /\ Opening' = Opening
        /\ pool' = pool /\ total' = total /\ leaked' = leaked
        /\ total \in Nat /\ leaked \in Nat
    BY <1>28, <2>1 DEF EnsureConnects, MaintSlots, Opening, Inv, TypeOK
  <2> QED
    BY <2>2, <2>3, SlotsAreFinite DEF Slots, SlotsTaken
<1>29. ASSUME EnsureFails PROVE Slots'
  <2>1. pc \in [Tasks -> PCs] /\ ReleaseSlot(pc)
    BY <1>29 DEF EnsureFails, Inv, TypeOK, PCs
  <2>2. Wakes(pc) /\ total' = IF total = 0 THEN 0 ELSE total - 1
    BY <2>1, ReleaseSlotFacts DEF Wakes, Inv
  <2>3. Opening' = Opening
    BY <2>2, OpeningSame DEF Wakes, OpeningAt
  <2>4. CASE pool = "starting"
    BY <1>29, <2>4 DEF EnsureFails, Slots
  <2>5. CASE pool # "starting"
    <3>1. /\ InCare' = InCare /\ MaintSlots = 1 /\ MaintSlots' = 0 /\ pool' = pool
          /\ leaked' = leaked /\ total \in Nat /\ leaked \in Nat
      BY <1>29, <2>5 DEF EnsureFails, InCare, MaintSlots, Inv, TypeOK
    <3> QED
      BY <2>2, <2>3, <3>1, SlotsAreFinite DEF Slots, SlotsTaken
  <2> QED
    BY <2>4, <2>5
<1>30. ASSUME Close PROVE Slots'
  <2>1. pc \in [Tasks -> PCs]
    BY DEF Inv, TypeOK, PCs
  <2>2. Opening' = Opening
    BY <1>30, <2>1, NotifyWaitersFacts, OpeningSame DEF Close, OpeningAt
  <2>3. InCare' = InCare /\ MaintSlots' = MaintSlots
    BY <1>30 DEF Close, InCare, MaintSlots
  <2> QED
    BY <1>30, <2>2, <2>3, SlotsFrame DEF Close
<1>31. ASSUME CloseDrains PROVE Slots'
  <2>1. Members(idle) \subseteq InCare /\ InCare' = InCare \ Members(idle)
    BY <1>31, IdleAreConns DEF CloseDrains, IdleConns, Members, InCare, Inv, TypeOK, Shelved
  <2>2. Len(idle) = Cardinality(Members(idle))
    BY DistinctLength DEF Inv, TypeOK, Shelved
  <2>3. /\ Cardinality(InCare') = Cardinality(InCare) - Len(idle)
        /\ Len(idle) \in Nat /\ Len(idle) <= Cardinality(InCare)
    BY <2>1, <2>2, SlotsAreFinite, RemoveSome
  <2>4. /\ pool' = pool /\ leaked' = leaked /\ MaintSlots' = MaintSlots /\ Opening' = Opening
        /\ total \in Nat /\ leaked \in Nat /\ total' = Less(total, Len(idle))
    BY <1>31 DEF CloseDrains, MaintSlots, Opening, Inv, TypeOK
  <2> QED
    BY <2>3, <2>4, SlotsAreFinite, SMTT(20) DEF Slots, SlotsTaken, Less
<1>32. ASSUME DropPool PROVE Slots'
  BY <1>32 DEF DropPool, Slots
<1>33. ASSUME Quiescent PROVE Slots'
  <2>1. InCare' = InCare
    BY <1>33 DEF Quiescent, Inv, TypeOK, InCare, Hands, Holding, vars, DropSession
  <2>2. Opening' = Opening
    BY <1>33 DEF Quiescent, Inv, TypeOK, Opening, Go, At, vars
  <2>3. /\ pool' # "gone" => pool # "gone"
        /\ total' = total /\ leaked' = leaked /\ MaintSlots' = MaintSlots
    BY <1>33 DEF Quiescent, MaintSlots, vars
  <2> QED
    BY <2>1, <2>2, <2>3, SlotsFrame
<1>34. ASSUME UNCHANGED vars PROVE Slots'
  <2>1. InCare' = InCare
    BY <1>34 DEF vars, Inv, TypeOK, InCare, Hands, Holding, vars, DropSession
  <2>2. Opening' = Opening
    BY <1>34 DEF vars, Inv, TypeOK, Opening, Go, At, vars
  <2>3. /\ pool' # "gone" => pool # "gone"
        /\ total' = total /\ leaked' = leaked /\ MaintSlots' = MaintSlots
    BY <1>34 DEF vars, MaintSlots, vars
  <2> QED
    BY <2>1, <2>2, <2>3, SlotsFrame
<1> QED
  BY <1>1, <1>2, <1>3, <1>4, <1>5, <1>6, <1>7, <1>8, <1>9, <1>10, <1>11, <1>12, <1>13,
     <1>14, <1>15, <1>16, <1>17, <1>18, <1>19, <1>20, <1>21, <1>22, <1>23, <1>24, <1>25,
     <1>26, <1>27, <1>28, <1>29, <1>30, <1>31, <1>32, <1>33, <1>34
     DEF Next, AcquireStep, ConnStep, MaintStep

-----------------------------------------------------------------------------
(* The theorems *)

LEMMA InitInv == ASSUME Init PROVE Inv /\ Slots
<1>1. TypeOK
  <2>1. /\ idle \in Seq(Conns) /\ waiters \in Seq(Tasks)
        /\ total \in 0..MAX_SIZE /\ leaked \in Nat
    BY SizeAssumption DEF Init
  <2>2. maint \in [pc : {"ensure", "connect", "returning", "sleep", "stopped"},
                   conn : Conns \cup {None}]
    BY DEF Init
  <2>3. pc \in [Tasks -> Acquiring \cup Finished \cup {"new", "held"}]
    BY DEF Init
  <2>4. own \in [Tasks -> Conns \cup {None}] /\ phase \in [Conns -> Phases]
    BY DEF Init, Phases
  <2>5. /\ tx \in [Conns -> {"I", "T"}] /\ known \in [Conns -> {"I", "T"}]
        /\ broken \in [Conns -> BOOLEAN]
    BY DEF Init
  <2> QED
    BY <2>1, <2>2, <2>3, <2>4, <2>5 DEF Init, TypeOK
<1>2. Queued /\ Shelved
  BY EmptySeqFacts DEF Init, Queued, Shelved
<1>3. Hands /\ Staged
  BY ConnsAssumption DEF Init, Hands, Holding, Staged, OnlyEnsure
<1>4. InCare = {} /\ Opening = {} /\ MaintSlots = 0
  BY DEF Init, InCare, Opening, MaintSlots
<1>5. Slots
  BY <1>4, FS_EmptySet DEF Init, Slots, SlotsTaken
<1> QED
  BY <1>1, <1>2, <1>3, <1>5 DEF Inv

LEMMA StepInv == ASSUME Inv, Slots, [Next]_vars PROVE Inv' /\ Slots'
<1>1. TypeOK' /\ Queued' /\ Shelved' /\ Hands' /\ Staged'
  BY TypesKept, QueuedKept, ShelvedKept, HandsKept, StagedKept
<1> QED
  BY <1>1, SlotsKept DEF Inv

LEMMA Invariance == Spec => [](Inv /\ Slots)
<1>1. Inv /\ Slots /\ [Next]_vars => (Inv /\ Slots)'
  BY StepInv
<1> QED
  BY InitInv, <1>1, PTL DEF Spec

(* Every variable of the pool keeps its type; total never passes max_size,  *)
(* and the queues hold what they are for.                                   *)
THEOREM PoolTypeCorrect == Spec => []TypeOK
<1>1. Inv => TypeOK
  BY DEF Inv
<1> QED
  BY Invariance, <1>1, PTL

(* However acquire, recycle, maintenance, close and dropped futures         *)
(* interleave, PoolState::total is what it stands for, and no more than     *)
(* max_size connections are open or being opened.                           *)
THEOREM SlotsAreAccounted == Spec => []SlotsAccounted
<1>1. Inv /\ Slots => SlotsAccounted
  <2> SUFFICES ASSUME Inv, Slots PROVE SlotsTaken <= MAX_SIZE
    BY DEF SlotsAccounted, Slots
  <2>1. CASE pool # "gone"
    <3>1. total \in Nat /\ total <= MAX_SIZE /\ leaked \in Nat /\ MAX_SIZE \in Nat
      BY SizeAssumption DEF Inv, TypeOK
    <3> QED
      BY <2>1, <3>1, SlotsAreFinite DEF Slots, SlotsTaken
  <2>2. CASE pool = "gone"
    <3>1. InCare = {} /\ Opening = {} /\ MaintSlots = 0
      BY <2>2 DEF Inv, Staged, Nobody, InCare, Opening, MaintSlots, Acquiring
    <3> QED
      BY <3>1, FS_EmptySet, SizeAssumption DEF SlotsTaken
  <2> QED
    BY <2>1, <2>2
<1> QED
  BY Invariance, <1>1, PTL

(* No connection is handed to two callers, or to a caller while it is in    *)
(* the idle queue or being recycled.                                        *)
THEOREM OwnershipIsExclusive == Spec => []Ownership
<1>1. Inv => Ownership
  <2> SUFFICES ASSUME Inv PROVE Ownership
    OBVIOUS
  <2>1. \A i, j \in 1..Len(idle) : idle[i] = idle[j] => i = j
    BY DEF Inv, Shelved, Distinct
  <2>2. \A c \in Conns : phase[c] = "idle" <=> c \in IdleConns
    BY DEF Inv, Shelved, Members, IdleConns
  <2>3. \A c \in Conns : phase[c] = "inHand" <=> \E t \in Tasks : own[t] = c
    BY ConnsAssumption DEF Inv, Hands
  <2> QED
    BY <2>1, <2>2, <2>3 DEF Inv, Hands, Holding, Ownership
<1> QED
  BY Invariance, <1>1, PTL

-----------------------------------------------------------------------------
(* Idle connections are clean *)

(* Where no call is abandoned, the driver's view of a session's transaction *)
(* is up to date, and what is about to become idle is clean.                *)
Clean == /\ \A c \in Conns : known[c] = tx[c]
         /\ \A c \in Conns : phase[c] \in {"rollback", "return", "idle"} => ~broken[c]
         /\ \A c \in Conns : phase[c] \in {"return", "idle"} => tx[c] = "I"

(* Every step keeps idle connections clean, if no call is abandoned.        *)
LEMMA CleanKept == ASSUME ~Abandon, Inv, Clean, [Next]_vars PROVE Clean'
<1>1. ASSUME NEW t \in Tasks, Start(t) PROVE Clean'
  BY <1>1 DEF Start, Inv, TypeOK, Hands, Holding, Clean, vars, connVars, At, DropSession
<1>2. ASSUME NEW t \in Tasks, Check(t) PROVE Clean'
  BY <1>2 DEF Check, Inv, TypeOK, Hands, Holding, Clean, vars, connVars, At, DropSession
<1>3. ASSUME NEW t \in Tasks, TakeIdle(t) PROVE Clean'
  <2>1. idle # <<>> /\ phase' = [phase EXCEPT ![Head(idle)] = "inHand"]
    BY <1>3 DEF TakeIdle
  <2> QED
    BY <1>3, <2>1 DEF TakeIdle, Inv, TypeOK, Clean, connVars
<1>4. ASSUME NEW t \in Tasks, TakeNothing(t) PROVE Clean'
  BY <1>4 DEF TakeNothing, Inv, TypeOK, Hands, Holding, Clean, vars, connVars, At, DropSession
<1>5. ASSUME NEW t \in Tasks, CheckHealth(t) PROVE Clean'
  BY <1>5 DEF CheckHealth, Inv, TypeOK, Hands, Holding, Clean, vars, connVars, At, DropSession
<1>6. ASSUME NEW t \in Tasks, DiscardTaken(t) PROVE Clean'
  BY <1>6 DEF DiscardTaken, Inv, TypeOK, Hands, Holding, Clean, vars, connVars, At, DropSession
<1>7. ASSUME NEW t \in Tasks, Reserve(t) PROVE Clean'
  BY <1>7 DEF Reserve, Inv, TypeOK, Hands, Holding, Clean, vars, connVars, At, DropSession
<1>8. ASSUME NEW t \in Tasks, Connect(t) PROVE Clean'
  <2>1. PICK c \in Conns : NewConnection(c, "inHand")
    BY <1>8 DEF Connect
  <2> QED
    BY <2>1 DEF NewConnection, Inv, TypeOK, Clean
<1>9. ASSUME NEW t \in Tasks, ConnectFails(t) PROVE Clean'
  BY <1>9 DEF ConnectFails, Inv, TypeOK, Hands, Holding, Clean, vars, connVars, At, DropSession
<1>10. ASSUME NEW t \in Tasks, Release(t) PROVE Clean'
  BY <1>10 DEF Release, Inv, TypeOK, Hands, Holding, Clean, vars, connVars, At, DropSession
<1>11. ASSUME NEW t \in Tasks, Register(t) PROVE Clean'
  BY <1>11 DEF Register, Inv, TypeOK, Hands, Holding, Clean, vars, connVars, At, DropSession
<1>12. ASSUME NEW t \in Tasks, TimeOut(t) PROVE Clean'
  BY <1>12 DEF TimeOut, Inv, TypeOK, Hands, Holding, Clean, vars, connVars, At, DropSession
<1>13. ASSUME NEW t \in Tasks, Cancel(t) PROVE Clean'
  BY <1>13 DEF Cancel, Inv, TypeOK, Hands, Holding, Clean, vars, connVars, At, DropSession
<1>14. ASSUME NEW t \in Tasks, NEW s \in {"I", "T"}, Use(t, s) PROVE Clean'
  BY <1>14 DEF Use, Inv, TypeOK, Hands, Holding, Clean, vars, connVars, At, DropSession
<1>15. ASSUME NEW t \in Tasks, NEW s \in {"I", "T"}, UseAbandoned(t, s) PROVE Clean'
  BY <1>15 DEF UseAbandoned, Inv, TypeOK, Hands, Holding, Clean, vars, connVars, At, DropSession
<1>16. ASSUME NEW t \in Tasks, UseFails(t) PROVE Clean'
  BY <1>16 DEF UseFails, Inv, TypeOK, Hands, Holding, Clean, vars, connVars, At, DropSession
<1>17. ASSUME NEW t \in Tasks, Return(t) PROVE Clean'
  BY <1>17 DEF Return, Inv, TypeOK, Hands, Holding, Clean, vars, connVars, At, DropSession
<1>18. ASSUME NEW c \in Conns, StatusArrives(c) PROVE Clean'
  BY <1>18 DEF StatusArrives, Inv, TypeOK, Hands, Holding, Clean, vars, connVars, At, DropSession
<1>19. ASSUME NEW c \in Conns, Recycle(c) PROVE Clean'
  BY <1>19 DEF Recycle, Inv, TypeOK, Hands, Holding, Clean, vars, connVars, At, DropSession
<1>20. ASSUME NEW c \in Conns, Rollback(c) PROVE Clean'
  <2>0. /\ phase[c] = "rollback" /\ UNCHANGED broken /\ tx \in [Conns -> {"I", "T"}]
        /\ known \in [Conns -> {"I", "T"}] /\ phase \in [Conns -> Phases]
    BY <1>20 DEF Rollback, Inv, TypeOK
  <2>1. CASE /\ tx' = [tx EXCEPT ![c] = "I"] /\ known' = [known EXCEPT ![c] = "I"]
             /\ phase' = [phase EXCEPT ![c] = "return"]
    BY <2>0, <2>1 DEF Clean
  <2>2. CASE phase' = [phase EXCEPT ![c] = "discard"] /\ UNCHANGED <<tx, known>>
    BY <2>0, <2>2 DEF Clean
  <2> QED
    BY <1>20, <2>1, <2>2 DEF Rollback
<1>21. ASSUME NEW c \in Conns, ReturnIdle(c) PROVE Clean'
  <2>1. phase[c] = "return" /\ UNCHANGED <<tx, known, broken>>
    BY <1>21 DEF ReturnIdle, connVars
  <2> QED
    BY <1>21, <2>1, ReturnIdleFacts DEF Inv, TypeOK, Clean
<1>22. ASSUME NEW c \in Conns, ReturnExpired(c) PROVE Clean'
  BY <1>22 DEF ReturnExpired, Inv, TypeOK, Hands, Holding, Clean, vars, connVars, At, DropSession
<1>23. ASSUME NEW c \in Conns, Discard(c) PROVE Clean'
  BY <1>23 DEF Discard, Inv, TypeOK, Hands, Holding, Clean, vars, connVars, At, DropSession
<1>24. ASSUME NEW c \in Conns, Ends(c) PROVE Clean'
  BY <1>24 DEF Ends, Inv, TypeOK, Hands, Holding, Clean, vars, connVars, At, DropSession
<1>25. ASSUME Tick PROVE Clean'
  <2>1. UNCHANGED <<tx, known, broken>> /\ \A c \in Conns : phase'[c] \in {phase[c], "ending"}
    BY <1>25 DEF Tick, connVars, Inv, TypeOK
  <2> QED
    BY <2>1 DEF Clean
<1>26. ASSUME Stop PROVE Clean'
  BY <1>26 DEF Stop, Inv, TypeOK, Hands, Holding, Clean, vars, connVars, At, DropSession
<1>27. ASSUME Ensure PROVE Clean'
  BY <1>27 DEF Ensure, Inv, TypeOK, Hands, Holding, Clean, vars, connVars, At, DropSession
<1>28. ASSUME EnsureConnects PROVE Clean'
  <2>1. PICK c \in Conns : NewConnection(c, "return")
    BY <1>28 DEF EnsureConnects
  <2> QED
    BY <2>1 DEF NewConnection, Inv, TypeOK, Clean
<1>29. ASSUME EnsureFails PROVE Clean'
  BY <1>29 DEF EnsureFails, Inv, TypeOK, Hands, Holding, Clean, vars, connVars, At, DropSession
<1>30. ASSUME Close PROVE Clean'
  BY <1>30 DEF Close, Inv, TypeOK, Hands, Holding, Clean, vars, connVars, At, DropSession
<1>31. ASSUME CloseDrains PROVE Clean'
  BY <1>31 DEF CloseDrains, Inv, TypeOK, Hands, Holding, Clean, vars, connVars, At, DropSession
<1>32. ASSUME DropPool PROVE Clean'
  BY <1>32 DEF DropPool, Inv, TypeOK, Hands, Holding, Clean, vars, connVars, At, DropSession
<1>33. ASSUME Quiescent PROVE Clean'
  BY <1>33 DEF Quiescent, Inv, TypeOK, Hands, Holding, Clean, vars, connVars, At, DropSession
<1>34. ASSUME UNCHANGED vars PROVE Clean'
  BY <1>34 DEF vars, Inv, TypeOK, Hands, Holding, Clean, vars, connVars, At, DropSession
<1> QED
  BY <1>1, <1>2, <1>3, <1>4, <1>5, <1>6, <1>7, <1>8, <1>9, <1>10, <1>11, <1>12, <1>13,
     <1>14, <1>15, <1>16, <1>17, <1>18, <1>19, <1>20, <1>21, <1>22, <1>23, <1>24, <1>25,
     <1>26, <1>27, <1>28, <1>29, <1>30, <1>31, <1>32, <1>33, <1>34
     DEF Next, AcquireStep, ConnStep, MaintStep

(* Without abandoned calls, recycle and return_idle let no session become   *)
(* idle that is broken or inside a transaction.                             *)
THEOREM IdleStaysClean == ASSUME ~Abandon PROVE Spec => []IdleIsClean
<1>1. Init => Clean
  BY DEF Init, Clean
<1>2. Inv /\ Clean /\ [Next]_vars => Clean'
  BY CleanKept
<1>3. Inv /\ Clean => IdleIsClean
  <2> SUFFICES ASSUME Inv, Clean, NEW c \in IdleConns PROVE ~broken[c] /\ tx[c] = "I"
    BY DEF IdleIsClean
  <2>1. c \in Conns /\ phase[c] = "idle"
    BY IdleAreConns DEF IdleConns, Members, Inv, Shelved
  <2> QED
    BY <2>1 DEF Clean
<1> QED
  BY Invariance, <1>1, <1>2, <1>3, PTL DEF Spec

-----------------------------------------------------------------------------
(* The pool implements Lending *)

(* Everything the argument rests on.                                        *)
Care == Inv /\ Slots

(* What the store has is what is in the pool's care, and the places that    *)
(* are taken are what total counts.                                         *)
LEMMA PresentIsInCare == ASSUME Inv PROVE Store!Present = InCare
<1>1. \A c \in Conns : c \in Members(idle) <=> phase[c] = "idle"
  BY DEF Inv, Shelved
<1>2. Members(idle) \subseteq Conns
  BY IdleAreConns DEF Inv
<1>3. Store!OnShelf = Members(idle)
  BY DEF Store!OnShelf, Members
<1>4. \A c : c \in {own[b] : b \in Tasks} \ {None} <=> c \in Conns /\ phase[c] = "inHand"
  BY ConnsAssumption DEF Inv, TypeOK, Hands
<1>5. \A c : c \in Back <=> c \in Conns /\ phase[c] \in {"recycle", "rollback", "return", "discard"}
  BY DEF Back
<1>6. \A c \in Conns : phase[c] \in Phases
  BY DEF Inv, TypeOK
<1>7. \A c : c \in Store!Present <=> c \in InCare
  BY <1>1, <1>2, <1>3, <1>4, <1>5, <1>6 DEF Store!Present, InCare, Phases
<1> QED
  BY <1>7

LEMMA TakenIsTotal ==
    ASSUME Care, pool # "gone" PROVE Store!Taken = total
<1>1. Store!Taken = SlotsTaken + leaked
  <2>1. Store!Present = InCare /\ leaked \in Nat
    BY PresentIsInCare DEF Care, Inv, TypeOK
  <2>2. (IF Stocking THEN 1 ELSE 0) = MaintSlots
    BY DEF MaintSlots, Stocking
  <2>3. \A S : Store!Cardinality(S) = Cardinality(S)
    BY Zenon DEF Store!Cardinality, Cardinality
  <2> QED
    BY <2>1, <2>2, <2>3 DEF Store!Taken, SlotsTaken
<1> QED
  BY <1>1 DEF Care, Slots

(* What the store looks like depends on some of the phases only.            *)
BackAt == {"recycle", "rollback", "return", "discard"}
LEMMA BackSame ==
    ASSUME \A c \in Conns : phase'[c] \in BackAt <=> phase[c] \in BackAt
    PROVE  Back' = Back
  BY DEF Back, BackAt
LEMMA BackEntered ==
    ASSUME NEW c \in Conns, phase'[c] \in BackAt,
           \A d \in Conns \ {c} : phase'[d] \in BackAt <=> phase[d] \in BackAt
    PROVE  Back' = Back \cup {c}
  BY DEF Back, BackAt
LEMMA BackLeft ==
    ASSUME NEW c \in Conns, phase'[c] \notin BackAt,
           \A d \in Conns \ {c} : phase'[d] \in BackAt <=> phase[d] \in BackAt
    PROVE  Back' = Back \ {c}
  BY DEF Back, BackAt

LEMMA OpeningGains ==
    ASSUME NEW t \in Tasks, pc'[t] \in OpeningAt,
           \A u \in Tasks \ {t} : pc'[u] \in OpeningAt <=> pc[u] \in OpeningAt
    PROVE  Opening' = Opening \cup {t}
  BY DEF Opening, OpeningAt
LEMMA OpeningLoses ==
    ASSUME NEW t \in Tasks, pc'[t] \notin OpeningAt,
           \A u \in Tasks \ {t} : pc'[u] \in OpeningAt <=> pc[u] \in OpeningAt
    PROVE  Opening' = Opening \ {t}
  BY DEF Opening, OpeningAt

(* A step of the pool that the store does not see.                          *)
Unseen == UNCHANGED Store!lvars
LEMMA UnseenIf ==
    ASSUME own' = own, idle' = idle, Back' = Back, Opening' = Opening,
           Stocking' = Stocking, leaked' = leaked, Serving' = Serving
    PROVE  Unseen
  BY DEF Unseen, Store!lvars

(* A task has nothing that it holds or opens except at these points.        *)
LEMMA EmptyHanded ==
    ASSUME Inv, NEW t \in Tasks, pc[t] \notin Holding, pc[t] \notin OpeningAt
    PROVE  Store!Empty(t)
  BY DEF Inv, Hands, Opening, OpeningAt, Store!Empty

(* Of acquire.                                                              *)
LEMMA StartDoes == ASSUME Care, NEW t \in Tasks, Start(t) \/ Check(t) \/ TakeNothing(t)
                                               \/ CheckHealth(t) \/ ConnectFails(t)
                   PROVE  Unseen
<1>1. /\ own' = own /\ idle' = idle /\ phase' = phase /\ maint' = maint /\ leaked' = leaked
      /\ closed' = closed /\ pool' = pool
  BY DEF Start, Check, TakeNothing, CheckHealth, ConnectFails
<1>2. pc \in [Tasks -> PCs]
  BY DEF Care, Inv, TypeOK, PCs
<1>3. \A u \in Tasks : pc'[u] \in OpeningAt <=> pc[u] \in OpeningAt
  BY <1>2 DEF Start, Check, TakeNothing, CheckHealth, ConnectFails, Go, At, OpeningAt
<1>4. Opening' = Opening /\ Back' = Back
  BY <1>1, <1>3, OpeningSame, BackSame
<1> QED
  BY <1>1, <1>4, UnseenIf DEF Stocking, Serving

LEMMA WaitDoes == ASSUME Care, NEW t \in Tasks, Register(t) \/ TimeOut(t) PROVE Unseen
<1>1. /\ own' = own /\ idle' = idle /\ phase' = phase /\ maint' = maint /\ leaked' = leaked
      /\ closed' = closed /\ pool' = pool
  BY DEF Register, TimeOut
<1>2. pc \in [Tasks -> PCs]
  BY DEF Care, Inv, TypeOK, PCs
<1>3. \A u \in Tasks : pc'[u] \in OpeningAt <=> pc[u] \in OpeningAt
  BY <1>2 DEF Register, TimeOut, Go, At, OpeningAt
<1>4. Opening' = Opening /\ Back' = Back
  BY <1>1, <1>3, OpeningSame, BackSame
<1> QED
  BY <1>1, <1>4, UnseenIf DEF Stocking, Serving

LEMMA TakeIdleDoes == ASSUME Care, NEW t \in Tasks, TakeIdle(t) PROVE Store!Borrow(t)
<1>1. /\ idle # <<>> /\ phase' = [phase EXCEPT ![Head(idle)] = "inHand"]
      /\ idle' = Tail(idle) /\ own' = [own EXCEPT ![t] = Head(idle)]
      /\ maint' = maint /\ leaked' = leaked /\ closed' = closed /\ pool' = pool
      /\ pc[t] = "take"
  BY DEF TakeIdle, At
<1>2. Head(idle) \in Conns /\ phase[Head(idle)] = "idle"
  BY <1>1, TailFacts DEF Care, Inv, TypeOK, Shelved
<1>3. Back' = Back
  BY <1>1, <1>2, BackSame DEF BackAt, Care, Inv, TypeOK
<1>4. pc \in [Tasks -> PCs]
  BY DEF Care, Inv, TypeOK, PCs
<1>5. Opening' = Opening
  BY <1>4, OpeningSame DEF TakeIdle, Go, At, OpeningAt
<1>6. Store!Empty(t)
  BY <1>1, EmptyHanded DEF Care, Holding, OpeningAt
<1> QED
  BY <1>1, <1>3, <1>5, <1>6 DEF Store!Borrow, Store!Gives, Stocking, Serving

LEMMA DiscardTakenDoes == ASSUME Care, NEW t \in Tasks, DiscardTaken(t) PROVE Store!Scrap(t)
<1>1. PICK next \in {"check", "failed"} : ReleaseSlot([pc EXCEPT ![t] = next])
  BY DEF DiscardTaken
<1>2. [pc EXCEPT ![t] = next] \in [Tasks -> PCs] /\ pc \in [Tasks -> PCs]
  BY DEF Care, Inv, TypeOK, PCs, Acquiring, Finished
<1>3. Wakes([pc EXCEPT ![t] = next])
  BY <1>1, <1>2, ReleaseSlotFacts DEF Wakes, Care, Inv
<1>4. /\ pc[t] \in {"discardExpired", "discardUnhealthy"}
      /\ phase' = [phase EXCEPT ![own[t]] = "ending"] /\ own' = [own EXCEPT ![t] = None]
      /\ idle' = idle /\ maint' = maint /\ leaked' = leaked /\ closed' = closed /\ pool' = pool
  BY DEF DiscardTaken, DropSession
<1>5. Opening' = Opening
  BY <1>2, <1>3, <1>4, OpeningSame DEF Wakes, OpeningAt
<1>6. own[t] # None /\ own[t] \in Conns /\ phase[own[t]] = "inHand"
  BY <1>4 DEF Care, Inv, TypeOK, Hands, Holding
<1>7. Back' = Back
  BY <1>4, <1>6, BackSame DEF BackAt, Care, Inv, TypeOK
<1> QED
  BY <1>4, <1>5, <1>6, <1>7 DEF Store!Scrap, Store!Gives, Store!FreesOrLoses, Stocking, Serving

LEMMA ReserveDoes == ASSUME Care, NEW t \in Tasks, Reserve(t) PROVE Store!Reserve(t) \/ Unseen
<1>1. /\ own' = own /\ idle' = idle /\ phase' = phase /\ maint' = maint /\ leaked' = leaked
      /\ closed' = closed /\ pool' = pool /\ pc[t] = "reserve"
  BY DEF Reserve, At
<1>2. Back' = Back /\ pc \in [Tasks -> PCs]
  BY <1>1, BackSame DEF Care, Inv, TypeOK, PCs
<1>3. CASE total >= MAX_SIZE
  <2>1. Opening' = Opening
    BY <1>1, <1>2, <1>3, OpeningSame DEF Reserve, Go, OpeningAt
  <2> QED
    BY <1>1, <1>2, <2>1, UnseenIf DEF Stocking, Serving
<1>4. CASE ~(total >= MAX_SIZE)
  <2>1. Opening' = Opening \cup {t}
    BY <1>1, <1>2, <1>4, OpeningGains DEF Reserve, Go, OpeningAt
  <2>2. Store!Empty(t)
    BY <1>1, EmptyHanded DEF Care, Holding, OpeningAt
  <2>3. pool # "gone"
    BY <1>1 DEF Care, Inv, Staged, Nobody, Acquiring
  <2>4. Store!Taken < MAX_SIZE
    BY <1>4, <2>3, TakenIsTotal, SizeAssumption DEF Care, Inv, TypeOK
  <2> QED
    BY <1>1, <1>2, <2>1, <2>2, <2>4 DEF Store!Reserve, Stocking, Serving
<1> QED
  BY <1>3, <1>4

LEMMA ConnectDoes ==
    ASSUME Care, NEW t \in Tasks, Connect(t) PROVE \E c \in Conns : Store!Make(t, c)
<1>1. PICK c \in Conns : NewConnection(c, "inHand") /\ own' = [own EXCEPT ![t] = c]
  BY DEF Connect
<1>2. /\ idle' = idle /\ maint' = maint /\ leaked' = leaked /\ closed' = closed /\ pool' = pool
      /\ pc[t] = "connect" /\ pc' = [pc EXCEPT ![t] = "held"]
  BY DEF Connect, At, Go
<1>3. phase[c] = "none" /\ phase' = [phase EXCEPT ![c] = "inHand"]
  BY <1>1 DEF NewConnection
<1>4. Back' = Back
  BY <1>3, BackSame DEF BackAt, Care, Inv, TypeOK
<1>5. Opening' = Opening \ {t} /\ t \in Opening
  BY <1>2, OpeningLoses DEF Opening, OpeningAt, Care, Inv, TypeOK
<1>6. c \notin Store!Present
  BY <1>3, PresentIsInCare DEF Care, InCare
<1> QED
  BY <1>1, <1>2, <1>4, <1>5, <1>6 DEF Store!Make, Store!Gives, Stocking, Serving

LEMMA ReleaseDoes == ASSUME Care, NEW t \in Tasks, Release(t) PROVE Store!GiveUp(t)
<1>1. [pc EXCEPT ![t] = "failed"] \in [Tasks -> PCs] /\ pc \in [Tasks -> PCs]
  BY DEF Care, Inv, TypeOK, PCs, Finished
<1>2. Wakes([pc EXCEPT ![t] = "failed"])
  BY <1>1, ReleaseSlotFacts DEF Release, Wakes, Care, Inv
<1>3. /\ own' = own /\ idle' = idle /\ phase' = phase /\ maint' = maint /\ leaked' = leaked
      /\ closed' = closed /\ pool' = pool /\ pc[t] = "release"
  BY DEF Release, At
<1>4. Opening' = Opening \ {t} /\ t \in Opening
  <2>1. pc'[t] \notin OpeningAt /\ t \in Opening
    BY <1>1, <1>2, <1>3 DEF Wakes, OpeningAt, Opening
  <2>2. \A u \in Tasks \ {t} : pc'[u] \in OpeningAt <=> pc[u] \in OpeningAt
    BY <1>1, <1>2 DEF Wakes, OpeningAt
  <2> QED
    BY <2>1, <2>2, OpeningLoses
<1>5. Back' = Back
  BY <1>3, BackSame
<1> QED
  BY <1>3, <1>4, <1>5 DEF Store!GiveUp, Store!FreesOrLoses, Stocking, Serving

LEMMA CancelDoes ==
    ASSUME Care, NEW t \in Tasks, Cancel(t) PROVE Store!Scrap(t) \/ Store!GiveUp(t) \/ Unseen
<1>1. /\ idle' = idle /\ maint' = maint /\ closed' = closed /\ pool' = pool
      /\ pc[t] \in Acquiring /\ own' = [own EXCEPT ![t] = None]
      /\ leaked' = leaked + (IF own[t] # None \/ pc[t] \in {"connect", "release"} THEN 1 ELSE 0)
      /\ phase' = IF own[t] = None THEN phase ELSE [phase EXCEPT ![own[t]] = "ending"]
  BY DEF Cancel
<1>2. /\ pc'[t] = "cancelled"
      /\ \A u \in Tasks \ {t} : \/ pc'[u] = pc[u]
                                \/ pc[u] = "waiting" /\ pc'[u] = "wokenOne"
  BY CancelFacts DEF Care
<1>3. Opening' = Opening \ {t}
  <2>1. \A u \in Tasks \ {t} : pc'[u] \in OpeningAt <=> pc[u] \in OpeningAt
    BY <1>2 DEF OpeningAt
  <2> QED
    BY <1>2, <2>1, OpeningLoses DEF OpeningAt
<1>4. leaked \in Nat /\ own \in [Tasks -> Conns \cup {None}] /\ phase \in [Conns -> Phases]
  BY DEF Care, Inv, TypeOK
<1>5. CASE own[t] # None
  <2>1. own[t] \in Conns /\ phase[own[t]] = "inHand" /\ pc[t] \in Holding
    BY <1>4, <1>5 DEF Care, Inv, Hands
  <2>2. t \notin Opening
    BY <2>1 DEF Opening, Holding
  <2>3. Opening' = Opening
    BY <1>3, <2>2
  <2>4. Back' = Back
    BY <1>1, <1>4, <1>5, <2>1, BackSame DEF BackAt
  <2> QED
    BY <1>1, <1>5, <2>3, <2>4 DEF Store!Scrap, Store!Gives, Store!FreesOrLoses, Stocking, Serving
<1>6. CASE own[t] = None
  <2>1. own' = own
    BY <1>1, <1>4, <1>6
  <2>2. Back' = Back
    BY <1>1, <1>6, BackSame
  <2>3. CASE pc[t] \in OpeningAt
    <3>1. t \in Opening
      BY <2>3 DEF Opening, OpeningAt
    <3> QED
      BY <1>1, <1>3, <2>1, <2>2, <2>3, <3>1
      DEF OpeningAt, Store!GiveUp, Store!FreesOrLoses, Stocking, Serving
  <2>4. CASE pc[t] \notin OpeningAt
    <3>1. Opening' = Opening /\ leaked' = leaked
      BY <1>1, <1>3, <1>4, <1>6, <2>4 DEF Opening, OpeningAt
    <3> QED
      BY <1>1, <2>1, <2>2, <3>1, UnseenIf DEF Stocking, Serving
  <2> QED
    BY <2>3, <2>4
<1> QED
  BY <1>5, <1>6

(* Of a connection.                                                         *)
LEMMA UseDoes ==
    ASSUME Care, UNCHANGED <<pool, closed, idle, pc, own, phase, maint, leaked>> PROVE Unseen
  BY UnseenIf DEF Back, Opening, Stocking, Serving

LEMMA ReturnDoes ==
    ASSUME Care, NEW t \in Tasks, Return(t) PROVE Store!GiveBack(t) \/ Store!Scrap(t)
<1>1. /\ idle' = idle /\ maint' = maint /\ closed' = closed /\ pool' = pool
      /\ pc[t] = "held" /\ pc' = [pc EXCEPT ![t] = "returned"] /\ own' = [own EXCEPT ![t] = None]
  BY DEF Return, At, Go
<1>2. own[t] # None /\ own[t] \in Conns /\ phase[own[t]] = "inHand"
  BY <1>1 DEF Care, Inv, TypeOK, Hands, Holding
<1>3. Opening' = Opening
  BY <1>1, OpeningSame DEF OpeningAt, Care, Inv, TypeOK
<1>4. phase \in [Conns -> Phases]
  BY DEF Care, Inv, TypeOK
<1>5. CASE phase' = [phase EXCEPT ![own[t]] = "recycle"] /\ leaked' = leaked
  <2>1. Back' = Back \cup {own[t]}
    BY <1>2, <1>4, <1>5, BackEntered DEF BackAt
  <2> QED
    BY <1>1, <1>2, <1>3, <1>5, <2>1 DEF Store!GiveBack, Store!Gives, Stocking, Serving
<1>6. CASE phase' = [phase EXCEPT ![own[t]] = "ending"] /\ leaked' = leaked + 1
  <2>1. Back' = Back
    BY <1>2, <1>4, <1>6, BackSame DEF BackAt
  <2> QED
    BY <1>1, <1>2, <1>3, <1>6, <2>1
    DEF Store!Scrap, Store!Gives, Store!FreesOrLoses, Stocking, Serving
<1> QED
  BY <1>5, <1>6 DEF Return, DropSession

LEMMA RecycleDoes ==
    ASSUME Care, NEW c \in Conns, Recycle(c) \/ Rollback(c) \/ ReturnExpired(c) \/ Ends(c)
    PROVE  Unseen
<1>1. /\ own' = own /\ idle' = idle /\ pc' = pc /\ maint' = maint /\ leaked' = leaked
      /\ closed' = closed /\ pool' = pool
  BY DEF Recycle, Rollback, ReturnExpired, Ends
<1>2. phase \in [Conns -> Phases]
  BY DEF Care, Inv, TypeOK
<1>3. Back' = Back
  <2>1. \A d \in Conns : phase'[d] \in BackAt <=> phase[d] \in BackAt
    BY <1>2 DEF Recycle, Rollback, ReturnExpired, Ends, BackAt
  <2> QED
    BY <2>1, BackSame
<1> QED
  BY <1>1, <1>3, UnseenIf DEF Opening, Stocking, Serving

LEMMA ReturnIdleDoes ==
    ASSUME Care, NEW c \in Conns, ReturnIdle(c) PROVE Store!Shelve(c) \/ Store!Retire(c)
<1>1. /\ own' = own /\ leaked' = leaked /\ closed' = closed /\ pool' = pool
      /\ phase[c] = "return" /\ MaintAfter(c)
  BY DEF ReturnIdle
<1>2. c \in Back /\ pool # "gone" /\ Stocking' = Stocking
  BY <1>1 DEF Back, Care, Inv, Staged, Nobody, MaintAfter, Stocking
<1>3. phase \in [Conns -> Phases]
  BY DEF Care, Inv, TypeOK
<1>4. Opening' = Opening
  BY ReturnIdleFacts, OpeningSame DEF Care, Wakes, OpeningAt
<1>5. CASE closed /\ phase' = [phase EXCEPT ![c] = "ending"] /\ idle' = idle
  <2>1. Back' = Back \ {c}
    BY <1>3, <1>5, BackLeft DEF BackAt
  <2> QED
    BY <1>1, <1>2, <1>4, <1>5, <2>1 DEF Store!Retire, Serving
<1>6. CASE ~closed /\ phase' = [phase EXCEPT ![c] = "idle"] /\ idle' = Append(idle, c)
  <2>1. Back' = Back \ {c}
    BY <1>3, <1>6, BackLeft DEF BackAt
  <2> QED
    BY <1>1, <1>2, <1>4, <1>6, <2>1 DEF Store!Shelve, Serving
<1> QED
  BY <1>5, <1>6, ReturnIdleFacts DEF Care

LEMMA DiscardDoes == ASSUME Care, NEW c \in Conns, Discard(c) PROVE Store!Retire(c)
<1>1. /\ own' = own /\ leaked' = leaked /\ closed' = closed /\ pool' = pool /\ idle' = idle
      /\ phase[c] = "discard" /\ MaintAfter(c) /\ phase' = [phase EXCEPT ![c] = "ending"]
  BY DEF Discard, DropSession
<1>2. c \in Back /\ Stocking' = Stocking
  BY <1>1 DEF Back, MaintAfter, Stocking
<1>3. Back' = Back \ {c}
  BY <1>1, BackLeft DEF BackAt, Care, Inv, TypeOK
<1>4. pc \in [Tasks -> PCs]
  BY DEF Care, Inv, TypeOK, PCs
<1>5. Opening' = Opening
  BY <1>4, ReleaseSlotFacts, OpeningSame DEF Discard, Care, Inv, OpeningAt
<1> QED
  BY <1>1, <1>2, <1>3, <1>5 DEF Store!Retire, Serving

(* Of maintenance, Pool::new and Pool::close.                               *)
LEMMA TickDoes == ASSUME Care, Tick PROVE Store!Clear
<1>1. PICK gone \in SUBSET (IF Expiry THEN IdleConns ELSE {}) :
          /\ idle' = Keep(idle, gone)
          /\ phase' = [c \in Conns |-> IF c \in gone THEN "ending" ELSE phase[c]]
  BY DEF Tick
<1>2. /\ own' = own /\ leaked' = leaked /\ closed' = closed /\ pool' = pool /\ pc' = pc
      /\ Stocking' = Stocking
  BY DEF Tick, Stocking
<1>3. \A c \in gone : c \in Conns /\ phase[c] = "idle"
  BY <1>1, IdleAreConns DEF IdleConns, Members, Care, Inv, Shelved
<1>4. Back' = Back
  BY <1>1, <1>3, BackSame DEF BackAt
<1>5. Store!InOrder(Keep(idle, gone), idle)
  BY KeepFacts DEF Care, Inv, TypeOK, Shelved
<1>6. Store!InOrder(idle', idle)
  BY <1>1, <1>5
<1> QED
  BY <1>2, <1>4, <1>6 DEF Store!Clear, Opening, Serving

LEMMA NothingInOrder == ASSUME NEW q PROVE Store!InOrder(<<>>, q)
  BY DEF Store!InOrder

LEMMA StopDoes == ASSUME Care, Stop PROVE Unseen
  BY UnseenIf DEF Stop, Back, Opening, Stocking, Serving

LEMMA EnsureDoes == ASSUME Care, Ensure PROVE Store!Restock \/ Unseen
<1>1. /\ own' = own /\ idle' = idle /\ leaked' = leaked /\ closed' = closed
      /\ Back' = Back /\ Opening' = Opening /\ maint.pc = "ensure"
  BY DEF Ensure, Back, Opening
<1>2. pool # "gone"
  BY <1>1 DEF Care, Inv, Staged, Nobody
<1>3. CASE closed \/ Len(idle) >= MIN_IDLE \/ total >= MAX_SIZE
  BY <1>1, <1>2, <1>3, UnseenIf DEF Ensure, Stocking, Serving
<1>4. CASE ~(closed \/ Len(idle) >= MIN_IDLE \/ total >= MAX_SIZE)
  <2>1. Store!Taken < MAX_SIZE
    BY <1>2, <1>4, TakenIsTotal, SizeAssumption DEF Care, Inv, TypeOK
  <2> QED
    BY <1>1, <1>2, <1>4, <2>1 DEF Ensure, Store!Restock, Stocking, Serving
<1> QED
  BY <1>3, <1>4

LEMMA EnsureConnectsDoes == ASSUME Care, EnsureConnects PROVE \E c \in Conns : Store!Stock(c)
<1>1. PICK c \in Conns : NewConnection(c, "return") /\ maint' = [pc |-> "returning", conn |-> c]
  BY DEF EnsureConnects
<1>2. /\ own' = own /\ idle' = idle /\ leaked' = leaked /\ closed' = closed /\ pool' = pool
      /\ pc' = pc /\ maint.pc = "connect"
  BY DEF EnsureConnects
<1>3. phase[c] = "none" /\ phase' = [phase EXCEPT ![c] = "return"]
  BY <1>1 DEF NewConnection
<1>4. Back' = Back \cup {c}
  BY <1>3, BackEntered DEF BackAt, Care, Inv, TypeOK
<1>5. c \notin Store!Present
  BY <1>3, PresentIsInCare DEF Care, InCare
<1> QED
  BY <1>1, <1>2, <1>4, <1>5 DEF Store!Stock, Stocking, Serving, Opening

LEMMA EnsureFailsDoes == ASSUME Care, EnsureFails PROVE Store!StockFails \/ Store!End
<1>1. own' = own /\ leaked' = leaked /\ closed' = closed /\ maint.pc = "connect"
  BY DEF EnsureFails
<1>2. pc \in [Tasks -> PCs]
  BY DEF Care, Inv, TypeOK, PCs
<1>3. Opening' = Opening
  BY <1>2, ReleaseSlotFacts, OpeningSame DEF EnsureFails, Care, Inv, OpeningAt
<1>4. CASE pool = "starting"
  <2>1. /\ pool' = "gone" /\ idle' = <<>> /\ maint'.pc = "stopped"
        /\ phase' = [c \in Conns |-> IF phase[c] = "idle" THEN "ending" ELSE phase[c]]
    BY <1>4 DEF EnsureFails
  <2>2. Back' = Back
    BY <2>1, BackSame DEF BackAt
  <2>3. \A t \in Tasks : pc[t] = "new" /\ own[t] = None
    BY <1>4 DEF Care, Inv, Staged, OnlyEnsure, Hands, Holding
  <2>4. \A c \in Conns : phase[c] \in {"none", "idle", "ending"}
    BY <1>1, <1>4 DEF Care, Inv, Staged, OnlyEnsure
  <2>5. Opening = {} /\ Back = {}
    BY <2>3, <2>4 DEF Opening, Back
  <2>6. Store!Present = Store!OnShelf
    BY <2>3, <2>5 DEF Store!Present
  <2> QED
    BY <1>1, <1>3, <2>1, <2>2, <2>5, <2>6 DEF Store!End, Stocking, Serving
<1>5. CASE pool # "starting"
  <2>1. pool' = pool /\ idle' = idle /\ phase' = phase /\ maint'.pc = "sleep"
    BY <1>5 DEF EnsureFails
  <2>2. Back' = Back
    BY <2>1, BackSame
  <2> QED
    BY <1>1, <1>3, <2>1, <2>2 DEF Store!StockFails, Stocking, Serving
<1> QED
  BY <1>4, <1>5

LEMMA CloseDoes == ASSUME Care, Close PROVE Store!Close
<1>1. /\ own' = own /\ idle' = idle /\ phase' = phase /\ maint' = maint /\ leaked' = leaked
      /\ closed' = TRUE
  BY DEF Close
<1>2. pc \in [Tasks -> PCs]
  BY DEF Care, Inv, TypeOK, PCs
<1>3. Opening' = Opening
  BY <1>2, NotifyWaitersFacts, OpeningSame DEF Close, OpeningAt
<1> QED
  BY <1>1, <1>3, BackSame DEF Store!Close, Stocking, Serving

LEMMA CloseDrainsDoes == ASSUME Care, CloseDrains PROVE Store!Clear
<1>1. /\ own' = own /\ leaked' = leaked /\ closed' = closed /\ pool' = pool /\ pc' = pc
      /\ maint' = maint /\ idle' = <<>>
      /\ phase' = [c \in Conns |-> IF c \in IdleConns THEN "ending" ELSE phase[c]]
  BY DEF CloseDrains
<1>2. \A c \in Conns : c \in IdleConns => phase[c] = "idle"
  BY DEF IdleConns, Members, Care, Inv, Shelved
<1>3. Back' = Back
  BY <1>1, <1>2, BackSame DEF BackAt
<1>4. Store!InOrder(idle', idle)
  BY <1>1, NothingInOrder
<1> QED
  BY <1>1, <1>3, <1>4 DEF Store!Clear, Opening, Stocking, Serving

LEMMA DropPoolDoes == ASSUME Care, DropPool PROVE Store!End
<1>1. /\ own' = own /\ leaked' = leaked /\ pc' = pc /\ maint' = maint
      /\ pool' = "gone" /\ idle' = <<>> /\ maint.pc \in {"sleep", "stopped"}
      /\ phase' = [c \in Conns |-> IF phase[c] = "idle" THEN "ending" ELSE phase[c]]
      /\ \A t \in Tasks : pc[t] \notin Acquiring \cup {"held"}
      /\ \A c \in Conns : phase[c] \in {"none", "idle", "ending"}
  BY DEF DropPool
<1>2. Back' = Back /\ Opening' = Opening
  BY <1>1, BackSame DEF BackAt, Opening
<1>3. \A t \in Tasks : own[t] = None
  BY <1>1 DEF Care, Inv, Hands, Holding, Acquiring
<1>4. Opening = {} /\ Back = {}
  BY <1>1 DEF Opening, Back, Acquiring
<1>5. Store!Present = Store!OnShelf
  BY <1>3, <1>4 DEF Store!Present
<1> QED
  BY <1>1, <1>2, <1>4, <1>5 DEF Store!End, Stocking, Serving

(* Every step is a step of the store, or one that it does not see.          *)
LEMMA NextLends == ASSUME Care, [Next]_vars PROVE Store!LNext \/ Unseen
<1> USE DEF Store!LNext
<1>1. ASSUME NEW t \in Tasks, Start(t) PROVE Unseen
  BY <1>1, StartDoes
<1>2. ASSUME NEW t \in Tasks, AcquireStep(t) PROVE Store!LNext \/ Unseen
  <2> HIDE DEF Store!LNext
  <2>1. CASE Check(t) \/ TakeNothing(t) \/ CheckHealth(t) \/ ConnectFails(t)
    BY <2>1, StartDoes
  <2>2. CASE Register(t) \/ TimeOut(t)
    BY <2>2, WaitDoes
  <2>3. CASE TakeIdle(t)
    BY <2>3, TakeIdleDoes DEF Store!LNext
  <2>4. CASE DiscardTaken(t)
    BY <2>4, DiscardTakenDoes DEF Store!LNext
  <2>5. CASE Reserve(t)
    BY <2>5, ReserveDoes DEF Store!LNext
  <2>6. CASE Connect(t)
    BY <2>6, ConnectDoes DEF Store!LNext
  <2>7. CASE Release(t)
    BY <2>7, ReleaseDoes DEF Store!LNext
  <2> QED
    BY <1>2, <2>1, <2>2, <2>3, <2>4, <2>5, <2>6, <2>7 DEF AcquireStep
<1>3. ASSUME NEW t \in Tasks, Cancel(t) PROVE Store!LNext \/ Unseen
  BY <1>3, CancelDoes
<1>4. ASSUME NEW t \in Tasks, Return(t) PROVE Store!LNext
  BY <1>4, ReturnDoes
<1>5. ASSUME NEW t \in Tasks, NEW s, UseFails(t) \/ Use(t, s) \/ UseAbandoned(t, s) PROVE Unseen
  BY <1>5, UseDoes DEF UseFails, Use, UseAbandoned
<1>6. ASSUME NEW c \in Conns, StatusArrives(c) PROVE Unseen
  BY <1>6, UseDoes DEF StatusArrives
<1>7. ASSUME NEW c \in Conns, ConnStep(c) PROVE Store!LNext \/ Unseen
  <2> HIDE DEF Store!LNext
  <2>1. CASE Recycle(c) \/ Rollback(c) \/ ReturnExpired(c) \/ Ends(c)
    BY <2>1, RecycleDoes
  <2>2. CASE ReturnIdle(c)
    BY <2>2, ReturnIdleDoes DEF Store!LNext
  <2>3. CASE Discard(c)
    BY <2>3, DiscardDoes DEF Store!LNext
  <2> QED
    BY <1>7, <2>1, <2>2, <2>3 DEF ConnStep
<1>8. ASSUME MaintStep PROVE Store!LNext \/ Unseen
  BY <1>8, TickDoes, StopDoes, EnsureDoes, EnsureConnectsDoes, EnsureFailsDoes DEF MaintStep
<1>9. ASSUME Close \/ CloseDrains \/ DropPool PROVE Store!LNext
  BY <1>9, CloseDoes, CloseDrainsDoes, DropPoolDoes
<1>10. ASSUME UNCHANGED vars PROVE Unseen
  BY <1>10, UseDoes DEF vars
<1> HIDE DEF Store!LNext
<1> QED
  BY <1>1, <1>2, <1>3, <1>4, <1>5, <1>6, <1>7, <1>8, <1>9, <1>10 DEF Next, Quiescent

LEMMA InitLends == ASSUME Init PROVE Store!LInit
<1>1. Back = {} /\ Opening = {} /\ ~Stocking /\ Serving
  BY DEF Init, Back, Opening, Stocking, Serving
<1> QED
  BY <1>1 DEF Init, Store!LInit

(* The pool implements Lending: whatever callers drop and however recycling,*)
(* maintenance and close interleave, for any number of callers, sessions    *)
(* and slots.                                                               *)
THEOREM PoolLends == Spec => Lends
<1>1. Inv /\ Slots /\ [Next]_vars => [Store!LNext]_Store!lvars
  BY NextLends DEF Care, Unseen
<1>2. Init => Store!LInit
  BY InitLends
<1> QED
  BY <1>1, <1>2, Invariance, PTL DEF Spec, Lends, Store!LSpec
=============================================================================
