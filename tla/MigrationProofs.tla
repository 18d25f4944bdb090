--------------------------- MODULE MigrationProofs ---------------------------
(***************************************************************************)
(* Proofs about MigrationRunner, for any runners, sources and bounds.      *)
(*                                                                         *)
(* Part one, whatever connections are used again: the advisory lock has    *)
(* one holder, who is the only one past "lock"; a call that was not        *)
(* dropped leaves no transaction, and no lock whose unlock was accepted.   *)
(*                                                                         *)
(* Part two, when no connection is used again with its transaction left    *)
(* open (ReuseOpen is FALSE): the rows are always a prefix of one catalog, *)
(* a running plan starts where the rows end, scripts agree with records,   *)
(* and the runners implement MigrationHistory.                             *)
(***************************************************************************)
EXTENDS MigrationRunner, SequenceFacts, TLAPS

(* Where a call has the lock, where its connection is outside a            *)
(* transaction and where it is inside one.                                 *)
Past == {"load", "alone", "begin", "script", "record", "commit", "rollback", "unlock"}
Outside == {"ensure", "lock", "load", "alone", "begin", "unlock"}
Inside == {"script", "record", "commit"}

Marks == {"no", "refused", "dropped"}

Shaped(c) ==
    c = [pc |-> c.pc, source |-> c.source, dir |-> c.dir, steps |-> c.steps,
         plan |-> c.plan, ok |-> c.ok, clean |-> c.clean, before |-> c.before]

Shapes ==
    /\ tx \in [Runners -> {"none", "open", "failed"}]
    /\ locks \in [Runners -> Nat]
    /\ waiting \in [Runners -> BOOLEAN]
    /\ left \in [Runners -> Marks]
    /\ work = [r \in Runners |-> work[r]]
    /\ call = [r \in Runners |-> call[r]]
    /\ \A r \in Runners : Shaped(call[r]) /\ call[r].pc \in PCs

Exclusive == \A r, q \in Runners : locks[r] > 0 /\ locks[q] > 0 => r = q

Locked(r) ==
    /\ call[r].pc \in Past => locks[r] > 0
    /\ waiting[r] => call[r].pc \in {"lock", "idle"}
    /\ call[r].pc = "lock" => waiting[r]
    /\ tx[r] = "none" => work[r] = NoWork

(* A connection that may not be used again with its transaction left open, *)
(* or that no call was dropped on, is where the statement expects it.      *)
Ready(r) ==
    left[r] # "dropped" \/ ~ReuseOpen =>
        /\ call[r].pc \in Outside => tx[r] = "none"
        /\ call[r].pc \in Inside => tx[r] = "open"

Tidy(r) ==
    /\ left[r] = "no" => locks[r] = IF call[r].pc \in Past THEN 1 ELSE 0
    /\ left[r] # "dropped" => /\ call[r].pc = "idle" => tx[r] = "none"
                              /\ waiting[r] => call[r].pc = "lock"

LockInv == Shapes /\ Exclusive /\ \A r \in Runners : Locked(r) /\ Ready(r) /\ Tidy(r)

-----------------------------------------------------------------------------
(* How a step changes a call *)

(* Runner r's call becomes c, the others stay.                             *)
Becomes(r, c) ==
    /\ call' = [q \in Runners |-> call'[q]]
    /\ call'[r] = c
    /\ \A q \in Runners \ {r} : call'[q] = call[q]

With(c, pc, ok, plan, before) ==
    [pc |-> pc, source |-> c.source, dir |-> c.dir, steps |-> c.steps, plan |-> plan,
     ok |-> ok, clean |-> c.clean, before |-> before]

LEMMA CallChanges ==
    ASSUME Shapes, NEW r \in Runners
    PROVE  /\ \A c : call' = [call EXCEPT ![r] = c] => Becomes(r, c)
           /\ \A pc : Goto(r, pc) =>
                Becomes(r, With(call[r], pc, call[r].ok, call[r].plan, call[r].before))
           /\ Bail(r) => Becomes(r, With(call[r], "unlock", FALSE, call[r].plan, call[r].before))
           /\ Return(r) => Becomes(r, Idle)
           /\ \A p, n : Continue(r, p, n) => Becomes(r, With(call[r], NextStep(p), call[r].ok, p, n))
<1> DEFINE c == call[r]
<1>1. call = [q \in Runners |-> call[q]] /\ Shaped(c)
  BY DEF Shapes
<1>2. \A d : call' = [call EXCEPT ![r] = d] => Becomes(r, d)
  BY <1>1 DEF Becomes
<1>3. ASSUME NEW pc, Goto(r, pc) PROVE Becomes(r, With(c, pc, c.ok, c.plan, c.before))
  <2>1. call' = [call EXCEPT ![r] = [c EXCEPT !.pc = pc]]
    BY <1>3 DEF Goto
  <2>2. [c EXCEPT !.pc = pc] = With(c, pc, c.ok, c.plan, c.before)
    BY <1>1 DEF Shaped, With
  <2> QED
    BY <2>1, <2>2, <1>2
<1>4. ASSUME Bail(r) PROVE Becomes(r, With(c, "unlock", FALSE, c.plan, c.before))
  <2>1. call' = [call EXCEPT ![r] = [[c EXCEPT !.pc = "unlock"] EXCEPT !.ok = FALSE]]
    BY <1>4, <1>1 DEF Bail
  <2>2. [[c EXCEPT !.pc = "unlock"] EXCEPT !.ok = FALSE] = With(c, "unlock", FALSE, c.plan, c.before)
    <3>1. [c EXCEPT !.pc = "unlock"] = With(c, "unlock", c.ok, c.plan, c.before)
      BY <1>1 DEF Shaped, With
    <3>2. [With(c, "unlock", c.ok, c.plan, c.before) EXCEPT !.ok = FALSE]
            = With(c, "unlock", FALSE, c.plan, c.before)
      <4>1. \A x, y : [With(c, "unlock", x, c.plan, c.before) EXCEPT !.ok = y]
                        = With(c, "unlock", y, c.plan, c.before)
        BY DEF With
      <4> QED
        BY <4>1, Zenon
    <3> QED
      BY <3>1, <3>2, Zenon
  <2> QED
    BY <2>1, <2>2, <1>2
<1>5. ASSUME Return(r) PROVE Becomes(r, Idle)
  BY <1>5, <1>2 DEF Return
<1>6. ASSUME NEW p, NEW n, Continue(r, p, n) PROVE Becomes(r, With(c, NextStep(p), c.ok, p, n))
  <2>1. call' = [call EXCEPT ![r] = With(c, NextStep(p), c.ok, p, n)]
    BY <1>6 DEF Continue, With
  <2> QED
    BY <2>1, <1>2, Zenon
<1> QED
  BY <1>2, <1>3, <1>4, <1>5, <1>6

LEMMA WithIsShaped ==
    /\ \A c, pc, ok, plan, before :
         /\ Shaped(With(c, pc, ok, plan, before))
         /\ With(c, pc, ok, plan, before).pc = pc
         /\ With(c, pc, ok, plan, before).ok = ok
         /\ With(c, pc, ok, plan, before).plan = plan
         /\ With(c, pc, ok, plan, before).before = before
         /\ With(c, pc, ok, plan, before).source = c.source
         /\ With(c, pc, ok, plan, before).dir = c.dir
         /\ With(c, pc, ok, plan, before).steps = c.steps
         /\ With(c, pc, ok, plan, before).clean = c.clean
    /\ Shaped(Idle) /\ Idle.pc = "idle"
  BY DEF With, Shaped, Idle

(* A step of r leaves the call c, the transaction t with its work w, k     *)
(* locks, the request a and the mark l behind, and the other runners be.   *)
Leaves(r, c, t, w, k, a, l) ==
    /\ Becomes(r, c)
    /\ tx' = [tx EXCEPT ![r] = t]
    /\ work' = [work EXCEPT ![r] = w]
    /\ locks' = [locks EXCEPT ![r] = k]
    /\ waiting' = [waiting EXCEPT ![r] = a]
    /\ left' = [left EXCEPT ![r] = l]

Typed(c, t, k, a, l) ==
    /\ Shaped(c) /\ c.pc \in PCs
    /\ t \in {"none", "open", "failed"} /\ k \in Nat /\ a \in BOOLEAN /\ l \in Marks

(* Nobody else's state changes.                                            *)
Local(r) ==
    \A q \in Runners \ {r} :
        /\ call'[q] = call[q] /\ tx'[q] = tx[q] /\ work'[q] = work[q]
        /\ locks'[q] = locks[q] /\ waiting'[q] = waiting[q] /\ left'[q] = left[q]

LEMMA LeavesFacts ==
    ASSUME Shapes, NEW r \in Runners, NEW c, NEW t, NEW w, NEW k, NEW a, NEW l,
           Leaves(r, c, t, w, k, a, l), Typed(c, t, k, a, l)
    PROVE  /\ Shapes' /\ Local(r)
           /\ call'[r] = c /\ tx'[r] = t /\ work'[r] = w
           /\ locks'[r] = k /\ waiting'[r] = a /\ left'[r] = l
<1>1. /\ call' = [q \in Runners |-> call'[q]] /\ call'[r] = c
      /\ \A q \in Runners \ {r} : call'[q] = call[q]
  BY DEF Leaves, Becomes
<1>2. /\ tx' \in [Runners -> {"none", "open", "failed"}] /\ tx'[r] = t
      /\ \A q \in Runners \ {r} : tx'[q] = tx[q]
  BY DEF Leaves, Shapes, Typed
<1>3. /\ work' = [q \in Runners |-> work'[q]] /\ work'[r] = w
      /\ \A q \in Runners \ {r} : work'[q] = work[q]
  BY DEF Leaves, Shapes, Typed
<1>4. /\ locks' \in [Runners -> Nat] /\ locks'[r] = k
      /\ \A q \in Runners \ {r} : locks'[q] = locks[q]
  BY DEF Leaves, Shapes, Typed
<1>5. /\ waiting' \in [Runners -> BOOLEAN] /\ waiting'[r] = a
      /\ \A q \in Runners \ {r} : waiting'[q] = waiting[q]
  BY DEF Leaves, Shapes, Typed
<1>6. /\ left' \in [Runners -> Marks] /\ left'[r] = l
      /\ \A q \in Runners \ {r} : left'[q] = left[q]
  BY DEF Leaves, Shapes, Typed
<1>7. \A q \in Runners : Shaped(call'[q]) /\ call'[q].pc \in PCs
  <2>1. \A q \in Runners : Shaped(call[q]) /\ call[q].pc \in PCs
    BY DEF Shapes
  <2> QED
    BY <2>1, <1>1 DEF Typed
<1>8. Shapes'
  BY <1>1, <1>2, <1>3, <1>4, <1>5, <1>6, <1>7 DEF Shapes, Shaped
<1>9. Local(r)
  BY <1>1, <1>2, <1>3, <1>4, <1>5, <1>6 DEF Local
<1> QED
  BY <1>1, <1>2, <1>3, <1>4, <1>5, <1>6, <1>8, <1>9

(* What r's new state has to satisfy.                                      *)
Keeps(r, c, t, w, k, a, l) ==
    /\ c.pc \in Past => k > 0
    /\ a => c.pc \in {"lock", "idle"}
    /\ c.pc = "lock" => a
    /\ t = "none" => w = NoWork
    /\ (l # "dropped" \/ ~ReuseOpen) =>
          /\ c.pc \in Outside => t = "none"
          /\ c.pc \in Inside => t = "open"
    /\ l = "no" => k = IF c.pc \in Past THEN 1 ELSE 0
    /\ l # "dropped" => /\ c.pc = "idle" => t = "none"
                        /\ a => c.pc = "lock"
    /\ k > 0 => locks[r] > 0 \/ \A q \in Runners \ {r} : locks[q] = 0

LEMMA LeavesKeeps ==
    ASSUME LockInv, NEW r \in Runners, NEW c, NEW t, NEW w, NEW k, NEW a, NEW l,
           Leaves(r, c, t, w, k, a, l), Typed(c, t, k, a, l), Keeps(r, c, t, w, k, a, l)
    PROVE  LockInv'
<1>1. Shapes
  BY DEF LockInv
<1>2. /\ Shapes' /\ Local(r)
      /\ call'[r] = c /\ tx'[r] = t /\ work'[r] = w
      /\ locks'[r] = k /\ waiting'[r] = a /\ left'[r] = l
  BY <1>1, LeavesFacts
<1>3. ASSUME NEW q \in Runners PROVE Locked(q)'
  <2>1. Locked(q)
    BY DEF LockInv
  <2>2. CASE q = r
    BY <1>2, <2>2 DEF Locked, Keeps, NoWork, Versions, Catalogs
  <2>3. CASE q # r
    BY <1>2, <2>1, <2>3 DEF Locked, Local, NoWork
  <2> QED
    BY <2>2, <2>3
<1>4. ASSUME NEW q \in Runners PROVE Ready(q)'
  <2>1. Ready(q)
    BY DEF LockInv
  <2>2. CASE q = r
    BY <1>2, <2>2 DEF Ready, Keeps
  <2>3. CASE q # r
    BY <1>2, <2>1, <2>3 DEF Ready, Local
  <2> QED
    BY <2>2, <2>3
<1>5. ASSUME NEW q \in Runners PROVE Tidy(q)'
  <2>1. Tidy(q)
    BY DEF LockInv
  <2>2. CASE q = r
    BY <1>2, <2>2 DEF Tidy, Keeps
  <2>3. CASE q # r
    BY <1>2, <2>1, <2>3 DEF Tidy, Local
  <2> QED
    BY <2>2, <2>3
<1>6. Exclusive'
  <2>1. Exclusive /\ locks \in [Runners -> Nat] /\ k \in Nat
    BY DEF LockInv, Shapes, Typed
  <2>2. \A q \in Runners \ {r} : locks'[q] = locks[q]
    BY <1>2 DEF Local
  <2> QED
    BY <1>2, <2>1, <2>2 DEF Exclusive, Keeps
<1> QED
  BY <1>2, <1>3, <1>4, <1>5, <1>6 DEF LockInv

-----------------------------------------------------------------------------
(* What each statement leaves *)

Gone(r, pc) == With(call[r], pc, call[r].ok, call[r].plan, call[r].before)
Bailed(r) == With(call[r], "unlock", FALSE, call[r].plan, call[r].before)
Started(s, d, clean) ==
    [pc |-> "ensure", source |-> s, dir |-> d.dir, steps |-> d.steps, plan |-> <<>>,
     ok |-> TRUE, clean |-> clean, before |-> 0]
Failing(t) == IF t = "none" THEN "none" ELSE "failed"
Directions == {[dir |-> "up", steps |-> 0]} \cup {[dir |-> "down", steps |-> n] : n \in 1..MaxSteps}

LEMMA SameLeft ==
    ASSUME Shapes, NEW r \in Runners
    PROVE  /\ tx = [tx EXCEPT ![r] = tx[r]] /\ work = [work EXCEPT ![r] = work[r]]
           /\ locks = [locks EXCEPT ![r] = locks[r]]
           /\ waiting = [waiting EXCEPT ![r] = waiting[r]]
           /\ left = [left EXCEPT ![r] = left[r]]
           /\ UNCHANGED call => Becomes(r, call[r])
  BY DEF Shapes, Becomes

LEMMA StartLeaves ==
    ASSUME Shapes, NEW r \in Runners, Start(r)
    PROVE  /\ call[r].pc = "idle" /\ ~waiting[r] /\ (tx[r] = "none" \/ ReuseOpen)
           /\ UNCHANGED db
           /\ \E s \in Sources, d \in Directions, clean \in BOOLEAN :
                Leaves(r, Started(s, d, clean), tx[r], work[r], locks[r], waiting[r], left[r])
<1> DEFINE clean == tx[r] = "none" /\ locks[r] = 0
<1>1. PICK s \in Sources, d \in Directions : call' = [call EXCEPT ![r] = Started(s, d, clean)]
  BY DEF Start, Directions, Started
<1>3. Becomes(r, Started(s, d, clean))
  BY <1>1, CallChanges, Zenon
<1>4. UNCHANGED <<tx, work, locks, waiting, left>>
  BY DEF Start, session
<1>5. clean \in BOOLEAN
  OBVIOUS
<1>6. Leaves(r, Started(s, d, clean), tx[r], work[r], locks[r], waiting[r], left[r])
  <2> HIDE DEF clean
  <2> QED
    BY <1>3, <1>4, SameLeft DEF Leaves
<1>7. call[r].pc = "idle" /\ ~waiting[r] /\ (tx[r] = "none" \/ ReuseOpen) /\ UNCHANGED db
  BY DEF Start, At
<1> QED
  <2> HIDE DEF clean
  <2> QED
    BY <1>5, <1>6, <1>7

LEMMA EnsureLeaves ==
    ASSUME Shapes, NEW r \in Runners, Ensure(r)
    PROVE  /\ call[r].pc = "ensure" /\ UNCHANGED db
           /\ \/ Leaves(r, Gone(r, "lock"), tx[r], work[r], locks[r], TRUE, left[r])
              \/ Leaves(r, Idle, Failing(tx[r]), work[r], locks[r], waiting[r], left[r])
<1>1. CASE Goto(r, "lock") /\ waiting' = [waiting EXCEPT ![r] = TRUE] /\ UNCHANGED <<db, tx, work>>
  BY <1>1, CallChanges, SameLeft DEF Ensure, At, Leaves, Gone
<1>2. CASE Refused(r) /\ Return(r) /\ UNCHANGED waiting
  BY <1>2, CallChanges, SameLeft DEF Ensure, At, Leaves, Refused, Failing
<1> QED
  BY <1>1, <1>2 DEF Ensure

LEMMA AcquireLeaves ==
    ASSUME Shapes, NEW r \in Runners, Acquire(r)
    PROVE  /\ waiting[r] /\ UNCHANGED db
           /\ \A q \in Runners \ {r} : locks[q] = 0
           /\ \/ /\ call[r].pc = "lock"
                 /\ Leaves(r, Gone(r, "load"), tx[r], work[r], locks[r] + 1, FALSE, left[r])
              \/ /\ call[r].pc # "lock"
                 /\ Leaves(r, call[r], tx[r], work[r], locks[r] + 1, FALSE, left[r])
<1>1. CASE At(r, "lock")
  <2>1. Goto(r, "load")
    BY <1>1 DEF Acquire
  <2> QED
    BY <1>1, <2>1, CallChanges, SameLeft DEF Acquire, At, Leaves, Gone
<1>2. CASE ~At(r, "lock")
  BY <1>2, SameLeft DEF Acquire, At, Leaves
<1> QED
  BY <1>1, <1>2

LEMMA AcquireFailsLeaves ==
    ASSUME Shapes, NEW r \in Runners, AcquireFails(r)
    PROVE  /\ call[r].pc = "lock" /\ UNCHANGED db
           /\ Leaves(r, Idle, Failing(tx[r]), work[r], locks[r], FALSE, left[r])
<1>1. Becomes(r, Idle)
  BY CallChanges DEF AcquireFails
<1> QED
  BY <1>1, SameLeft DEF AcquireFails, At, Leaves, Refused, Failing

LEMMA LoadLeaves ==
    ASSUME Shapes, NEW r \in Runners, LoadAndPlan(r)
    PROVE  /\ call[r].pc = "load" /\ UNCHANGED db
           /\ \/ /\ PlanOf(r).ok /\ tx[r] # "failed"
                 /\ Leaves(r, With(call[r], NextStep(PlanOf(r).value), call[r].ok, PlanOf(r).value,
                                   Len(Applied(r))),
                           tx[r], work[r], locks[r], waiting[r], left[r])
              \/ Leaves(r, Bailed(r), tx[r], work[r], locks[r], waiting[r], left[r])
              \/ Leaves(r, Bailed(r), Failing(tx[r]), work[r], locks[r], waiting[r], left[r])
<1> DEFINE p == PlanOf(r)
           n == Len(Applied(r))
           c == call[r]
           d == With(c, NextStep(p.value), c.ok, p.value, n)
<1>1. call[r].pc = "load" /\ UNCHANGED db /\ UNCHANGED <<locks, waiting, left>>
  BY DEF LoadAndPlan, At, Refused
<1>2. ASSUME p.ok, tx[r] # "failed", UNCHANGED <<tx, work>>, Continue(r, p.value, n)
      PROVE  Leaves(r, d, tx[r], work[r], locks[r], waiting[r], left[r])
  BY <1>1, <1>2, CallChanges, SameLeft DEF Leaves
<1>3. ASSUME Bail(r), UNCHANGED <<tx, work>>
      PROVE  Leaves(r, Bailed(r), tx[r], work[r], locks[r], waiting[r], left[r])
  BY <1>1, <1>3, CallChanges, SameLeft DEF Leaves, Bailed
<1>4. ASSUME Bail(r), Refused(r)
      PROVE  Leaves(r, Bailed(r), Failing(tx[r]), work[r], locks[r], waiting[r], left[r])
  BY <1>1, <1>4, CallChanges, SameLeft DEF Leaves, Bailed, Refused, Failing
<1>5. \/ /\ p.ok /\ tx[r] # "failed" /\ UNCHANGED <<tx, work>>
         /\ Continue(r, p.value, n)
      \/ Bail(r) /\ UNCHANGED <<tx, work>>
      \/ Bail(r) /\ Refused(r)
  <2> HIDE DEF p, n
  <2>1. \/ /\ tx[r] # "failed" /\ UNCHANGED <<tx, work>>
           /\ IF p.ok THEN Continue(r, p.value, n) ELSE Bail(r)
        \/ Refused(r) /\ Bail(r)
    BY DEF LoadAndPlan, p, n
  <2> QED
    BY <2>1
<1> QED
  <2> HIDE DEF p, n, c, d
  <2> QED
    BY <1>1, <1>2, <1>3, <1>4, <1>5 DEF d, c, p, n

(* A statement that is done is done to the database or to the transaction. *)
LEMMA DoesFacts ==
    ASSUME Shapes, NEW r \in Runners, NEW op, Does(r, op)
    PROVE  /\ UNCHANGED tx
           /\ work' = [work EXCEPT ![r] = work'[r]]
           /\ tx[r] = "none" => /\ work'[r] = work[r]
                                /\ rows' = After(Apply(NoWork, op)).rows
                                /\ net' = After(Apply(NoWork, op)).net
           /\ tx[r] # "none" => work'[r] = Apply(work[r], op) /\ UNCHANGED db
<1>1. work = [q \in Runners |-> work[q]]
  BY DEF Shapes
<1>2. CASE tx[r] = "none"
  BY <1>1, <1>2 DEF Does
<1>3. CASE tx[r] # "none"
  <2>1. work' = [work EXCEPT ![r] = Apply(work[r], op)] /\ UNCHANGED <<tx, db>>
    BY <1>3 DEF Does
  <2> QED
    BY <1>1, <1>3, <2>1
<1> QED
  BY <1>2, <1>3

LEMMA RefusedFacts ==
    ASSUME Shapes, NEW r \in Runners, Refused(r)
    PROVE  /\ tx' = [tx EXCEPT ![r] = Failing(tx[r])] /\ UNCHANGED db
           /\ work' = [work EXCEPT ![r] = work[r]]
  BY SameLeft DEF Refused, Failing

LEMMA AloneLeaves ==
    ASSUME Shapes, NEW r \in Runners, Alone(r)
    PROVE  /\ call[r].pc = "alone"
           /\ \/ /\ Does(r, Op(r, call[r].plan[1].kind))
                 /\ Leaves(r, Gone(r, "begin"), tx[r], work'[r], locks[r], waiting[r], left[r])
              \/ /\ UNCHANGED db
                 /\ Leaves(r, Bailed(r), Failing(tx[r]), work[r], locks[r], waiting[r], left[r])
<1>1. call[r].pc = "alone" /\ UNCHANGED <<locks, waiting, left>>
  BY DEF Alone, At
<1>2. CASE Does(r, Op(r, call[r].plan[1].kind)) /\ Goto(r, "begin")
  <2>1. tx' = tx /\ work' = [work EXCEPT ![r] = work'[r]]
    BY <1>2, DoesFacts, Zenon
  <2> QED
    BY <1>1, <1>2, <2>1, CallChanges, SameLeft DEF Leaves, Gone
<1>3. CASE Refused(r) /\ Bail(r)
  BY <1>1, <1>3, RefusedFacts, CallChanges, SameLeft DEF Leaves, Bailed
<1> QED
  BY <1>2, <1>3 DEF Alone

LEMMA BeginLeaves ==
    ASSUME Shapes, NEW r \in Runners, Begin(r)
    PROVE  /\ call[r].pc = "begin" /\ UNCHANGED db
           /\ \/ Leaves(r, Gone(r, IF call[r].plan[1].pair[call[r].plan[1].kind] = "transactional"
                                   THEN "script" ELSE "record"),
                        "open", work[r], locks[r], waiting[r], left[r])
              \/ Leaves(r, Bailed(r), Failing(tx[r]), work[r], locks[r], waiting[r], left[r])
<1> DEFINE first == IF call[r].plan[1].pair[call[r].plan[1].kind] = "transactional"
                    THEN "script" ELSE "record"
<1>1. call[r].pc = "begin" /\ UNCHANGED <<locks, waiting, left, work>> /\ UNCHANGED db
  BY DEF Begin, At
<1>2. \/ Goto(r, first) /\ tx' = [tx EXCEPT ![r] = "open"]
      \/ Bail(r) /\ tx' = [tx EXCEPT ![r] = Failing(tx[r])]
  BY DEF Begin, Failing
<1> HIDE DEF first
<1>3. CASE Goto(r, first) /\ tx' = [tx EXCEPT ![r] = "open"]
  <2>1. Leaves(r, Gone(r, first), "open", work[r], locks[r], waiting[r], left[r])
    BY <1>1, <1>3, CallChanges, SameLeft DEF Leaves, Gone
  <2> QED
    BY <1>1, <2>1 DEF first
<1>4. CASE Bail(r) /\ tx' = [tx EXCEPT ![r] = Failing(tx[r])]
  BY <1>1, <1>4, CallChanges, SameLeft DEF Leaves, Bailed
<1> QED
  BY <1>2, <1>3, <1>4

LEMMA ScriptLeaves ==
    ASSUME Shapes, NEW r \in Runners, Script(r)
    PROVE  /\ call[r].pc = "script"
           /\ \/ /\ Does(r, Op(r, call[r].plan[1].kind))
                 /\ Leaves(r, Gone(r, "record"), tx[r], work'[r], locks[r], waiting[r], left[r])
              \/ /\ UNCHANGED db
                 /\ Leaves(r, Gone(r, "rollback"), Failing(tx[r]), work[r], locks[r], waiting[r], left[r])
<1>1. call[r].pc = "script" /\ UNCHANGED <<locks, waiting, left>>
  BY DEF Script, At
<1>2. CASE Does(r, Op(r, call[r].plan[1].kind)) /\ Goto(r, "record")
  <2>1. tx' = tx /\ work' = [work EXCEPT ![r] = work'[r]]
    BY <1>2, DoesFacts, Zenon
  <2> QED
    BY <1>1, <1>2, <2>1, CallChanges, SameLeft DEF Leaves, Gone
<1>3. CASE Refused(r) /\ Goto(r, "rollback")
  BY <1>1, <1>3, RefusedFacts, CallChanges, SameLeft DEF Leaves, Gone
<1> QED
  BY <1>2, <1>3 DEF Script

RecordOp(r) == Op(r, IF call[r].plan[1].kind = "up" THEN "insert" ELSE "delete")

LEMMA RecordLeaves ==
    ASSUME Shapes, NEW r \in Runners, Record(r)
    PROVE  /\ call[r].pc = "record"
           /\ \/ /\ Does(r, RecordOp(r)) /\ Storable(r)
                 /\ Leaves(r, Gone(r, "commit"), tx[r], work'[r], locks[r], waiting[r], left[r])
              \/ /\ UNCHANGED db
                 /\ Leaves(r, Gone(r, "rollback"), Failing(tx[r]), work[r], locks[r], waiting[r], left[r])
<1>1. call[r].pc = "record" /\ UNCHANGED <<locks, waiting, left>>
  BY DEF Record, At
<1>2. CASE Does(r, RecordOp(r)) /\ Goto(r, "commit") /\ Storable(r)
  <2>1. tx' = tx /\ work' = [work EXCEPT ![r] = work'[r]]
    BY <1>2, DoesFacts, Zenon
  <2> QED
    BY <1>1, <1>2, <2>1, CallChanges, SameLeft DEF Leaves, Gone
<1>3. CASE Refused(r) /\ Goto(r, "rollback")
  BY <1>1, <1>3, RefusedFacts, CallChanges, SameLeft DEF Leaves, Gone
<1> QED
  BY <1>2, <1>3 DEF Record, RecordOp

LEMMA CommitLeaves ==
    ASSUME Shapes, NEW r \in Runners, Commit(r)
    PROVE  /\ call[r].pc = "commit"
           /\ \/ /\ tx[r] = "open" /\ rows' = Seen(r).rows /\ net' = Seen(r).net
                 /\ Leaves(r, With(call[r], NextStep(Tail(call[r].plan)), call[r].ok,
                                   Tail(call[r].plan), call[r].before),
                           "none", NoWork, locks[r], waiting[r], left[r])
              \/ /\ UNCHANGED db
                 /\ Leaves(r, Bailed(r), "none", NoWork, locks[r], waiting[r], left[r])
<1>1. /\ call[r].pc = "commit" /\ UNCHANGED <<locks, waiting, left>>
      /\ tx' = [tx EXCEPT ![r] = "none"] /\ work' = [work EXCEPT ![r] = NoWork]
  BY DEF Commit, At
<1>2. CASE /\ tx[r] = "open" /\ rows' = Seen(r).rows /\ net' = Seen(r).net
           /\ Continue(r, Tail(call[r].plan), call[r].before)
  BY <1>1, <1>2, CallChanges, SameLeft DEF Leaves
<1>3. CASE Bail(r) /\ UNCHANGED db
  BY <1>1, <1>3, CallChanges, SameLeft DEF Leaves, Bailed
<1> QED
  BY <1>2, <1>3 DEF Commit

LEMMA RollbackLeaves ==
    ASSUME Shapes, NEW r \in Runners, Rollback(r)
    PROVE  /\ call[r].pc = "rollback" /\ UNCHANGED db
           /\ Leaves(r, Bailed(r), "none", NoWork, locks[r], waiting[r], left[r])
  BY CallChanges, SameLeft DEF Rollback, At, Leaves, Bailed

Refusing(l) == IF l = "dropped" THEN l ELSE "refused"

LEMMA UnlockLeaves ==
    ASSUME Shapes, NEW r \in Runners, Unlock(r)
    PROVE  /\ call[r].pc = "unlock" /\ UNCHANGED db
           /\ \/ Leaves(r, Idle, tx[r], work[r],
                        IF locks[r] = 0 THEN 0 ELSE locks[r] - 1, waiting[r], left[r])
              \/ Leaves(r, Idle, Failing(tx[r]), work[r], locks[r], waiting[r], Refusing(left[r]))
<1>1. /\ call[r].pc = "unlock" /\ UNCHANGED waiting /\ UNCHANGED db /\ UNCHANGED work
      /\ Becomes(r, Idle)
  BY CallChanges DEF Unlock, At, Refused
<1>2. CASE /\ UNCHANGED <<tx, left>>
           /\ locks' = [locks EXCEPT ![r] = IF @ = 0 THEN 0 ELSE @ - 1]
  BY <1>1, <1>2, SameLeft DEF Leaves
<1>3. CASE /\ Refused(r) /\ UNCHANGED locks
           /\ left' = [left EXCEPT ![r] = IF @ = "dropped" THEN @ ELSE "refused"]
  BY <1>1, <1>3, SameLeft DEF Leaves, Refused, Refusing, Failing
<1> QED
  BY <1>1, <1>2, <1>3 DEF Unlock

LEMMA BreakLeaves ==
    ASSUME Shapes, NEW r \in Runners, Break(r)
    PROVE  UNCHANGED db /\ Leaves(r, Idle, "none", NoWork, 0, FALSE, "no")
  BY CallChanges DEF Break, Leaves

LEMMA DropCallLeaves ==
    ASSUME Shapes, NEW r \in Runners, DropCall(r)
    PROVE  /\ UNCHANGED db
           /\ Leaves(r, Idle, tx[r], work[r], locks[r], waiting[r], "dropped")
  BY CallChanges, SameLeft DEF DropCall, Leaves, session

LEMMA RecycleLeaves ==
    ASSUME Shapes, NEW r \in Runners, Recycle(r)
    PROVE  /\ UNCHANGED db /\ call[r].pc = "idle" /\ ~waiting[r]
           /\ Leaves(r, call[r], "none", NoWork, locks[r], waiting[r], left[r])
  BY SameLeft DEF Recycle, Leaves, At

-----------------------------------------------------------------------------
(* The lock *)

LEMMA InitLocks == ASSUME Init PROVE LockInv
<1>1. Shaped(Idle) /\ Idle.pc = "idle"
  BY WithIsShaped
<1>2. Shapes
  BY <1>1 DEF Init, Shapes, PCs, Marks
<1>3. \A r \in Runners : /\ call[r].pc = "idle" /\ tx[r] = "none" /\ work[r] = NoWork
                         /\ locks[r] = 0 /\ waiting[r] = FALSE
  BY <1>1 DEF Init
<1>4. Exclusive
  BY <1>3 DEF Exclusive
<1>5. \A r \in Runners : Locked(r) /\ Ready(r) /\ Tidy(r)
  BY <1>3 DEF Locked, Ready, Tidy, Past, Outside, Inside
<1> QED
  BY <1>2, <1>4, <1>5 DEF LockInv

(* What the invariant says of the runner that takes the step.              *)
Known(r) ==
    /\ Locked(r) /\ Ready(r) /\ Tidy(r)
    /\ tx[r] \in {"none", "open", "failed"} /\ locks[r] \in Nat
    /\ waiting[r] \in BOOLEAN /\ left[r] \in Marks
    /\ Shaped(call[r]) /\ call[r].pc \in PCs

LEMMA LockInvFacts == ASSUME LockInv, NEW r \in Runners PROVE Shapes /\ Known(r)
  BY DEF LockInv, Known, Shapes

LEMMA CallFacts ==
    ASSUME NEW r, NEW pc
    PROVE  /\ Shaped(Gone(r, pc)) /\ Gone(r, pc).pc = pc
           /\ Shaped(Bailed(r)) /\ Bailed(r).pc = "unlock"
           /\ Shaped(Idle) /\ Idle.pc = "idle"
<1>1. \A o : LET c == With(call[r], "unlock", o, call[r].plan, call[r].before)
             IN  Shaped(c) /\ c.pc = "unlock"
  BY WithIsShaped
<1>2. Shaped(Bailed(r)) /\ Bailed(r).pc = "unlock"
  BY <1>1, Zenon DEF Bailed
<1>3. Shaped(Gone(r, pc)) /\ Gone(r, pc).pc = pc
  BY WithIsShaped DEF Gone
<1> QED
  BY <1>2, <1>3, WithIsShaped

LEMMA LocksKept ==
    ASSUME LockInv, NEW r \in Runners,
           Start(r) \/ Statement(r) \/ Break(r) \/ DropCall(r) \/ Recycle(r)
    PROVE  LockInv'
<1> USE DEF Past, Outside, Inside, PCs, Marks
<1>1. Shapes /\ Known(r)
  BY LockInvFacts
<1>2. CASE Start(r)
  <2>1. PICK s \in Sources, d \in Directions, clean \in BOOLEAN :
          Leaves(r, Started(s, d, clean), tx[r], work[r], locks[r], waiting[r], left[r])
    BY <1>1, <1>2, StartLeaves
  <2>2. call[r].pc = "idle" /\ ~waiting[r] /\ (tx[r] = "none" \/ ReuseOpen)
    BY <1>1, <1>2, StartLeaves
  <2>3. Shaped(Started(s, d, clean)) /\ Started(s, d, clean).pc = "ensure"
    BY DEF Started, Shaped
  <2> DEFINE c == Started(s, d, clean)
  <2> HIDE DEF c
  <2>4. Typed(c, tx[r], locks[r], waiting[r], left[r])
    BY <1>1, <2>3 DEF Typed, Known, c
  <2>5. Keeps(r, c, tx[r], work[r], locks[r], waiting[r], left[r])
    BY <1>1, <2>2, <2>3 DEF Keeps, Known, Locked, Ready, Tidy, c
  <2> QED
    BY <2>1, <2>4, <2>5, LeavesKeeps DEF c
<1>3. CASE Ensure(r)
  <2>1. call[r].pc = "ensure"
    BY <1>1, <1>3, EnsureLeaves
  <2>2. CASE Leaves(r, Gone(r, "lock"), tx[r], work[r], locks[r], TRUE, left[r])
    <3>1. Typed(Gone(r, "lock"), tx[r], locks[r], TRUE, left[r])
      BY <1>1, CallFacts DEF Typed, Known
    <3>2. Keeps(r, Gone(r, "lock"), tx[r], work[r], locks[r], TRUE, left[r])
      BY <1>1, <2>1, CallFacts DEF Keeps, Known, Locked, Ready, Tidy
    <3> QED
      BY <2>2, <3>1, <3>2, LeavesKeeps
  <2>3. CASE Leaves(r, Idle, Failing(tx[r]), work[r], locks[r], waiting[r], left[r])
    <3>1. Typed(Idle, Failing(tx[r]), locks[r], waiting[r], left[r])
      BY <1>1, CallFacts DEF Typed, Known, Failing
    <3>2. Keeps(r, Idle, Failing(tx[r]), work[r], locks[r], waiting[r], left[r])
      BY <1>1, <2>1, CallFacts DEF Keeps, Known, Locked, Ready, Tidy, Failing
    <3> QED
      BY <2>3, <3>1, <3>2, LeavesKeeps
  <2> QED
    BY <1>1, <1>3, <2>2, <2>3, EnsureLeaves
<1>4. CASE Acquire(r)
  <2>1. waiting[r] /\ \A q \in Runners \ {r} : locks[q] = 0
    BY <1>1, <1>4, AcquireLeaves
  <2>2. CASE /\ call[r].pc = "lock"
             /\ Leaves(r, Gone(r, "load"), tx[r], work[r], locks[r] + 1, FALSE, left[r])
    <3>1. Typed(Gone(r, "load"), tx[r], locks[r] + 1, FALSE, left[r])
      BY <1>1, CallFacts DEF Typed, Known
    <3>2. Keeps(r, Gone(r, "load"), tx[r], work[r], locks[r] + 1, FALSE, left[r])
      BY <1>1, <2>1, <2>2, CallFacts DEF Keeps, Known, Locked, Ready, Tidy
    <3> QED
      BY <2>2, <3>1, <3>2, LeavesKeeps
  <2>3. CASE /\ call[r].pc # "lock"
             /\ Leaves(r, call[r], tx[r], work[r], locks[r] + 1, FALSE, left[r])
    <3>1. Typed(call[r], tx[r], locks[r] + 1, FALSE, left[r])
      BY <1>1 DEF Typed, Known
    <3>2. Keeps(r, call[r], tx[r], work[r], locks[r] + 1, FALSE, left[r])
      BY <1>1, <2>1, <2>3 DEF Keeps, Known, Locked, Ready, Tidy
    <3> QED
      BY <2>3, <3>1, <3>2, LeavesKeeps
  <2> QED
    BY <1>1, <1>4, <2>2, <2>3, AcquireLeaves
<1>5. CASE AcquireFails(r)
  <2>1. /\ call[r].pc = "lock"
        /\ Leaves(r, Idle, Failing(tx[r]), work[r], locks[r], FALSE, left[r])
    BY <1>1, <1>5, AcquireFailsLeaves
  <2>2. Typed(Idle, Failing(tx[r]), locks[r], FALSE, left[r])
    BY <1>1, CallFacts DEF Typed, Known, Failing
  <2>3. Keeps(r, Idle, Failing(tx[r]), work[r], locks[r], FALSE, left[r])
    BY <1>1, <2>1, CallFacts DEF Keeps, Known, Locked, Ready, Tidy, Failing
  <2> QED
    BY <2>1, <2>2, <2>3, LeavesKeeps
<1>6. CASE LoadAndPlan(r)
  <2>1. call[r].pc = "load"
    BY <1>1, <1>6, LoadLeaves
  <2> DEFINE c == With(call[r], NextStep(PlanOf(r).value), call[r].ok, PlanOf(r).value, Len(Applied(r)))
  <2>2. Shaped(c) /\ c.pc \in {"unlock", "begin", "alone"}
    <3>1. NextStep(PlanOf(r).value) \in {"unlock", "begin", "alone"}
      BY DEF NextStep
    <3>2. Shaped(c) /\ c.pc = NextStep(PlanOf(r).value)
      BY WithIsShaped
    <3> QED
      BY <3>1, <3>2
  <2> HIDE DEF c
  <2>3. CASE Leaves(r, c, tx[r], work[r], locks[r], waiting[r], left[r])
    <3>1. Typed(c, tx[r], locks[r], waiting[r], left[r])
      BY <1>1, <2>2 DEF Typed, Known
    <3>2. Keeps(r, c, tx[r], work[r], locks[r], waiting[r], left[r])
      BY <1>1, <2>1, <2>2 DEF Keeps, Known, Locked, Ready, Tidy
    <3> QED
      BY <2>3, <3>1, <3>2, LeavesKeeps
  <2>4. ASSUME NEW t \in {tx[r], Failing(tx[r])},
               Leaves(r, Bailed(r), t, work[r], locks[r], waiting[r], left[r])
        PROVE  LockInv'
    <3>1. Typed(Bailed(r), t, locks[r], waiting[r], left[r])
      BY <1>1, CallFacts DEF Typed, Known, Failing
    <3>2. Keeps(r, Bailed(r), t, work[r], locks[r], waiting[r], left[r])
      BY <1>1, <2>1, CallFacts DEF Keeps, Known, Locked, Ready, Tidy, Failing
    <3> QED
      BY <2>4, <3>1, <3>2, LeavesKeeps
  <2>5. \/ Leaves(r, c, tx[r], work[r], locks[r], waiting[r], left[r])
        \/ Leaves(r, Bailed(r), tx[r], work[r], locks[r], waiting[r], left[r])
        \/ Leaves(r, Bailed(r), Failing(tx[r]), work[r], locks[r], waiting[r], left[r])
    BY <1>1, <1>6, LoadLeaves DEF c
  <2> QED
    BY <2>3, <2>4, <2>5
<1>7. CASE Alone(r)
  <2>1. call[r].pc = "alone"
    BY <1>1, <1>7, AloneLeaves
  <2>2. CASE /\ Does(r, Op(r, call[r].plan[1].kind))
             /\ Leaves(r, Gone(r, "begin"), tx[r], work'[r], locks[r], waiting[r], left[r])
    <3>1. Typed(Gone(r, "begin"), tx[r], locks[r], waiting[r], left[r])
      BY <1>1, CallFacts DEF Typed, Known, Failing
    <3>2. Keeps(r, Gone(r, "begin"), tx[r], work'[r], locks[r], waiting[r], left[r])
      <4>1. tx[r] = "none" => work'[r] = work[r]
        BY <1>1, <2>2, DoesFacts
      <4> QED
        BY <1>1, <2>1, <4>1, CallFacts DEF Keeps, Known, Locked, Ready, Tidy
    <3> QED
      BY <2>2, <3>1, <3>2, LeavesKeeps
  <2>3. CASE /\ UNCHANGED db
             /\ Leaves(r, Bailed(r), Failing(tx[r]), work[r], locks[r], waiting[r], left[r])
    <3>1. Typed(Bailed(r), Failing(tx[r]), locks[r], waiting[r], left[r])
      BY <1>1, CallFacts DEF Typed, Known, Failing
    <3>2. Keeps(r, Bailed(r), Failing(tx[r]), work[r], locks[r], waiting[r], left[r])
      BY <1>1, <2>1, <2>3, CallFacts DEF Keeps, Known, Locked, Ready, Tidy, Failing
    <3> QED
      BY <2>3, <3>1, <3>2, LeavesKeeps
  <2> QED
    BY <1>1, <1>7, <2>2, <2>3, AloneLeaves
<1>8. CASE Begin(r)
  <2>1. call[r].pc = "begin"
    BY <1>1, <1>8, BeginLeaves
  <2> DEFINE first == IF call[r].plan[1].pair[call[r].plan[1].kind] = "transactional"
                      THEN "script" ELSE "record"
  <2>2. first \in {"script", "record"}
    OBVIOUS
  <2>3. \/ Leaves(r, Gone(r, first), "open", work[r], locks[r], waiting[r], left[r])
        \/ Leaves(r, Bailed(r), Failing(tx[r]), work[r], locks[r], waiting[r], left[r])
    BY <1>1, <1>8, BeginLeaves
  <2> HIDE DEF first
  <2>4. CASE Leaves(r, Gone(r, first), "open", work[r], locks[r], waiting[r], left[r])
    <3>1. Typed(Gone(r, first), "open", locks[r], waiting[r], left[r])
      BY <1>1, <2>2, CallFacts DEF Typed, Known
    <3>2. Keeps(r, Gone(r, first), "open", work[r], locks[r], waiting[r], left[r])
      BY <1>1, <2>1, <2>2, CallFacts DEF Keeps, Known, Locked, Ready, Tidy
    <3> QED
      BY <2>4, <3>1, <3>2, LeavesKeeps
  <2>5. CASE Leaves(r, Bailed(r), Failing(tx[r]), work[r], locks[r], waiting[r], left[r])
    <3>1. Typed(Bailed(r), Failing(tx[r]), locks[r], waiting[r], left[r])
      BY <1>1, CallFacts DEF Typed, Known, Failing
    <3>2. Keeps(r, Bailed(r), Failing(tx[r]), work[r], locks[r], waiting[r], left[r])
      BY <1>1, <2>1, CallFacts DEF Keeps, Known, Locked, Ready, Tidy, Failing
    <3> QED
      BY <2>5, <3>1, <3>2, LeavesKeeps
  <2> QED
    BY <2>3, <2>4, <2>5
<1>9. CASE Script(r)
  <2>1. call[r].pc = "script"
    BY <1>1, <1>9, ScriptLeaves
  <2>2. CASE /\ Does(r, Op(r, call[r].plan[1].kind))
             /\ Leaves(r, Gone(r, "record"), tx[r], work'[r], locks[r], waiting[r], left[r])
    <3>1. Typed(Gone(r, "record"), tx[r], locks[r], waiting[r], left[r])
      BY <1>1, CallFacts DEF Typed, Known, Failing
    <3>2. Keeps(r, Gone(r, "record"), tx[r], work'[r], locks[r], waiting[r], left[r])
      <4>1. tx[r] = "none" => work'[r] = work[r]
        BY <1>1, <2>2, DoesFacts
      <4> QED
        BY <1>1, <2>1, <4>1, CallFacts DEF Keeps, Known, Locked, Ready, Tidy
    <3> QED
      BY <2>2, <3>1, <3>2, LeavesKeeps
  <2>3. CASE /\ UNCHANGED db
             /\ Leaves(r, Gone(r, "rollback"), Failing(tx[r]), work[r], locks[r], waiting[r], left[r])
    <3>1. Typed(Gone(r, "rollback"), Failing(tx[r]), locks[r], waiting[r], left[r])
      BY <1>1, CallFacts DEF Typed, Known, Failing
    <3>2. Keeps(r, Gone(r, "rollback"), Failing(tx[r]), work[r], locks[r], waiting[r], left[r])
      BY <1>1, <2>1, <2>3, CallFacts DEF Keeps, Known, Locked, Ready, Tidy, Failing
    <3> QED
      BY <2>3, <3>1, <3>2, LeavesKeeps
  <2> QED
    BY <1>1, <1>9, <2>2, <2>3, ScriptLeaves
<1>10. CASE Record(r)
  <2>1. call[r].pc = "record"
    BY <1>1, <1>10, RecordLeaves
  <2>2. CASE /\ Does(r, RecordOp(r)) /\ Storable(r)
             /\ Leaves(r, Gone(r, "commit"), tx[r], work'[r], locks[r], waiting[r], left[r])
    <3>1. Typed(Gone(r, "commit"), tx[r], locks[r], waiting[r], left[r])
      BY <1>1, CallFacts DEF Typed, Known, Failing
    <3>2. Keeps(r, Gone(r, "commit"), tx[r], work'[r], locks[r], waiting[r], left[r])
      <4>1. tx[r] = "none" => work'[r] = work[r]
        BY <1>1, <2>2, DoesFacts
      <4> QED
        BY <1>1, <2>1, <4>1, CallFacts DEF Keeps, Known, Locked, Ready, Tidy
    <3> QED
      BY <2>2, <3>1, <3>2, LeavesKeeps
  <2>3. CASE /\ UNCHANGED db
             /\ Leaves(r, Gone(r, "rollback"), Failing(tx[r]), work[r], locks[r], waiting[r], left[r])
    <3>1. Typed(Gone(r, "rollback"), Failing(tx[r]), locks[r], waiting[r], left[r])
      BY <1>1, CallFacts DEF Typed, Known, Failing
    <3>2. Keeps(r, Gone(r, "rollback"), Failing(tx[r]), work[r], locks[r], waiting[r], left[r])
      BY <1>1, <2>1, <2>3, CallFacts DEF Keeps, Known, Locked, Ready, Tidy, Failing
    <3> QED
      BY <2>3, <3>1, <3>2, LeavesKeeps
  <2> QED
    BY <1>1, <1>10, <2>2, <2>3, RecordLeaves
<1>11. CASE Commit(r)
  <2>1. call[r].pc = "commit"
    BY <1>1, <1>11, CommitLeaves
  <2> DEFINE c == With(call[r], NextStep(Tail(call[r].plan)), call[r].ok, Tail(call[r].plan),
                       call[r].before)
  <2>2. Shaped(c) /\ c.pc \in {"unlock", "begin", "alone"}
    <3>1. NextStep(Tail(call[r].plan)) \in {"unlock", "begin", "alone"}
      BY DEF NextStep
    <3>2. Shaped(c) /\ c.pc = NextStep(Tail(call[r].plan))
      BY WithIsShaped
    <3> QED
      BY <3>1, <3>2
  <2>3. \/ Leaves(r, c, "none", NoWork, locks[r], waiting[r], left[r])
        \/ Leaves(r, Bailed(r), "none", NoWork, locks[r], waiting[r], left[r])
    BY <1>1, <1>11, CommitLeaves
  <2> HIDE DEF c
  <2>4. ASSUME NEW e \in {c, Bailed(r)}, Leaves(r, e, "none", NoWork, locks[r], waiting[r], left[r])
        PROVE  LockInv'
    <3>1. Shaped(e) /\ e.pc \in {"unlock", "begin", "alone"}
      BY <2>2, CallFacts
    <3>2. Typed(e, "none", locks[r], waiting[r], left[r])
      BY <1>1, <3>1 DEF Typed, Known
    <3>3. Keeps(r, e, "none", NoWork, locks[r], waiting[r], left[r])
      BY <1>1, <2>1, <3>1 DEF Keeps, Known, Locked, Ready, Tidy
    <3> QED
      BY <2>4, <3>2, <3>3, LeavesKeeps
  <2> QED
    BY <2>3, <2>4
<1>12. CASE Rollback(r)
  <2>1. call[r].pc = "rollback"
    BY <1>1, <1>12, RollbackLeaves
  <2>2. CASE Leaves(r, Bailed(r), "none", NoWork, locks[r], waiting[r], left[r])
    <3>1. Typed(Bailed(r), "none", locks[r], waiting[r], left[r])
      BY <1>1, CallFacts DEF Typed, Known, Failing
    <3>2. Keeps(r, Bailed(r), "none", NoWork, locks[r], waiting[r], left[r])
      BY <1>1, <2>1, <2>2, CallFacts DEF Keeps, Known, Locked, Ready, Tidy, Failing
    <3> QED
      BY <2>2, <3>1, <3>2, LeavesKeeps
  <2> QED
    BY <1>1, <1>12, <2>2, RollbackLeaves
<1>13. CASE Unlock(r)
  <2>1. call[r].pc = "unlock" /\ locks[r] > 0
    BY <1>1, <1>13, UnlockLeaves DEF Known, Locked
  <2>2. ASSUME NEW k, k = IF locks[r] = 0 THEN 0 ELSE locks[r] - 1,
               Leaves(r, Idle, tx[r], work[r], k, waiting[r], left[r])
        PROVE  LockInv'
    <3>1. Typed(Idle, tx[r], k, waiting[r], left[r])
      BY <1>1, <2>2, CallFacts DEF Typed, Known
    <3>2. k = locks[r] - 1 /\ locks[r] \in Nat
      BY <1>1, <2>1, <2>2 DEF Known
    <3>3. left[r] = "no" => k = 0
      BY <1>1, <2>1, <3>2 DEF Known, Tidy
    <3>4. Keeps(r, Idle, tx[r], work[r], k, waiting[r], left[r])
      BY <1>1, <2>1, <3>2, <3>3, CallFacts DEF Keeps, Known, Locked, Ready, Tidy
    <3> QED
      BY <2>2, <3>1, <3>4, LeavesKeeps
  <2>3. CASE Leaves(r, Idle, Failing(tx[r]), work[r], locks[r], waiting[r], Refusing(left[r]))
    <3>1. Typed(Idle, Failing(tx[r]), locks[r], waiting[r], Refusing(left[r]))
      BY <1>1, CallFacts DEF Typed, Known, Failing, Refusing, Marks
    <3>2. Keeps(r, Idle, Failing(tx[r]), work[r], locks[r], waiting[r], Refusing(left[r]))
      BY <1>1, <2>1, CallFacts DEF Keeps, Known, Locked, Ready, Tidy, Failing, Refusing, Marks
    <3> QED
      BY <2>3, <3>1, <3>2, LeavesKeeps
  <2> QED
    BY <1>1, <1>13, <2>2, <2>3, UnlockLeaves
<1>14. CASE Break(r)
  <2>2. CASE Leaves(r, Idle, "none", NoWork, 0, FALSE, "no")
    <3>1. Typed(Idle, "none", 0, FALSE, "no")
      BY <1>1, CallFacts DEF Typed, Known, Failing
    <3>2. Keeps(r, Idle, "none", NoWork, 0, FALSE, "no")
      BY <1>1, <2>2, CallFacts DEF Keeps, Known, Locked, Ready, Tidy, Failing
    <3> QED
      BY <2>2, <3>1, <3>2, LeavesKeeps
  <2> QED
    BY <1>1, <1>14, <2>2, BreakLeaves
<1>15. CASE DropCall(r)
  <2>2. CASE Leaves(r, Idle, tx[r], work[r], locks[r], waiting[r], "dropped")
    <3>1. Typed(Idle, tx[r], locks[r], waiting[r], "dropped")
      BY <1>1, CallFacts DEF Typed, Known, Failing
    <3>2. Keeps(r, Idle, tx[r], work[r], locks[r], waiting[r], "dropped")
      BY <1>1, <2>2, CallFacts DEF Keeps, Known, Locked, Ready, Tidy, Failing
    <3> QED
      BY <2>2, <3>1, <3>2, LeavesKeeps
  <2> QED
    BY <1>1, <1>15, <2>2, DropCallLeaves
<1>16. CASE Recycle(r)
  <2>1. call[r].pc = "idle"
    BY <1>1, <1>16, RecycleLeaves
  <2>2. CASE Leaves(r, call[r], "none", NoWork, locks[r], waiting[r], left[r])
    <3>1. Typed(call[r], "none", locks[r], waiting[r], left[r])
      BY <1>1, CallFacts DEF Typed, Known, Failing
    <3>2. Keeps(r, call[r], "none", NoWork, locks[r], waiting[r], left[r])
      BY <1>1, <2>1, <2>2, CallFacts DEF Keeps, Known, Locked, Ready, Tidy, Failing
    <3> QED
      BY <2>2, <3>1, <3>2, LeavesKeeps
  <2> QED
    BY <1>1, <1>16, <2>2, RecycleLeaves
<1> QED
  BY <1>2, <1>3, <1>4, <1>5, <1>6, <1>7, <1>8, <1>9, <1>10, <1>11, <1>12, <1>13, <1>14, <1>15, <1>16
     DEF Statement

LEMMA NextKeepsLocks == LockInv /\ [Next]_vars => LockInv'
<1> SUFFICES ASSUME LockInv, [Next]_vars PROVE LockInv'
  OBVIOUS
<1>1. CASE Next
  BY <1>1, LocksKept DEF Next
<1>2. CASE UNCHANGED vars
  BY <1>2 DEF vars, LockInv, Shapes, Shaped, Exclusive, Locked, Ready, Tidy, NoWork
<1> QED
  BY <1>1, <1>2

(* The inductive invariant of the lock and of the connections.             *)
THEOREM LocksHold == Spec => []LockInv
  BY InitLocks, NextKeepsLocks, PTL DEF Spec

(* Type correctness and mutual exclusion of the advisory lock: at most one *)
(* session holds it, and a session without a transaction has none of its   *)
(* work, whatever breaks, is dropped or is used again.                     *)
THEOREM TypesAndLock == Spec => []TypeOK
<1>1. LockInv => TypeOK
  BY DEF LockInv, Shapes, Exclusive, Locked, TypeOK
<1> QED
  BY <1>1, LocksHold, PTL

(* NothingLeft: a call of apply or rollback that ends without having been  *)
(* dropped has ended its transaction and, unless the server refused its    *)
(* unlock, given back the advisory lock.  The refused unlock is part of    *)
(* the invariant: that session holds the lock and nobody else passes it.   *)
THEOREM CallsTidyUp == Spec => []NothingLeft
<1>1. LockInv => NothingLeft
  BY DEF LockInv, Tidy, NothingLeft, At, Past
<1> QED
  BY <1>1, LocksHold, PTL

-----------------------------------------------------------------------------
(* Order by version *)

Ascends(s) == \A i, j \in DOMAIN s : i < j => s[i].version < s[j].version
Keyed(S) ==
    /\ \A x \in S : x.version \in Nat
    /\ \A x, y \in S : x.version = y.version => x = y

(* A finite set with different versions can be put in their order.         *)
LEMMA SortExists ==
    ASSUME NEW S, IsFiniteSet(S), Keyed(S)
    PROVE  \E s \in [1..Cardinality(S) -> S] : Ascends(s)
<1> DEFINE k == Cardinality(S)
           T == {n \in 0..k : \A Q \in SUBSET S : IsFiniteSet(Q) /\ Cardinality(Q) = n =>
                               \E s \in [1..n -> Q] : Ascends(s)}
<1>1. k \in Nat
  BY FS_CardinalityType
<1>2. 0 \in T
  <2>1. \A Q : <<>> \in [1..0 -> Q] /\ Ascends(<<>>)
    BY DEF Ascends
  <2>2. \A Q : \E s \in [1..0 -> Q] : Ascends(s)
    BY <2>1, Zenon
  <2>3. 0 \in 0..k
    BY <1>1
  <2> QED
    BY <2>2, <2>3, Zenon
<1>3. ASSUME NEW n \in 0..(k - 1), n \in T PROVE n + 1 \in T
  <2>1. n \in Nat /\ n + 1 \in 0..k
    BY <1>1
  <2>2. ASSUME NEW Q \in SUBSET S, IsFiniteSet(Q), Cardinality(Q) = n + 1
        PROVE  \E s \in [1..(n + 1) -> Q] : Ascends(s)
    <3>1. Q # {}
      BY <2>1, <2>2, FS_EmptySet
    <3> DEFINE V == {x.version : x \in Q}
    <3>2. V \subseteq Nat /\ V # {}
      BY <3>1 DEF Keyed
    <3>3. PICK v \in V : \A w \in V : v <= w
      <4> HIDE DEF V
      <4> QED
        BY <3>2, LeastNumber
    <3>4. PICK x \in Q : \A y \in Q : x.version <= y.version
      BY <3>3
    <3>5. IsFiniteSet(Q \ {x}) /\ Cardinality(Q \ {x}) = n
      BY <2>1, <2>2, RemoveOne
    <3>6. PICK s \in [1..n -> Q \ {x}] : Ascends(s)
      BY <1>3, <3>5
    <3> DEFINE u == [i \in 1..(n + 1) |-> IF i = 1 THEN x ELSE s[i - 1]]
    <3>7. u \in [1..(n + 1) -> Q]
      BY <2>1, <3>6
    <3>8. \A y \in Q \ {x} : x.version < y.version
      BY <3>4 DEF Keyed
    <3>9. Ascends(u)
      <4> SUFFICES ASSUME NEW i \in 1..(n + 1), NEW j \in 1..(n + 1), i < j
                   PROVE  u[i].version < u[j].version
        BY DEF Ascends
      <4>1. u[j] = s[j - 1] /\ j - 1 \in 1..n /\ s[j - 1] \in Q \ {x}
        BY <2>1, <3>6
      <4>2. CASE i = 1
        BY <4>1, <4>2, <3>8
      <4>3. CASE i # 1
        <5>1. u[i] = s[i - 1] /\ i - 1 \in 1..n /\ i - 1 < j - 1
          BY <2>1, <4>3
        <5> QED
          BY <4>1, <5>1, <3>6 DEF Ascends
      <4> QED
        BY <4>2, <4>3
    <3> QED
      BY <3>7, <3>9
  <2> QED
    BY <2>1, <2>2
<1>4. \A n \in 0..k : n \in T
  <2> HIDE DEF T, k
  <2> QED
    BY <1>1, <1>2, <1>3, InductionTo
<1> QED
  BY <1>1, <1>4

(* ByVersion lists the members of such a set, each once, in that order.    *)
LEMMA ByVersionFacts ==
    ASSUME NEW S, IsFiniteSet(S), Keyed(S)
    PROVE  /\ ByVersion(S) \in Seq(S) /\ Len(ByVersion(S)) = Cardinality(S)
           /\ Members(ByVersion(S)) = S /\ Ascends(ByVersion(S))
<1> DEFINE k == Cardinality(S)
           s == ByVersion(S)
<1>1. k \in Nat
  BY FS_CardinalityType
<1>2. s \in [1..k -> S] /\ Ascends(s)
  <2>1. ByVersion(S) = CHOOSE u \in [1..k -> S] : Ascends(u)
    BY DEF ByVersion, Ascends
  <2>2. \E u \in [1..k -> S] : Ascends(u)
    BY SortExists
  <2> HIDE DEF k
  <2> QED
    BY <2>1, <2>2
<1> HIDE DEF s, k
<1>3. s \in Seq(S) /\ Len(s) = k
  BY <1>1, <1>2
<1>4. Distinct(s)
  <2>1. \A i \in 1..k : s[i].version \in Nat
    BY <1>2 DEF Keyed
  <2> QED
    BY <1>1, <1>2, <1>3, <2>1 DEF Ascends, Distinct
<1>5. Members(s) \subseteq S
  BY <1>2, <1>3 DEF Members
<1>6. IsFiniteSet(Members(s)) /\ Cardinality(Members(s)) = k
  BY <1>3, <1>4, DistinctLength
<1>7. Cardinality(S \ Members(s)) = 0 /\ IsFiniteSet(S \ Members(s))
  BY <1>1, <1>5, <1>6, RemoveSome DEF k
<1>8. Members(s) = S
  BY <1>5, <1>7, FS_EmptySet
<1> QED
  BY <1>2, <1>3, <1>8 DEF s, k

-----------------------------------------------------------------------------
(* Catalogs *)

Modes == {"transactional", "non_transactional"}
GoodPair(p) ==
    /\ p.version \in Nat /\ p.up \in Modes /\ p.down \in Modes
    /\ p = [version |-> p.version, name |-> p.name, up |-> p.up, down |-> p.down,
            upSum |-> p.upSum, downSum |-> p.downSum]

LEMMA ModeFacts == \A text : ParseMode(text).ok => ParseMode(text).value \in Modes
  BY DEF ParseMode, Modes, Ok, Err

LEMMA MetadataFacts ==
    ASSUME NEW lines, ParseMetadata(lines).ok
    PROVE  ParseMetadata(lines).value \in Modes
<1> DEFINE ds == Directives(lines)
<1> HIDE DEF ds
<1>1. ParseMetadata(lines) = IF Len(ds) > 1 \/ \E i \in DOMAIN ds : ~ParseMode(ds[i]).ok
                             THEN Err("InvalidDirective")
                             ELSE IF ds = <<>> THEN Ok("transactional") ELSE ParseMode(ds[1])
  BY DEF ParseMetadata, ds
<1>2. Err("InvalidDirective").ok = FALSE /\ Ok("transactional").value = "transactional"
  BY DEF Ok, Err
<1> QED
  BY <1>1, <1>2, ModeFacts DEF Modes

LEMMA FilenameFacts ==
    ASSUME NEW f, ParseFilename(f).ok
    PROVE  f.numeric /\ ParseFilename(f).value.version = f.version
  BY DEF ParseFilename, Ok, Err

LEMMA AssetFacts ==
    ASSUME NEW a, ParseAsset(a).ok
    PROVE  /\ a.file.numeric /\ ParseAsset(a).value.version = a.file.version
           /\ ParseAsset(a).value.mode \in Modes
<1> DEFINE file == ParseFilename(a.file)
           meta == ParseMetadata(a.lines)
           v == [version |-> file.value.version, name |-> file.value.name,
                 kind |-> file.value.kind, mode |-> meta.value, checksum |-> Checksum(a.lines)]
<1>1. ParseAsset(a) = IF ~file.ok THEN file ELSE IF ~meta.ok THEN meta ELSE Ok(v)
  BY DEF ParseAsset
<1>2. v.version = file.value.version /\ v.mode = meta.value
  OBVIOUS
<1> HIDE DEF file, meta, v
<1>3. file.ok /\ meta.ok /\ ParseAsset(a) = Ok(v)
  BY <1>1
<1>4. Ok(v).value = v
  BY DEF Ok
<1> QED
  BY <1>2, <1>3, <1>4, FilenameFacts, MetadataFacts DEF file, meta

ScriptOf(scripts, v, k) == CHOOSE s \in Range(scripts) : s.version = v /\ s.kind = k

LEMMA PairFacts ==
    ASSUME NEW scripts, NEW v
    PROVE  LET p == PairOf(scripts, v) IN
           /\ p.version = v
           /\ p.up = ScriptOf(scripts, v, "up").mode /\ p.down = ScriptOf(scripts, v, "down").mode
           /\ p = [version |-> p.version, name |-> p.name, up |-> p.up, down |-> p.down,
                   upSum |-> p.upSum, downSum |-> p.downSum]
  BY DEF PairOf, ScriptOf

(* A catalog that from_assets accepts has every version once, in order,    *)
(* and the modes of the directives.                                        *)
LEMMA CatalogFacts ==
    ASSUME NEW scripts, Catalog(scripts).ok, IsFiniteSet(DOMAIN scripts),
           \A i \in DOMAIN scripts : scripts[i].version \in Nat /\ scripts[i].mode \in Modes
    PROVE  LET c == Catalog(scripts).value IN
           c \in Seq(Members(c)) /\ Ascends(c) /\ \A p \in Members(c) : GoodPair(p)
<1> DEFINE versions == {scripts[i].version : i \in DOMAIN scripts}
           has(v, k) == \E i \in DOMAIN scripts : scripts[i].version = v /\ scripts[i].kind = k
           half == {v \in versions : \E k \in {"up", "down"} : ~has(v, k)}
           S == {PairOf(scripts, v) : v \in versions}
<1>1. Catalog(scripts) = IF half # {} THEN Err("MissingMigrationScript") ELSE Ok(ByVersion(S))
  BY DEF Catalog
<1>2. half = {} /\ Catalog(scripts).value = ByVersion(S)
  <2> HIDE DEF half, S
  <2> QED
    BY <1>1 DEF Ok, Err
<1>3. ASSUME NEW v \in versions, NEW k \in {"up", "down"}
      PROVE  ScriptOf(scripts, v, k).mode \in Modes
  <2>1. PICK i \in DOMAIN scripts : scripts[i].version = v /\ scripts[i].kind = k
    BY <1>2, <1>3
  <2>2. \E s \in Range(scripts) : s.version = v /\ s.kind = k
    BY <2>1 DEF Range
  <2>3. ScriptOf(scripts, v, k) \in Range(scripts)
    BY <2>2 DEF ScriptOf
  <2> QED
    BY <2>3 DEF Range
<1>4. versions \subseteq Nat
  OBVIOUS
<1> HIDE DEF half
<1>5. ASSUME NEW v \in versions PROVE PairOf(scripts, v).version = v /\ GoodPair(PairOf(scripts, v))
  <2>1. ScriptOf(scripts, v, "up").mode \in Modes /\ ScriptOf(scripts, v, "down").mode \in Modes
    BY <1>3
  <2>2. v \in Nat
    BY <1>4
  <2> QED
    BY <2>1, <2>2, PairFacts DEF GoodPair
<1>6. Keyed(S)
  <2> HIDE DEF versions
  <2> QED
    BY <1>4, <1>5 DEF Keyed
<1>7. IsFiniteSet(S)
  <2> DEFINE f == [i \in DOMAIN scripts |-> PairOf(scripts, scripts[i].version)]
  <2>1. S = {f[i] : i \in DOMAIN scripts}
    OBVIOUS
  <2>2. f \in Surjection(DOMAIN scripts, S)
    BY <2>1 DEF Surjection
  <2> HIDE DEF f, S
  <2> QED
    BY <2>2, FS_Surjection
<1>8. /\ ByVersion(S) \in Seq(S) /\ Members(ByVersion(S)) = S /\ Ascends(ByVersion(S))
  <2> HIDE DEF S
  <2> QED
    BY <1>6, <1>7, ByVersionFacts
<1>9. \A p \in S : GoodPair(p)
  <2> HIDE DEF versions
  <2> QED
    BY <1>5
<1> QED
  <2> HIDE DEF S
  <2> QED
    BY <1>2, <1>8, <1>9

Good == {s \in Sources : CatalogOf[s].ok}
CatalogAt(s) == CatalogOf[s].value

LEMMA SourceFacts ==
    ASSUME NEW s \in Good
    PROVE  /\ CatalogAt(s) \in Seq(Members(CatalogAt(s))) /\ Ascends(CatalogAt(s))
           /\ \A p \in Members(CatalogAt(s)) : GoodPair(p)
<1> DEFINE a == Load(Root[s])
           assets == a.value
           parsed == [i \in DOMAIN assets |-> ParseAsset(assets[i])]
           scripts == [i \in DOMAIN assets |-> parsed[i].value]
           wrong(i) == IF ~parsed[i].ok THEN parsed[i].error ELSE Conflict(scripts, i)
           bad == {i \in DOMAIN assets : \/ ~parsed[i].ok
                                         \/ \A j \in 1..i : parsed[j].ok /\ wrong(i) # "none"}
           e == Err(wrong(CHOOSE i \in bad : \A j \in bad : i <= j))
<1>1. s \in Sources /\ CatalogOf[s] = FromSource(Root[s]) /\ CatalogOf[s].ok
  BY DEF Good, CatalogOf
<1>2. FromSource(Root[s]) = IF a.ok THEN FromAssets(assets) ELSE a
  BY DEF FromSource
<1>3. FromAssets(assets) = IF bad # {} THEN e ELSE Catalog(scripts)
  BY DEF FromAssets
<1>4. e.ok = FALSE
  BY DEF Err
<1>5. a.ok /\ bad = {} /\ CatalogOf[s] = Catalog(scripts)
  <2> HIDE DEF a, assets, bad, e, scripts
  <2> QED
    BY <1>1, <1>2, <1>3, <1>4
<1>6. \A i \in DOMAIN assets : ParseAsset(assets[i]).ok
  BY <1>5
<1>7. /\ IsFiniteSet(DOMAIN assets)
      /\ \A i \in DOMAIN assets : assets[i].file.numeric => assets[i].file.version \in Nat
  BY <1>1, <1>5, SourceAssumption
<1>8. \A i \in DOMAIN scripts : scripts[i].version \in Nat /\ scripts[i].mode \in Modes
  <2> HIDE DEF a, assets
  <2> QED
    BY <1>6, <1>7, AssetFacts
<1>9. DOMAIN scripts = DOMAIN assets
  OBVIOUS
<1> HIDE DEF scripts, a, assets
<1> QED
  BY <1>1, <1>5, <1>7, <1>8, <1>9, CatalogFacts DEF CatalogAt

-----------------------------------------------------------------------------
(* Rows and plans *)

GoodRow(x) ==
    /\ x.version \in Nat /\ x.up \in Modes /\ x.down \in Modes
    /\ x = [version |-> x.version, name |-> x.name, upSum |-> x.upSum, downSum |-> x.downSum,
            up |-> x.up, down |-> x.down]

LEMMA RowFacts ==
    ASSUME NEW p, GoodPair(p)
    PROVE  /\ GoodRow(Row(p)) /\ Row(p).version = p.version /\ Row(p).name = p.name
           /\ Row(p).up = p.up /\ Row(p).down = p.down
           /\ Row(p).upSum = p.upSum /\ Row(p).downSum = p.downSum
  BY DEF GoodPair, GoodRow, Row

(* What insert_applied_migration_sql wrote is read back as it was.         *)
LEMMA ParseRowFacts == ASSUME NEW x, GoodRow(x) PROVE ParseRow(x) = x
<1>1. ParseMode(x.up).value = x.up /\ ParseMode(x.down).value = x.down
  BY DEF GoodRow, Modes, ParseMode, Ok
<1>2. [x EXCEPT !.up = x.up] = x /\ [x EXCEPT !.down = x.down] = x
  BY DEF GoodRow
<1>3. [x EXCEPT !.up = x.up, !.down = x.down] = [[x EXCEPT !.up = x.up] EXCEPT !.down = x.down]
  OBVIOUS
<1> QED
  BY <1>1, <1>2, <1>3 DEF ParseRow

FirstRows(c, n) == {Row(c[i]) : i \in 1..n}
GoodCatalog(c) ==
    /\ c \in Seq(Members(c)) /\ Ascends(c)
    /\ \A i \in 1..Len(c) : GoodPair(c[i])

LEMMA GoodCatalogs == \A s \in Good : GoodCatalog(CatalogAt(s))
  BY SourceFacts DEF GoodCatalog, Members

LEMMA RowEquality ==
    ASSUME NEW x, GoodRow(x), NEW p, GoodPair(p),
           x.version = p.version, x.name = p.name, SameScript(x, p)
    PROVE  x = Row(p)
  BY DEF GoodRow, Row, SameScript

(* Applied rows that reconcile accepts are the first rows of the catalog.  *)
LEMMA ReconcileFacts ==
    ASSUME NEW S, IsFiniteSet(S), Keyed(S), \A x \in S : GoodRow(x),
           NEW c, GoodCatalog(c), NEW a, a = [i \in DOMAIN ByVersion(S) |-> ParseRow(ByVersion(S)[i])],
           Reconcile(a, c).ok
    PROVE  Len(a) \in 0..Len(c) /\ S = FirstRows(c, Len(a))
<1> DEFINE s == ByVersion(S)
           n == Len(s)
<1>1. s \in Seq(S) /\ Members(s) = S /\ Ascends(s)
  BY ByVersionFacts
<1> HIDE DEF s
<1>2. n \in Nat /\ DOMAIN s = 1..n /\ \A i \in 1..n : s[i] \in S
  BY <1>1
<1>3. a = s
  <2>1. \A i \in 1..n : ParseRow(s[i]) = s[i]
    BY <1>2, ParseRowFacts
  <2>2. a = [i \in 1..n |-> s[i]]
    BY <1>2, <2>1 DEF s
  <2> QED
    BY <1>1, <1>2, <2>2
<1>4. \A i \in 1..n : RowError(a, c, i) = "none"
  <2> DEFINE bad == {i \in DOMAIN a : RowError(a, c, i) # "none"}
  <2>1. Reconcile(a, c) = IF bad = {} THEN Ok(a)
                          ELSE Err(RowError(a, c, CHOOSE i \in bad : \A j \in bad : i <= j))
    BY DEF Reconcile
  <2>2. bad = {}
    <3> HIDE DEF bad
    <3> QED
      BY <2>1 DEF Err
  <2> QED
    BY <1>2, <1>3, <2>2
<1>5. Len(c) \in Nat /\ \A i \in 1..Len(c) : GoodPair(c[i])
  BY DEF GoodCatalog
<1>6. ASSUME NEW i \in 1..n PROVE i <= Len(c) /\ s[i] = Row(c[i])
  <2>1. RowError(s, c, i) = "none"
    BY <1>3, <1>4
  <2>2. /\ ~(i > Len(c))
        /\ s[i].version = c[i].version /\ s[i].name = c[i].name /\ SameScript(s[i], c[i])
    BY <2>1 DEF RowError
  <2>3. i <= Len(c) /\ i \in 1..Len(c)
    BY <1>2, <1>5, <2>2
  <2>4. GoodRow(s[i]) /\ GoodPair(c[i])
    BY <1>2, <1>5, <2>3
  <2> QED
    BY <2>2, <2>3, <2>4, RowEquality
<1>7. n <= Len(c)
  BY <1>2, <1>5, <1>6
<1>8. S = FirstRows(c, n)
  BY <1>1, <1>6 DEF Members, FirstRows
<1> QED
  BY <1>2, <1>3, <1>5, <1>7, <1>8

(* The plan leads from the n-th prefix of the catalog to its end, or down  *)
(* to the prefix of `want` rows.                                           *)
StepsOf(c) == [kind : {"up", "down"}, pair : Members(c)]
Way(c, dir, want, plan, n) ==
    /\ plan \in Seq(StepsOf(c)) /\ n \in 0..Len(c) /\ dir \in {"up", "down"} /\ want \in Nat
    /\ dir = "up" => /\ Len(plan) = Len(c) - n
                     /\ \A i \in 1..Len(plan) : plan[i] = Step("up", c[n + i])
    /\ dir = "down" => /\ Len(plan) = n - want
                       /\ \A i \in 1..Len(plan) : plan[i] = Step("down", c[n + 1 - i])

LEMMA StepFacts == \A k, p : Step(k, p).kind = k /\ Step(k, p).pair = p
  BY DEF Step

LEMMA WayEnds ==
    ASSUME NEW c, GoodCatalog(c), NEW dir, NEW want, NEW n, Way(c, dir, want, <<>>, n)
    PROVE  n = IF dir = "up" THEN Len(c) ELSE want
<1>1. Len(c) \in Nat
  BY DEF GoodCatalog
<1> QED
  BY <1>1 DEF Way

(* The first step of a plan, and what is left after it.                    *)
GoesOn(c, dir, want, plan, n) ==
    /\ plan[1].kind = dir
    /\ dir = "up" => /\ n + 1 \in 1..Len(c) /\ plan[1].pair = c[n + 1]
                     /\ Way(c, dir, want, Tail(plan), n + 1)
    /\ dir = "down" => /\ n \in 1..Len(c) /\ plan[1].pair = c[n]
                       /\ Way(c, dir, want, Tail(plan), n - 1)

LEMMA WayGoesOn ==
    ASSUME NEW c, GoodCatalog(c), NEW dir, NEW want, NEW plan, NEW n,
           Way(c, dir, want, plan, n), plan # <<>>
    PROVE  GoesOn(c, dir, want, plan, n)
<1>1. /\ Len(c) \in Nat /\ plan \in Seq(StepsOf(c)) /\ n \in 0..Len(c)
      /\ dir \in {"up", "down"} /\ want \in Nat
  BY DEF GoodCatalog, Way
<1>2. /\ Tail(plan) \in Seq(StepsOf(c)) /\ Len(Tail(plan)) = Len(plan) - 1
      /\ Len(plan) >= 1 /\ Len(plan) \in Nat
      /\ \A i \in 1..Len(Tail(plan)) : Tail(plan)[i] = plan[i + 1]
  BY <1>1, TailFacts
<1>3. CASE dir = "up"
  <2>1. Len(plan) = Len(c) - n /\ \A i \in 1..Len(plan) : plan[i] = Step("up", c[n + i])
    BY <1>3 DEF Way
  <2>2. n + 1 \in 1..Len(c) /\ plan[1] = Step("up", c[n + 1])
    BY <1>1, <1>2, <2>1
  <2>3. ASSUME NEW i \in 1..Len(Tail(plan)) PROVE Tail(plan)[i] = Step("up", c[n + 1 + i])
    <3>1. i + 1 \in 1..Len(plan) /\ n + (i + 1) = n + 1 + i /\ Tail(plan)[i] = plan[i + 1]
      BY <1>1, <1>2
    <3>2. plan[i + 1] = Step("up", c[n + (i + 1)])
      BY <2>1, <3>1
    <3> QED
      BY <3>1, <3>2
  <2>4. Len(Tail(plan)) = Len(c) - (n + 1)
    BY <1>1, <1>2, <2>1
  <2>5. n + 1 \in 0..Len(c)
    BY <2>2
  <2>6. Way(c, dir, want, Tail(plan), n + 1)
    BY <1>1, <1>2, <1>3, <2>3, <2>4, <2>5 DEF Way
  <2> QED
    BY <1>3, <2>2, <2>6, StepFacts DEF GoesOn
<1>4. CASE dir = "down"
  <2>1. Len(plan) = n - want /\ \A i \in 1..Len(plan) : plan[i] = Step("down", c[n + 1 - i])
    BY <1>4 DEF Way
  <2>2. n \in 1..Len(c) /\ plan[1] = Step("down", c[n])
    <3>1. 1 \in 1..Len(plan) /\ n + 1 - 1 = n /\ n \in 1..Len(c)
      BY <1>1, <1>2, <2>1
    <3>2. plan[1] = Step("down", c[n + 1 - 1])
      BY <2>1, <3>1
    <3> QED
      BY <3>1, <3>2
  <2>3. ASSUME NEW i \in 1..Len(Tail(plan)) PROVE Tail(plan)[i] = Step("down", c[(n - 1) + 1 - i])
    <3>1. i + 1 \in 1..Len(plan) /\ n + 1 - (i + 1) = (n - 1) + 1 - i /\ Tail(plan)[i] = plan[i + 1]
      BY <1>1, <1>2
    <3>2. plan[i + 1] = Step("down", c[n + 1 - (i + 1)])
      BY <2>1, <3>1
    <3> QED
      BY <3>1, <3>2
  <2>4. Len(Tail(plan)) = (n - 1) - want
    BY <1>1, <1>2, <2>1
  <2>5. n - 1 \in 0..Len(c)
    BY <1>1, <2>2
  <2>6. Way(c, dir, want, Tail(plan), n - 1)
    BY <1>1, <1>2, <1>4, <2>3, <2>4, <2>5 DEF Way
  <2> QED
    BY <1>4, <2>2, <2>6, StepFacts DEF GoesOn
<1> QED
  BY <1>1, <1>3, <1>4

WantOf(steps, n) == IF steps < n THEN n - steps ELSE 0

(* What plan_apply and plan_rollback plan from n applied rows.             *)
LEMMA PlanApplyFacts ==
    ASSUME NEW c, GoodCatalog(c), NEW a, Len(a) \in 0..Len(c), PlanApply(a, c).ok, NEW want \in Nat
    PROVE  Way(c, "up", want, PlanApply(a, c).value, Len(a))
<1> DEFINE n == Len(a)
           p == [i \in 1..(Len(c) - n) |-> Step("up", c[n + i])]
<1>1. Len(c) \in Nat /\ c \in Seq(Members(c))
  BY DEF GoodCatalog
<1>2. PlanApply(a, c) = IF ~Reconcile(a, c).ok THEN Reconcile(a, c) ELSE Ok(p)
  BY DEF PlanApply
<1>3. PlanApply(a, c).value = p
  <2> HIDE DEF p
  <2> QED
    BY <1>2 DEF Ok
<1>4. n \in 0..Len(c) /\ Len(c) - n \in Nat
  BY <1>1
<1> HIDE DEF n
<1>5. \A i \in 1..(Len(c) - n) : Step("up", c[n + i]) \in StepsOf(c)
  <2>1. \A i \in 1..(Len(c) - n) : n + i \in 1..Len(c)
    BY <1>1, <1>4
  <2>2. \A i \in 1..(Len(c) - n) : c[n + i] \in Members(c)
    BY <2>1 DEF Members
  <2> QED
    BY <2>2 DEF StepsOf, Step
<1>6. p \in Seq(StepsOf(c)) /\ Len(p) = Len(c) - n
  BY <1>4, <1>5
<1> QED
  BY <1>3, <1>4, <1>6 DEF Way, n

LEMMA PlanRollbackFacts ==
    ASSUME NEW c, GoodCatalog(c), NEW a, Len(a) \in 0..Len(c), NEW steps \in Nat,
           PlanRollback(a, c, steps).ok
    PROVE  Way(c, "down", WantOf(steps, Len(a)), PlanRollback(a, c, steps).value, Len(a))
<1> DEFINE n == Len(a)
           m == IF steps < n THEN steps ELSE n
           p == [i \in 1..m |-> Step("down", c[n + 1 - i])]
<1>1. Len(c) \in Nat /\ c \in Seq(Members(c))
  BY DEF GoodCatalog
<1>2. PlanRollback(a, c, steps) = IF ~Reconcile(a, c).ok THEN Reconcile(a, c) ELSE Ok(p)
  BY DEF PlanRollback
<1>3. PlanRollback(a, c, steps).value = p
  <2> HIDE DEF p
  <2> QED
    BY <1>2 DEF Ok
<1>4. n \in 0..Len(c) /\ m \in 0..n /\ m = n - WantOf(steps, n) /\ WantOf(steps, n) \in Nat
  BY <1>1 DEF WantOf
<1> HIDE DEF n, m
<1>5. \A i \in 1..m : Step("down", c[n + 1 - i]) \in StepsOf(c)
  <2>1. \A i \in 1..m : n + 1 - i \in 1..Len(c)
    BY <1>1, <1>4
  <2>2. \A i \in 1..m : c[n + 1 - i] \in Members(c)
    BY <2>1 DEF Members
  <2> QED
    BY <2>2 DEF StepsOf, Step
<1>6. p \in Seq(StepsOf(c)) /\ Len(p) = m
  <2>1. m \in Nat
    BY <1>1, <1>4
  <2> QED
    BY <2>1, <1>5
<1> QED
  BY <1>3, <1>4, <1>6 DEF Way, n

(* The rows of neighbouring prefixes.                                      *)
LEMMA NextPrefix ==
    ASSUME NEW c, GoodCatalog(c), NEW n \in 1..Len(c)
    PROVE  /\ FirstRows(c, n) = FirstRows(c, n - 1) \cup {Row(c[n])}
           /\ \A x \in FirstRows(c, n - 1) : x.version # c[n].version
           /\ FirstRows(c, n - 1) = {x \in FirstRows(c, n) : x.version # c[n].version}
           /\ Row(c[n]).version = c[n].version /\ GoodPair(c[n])
<1>1. Len(c) \in Nat /\ DOMAIN c = 1..Len(c) /\ \A i \in 1..Len(c) : GoodPair(c[i])
  BY DEF GoodCatalog
<1>2. \A i \in 1..Len(c) : c[i].version \in Nat /\ Row(c[i]).version = c[i].version
  BY <1>1, RowFacts DEF GoodPair
<1>3. \A i \in 1..(n - 1) : i \in 1..Len(c) /\ c[i].version < c[n].version
  BY <1>1 DEF GoodCatalog, Ascends
<1>4. \A i \in 1..n : i = n \/ i \in 1..(n - 1)
  BY <1>1
<1>5. FirstRows(c, n) = FirstRows(c, n - 1) \cup {Row(c[n])}
  <2>1. 1..n = 1..(n - 1) \cup {n}
    BY <1>1
  <2> QED
    BY <2>1 DEF FirstRows
<1>6. \A x \in FirstRows(c, n - 1) : x.version # c[n].version
  BY <1>1, <1>2, <1>3 DEF FirstRows
<1>7. FirstRows(c, n - 1) = {x \in FirstRows(c, n) : x.version # c[n].version}
  BY <1>2, <1>5, <1>6
<1> QED
  BY <1>1, <1>2, <1>5, <1>6, <1>7

(* The catalogs of the abstract history.                                   *)
RowsOf(s) == [i \in DOMAIN CatalogAt(s) |-> Row(CatalogAt(s)[i])]

LEMMA CatalogRows ==
    ASSUME NEW s \in Good
    PROVE  LET c == CatalogAt(s) IN
           /\ RowsOf(s) \in Catalogs /\ Len(RowsOf(s)) = Len(c) /\ Len(c) \in Nat
           /\ DOMAIN RowsOf(s) = 1..Len(c) /\ DOMAIN c = 1..Len(c)
           /\ \A i \in 1..Len(c) : /\ RowsOf(s)[i] = Row(c[i]) /\ c[i].version \in Versions
                                    /\ GoodPair(c[i])
<1> DEFINE c == CatalogAt(s)
<1>1. GoodCatalog(c)
  BY GoodCatalogs
<1>2. Len(c) \in Nat /\ DOMAIN c = 1..Len(c) /\ \A i \in 1..Len(c) : GoodPair(c[i])
  BY <1>1 DEF GoodCatalog
<1>3. RowsOf(s) \in Catalogs
  BY DEF Catalogs, RowsOf, CatalogAt, Good
<1>4. /\ DOMAIN RowsOf(s) = 1..Len(c) /\ Len(RowsOf(s)) = Len(c)
      /\ \A i \in 1..Len(c) : RowsOf(s)[i] = Row(c[i])
  <2> HIDE DEF c
  <2>1. RowsOf(s) = [i \in 1..Len(c) |-> Row(c[i])]
    BY <1>2 DEF RowsOf, c
  <2> QED
    BY <1>2, <2>1
<1>5. \A i \in 1..Len(c) : c[i].version \in Versions
  <2>1. \A i \in 1..Len(c) : RowsOf(s)[i].version = c[i].version
    BY <1>2, <1>4, RowFacts
  <2> QED
    BY <1>3, <1>4, <2>1 DEF Versions
<1> QED
  BY <1>2, <1>3, <1>4, <1>5

(* What the transaction of a step has done before its COMMIT.              *)
Transactional(s) == s.pair[s.kind] = "transactional"
ScriptOp(s) == [op |-> s.kind, row |-> Row(s.pair)]
StateOp(s) == [op |-> IF s.kind = "up" THEN "insert" ELSE "delete", row |-> Row(s.pair)]
Scripted(s) == IF Transactional(s) THEN Apply(NoWork, ScriptOp(s)) ELSE NoWork
Recorded(s) == Apply(Scripted(s), StateOp(s))
Delta(s) == IF s.kind = "up" THEN 1 ELSE -1

LEMMA ScriptFacts ==
    ASSUME NEW s, s.kind \in {"up", "down"}, GoodPair(s.pair)
    PROVE  Apply(NoWork, ScriptOp(s)) =
             [net |-> [v \in Versions |-> IF v = s.pair.version THEN Delta(s) ELSE 0],
              added |-> {}, removed |-> {}]
<1>1. Row(s.pair).version = s.pair.version
  BY RowFacts
<1>2. ScriptOp(s).op = s.kind /\ ScriptOp(s).row.version = s.pair.version
  BY <1>1 DEF ScriptOp
<1>3. CASE s.kind = "up"
  <2>1. Apply(NoWork, ScriptOp(s)) = [NoWork EXCEPT !.net[s.pair.version] = @ + 1]
    BY <1>2, <1>3 DEF Apply
  <2> QED
    BY <2>1, <1>3 DEF NoWork, Delta
<1>4. CASE s.kind = "down"
  <2>1. Apply(NoWork, ScriptOp(s)) = [NoWork EXCEPT !.net[s.pair.version] = @ - 1]
    BY <1>2, <1>4 DEF Apply
  <2> QED
    BY <2>1, <1>4 DEF NoWork, Delta
<1> QED
  BY <1>3, <1>4

LEMMA ScriptedFacts ==
    ASSUME NEW s, s.kind \in {"up", "down"}, GoodPair(s.pair)
    PROVE  Scripted(s) =
             [net |-> [v \in Versions |-> IF v = s.pair.version /\ Transactional(s)
                                          THEN Delta(s) ELSE 0],
              added |-> {}, removed |-> {}]
<1>1. CASE Transactional(s)
  BY <1>1, ScriptFacts DEF Scripted
<1>2. CASE ~Transactional(s)
  BY <1>2 DEF Scripted, NoWork
<1> QED
  BY <1>1, <1>2

LEMMA RecordedFacts ==
    ASSUME NEW s, s.kind \in {"up", "down"}, GoodPair(s.pair)
    PROVE  /\ Recorded(s).net = [v \in Versions |-> IF v = s.pair.version /\ Transactional(s)
                                                    THEN Delta(s) ELSE 0]
           /\ s.kind = "up" => Recorded(s).added = {Row(s.pair)} /\ Recorded(s).removed = {}
           /\ s.kind = "down" => Recorded(s).added = {} /\ Recorded(s).removed = {s.pair.version}
<1> DEFINE w == Scripted(s)
           f == [v \in Versions |-> IF v = s.pair.version /\ Transactional(s) THEN Delta(s) ELSE 0]
<1>1. Row(s.pair).version = s.pair.version
  BY RowFacts
<1>2. w = [net |-> f, added |-> {}, removed |-> {}]
  BY ScriptedFacts
<1> HIDE DEF f, w
<1>3. CASE s.kind = "up"
  <2>1. Recorded(s) = [w EXCEPT !.added = @ \cup {Row(s.pair)}]
    BY <1>3 DEF Recorded, StateOp, Apply, w
  <2> QED
    BY <1>2, <1>3, <2>1 DEF f
<1>4. CASE s.kind = "down"
  <2>1. Recorded(s) = [w EXCEPT !.added = {x \in @ : x.version # s.pair.version},
                                !.removed = @ \cup {s.pair.version}]
    BY <1>1, <1>4 DEF Recorded, StateOp, Apply, w
  <2> QED
    BY <1>2, <1>4, <2>1 DEF f
<1> QED
  BY <1>3, <1>4

-----------------------------------------------------------------------------
(* The history.  Its invariant is about the rows rs and the counts nt of a *)
(* state, and the call c and the work w of a runner in it.                 *)

Working == {"alone", "begin", "script", "record", "commit"}

Table(rs, nt) ==
    /\ IsFiniteSet(rs) /\ Keyed(rs) /\ \A x \in rs : GoodRow(x)
    /\ nt \in [Versions -> Int]

Asked(c) == c.source \in Sources /\ c.steps \in Nat /\ c.dir \in {"up", "down"}

(* The rows are the prefix that the rest of the plan starts from.          *)
Follows(rs, c) ==
    /\ c.source \in Good
    /\ \E n \in 0..Len(CatalogAt(c.source)) :
          /\ rs = FirstRows(CatalogAt(c.source), n)
          /\ Way(CatalogAt(c.source), c.dir, WantOf(c.steps, c.before), c.plan, n)

Planned(rs, c, w) ==
    /\ c.pc # "idle" => Asked(c)
    /\ c.pc \in Working => Follows(rs, c) /\ c.plan # <<>>
    /\ c.pc = "unlock" /\ c.ok => Follows(rs, c) /\ c.plan = <<>>
    /\ c.pc = "alone" => ~Transactional(c.plan[1])
    /\ c.pc = "script" => Transactional(c.plan[1]) /\ w = NoWork
    /\ c.pc = "record" => w = Scripted(c.plan[1])
    /\ c.pc = "commit" => w = Recorded(c.plan[1])

Rec(rs, v) == IF \E x \in rs : x.version = v THEN 1 ELSE 0
Always(k, v) ==
    \A d \in Catalogs : \A i \in DOMAIN d : d[i].version = v => d[i][k] = "transactional"
Effects(rs, nt) ==
    \A v \in Versions : /\ Always("up", v) => nt[v] <= Rec(rs, v)
                        /\ Always("down", v) => nt[v] >= Rec(rs, v)

(* A script that opted out of transactions has run ahead of its record.    *)
Ahead(rs, nt, c) ==
    LET v == c.plan[1].pair.version IN
    c.pc \in {"begin", "record", "commit"} /\ ~Transactional(c.plan[1]) =>
        /\ (c.plan[1].kind = "up" /\ Always("down", v)) => nt[v] >= Rec(rs, v) + 1
        /\ (c.plan[1].kind = "down" /\ Always("up", v)) => nt[v] <= Rec(rs, v) - 1

HistoryInv ==
    /\ Table(rows, net) /\ Effects(rows, net)
    /\ \A r \in Runners : Planned(rows, call[r], work[r]) /\ Ahead(rows, net, call[r])

LEMMA IdleIsPlanned ==
    ASSUME NEW c, c.pc = "idle"
    PROVE  \A rs, nt, w : Planned(rs, c, w) /\ Ahead(rs, nt, c)
  BY DEF Planned, Ahead, Working

(* A call that carries no plan, or has given up.                           *)
LEMMA AskedIsPlanned ==
    ASSUME NEW c, Asked(c), c.pc \in {"ensure", "lock", "load", "rollback", "unlock"},
           c.pc = "unlock" => ~c.ok
    PROVE  \A rs, nt, w : Planned(rs, c, w) /\ Ahead(rs, nt, c)
  BY DEF Planned, Ahead, Working

LEMMA NextStepIsPlanned ==
    ASSUME NEW rs, NEW nt, NEW c, NEW w, Asked(c), Follows(rs, c), c.pc = NextStep(c.plan)
    PROVE  Planned(rs, c, w) /\ Ahead(rs, nt, c)
<1>1. CASE c.plan = <<>>
  BY <1>1 DEF Planned, Ahead, Working, NextStep
<1>2. CASE c.plan # <<>> /\ Transactional(c.plan[1])
  <2>1. c.pc = "begin"
    BY <1>2 DEF NextStep, Transactional
  <2> QED
    BY <1>2, <2>1 DEF Planned, Ahead, Working
<1>3. CASE c.plan # <<>> /\ ~Transactional(c.plan[1])
  <2>1. c.pc = "alone"
    BY <1>3 DEF NextStep, Transactional
  <2> QED
    BY <1>3, <2>1 DEF Planned, Ahead, Working
<1> QED
  BY <1>1, <1>2, <1>3

OnlyCall(r, c, w) ==
    /\ call'[r] = c /\ work'[r] = w
    /\ \A q \in Runners \ {r} : call'[q] = call[q] /\ work'[q] = work[q]

LEMMA LeavesCall ==
    ASSUME Shapes, NEW r \in Runners, NEW c, NEW t, NEW w, NEW k, NEW a, NEW l,
           Leaves(r, c, t, w, k, a, l)
    PROVE  OnlyCall(r, c, w)
  BY DEF Shapes, Leaves, Becomes, OnlyCall

(* A step that leaves the database alone.                                  *)
LEMMA QuietKeeps ==
    ASSUME Shapes, HistoryInv, UNCHANGED db, NEW r \in Runners,
           NEW c, NEW t, NEW w, NEW k, NEW a, NEW l,
           Leaves(r, c, t, w, k, a, l),
           Planned(rows, c, w), Ahead(rows, net, c)
    PROVE  HistoryInv'
<1>1. OnlyCall(r, c, w)
  BY LeavesCall
<1>2. rows' = rows /\ net' = net
  BY DEF db
<1>3. ASSUME NEW q \in Runners
      PROVE  Planned(rows', call'[q], work'[q]) /\ Ahead(rows', net', call'[q])
  <2>1. CASE q = r
    BY <1>1, <1>2, <2>1 DEF OnlyCall
  <2>2. CASE q # r
    <3>1. call'[q] = call[q] /\ work'[q] = work[q]
      BY <1>1, <2>2 DEF OnlyCall
    <3> QED
      BY <1>2, <3>1 DEF HistoryInv
  <2> QED
    BY <2>1, <2>2
<1> QED
  BY <1>2, <1>3 DEF HistoryInv

(* A step of the holder of the lock that changes the database.             *)
LEMMA WriteKeeps ==
    ASSUME LockInv, HistoryInv, NEW r \in Runners, call[r].pc \in Past,
           NEW c, NEW t, NEW w, NEW k, NEW a, NEW l,
           Leaves(r, c, t, w, k, a, l),
           Table(rows', net'), Effects(rows', net'),
           Planned(rows', c, w), Ahead(rows', net', c)
    PROVE  HistoryInv'
<1>1. OnlyCall(r, c, w)
  BY LeavesCall DEF LockInv
<1>3. ASSUME NEW q \in Runners
      PROVE  Planned(rows', call'[q], work'[q]) /\ Ahead(rows', net', call'[q])
  <2>1. CASE q = r
    BY <1>1, <2>1 DEF OnlyCall
  <2>2. CASE q # r
    <3>1. call'[q] = call[q] /\ work'[q] = work[q]
      BY <1>1, <2>2 DEF OnlyCall
    <3>2. call[q].pc \notin Past /\ call[q].pc \in PCs
      BY <2>2 DEF LockInv, Locked, Exclusive, Shapes
    <3>3. call[q].pc # "idle" => Asked(call[q])
      BY DEF HistoryInv, Planned
    <3>4. CASE call[q].pc = "idle"
      BY <3>1, <3>4, IdleIsPlanned
    <3>5. CASE call[q].pc # "idle"
      BY <3>1, <3>2, <3>3, <3>5, AskedIsPlanned DEF Past, PCs
    <3> QED
      BY <3>4, <3>5
  <2> QED
    BY <2>1, <2>2
<1> QED
  BY <1>3 DEF HistoryInv

LEMMA InitHistory == ASSUME Init PROVE HistoryInv
<1>1. Table(rows, net)
  <2>1. IsFiniteSet({})
    BY FS_EmptySet
  <2> QED
    BY <2>1 DEF Init, Table, Keyed
<1>2. Effects(rows, net)
  BY DEF Init, Effects, Rec
<1>3. \A r \in Runners : call[r].pc = "idle"
  BY CallFacts DEF Init
<1>4. \A r \in Runners : Planned(rows, call[r], work[r]) /\ Ahead(rows, net, call[r])
  BY <1>3, IdleIsPlanned
<1> QED
  BY <1>1, <1>2, <1>4 DEF HistoryInv

LEMMA CallFields ==
    ASSUME NEW r, NEW pc
    PROVE  /\ Gone(r, pc).pc = pc /\ Gone(r, pc).plan = call[r].plan
           /\ Gone(r, pc).before = call[r].before
           /\ Gone(r, pc).source = call[r].source /\ Gone(r, pc).dir = call[r].dir
           /\ Gone(r, pc).steps = call[r].steps
           /\ Bailed(r).pc = "unlock" /\ ~Bailed(r).ok
           /\ Bailed(r).source = call[r].source /\ Bailed(r).dir = call[r].dir
           /\ Bailed(r).steps = call[r].steps
           /\ Idle.pc = "idle"
<1>1. /\ Gone(r, pc).pc = pc /\ Gone(r, pc).plan = call[r].plan
      /\ Gone(r, pc).before = call[r].before
      /\ Gone(r, pc).source = call[r].source /\ Gone(r, pc).dir = call[r].dir
      /\ Gone(r, pc).steps = call[r].steps
  BY WithIsShaped DEF Gone
<1>2. \A o : LET c == With(call[r], "unlock", o, call[r].plan, call[r].before)
             IN  /\ c.pc = "unlock" /\ c.ok = o
                 /\ c.source = call[r].source /\ c.dir = call[r].dir /\ c.steps = call[r].steps
  BY WithIsShaped
<1>3. /\ Bailed(r).pc = "unlock" /\ Bailed(r).ok = FALSE
      /\ Bailed(r).source = call[r].source /\ Bailed(r).dir = call[r].dir
      /\ Bailed(r).steps = call[r].steps
  BY <1>2, Zenon DEF Bailed
<1> QED
  BY <1>1, <1>3, WithIsShaped

(* A call that ends, and one that gives up.                                *)
LEMMA EndKeeps ==
    ASSUME LockInv, HistoryInv, UNCHANGED db, NEW r \in Runners,
           NEW t, NEW w, NEW k, NEW a, NEW l, Leaves(r, Idle, t, w, k, a, l)
    PROVE  HistoryInv'
<1>1. Planned(rows, Idle, w) /\ Ahead(rows, net, Idle)
  BY CallFields, IdleIsPlanned
<1> QED
  BY <1>1, QuietKeeps DEF LockInv

LEMMA GiveUpKeeps ==
    ASSUME LockInv, HistoryInv, UNCHANGED db, NEW r \in Runners, call[r].pc # "idle",
           NEW c \in {Bailed(r), Gone(r, "rollback"), Gone(r, "lock"), Gone(r, "load")},
           NEW t, NEW w, NEW k, NEW a, NEW l, Leaves(r, c, t, w, k, a, l)
    PROVE  HistoryInv'
<1>1. Asked(call[r])
  BY DEF HistoryInv, Planned
<1>2. /\ Asked(c) /\ c.pc \in {"ensure", "lock", "load", "rollback", "unlock"}
      /\ c.pc = "unlock" => ~c.ok
  BY <1>1, CallFields DEF Asked
<1>3. Planned(rows, c, w) /\ Ahead(rows, net, c)
  BY <1>2, AskedIsPlanned
<1> QED
  BY <1>3, QuietKeeps DEF LockInv

LEMMA StartKeeps ==
    ASSUME LockInv, HistoryInv, NEW r \in Runners, Start(r)
    PROVE  HistoryInv' /\ UNCHANGED db
<1>1. Shapes
  BY DEF LockInv
<1>2. PICK s \in Sources, d \in Directions, clean \in BOOLEAN :
        Leaves(r, Started(s, d, clean), tx[r], work[r], locks[r], waiting[r], left[r])
  BY <1>1, StartLeaves
<1>3. UNCHANGED db
  BY <1>1, StartLeaves
<1> DEFINE c == Started(s, d, clean)
<1>4. Asked(c) /\ c.pc = "ensure"
  <2>1. d.steps \in Nat /\ d.dir \in {"up", "down"}
    BY RunnerAssumption DEF Directions
  <2> QED
    BY <2>1 DEF Started, Asked
<1> HIDE DEF c
<1>5. Planned(rows, c, work[r]) /\ Ahead(rows, net, c)
  BY <1>4, AskedIsPlanned
<1> QED
  BY <1>1, <1>2, <1>3, <1>5, QuietKeeps DEF c

LEMMA EnsureKeeps ==
    ASSUME LockInv, HistoryInv, NEW r \in Runners, Ensure(r)
    PROVE  HistoryInv' /\ UNCHANGED db
  BY EnsureLeaves, GiveUpKeeps, EndKeeps DEF LockInv

LEMMA AcquireKeeps ==
    ASSUME LockInv, HistoryInv, NEW r \in Runners, Acquire(r)
    PROVE  HistoryInv' /\ UNCHANGED db
<1>1. Shapes /\ UNCHANGED db
  BY AcquireLeaves DEF LockInv
<1>2. CASE /\ call[r].pc = "lock"
           /\ Leaves(r, Gone(r, "load"), tx[r], work[r], locks[r] + 1, FALSE, left[r])
  BY <1>1, <1>2, GiveUpKeeps
<1>3. CASE Leaves(r, call[r], tx[r], work[r], locks[r] + 1, FALSE, left[r])
  <2>1. Planned(rows, call[r], work[r]) /\ Ahead(rows, net, call[r])
    BY DEF HistoryInv
  <2> QED
    BY <1>1, <1>3, <2>1, QuietKeeps
<1> QED
  BY <1>1, <1>2, <1>3, AcquireLeaves

LEMMA EndingsKeep ==
    ASSUME LockInv, HistoryInv, NEW r \in Runners,
           AcquireFails(r) \/ Rollback(r) \/ Unlock(r) \/ Break(r) \/ DropCall(r) \/ Recycle(r)
    PROVE  HistoryInv' /\ UNCHANGED db
<1>1. Shapes
  BY DEF LockInv
<1>2. CASE AcquireFails(r)
  BY <1>1, <1>2, AcquireFailsLeaves, EndKeeps
<1>3. CASE Rollback(r)
  BY <1>1, <1>3, RollbackLeaves, GiveUpKeeps
<1>4. CASE Unlock(r)
  BY <1>1, <1>4, UnlockLeaves, EndKeeps
<1>5. CASE Break(r)
  BY <1>1, <1>5, BreakLeaves, EndKeeps
<1>6. CASE DropCall(r)
  BY <1>1, <1>6, DropCallLeaves, EndKeeps
<1>7. CASE Recycle(r)
  <2>1. /\ UNCHANGED db /\ call[r].pc = "idle"
        /\ Leaves(r, call[r], "none", NoWork, locks[r], waiting[r], left[r])
    BY <1>1, <1>7, RecycleLeaves
  <2>2. Planned(rows, call[r], NoWork) /\ Ahead(rows, net, call[r])
    BY <2>1, IdleIsPlanned
  <2> QED
    BY <1>1, <2>1, <2>2, QuietKeeps
<1> QED
  BY <1>2, <1>3, <1>4, <1>5, <1>6, <1>7

(* What a session sees without work of its own.                            *)
LEMMA SeenRows == ASSUME NEW r, work[r] = NoWork PROVE Seen(r).rows = rows
  BY DEF Seen, After, NoWork

(* The plan is made from the rows, while nobody else can change them.      *)
LEMMA PlanIsFollowed ==
    ASSUME HistoryInv, NEW r \in Runners, work[r] = NoWork, Asked(call[r]), PlanOf(r).ok,
           NEW c, c.source = call[r].source, c.dir = call[r].dir, c.steps = call[r].steps,
           c.plan = PlanOf(r).value, c.before = Len(Applied(r))
    PROVE  Follows(rows, c)
<1> DEFINE s == call[r].source
           d == CatalogAt(s)
           a == Applied(r)
           steps == call[r].steps
<1>1. /\ s \in Sources /\ steps \in Nat /\ call[r].dir \in {"up", "down"}
  BY DEF Asked
<1>2. CatalogOf[s].ok
  BY DEF PlanOf
<1>3. s \in Good
  BY <1>1, <1>2 DEF Good
<1>4. GoodCatalog(d)
  BY <1>3, GoodCatalogs
<1>5. a = [i \in DOMAIN ByVersion(rows) |-> ParseRow(ByVersion(rows)[i])]
  BY SeenRows DEF Applied
<1>6. IsFiniteSet(rows) /\ Keyed(rows) /\ \A x \in rows : GoodRow(x)
  BY DEF HistoryInv, Table
<1>7. PlanOf(r) = IF call[r].dir = "up" THEN PlanApply(a, d) ELSE PlanRollback(a, d, steps)
  BY <1>1, <1>2 DEF PlanOf, CatalogAt
<1> HIDE DEF a, d, s, steps
<1>8. Reconcile(a, d).ok
  BY <1>7 DEF PlanApply, PlanRollback
<1>9. Len(a) \in 0..Len(d) /\ rows = FirstRows(d, Len(a))
  BY <1>4, <1>5, <1>6, <1>8, ReconcileFacts
<1>10. WantOf(steps, Len(a)) \in Nat
  <2>1. Len(d) \in Nat
    BY <1>4 DEF GoodCatalog
  <2> QED
    BY <1>1, <1>9, <2>1 DEF WantOf
<1>11. Way(d, call[r].dir, WantOf(steps, Len(a)), PlanOf(r).value, Len(a))
  <2>1. CASE call[r].dir = "up"
    BY <1>4, <1>7, <1>9, <1>10, <2>1, PlanApplyFacts
  <2>2. CASE call[r].dir = "down"
    BY <1>1, <1>4, <1>7, <1>9, <2>2, PlanRollbackFacts
  <2> QED
    BY <1>1, <2>1, <2>2
<1> QED
  BY <1>3, <1>9, <1>11 DEF Follows, d, s, a, steps

LEMMA LoadKeeps ==
    ASSUME LockInv, HistoryInv, ~ReuseOpen, NEW r \in Runners, LoadAndPlan(r)
    PROVE  HistoryInv' /\ UNCHANGED db
<1>1. Shapes /\ call[r].pc = "load" /\ UNCHANGED db
  BY LoadLeaves DEF LockInv
<1>2. Asked(call[r])
  BY <1>1 DEF HistoryInv, Planned
<1>3. work[r] = NoWork
  BY <1>1 DEF LockInv, Ready, Locked, Outside
<1> DEFINE c == With(call[r], NextStep(PlanOf(r).value), call[r].ok, PlanOf(r).value, Len(Applied(r)))
<1>4. CASE PlanOf(r).ok /\ Leaves(r, c, tx[r], work[r], locks[r], waiting[r], left[r])
  <2>1. /\ c.source = call[r].source /\ c.dir = call[r].dir /\ c.steps = call[r].steps
        /\ c.plan = PlanOf(r).value /\ c.before = Len(Applied(r)) /\ c.pc = NextStep(c.plan)
    BY WithIsShaped
  <2> HIDE DEF c
  <2>2. Follows(rows, c)
    BY <1>2, <1>3, <1>4, <2>1, PlanIsFollowed
  <2>3. Asked(c)
    BY <1>2, <2>1 DEF Asked
  <2>4. Planned(rows, c, work[r]) /\ Ahead(rows, net, c)
    BY <2>1, <2>2, <2>3, NextStepIsPlanned
  <2> QED
    BY <1>1, <1>4, <2>4, QuietKeeps
<1>5. CASE Leaves(r, Bailed(r), tx[r], work[r], locks[r], waiting[r], left[r])
  BY <1>1, <1>5, GiveUpKeeps
<1>6. CASE Leaves(r, Bailed(r), Failing(tx[r]), work[r], locks[r], waiting[r], left[r])
  BY <1>1, <1>6, GiveUpKeeps
<1>7. \/ PlanOf(r).ok /\ Leaves(r, c, tx[r], work[r], locks[r], waiting[r], left[r])
      \/ Leaves(r, Bailed(r), tx[r], work[r], locks[r], waiting[r], left[r])
      \/ Leaves(r, Bailed(r), Failing(tx[r]), work[r], locks[r], waiting[r], left[r])
  BY <1>1, LoadLeaves
<1> QED
  BY <1>1, <1>4, <1>5, <1>6, <1>7

(* A call that goes on with its plan where it was.                         *)
LEMMA GoneFollows ==
    ASSUME NEW r, NEW pc, NEW rs
    PROVE  /\ Follows(rs, call[r]) => Follows(rs, Gone(r, pc))
           /\ Asked(call[r]) => Asked(Gone(r, pc))
<1> DEFINE c == Gone(r, pc)
<1>1. /\ c.plan = call[r].plan /\ c.before = call[r].before
      /\ c.source = call[r].source /\ c.dir = call[r].dir /\ c.steps = call[r].steps
  BY CallFields
<1> HIDE DEF c
<1> QED
  BY <1>1 DEF Follows, Asked, c

LEMMA BeginKeeps ==
    ASSUME LockInv, HistoryInv, ~ReuseOpen, NEW r \in Runners, Begin(r)
    PROVE  HistoryInv' /\ UNCHANGED db
<1>1. Shapes /\ call[r].pc = "begin" /\ UNCHANGED db
  BY BeginLeaves DEF LockInv
<1>2. /\ Asked(call[r]) /\ Follows(rows, call[r]) /\ call[r].plan # <<>>
      /\ Ahead(rows, net, call[r])
  BY <1>1 DEF HistoryInv, Planned, Working
<1>3. work[r] = NoWork
  BY <1>1 DEF LockInv, Ready, Locked, Outside
<1> DEFINE first == IF Transactional(call[r].plan[1]) THEN "script" ELSE "record"
           c == Gone(r, first)
<1>4. CASE Leaves(r, c, "open", work[r], locks[r], waiting[r], left[r])
  <2>1. c.pc = first /\ c.plan = call[r].plan
    BY CallFields
  <2>2. Asked(c) /\ Follows(rows, c)
    BY <1>2, GoneFollows
  <2> HIDE DEF c
  <2>3. CASE Transactional(call[r].plan[1])
    <3>1. Planned(rows, c, work[r]) /\ Ahead(rows, net, c)
      BY <1>2, <1>3, <2>1, <2>2, <2>3 DEF Planned, Ahead, Working
    <3> QED
      BY <1>1, <1>4, <3>1, QuietKeeps
  <2>4. CASE ~Transactional(call[r].plan[1])
    <3>1. Planned(rows, c, work[r])
      BY <1>2, <1>3, <2>1, <2>2, <2>4 DEF Planned, Working, Scripted
    <3>2. Ahead(rows, net, c)
      BY <1>1, <1>2, <2>1, <2>4 DEF Ahead
    <3> QED
      BY <1>1, <1>4, <3>1, <3>2, QuietKeeps
  <2> QED
    BY <2>3, <2>4
<1>5. CASE Leaves(r, Bailed(r), Failing(tx[r]), work[r], locks[r], waiting[r], left[r])
  BY <1>1, <1>5, GiveUpKeeps
<1>6. \/ Leaves(r, c, "open", work[r], locks[r], waiting[r], left[r])
      \/ Leaves(r, Bailed(r), Failing(tx[r]), work[r], locks[r], waiting[r], left[r])
  BY <1>1, BeginLeaves DEF Transactional
<1> QED
  BY <1>1, <1>4, <1>5, <1>6

LEMMA ScriptKeeps ==
    ASSUME LockInv, HistoryInv, ~ReuseOpen, NEW r \in Runners, Script(r)
    PROVE  HistoryInv' /\ UNCHANGED db
<1>1. Shapes /\ call[r].pc = "script"
  BY ScriptLeaves DEF LockInv
<1>2. /\ Asked(call[r]) /\ Follows(rows, call[r]) /\ call[r].plan # <<>>
      /\ Transactional(call[r].plan[1]) /\ work[r] = NoWork
  BY <1>1 DEF HistoryInv, Planned, Working
<1>3. tx[r] = "open"
  BY <1>1 DEF LockInv, Ready, Inside
<1> DEFINE c == Gone(r, "record")
           op == Op(r, call[r].plan[1].kind)
<1>4. CASE Does(r, op) /\ Leaves(r, c, tx[r], work'[r], locks[r], waiting[r], left[r])
  <2>1. UNCHANGED db /\ work'[r] = Apply(work[r], op)
    BY <1>1, <1>3, <1>4, DoesFacts
  <2>2. work'[r] = Scripted(call[r].plan[1])
    BY <1>2, <2>1 DEF Op, Scripted, ScriptOp
  <2>3. c.pc = "record" /\ c.plan = call[r].plan
    BY CallFields
  <2>4. Asked(c) /\ Follows(rows, c)
    BY <1>2, GoneFollows
  <2> HIDE DEF c
  <2>5. Planned(rows, c, work'[r]) /\ Ahead(rows, net, c)
    BY <1>2, <2>2, <2>3, <2>4 DEF Planned, Ahead, Working
  <2> QED
    BY <1>1, <1>4, <2>1, <2>5, QuietKeeps
<1>5. CASE /\ UNCHANGED db
           /\ Leaves(r, Gone(r, "rollback"), Failing(tx[r]), work[r], locks[r], waiting[r], left[r])
  BY <1>1, <1>5, GiveUpKeeps
<1> QED
  BY <1>1, <1>4, <1>5, ScriptLeaves

LEMMA RecordKeeps ==
    ASSUME LockInv, HistoryInv, ~ReuseOpen, NEW r \in Runners, Record(r)
    PROVE  HistoryInv' /\ UNCHANGED db
<1>1. Shapes /\ call[r].pc = "record"
  BY RecordLeaves DEF LockInv
<1>2. /\ Asked(call[r]) /\ Follows(rows, call[r]) /\ call[r].plan # <<>>
      /\ work[r] = Scripted(call[r].plan[1]) /\ Ahead(rows, net, call[r])
  BY <1>1 DEF HistoryInv, Planned, Working
<1>3. tx[r] = "open"
  BY <1>1 DEF LockInv, Ready, Inside
<1> DEFINE c == Gone(r, "commit")
<1>4. CASE Does(r, RecordOp(r)) /\ Leaves(r, c, tx[r], work'[r], locks[r], waiting[r], left[r])
  <2>1. UNCHANGED db /\ work'[r] = Apply(work[r], RecordOp(r))
    BY <1>1, <1>3, <1>4, DoesFacts
  <2>2. work'[r] = Recorded(call[r].plan[1])
    BY <1>2, <2>1 DEF RecordOp, Op, Recorded, StateOp
  <2>3. c.pc = "commit" /\ c.plan = call[r].plan
    BY CallFields
  <2>4. Asked(c) /\ Follows(rows, c)
    BY <1>2, GoneFollows
  <2> HIDE DEF c
  <2>5. Planned(rows, c, work'[r])
    BY <1>2, <2>2, <2>3, <2>4 DEF Planned, Working
  <2>6. Ahead(rows, net, c)
    BY <1>1, <1>2, <2>3 DEF Ahead
  <2> QED
    BY <1>1, <1>4, <2>1, <2>5, <2>6, QuietKeeps
<1>5. CASE /\ UNCHANGED db
           /\ Leaves(r, Gone(r, "rollback"), Failing(tx[r]), work[r], locks[r], waiting[r], left[r])
  BY <1>1, <1>5, GiveUpKeeps
<1> QED
  BY <1>1, <1>4, <1>5, RecordLeaves

-----------------------------------------------------------------------------
(* The two steps that change the database *)

(* Runner r is at the j-th pair of its catalog, with the n-th prefix       *)
(* recorded.                                                               *)
Current(r, n, j) ==
    LET c == CatalogAt(call[r].source)
        s == call[r].plan[1]
    IN  /\ call[r].source \in Good /\ GoodCatalog(c)
        /\ n \in 0..Len(c) /\ j \in 1..Len(c) /\ Len(c) \in Nat
        /\ rows = FirstRows(c, n)
        /\ Way(c, call[r].dir, WantOf(call[r].steps, call[r].before), call[r].plan, n)
        /\ s.kind = call[r].dir /\ s.kind \in {"up", "down"}
        /\ j = IF s.kind = "up" THEN n + 1 ELSE n
        /\ s.pair = c[j] /\ GoodPair(c[j]) /\ c[j].version \in Versions
        /\ RowsOf(call[r].source) \in Catalogs /\ Len(RowsOf(call[r].source)) = Len(c)
        /\ DOMAIN RowsOf(call[r].source) = 1..Len(c)
        /\ \A i \in 1..Len(c) : RowsOf(call[r].source)[i] = Row(c[i])

LEMMA WorkingIsCurrent ==
    ASSUME HistoryInv, NEW r \in Runners, call[r].pc \in Working
    PROVE  \E n, j : Current(r, n, j)
<1> DEFINE c == CatalogAt(call[r].source)
           want == WantOf(call[r].steps, call[r].before)
<1>1. /\ call[r].source \in Good /\ call[r].plan # <<>>
      /\ \E n \in 0..Len(c) : rows = FirstRows(c, n) /\ Way(c, call[r].dir, want, call[r].plan, n)
  BY DEF HistoryInv, Planned, Follows
<1>2. GoodCatalog(c)
  BY <1>1, GoodCatalogs
<1>3. /\ RowsOf(call[r].source) \in Catalogs /\ Len(RowsOf(call[r].source)) = Len(c)
      /\ Len(c) \in Nat /\ DOMAIN RowsOf(call[r].source) = 1..Len(c)
      /\ \A i \in 1..Len(c) : /\ RowsOf(call[r].source)[i] = Row(c[i]) /\ c[i].version \in Versions
                               /\ GoodPair(c[i])
  BY <1>1, CatalogRows
<1> HIDE DEF c, want
<1>4. PICK n \in 0..Len(c) : rows = FirstRows(c, n) /\ Way(c, call[r].dir, want, call[r].plan, n)
  BY <1>1
<1>5. call[r].dir \in {"up", "down"}
  BY <1>4 DEF Way
<1>6. /\ call[r].plan[1].kind = call[r].dir
      /\ call[r].dir = "up" => n + 1 \in 1..Len(c) /\ call[r].plan[1].pair = c[n + 1]
      /\ call[r].dir = "down" => n \in 1..Len(c) /\ call[r].plan[1].pair = c[n]
  <2> DEFINE plan == call[r].plan
             dir == call[r].dir
  <2>1. Way(c, dir, want, plan, n) /\ plan # <<>>
    BY <1>1, <1>4
  <2> HIDE DEF plan, dir
  <2>2. GoesOn(c, dir, want, plan, n)
    BY <1>2, <2>1, WayGoesOn
  <2> QED
    BY <2>2 DEF GoesOn, plan, dir
<1> DEFINE j == IF call[r].dir = "up" THEN n + 1 ELSE n
<1>7. j \in 1..Len(c) /\ call[r].plan[1].pair = c[j]
  BY <1>5, <1>6
<1>8. Current(r, n, j)
  <2>1. GoodPair(c[j]) /\ c[j].version \in Versions
    BY <1>3, <1>7
  <2>2. j = IF call[r].plan[1].kind = "up" THEN n + 1 ELSE n
    BY <1>6
  <2> HIDE DEF j
  <2> QED
    BY <1>1, <1>2, <1>3, <1>4, <1>5, <1>6, <1>7, <2>1, <2>2 DEF Current, c, want
<1> QED
  BY <1>8

LEMMA NotAlways ==
    ASSUME NEW r, NEW n, NEW j, Current(r, n, j), ~Transactional(call[r].plan[1])
    PROVE  /\ call[r].plan[1].kind = "up" =>
                ~Always("up", call[r].plan[1].pair.version) /\ call[r].plan[1].pair.up = "non_transactional"
           /\ call[r].plan[1].kind = "down" =>
                ~Always("down", call[r].plan[1].pair.version) /\ call[r].plan[1].pair.down = "non_transactional"
<1> DEFINE d == RowsOf(call[r].source)
           p == call[r].plan[1].pair
<1>1. /\ d \in Catalogs /\ j \in DOMAIN d /\ d[j] = Row(p) /\ GoodPair(p)
      /\ call[r].plan[1].kind \in {"up", "down"}
  BY DEF Current
<1>2. d[j].version = p.version /\ d[j].up = p.up /\ d[j].down = p.down
  BY <1>1, RowFacts
<1>3. p.up \in Modes /\ p.down \in Modes
  BY <1>1 DEF GoodPair
<1>4. ASSUME call[r].plan[1].kind = "up"
      PROVE  ~Always("up", p.version) /\ p.up = "non_transactional"
  <2>1. p.up # "transactional"
    BY <1>4 DEF Transactional
  <2> QED
    BY <1>1, <1>2, <1>3, <2>1 DEF Always, Modes
<1>5. ASSUME call[r].plan[1].kind = "down"
      PROVE  ~Always("down", p.version) /\ p.down = "non_transactional"
  <2>1. p.down # "transactional"
    BY <1>5 DEF Transactional
  <2> QED
    BY <1>1, <1>2, <1>3, <2>1 DEF Always, Modes
<1> QED
  BY <1>4, <1>5

LEMMA AloneKeeps ==
    ASSUME LockInv, HistoryInv, ~ReuseOpen, NEW r \in Runners, Alone(r)
    PROVE  HistoryInv' /\ (UNCHANGED db \/ H!Alone)
<1> DEFINE s == call[r].plan[1]
           v == s.pair.version
           op == Op(r, s.kind)
           c == Gone(r, "begin")
<1>1. Shapes /\ call[r].pc = "alone"
  BY AloneLeaves DEF LockInv
<1>2. /\ Asked(call[r]) /\ Follows(rows, call[r]) /\ call[r].plan # <<>> /\ ~Transactional(s)
      /\ Table(rows, net) /\ Effects(rows, net)
  BY <1>1 DEF HistoryInv, Planned, Working
<1>3. tx[r] = "none"
  BY <1>1 DEF LockInv, Ready, Outside
<1>4. PICK n, j : Current(r, n, j)
  BY <1>1, WorkingIsCurrent DEF Working
<1>5. v \in Versions /\ GoodPair(s.pair) /\ s.kind \in {"up", "down"}
  BY <1>4 DEF Current
<1>6. net \in [Versions -> Int]
  BY <1>2 DEF Table
<1>7. CASE Does(r, op) /\ Leaves(r, c, tx[r], work'[r], locks[r], waiting[r], left[r])
  <2>1. rows' = After(Apply(NoWork, op)).rows /\ net' = After(Apply(NoWork, op)).net
    BY <1>1, <1>3, <1>7, DoesFacts
  <2>2. Apply(NoWork, op) =
          [net |-> [u \in Versions |-> IF u = v THEN Delta(s) ELSE 0], added |-> {}, removed |-> {}]
    BY <1>5, ScriptFacts DEF Op, ScriptOp
  <2> HIDE DEF op
  <2>3. rows' = rows /\ net' = [u \in Versions |-> net[u] + (IF u = v THEN Delta(s) ELSE 0)]
    BY <1>6, <2>1, <2>2 DEF After
  <2>4. Delta(s) \in Int /\ net' \in [Versions -> Int]
    BY <1>6, <2>3 DEF Delta
  <2>5. /\ net'[v] = net[v] + Delta(s) /\ \A u \in Versions : u # v => net'[u] = net[u]
    BY <1>5, <1>6, <2>3, <2>4, SMTT(30)
  <2>6. Table(rows', net')
    BY <1>2, <2>3, <2>4 DEF Table
  <2>7. /\ s.kind = "up" => ~Always("up", v) /\ s.pair.up = "non_transactional"
        /\ s.kind = "down" => ~Always("down", v) /\ s.pair.down = "non_transactional"
    BY <1>2, <1>4, NotAlways
  <2>8. Rec(rows, v) \in Int /\ net[v] \in Int /\ \A u : Rec(rows', u) = Rec(rows, u)
    BY <1>5, <1>6, <2>3 DEF Rec
  <2>9. /\ (s.kind = "up" /\ Always("down", v)) => net'[v] >= Rec(rows', v) + 1
        /\ (s.kind = "down" /\ Always("up", v)) => net'[v] <= Rec(rows', v) - 1
    BY <1>2, <1>5, <2>5, <2>8, SMTT(30) DEF Effects, Delta
  <2>10. Effects(rows', net')
    <3> SUFFICES ASSUME NEW u \in Versions
                 PROVE  /\ Always("up", u) => net'[u] <= Rec(rows', u)
                        /\ Always("down", u) => net'[u] >= Rec(rows', u)
      BY DEF Effects
    <3>1. CASE u = v
      <4> HIDE DEF s, v
      <4>1. net'[v] \in Int
        BY <1>5, <2>4
      <4>2. CASE s.kind = "up"
        BY <2>7, <2>8, <2>9, <3>1, <4>1, <4>2
      <4>3. CASE s.kind = "down"
        BY <2>7, <2>8, <2>9, <3>1, <4>1, <4>3
      <4> QED
        BY <1>5, <4>2, <4>3
    <3>2. CASE u # v
      BY <1>2, <2>5, <2>8, <3>2 DEF Effects
    <3> QED
      BY <3>1, <3>2
  <2>11. c.pc = "begin" /\ c.plan = call[r].plan /\ Asked(c) /\ Follows(rows', c)
    BY <1>2, <2>3, CallFields, GoneFollows
  <2> HIDE DEF c
  <2>12. Planned(rows', c, work'[r])
    BY <1>2, <2>11 DEF Planned, Working
  <2>13. Ahead(rows', net', c)
    BY <2>9, <2>11 DEF Ahead
  <2>14. HistoryInv'
    BY <1>1, <1>7, <2>6, <2>10, <2>12, <2>13, WriteKeeps DEF Past
  <2>15. H!Alone
    <3> DEFINE d == RowsOf(call[r].source)
    <3>1. d \in Catalogs /\ j \in 1..Len(d) /\ d[j] = Row(s.pair)
      BY <1>4 DEF Current
    <3>2. d[j].version = v /\ d[j].up = s.pair.up /\ d[j].down = s.pair.down
      BY <1>5, <3>1, RowFacts
    <3> HIDE DEF d
    <3>3. CASE s.kind = "up"
      <4>1. net' = [net EXCEPT ![d[j].version] = @ + 1] /\ d[j].up = "non_transactional"
        <5>1. net' = [net EXCEPT ![v] = net[v] + 1]
          BY <1>5, <1>6, <2>4, <2>5, <3>3 DEF Delta
        <5>2. d[j].version = v /\ d[j].up = "non_transactional"
          BY <2>7, <3>2, <3>3
        <5> QED
          BY <5>1, <5>2
      <4> QED
        BY <2>3, <3>1, <4>1 DEF H!Alone
    <3>4. CASE s.kind = "down"
      <4>1. net' = [net EXCEPT ![d[j].version] = @ - 1] /\ d[j].down = "non_transactional"
        <5>1. net' = [net EXCEPT ![v] = net[v] - 1]
          BY <1>5, <1>6, <2>4, <2>5, <3>4 DEF Delta
        <5>2. d[j].version = v /\ d[j].down = "non_transactional"
          BY <2>7, <3>2, <3>4
        <5> QED
          BY <5>1, <5>2
      <4> QED
        BY <2>3, <3>1, <4>1 DEF H!Alone
    <3> QED
      BY <1>5, <3>3, <3>4
  <2> QED
    BY <2>14, <2>15
<1>8. CASE /\ UNCHANGED db
           /\ Leaves(r, Bailed(r), Failing(tx[r]), work[r], locks[r], waiting[r], left[r])
  BY <1>1, <1>8, GiveUpKeeps
<1> QED
  BY <1>1, <1>7, <1>8, AloneLeaves

(* What COMMIT does to the rows and the counts.                            *)
Carry(s) == IF Transactional(s) THEN Delta(s) ELSE 0
Committed(r, n, j) ==
    LET c == CatalogAt(call[r].source)
        s == call[r].plan[1]
        v == s.pair.version
    IN  /\ rows' = FirstRows(c, IF s.kind = "up" THEN j ELSE j - 1)
        /\ net' \in [Versions -> Int]
        /\ net'[v] = net[v] + Carry(s) /\ \A u \in Versions : u # v => net'[u] = net[u]
        /\ s.kind = "up" => rows' = rows \cup {Row(s.pair)} /\ \A x \in rows : x.version # v
        /\ s.kind = "down" => rows' = {x \in rows : x.version # v} /\ Row(s.pair) \in rows
        /\ Row(s.pair).version = v

LEMMA CommitFacts ==
    ASSUME HistoryInv, NEW r \in Runners, NEW n, NEW j, Current(r, n, j),
           work[r] = Recorded(call[r].plan[1]), rows' = Seen(r).rows, net' = Seen(r).net
    PROVE  Committed(r, n, j)
<1> DEFINE c == CatalogAt(call[r].source)
           s == call[r].plan[1]
           v == s.pair.version
           w == Recorded(s)
<1>1. /\ GoodCatalog(c) /\ j \in 1..Len(c) /\ n \in 0..Len(c) /\ Len(c) \in Nat
      /\ rows = FirstRows(c, n)
      /\ s.kind \in {"up", "down"} /\ j = (IF s.kind = "up" THEN n + 1 ELSE n)
      /\ s.pair = c[j] /\ GoodPair(s.pair) /\ v \in Versions
  BY DEF Current
<1>2. net \in [Versions -> Int]
  BY DEF HistoryInv, Table
<1>3. /\ rows' = {x \in rows : x.version \notin w.removed} \cup w.added
      /\ net' = [u \in Versions |-> net[u] + w.net[u]]
  BY <1>2 DEF Seen, After
<1>4. /\ w.net = [u \in Versions |-> IF u = v /\ Transactional(s) THEN Delta(s) ELSE 0]
      /\ s.kind = "up" => w.added = {Row(s.pair)} /\ w.removed = {}
      /\ s.kind = "down" => w.added = {} /\ w.removed = {v}
  <2>1. s.kind \in {"up", "down"} /\ GoodPair(s.pair)
    BY <1>1
  <2> HIDE DEF s
  <2> QED
    BY <2>1, RecordedFacts
<1> HIDE DEF w
<1>5. /\ net' \in [Versions -> Int]
      /\ net'[v] = net[v] + Carry(s) /\ \A u \in Versions : u # v => net'[u] = net[u]
  <2>1. Delta(s) \in Int
    BY DEF Delta
  <2>2. \A u \in Versions : w.net[u] \in Int
    BY <1>4, <2>1
  <2>3. net' \in [Versions -> Int]
    BY <1>2, <1>3, <2>2
  <2>4. net'[v] = net[v] + Carry(s)
    <3>1. w.net[v] = Carry(s)
      BY <1>1, <1>4 DEF Carry
    <3>2. net'[v] = net[v] + w.net[v]
      BY <1>1, <1>3
    <3> QED
      BY <3>1, <3>2
  <2>5. \A u \in Versions : u # v => net'[u] = net[u]
    BY <1>2, <1>3, <1>4
  <2> QED
    BY <2>3, <2>4, <2>5
<1>6. /\ FirstRows(c, j) = FirstRows(c, j - 1) \cup {Row(s.pair)}
      /\ \A x \in FirstRows(c, j - 1) : x.version # v
      /\ FirstRows(c, j - 1) = {x \in FirstRows(c, j) : x.version # v}
      /\ Row(s.pair).version = v
  <2> HIDE DEF c, s
  <2>1. GoodCatalog(c) /\ j \in 1..Len(c) /\ s.pair = c[j]
    BY <1>1
  <2> QED
    BY <2>1, NextPrefix
<1>7. CASE s.kind = "up"
  <2>1. rows = FirstRows(c, j - 1)
    BY <1>1, <1>7
  <2>2. rows' = rows \cup {Row(s.pair)}
    BY <1>3, <1>4, <1>7
  <2> QED
    BY <1>5, <1>6, <1>7, <2>1, <2>2 DEF Committed
<1>8. CASE s.kind = "down"
  <2>1. rows = FirstRows(c, j)
    BY <1>1, <1>8
  <2>2. rows' = {x \in rows : x.version # v}
    BY <1>3, <1>4, <1>8
  <2> QED
    BY <1>5, <1>6, <1>8, <2>1, <2>2 DEF Committed
<1> QED
  BY <1>1, <1>7, <1>8

LEMMA CommitTable ==
    ASSUME HistoryInv, NEW r \in Runners, NEW n, NEW j, Current(r, n, j), Committed(r, n, j)
    PROVE  Table(rows', net')
<1> DEFINE s == call[r].plan[1]
           v == s.pair.version
           x == Row(s.pair)
<1>1. IsFiniteSet(rows) /\ Keyed(rows) /\ \A y \in rows : GoodRow(y)
  BY DEF HistoryInv, Table
<1>2. GoodPair(s.pair) /\ s.kind \in {"up", "down"} /\ net' \in [Versions -> Int]
  BY DEF Current, Committed
<1>3. GoodRow(x) /\ x.version = v
  BY <1>2, RowFacts
<1>4. CASE s.kind = "up"
  <2>1. rows' = rows \cup {x} /\ \A y \in rows : y.version # v
    BY <1>4 DEF Committed
  <2> HIDE DEF x, s, v
  <2>2. IsFiniteSet(rows')
    BY <1>1, <2>1, FS_AddElement
  <2>3. Keyed(rows') /\ \A y \in rows' : GoodRow(y)
    <3>1. x.version \in Nat
      BY <1>3 DEF GoodRow
    <3> QED
      BY <1>1, <1>3, <2>1, <3>1 DEF Keyed
  <2> QED
    BY <1>2, <2>2, <2>3 DEF Table
<1>5. CASE s.kind = "down"
  <2>1. rows' \subseteq rows
    BY <1>5 DEF Committed
  <2>2. IsFiniteSet(rows')
    BY <1>1, <2>1, FS_Subset
  <2>3. Keyed(rows') /\ \A y \in rows' : GoodRow(y)
    BY <1>1, <2>1 DEF Keyed
  <2> QED
    BY <1>2, <2>2, <2>3 DEF Table
<1> QED
  BY <1>2, <1>4, <1>5

LEMMA CommitEffects ==
    ASSUME HistoryInv, NEW r \in Runners, NEW n, NEW j, Current(r, n, j), Committed(r, n, j),
           call[r].pc = "commit"
    PROVE  Effects(rows', net')
<1> DEFINE s == call[r].plan[1]
           v == s.pair.version
<1>1. /\ s.kind \in {"up", "down"} /\ v \in Versions
      /\ net'[v] = net[v] + Carry(s) /\ \A u \in Versions : u # v => net'[u] = net[u]
      /\ s.kind = "up" => rows' = rows \cup {Row(s.pair)} /\ \A x \in rows : x.version # v
      /\ s.kind = "down" => rows' = {x \in rows : x.version # v} /\ Row(s.pair) \in rows
      /\ Row(s.pair).version = v
  BY DEF Current, Committed
<1>2. net \in [Versions -> Int] /\ Effects(rows, net) /\ Ahead(rows, net, call[r])
  BY DEF HistoryInv, Table
<1>3. ~Transactional(s) => /\ s.kind = "up" => ~Always("up", v)
                           /\ s.kind = "down" => ~Always("down", v)
  BY NotAlways
<1>4. ~Transactional(s) =>
        /\ (s.kind = "up" /\ Always("down", v)) => net[v] >= Rec(rows, v) + 1
        /\ (s.kind = "down" /\ Always("up", v)) => net[v] <= Rec(rows, v) - 1
  BY <1>2 DEF Ahead
<1> HIDE DEF s, v
<1>5. \A u : u # v => Rec(rows', u) = Rec(rows, u)
  BY <1>1 DEF Rec
<1>6. /\ s.kind = "up" => Rec(rows, v) = 0 /\ Rec(rows', v) = 1
      /\ s.kind = "down" => Rec(rows, v) = 1 /\ Rec(rows', v) = 0
  BY <1>1 DEF Rec
<1>7. /\ Always("up", v) => net[v] <= Rec(rows, v)
      /\ Always("down", v) => net[v] >= Rec(rows, v)
  BY <1>1, <1>2 DEF Effects
<1>8. /\ Always("up", v) => net'[v] <= Rec(rows', v)
      /\ Always("down", v) => net'[v] >= Rec(rows', v)
  <2>1. net[v] \in Int
    BY <1>1, <1>2
  <2>2. CASE Transactional(s)
    BY <1>1, <1>6, <1>7, <2>1, <2>2 DEF Carry, Delta
  <2>3. CASE ~Transactional(s)
    BY <1>1, <1>3, <1>4, <1>6, <2>1, <2>3 DEF Carry
  <2> QED
    BY <2>2, <2>3
<1> QED
  BY <1>1, <1>2, <1>5, <1>8 DEF Effects

(* The abstract history allows the change of version u's count.            *)
Expected(d, n, m, u) ==
    LET is(row) == row.version = u
        up == \E i \in (n + 1)..m : is(d[i])
        down == \E i \in (m + 1)..n : is(d[i])
        pair == CHOOSE row \in {d[i] : i \in 1..Len(d)} : is(row)
    IN  CASE up -> H!Carried(pair.up, 1)
          [] down -> H!Carried(pair.down, -1)
          [] OTHER -> {0}

LEMMA MoveFacts ==
    ASSUME NEW d \in Catalogs, NEW n \in 0..Len(d), NEW m \in 0..Len(d),
           rows = H!Prefix(d, n), rows' = H!Prefix(d, m),
           \A u \in Versions : net'[u] - net[u] \in Expected(d, n, m, u), DOMAIN net' = Versions
    PROVE  H!Move
  BY DEF H!Move, Expected

LEMMA CommitMoves ==
    ASSUME HistoryInv, NEW r \in Runners, NEW n, NEW j, Current(r, n, j), Committed(r, n, j)
    PROVE  H!Move
<1> DEFINE c == CatalogAt(call[r].source)
           s == call[r].plan[1]
           v == s.pair.version
           d == RowsOf(call[r].source)
           m == IF s.kind = "up" THEN j ELSE j - 1
<1>1. /\ GoodCatalog(c) /\ j \in 1..Len(c) /\ n \in 0..Len(c) /\ Len(c) \in Nat
      /\ rows = FirstRows(c, n) /\ rows' = FirstRows(c, m)
      /\ s.kind \in {"up", "down"} /\ j = (IF s.kind = "up" THEN n + 1 ELSE n)
      /\ s.pair = c[j] /\ GoodPair(s.pair) /\ v \in Versions
  BY DEF Current, Committed
<1>2. /\ d \in Catalogs /\ Len(d) = Len(c) /\ \A i \in 1..Len(c) : d[i] = Row(c[i])
  BY DEF Current
<1>3. /\ net \in [Versions -> Int] /\ net' \in [Versions -> Int]
      /\ net'[v] = net[v] + Carry(s) /\ \A u \in Versions : u # v => net'[u] = net[u]
  BY DEF HistoryInv, Table, Committed
<1>4. Transactional(s) <=> IF s.kind = "up" THEN c[j].up = "transactional" ELSE c[j].down = "transactional"
  <2>1. s.kind \in {"up", "down"} /\ s.pair = c[j]
    BY <1>1
  <2> HIDE DEF c, s
  <2> QED
    BY <2>1 DEF Transactional
<1>5. /\ \A i \in 1..Len(c) : GoodPair(c[i]) /\ d[i].version = c[i].version
      /\ d[j].up = c[j].up /\ d[j].down = c[j].down /\ d[j].version = v
  <2>1. \A i \in 1..Len(c) : GoodPair(c[i])
    BY <1>1 DEF GoodCatalog
  <2>2. j \in 1..Len(c) /\ v = c[j].version /\ \A i \in 1..Len(c) : d[i] = Row(c[i])
    BY <1>1, <1>2
  <2> HIDE DEF c, s, v, d
  <2>3. ASSUME NEW i \in 1..Len(c)
        PROVE  d[i].version = c[i].version /\ d[i].up = c[i].up /\ d[i].down = c[i].down
    BY <2>1, <2>2, RowFacts
  <2> QED
    BY <2>1, <2>2, <2>3
<1>6. \A i \in 1..Len(c) : i # j => d[i].version # v
  <2>1. \A i \in 1..Len(c) : c[i].version \in Nat
    BY <1>5 DEF GoodPair
  <2>2. \A i, k \in 1..Len(c) : i < k => c[i].version < c[k].version
    BY <1>1, SMTT(30) DEF GoodCatalog, Ascends
  <2>3. j \in 1..Len(c) /\ c[j].version = v /\ \A i \in 1..Len(c) : d[i].version = c[i].version
    BY <1>1, <1>5
  <2> HIDE DEF c, s, v, d
  <2>4. ASSUME NEW i \in 1..Len(c), i # j PROVE c[i].version # c[j].version
    <3>1. i < j \/ j < i
      BY <2>3, <2>4
    <3>2. c[i].version \in Nat /\ c[j].version \in Nat
      BY <2>1, <2>3
    <3> QED
      BY <2>2, <2>3, <3>1, <3>2
  <2> QED
    BY <2>3, <2>4
<1> HIDE DEF c, s, v, d
<1>7. m \in 0..Len(c)
  BY <1>1
<1>8. ASSUME NEW k \in 0..Len(c) PROVE H!Prefix(d, k) = FirstRows(c, k)
  <2>1. \A i \in 1..k : d[i] = Row(c[i])
    BY <1>1, <1>2
  <2> QED
    BY <2>1 DEF H!Prefix, FirstRows
<1>9. (CHOOSE row \in {d[i] : i \in 1..Len(d)} : row.version = v) = d[j]
  BY <1>1, <1>2, <1>5, <1>6
<1>10. ASSUME NEW u \in Versions PROVE net'[u] - net[u] \in Expected(d, n, m, u)
  <2> DEFINE up == \E i \in (n + 1)..m : d[i].version = u
             down == \E i \in (m + 1)..n : d[i].version = u
             pair == CHOOSE row \in {d[i] : i \in 1..Len(d)} : row.version = u
  <2>1. Expected(d, n, m, u) = CASE up -> H!Carried(pair.up, 1)
                                 [] down -> H!Carried(pair.down, -1)
                                 [] OTHER -> {0}
    BY DEF Expected
  <2>2. /\ up <=> s.kind = "up" /\ u = v
        /\ down <=> s.kind = "down" /\ u = v
    <3>1. CASE s.kind = "up"
      <4>1. (n + 1)..m = {j} /\ (m + 1)..n = {}
        BY <1>1, <3>1
      <4> QED
        BY <1>5, <3>1, <4>1
    <3>2. CASE s.kind = "down"
      <4>1. (m + 1)..n = {j} /\ (n + 1)..m = {}
        BY <1>1, <3>2
      <4> QED
        BY <1>5, <3>2, <4>1
    <3> QED
      BY <1>1, <3>1, <3>2
  <2>3. u = v => pair = d[j]
    BY <1>9
  <2> HIDE DEF up, down, pair
  <2>4. CASE u # v
    <3>1. Expected(d, n, m, u) = {0}
      BY <2>1, <2>2, <2>4
    <3> QED
      BY <1>3, <2>4, <3>1
  <2>5. CASE u = v /\ s.kind = "up"
    <3>1. Expected(d, n, m, u) = H!Carried(c[j].up, 1)
      BY <1>5, <2>1, <2>2, <2>3, <2>5
    <3>2. net'[u] - net[u] = IF c[j].up = "transactional" THEN 1 ELSE 0
      BY <1>3, <1>4, <2>5 DEF Carry, Delta
    <3> QED
      BY <3>1, <3>2 DEF H!Carried
  <2>6. CASE u = v /\ s.kind = "down"
    <3>1. Expected(d, n, m, u) = H!Carried(c[j].down, -1)
      BY <1>5, <2>1, <2>2, <2>3, <2>6
    <3>2. net'[u] - net[u] = IF c[j].down = "transactional" THEN -1 ELSE 0
      BY <1>3, <1>4, <2>6 DEF Carry, Delta
    <3> QED
      BY <3>1, <3>2 DEF H!Carried
  <2> QED
    BY <1>1, <2>4, <2>5, <2>6
<1>11. /\ rows = H!Prefix(d, n) /\ rows' = H!Prefix(d, m) /\ DOMAIN net' = Versions
       /\ n \in 0..Len(d) /\ m \in 0..Len(d)
  BY <1>1, <1>2, <1>3, <1>7, <1>8
<1> HIDE DEF m
<1> QED
  BY <1>2, <1>10, <1>11, MoveFacts

LEMMA CommitKeeps ==
    ASSUME LockInv, HistoryInv, ~ReuseOpen, NEW r \in Runners, Commit(r)
    PROVE  HistoryInv' /\ (UNCHANGED db \/ H!Move)
<1> DEFINE plan == call[r].plan
           c == With(call[r], NextStep(Tail(plan)), call[r].ok, Tail(plan), call[r].before)
<1>1. Shapes /\ call[r].pc = "commit"
  BY CommitLeaves DEF LockInv
<1>2. Asked(call[r]) /\ work[r] = Recorded(plan[1]) /\ plan # <<>>
  BY <1>1 DEF HistoryInv, Planned, Working
<1>3. PICK n, j : Current(r, n, j)
  BY <1>1, WorkingIsCurrent DEF Working
<1>4. CASE /\ rows' = Seen(r).rows /\ net' = Seen(r).net
           /\ Leaves(r, c, "none", NoWork, locks[r], waiting[r], left[r])
  <2>1. Committed(r, n, j)
    BY <1>2, <1>3, <1>4, CommitFacts
  <2>2. Table(rows', net') /\ Effects(rows', net') /\ H!Move
    BY <1>1, <1>3, <2>1, CommitTable, CommitEffects, CommitMoves
  <2>3. /\ c.source = call[r].source /\ c.dir = call[r].dir /\ c.steps = call[r].steps
        /\ c.plan = Tail(plan) /\ c.before = call[r].before /\ c.pc = NextStep(c.plan)
    BY WithIsShaped
  <2> DEFINE d == CatalogAt(call[r].source)
             want == WantOf(call[r].steps, call[r].before)
             dir == call[r].dir
  <2>4. /\ call[r].source \in Good /\ GoodCatalog(d) /\ Way(d, dir, want, plan, n)
        /\ j \in 1..Len(d) /\ n \in 0..Len(d) /\ Len(d) \in Nat
        /\ dir \in {"up", "down"} /\ j = (IF dir = "up" THEN n + 1 ELSE n)
        /\ rows' = FirstRows(d, IF dir = "up" THEN j ELSE j - 1)
    BY <1>3, <2>1 DEF Current, Committed
  <2> HIDE DEF c, d, want, dir, plan
  <2>5. GoesOn(d, dir, want, plan, n)
    BY <1>2, <2>4, WayGoesOn
  <2>6. PICK m : /\ m = (IF dir = "up" THEN j ELSE j - 1) /\ m \in 0..Len(d)
                 /\ Way(d, dir, want, Tail(plan), m)
    BY <2>4, <2>5 DEF GoesOn
  <2>7. Follows(rows', c)
    BY <2>3, <2>4, <2>6 DEF Follows, d, want, dir
  <2>8. Asked(c)
    BY <1>2, <2>3 DEF Asked
  <2>9. Planned(rows', c, NoWork) /\ Ahead(rows', net', c)
    BY <2>3, <2>7, <2>8, NextStepIsPlanned
  <2> QED
    BY <1>1, <1>4, <2>2, <2>9, WriteKeeps DEF Past
<1>5. CASE /\ UNCHANGED db
           /\ Leaves(r, Bailed(r), "none", NoWork, locks[r], waiting[r], left[r])
  BY <1>1, <1>5, GiveUpKeeps
<1> QED
  BY <1>1, <1>4, <1>5, CommitLeaves

-----------------------------------------------------------------------------
(* The theorems about the history *)

LEMMA HistoryKept ==
    ASSUME LockInv, HistoryInv, ~ReuseOpen, [Next]_vars
    PROVE  HistoryInv' /\ [H!HNext]_(H!hvars)
<1>1. CASE UNCHANGED vars
  <2>1. HistoryInv'
    BY <1>1 DEF vars, HistoryInv
  <2> QED
    BY <1>1, <2>1 DEF vars, H!hvars
<1>2. CASE Next
  <2>1. PICK r \in Runners : Start(r) \/ Statement(r) \/ Break(r) \/ DropCall(r) \/ Recycle(r)
    BY <1>2 DEF Next
  <2>2. HistoryInv' /\ (UNCHANGED db \/ H!Alone \/ H!Move)
    BY <2>1, StartKeeps, EnsureKeeps, AcquireKeeps, LoadKeeps, AloneKeeps, BeginKeeps, ScriptKeeps,
       RecordKeeps, CommitKeeps, EndingsKeep DEF Statement
  <2> QED
    BY <2>2 DEF db, H!hvars, H!HNext
<1> QED
  BY <1>1, <1>2

(* The inductive invariant of the history: the rows are the prefix that    *)
(* the plan in progress goes on from, and its transaction holds its step.  *)
THEOREM HistoryHolds == ASSUME ~ReuseOpen PROVE Spec => []HistoryInv
<1>1. Init => HistoryInv
  BY InitHistory
<1>2. LockInv /\ HistoryInv /\ [Next]_vars => HistoryInv'
  BY HistoryKept
<1> QED
  BY <1>1, <1>2, LocksHold, PTL DEF Spec

(* EffectsMatchRows: whatever is refused, broken or dropped, a script that *)
(* runs in a transaction has run exactly as often as the state table says. *)
THEOREM ScriptsMatchRecords == ASSUME ~ReuseOpen PROVE Spec => []EffectsMatchRows
<1>1. HistoryInv => EffectsMatchRows
  BY DEF HistoryInv, Effects, Rec, Always, EffectsMatchRows
<1> QED
  BY <1>1, HistoryHolds, PTL

(* OkMeansDone: a call of apply or rollback that is about to return Ok has *)
(* left exactly the rows it was asked for.                                 *)
THEOREM OkIsDeserved == ASSUME ~ReuseOpen PROVE Spec => []OkMeansDone
<1>1. ASSUME HistoryInv, NEW r \in Runners, call[r].pc = "unlock", call[r].ok
      PROVE  LET c == CatalogAt(call[r].source)
                 want == IF call[r].dir = "up" THEN Len(c) ELSE WantOf(call[r].steps, call[r].before)
             IN  rows = FirstRows(c, want)
  <2> DEFINE c == CatalogAt(call[r].source)
  <2>1. call[r].source \in Good /\ call[r].plan = <<>>
    BY <1>1 DEF HistoryInv, Planned, Follows
  <2>2. PICK n : /\ rows = FirstRows(c, n)
                 /\ Way(c, call[r].dir, WantOf(call[r].steps, call[r].before), <<>>, n)
    BY <1>1 DEF HistoryInv, Planned, Follows
  <2>3. GoodCatalog(c)
    BY <2>1, GoodCatalogs
  <2>4. n = IF call[r].dir = "up" THEN Len(c) ELSE WantOf(call[r].steps, call[r].before)
    BY <2>2, <2>3, WayEnds
  <2> QED
    BY <2>2, <2>4
<1>2. HistoryInv => OkMeansDone
  BY <1>1 DEF OkMeansDone, At, CatalogAt, WantOf, FirstRows
<1> QED
  BY <1>2, HistoryHolds, PTL

(* Implements: every step of every runner is a step of the abstract        *)
(* history or none, so the recorded rows only ever move along one catalog. *)
THEOREM RunnersImplementHistory == ASSUME ~ReuseOpen PROVE Spec => Implements
<1>1. Init => H!HInit
  BY DEF Init, H!HInit
<1>2. LockInv /\ HistoryInv /\ [Next]_vars => [H!HNext]_(H!hvars)
  BY HistoryKept
<1> QED
  BY <1>1, <1>2, LocksHold, HistoryHolds, PTL DEF Spec, Implements, H!HSpec
=============================================================================
