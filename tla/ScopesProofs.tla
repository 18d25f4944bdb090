---------------------------- MODULE ScopesProofs ----------------------------
(***************************************************************************)
(* Proofs about module Scopes, for any number of tenants, savepoints,      *)
(* statements and dropped futures.                                         *)
(***************************************************************************)
EXTENDS Scopes, SequenceFacts

-----------------------------------------------------------------------------
(* Types *)

PCs == {"idle", "begin", "body", "write", "stream", "finish", "abandon", "abandon2",
        "done", "dropped", "recycle", "return"}
InScope == {"begin", "body", "write", "stream", "finish", "abandon", "abandon2"}
Ops == {"BEGIN", "COMMIT", "ROLLBACK", "SAVEPOINT", "RELEASE", "ROLLBACK_TO", "WRITE"}

(* A command concerns a transaction, a savepoint or a statement of the      *)
(* tenant it is sent for; a cleanup commits nothing, and a spawned task     *)
(* sends no statement.                                                      *)
Proper(c) ==
    /\ c.arg.tenant = c.tenant
    /\ c.op \in {"BEGIN", "COMMIT", "ROLLBACK"} => c.arg \in Scopes /\ c.arg.n = 1
    /\ c.op \in {"SAVEPOINT", "RELEASE", "ROLLBACK_TO"} => c.arg \in Scopes /\ c.arg.n > 1
    /\ c.op = "WRITE" => c.arg \in Writes /\ c.by \notin Leftovers
    /\ c.op = "COMMIT" => c.by # "cleanup"
Commands ==
    {c \in [op : Ops, arg : Scopes \cup Writes, tenant : 1..Tenants,
            by : Leftovers \cup {"user", "orphan"}] : Proper(c)}
LevelSet == [scope : Scopes, writes : SUBSET Writes]
Tasks == {t \in [kind : Leftovers, scope : Scopes, step : 1..3] :
            /\ t.kind = "stream" => t.scope.n = 1
            /\ t.scope.n = 1 => t.step <= 2}

Typed ==
    /\ tenant \in 1..(Tenants + 1) /\ opened \in 0..MaxSavepoints
    /\ sent \in 0..MaxWrites /\ drops \in 0..MaxDrops
    /\ pc \in PCs /\ reply \in {"none", "ok", "err"}
    /\ conn \in {"alive", "dead", "discarded"}
    /\ pooled \in BOOLEAN /\ broken \in BOOLEAN /\ failed \in BOOLEAN /\ known \in BOOLEAN
    /\ frames \in Seq(Scopes) /\ tasks \subseteq Tasks
    /\ queue \in Seq(Commands) /\ levels \in Seq(LevelSet)
    /\ committed \subseteq Writes /\ acked \subseteq Writes
    /\ outcome \in [Scopes -> {"none", "ok", "err", "dropped", "unknown"}]
    /\ hollow \subseteq 1..Tenants /\ raced \subseteq 1..Tenants

(* The open scopes are the tenant's transaction and savepoints in it.       *)
Nested ==
    /\ pc # "idle" => tenant <= Tenants
    /\ frames # <<>> <=> pc \in InScope
    /\ frames # <<>> => frames[1] = Tx(tenant)
    /\ \A i \in 2..Len(frames) : frames[i].tenant = tenant /\ frames[i].n \in 2..(opened + 1)
    /\ pc = "abandon2" => Len(frames) > 1

(* The server's levels are a transaction and savepoints in it.              *)
Stacked ==
    /\ \A i \in 1..Len(levels) : (levels[i].scope.n = 1 <=> i = 1)
    /\ failed => levels # <<>>
    /\ conn = "dead" => queue = <<>> /\ levels = <<>>

-----------------------------------------------------------------------------
(* What will end a transaction *)

Ends(c) == c.op \in {"COMMIT", "ROLLBACK"}

(* An open transaction, and each that a command in q will open, is ended by *)
(* a later command of q.                                                    *)
Sealed(q, open) ==
    /\ open => \E j \in 1..Len(q) : Ends(q[j])
    /\ \A i \in 1..Len(q) : q[i].op = "BEGIN" => \E j \in (i + 1)..Len(q) : Ends(q[j])

(* A spawned task is still to send such a command.                          *)
Due == \E t \in tasks : t.step = 1 /\ t.scope.n = 1

(* The tenant is in a scope, and has not sent the command that ends it.     *)
Inside == frames # <<>> /\ ~(Len(frames) = 1 /\ pc \in {"finish", "abandon"})
Covered == conn = "alive" => Inside \/ Due \/ Sealed(queue, levels # <<>>)


-----------------------------------------------------------------------------
(* The transaction of a tenant that raced with nobody *)

IsOf(c, T) == c.tenant = T /\ Ends(c) /\ c.by # "stream"
Cleanups(T) == {t \in tasks : t.scope.tenant = T /\ t.scope.n > 1}
Alone == frames # <<>> /\ conn = "alive" /\ tenant \notin raced

(* BEGIN has not succeeded yet.                                             *)
Starting == frames # <<>> /\ Len(frames) = 1 /\ pc = "begin" /\ reply # "ok"

(* A tenant leaves no trace before its BEGIN, and a scope none before it is *)
(* opened.                                                                  *)
Prior(T) ==
    \/ T > tenant
    \/ T = tenant /\ ((pc = "idle" /\ conn # "discarded") \/ Starting)
Untouched ==
    \A T \in 1..Tenants : Prior(T) =>
        /\ Owner # T
        /\ \A t \in tasks : t.scope.tenant # T
        /\ \A i \in 1..Len(queue) : queue[i].tenant = T => queue[i].by = "user"
Unopened(s) == Prior(s.tenant) \/ s.n > opened + 1
Fresh ==
    /\ \A s \in Scopes : Unopened(s) => outcome[s] = "none"
    /\ Distinct(frames)
    /\ \A i \in 1..Len(frames) : outcome[frames[i]] = "none"

(* What the tenant waits for.                                               *)
Awaited(c) ==
    /\ c.tenant = tenant /\ reply = "none"
    /\ \/ pc = "begin" /\ c.arg = Top /\ c.op = IF Len(frames) = 1 THEN "BEGIN" ELSE "SAVEPOINT"
       \/ pc = "write" /\ c.op = "WRITE" /\ c.arg.in = Members(frames)
       \/ pc = "stream" /\ c.op = "BEGIN"
       \/ pc = "finish" /\ c.arg = Top /\ c.op = IF Len(frames) = 1 THEN "COMMIT" ELSE "RELEASE"
       \/ pc = "abandon" /\ c.arg = Top /\ c.op = IF Len(frames) = 1 THEN "ROLLBACK" ELSE "ROLLBACK_TO"
       \/ pc = "abandon2" /\ c.arg = Top /\ c.op = "RELEASE"
       \/ pc = "recycle" /\ c.op = "ROLLBACK"

(* The tenant waits for at most one queued command, and a spawned task for  *)
(* each of its own.                                                         *)
Asked ==
    /\ \A c \in Members(queue) : c.by = "user" => Awaited(c)
    /\ \A i, j \in 1..Len(queue) : queue[i].by = "user" /\ queue[j].by = "user" => i = j
    /\ conn = "alive" => \A i \in 1..Len(queue) : queue[i].by \in Leftovers =>
          \E t \in tasks : t.kind = queue[i].by /\ t.scope = queue[i].arg /\ t.step > 1

(* While the tenant is in a scope, only its own COMMIT or ROLLBACK ends its *)
(* transaction.                                                             *)
Unended ==
    frames # <<>> =>
        /\ \A i \in 1..Len(queue) : IsOf(queue[i], tenant) => queue[i].by = "user"
        /\ \A t \in tasks : t.scope = Tx(tenant) => t.kind = "stream"

(* While it is alone, its cleanups wait: they are sent behind commands of   *)
(* its own that nobody waits for.                                           *)
Waiting ==
    Alone => /\ \A t \in Cleanups(tenant) : t.step = 1 \/ (t.step = 2 /\ Waits(t))
             /\ (\E i \in 1..Len(queue) : queue[i].by = "orphan" /\ queue[i].tenant = tenant)
                    => Cleanups(tenant) # {}

Ended == Len(frames) = 1 /\ pc \in {"finish", "abandon"} /\ reply # "none"
Owns == Alone /\ ~Starting /\ ~Ended => Owner = tenant

(* A statement that is still to be executed finds its transaction open.     *)
Sheltered ==
    \A i \in 1..Len(queue) : queue[i].op = "WRITE" /\ queue[i].tenant \notin raced =>
        /\ Owner = queue[i].tenant
        /\ \A j \in 1..(i - 1) : ~IsOf(queue[j], queue[i].tenant)
OwnWrites ==
    \A i \in 1..Len(levels) : \A w \in levels[i].writes : w.tenant \notin raced => Owner = w.tenant

(* Without cleanups the server's levels are the open scopes, with the       *)
(* statements of successful scopes and of their own.                        *)
Depth ==
    IF Ended THEN 0
    ELSE IF (pc = "begin" /\ reply # "ok") \/ (pc \in {"finish", "abandon2"} /\ reply = "ok")
    THEN Len(frames) - 1 ELSE Len(frames)
Belongs(s, i) ==
    \/ outcome[s] = "ok" \/ \E k \in 1..i : s = frames[k]
    \/ pc = "finish" /\ reply = "ok" /\ s = Top
Emptied == (pc = "abandon" /\ Len(frames) > 1 /\ reply = "ok") \/ (pc = "abandon2" /\ reply # "ok")
Matches ==
    /\ Len(levels) = Depth
    /\ \A i \in 1..Len(levels) :
          levels[i].scope = frames[i] /\ \A w \in levels[i].writes : \A s \in w.in : Belongs(s, i)
    /\ Emptied => levels[Len(frames)].writes = {}
Synced == Alone /\ ~Starting /\ Cleanups(tenant) = {} => Matches

(* A COMMIT that is still to be executed will race with a cleanup, or finds *)
(* nothing but what belongs to successful scopes.                           *)
Under(w) == \/ \E i \in 1..Len(levels) : w \in levels[i].writes
            \/ \E i \in 1..Len(queue) : queue[i].op = "WRITE" /\ queue[i].arg = w
Good(w) == \A s \in w.in : s = Tx(w.tenant) \/ outcome[s] = "ok"
Behind(i, t) == \E j \in (i + 1)..Len(queue) :
                    queue[j].op = "RELEASE" /\ queue[j].by = "cleanup" /\ queue[j].arg = t.scope
WillRace(i, T) == \E t \in Cleanups(T) : t.step <= 2 \/ Behind(i, t)
AllGood(T) == \A w \in Writes : Under(w) /\ w.tenant = T => Good(w)
Commits(i, T) ==
    queue[i].op = "COMMIT" /\ queue[i].by # "stream" /\ queue[i].tenant = T /\ T \notin raced
Justified ==
    \A i \in 1..Len(queue), T \in 1..Tenants : Commits(i, T) =>
        /\ conn = "alive" => WillRace(i, T) \/ AllGood(T)
        /\ queue[i].by = "orphan" => outcome[Tx(T)] = "unknown"

Finishing(s) == frames = <<s>> /\ pc = "finish" /\ reply = "ok"
Final ==
    \A w \in committed : w.tenant \notin raced => \A s \in w.in :
        outcome[s] \in {"ok", "unknown"} \/ (s = Tx(w.tenant) /\ Finishing(s))

-----------------------------------------------------------------------------
(* Commands, frames and levels *)

LEMMA CommandTyped ==
    ASSUME NEW s \in Scopes, NEW by \in Leftovers \cup {"user", "orphan"}
    PROVE  /\ s.n = 1 => \A op \in {"BEGIN", "COMMIT", "ROLLBACK"} :
                            ~(op = "COMMIT" /\ by = "cleanup") => Cmd(op, s, s.tenant, by) \in Commands
           /\ s.n > 1 => \A op \in {"SAVEPOINT", "RELEASE", "ROLLBACK_TO"} :
                            Cmd(op, s, s.tenant, by) \in Commands
  BY DEF Commands, Proper, Cmd, Ops, Scopes

LEMMA WriteTyped ==
    ASSUME NEW w \in Writes
    PROVE  Cmd("WRITE", w, w.tenant, "user") \in Commands
  BY DEF Commands, Proper, Cmd, Ops, Writes, Leftovers

LEMMA TxTyped ==
    ASSUME NEW t \in 1..Tenants
    PROVE  Tx(t) \in Scopes /\ Tx(t).n = 1 /\ Tx(t).tenant = t
  BY BoundsAssumption DEF Tx, Scopes

LEMMA TopTyped ==
    ASSUME Typed, Nested, frames # <<>>
    PROVE  /\ Len(frames) \in Nat \ {0} /\ Top \in Scopes /\ Top.tenant = tenant
           /\ tenant \in 1..Tenants
           /\ Len(frames) = 1 => Top.n = 1
           /\ Len(frames) # 1 => Len(frames) > 1 /\ Top.n > 1
<1>1. Len(frames) \in Nat \ {0} /\ Top \in Scopes
  BY DEF Typed, Top
<1>2. tenant \in 1..Tenants
  BY DEF Typed, Nested, InScope
<1>3. CASE Len(frames) = 1
  BY <1>1, <1>2, <1>3, TxTyped DEF Nested, Top
<1>4. CASE Len(frames) > 1
  BY <1>1, <1>2, <1>4 DEF Nested, Top, Typed
<1>5. \A k \in Nat \ {0} : k = 1 \/ k > 1
  OBVIOUS
<1> QED
  BY <1>1, <1>2, <1>3, <1>4, <1>5

(* Sending adds a command while the connection is alive, and nothing after. *)
Added(c) == queue' = IF conn = "alive" THEN Append(queue, c) ELSE queue

LEMMA SendFacts ==
    ASSUME Typed, NEW c \in Commands, Send(c)
    PROVE  queue' \in Seq(Commands) /\ reply' \in {"none", "ok", "err"} /\ Added(c)
<1>1. queue \in Seq(Commands) /\ Append(queue, c) \in Seq(Commands)
  BY AppendFacts DEF Typed
<1>2. Added(c) /\ reply' \in {"none", "err"}
  BY DEF Send, Added
<1> QED
  BY <1>1, <1>2 DEF Added

-----------------------------------------------------------------------------
(* Sealed *)

LEMMA SealedEnd ==
    ASSUME NEW q \in Seq(Commands), NEW c \in Commands, Ends(c), NEW open
    PROVE  Sealed(Append(q, c), open)
<1>1. /\ Append(q, c) \in Seq(Commands) /\ Len(Append(q, c)) = Len(q) + 1
      /\ \A i \in 1..Len(q) : Append(q, c)[i] = q[i]
      /\ Append(q, c)[Len(q) + 1] = c /\ Len(q) \in Nat
  BY AppendFacts
<1>2. c.op # "BEGIN"
  BY DEF Ends
<1> DEFINE a == Append(q, c)
<1>3. \A i \in 1..Len(a) : a[i].op = "BEGIN" => i <= Len(q)
  BY <1>1, <1>2
<1>4. \A i \in 1..Len(q) : Len(q) + 1 \in (i + 1)..Len(a)
  BY <1>1
<1>5. Len(q) + 1 \in 1..Len(a) /\ Ends(a[Len(q) + 1])
  BY <1>1
<1>6. \A i \in 1..Len(a) : a[i].op = "BEGIN" => i \in 1..Len(q)
  BY <1>1, <1>3
<1> HIDE DEF a
<1>7. Sealed(a, open)
  BY <1>4, <1>5, <1>6 DEF Sealed
<1> QED
  BY <1>7 DEF a

LEMMA SealedMore ==
    ASSUME NEW q \in Seq(Commands), NEW c \in Commands, c.op # "BEGIN", NEW open, Sealed(q, open)
    PROVE  Sealed(Append(q, c), open)
<1> DEFINE a == Append(q, c)
<1>1. /\ Len(a) = Len(q) + 1 /\ Len(q) \in Nat
      /\ \A i \in 1..Len(q) : a[i] = q[i]
      /\ a[Len(q) + 1] = c
  BY AppendFacts
<1> HIDE DEF a
<1>2. \A i \in 1..Len(a) : a[i].op = "BEGIN" => i \in 1..Len(q) /\ q[i].op = "BEGIN"
  BY <1>1
<1>3. \A i \in 1..Len(q) : \A j \in (i + 1)..Len(q) : j \in (i + 1)..Len(a) /\ a[j] = q[j]
  BY <1>1
<1>4. \A j \in 1..Len(q) : j \in 1..Len(a) /\ a[j] = q[j]
  BY <1>1
<1>5. Sealed(a, open)
  BY <1>2, <1>3, <1>4 DEF Sealed
<1> QED
  BY <1>5 DEF a

(* A command is executed: after BEGIN a transaction may be open, COMMIT and *)
(* ROLLBACK leave none, and the others open none.                           *)
LEMMA SealedTail ==
    ASSUME NEW q \in Seq(Commands), q # <<>>, NEW open, Sealed(q, open), NEW open2,
           Ends(Head(q)) => ~open2, Head(q).op # "BEGIN" /\ open2 => open
    PROVE  Sealed(Tail(q), open2)
<1> DEFINE a == Tail(q)
<1>1. /\ Len(a) = Len(q) - 1 /\ Len(q) \in Nat /\ Len(q) >= 1
      /\ Head(q) = q[1] /\ \A i \in 1..Len(a) : a[i] = q[i + 1]
  BY TailFacts
<1> HIDE DEF a
<1>2. \A i \in 1..Len(a) : i + 1 \in 1..Len(q) /\ a[i] = q[i + 1]
  BY <1>1
<1>3. \A i \in 1..Len(a) : \A j \in (i + 2)..Len(q) : j - 1 \in (i + 1)..Len(a) /\ a[j - 1] = q[j]
  BY <1>1
<1>4. \A j \in 2..Len(q) : j - 1 \in 1..Len(a) /\ a[j - 1] = q[j]
  BY <1>1
<1>5. ASSUME NEW i \in 1..Len(a), a[i].op = "BEGIN"
      PROVE  \E j \in (i + 1)..Len(a) : Ends(a[j])
  <2>1. PICK j \in ((i + 1) + 1)..Len(q) : Ends(q[j])
    BY <1>2, <1>5 DEF Sealed
  <2>2. j \in (i + 2)..Len(q)
    BY <2>1, <1>1
  <2> QED
    BY <2>1, <2>2, <1>3
<1>6. ASSUME open2 PROVE \E j \in 1..Len(a) : Ends(a[j])
  <2>1. CASE Head(q).op = "BEGIN"
    <3>1. PICK j \in (1 + 1)..Len(q) : Ends(q[j])
      BY <1>1, <2>1 DEF Sealed
    <3>2. j \in 2..Len(q)
      BY <3>1
    <3> QED
      BY <3>1, <3>2, <1>4
  <2>2. CASE Head(q).op # "BEGIN"
    <3>1. PICK j \in 1..Len(q) : Ends(q[j])
      BY <1>6, <2>2 DEF Sealed
    <3>2. j # 1
      BY <3>1, <1>1, <1>6
    <3>3. j \in 2..Len(q)
      BY <3>1, <3>2, <1>1
    <3> QED
      BY <3>1, <3>3, <1>4
  <2> QED
    BY <2>1, <2>2
<1>7. Sealed(a, open2)
  BY <1>5, <1>6 DEF Sealed
<1> QED
  BY <1>7 DEF a

-----------------------------------------------------------------------------
(* Every step keeps the types and the nesting *)

Base == Typed /\ Nested /\ Stacked

LEMMA StackedFrame ==
    ASSUME Stacked, UNCHANGED <<levels, failed, conn>>, conn = "dead" => queue' = <<>>
    PROVE  Stacked'
  BY DEF Stacked

LEMMA StackedSent ==
    ASSUME Stacked, UNCHANGED <<levels, failed, conn>>, NEW c, Added(c)
    PROVE  Stacked'
  BY DEF Stacked, Added

LEMMA BeginBase ==
    ASSUME Base, Begin
    PROVE  Base' /\ Covered'
<1> USE DEF Base
<1>1. tenant \in 1..Tenants
  BY DEF Begin, Typed
<1>2. Tx(tenant) \in Scopes /\ Cmd("BEGIN", Tx(tenant), tenant, "user") \in Commands
  BY <1>1, TxTyped, CommandTyped
<1> DEFINE c == Cmd("BEGIN", Tx(tenant), tenant, "user")
<1>3. queue' \in Seq(Commands) /\ reply' \in {"none", "ok", "err"} /\ Added(c)
  <2> HIDE DEF c
  <2>1. Send(c)
    BY DEF Begin, Call, c
  <2> QED
    BY <1>2, <2>1, SendFacts DEF c
<1> HIDE DEF c
<1>4. Typed'
  BY <1>1, <1>2, <1>3 DEF Typed, Begin, Call, PCs, serverVars, history
<1>5. Nested'
  BY <1>1, <1>2 DEF Nested, Begin, Call, InScope
<1>6. Stacked'
  BY <1>3, StackedSent DEF Begin, serverVars
<1>7. Covered'
  BY <1>2 DEF Begin, Call, Covered, Inside
<1> QED
  BY <1>4, <1>5, <1>6, <1>7

LEMMA SavepointBase ==
    ASSUME Base, Savepoint
    PROVE  Base' /\ Covered'
<1> USE DEF Base
<1> DEFINE s == [tenant |-> tenant, n |-> opened + 2]
           c == Cmd("SAVEPOINT", s, tenant, "user")
<1>1. frames # <<>>
  BY DEF Savepoint, Nested, InScope
<1>2. tenant \in 1..Tenants /\ Len(frames) \in Nat \ {0}
  BY <1>1, TopTyped
<1>3. s \in Scopes /\ s.tenant = tenant /\ s.n = opened + 2 /\ s.n > 1
  BY <1>2, BoundsAssumption DEF Savepoint, Typed, Scopes
<1>4. frames' = Append(frames, s) /\ Send(c) /\ pc' = "begin" /\ opened' = opened + 1
      /\ opened' \in 0..MaxSavepoints
  BY BoundsAssumption DEF Savepoint, Call, Typed
<1> HIDE DEF s
<1>5. c \in Commands
  BY <1>3, CommandTyped
<1> HIDE DEF c
<1>6. queue' \in Seq(Commands) /\ reply' \in {"none", "ok", "err"} /\ Added(c)
  BY <1>4, <1>5, SendFacts
<1>7. frames' \in Seq(Scopes) /\ Len(frames') = Len(frames) + 1
      /\ (\A i \in 1..Len(frames) : frames'[i] = frames[i]) /\ frames'[Len(frames) + 1] = s
  BY <1>3, <1>4, AppendFacts DEF Typed
<1>8. Typed'
  BY <1>4, <1>6, <1>7 DEF Typed, Savepoint, PCs, serverVars, history
<1>9. Nested'
  <2>1. frames' # <<>> /\ frames'[1] = Tx(tenant)
    BY <1>1, <1>2, <1>7 DEF Nested
  <2>2. \A i \in 2..Len(frames') : frames'[i].tenant = tenant /\ frames'[i].n \in 2..(opened + 2)
    <3> TAKE i \in 2..Len(frames')
    <3>1. CASE i = Len(frames) + 1
      BY <3>1, <1>3, <1>7 DEF Typed
    <3>2. CASE i \in 2..Len(frames)
      <4>1. frames[i].tenant = tenant /\ frames[i].n \in 2..(opened + 1)
        BY <3>2 DEF Nested
      <4>2. frames'[i] = frames[i]
        BY <3>2, <1>2, <1>7
      <4> QED
        BY <4>1, <4>2 DEF Typed
    <3>3. i = Len(frames) + 1 \/ i \in 2..Len(frames)
      BY <1>2, <1>7
    <3> QED
      BY <3>1, <3>2, <3>3
  <2>3. tenant' = tenant /\ tenant <= Tenants /\ opened' + 1 = opened + 2
    BY <1>1, <1>4 DEF Savepoint, Nested, Typed, InScope
  <2>4. \A i \in 2..Len(frames') : frames'[i].tenant = tenant' /\ frames'[i].n \in 2..(opened' + 1)
    BY <2>2, <2>3
  <2> QED
    BY <1>4, <2>1, <2>3, <2>4 DEF Nested, InScope
<1>10. Stacked'
  BY <1>6, StackedSent DEF Savepoint, serverVars
<1>11. Covered'
  BY <1>4, <1>7, <1>2 DEF Covered, Inside
<1> QED
  BY <1>8, <1>9, <1>10, <1>11

(* The tenant only moves on within its scope.                               *)
LEMMA MoveBase ==
    ASSUME Base, UNCHANGED <<tenant, frames, opened, conn, levels, failed, queue>>, Typed',
           frames # <<>>, pc' \in InScope \ {"finish", "abandon", "abandon2"}
    PROVE  Base' /\ Covered'
<1>1. Nested'
  BY DEF Base, Nested, InScope
<1>2. Stacked'
  BY StackedFrame DEF Base, Stacked
<1>3. Covered'
  BY DEF Covered, Inside, InScope
<1> QED
  BY <1>1, <1>2, <1>3 DEF Base

LEMMA EnteredBase ==
    ASSUME Base, Entered
    PROVE  Base' /\ Covered'
<1>1. Typed'
  BY DEF Base, Typed, Entered, PCs, serverVars, history
<1>2. frames # <<>> /\ pc' \in InScope \ {"finish", "abandon", "abandon2"}
  BY DEF Base, Nested, Entered, InScope, Answered
<1> QED
  BY <1>1, <1>2, MoveBase DEF Entered, serverVars

LEMMA WrittenBase ==
    ASSUME Base, Written
    PROVE  Base' /\ Covered'
<1>1. Typed'
  BY DEF Base, Typed, Written, PCs, serverVars, history, Marked
<1>2. frames # <<>> /\ pc' \in InScope \ {"finish", "abandon", "abandon2"}
  BY DEF Base, Nested, Written, InScope
<1> QED
  BY <1>1, <1>2, MoveBase DEF Written, serverVars

LEMMA StreamOpenedBase ==
    ASSUME Base, StreamOpened
    PROVE  Base' /\ Covered'
<1>1. frames # <<>> /\ pc' \in InScope \ {"finish", "abandon", "abandon2"}
  BY DEF Base, Nested, StreamOpened, InScope
<1>2. Tx(tenant) \in Scopes /\ Tx(tenant).n = 1
  BY <1>1, TopTyped, TxTyped DEF Base
<1>3. [kind |-> "stream", scope |-> Tx(tenant), step |-> 1] \in Tasks
  BY <1>2 DEF Tasks, Leftovers
<1>4. tasks' \subseteq Tasks
  BY <1>3 DEF StreamOpened, Base, Typed
<1>5. Typed'
  BY <1>4 DEF Base, Typed, StreamOpened, PCs, serverVars, history, Marked
<1> QED
  BY <1>1, <1>5, MoveBase DEF StreamOpened, serverVars

(* The tenant sends c within its scope.                                     *)
LEMMA SentBase ==
    ASSUME Base, NEW c \in Commands, Send(c), frames # <<>>,
           UNCHANGED <<pooled, tenant, frames, opened, drops, tasks, broken, conn, levels, failed,
                       committed, known, outcome, acked, hollow, raced>>,
           sent' \in 0..MaxWrites, pc' \in InScope, pc' = "abandon2" => Len(frames) > 1
    PROVE  /\ Base' /\ Added(c)
           /\ ~(Len(frames) = 1 /\ pc' \in {"finish", "abandon"}) => Covered'
           /\ Ends(c) => Covered'
<1>1. queue' \in Seq(Commands) /\ reply' \in {"none", "ok", "err"} /\ Added(c)
  BY SendFacts DEF Base
<1>2. Typed'
  BY <1>1 DEF Base, Typed, PCs, InScope
<1>3. Nested'
  BY DEF Base, Nested, InScope
<1>4. Stacked'
  BY <1>1, StackedSent DEF Base
<1>5. ~(Len(frames) = 1 /\ pc' \in {"finish", "abandon"}) => Covered'
  BY DEF Covered, Inside
<1>6. Ends(c) => Covered'
  <2> SUFFICES ASSUME Ends(c), conn = "alive" PROVE Sealed(queue', levels' # <<>>)
    BY DEF Covered
  <2>1. queue' = Append(queue, c) /\ queue \in Seq(Commands)
    BY <1>1 DEF Added, Base, Typed
  <2> QED
    BY <2>1, SealedEnd
<1> QED
  BY <1>1, <1>2, <1>3, <1>4, <1>5, <1>6 DEF Base

LEMMA WriteBase ==
    ASSUME Base, Write
    PROVE  Base' /\ Covered'
<1> DEFINE w == [tenant |-> tenant, n |-> sent + 1, in |-> {frames[i] : i \in 1..Len(frames)}]
           c == Cmd("WRITE", w, tenant, "user")
<1>1. frames # <<>>
  BY DEF Write, Base, Nested, InScope
<1>2. tenant \in 1..Tenants
  BY <1>1, TopTyped DEF Base
<1>3. {frames[i] : i \in 1..Len(frames)} \in SUBSET Scopes
  BY DEF Base, Typed
<1>4. sent + 1 \in 1..MaxWrites /\ sent' \in 0..MaxWrites
  BY BoundsAssumption DEF Write, Base, Typed
<1>5. w \in Writes /\ w.tenant = tenant
  BY <1>2, <1>3, <1>4 DEF Writes
<1>6. Send(c) /\ pc' = "write"
  BY DEF Write, Call
<1> HIDE DEF w
<1>7. c \in Commands
  BY <1>5, WriteTyped
<1> HIDE DEF c
<1> QED
  BY <1>1, <1>4, <1>6, <1>7, SentBase DEF Write, serverVars, history, InScope

LEMMA OpenStreamBase ==
    ASSUME Base, OpenStream
    PROVE  Base' /\ Covered'
<1> DEFINE c == Cmd("BEGIN", Tx(tenant), tenant, "user")
<1>1. frames # <<>>
  BY DEF OpenStream, Base, Nested, InScope
<1>2. tenant \in 1..Tenants
  BY <1>1, TopTyped DEF Base
<1>4. sent' \in 0..MaxWrites
  BY BoundsAssumption DEF OpenStream, Base, Typed
<1>6. Send(c) /\ pc' = "stream"
  BY DEF OpenStream, Call
<1>7. c \in Commands
  BY <1>2, TxTyped, CommandTyped
<1> HIDE DEF c
<1> QED
  BY <1>1, <1>4, <1>6, <1>7, SentBase DEF OpenStream, serverVars, history, InScope

LEMMA FinishBase ==
    ASSUME Base, Finish
    PROVE  Base' /\ Covered'
<1> DEFINE op == IF Len(frames) = 1 THEN "COMMIT" ELSE "RELEASE"
           c == Cmd(op, Top, tenant, "user")
<1>1. frames # <<>>
  BY DEF Finish, Base, Nested, InScope
<1>2. Top \in Scopes /\ Top.tenant = tenant /\ (Len(frames) = 1 => Top.n = 1)
      /\ (Len(frames) # 1 => Top.n > 1)
  BY <1>1, TopTyped DEF Base
<1>3. Send(c) /\ pc' = "finish"
  BY DEF Finish, Call
<1>4. c \in Commands
  BY <1>2, CommandTyped
<1>5. Len(frames) = 1 => Ends(c)
  BY DEF Ends, Cmd
<1>6. sent' \in 0..MaxWrites
  BY DEF Finish, Base, Typed
<1> HIDE DEF c
<1> QED
  BY <1>1, <1>3, <1>4, <1>5, <1>6, SentBase DEF Finish, serverVars, history, InScope

LEMMA AbandonBase ==
    ASSUME Base, Abandon
    PROVE  Base' /\ Covered'
<1> DEFINE op == IF Len(frames) = 1 THEN "ROLLBACK" ELSE "ROLLBACK_TO"
           c == Cmd(op, Top, tenant, "user")
<1>1. frames # <<>>
  BY DEF Abandon, Base, Nested, InScope
<1>2. Top \in Scopes /\ Top.tenant = tenant /\ (Len(frames) = 1 => Top.n = 1)
      /\ (Len(frames) # 1 => Top.n > 1)
  BY <1>1, TopTyped DEF Base
<1>3. Send(c) /\ pc' = "abandon"
  BY DEF Abandon, Call
<1>4. c \in Commands
  BY <1>2, CommandTyped
<1>5. Len(frames) = 1 => Ends(c)
  BY DEF Ends, Cmd
<1>6. sent' \in 0..MaxWrites
  BY DEF Abandon, Base, Typed
<1> HIDE DEF c
<1> QED
  BY <1>1, <1>3, <1>4, <1>5, <1>6, SentBase DEF Abandon, serverVars, history, InScope

LEMMA RolledBackToBase ==
    ASSUME Base, RolledBackTo
    PROVE  Base' /\ Covered'
<1> DEFINE c == Cmd("RELEASE", Top, tenant, "user")
<1>1. frames # <<>> /\ Len(frames) > 1
  BY DEF RolledBackTo, Answered, Base, Nested, InScope
<1>2. Top \in Scopes /\ Top.tenant = tenant /\ Top.n > 1
  BY <1>1, TopTyped DEF Base
<1>3. Send(c) /\ pc' = "abandon2"
  BY DEF RolledBackTo, Call
<1>4. c \in Commands
  BY <1>2, CommandTyped
<1>6. sent' \in 0..MaxWrites
  BY DEF RolledBackTo, Base, Typed
<1> HIDE DEF c
<1> QED
  BY <1>1, <1>3, <1>4, <1>6, SentBase DEF RolledBackTo, serverVars, history, InScope

(* The innermost scope is left: its enclosing scopes stay.                  *)
Left ==
    /\ frames' = SubSeq(frames, 1, Len(frames) - 1)
    /\ frames' \in Seq(Scopes) /\ Len(frames') = Len(frames) - 1
    /\ \A i \in 1..(Len(frames) - 1) : frames'[i] = frames[i]

LEMMA LeaveBase ==
    ASSUME Base, frames # <<>>, NEW r \in {"ok", "err", "unknown"}, Leave(r),
           tasks' = tasks \/ tasks' = Spawned({Top}), reply' = "none",
           UNCHANGED <<pooled, tenant, opened, sent, drops, broken, conn, queue, levels, failed,
                       committed, known, acked, hollow, raced>>
    PROVE  /\ Base' /\ Left
           /\ Len(frames) > 1 => Covered'
           /\ tasks' = Spawned({Top}) => Covered'
           /\ Covered /\ pc \in {"finish", "abandon"} => Covered'
<1>1. /\ Len(frames) \in Nat \ {0} /\ Top \in Scopes /\ Top.tenant = tenant
      /\ tenant \in 1..Tenants
      /\ Len(frames) = 1 => Top.n = 1
      /\ Len(frames) # 1 => Len(frames) > 1 /\ Top.n > 1
  BY TopTyped DEF Base
<1>2. Left
  BY <1>1 DEF Left, Leave, Base, Typed
<1>21. frames' \in Seq(Scopes) /\ Len(frames') = Len(frames) - 1 /\ frames \in Seq(Scopes)
  BY <1>2 DEF Left, Base, Typed
<1>22. frames' # <<>> <=> Len(frames) # 1
  BY <1>1, <1>21
<1>3. [kind |-> "cleanup", scope |-> Top, step |-> 1] \in Tasks
  BY <1>1 DEF Tasks, Leftovers
<1>4. tasks' \subseteq Tasks
  <2>1. tasks \subseteq Tasks
    BY DEF Base, Typed
  <2>2. Spawned({Top}) = tasks \cup {[kind |-> "cleanup", scope |-> Top, step |-> 1]}
    BY DEF Spawned
  <2> QED
    BY <1>3, <2>1, <2>2
<1>5. Typed'
  BY <1>1, <1>2, <1>4 DEF Base, Typed, Leave, Left, PCs
<1>6. Nested'
  <2>1. frames' # <<>> <=> Len(frames) # 1
    BY <1>22
  <2>2. Len(frames) # 1 => frames'[1] = Tx(tenant)
    BY <1>1, <1>2 DEF Left, Base, Nested
  <2>3. \A i \in 2..Len(frames') : i \in 2..Len(frames) /\ frames'[i] = frames[i]
    BY <1>1, <1>2 DEF Left
  <2>4. \A i \in 2..Len(frames') : frames'[i].tenant = tenant /\ frames'[i].n \in 2..(opened + 1)
    BY <2>3 DEF Base, Nested
  <2>5. pc' = IF Len(frames) = 1 THEN "done" ELSE "body"
    BY DEF Leave
  <2> QED
    BY <1>1, <2>1, <2>2, <2>4, <2>5 DEF Nested, InScope
<1>7. Stacked'
  BY StackedFrame DEF Base, Stacked
<1>8. Len(frames) > 1 => Covered'
  <2> SUFFICES ASSUME Len(frames) > 1 PROVE frames' # <<>> /\ pc' = "body"
    BY DEF Covered, Inside
  <2> QED
    BY <1>1, <1>21, <1>22 DEF Leave
<1>9. tasks' = Spawned({Top}) => Covered'
  <2> SUFFICES ASSUME tasks' = Spawned({Top}), Len(frames) = 1 PROVE Due'
    BY <1>1, <1>8 DEF Covered
  <2>1. [kind |-> "cleanup", scope |-> Top, step |-> 1] \in tasks'
    BY DEF Spawned
  <2> QED
    BY <2>1, <1>1 DEF Due
<1>10. ASSUME Covered, pc \in {"finish", "abandon"} PROVE Covered'
  <2> SUFFICES ASSUME tasks' = tasks, Len(frames) = 1, conn = "alive"
               PROVE  Due' \/ Sealed(queue', levels' # <<>>)
    BY <1>1, <1>8, <1>9 DEF Covered
  <2> QED
    BY <1>10 DEF Covered, Inside, Due
<1> QED
  BY <1>2, <1>5, <1>6, <1>7, <1>8, <1>9, <1>10 DEF Base

LEMMA EnterFailsBase ==
    ASSUME Base, EnterFails
    PROVE  Base' /\ Covered'
<1>1. frames # <<>>
  BY DEF EnterFails, Answered, Base, Nested, InScope
<1> QED
  BY <1>1, LeaveBase DEF EnterFails, LeaveArmed, serverVars

LEMMA FinishedBase ==
    ASSUME Base, Covered, Finished
    PROVE  Base' /\ Covered'
<1>1. frames # <<>> /\ pc = "finish"
  BY DEF Finished, Answered, Base, Nested, InScope
<1> QED
  BY <1>1, LeaveBase DEF Finished, serverVars

LEMMA FinishFailsBase ==
    ASSUME Base, FinishFails
    PROVE  Base' /\ Covered'
<1>1. frames # <<>>
  BY DEF FinishFails, Answered, Base, Nested, InScope
<1> DEFINE r == IF Len(frames) = 1 THEN "unknown" ELSE "err"
<1>2. r \in {"ok", "err", "unknown"} /\ Leave(r) /\ tasks' = Spawned({Top})
  BY DEF FinishFails, LeaveArmed
<1> HIDE DEF r
<1> QED
  BY <1>1, <1>2, LeaveBase DEF FinishFails, serverVars

LEMMA RolledBackBase ==
    ASSUME Base, Covered, RolledBack
    PROVE  Base' /\ Covered'
<1>1. frames # <<>> /\ pc = "abandon"
  BY DEF RolledBack, Base, Nested, InScope
<1> QED
  BY <1>1, LeaveBase DEF RolledBack, serverVars

LEMMA ReleasedBase ==
    ASSUME Base, Released
    PROVE  Base' /\ Covered'
<1>1. frames # <<>> /\ Len(frames) > 1
  BY DEF Released, Answered, Base, Nested, InScope
<1> QED
  BY <1>1, LeaveBase DEF Released, serverVars

LEMMA RollbackToFailsBase ==
    ASSUME Base, RollbackToFails
    PROVE  Base' /\ Covered'
<1>1. frames # <<>>
  BY DEF RollbackToFails, Base, Nested, InScope
<1> QED
  BY <1>1, LeaveBase DEF RollbackToFails, LeaveArmed, serverVars

(* Drop changes who asked for a queued command, and nothing else in it.     *)
Orphaned(c) == IF c.by = "user" THEN [c EXCEPT !.by = "orphan"] ELSE c

LEMMA OrphanedFacts ==
    ASSUME NEW c \in Commands
    PROVE  /\ Orphaned(c) \in Commands /\ Orphaned(c).op = c.op /\ Orphaned(c).arg = c.arg
           /\ Orphaned(c).tenant = c.tenant
           /\ Orphaned(c).by = IF c.by = "user" THEN "orphan" ELSE c.by
<1>1. c \in [op : Ops, arg : Scopes \cup Writes, tenant : 1..Tenants,
             by : Leftovers \cup {"user", "orphan"}] /\ Proper(c)
  BY DEF Commands
<1>2. /\ Orphaned(c).op = c.op /\ Orphaned(c).arg = c.arg /\ Orphaned(c).tenant = c.tenant
      /\ Orphaned(c).by = IF c.by = "user" THEN "orphan" ELSE c.by
      /\ Orphaned(c) \in [op : Ops, arg : Scopes \cup Writes, tenant : 1..Tenants,
                          by : Leftovers \cup {"user", "orphan"}]
  BY <1>1 DEF Orphaned
<1>3. Proper(Orphaned(c))
  BY <1>1, <1>2 DEF Proper, Leftovers
<1> QED
  BY <1>2, <1>3 DEF Commands

LEMMA OrphanedQueue ==
    ASSUME NEW q \in Seq(Commands),
           NEW p, p = [i \in 1..Len(q) |->
                         IF q[i].by = "user" THEN [q[i] EXCEPT !.by = "orphan"] ELSE q[i]]
    PROVE  /\ p \in Seq(Commands) /\ Len(p) = Len(q)
           /\ \A i \in 1..Len(q) : p[i] = Orphaned(q[i])
<1>1. p = [i \in 1..Len(q) |-> Orphaned(q[i])]
  BY DEF Orphaned
<1>2. \A i \in 1..Len(q) : Orphaned(q[i]) \in Commands
  BY OrphanedFacts
<1>3. Len(q) \in Nat
  OBVIOUS
<1> QED
  BY <1>1, <1>2, <1>3

(* What Drop does when it ends the frames from k on.                        *)
Cut(k) ==
    /\ k \in 1..Len(frames)
    /\ frames' = SubSeq(frames, 1, k - 1)
    /\ frames' \in Seq(Scopes) /\ Len(frames') = k - 1
    /\ \A i \in 1..(k - 1) : frames'[i] = frames[i]
    /\ tasks' = Spawned({frames[i] : i \in k..Len(frames)})
    /\ outcome' = [s \in Scopes |-> IF s \notin {frames[i] : i \in k..Len(frames)} THEN outcome[s]
                                    ELSE IF s = Top /\ pc = "finish" THEN "unknown"
                                    ELSE "dropped"]
    /\ pc' = IF k = 1 THEN "done" ELSE "body"

LEMMA DropBase ==
    ASSUME Base, Drop
    PROVE  Base' /\ Covered' /\ \E k \in 1..Len(frames) : Cut(k)
<1>1. /\ Len(frames) \in Nat \ {0} /\ frames \in Seq(Scopes)
      /\ tenant \in 1..Tenants /\ frames # <<>>
  BY TopTyped DEF Base, Drop, Typed
<1>2. PICK k \in 1..Len(frames) :
          /\ frames' = SubSeq(frames, 1, k - 1)
          /\ tasks' = Spawned({frames[i] : i \in k..Len(frames)})
          /\ outcome' = [s \in Scopes |-> IF s \notin {frames[i] : i \in k..Len(frames)} THEN outcome[s]
                                          ELSE IF s = Top /\ pc = "finish" THEN "unknown"
                                          ELSE "dropped"]
          /\ pc' = IF k = 1 THEN "done" ELSE "body"
  BY DEF Drop
<1>3. /\ frames' \in Seq(Scopes) /\ Len(frames') = k - 1
      /\ \A i \in 1..(k - 1) : frames'[i] = frames[i]
  BY <1>1, <1>2
<1>4. Cut(k)
  BY <1>2, <1>3 DEF Cut
<1>5. queue' \in Seq(Commands)
  <2>1. queue \in Seq(Commands)
    BY DEF Base, Typed
  <2> QED
    BY <2>1, OrphanedQueue DEF Drop
<1>6. tasks' \subseteq Tasks
  <2>1. \A i \in k..Len(frames) : frames[i] \in Scopes
    BY <1>1, <1>2
  <2>2. \A s \in Scopes : [kind |-> "cleanup", scope |-> s, step |-> 1] \in Tasks
    BY DEF Tasks, Leftovers
  <2>3. tasks \subseteq Tasks
    BY DEF Base, Typed
  <2> QED
    BY <1>2, <2>1, <2>2, <2>3 DEF Spawned
<1>7. outcome' \in [Scopes -> {"none", "ok", "err", "dropped", "unknown"}]
  <2>1. outcome \in [Scopes -> {"none", "ok", "err", "dropped", "unknown"}]
    BY DEF Base, Typed
  <2> QED
    BY <1>2, <2>1
<1>8. drops' \in 0..MaxDrops
  <2>1. drops \in 0..MaxDrops /\ MaxDrops \in Nat /\ drops < MaxDrops /\ drops' = drops + 1
    BY BoundsAssumption DEF Drop, Base, Typed
  <2> QED
    BY <2>1
<1>9. Typed'
  BY <1>2, <1>3, <1>5, <1>6, <1>7, <1>8 DEF Base, Typed, Drop, PCs, serverVars
<1>10. frames' # <<>> <=> k # 1
  <2>1. k \in Nat /\ Len(frames') = k - 1 /\ frames' \in Seq(Scopes)
    BY <1>1, <1>2, <1>3
    <2> QED
    BY <2>1
<1>11. Nested'
  <2>1. \A i \in 2..Len(frames') : i \in 2..Len(frames) /\ frames'[i] = frames[i]
    BY <1>1, <1>2, <1>3
  <2>2. \A i \in 2..Len(frames') : frames'[i].tenant = tenant /\ frames'[i].n \in 2..(opened + 1)
    BY <2>1 DEF Base, Nested
  <2>3. k # 1 => frames'[1] = Tx(tenant)
    BY <1>1, <1>2, <1>3 DEF Base, Nested
  <2>4. UNCHANGED <<tenant, opened>>
    BY DEF Drop
  <2> QED
    BY <1>1, <1>2, <1>10, <2>2, <2>3, <2>4 DEF Nested, InScope
<1>12. Stacked'
  <2>1. conn = "dead" => queue' = <<>>
    <3>1. queue = <<>> => queue' = <<>>
      BY DEF Drop
    <3> QED
      BY <3>1 DEF Base, Stacked
  <2> QED
    BY <2>1, StackedFrame DEF Base, Drop, serverVars
<1>13. Covered'
  <2>1. CASE k # 1
    BY <2>1, <1>2, <1>10 DEF Covered, Inside
  <2>2. CASE k = 1
    <3> DEFINE t == [kind |-> "cleanup", scope |-> Tx(tenant), step |-> 1]
    <3>1. frames[1] = Tx(tenant) /\ 1 \in k..Len(frames)
      BY <1>1, <2>2 DEF Base, Nested
    <3>2. t \in tasks'
      BY <1>2, <3>1 DEF Spawned
    <3>3. t.step = 1 /\ t.scope.n = 1
      BY DEF Tx
    <3> QED
      BY <3>2, <3>3 DEF Covered, Due
  <2> QED
    BY <2>1, <2>2
<1> QED
  BY <1>2, <1>4, <1>9, <1>11, <1>12, <1>13 DEF Base

-----------------------------------------------------------------------------
(* Spawned tasks and the hand-over *)

Sends(t) == conn = "alive" /\ t.step <= Len(Script(t))
TaskCmd(t) == Cmd(Script(t)[t.step], t.scope, t.scope.tenant, t.kind)
Later(t) == [t EXCEPT !.step = @ + 1]

LEMMA ScriptFacts ==
    ASSUME NEW t \in Tasks
    PROVE  /\ Len(Script(t)) = IF t.scope.n = 1 THEN 1 ELSE 2
           /\ t.kind = "stream" => Script(t)[1] = "COMMIT"
           /\ t.kind = "cleanup" /\ t.scope.n = 1 => Script(t)[1] = "ROLLBACK"
           /\ t.scope.n # 1 => Script(t)[1] = "ROLLBACK_TO" /\ Script(t)[2] = "RELEASE"
           /\ t.scope.n # 1 => t.scope.n > 1 /\ t.kind = "cleanup"
<1>1. t.kind \in {"cleanup", "stream"} /\ (t.kind = "stream" => t.scope.n = 1)
      /\ t.scope.n \in Nat \ {0}
  BY BoundsAssumption DEF Tasks, Leftovers, Scopes
<1> QED
  BY <1>1 DEF Script

LEMMA TaskCommand ==
    ASSUME NEW t \in Tasks, t.step <= Len(Script(t))
    PROVE  /\ TaskCmd(t) \in Commands /\ Later(t) \in Tasks
           /\ Later(t).step = t.step + 1 /\ Later(t).kind = t.kind /\ Later(t).scope = t.scope
           /\ TaskCmd(t).op # "BEGIN" /\ TaskCmd(t).op # "WRITE"
           /\ t.scope.n = 1 => Ends(TaskCmd(t)) /\ t.step = 1
<1>1. /\ t.scope \in Scopes /\ t.kind \in Leftovers \cup {"user", "orphan"} /\ t.step \in 1..3
      /\ t.scope.n \in Nat
  BY BoundsAssumption DEF Tasks, Scopes
<1>2. CASE t.scope.n = 1
  <2>1. t.step = 1 /\ Script(t)[1] \in {"COMMIT", "ROLLBACK"}
        /\ ~(Script(t)[1] = "COMMIT" /\ t.kind = "cleanup")
    <3>1. Len(Script(t)) = 1 /\ t.kind \in {"cleanup", "stream"}
      BY <1>2, ScriptFacts DEF Tasks, Leftovers
    <3>2. Script(t)[1] \in {"COMMIT", "ROLLBACK"} /\ ~(Script(t)[1] = "COMMIT" /\ t.kind = "cleanup")
      BY <1>2, <3>1, ScriptFacts
    <3> QED
      BY <1>1, <3>1, <3>2
  <2>2. TaskCmd(t) \in Commands
    BY <1>1, <1>2, <2>1, CommandTyped DEF TaskCmd
  <2>3. Later(t) \in Tasks /\ Later(t).step = t.step + 1 /\ Later(t).kind = t.kind
        /\ Later(t).scope = t.scope
    BY <1>2, <2>1 DEF Tasks, Later
  <2> QED
    BY <2>1, <2>2, <2>3 DEF TaskCmd, Ends, Cmd
<1>3. CASE t.scope.n # 1
  <2>1. t.step \in {1, 2} /\ t.scope.n > 1 /\ t.kind = "cleanup"
        /\ Script(t)[t.step] \in {"ROLLBACK_TO", "RELEASE"}
    <3>1. Len(Script(t)) = 2 /\ t.kind = "cleanup" /\ t.scope.n > 1
      BY <1>3, ScriptFacts
    <3>2. Script(t)[1] = "ROLLBACK_TO" /\ Script(t)[2] = "RELEASE"
      BY <1>3, ScriptFacts
    <3>3. t.step \in {1, 2}
      BY <1>1, <3>1
    <3> QED
      BY <3>1, <3>2, <3>3
  <2>2. TaskCmd(t) \in Commands
    BY <1>1, <2>1, CommandTyped DEF TaskCmd
  <2>3. Later(t) \in Tasks /\ Later(t).step = t.step + 1 /\ Later(t).kind = t.kind
        /\ Later(t).scope = t.scope
    BY <1>3, <2>1 DEF Tasks, Later
  <2> QED
    BY <1>3, <2>1, <2>2, <2>3 DEF TaskCmd, Cmd
<1> QED
  BY <1>2, <1>3

LEMMA TaskStepBase ==
    ASSUME Base, Covered, NEW t \in tasks, TaskStep(t)
    PROVE  Base' /\ Covered'
<1>1. t \in Tasks /\ tasks \subseteq Tasks /\ queue \in Seq(Commands)
  BY DEF Base, Typed
<1>2. IF Sends(t) THEN queue' = Append(queue, TaskCmd(t)) /\ tasks' = (tasks \ {t}) \cup {Later(t)}
      ELSE tasks' = tasks \ {t} /\ UNCHANGED queue
  BY DEF TaskStep, Sends, TaskCmd, Later
<1>3. Sends(t) => TaskCmd(t) \in Commands /\ Later(t) \in Tasks
  BY <1>1, TaskCommand DEF Sends
<1>4. queue' \in Seq(Commands) /\ tasks' \subseteq Tasks
  BY <1>1, <1>2, <1>3
<1>5. Typed'
  BY <1>4 DEF Base, Typed, TaskStep, callVars, serverVars, history, Marked
<1>6. Nested'
  BY DEF Base, Nested, TaskStep, callVars
<1>7. Stacked'
  <2>1. conn = "dead" => queue' = <<>>
    BY <1>2 DEF Base, Stacked, Sends
  <2> QED
    BY <2>1, StackedFrame DEF Base, TaskStep, serverVars
<1>8. Covered'
  <2> SUFFICES ASSUME conn = "alive" PROVE Inside' \/ Due' \/ Sealed(queue', levels' # <<>>)
    BY DEF Covered, TaskStep
  <2>1. UNCHANGED <<frames, pc, levels>>
    BY DEF TaskStep, callVars, serverVars
  <2>2. CASE Inside
    BY <2>1, <2>2 DEF Inside
  <2>3. CASE Sends(t) /\ t.scope.n = 1
    <3>1. Sealed(queue', levels' # <<>>)
      BY <2>3, <1>1, <1>2, <1>3, TaskCommand, SealedEnd DEF Sends
    <3> QED
      BY <3>1
  <2>4. CASE ~(Sends(t) /\ t.scope.n = 1) /\ Due
    <3>1. PICK u \in tasks : u.step = 1 /\ u.scope.n = 1
      BY <2>4 DEF Due
    <3>2. u # t
      <4> SUFFICES ASSUME u = t PROVE FALSE
        OBVIOUS
      <4>1. Len(Script(t)) = 1
        BY <3>1, <1>1, ScriptFacts
      <4> QED
        BY <3>1, <4>1, <2>4 DEF Sends
    <3>3. u \in tasks'
      BY <3>1, <3>2, <1>2
    <3> QED
      BY <3>1, <3>3 DEF Due
  <2>5. CASE Sealed(queue, levels # <<>>)
    <3>1. CASE Sends(t)
      <4>1. TaskCmd(t).op # "BEGIN"
        BY <3>1, <1>1, TaskCommand DEF Sends
      <4>2. Sealed(Append(queue, TaskCmd(t)), levels # <<>>)
        BY <4>1, <3>1, <1>1, <1>3, <2>5, SealedMore
      <4> QED
        BY <4>2, <3>1, <1>2, <2>1
    <3>2. CASE ~Sends(t)
      BY <3>2, <2>5, <1>2, <2>1
    <3> QED
      BY <3>1, <3>2
  <2> QED
    BY <2>2, <2>3, <2>4, <2>5 DEF Covered
<1> QED
  BY <1>5, <1>6, <1>7, <1>8 DEF Base

(* The tenant has left its scopes, and nothing else changes but where it    *)
(* stands.                                                                  *)
LEMMA HandOverBase ==
    ASSUME Base, Covered, Typed', frames = <<>>, pc' \in {"idle", "dropped", "return"},
           tenant' <= Tenants \/ pc' = "idle",
           UNCHANGED <<frames, opened, tasks, queue, levels, failed>>,
           conn' = conn \/ conn' = "discarded"
    PROVE  Base' /\ Covered'
<1>1. Nested'
  BY DEF Base, Nested, InScope
<1>2. Stacked'
  BY DEF Base, Stacked
<1>3. Covered'
  BY DEF Covered, Inside, Due
<1> QED
  BY <1>1, <1>2, <1>3 DEF Base

LEMMA ReuseBase ==
    ASSUME Base, Covered, Reuse
    PROVE  Base' /\ Covered'
<1>1. frames = <<>> /\ tenant <= Tenants
  BY DEF Reuse, Base, Nested, InScope
<1>2. Typed'
  <2>1. tenant' \in 1..(Tenants + 1)
    BY <1>1, BoundsAssumption DEF Base, Typed, Reuse, NextTenant
  <2> QED
    BY <2>1 DEF Base, Typed, Reuse, NextTenant, PCs, serverVars, history
<1> QED
  BY <1>1, <1>2, HandOverBase DEF Reuse, NextTenant, serverVars

LEMMA ReturnBase ==
    ASSUME Base, Covered, Return
    PROVE  Base' /\ Covered'
<1>1. frames = <<>> /\ tenant <= Tenants
  BY DEF Return, Answered, Base, Nested, InScope
<1>2. Typed'
  <2>1. tenant' \in 1..(Tenants + 1)
    BY <1>1, BoundsAssumption DEF Base, Typed, Return, NextTenant
  <2> QED
    BY <2>1 DEF Base, Typed, Return, NextTenant, PCs, serverVars, history
<1> QED
  BY <1>1, <1>2, HandOverBase DEF Return, NextTenant, serverVars

LEMMA RecycleFailsBase ==
    ASSUME Base, Covered, RecycleFails
    PROVE  Base' /\ Covered'
<1>1. frames = <<>>
  BY DEF RecycleFails, Answered, Base, Nested, InScope
<1>2. Typed'
  BY <1>1 DEF Base, Typed, RecycleFails, PCs, serverVars, history
<1> QED
  BY <1>1, <1>2, HandOverBase DEF RecycleFails, serverVars

LEMMA DropConnectionBase ==
    ASSUME Base, Covered, DropConnection
    PROVE  Base' /\ Covered'
<1>1. frames = <<>> /\ tenant <= Tenants
  BY DEF DropConnection, Base, Nested, InScope
<1>2. Typed'
  BY <1>1 DEF Base, Typed, DropConnection, PCs, serverVars, history
<1> QED
  BY <1>1, <1>2, HandOverBase DEF DropConnection, serverVars

LEMMA RecycleBase ==
    ASSUME Base, Covered, Recycle
    PROVE  Base' /\ Covered'
<1>1. frames = <<>> /\ tenant \in 1..Tenants /\ pc = "dropped"
  BY DEF Recycle, Base, Nested, InScope, Typed
<1>2. CASE known
  <2>1. UNCHANGED <<queue, reply, conn>> /\ pc' = "return"
    BY <1>2 DEF Recycle
  <2>2. Typed'
    BY <2>1 DEF Base, Typed, Recycle, PCs, serverVars, history
  <2>3. tenant' <= Tenants
    BY <1>1 DEF Recycle
  <2> QED
    BY <1>1, <2>1, <2>2, <2>3, HandOverBase DEF Recycle, serverVars
<1>3. CASE ~known
  <2> DEFINE c == Cmd("ROLLBACK", Tx(tenant), tenant, "user")
  <2>1. c \in Commands /\ Ends(c)
    BY <1>1, TxTyped, CommandTyped DEF Ends, Cmd
  <2>2. Send(c) /\ pc' = "recycle" /\ UNCHANGED conn
    BY <1>3 DEF Recycle, Call
  <2> HIDE DEF c
  <2>3. queue' \in Seq(Commands) /\ reply' \in {"none", "ok", "err"} /\ Added(c)
    BY <2>1, <2>2, SendFacts DEF Base
  <2>4. Typed'
    BY <2>2, <2>3 DEF Base, Typed, Recycle, PCs, serverVars, history
  <2>5. Nested'
    BY <1>1, <2>2 DEF Base, Nested, Recycle, InScope
  <2>6. Stacked'
    BY <2>2, <2>3, StackedSent DEF Base, Recycle, serverVars
  <2>7. Covered'
    <3> SUFFICES ASSUME conn = "alive" PROVE Sealed(queue', levels' # <<>>)
      BY <2>2 DEF Covered
    <3>1. queue' = Append(queue, c) /\ queue \in Seq(Commands)
      BY <2>3 DEF Added, Base, Typed
    <3> QED
      BY <2>1, <3>1, SealedEnd
  <2> QED
    BY <2>4, <2>5, <2>6, <2>7 DEF Base
<1> QED
  BY <1>2, <1>3 DEF Base, Typed

LEMMA DieBase ==
    ASSUME Base, Die
    PROVE  Base' /\ Covered'
<1>1. Typed'
  <2>1. queue' \in Seq(Commands) /\ levels' \in Seq(LevelSet) /\ failed' \in BOOLEAN
    BY EmptySeqFacts DEF Die
  <2>2. reply' \in {"none", "ok", "err"} /\ conn' \in {"alive", "dead", "discarded"}
    BY DEF Die, Base, Typed
  <2> QED
    BY <2>1, <2>2 DEF Base, Typed, Die, callVars, history
<1>2. Nested'
  BY DEF Base, Nested, Die, callVars
<1>3. Stacked' /\ Covered'
  BY DEF Stacked, Covered, Die
<1> QED
  BY <1>1, <1>2, <1>3 DEF Base

-----------------------------------------------------------------------------
(* The server *)

(* What the answer to a command may do to the open transaction.             *)
Sound(c, x) ==
    /\ x.reply \in {"ok", "err"} /\ x.levels \in Seq(LevelSet) /\ x.failed \in BOOLEAN
    /\ x.new \subseteq Writes
    /\ \A i \in 1..Len(x.levels) : (x.levels[i].scope.n = 1 <=> i = 1)
    /\ x.failed => x.levels # <<>>
    /\ Ends(c) => x.levels = <<>>
    /\ c.op # "BEGIN" /\ x.levels # <<>> => levels # <<>>

LEMMA SoundSame ==
    ASSUME Base, NEW c, ~Ends(c) \/ levels = <<>>, NEW x, x.reply \in {"ok", "err"},
           x.levels = levels, x.failed = failed \/ x.failed = (levels # <<>>), x.new = {}
    PROVE  Sound(c, x)
<1>1. levels \in Seq(LevelSet) /\ failed \in BOOLEAN
  BY DEF Base, Typed
<1>2. x.failed \in BOOLEAN /\ (x.failed => levels # <<>>)
  BY <1>1 DEF Base, Stacked
<1>3. \A i \in 1..Len(levels) : (levels[i].scope.n = 1 <=> i = 1)
  BY DEF Base, Stacked
<1>4. /\ x.levels \in Seq(LevelSet) /\ x.new \subseteq Writes
      /\ \A i \in 1..Len(x.levels) : (x.levels[i].scope.n = 1 <=> i = 1)
  BY <1>1, <1>3
<1>5. /\ x.failed => x.levels # <<>>
      /\ Ends(c) => x.levels = <<>>
      /\ c.op # "BEGIN" /\ x.levels # <<>> => levels # <<>>
  BY <1>2
<1> QED
  BY <1>2, <1>4, <1>5, Zenon DEF Sound

LEMMA SoundNone ==
    ASSUME NEW c, NEW r \in {"ok", "err"}, NEW new \in SUBSET Writes
    PROVE  Sound(c, Outcome(r, <<>>, FALSE, new))
<1> DEFINE x == Outcome(r, <<>>, FALSE, new)
<1>1. x.reply \in {"ok", "err"} /\ x.levels = <<>> /\ x.new \subseteq Writes
  BY DEF Outcome
<1>2. x.failed \in BOOLEAN /\ ~x.failed
  BY DEF Outcome
<1> HIDE DEF x
<1>3. x.levels \in Seq(LevelSet) /\ 1..Len(x.levels) = {}
  BY <1>1, EmptySeqFacts
<1>4. Sound(c, x)
  BY <1>1, <1>2, <1>3, Zenon DEF Sound
<1> QED
  BY <1>4 DEF x

LEMMA OutcomeFields ==
    ASSUME NEW r, NEW ls, NEW f, NEW new
    PROVE  /\ Outcome(r, ls, f, new).reply = r /\ Outcome(r, ls, f, new).levels = ls
           /\ Outcome(r, ls, f, new).failed = f /\ Outcome(r, ls, f, new).new = new
  BY DEF Outcome

LEMMA AllWritesTyped ==
    ASSUME Base
    PROVE  AllWrites \subseteq Writes
<1>1. \A i \in 1..Len(levels) : levels[i] \in LevelSet
  BY DEF Base, Typed
<1>2. \A i \in 1..Len(levels) : levels[i].writes \subseteq Writes
  BY <1>1 DEF LevelSet
<1> QED
  BY <1>2 DEF AllWrites

(* RELEASE of the savepoint at i, ROLLBACK TO it.                           *)
Merged(i) == SubSeq(levels, 1, i - 2) \o
             <<Level(levels[i - 1].scope, UNION {levels[j].writes : j \in (i - 1)..Len(levels)})>>
Restored(i, s) == SubSeq(levels, 1, i - 1) \o <<Level(s, {})>>

(* m is the first k elements of s and then x.                               *)
CutThen(S, s, k, x, m) ==
    /\ m \in Seq(S)
    /\ Len(m) = k + 1
    /\ \A i \in 1..k : m[i] = s[i]
    /\ m[k + 1] = x

LEMMA SubSeqThen ==
    ASSUME NEW S, NEW s \in Seq(S), NEW k \in 0..Len(s), NEW x \in S
    PROVE  CutThen(S, s, k, x, SubSeq(s, 1, k) \o <<x>>)
<1>1. Len(s) \in Nat /\ k \in Nat
  OBVIOUS
<1>2. SubSeq(s, 1, k) \in Seq(S) /\ Len(SubSeq(s, 1, k)) = k
      /\ \A i \in 1..k : SubSeq(s, 1, k)[i] = s[i]
  BY <1>1
<1> DEFINE p == SubSeq(s, 1, k)
<1>3. p \in Seq(S) /\ Len(p) = k /\ \A i \in 1..k : p[i] = s[i]
  BY <1>2
<1> HIDE DEF p
<1>4. /\ p \o <<x>> \in Seq(S) /\ Len(p \o <<x>>) = k + 1
      /\ (\A i \in 1..k : (p \o <<x>>)[i] = p[i]) /\ (p \o <<x>>)[k + 1] = x
  BY <1>1, <1>3
<1> DEFINE m == p \o <<x>>
<1>5. /\ m \in Seq(S) /\ Len(m) = k + 1
      /\ (\A i \in 1..k : m[i] = p[i]) /\ m[k + 1] = x
  BY <1>4
<1> HIDE DEF m
<1>6. CutThen(S, s, k, x, m)
  BY <1>3, <1>5 DEF CutThen
<1> QED
  BY <1>6, Zenon DEF m, p

LEMMA IndexFacts ==
    ASSUME Base, NEW s \in Scopes, s.n > 1, NEW i \in Index(s)
    PROVE  /\ i \in 2..Len(levels) /\ levels[i].scope = s /\ Len(levels) \in Nat
           /\ levels \in Seq(LevelSet) /\ levels[i - 1] \in LevelSet
<1>1. i \in 1..Len(levels) /\ levels[i].scope = s /\ Len(levels) \in Nat /\ levels \in Seq(LevelSet)
  BY DEF Index, Base, Typed
<1>2. i # 1
  BY <1>1, BoundsAssumption DEF Base, Stacked, Scopes
<1>3. i \in 2..Len(levels) /\ i - 1 \in 1..Len(levels)
  BY <1>1, <1>2
<1> QED
  BY <1>1, <1>3

LEMMA MergedFacts ==
    ASSUME Base, NEW s \in Scopes, s.n > 1, NEW i \in Index(s)
    PROVE  /\ Merged(i) \in Seq(LevelSet) /\ Len(Merged(i)) = i - 1
           /\ \A j \in 1..(i - 2) : Merged(i)[j] = levels[j]
           /\ Merged(i)[i - 1] = Level(levels[i - 1].scope,
                                       UNION {levels[j].writes : j \in (i - 1)..Len(levels)})
<1> DEFINE ws == UNION {levels[j].writes : j \in (i - 1)..Len(levels)}
<1>1. /\ i \in 2..Len(levels) /\ levels[i].scope = s /\ Len(levels) \in Nat
      /\ levels \in Seq(LevelSet) /\ levels[i - 1] \in LevelSet
  BY IndexFacts
<1>2. \A j \in (i - 1)..Len(levels) : levels[j].writes \subseteq Writes
  <2>1. \A j \in (i - 1)..Len(levels) : levels[j] \in LevelSet
    BY <1>1
  <2> QED
    BY <2>1 DEF LevelSet
<1>3. ws \subseteq Writes
  BY <1>2
<1> HIDE DEF ws
<1>4. Level(levels[i - 1].scope, ws) \in LevelSet
  BY <1>1, <1>3 DEF LevelSet, Level
<1>5. i - 2 \in 0..Len(levels) /\ (i - 2) + 1 = i - 1
  BY <1>1
<1>6. Merged(i) = SubSeq(levels, 1, i - 2) \o <<Level(levels[i - 1].scope, ws)>>
  BY DEF Merged, ws
<1> DEFINE l == Level(levels[i - 1].scope, ws)
           m == Merged(i)
           k == i - 2
<1>61. m = SubSeq(levels, 1, k) \o <<l>> /\ l \in LevelSet /\ k \in 0..Len(levels)
  BY <1>4, <1>5, <1>6
<1>62. levels \in Seq(LevelSet)
  BY <1>1
<1> HIDE DEF l, m, k
<1>63. /\ m \in Seq(LevelSet) /\ Len(m) = k + 1
       /\ (\A j \in 1..k : m[j] = levels[j]) /\ m[k + 1] = l
  <2>1. CutThen(LevelSet, levels, k, l, SubSeq(levels, 1, k) \o <<l>>)
    BY <1>61, <1>62, SubSeqThen, Zenon
  <2>2. CutThen(LevelSet, levels, k, l, m)
    BY <1>61, <2>1, Zenon
  <2> QED
    BY <2>2 DEF CutThen
<1>7. /\ m \in Seq(LevelSet) /\ Len(m) = (i - 2) + 1
      /\ (\A j \in 1..(i - 2) : m[j] = levels[j]) /\ m[(i - 2) + 1] = l
  BY <1>63 DEF k
<1>8. /\ m \in Seq(LevelSet) /\ Len(m) = i - 1
      /\ (\A j \in 1..(i - 2) : m[j] = levels[j]) /\ m[i - 1] = l
  BY <1>5, <1>7
<1> QED
  BY <1>8 DEF l, m, ws

LEMMA RestoredFacts ==
    ASSUME Base, NEW s \in Scopes, s.n > 1, NEW i \in Index(s)
    PROVE  /\ Restored(i, s) \in Seq(LevelSet) /\ Len(Restored(i, s)) = i
           /\ \A j \in 1..(i - 1) : Restored(i, s)[j] = levels[j]
           /\ Restored(i, s)[i] = Level(s, {})
<1>1. /\ i \in 2..Len(levels) /\ Len(levels) \in Nat /\ levels \in Seq(LevelSet)
  BY IndexFacts
<1>2. Level(s, {}) \in LevelSet
  BY DEF Level, LevelSet
<1>3. i - 1 \in 0..Len(levels) /\ (i - 1) + 1 = i
  BY <1>1
<1> DEFINE l == Level(s, {})
           m == Restored(i, s)
           k == i - 1
<1>31. m = SubSeq(levels, 1, k) \o <<l>>
  BY DEF Restored
<1>32. l \in LevelSet /\ k \in 0..Len(levels) /\ levels \in Seq(LevelSet)
  BY <1>1, <1>2, <1>3
<1> HIDE DEF l, m, k
<1>33. CutThen(LevelSet, levels, k, l, SubSeq(levels, 1, k) \o <<l>>)
  BY <1>32, SubSeqThen, Zenon
<1>34. CutThen(LevelSet, levels, k, l, m)
  BY <1>31, <1>33, Zenon
<1>35. /\ m \in Seq(LevelSet) /\ Len(m) = k + 1
       /\ (\A j \in 1..k : m[j] = levels[j]) /\ m[k + 1] = l
  BY <1>34 DEF CutThen
<1>4. /\ m \in Seq(LevelSet) /\ Len(m) = (i - 1) + 1
      /\ (\A j \in 1..(i - 1) : m[j] = levels[j]) /\ m[(i - 1) + 1] = l
  BY <1>35 DEF k
<1>5. /\ m \in Seq(LevelSet) /\ Len(m) = i
      /\ (\A j \in 1..(i - 1) : m[j] = levels[j]) /\ m[i] = l
  BY <1>3, <1>4
<1> QED
  BY <1>5 DEF l, m

LEMMA SoundExecutions ==
    ASSUME Base, NEW c \in Commands, NEW x \in Executions(c)
    PROVE  Sound(c, x)
<1>1. c.op \in Ops /\ Proper(c)
  BY DEF Commands
<1>2. Len(levels) \in Nat /\ levels \in Seq(LevelSet)
  BY DEF Base, Typed
<1>3. ~Ends(c) => Sound(c, Refused)
  BY SoundSame, OutcomeFields DEF Refused
<1>4. ~Ends(c) \/ levels = <<>> => Sound(c, Noted)
  BY SoundSame, OutcomeFields DEF Noted
<1>5. \A r \in {"ok", "err"}, new \in SUBSET Writes : Sound(c, Outcome(r, <<>>, FALSE, new))
  BY SoundNone
<1>6. CASE c.op = "BEGIN"
  <2>1. ~Ends(c)
    BY <1>6 DEF Ends
  <2> DEFINE y == Outcome("ok", <<Level(c.arg, {})>>, FALSE, {})
  <2>2. x \in {Refused, Noted, y}
    BY <1>6 DEF Executions
  <2>3. c.arg \in Scopes /\ c.arg.n = 1
    BY <1>1, <1>6 DEF Proper
  <2>4. Level(c.arg, {}) \in LevelSet /\ Level(c.arg, {}).scope.n = 1
    BY <2>3 DEF Level, LevelSet
  <2>5. /\ y.reply = "ok" /\ y.levels = <<Level(c.arg, {})>> /\ y.failed = FALSE /\ y.new = {}
    BY DEF Outcome
  <2> HIDE DEF y
  <2>6. Sound(c, y)
    <3>1. /\ y.levels \in Seq(LevelSet) /\ y.new \subseteq Writes
          /\ \A i \in 1..Len(y.levels) : (y.levels[i].scope.n = 1 <=> i = 1)
      BY <2>4, <2>5
    <3>2. y.failed \in BOOLEAN /\ ~y.failed
      BY <2>5, Zenon
    <3>3. y.reply \in {"ok", "err"}
      BY <2>5
    <3> QED
      BY <1>6, <2>1, <3>1, <3>2, <3>3, Zenon DEF Sound
  <2> QED
    BY <1>3, <1>4, <2>1, <2>2, <2>6
<1>7. CASE c.op = "COMMIT"
  <2>1. AllWrites \subseteq Writes
    BY AllWritesTyped
  <2>2. \/ x = Noted /\ levels = <<>>
        \/ \E r \in {"ok", "err"}, new \in SUBSET Writes : x = Outcome(r, <<>>, FALSE, new)
    <3>1. CASE Len(levels) = 0
      BY <1>7, <3>1, <1>2 DEF Executions
    <3>2. CASE Len(levels) # 0
      BY <1>7, <3>2, <2>1 DEF Executions
    <3> QED
      BY <3>1, <3>2
  <2> QED
    BY <1>4, <1>5, <2>2
<1>8. CASE c.op = "ROLLBACK"
  <2>1. x = Outcome("ok", <<>>, FALSE, {})
    BY <1>8 DEF Executions
  <2> QED
    BY <2>1, <1>5
<1>9. CASE c.op = "SAVEPOINT"
  <2>1. ~Ends(c)
    BY <1>9 DEF Ends
  <2> DEFINE y == Outcome("ok", Append(levels, Level(c.arg, {})), FALSE, {})
  <2>2. x = Refused \/ (x = y /\ Len(levels) # 0)
    BY <1>9 DEF Executions
  <2>3. c.arg \in Scopes /\ c.arg.n > 1
    BY <1>1, <1>9 DEF Proper
  <2>4. Level(c.arg, {}) \in LevelSet /\ Level(c.arg, {}).scope = c.arg
    BY <2>3 DEF Level, LevelSet
  <2>5. /\ y.reply = "ok" /\ y.levels = Append(levels, Level(c.arg, {})) /\ y.failed = FALSE
        /\ y.new = {}
    BY DEF Outcome
  <2> HIDE DEF y
  <2>6. ASSUME Len(levels) # 0 PROVE Sound(c, y)
    <3>1. /\ y.levels \in Seq(LevelSet) /\ Len(y.levels) = Len(levels) + 1
          /\ \A i \in 1..Len(levels) : y.levels[i] = levels[i]
          /\ y.levels[Len(levels) + 1].scope = c.arg
      BY <1>2, <2>4, <2>5, AppendFacts
    <3>2. c.arg.n # 1
      BY <2>3 DEF Scopes
    <3>3. \A i \in 1..Len(y.levels) : (y.levels[i].scope.n = 1 <=> i = 1)
      <4> TAKE i \in 1..Len(y.levels)
      <4>1. i \in 1..Len(levels) \/ i = Len(levels) + 1
        BY <1>2, <3>1
      <4> QED
        BY <1>2, <2>6, <3>1, <3>2, <4>1 DEF Base, Stacked
    <3>4. levels # <<>>
      BY <2>6
    <3> QED
      BY <2>1, <2>5, <3>1, <3>3, <3>4 DEF Sound
  <2> QED
    BY <1>3, <2>1, <2>2, <2>6
<1>10. CASE c.op = "RELEASE"
  <2>1. ~Ends(c)
    BY <1>10 DEF Ends
  <2>2. x = Refused \/ \E i \in Index(c.arg) : x = Outcome("ok", Merged(i), FALSE, {})
    BY <1>10 DEF Executions, Merged
  <2>3. c.arg \in Scopes /\ c.arg.n > 1
    BY <1>1, <1>10 DEF Proper
  <2>4. ASSUME NEW i \in Index(c.arg), x = Outcome("ok", Merged(i), FALSE, {}) PROVE Sound(c, x)
    <3>1. x.reply = "ok" /\ x.levels = Merged(i) /\ x.failed = FALSE /\ x.new = {}
      BY <2>4 DEF Outcome
    <3>2. i \in 2..Len(levels)
      BY <2>3, IndexFacts
    <3>3. /\ Merged(i) \in Seq(LevelSet) /\ Len(Merged(i)) = i - 1
          /\ \A j \in 1..(i - 2) : Merged(i)[j] = levels[j]
          /\ Merged(i)[i - 1].scope = levels[i - 1].scope
      <4>1. /\ Merged(i) \in Seq(LevelSet) /\ Len(Merged(i)) = i - 1
            /\ \A j \in 1..(i - 2) : Merged(i)[j] = levels[j]
            /\ Merged(i)[i - 1] = Level(levels[i - 1].scope,
                                        UNION {levels[j].writes : j \in (i - 1)..Len(levels)})
        BY <2>3, MergedFacts
      <4> QED
        BY <4>1 DEF Level
    <3>4. \A j \in 1..Len(x.levels) : x.levels[j].scope = levels[j].scope /\ j \in 1..Len(levels)
      <4> TAKE j \in 1..Len(x.levels)
      <4>1. j \in 1..(i - 2) \/ j = i - 1
        BY <1>2, <3>1, <3>2, <3>3
      <4> QED
        BY <1>2, <3>1, <3>2, <3>3, <4>1
    <3>5. \A j \in 1..Len(x.levels) : (x.levels[j].scope.n = 1 <=> j = 1)
      BY <3>4 DEF Base, Stacked
    <3>6. levels # <<>>
      BY <1>2, <3>2
    <3> QED
      BY <2>1, <3>1, <3>3, <3>5, <3>6 DEF Sound
  <2> QED
    BY <1>3, <2>1, <2>2, <2>4
<1>11. CASE c.op = "ROLLBACK_TO"
  <2>1. ~Ends(c)
    BY <1>11 DEF Ends
  <2>2. x = Refused \/ \E i \in Index(c.arg) : x = Outcome("ok", Restored(i, c.arg), FALSE, {})
    BY <1>11 DEF Executions, Restored
  <2>3. c.arg \in Scopes /\ c.arg.n > 1
    BY <1>1, <1>11 DEF Proper
  <2>4. ASSUME NEW i \in Index(c.arg), x = Outcome("ok", Restored(i, c.arg), FALSE, {})
        PROVE  Sound(c, x)
    <3> DEFINE m == Restored(i, c.arg)
    <3>1. x.reply = "ok" /\ x.levels = m /\ x.failed = FALSE /\ x.new = {}
      BY <2>4 DEF Outcome
    <3>2. i \in 2..Len(levels) /\ levels[i].scope = c.arg
      BY <2>3, IndexFacts
    <3>3. /\ m \in Seq(LevelSet) /\ Len(m) = i
          /\ \A j \in 1..(i - 1) : m[j] = levels[j]
          /\ m[i].scope = c.arg
      <4>1. /\ Restored(i, c.arg) \in Seq(LevelSet) /\ Len(Restored(i, c.arg)) = i
            /\ \A j \in 1..(i - 1) : Restored(i, c.arg)[j] = levels[j]
            /\ Restored(i, c.arg)[i] = Level(c.arg, {})
        BY <2>3, RestoredFacts
      <4> QED
        BY <4>1 DEF Level
    <3> HIDE DEF m
    <3>4. \A j \in 1..Len(m) : m[j].scope = levels[j].scope /\ j \in 1..Len(levels)
      <4> TAKE j \in 1..Len(m)
      <4>1. j \in 1..(i - 1) \/ j = i
        BY <1>2, <3>2, <3>3
      <4> QED
        BY <1>2, <3>2, <3>3, <4>1
    <3>5. \A j \in 1..Len(x.levels) : (x.levels[j].scope.n = 1 <=> j = 1)
      BY <3>1, <3>4 DEF Base, Stacked
    <3>6. levels # <<>>
      BY <1>2, <3>2
    <3> QED
      BY <2>1, <3>1, <3>3, <3>5, <3>6 DEF Sound
  <2> QED
    BY <1>3, <2>1, <2>2, <2>4
<1>12. CASE c.op = "WRITE"
  <2>1. ~Ends(c) /\ c.arg \in Writes
    BY <1>1, <1>12 DEF Ends, Proper
  <2> DEFINE deep == Len(levels)
             m == [levels EXCEPT ![deep].writes = @ \cup {c.arg}]
  <2>2. x = Refused \/ x = Outcome("ok", <<>>, FALSE, {c.arg})
        \/ (x = Outcome("ok", m, FALSE, {}) /\ Len(levels) # 0)
    BY <1>12 DEF Executions
  <2>3. ASSUME x = Outcome("ok", m, FALSE, {}), Len(levels) # 0 PROVE Sound(c, x)
    <3>1. x.reply = "ok" /\ x.levels = m /\ x.failed = FALSE /\ x.new = {}
      BY <2>3 DEF Outcome
    <3>2. deep \in 1..Len(levels) /\ levels # <<>> /\ levels[deep] \in LevelSet
      BY <1>2, <2>3
    <3>3. [levels[deep] EXCEPT !.writes = @ \cup {c.arg}] \in LevelSet
          /\ [levels[deep] EXCEPT !.writes = @ \cup {c.arg}].scope = levels[deep].scope
      BY <2>1, <3>2 DEF LevelSet
    <3>4. m = [levels EXCEPT ![deep] = [levels[deep] EXCEPT !.writes = @ \cup {c.arg}]]
      BY <3>2
    <3> DEFINE l == [levels[deep] EXCEPT !.writes = @ \cup {c.arg}]
    <3> HIDE DEF l
    <3>5. m = [levels EXCEPT ![deep] = l] /\ l \in LevelSet /\ l.scope = levels[deep].scope
      BY <3>3, <3>4 DEF l
    <3> HIDE DEF m
    <3>6. m \in Seq(LevelSet) /\ Len(m) = Len(levels)
          /\ \A j \in 1..Len(levels) : m[j] = IF j = deep THEN l ELSE levels[j]
      BY <1>2, <3>2, <3>5
    <3>7. \A j \in 1..Len(x.levels) : (x.levels[j].scope.n = 1 <=> j = 1)
      <4> SUFFICES ASSUME NEW j \in 1..Len(levels) PROVE (m[j].scope.n = 1 <=> j = 1)
        BY <3>1, <3>6
      <4>1. m[j].scope = levels[j].scope
        BY <3>5, <3>6
      <4> QED
        BY <4>1 DEF Base, Stacked
    <3> QED
      BY <2>1, <3>1, <3>2, <3>6, <3>7 DEF Sound
  <2> QED
    BY <1>3, <1>5, <2>1, <2>2, <2>3
<1> QED
  BY <1>1, <1>6, <1>7, <1>8, <1>9, <1>10, <1>11, <1>12 DEF Ops

LEMMA OwnerTyped ==
    ASSUME Base
    PROVE  /\ levels # <<>> => Owner \in 1..Tenants
           /\ levels = <<>> => Owner = 0
<1>1. ASSUME levels # <<>> PROVE Owner \in 1..Tenants
  <2>1. levels[1] \in LevelSet
    BY <1>1 DEF Base, Typed
  <2> QED
    BY <1>1, <2>1 DEF Owner, LevelSet, Scopes
<1> QED
  BY <1>1 DEF Owner

LEMMA RacesTyped ==
    ASSUME Base, NEW c \in Commands
    PROVE  Races(c) \subseteq 1..Tenants
<1>1. Owner \in 0..Tenants /\ (Owner # 0 => Owner \in 1..Tenants)
  BY OwnerTyped, BoundsAssumption
<1>2. c.tenant \in 1..Tenants
  BY DEF Commands
<1>3. frames # <<>> => tenant \in 1..Tenants
  BY TopTyped DEF Base
<1> QED
  BY <1>1, <1>2, <1>3 DEF Races

(* Execute, with the answer x to the command at the head of the queue.      *)
Executed(c, x) ==
    /\ levels' = x.levels /\ failed' = x.failed
    /\ known' = (x.levels = <<>>)
    /\ committed' = committed \cup x.new
    /\ reply' = IF c.by = "user" THEN x.reply ELSE reply
    /\ acked' = IF c.op = "WRITE" /\ x.reply = "ok" THEN acked \cup {c.arg} ELSE acked
    /\ hollow' = IF c.op = "COMMIT" /\ failed THEN hollow \cup {Owner} ELSE hollow
    /\ raced' = raced \cup Races(c)
    /\ Marked(c.tenant, c.by = "cleanup" /\ x.reply = "err")

LEMMA ExecuteBase ==
    ASSUME Base, Execute
    PROVE  /\ Base' /\ (Covered => Covered')
           /\ Head(queue) \in Commands
           /\ \E x \in Executions(Head(queue)) : Executed(Head(queue), x)
<1> DEFINE c == Head(queue)
<1>1. /\ queue \in Seq(Commands) /\ queue # <<>> /\ c \in Commands /\ queue' = Tail(queue)
      /\ queue' \in Seq(Commands)
  BY TailFacts DEF Execute, Base, Typed
<1>2. PICK x \in Executions(c) : Executed(c, x)
  BY DEF Execute, Executed
<1> HIDE DEF c
<1>3. Sound(c, x)
  BY <1>1, <1>2, SoundExecutions
<1>4. UNCHANGED <<pooled, tenant, pc, frames, opened, sent, drops, tasks, conn, outcome>>
  BY DEF Execute, callVars
<1>5. reply' \in {"none", "ok", "err"} /\ broken' \in BOOLEAN /\ known' \in BOOLEAN
  <2>1. reply' \in {"none", "ok", "err"}
    BY <1>2, <1>3 DEF Executed, Sound, Base, Typed
  <2> QED
    BY <1>2, <2>1 DEF Executed, Marked
<1>6. committed' \subseteq Writes /\ acked' \subseteq Writes
  <2>1. c.op = "WRITE" => c.arg \in Writes
    BY <1>1 DEF Commands, Proper
  <2> QED
    BY <1>2, <1>3, <2>1 DEF Executed, Sound, Base, Typed
<1>7. hollow' \subseteq 1..Tenants /\ raced' \subseteq 1..Tenants
  <2>1. failed => Owner \in 1..Tenants
    BY OwnerTyped DEF Base, Stacked
  <2> QED
    BY <1>1, <1>2, <2>1, RacesTyped DEF Executed, Base, Typed
<1>8. levels' \in Seq(LevelSet) /\ failed' \in BOOLEAN
  BY <1>2, <1>3 DEF Executed, Sound
<1>9. Typed'
  BY <1>1, <1>4, <1>5, <1>6, <1>7, <1>8 DEF Base, Typed
<1>10. Nested'
  BY <1>4 DEF Base, Nested
<1>11. Stacked'
  <2>1. conn' # "dead"
    BY <1>4 DEF Execute
  <2> QED
    BY <1>2, <1>3, <2>1 DEF Executed, Sound, Stacked
<1>12. ASSUME Covered PROVE Covered'
  <2>1. CASE Inside \/ Due \/ conn # "alive"
    BY <2>1, <1>4 DEF Covered, Inside, Due
  <2>2. CASE Sealed(queue, levels # <<>>)
    <3>1. (Ends(c) => levels' = <<>>) /\ (c.op # "BEGIN" /\ levels' # <<>> => levels # <<>>)
      BY <1>2, <1>3 DEF Executed, Sound
    <3>2. Sealed(queue', levels' # <<>>)
      BY <1>1, <2>2, <3>1, SealedTail DEF c
    <3> QED
      BY <3>2 DEF Covered
  <2> QED
    BY <1>12, <2>1, <2>2 DEF Covered
<1> QED
  BY <1>1, <1>2, <1>9, <1>10, <1>11, <1>12 DEF Base, c

-----------------------------------------------------------------------------
(* Theorems *)

LEMMA CoverStep ==
    ASSUME Base, Covered, [Next]_vars
    PROVE  Base' /\ Covered'
<1>1. ASSUME Body PROVE Base' /\ Covered'
  BY <1>1, BeginBase, SavepointBase, WriteBase, FinishBase, AbandonBase, OpenStreamBase DEF Body
<1>2. ASSUME TenantStep PROVE Base' /\ Covered'
  BY <1>2, EnteredBase, EnterFailsBase, WrittenBase, FinishedBase, FinishFailsBase, RolledBackBase,
     RolledBackToBase, ReleasedBase, RollbackToFailsBase, StreamOpenedBase, ReuseBase, DropConnectionBase,
     RecycleBase, RecycleFailsBase, ReturnBase DEF TenantStep
<1>3. ASSUME NEW t \in tasks, TaskStep(t) PROVE Base' /\ Covered'
  BY <1>3, TaskStepBase
<1>4. ASSUME UNCHANGED vars PROVE Base' /\ Covered'
  <2>1. Typed'
    BY <1>4 DEF vars, Base, Typed
  <2>2. Nested' /\ Stacked'
    BY <1>4 DEF vars, Base, Nested, Stacked
  <2>3. Covered'
    BY <1>4 DEF vars, Covered, Inside, Due
  <2> QED
    BY <2>1, <2>2, <2>3 DEF Base
<1> QED
  BY <1>1, <1>2, <1>3, <1>4, DropBase, ExecuteBase, DieBase DEF Next, Over

LEMMA CoverInit ==
    ASSUME Init
    PROVE  Base /\ Covered
<1>1. queue \in Seq(Commands) /\ levels \in Seq(LevelSet) /\ frames \in Seq(Scopes)
  BY EmptySeqFacts DEF Init
<1>2. Typed
  <2>1. 1 \in 1..(Tenants + 1) /\ 0 \in 0..MaxSavepoints /\ 0 \in 0..MaxWrites /\ 0 \in 0..MaxDrops
    BY BoundsAssumption
  <2>2. outcome \in [Scopes -> {"none", "ok", "err", "dropped", "unknown"}]
    BY DEF Init
  <2> QED
    BY <1>1, <2>1, <2>2 DEF Init, Typed, PCs
<1>3. Nested /\ Stacked
  BY BoundsAssumption DEF Init, Nested, Stacked, InScope
<1>4. Covered
  BY DEF Init, Covered, Sealed
<1> QED
  BY <1>2, <1>3, <1>4 DEF Base

LEMMA CoverInvariant == Spec => [](Base /\ Covered)
<1>1. Init => Base /\ Covered
  BY CoverInit
<1>2. (Base /\ Covered) /\ [Next]_vars => (Base /\ Covered)'
  BY CoverStep
<1> QED
  BY <1>1, <1>2, PTL DEF Spec

(* Type correctness of the transactions' state.                             *)
THEOREM ScopesTypes == Spec => []TypeOK
<1>1. Base => TypeOK
  <2> SUFFICES ASSUME Base PROVE TypeOK
    OBVIOUS
  <2>1. \A i \in 1..Len(levels) : levels[i].scope \in Scopes /\ levels[i].writes \subseteq Writes
    <3>1. \A i \in 1..Len(levels) : levels[i] \in LevelSet
      BY DEF Base, Typed
    <3> QED
      BY <3>1 DEF LevelSet
  <2>2. tasks \subseteq [kind : Leftovers, scope : Scopes, step : 1..3]
    BY DEF Base, Typed, Tasks
  <2>3. {pooled, broken, failed, known} \subseteq BOOLEAN
    BY DEF Base, Typed
  <2>4. hollow \cup raced \subseteq 1..Tenants
    BY DEF Base, Typed
  <2> QED
    BY <2>1, <2>2, <2>3, <2>4 DEF TypeOK, Base, Typed, PCs
<1> QED
  BY <1>1, CoverInvariant, PTL

(* No transaction outlives its scope, whatever futures were dropped, answers *)
(* refused and connections lost: when nobody is in a scope and no command   *)
(* or task is left, the server is idle.                                     *)
THEOREM TransactionsEnd == Spec => []NothingStaysOpen
<1>1. Base /\ Covered => NothingStaysOpen
  <2> SUFFICES ASSUME Base, Covered, conn # "discarded", frames = <<>>, tasks = {}, queue = <<>>
               PROVE  levels = <<>>
    BY DEF NothingStaysOpen
  <2>1. CASE conn = "dead"
    BY <2>1 DEF Base, Stacked
  <2>2. CASE conn = "alive"
    <3>1. ~Inside /\ ~Due
      BY DEF Inside, Due
    <3>2. Sealed(queue, levels # <<>>) /\ 1..Len(queue) = {}
      BY <2>2, <3>1, EmptySeqFacts DEF Covered
    <3> QED
      BY <3>2 DEF Sealed
  <2> QED
    BY <2>1, <2>2 DEF Base, Typed
<1> QED
  BY <1>1, CoverInvariant, PTL

-----------------------------------------------------------------------------
(* The parts of the invariant under the steps that do not reach the server *)

Inv == /\ Base /\ Untouched /\ Fresh /\ Asked /\ Unended /\ Waiting /\ Owns /\ Sheltered
       /\ OwnWrites /\ Synced /\ Justified /\ Final

NoUser == \A i \in 1..Len(queue) : queue[i].by # "user"

LEMMA Idling ==
    ASSUME Asked, reply # "none" \/ pc \in {"idle", "body", "done", "dropped", "return"}
    PROVE  NoUser
  BY DEF Asked, Awaited, NoUser, Members

(* The queue has grown by c.                                                *)
Grown(c) ==
    /\ Len(queue) \in Nat /\ Len(queue') = Len(queue) + 1
    /\ \A i \in 1..Len(queue) : i \in 1..Len(queue') /\ queue'[i] = queue[i]
    /\ Len(queue) + 1 \in 1..Len(queue') /\ queue'[Len(queue) + 1] = c
    /\ \A i \in 1..Len(queue') : i \in 1..Len(queue) \/ i = Len(queue) + 1

LEMMA GrownFacts ==
    ASSUME Base, NEW c \in Commands, queue' = Append(queue, c)
    PROVE  Grown(c)
<1>1. queue \in Seq(Commands) /\ Len(queue) \in Nat
  BY DEF Base, Typed
<1>2. /\ Len(queue') = Len(queue) + 1
      /\ \A i \in 1..Len(queue) : queue'[i] = queue[i]
      /\ queue'[Len(queue) + 1] = c
  BY <1>1, AppendFacts
<1> QED
  BY <1>1, <1>2 DEF Grown

LEMMA QueuedTyped ==
    ASSUME Base, NEW i \in 1..Len(queue)
    PROVE  queue[i] \in Commands /\ queue[i].tenant \in 1..Tenants /\ Proper(queue[i])
<1>1. queue[i] \in Commands
  BY DEF Base, Typed
<1> QED
  BY <1>1 DEF Commands

(* The queue: what was there stays, and at most c is new.                   *)
Queued(c) == (UNCHANGED queue) \/ (conn = "alive" /\ Grown(c))

LEMMA UntouchedKept ==
    ASSUME Untouched, UNCHANGED levels,
           \A T \in 1..Tenants : Prior(T)' => Prior(T),
           \A t \in tasks' : \/ \E u \in tasks : u.scope.tenant = t.scope.tenant
                             \/ \A T \in 1..Tenants : t.scope.tenant = T => ~Prior(T)',
           \A i \in 1..Len(queue') : \/ queue'[i].by = "user"
                                     \/ \E j \in 1..Len(queue) : queue[j].tenant = queue'[i].tenant
                                                                 /\ queue[j].by # "user"
                                     \/ \A T \in 1..Tenants : queue'[i].tenant = T => ~Prior(T)'
    PROVE  Untouched'
<1> SUFFICES ASSUME NEW T \in 1..Tenants, Prior(T)'
             PROVE  /\ Owner' # T
                    /\ \A t \in tasks' : t.scope.tenant # T
                    /\ \A i \in 1..Len(queue') : queue'[i].tenant = T => queue'[i].by = "user"
  BY DEF Untouched
<1>1. Prior(T)
  OBVIOUS
<1>2. Owner' # T
  BY <1>1 DEF Untouched, Owner
<1>3. \A t \in tasks' : t.scope.tenant # T
  BY <1>1 DEF Untouched
<1>4. \A i \in 1..Len(queue') : queue'[i].tenant = T => queue'[i].by = "user"
  BY <1>1 DEF Untouched
<1> QED
  BY <1>2, <1>3, <1>4

LEMMA AskedAdd ==
    ASSUME Asked, NoUser, UNCHANGED <<conn, tasks>>, NEW c, Queued(c), c.by = "user",
           Grown(c) => Awaited(c)'
    PROVE  Asked'
<1>1. CASE UNCHANGED queue
  BY <1>1 DEF Asked, NoUser, Members
<1>2. CASE Grown(c)
  <2>1. ASSUME NEW i \in 1..Len(queue'), queue'[i].by = "user" PROVE i = Len(queue) + 1 /\ queue'[i] = c
    BY <1>2, <2>1 DEF Grown, NoUser
  <2>2. \A i \in 1..Len(queue') : queue'[i].by \in Leftovers => i \in 1..Len(queue) /\ queue'[i] = queue[i]
    BY <1>2 DEF Grown, Leftovers
  <2>3. \A d \in Members(queue)' : d.by = "user" => Awaited(d)'
    <3> SUFFICES ASSUME NEW d \in Members(queue)', d.by = "user" PROVE d = c
      BY <1>2
    <3> QED
      BY <2>1 DEF Members
  <2>4. \A i, j \in 1..Len(queue') : queue'[i].by = "user" /\ queue'[j].by = "user" => i = j
    BY <2>1
  <2>5. conn' = "alive" => \A i \in 1..Len(queue') : queue'[i].by \in Leftovers =>
          \E t \in tasks' : t.kind = queue'[i].by /\ t.scope = queue'[i].arg /\ t.step > 1
    BY <2>2 DEF Asked
  <2> QED
    BY <2>3, <2>4, <2>5 DEF Asked
<1> QED
  BY <1>1, <1>2 DEF Queued

LEMMA AskedSame ==
    ASSUME Asked, NoUser, conn' = conn \/ conn' # "alive", UNCHANGED queue, tasks \subseteq tasks'
    PROVE  Asked'
  BY DEF Asked, NoUser, Members

LEMMA UnendedAdd ==
    ASSUME Unended, UNCHANGED <<tenant, tasks>>, frames # <<>>, NEW c, Queued(c), c.by = "user"
    PROVE  Unended'
<1>1. \A t \in tasks' : t.scope = Tx(tenant') => t.kind = "stream"
  BY DEF Unended
<1>2. \A i \in 1..Len(queue') : IsOf(queue'[i], tenant') => queue'[i].by = "user"
  BY DEF Unended, Queued, Grown
<1> QED
  BY <1>1, <1>2 DEF Unended

LEMMA UnendedSame ==
    ASSUME Unended, UNCHANGED <<tenant, queue>>, frames' # <<>> => frames # <<>>,
           \A t \in tasks' : t \in tasks \/ t.scope # Tx(tenant) \/ t.kind = "stream"
    PROVE  Unended'
  BY DEF Unended

LEMMA WaitingKept ==
    ASSUME Waiting, UNCHANGED <<tenant, tasks>>, Alone' => Alone, NEW c, Queued(c), c.by = "user"
    PROVE  Waiting'
<1> SUFFICES ASSUME Alone'
             PROVE  /\ \A t \in Cleanups(tenant)' : t.step = 1 \/ (t.step = 2 /\ Waits(t)')
                    /\ (\E i \in 1..Len(queue') : queue'[i].by = "orphan" /\ queue'[i].tenant = tenant')
                           => Cleanups(tenant)' # {}
  BY DEF Waiting
<1>1. Cleanups(tenant)' = Cleanups(tenant)
  BY DEF Cleanups
<1>2. ASSUME NEW t, Waits(t) PROVE Waits(t)'
  BY <1>2 DEF Waits, Queued, Grown
<1>3. ASSUME NEW i \in 1..Len(queue'), queue'[i].by = "orphan"
      PROVE  \E j \in 1..Len(queue) : queue[j] = queue'[i]
  BY <1>3 DEF Queued, Grown
<1> QED
  BY <1>1, <1>2, <1>3 DEF Waiting

LEMMA OwnsKept ==
    ASSUME Owns, UNCHANGED <<tenant, levels>>, Alone' => Alone /\ ~Starting /\ ~Ended
    PROVE  Owns'
  BY DEF Owns, Owner

LEMMA OwnWritesKept ==
    ASSUME OwnWrites, UNCHANGED <<levels, raced>>
    PROVE  OwnWrites'
  BY DEF OwnWrites, Owner

LEMMA ShelteredAdd ==
    ASSUME Sheltered, UNCHANGED <<levels, raced>>, NEW c, Queued(c),
           c.op = "WRITE" /\ c.tenant \notin raced /\ conn = "alive" =>
               Owner = c.tenant /\ \A j \in 1..Len(queue) : ~IsOf(queue[j], c.tenant)
    PROVE  Sheltered'
<1>1. CASE UNCHANGED queue
  BY <1>1 DEF Sheltered, Owner
<1>2. CASE Grown(c) /\ conn = "alive"
  <2> SUFFICES ASSUME NEW i \in 1..Len(queue'), queue'[i].op = "WRITE", queue'[i].tenant \notin raced
               PROVE  /\ Owner = queue'[i].tenant
                      /\ \A j \in 1..(i - 1) : ~IsOf(queue'[j], queue'[i].tenant)
    BY DEF Sheltered, Owner
  <2>1. \A j \in 1..(i - 1) : j \in 1..Len(queue) /\ queue'[j] = queue[j]
    BY <1>2 DEF Grown
  <2>2. CASE i \in 1..Len(queue)
    BY <1>2, <2>1, <2>2 DEF Sheltered, Grown
  <2>3. CASE i = Len(queue) + 1
    BY <1>2, <2>1, <2>3 DEF Grown
  <2> QED
    BY <1>2, <2>2, <2>3 DEF Grown
<1> QED
  BY <1>1, <1>2 DEF Queued

LEMMA JustifiedAdd ==
    ASSUME Base, Justified, UNCHANGED <<levels, raced, outcome, conn, tasks>>, NEW c \in Commands, Queued(c),
           c.op = "WRITE" => \A i \in 1..Len(queue) : ~Commits(i, c.tenant),
           c.op = "COMMIT" /\ c.tenant \notin raced /\ conn = "alive" =>
               /\ c.by = "user"
               /\ (\E t \in Cleanups(c.tenant) : t.step <= 2) \/ AllGood(c.tenant)
    PROVE  Justified'
<1>1. CASE UNCHANGED queue
  BY <1>1 DEF Justified, Commits, WillRace, AllGood, Cleanups, Behind, Under, Good
<1>2. CASE Grown(c) /\ conn = "alive"
  <2>1. \A T : Cleanups(T)' = Cleanups(T)
    BY DEF Cleanups
  <2>2. \A w : Good(w)' <=> Good(w)
    BY DEF Good
  <2>3. \A w : Under(w)' => Under(w) \/ (c.op = "WRITE" /\ c.arg = w)
    BY <1>2 DEF Under, Grown
  <2>4. c.op = "WRITE" => c.arg.tenant = c.tenant
    BY DEF Commands, Proper
  <2>5. \A T : AllGood(T) /\ (c.op = "WRITE" => T # c.tenant) => AllGood(T)'
    BY <2>2, <2>3, <2>4 DEF AllGood
  <2>6. ASSUME NEW i \in 1..Len(queue), NEW t, Behind(i, t) PROVE Behind(i, t)'
    <3>1. PICK j \in (i + 1)..Len(queue) :
              queue[j].op = "RELEASE" /\ queue[j].by = "cleanup" /\ queue[j].arg = t.scope
      BY <2>6 DEF Behind
    <3>2. j \in (i + 1)..Len(queue') /\ queue'[j] = queue[j]
      BY <1>2, <3>1 DEF Grown
    <3> QED
      BY <3>1, <3>2 DEF Behind
  <2>7. ASSUME NEW i \in 1..Len(queue), NEW T \in 1..Tenants, Commits(i, T)'
        PROVE  /\ WillRace(i, T)' \/ AllGood(T)'
               /\ queue'[i].by = "orphan" => outcome'[Tx(T)] = "unknown"
    <3>1. queue'[i] = queue[i] /\ Commits(i, T)
      BY <1>2, <2>7 DEF Grown, Commits
    <3>2. WillRace(i, T) => WillRace(i, T)'
      BY <2>1, <2>6 DEF WillRace
    <3>3. c.op = "WRITE" => T # c.tenant
      BY <3>1
    <3>4. WillRace(i, T) \/ AllGood(T)
      BY <1>2, <3>1 DEF Justified
    <3>5. queue[i].by = "orphan" => outcome[Tx(T)] = "unknown"
      BY <3>1 DEF Justified
    <3>6. WillRace(i, T)' \/ AllGood(T)'
      BY <3>2, <3>3, <3>4, <2>5
    <3> QED
      BY <3>1, <3>5, <3>6
  <2>8. ASSUME NEW i, i = Len(queue) + 1, NEW T \in 1..Tenants, Commits(i, T)'
        PROVE  /\ WillRace(i, T)' \/ AllGood(T)'
               /\ queue'[i].by = "orphan" => outcome'[Tx(T)] = "unknown"
    <3>1. queue'[i] = c /\ c.op = "COMMIT" /\ c.tenant = T /\ c.tenant \notin raced
      BY <1>2, <2>8 DEF Grown, Commits
    <3>2. (\E t \in Cleanups(T) : t.step <= 2) => WillRace(i, T)'
      BY <2>1 DEF WillRace
    <3>3. c.by = "user" /\ ((\E t \in Cleanups(T) : t.step <= 2) \/ AllGood(T))
      BY <1>2, <3>1
    <3>4. WillRace(i, T)' \/ AllGood(T)'
      BY <3>1, <3>2, <3>3, <2>5
    <3> QED
      BY <3>1, <3>3, <3>4
  <2> QED
    BY <1>2, <2>7, <2>8 DEF Grown, Justified
<1> QED
  BY <1>1, <1>2 DEF Queued

LEMMA FinalKept ==
    ASSUME Final, UNCHANGED <<committed, raced>>,
           \A s \in Scopes : outcome[s] \in {"ok", "unknown"} => outcome'[s] = outcome[s],
           \A s \in Scopes : Finishing(s) => Finishing(s)' \/ outcome'[s] \in {"ok", "unknown"},
           committed \subseteq Writes
    PROVE  Final'
<1>1. \A w \in committed : \A s \in w.in : s \in Scopes
  BY DEF Writes
<1> QED
  BY <1>1 DEF Final

-----------------------------------------------------------------------------
(* The tenant asks for something within its scope *)

LEMMA LevelsTyped ==
    ASSUME Base
    PROVE  /\ frames \in Seq(Scopes) /\ Len(frames) \in Nat
           /\ levels \in Seq(LevelSet) /\ Len(levels) \in Nat
           /\ queue \in Seq(Commands) /\ Len(queue) \in Nat
           /\ tasks \subseteq Tasks
  BY DEF Base, Typed

(* At a COMMIT of its own, the tenant's cleanups are still to come or all   *)
(* its statements belong to successful scopes.                              *)
LEMMA ReadyToCommit ==
    ASSUME Inv, Alone, pc = "body", Len(frames) = 1
    PROVE  (\E t \in Cleanups(tenant) : t.step <= 2) \/ AllGood(tenant)
<1>1. CASE Cleanups(tenant) # {}
  BY <1>1 DEF Inv, Waiting
<1>2. CASE Cleanups(tenant) = {}
  <2>1. NoUser
    BY Idling DEF Inv
  <2>2. Matches /\ Depth = 1
    BY <1>2, LevelsTyped DEF Inv, Synced, Starting, Depth, Ended
  <2>3. Len(levels) = 1 /\ frames[1] = Tx(tenant) /\ frames # <<>>
    BY <2>2 DEF Matches, Inv, Base, Nested, Alone
  <2> SUFFICES ASSUME NEW w \in Writes, Under(w), w.tenant = tenant, NEW s \in w.in
               PROVE  s = Tx(tenant) \/ outcome[s] = "ok"
    BY DEF AllGood, Good
  <2>4. CASE \E i \in 1..Len(levels) : w \in levels[i].writes
    <3>1. w \in levels[1].writes /\ 1 \in 1..Len(levels)
      BY <2>3, <2>4
    <3>2. Belongs(s, 1)
      BY <2>2, <3>1 DEF Matches
    <3>3. \A k \in 1..1 : k = 1
      OBVIOUS
    <3> QED
      BY <2>3, <3>2, <3>3 DEF Belongs
  <2>5. CASE \E i \in 1..Len(queue) : queue[i].op = "WRITE" /\ queue[i].arg = w
    <3>1. PICK i \in 1..Len(queue) : queue[i].op = "WRITE" /\ queue[i].arg = w
      BY <2>5
    <3>2. queue[i] \in Commands /\ Proper(queue[i])
      BY QueuedTyped DEF Inv
    <3>3. queue[i].tenant = tenant /\ queue[i].by = "orphan"
      BY <2>1, <3>1, <3>2 DEF Proper, NoUser, Commands
    <3> QED
      BY <1>2, <3>3 DEF Inv, Waiting
  <2> QED
    BY <2>4, <2>5 DEF Under
<1> QED
  BY <1>1, <1>2

LEMMA AskInv ==
    ASSUME Inv, Base', NEW c \in Commands, c.by = "user", c.tenant = tenant, Send(c), frames # <<>>,
           pc = "body" \/ (pc = "abandon" /\ reply = "ok" /\ Len(frames) > 1),
           pc' \in {"write", "stream", "finish", "abandon", "abandon2"},
           pc' = "abandon2" => pc = "abandon",
           UNCHANGED <<tenant, frames, opened, tasks, conn, levels, committed, outcome, raced>>,
           conn = "alive" => Awaited(c)',
           c.op \in {"WRITE", "COMMIT"} => pc = "body",
           c.op = "COMMIT" => Len(frames) = 1
    PROVE  Inv'
<1>1. NoUser
  BY Idling DEF Inv
<1>2. Queued(c) /\ (Grown(c) => conn = "alive") /\ (conn = "alive" => reply' = "none")
  <2>1. CASE conn = "alive"
    <3>1. queue' = Append(queue, c) /\ reply' = "none"
      BY <2>1 DEF Send
    <3> QED
      BY <2>1, <3>1, GrownFacts DEF Queued, Inv
  <2>2. CASE conn # "alive"
    <3>1. UNCHANGED queue
      BY <2>2 DEF Send
    <3>2. ~Grown(c)
      BY <3>1, LevelsTyped DEF Grown, Inv
    <3> QED
      BY <2>2, <3>1, <3>2 DEF Queued
  <2> QED
    BY <2>1, <2>2
<1>3. ~Starting /\ ~Ended /\ ~Starting'
  <2>1. Len(frames) > 1 => Len(frames) # 1
    <3>1. \A k \in Nat : k > 1 => k # 1
      OBVIOUS
    <3>2. Len(frames) \in Nat
      BY LevelsTyped DEF Inv
    <3> QED
      BY <3>1, <3>2, Zenon
  <2> QED
    BY <2>1 DEF Starting, Ended
<1>4. Alone' <=> Alone
  BY DEF Alone
<1>5. Untouched'
  <2>1. \A T \in 1..Tenants : Prior(T)' => Prior(T)
    BY <1>3 DEF Prior
  <2>2. \A i \in 1..Len(queue') : \/ queue'[i].by = "user"
                                  \/ \E j \in 1..Len(queue) : queue[j].tenant = queue'[i].tenant
                                                              /\ queue[j].by # "user"
    BY <1>1, <1>2 DEF Queued, Grown, NoUser
  <2>3. \A t \in tasks' : \E u \in tasks : u.scope.tenant = t.scope.tenant
    OBVIOUS
  <2> QED
    BY <2>1, <2>2, <2>3, UntouchedKept DEF Inv
<1>6. Fresh'
  <2>1. \A T \in 1..Tenants : Prior(T)' => Prior(T)
    BY <1>3 DEF Prior
  <2>2. \A s \in Scopes : s.tenant \in 1..Tenants
    BY DEF Scopes
  <2>3. \A s \in Scopes : Unopened(s)' => Unopened(s)
    BY <2>1, <2>2 DEF Unopened
  <2> QED
    BY <2>3 DEF Fresh, Inv
<1>7. Asked'
  BY <1>1, <1>2, AskedAdd DEF Inv
<1>8. Unended'
  BY <1>2, UnendedAdd DEF Inv
<1>9. Waiting'
  BY <1>2, <1>4, WaitingKept DEF Inv
<1>10. Owns'
  BY <1>3, <1>4, OwnsKept DEF Inv
<1>11. Sheltered'
  <2>1. ASSUME c.op = "WRITE", tenant \notin raced, conn = "alive"
        PROVE  Owner = tenant /\ \A j \in 1..Len(queue) : ~IsOf(queue[j], tenant)
    <3>1. Owner = tenant
      BY <1>3, <2>1 DEF Inv, Owns, Alone
    <3>2. \A j \in 1..Len(queue) : ~IsOf(queue[j], tenant)
      BY <1>1 DEF Inv, Unended, NoUser
    <3> QED
      BY <3>1, <3>2
  <2> QED
    BY <1>2, <2>1, ShelteredAdd DEF Inv
<1>12. OwnWrites'
  BY OwnWritesKept DEF Inv
<1>13. Synced'
  <2> SUFFICES ASSUME Alone', Cleanups(tenant)' = {} PROVE Matches'
    BY DEF Synced
  <2>1. Matches /\ conn = "alive" /\ reply' = "none"
    BY <1>2, <1>3, <1>4 DEF Inv, Synced, Cleanups, Alone
  <2>2. Depth = Len(frames) /\ Depth' = Len(frames')
    BY <1>3, <2>1 DEF Depth, Ended
  <2>3. \A i, s : Belongs(s, i) => Belongs(s, i)'
    BY DEF Belongs
  <2>4. Emptied' => Emptied
    BY <2>1 DEF Emptied
  <2> QED
    BY <2>1, <2>2, <2>3, <2>4 DEF Matches
<1>14. Justified'
  <2>1. \A i \in 1..Len(queue) : c.op = "WRITE" => ~Commits(i, c.tenant)
    BY <1>1 DEF Inv, Unended, NoUser, Commits, IsOf, Ends
  <2>2. c.op = "COMMIT" /\ c.tenant \notin raced /\ conn = "alive" =>
            (\E t \in Cleanups(c.tenant) : t.step <= 2) \/ AllGood(c.tenant)
    BY ReadyToCommit DEF Alone
  <2> QED
    BY <1>2, <2>1, <2>2, JustifiedAdd DEF Inv
<1>15. Final'
  <2>1. \A s \in Scopes : ~Finishing(s)
    BY DEF Finishing
  <2> QED
    BY <2>1, FinalKept DEF Inv, Base, Typed
<1> QED
  BY <1>5, <1>6, <1>7, <1>8, <1>9, <1>10, <1>11, <1>12, <1>13, <1>14, <1>15 DEF Inv

LEMMA WriteInv ==
    ASSUME Inv, Write
    PROVE  Inv'
<1> DEFINE w == [tenant |-> tenant, n |-> sent + 1, in |-> {frames[i] : i \in 1..Len(frames)}]
           d == Cmd("WRITE", w, tenant, "user")
<1>1. frames # <<>>
  BY DEF Write, Inv, Base, Nested, InScope
<1>2. tenant \in 1..Tenants
  BY <1>1, TopTyped DEF Inv, Base
<1>3. {frames[i] : i \in 1..Len(frames)} \in SUBSET Scopes
  BY DEF Inv, Base, Typed
<1>4. sent + 1 \in 1..MaxWrites
  BY BoundsAssumption DEF Write, Inv, Base, Typed
<1>5. w \in Writes /\ w.tenant = tenant /\ w.in = Members(frames)
  BY <1>2, <1>3, <1>4 DEF Writes, Members
<1>6. Send(d) /\ pc' = "write" /\ pc = "body"
  BY DEF Write, Call
<1> HIDE DEF w
<1>7. d \in Commands /\ d.by = "user" /\ d.tenant = tenant /\ d.op = "WRITE" /\ d.arg = w
  BY <1>5, WriteTyped DEF Cmd
<1> HIDE DEF d
<1>71. PICK c \in Commands : c = d
  BY <1>7
<1>8. Base'
  BY WriteBase DEF Inv
<1>9. UNCHANGED <<tenant, frames, opened, tasks, conn, levels, committed, outcome, raced>>
  BY DEF Write, serverVars, history
<1>10. conn = "alive" => Awaited(c)'
  BY <1>5, <1>6, <1>7, <1>71, <1>9 DEF Awaited, Send, Members
<1> QED
  BY <1>1, <1>6, <1>7, <1>71, <1>8, <1>9, <1>10, AskInv

LEMMA OpenStreamInv ==
    ASSUME Inv, OpenStream
    PROVE  Inv'
<1> DEFINE d == Cmd("BEGIN", Tx(tenant), tenant, "user")
<1>1. frames # <<>>
  BY DEF OpenStream, Inv, Base, Nested, InScope
<1>2. tenant \in 1..Tenants
  BY <1>1, TopTyped DEF Inv, Base
<1>3. Send(d) /\ pc' = "stream" /\ pc = "body"
  BY DEF OpenStream, Call
<1>4. d \in Commands /\ d.by = "user" /\ d.tenant = tenant /\ d.op = "BEGIN"
  BY <1>2, TxTyped, CommandTyped DEF Cmd
<1> HIDE DEF d
<1>41. PICK c \in Commands : c = d
  BY <1>4
<1>5. Base'
  BY OpenStreamBase DEF Inv
<1>6. UNCHANGED <<tenant, frames, opened, tasks, conn, levels, committed, outcome, raced>>
  BY DEF OpenStream, serverVars, history
<1>7. conn = "alive" => Awaited(c)'
  BY <1>3, <1>4, <1>41, <1>6 DEF Awaited, Send
<1> QED
  BY <1>1, <1>3, <1>4, <1>41, <1>5, <1>6, <1>7, AskInv

LEMMA FinishInv ==
    ASSUME Inv, Finish
    PROVE  Inv'
<1> DEFINE op == IF Len(frames) = 1 THEN "COMMIT" ELSE "RELEASE"
           d == Cmd(op, Top, tenant, "user")
<1>1. frames # <<>>
  BY DEF Finish, Inv, Base, Nested, InScope
<1>2. Top \in Scopes /\ Top.tenant = tenant /\ (Len(frames) = 1 => Top.n = 1)
      /\ (Len(frames) # 1 => Top.n > 1)
  BY <1>1, TopTyped DEF Inv, Base
<1>3. Send(d) /\ pc' = "finish" /\ pc = "body"
  BY DEF Finish, Call
<1>4. d \in Commands
  BY <1>2, CommandTyped
<1>5. d.by = "user" /\ d.tenant = tenant /\ d.op = op /\ d.arg = Top
  BY DEF Cmd
<1> HIDE DEF d
<1>51. PICK c \in Commands : c = d
  BY <1>4
<1>6. Base'
  BY FinishBase DEF Inv
<1>7. UNCHANGED <<tenant, frames, opened, tasks, conn, levels, committed, outcome, raced>>
  BY DEF Finish, serverVars, history
<1>8. conn = "alive" => Awaited(c)'
  BY <1>3, <1>5, <1>51, <1>7 DEF Awaited, Send, Top
<1> QED
  BY <1>1, <1>3, <1>4, <1>5, <1>51, <1>6, <1>7, <1>8, AskInv

LEMMA AbandonInv ==
    ASSUME Inv, Abandon
    PROVE  Inv'
<1> DEFINE op == IF Len(frames) = 1 THEN "ROLLBACK" ELSE "ROLLBACK_TO"
           d == Cmd(op, Top, tenant, "user")
<1>1. frames # <<>>
  BY DEF Abandon, Inv, Base, Nested, InScope
<1>2. Top \in Scopes /\ Top.tenant = tenant /\ (Len(frames) = 1 => Top.n = 1)
      /\ (Len(frames) # 1 => Top.n > 1)
  BY <1>1, TopTyped DEF Inv, Base
<1>3. Send(d) /\ pc' = "abandon" /\ pc = "body"
  BY DEF Abandon, Call
<1>4. d \in Commands
  BY <1>2, CommandTyped
<1>5. d.by = "user" /\ d.tenant = tenant /\ d.op = op /\ d.arg = Top
  BY DEF Cmd
<1> HIDE DEF d
<1>51. PICK c \in Commands : c = d
  BY <1>4
<1>6. Base'
  BY AbandonBase DEF Inv
<1>7. UNCHANGED <<tenant, frames, opened, tasks, conn, levels, committed, outcome, raced>>
  BY DEF Abandon, serverVars, history
<1>8. conn = "alive" => Awaited(c)'
  BY <1>3, <1>5, <1>51, <1>7 DEF Awaited, Send, Top
<1>9. c.op \notin {"WRITE", "COMMIT"}
  BY <1>5, <1>51
<1> QED
  BY <1>1, <1>3, <1>4, <1>5, <1>51, <1>6, <1>7, <1>8, <1>9, AskInv

LEMMA RolledBackToInv ==
    ASSUME Inv, RolledBackTo
    PROVE  Inv'
<1> DEFINE d == Cmd("RELEASE", Top, tenant, "user")
<1>1. frames # <<>> /\ Len(frames) > 1 /\ pc = "abandon" /\ reply = "ok"
  BY DEF RolledBackTo, Answered, Inv, Base, Nested, InScope
<1>2. Top \in Scopes /\ Top.tenant = tenant /\ Top.n > 1
  BY <1>1, TopTyped DEF Inv, Base
<1>3. Send(d) /\ pc' = "abandon2"
  BY DEF RolledBackTo, Call
<1>4. d \in Commands
  BY <1>2, CommandTyped
<1>5. d.by = "user" /\ d.tenant = tenant /\ d.op = "RELEASE" /\ d.arg = Top
  BY DEF Cmd
<1> HIDE DEF d
<1>51. PICK c \in Commands : c = d
  BY <1>4
<1>6. Base'
  BY RolledBackToBase DEF Inv
<1>7. UNCHANGED <<tenant, frames, opened, tasks, conn, levels, committed, outcome, raced>>
  BY DEF RolledBackTo, serverVars, history
<1>8. conn = "alive" => Awaited(c)'
  BY <1>3, <1>5, <1>51, <1>7 DEF Awaited, Send, Top
<1> QED
  BY <1>1, <1>3, <1>4, <1>5, <1>51, <1>6, <1>7, <1>8, AskInv

-----------------------------------------------------------------------------
(* A scope is opened *)

(* What adding a command of the tenant does to the queue and the reply.     *)
LEMMA SendQueued ==
    ASSUME Base, NEW c \in Commands, Send(c)
    PROVE  /\ Queued(c) /\ (Grown(c) => conn = "alive")
           /\ conn = "alive" => reply' = "none"
           /\ conn # "alive" => reply' = "err"
           /\ reply' # "ok"
<1>1. CASE conn = "alive"
  <2>1. queue' = Append(queue, c) /\ reply' = "none"
    BY <1>1 DEF Send
  <2> QED
    BY <1>1, <2>1, GrownFacts DEF Queued
<1>2. CASE conn # "alive"
  <2>1. UNCHANGED queue /\ reply' = "err"
    BY <1>2 DEF Send
  <2>2. Len(queue) \in Nat
    BY LevelsTyped
  <2>3. ~Grown(c)
    BY <2>1, <2>2 DEF Grown
  <2> QED
    BY <1>2, <2>1, <2>3 DEF Queued
<1> QED
  BY <1>1, <1>2

(* The parts that depend on nothing but the queue.                          *)
LEMMA OpenInv ==
    ASSUME Inv, NEW c \in Commands, c.by = "user", c.tenant = tenant, Queued(c), Grown(c) => conn = "alive",
           pc \in {"idle", "body", "dropped"}, c.op \notin {"WRITE", "COMMIT"},
           UNCHANGED <<tenant, tasks, conn, levels, committed, outcome, raced>>,
           conn = "alive" => Awaited(c)',
           \A T \in 1..Tenants : Prior(T)' => Prior(T)
    PROVE  Untouched' /\ Asked' /\ Sheltered' /\ OwnWrites' /\ Justified' /\ Final'
<1>1. NoUser
  BY Idling DEF Inv
<1>2. Untouched'
  <2>1. \A i \in 1..Len(queue') : \/ queue'[i].by = "user"
                                  \/ \E j \in 1..Len(queue) : queue[j].tenant = queue'[i].tenant
                                                              /\ queue[j].by # "user"
    BY <1>1 DEF Queued, Grown, NoUser
  <2>2. \A t \in tasks' : \E u \in tasks : u.scope.tenant = t.scope.tenant
    OBVIOUS
  <2> QED
    BY <2>1, <2>2, UntouchedKept DEF Inv
<1>3. Asked'
  BY <1>1, AskedAdd DEF Inv
<1>4. Sheltered'
  BY ShelteredAdd DEF Inv
<1>5. OwnWrites'
  BY OwnWritesKept DEF Inv
<1>6. Justified'
  BY JustifiedAdd DEF Inv
<1>7. Final'
  <2>1. \A s \in Scopes : ~Finishing(s)
    BY DEF Finishing
  <2> QED
    BY <2>1, FinalKept DEF Inv, Base, Typed
<1> QED
  BY <1>2, <1>3, <1>4, <1>5, <1>6, <1>7

LEMMA BeginInv ==
    ASSUME Inv, Begin
    PROVE  Inv'
<1> DEFINE d == Cmd("BEGIN", Tx(tenant), tenant, "user")
<1>1. tenant \in 1..Tenants /\ pc = "idle" /\ conn # "discarded" /\ frames = <<>>
  BY DEF Begin, Inv, Base, Typed, Nested, InScope
<1>2. Tx(tenant) \in Scopes /\ Tx(tenant).tenant = tenant
  BY <1>1, TxTyped
<1>3. d \in Commands /\ d.by = "user" /\ d.tenant = tenant /\ d.op = "BEGIN" /\ d.arg = Tx(tenant)
  BY <1>1, TxTyped, CommandTyped DEF Cmd
<1>4. Send(d) /\ pc' = "begin" /\ frames' = <<Tx(tenant)>>
  BY DEF Begin, Call
<1> HIDE DEF d
<1>5. PICK c \in Commands : c = d
  BY <1>3
<1>6. UNCHANGED <<tenant, opened, tasks, conn, levels, committed, outcome, raced>>
  BY DEF Begin, serverVars, history
<1>7. Queued(c) /\ (Grown(c) => conn = "alive") /\ (conn = "alive" => reply' = "none") /\ reply' # "ok"
  BY <1>4, <1>5, SendQueued DEF Inv
<1>8. frames' # <<>> /\ Len(frames') = 1 /\ frames'[1] = Tx(tenant) /\ Top' = Tx(tenant)
  BY <1>4, <1>6 DEF Top
<1>9. Starting'
  BY <1>4, <1>7, <1>8 DEF Starting
<1>10. Prior(tenant)
  BY <1>1 DEF Prior
<1>11. \A T \in 1..Tenants : Prior(T)' => Prior(T)
  BY <1>1, <1>4, <1>6, <1>10 DEF Prior
<1>12. conn = "alive" => Awaited(c)'
  BY <1>3, <1>4, <1>5, <1>6, <1>7, <1>8 DEF Awaited
<1>13. Untouched' /\ Asked' /\ Sheltered' /\ OwnWrites' /\ Justified' /\ Final'
  BY <1>1, <1>3, <1>5, <1>6, <1>7, <1>11, <1>12, OpenInv
<1>14. Fresh'
  <2>1. \A s \in Scopes : s.tenant \in 1..Tenants
    BY DEF Scopes
  <2>2. \A s \in Scopes : Unopened(s)' => Unopened(s)
    BY <2>1, <1>6, <1>11 DEF Unopened
  <2>3. outcome[Tx(tenant)] = "none"
    BY <1>2, <1>10 DEF Inv, Fresh, Unopened
  <2>4. Distinct(frames')
    BY <1>8 DEF Distinct
  <2> QED
    BY <1>6, <1>8, <2>2, <2>3, <2>4 DEF Inv, Fresh
<1>15. Unended'
  <2>1. \A t \in tasks : t.scope # Tx(tenant)
    BY <1>1, <1>2, <1>10 DEF Inv, Untouched
  <2>2. \A i \in 1..Len(queue) : queue[i].tenant = tenant => queue[i].by = "user"
    BY <1>1, <1>10 DEF Inv, Untouched
  <2>3. \A i \in 1..Len(queue') : queue'[i].tenant = tenant => queue'[i].by = "user"
    BY <1>3, <1>5, <1>7, <2>2 DEF Queued, Grown
  <2> QED
    BY <1>6, <2>1, <2>3 DEF Unended, IsOf
<1>16. Waiting'
  <2>1. Cleanups(tenant)' = {}
    BY <1>1, <1>6, <1>10 DEF Inv, Untouched, Cleanups
  <2>2. \A i \in 1..Len(queue) : queue[i].tenant = tenant => queue[i].by = "user"
    BY <1>1, <1>10 DEF Inv, Untouched
  <2>3. \A i \in 1..Len(queue') : queue'[i].tenant = tenant' => queue'[i].by # "orphan"
    BY <1>3, <1>5, <1>6, <1>7, <2>2 DEF Queued, Grown
  <2> QED
    BY <2>1, <2>3 DEF Waiting
<1>17. Owns' /\ Synced'
  BY <1>9 DEF Owns, Synced
<1>18. Base'
  BY BeginBase DEF Inv
<1> QED
  BY <1>13, <1>14, <1>15, <1>16, <1>17, <1>18 DEF Inv

LEMMA SavepointInv ==
    ASSUME Inv, Savepoint
    PROVE  Inv'
<1> DEFINE s == [tenant |-> tenant, n |-> opened + 2]
           d == Cmd("SAVEPOINT", s, tenant, "user")
<1>1. frames # <<>> /\ pc = "body"
  BY DEF Savepoint, Inv, Base, Nested, InScope
<1>2. tenant \in 1..Tenants /\ Len(frames) \in Nat \ {0} /\ frames \in Seq(Scopes) /\ opened \in Nat
  BY <1>1, TopTyped, LevelsTyped, BoundsAssumption DEF Inv, Base, Typed
<1>3. s \in Scopes /\ s.tenant = tenant /\ s.n = opened + 2 /\ s.n > 1
  BY <1>2, BoundsAssumption DEF Savepoint, Inv, Base, Typed, Scopes
<1>4. frames' = Append(frames, s) /\ Send(d) /\ pc' = "begin" /\ opened' = opened + 1
  BY DEF Savepoint, Call
<1> HIDE DEF s
<1>5. d \in Commands /\ d.by = "user" /\ d.tenant = tenant /\ d.op = "SAVEPOINT" /\ d.arg = s
  BY <1>3, CommandTyped DEF Cmd
<1> HIDE DEF d
<1>6. PICK c \in Commands : c = d
  BY <1>5
<1>7. UNCHANGED <<tenant, tasks, conn, levels, committed, outcome, raced>>
  BY DEF Savepoint, serverVars, history
<1>8. Queued(c) /\ (Grown(c) => conn = "alive") /\ (conn = "alive" => reply' = "none") /\ reply' # "ok"
  BY <1>4, <1>6, SendQueued DEF Inv
<1>9. frames' \in Seq(Scopes) /\ Len(frames') = Len(frames) + 1
      /\ (\A i \in 1..Len(frames) : frames'[i] = frames[i]) /\ frames'[Len(frames) + 1] = s
      /\ (Distinct(frames) /\ s \notin Members(frames) => Distinct(frames'))
  BY <1>2, <1>3, <1>4, AppendFacts
<1>10. Len(frames') # 1 /\ frames' # <<>> /\ Top' = s
  BY <1>2, <1>9 DEF Top
<1>11. ~Starting /\ ~Starting' /\ ~Ended /\ ~Ended'
  BY <1>1, <1>4, <1>10 DEF Starting, Ended
<1>12. \A T \in 1..Tenants : Prior(T)' => Prior(T)
  BY <1>4, <1>7, <1>11 DEF Prior
<1>13. conn = "alive" => Awaited(c)'
  BY <1>4, <1>5, <1>6, <1>7, <1>8, <1>10 DEF Awaited
<1>14. Untouched' /\ Asked' /\ Sheltered' /\ OwnWrites' /\ Justified' /\ Final'
  BY <1>1, <1>5, <1>6, <1>7, <1>8, <1>12, <1>13, OpenInv
<1>15. Fresh'
  <2>1. \A u \in Scopes : u.tenant \in 1..Tenants /\ u.n \in Nat
    BY BoundsAssumption DEF Scopes
  <2>2. \A u \in Scopes : Unopened(u)' => Unopened(u)
    <3> SUFFICES ASSUME NEW u \in Scopes, u.n > opened' + 1 PROVE u.n > opened + 1
      BY <2>1, <1>12 DEF Unopened
    <3> QED
      BY <1>2, <1>4, <2>1
  <2>3. outcome[s] = "none"
    <3>1. s.n > opened + 1
      BY <1>2, <1>3
    <3> QED
      BY <1>3, <3>1 DEF Inv, Fresh, Unopened
  <2>4. s \notin Members(frames)
    <3> SUFFICES ASSUME NEW i \in 1..Len(frames), frames[i] = s PROVE FALSE
      BY DEF Members
    <3>1. CASE i = 1
      BY <1>1, <1>2, <1>3, <3>1, TxTyped DEF Inv, Base, Nested
    <3>2. CASE i # 1
      <4>1. i \in 2..Len(frames)
        BY <1>2, <3>2
      <4>2. frames[i].n \in 2..(opened + 1)
        BY <4>1 DEF Inv, Base, Nested
      <4> QED
        BY <1>2, <1>3, <4>2
    <3> QED
      BY <3>1, <3>2
  <2>5. Distinct(frames')
    BY <1>9, <2>4 DEF Inv, Fresh
  <2>6. \A i \in 1..Len(frames') : outcome[frames'[i]] = "none"
    <3> TAKE i \in 1..Len(frames')
    <3>1. i \in 1..Len(frames) \/ i = Len(frames) + 1
      BY <1>2, <1>9
    <3> QED
      BY <1>9, <2>3, <3>1 DEF Inv, Fresh
  <2> QED
    BY <1>7, <2>2, <2>5, <2>6 DEF Inv, Fresh
<1>16. Unended'
  BY <1>1, <1>5, <1>6, <1>7, <1>8, UnendedAdd DEF Inv
<1>17. Alone' => Alone
  BY <1>1, <1>7 DEF Alone
<1>18. Waiting'
  BY <1>5, <1>6, <1>7, <1>8, <1>17, WaitingKept DEF Inv
<1>19. Owns'
  BY <1>7, <1>11, <1>17, OwnsKept DEF Inv
<1>20. Synced'
  <2> SUFFICES ASSUME Alone', Cleanups(tenant)' = {} PROVE Matches'
    BY DEF Synced
  <2>1. Matches
    BY <1>7, <1>11, <1>17 DEF Inv, Synced, Cleanups
  <2>2. Depth = Len(frames)
    BY <1>1, <1>11 DEF Depth
  <2>3. Depth' = Len(frames)
    <3>1. Depth' = Len(frames') - 1
      BY <1>4, <1>8, <1>11 DEF Depth
    <3> QED
      BY <3>1, <1>2, <1>9
  <2>4. ASSUME NEW i \in 1..Len(frames), NEW u, Belongs(u, i) PROVE Belongs(u, i)'
    <3>1. \A k \in 1..i : k \in 1..Len(frames)
      BY <1>2
    <3> QED
      BY <1>1, <1>7, <1>9, <2>4, <3>1 DEF Belongs
  <2>5. ~Emptied'
    BY <1>4 DEF Emptied
  <2>6. Len(levels) = Len(frames)
    BY <2>1, <2>2 DEF Matches
  <2> QED
    BY <1>7, <1>9, <2>1, <2>3, <2>4, <2>5, <2>6 DEF Matches
<1>21. Base'
  BY SavepointBase DEF Inv
<1> QED
  BY <1>14, <1>15, <1>16, <1>18, <1>19, <1>20, <1>21 DEF Inv

-----------------------------------------------------------------------------
(* The tenant takes an answer and goes on in its scope *)

LEMMA GoOnInv ==
    ASSUME Inv, Base', frames # <<>>, pc' = "body", reply # "none",
           pc \in {"begin", "write", "stream"}, pc = "begin" => reply = "ok",
           UNCHANGED <<tenant, frames, opened, conn, queue, levels, committed, outcome, raced>>,
           \A t \in tasks' : t \in tasks \/ (t.scope = Tx(tenant) /\ t.kind = "stream"),
           tasks \subseteq tasks'
    PROVE  Inv'
<1>1. NoUser /\ tenant \in 1..Tenants
  BY Idling, TopTyped DEF Inv, Base
<1>2. ~Starting /\ ~Ended /\ ~Starting' /\ ~Ended'
  BY DEF Starting, Ended
<1>3. \A T \in 1..Tenants : Prior(T)' => Prior(T) /\ T # tenant
  <2>1. tenant \in Nat
    BY <1>1
  <2> QED
    BY <1>2, <2>1 DEF Prior
<1>4. Untouched'
  <2>1. \A i \in 1..Len(queue') : \/ queue'[i].by = "user"
                                  \/ \E j \in 1..Len(queue) : queue[j].tenant = queue'[i].tenant
                                                              /\ queue[j].by # "user"
    BY <1>1 DEF NoUser
  <2>2. \A t \in tasks' : \/ \E u \in tasks : u.scope.tenant = t.scope.tenant
                          \/ \A T \in 1..Tenants : t.scope.tenant = T => ~Prior(T)'
    BY <1>1, <1>3, TxTyped
  <2> QED
    BY <1>3, <2>1, <2>2, UntouchedKept DEF Inv
<1>5. Fresh'
  <2>1. \A s \in Scopes : s.tenant \in 1..Tenants
    BY DEF Scopes
  <2>2. \A s \in Scopes : Unopened(s)' => Unopened(s)
    BY <2>1, <1>3 DEF Unopened
  <2> QED
    BY <2>2 DEF Inv, Fresh
<1>6. Asked'
  BY <1>1, AskedSame DEF Inv
<1>7. Unended'
  BY UnendedSame DEF Inv
<1>8. Alone' <=> Alone
  BY DEF Alone
<1>9. \A T : Cleanups(T)' = Cleanups(T)
  <2>1. Tx(tenant).n = 1
    BY <1>1, TxTyped
  <2> QED
    BY <2>1 DEF Cleanups
<1>10. Waiting'
  BY <1>8, <1>9 DEF Inv, Waiting, Waits
<1>11. Owns'
  BY <1>2, <1>8, OwnsKept DEF Inv
<1>12. Sheltered' /\ OwnWrites'
  BY DEF Inv, Sheltered, OwnWrites, Owner
<1>13. Synced'
  <2> SUFFICES ASSUME Alone', Cleanups(tenant)' = {} PROVE Matches'
    BY DEF Synced
  <2>1. Matches
    BY <1>2, <1>8, <1>9 DEF Inv, Synced
  <2>2. Depth = Len(frames) /\ Depth' = Len(frames)
    BY <1>2 DEF Depth
  <2>3. \A i, s : Belongs(s, i) => Belongs(s, i)'
    BY DEF Belongs
  <2>4. ~Emptied'
    BY DEF Emptied
  <2> QED
    BY <2>1, <2>2, <2>3, <2>4 DEF Matches
<1>14. Justified'
  <2>1. \A i, T : Commits(i, T)' => Commits(i, T)
    BY DEF Commits
  <2>2. \A i, T : WillRace(i, T) => WillRace(i, T)'
    BY <1>9 DEF WillRace, Behind
  <2>3. \A T : AllGood(T) => AllGood(T)'
    BY DEF AllGood, Under, Good
  <2> QED
    BY <2>1, <2>2, <2>3 DEF Inv, Justified
<1>15. Final'
  <2>1. \A s \in Scopes : ~Finishing(s)
    BY DEF Finishing
  <2> QED
    BY <2>1, FinalKept DEF Inv, Base, Typed
<1> QED
  BY <1>4, <1>5, <1>6, <1>7, <1>10, <1>11, <1>12, <1>13, <1>14, <1>15 DEF Inv

LEMMA EnteredInv ==
    ASSUME Inv, Entered
    PROVE  Inv'
<1>1. Base' /\ frames # <<>>
  BY EnteredBase DEF Inv, Base, Nested, Entered, InScope, Answered
<1> QED
  BY <1>1, GoOnInv DEF Entered, Answered, serverVars, history

LEMMA WrittenInv ==
    ASSUME Inv, Written
    PROVE  Inv'
<1>1. Base' /\ frames # <<>>
  BY WrittenBase DEF Inv, Base, Nested, Written, InScope
<1> QED
  BY <1>1, GoOnInv DEF Written, serverVars, history

LEMMA StreamOpenedInv ==
    ASSUME Inv, StreamOpened
    PROVE  Inv'
<1>1. Base' /\ frames # <<>>
  BY StreamOpenedBase DEF Inv, Base, Nested, StreamOpened, InScope
<1>2. /\ \A t \in tasks' : t \in tasks \/ (t.scope = Tx(tenant) /\ t.kind = "stream")
      /\ tasks \subseteq tasks'
  BY DEF StreamOpened
<1>3. /\ pc' = "body" /\ reply # "none" /\ pc = "stream"
      /\ UNCHANGED <<tenant, frames, opened, conn, queue, levels, committed, outcome, raced>>
  BY DEF StreamOpened, serverVars, history
<1> QED
  BY <1>1, <1>2, <1>3, GoOnInv

-----------------------------------------------------------------------------
(* The innermost scope is left *)

LEMMA LeaveInv ==
    ASSUME Inv, Base', Left, frames # <<>>, NEW r \in {"ok", "err", "unknown"}, Leave(r), reply # "none",
           \/ tasks' = tasks /\ (Len(frames) = 1 \/ (pc \in {"finish", "abandon2"} /\ reply = "ok"))
           \/ tasks' = Spawned({Top}),
           pc = "finish" /\ reply = "ok" => r = "ok",
           UNCHANGED <<tenant, opened, conn, queue, levels, committed, raced>>
    PROVE  Inv'
<1>1. /\ NoUser /\ tenant \in 1..Tenants /\ Top \in Scopes /\ Top.tenant = tenant
      /\ Len(frames) = 1 => Top.n = 1
      /\ Len(frames) # 1 => Len(frames) > 1 /\ Top.n > 1
      /\ Len(frames) \in Nat \ {0} /\ frames \in Seq(Scopes)
  BY Idling, TopTyped, LevelsTyped DEF Inv, Base
<1>2. pc' = (IF Len(frames) = 1 THEN "done" ELSE "body") /\ outcome' = [outcome EXCEPT ![Top] = r]
      /\ outcome \in [Scopes -> {"none", "ok", "err", "dropped", "unknown"}]
  BY DEF Leave, Inv, Base, Typed
<1>3. /\ Len(frames') = Len(frames) - 1 /\ frames' \in Seq(Scopes)
      /\ \A i \in 1..(Len(frames) - 1) : frames'[i] = frames[i]
  BY DEF Left
<1>4. frames' # <<>> <=> Len(frames) # 1
  <2> HIDE DEF Left
  <2> QED
    BY <1>1, <1>3
<1>5. outcome'[Top] = r /\ outcome[Top] = "none" /\ \A s \in Scopes : s # Top => outcome'[s] = outcome[s]
  <2>1. outcome[frames[Len(frames)]] = "none"
    BY <1>1 DEF Inv, Fresh
  <2> QED
    BY <1>1, <1>2, <2>1 DEF Top
<1>6. ~Starting' /\ ~Ended' /\ pc' \in {"done", "body"}
  BY <1>2 DEF Starting, Ended
<1>7. \A T \in 1..Tenants : Prior(T)' => Prior(T) /\ T # tenant
  <2>1. tenant \in Nat
    BY <1>1
  <2> QED
    BY <1>6, <2>1 DEF Prior
<1> DEFINE u == [kind |-> "cleanup", scope |-> Top, step |-> 1]
<1>8. /\ tasks \subseteq tasks' /\ (\A t \in tasks' : t \in tasks \/ t = u)
      /\ u.scope = Top /\ u.kind = "cleanup" /\ u.step = 1
      /\ tasks' # tasks => u \in tasks'
      /\ Len(frames) # 1 => tasks' = tasks \/ u \in tasks'
  BY DEF Spawned
<1>81. u \in tasks' \/ (tasks' = tasks /\ (Len(frames) = 1 \/ (pc \in {"finish", "abandon2"} /\ reply = "ok")))
  BY DEF Spawned
<1> HIDE DEF u
<1>9. Untouched'
  <2>1. \A i \in 1..Len(queue') : \/ queue'[i].by = "user"
                                  \/ \E j \in 1..Len(queue) : queue[j].tenant = queue'[i].tenant
                                                              /\ queue[j].by # "user"
    BY <1>1 DEF NoUser
  <2>2. \A t \in tasks' : \/ \E v \in tasks : v.scope.tenant = t.scope.tenant
                          \/ \A T \in 1..Tenants : t.scope.tenant = T => ~Prior(T)'
    BY <1>1, <1>7, <1>8
  <2> QED
    BY <1>7, <2>1, <2>2, UntouchedKept DEF Inv
<1>10. Fresh'
  <2>1. \A s \in Scopes : s.tenant \in 1..Tenants
    BY DEF Scopes
  <2>2. \A s \in Scopes : Unopened(s)' => Unopened(s) /\ s # Top
    <3> TAKE s \in Scopes
    <3>1. Unopened(s)' => Unopened(s)
      BY <2>1, <1>7 DEF Unopened
    <3>2. s = Top => ~Unopened(s)'
      <4> SUFFICES ASSUME s = Top, s.n > opened + 1 PROVE FALSE
        BY <1>1, <1>7 DEF Unopened
      <4>0. opened \in Nat
        BY BoundsAssumption DEF Inv, Base, Typed
      <4>1. CASE Len(frames) = 1
        BY <1>1, <4>0, <4>1
      <4>2. CASE Len(frames) # 1
        <5>1. Len(frames) \in 2..Len(frames)
          BY <1>1, <4>2
        <5>2. Top.n \in 2..(opened + 1)
          BY <5>1 DEF Inv, Base, Nested, Top
        <5> QED
          BY <4>0, <5>2
      <4> QED
        BY <4>1, <4>2
    <3> QED
      BY <3>1, <3>2
  <2>3. \A i \in 1..Len(frames') : i \in 1..Len(frames) /\ i # Len(frames) /\ frames'[i] = frames[i]
    BY <1>1, <1>3
  <2>4. Distinct(frames')
    BY <2>3 DEF Inv, Fresh, Distinct
  <2>5. \A i \in 1..Len(frames') : frames'[i] # Top /\ frames'[i] \in Scopes
    BY <1>1, <2>3 DEF Inv, Fresh, Distinct, Top
  <2>6. \A i \in 1..Len(frames') : outcome'[frames'[i]] = "none"
    BY <1>5, <2>3, <2>5 DEF Inv, Fresh
  <2> QED
    BY <1>5, <2>2, <2>4, <2>6 DEF Inv, Fresh
<1>11. Asked'
  BY <1>1, <1>8, AskedSame DEF Inv
<1>12. Unended'
  <2>1. frames' # <<>> => Top # Tx(tenant)
    BY <1>1, <1>4, TxTyped
  <2>2. CASE frames' = <<>>
    BY <2>2 DEF Unended
  <2>3. CASE frames' # <<>>
    <3>1. \A t \in tasks' : t \in tasks \/ t.scope # Tx(tenant)
      BY <1>8, <2>1, <2>3
    <3> QED
      BY <3>1, UnendedSame DEF Inv
  <2> QED
    BY <2>2, <2>3
<1>13. Alone' => Alone /\ Len(frames) # 1
  BY <1>4 DEF Alone
<1>14. Cleanups(tenant) \subseteq Cleanups(tenant)'
  BY <1>8 DEF Cleanups
<1>15. Waiting'
  <2> SUFFICES ASSUME Alone'
               PROVE  /\ \A t \in Cleanups(tenant)' : t.step = 1 \/ (t.step = 2 /\ Waits(t)')
                      /\ (\E i \in 1..Len(queue') : queue'[i].by = "orphan" /\ queue'[i].tenant = tenant')
                             => Cleanups(tenant)' # {}
    BY DEF Waiting
  <2>1. \A t \in Cleanups(tenant)' : t = u \/ t \in Cleanups(tenant)
    BY <1>8 DEF Cleanups
  <2>2. \A t : Waits(t) => Waits(t)'
    BY DEF Waits
  <2> QED
    BY <1>8, <1>13, <1>14, <2>1, <2>2 DEF Inv, Waiting
<1>16. Owns'
  <2>1. Alone' => ~Starting /\ ~Ended
    BY <1>13 DEF Starting, Ended
  <2> QED
    BY <1>13, <2>1, OwnsKept DEF Inv
<1>17. Sheltered' /\ OwnWrites'
  BY DEF Inv, Sheltered, OwnWrites, Owner
<1>18. Synced'
  <2> SUFFICES ASSUME Alone', Cleanups(tenant)' = {} PROVE Matches'
    BY DEF Synced
  <2>1. Len(frames) # 1 /\ Alone /\ Cleanups(tenant) = {}
    BY <1>13, <1>14
  <2>2. u \notin tasks'
    BY <1>1, <1>8, <2>1 DEF Cleanups
  <2>3. tasks' = tasks /\ pc \in {"finish", "abandon2"} /\ reply = "ok"
    BY <1>81, <2>1, <2>2
  <2>4. ~Starting /\ ~Ended
    BY <2>1, <2>3 DEF Starting, Ended
  <2>5. Matches
    BY <2>1, <2>4 DEF Inv, Synced
  <2>6. Depth = Len(frames) - 1 /\ Depth' = Len(frames')
    BY <2>3, <2>4, <1>6, <1>2, <2>1 DEF Depth
  <2>7. ASSUME NEW i \in 1..(Len(frames) - 1), NEW s \in Scopes, Belongs(s, i) PROVE Belongs(s, i)'
    <3>1. CASE outcome[s] = "ok"
      BY <3>1, <1>5 DEF Belongs
    <3>2. CASE \E k \in 1..i : s = frames[k]
      <4>1. \A k \in 1..i : k \in 1..(Len(frames) - 1)
        BY <1>1
      <4> QED
        BY <1>3, <3>2, <4>1 DEF Belongs
    <3>3. CASE pc = "finish" /\ reply = "ok" /\ s = Top
      BY <3>3, <1>5 DEF Belongs
    <3> QED
      BY <2>7, <3>1, <3>2, <3>3 DEF Belongs
  <2>8. ~Emptied'
    BY <1>6 DEF Emptied
  <2>9. Len(levels) = Len(frames) - 1 /\ Len(levels') = Depth'
    BY <1>3, <2>5, <2>6 DEF Matches
  <2>10. ASSUME NEW i \in 1..Len(levels')
         PROVE  /\ levels'[i].scope = frames'[i]
                /\ \A w \in levels'[i].writes : \A s \in w.in : Belongs(s, i)'
    <3>1. i \in 1..Len(levels) /\ i \in 1..(Len(frames) - 1) /\ levels'[i] = levels[i]
      BY <2>9
    <3>2. levels[i] \in LevelSet
      BY <3>1, LevelsTyped DEF Inv
    <3>3. \A w \in levels[i].writes : \A s \in w.in : s \in Scopes
      BY <3>2 DEF LevelSet, Writes
    <3> QED
      BY <1>3, <2>5, <2>7, <3>1, <3>3 DEF Matches
  <2> QED
    BY <2>8, <2>9, <2>10 DEF Matches
<1>19. Justified'
  <2>1. \A i \in 1..Len(queue), T \in 1..Tenants : Commits(i, T)' => Commits(i, T) /\ T # tenant
    <3> SUFFICES ASSUME NEW i \in 1..Len(queue), Commits(i, tenant) PROVE FALSE
      BY DEF Commits
    <3>1. IsOf(queue[i], tenant)
      BY DEF Commits, IsOf, Ends
    <3> QED
      BY <1>1, <3>1 DEF Inv, Unended, NoUser
  <2>2. \A i, T : WillRace(i, T) => WillRace(i, T)'
    <3>1. \A T : Cleanups(T) \subseteq Cleanups(T)'
      BY <1>8 DEF Cleanups
    <3>2. \A i, t : Behind(i, t) => Behind(i, t)'
      BY DEF Behind
    <3> QED
      BY <3>1, <3>2 DEF WillRace
  <2>3. \A T : AllGood(T) => AllGood(T)'
    <3>1. \A w \in Writes : Good(w) => Good(w)'
      <4>1. \A w \in Writes : \A s \in w.in : s \in Scopes
        BY DEF Writes
      <4> QED
        BY <1>5, <4>1 DEF Good
    <3>2. \A w : Under(w)' => Under(w)
      BY DEF Under
    <3> QED
      BY <3>1, <3>2 DEF AllGood
  <2>4. \A T \in 1..Tenants : T # tenant => outcome'[Tx(T)] = outcome[Tx(T)]
    <3> TAKE T \in 1..Tenants
    <3>1. Tx(T) \in Scopes /\ Tx(T).tenant = T
      BY TxTyped
    <3> QED
      BY <1>1, <1>5, <3>1
  <2> QED
    BY <2>1, <2>2, <2>3, <2>4 DEF Inv, Justified
<1>20. Final'
  <2>1. \A s \in Scopes : outcome[s] \in {"ok", "unknown"} => outcome'[s] = outcome[s]
    BY <1>5
  <2>2. \A s \in Scopes : Finishing(s) => outcome'[s] \in {"ok", "unknown"}
    <3> SUFFICES ASSUME NEW s \in Scopes, Finishing(s) PROVE s = Top /\ r = "ok"
      BY <1>5
    <3> QED
      BY DEF Finishing, Top
  <2> QED
    BY <2>1, <2>2, FinalKept DEF Inv, Base, Typed
<1> QED
  BY <1>9, <1>10, <1>11, <1>12, <1>15, <1>16, <1>17, <1>18, <1>19, <1>20 DEF Inv

LEMMA EnterFailsInv ==
    ASSUME Inv, EnterFails
    PROVE  Inv'
<1>1. frames # <<>>
  BY DEF EnterFails, Answered, Inv, Base, Nested, InScope
<1>2. /\ UNCHANGED <<pooled, tenant, opened, sent, drops, broken, conn, queue, levels, failed,
                     committed, known, acked, hollow, raced>>
      /\ reply' = "none" /\ pc = "begin" /\ reply = "err" /\ Leave("err") /\ tasks' = Spawned({Top})
  BY DEF EnterFails, LeaveArmed, Answered, serverVars
<1>3. Base' /\ Left
  BY <1>1, <1>2, LeaveBase DEF Inv
<1> QED
  BY <1>1, <1>2, <1>3, LeaveInv

LEMMA FinishedInv ==
    ASSUME Inv, Finished
    PROVE  Inv'
<1>1. frames # <<>>
  BY DEF Finished, Answered, Inv, Base, Nested, InScope
<1>2. /\ UNCHANGED <<pooled, tenant, opened, sent, drops, broken, conn, queue, levels, failed,
                     committed, known, acked, hollow, raced>>
      /\ reply' = "none" /\ pc = "finish" /\ reply = "ok" /\ Leave("ok") /\ tasks' = tasks
  BY DEF Finished, Answered, serverVars
<1>3. Base' /\ Left
  BY <1>1, <1>2, LeaveBase DEF Inv
<1> QED
  BY <1>1, <1>2, <1>3, LeaveInv

LEMMA FinishFailsInv ==
    ASSUME Inv, FinishFails
    PROVE  Inv'
<1>1. frames # <<>>
  BY DEF FinishFails, Answered, Inv, Base, Nested, InScope
<1>2. PICK r \in {"ok", "err", "unknown"} : Leave(r)
  BY DEF FinishFails, LeaveArmed
<1>3. /\ UNCHANGED <<pooled, tenant, opened, sent, drops, broken, conn, queue, levels, failed,
                     committed, known, acked, hollow, raced>>
      /\ reply' = "none" /\ pc = "finish" /\ reply = "err" /\ tasks' = Spawned({Top})
  BY DEF FinishFails, LeaveArmed, Answered, serverVars
<1>4. Base' /\ Left
  BY <1>1, <1>2, <1>3, LeaveBase DEF Inv
<1> QED
  BY <1>1, <1>2, <1>3, <1>4, LeaveInv

LEMMA RolledBackInv ==
    ASSUME Inv, RolledBack
    PROVE  Inv'
<1>1. frames # <<>>
  BY DEF RolledBack, Inv, Base, Nested, InScope
<1>2. /\ UNCHANGED <<pooled, tenant, opened, sent, drops, broken, conn, queue, levels, failed,
                     committed, known, acked, hollow, raced>>
      /\ reply' = "none" /\ pc = "abandon" /\ reply # "none" /\ Leave("err") /\ tasks' = tasks
      /\ Len(frames) = 1
  BY DEF RolledBack, serverVars
<1>3. Base' /\ Left
  BY <1>1, <1>2, LeaveBase DEF Inv
<1> QED
  BY <1>1, <1>2, <1>3, LeaveInv

LEMMA ReleasedInv ==
    ASSUME Inv, Released
    PROVE  Inv'
<1>1. frames # <<>>
  BY DEF Released, Answered, Inv, Base, Nested, InScope
<1>2. /\ UNCHANGED <<pooled, tenant, opened, sent, drops, broken, conn, queue, levels, failed,
                     committed, known, acked, hollow, raced>>
      /\ reply' = "none" /\ pc = "abandon2" /\ reply = "ok" /\ Leave("err") /\ tasks' = tasks
  BY DEF Released, Answered, serverVars
<1>3. Base' /\ Left
  BY <1>1, <1>2, LeaveBase DEF Inv
<1> QED
  BY <1>1, <1>2, <1>3, LeaveInv

LEMMA RollbackToFailsInv ==
    ASSUME Inv, RollbackToFails
    PROVE  Inv'
<1>1. frames # <<>>
  BY DEF RollbackToFails, Inv, Base, Nested, InScope
<1>2. /\ UNCHANGED <<pooled, tenant, opened, sent, drops, broken, conn, queue, levels, failed,
                     committed, known, acked, hollow, raced>>
      /\ reply' = "none" /\ pc \in {"abandon", "abandon2"} /\ reply = "err" /\ Leave("err")
      /\ tasks' = Spawned({Top})
  BY DEF RollbackToFails, LeaveArmed, serverVars
<1>3. Base' /\ Left
  BY <1>1, <1>2, LeaveBase DEF Inv
<1> QED
  BY <1>1, <1>2, <1>3, LeaveInv

-----------------------------------------------------------------------------
(* A future is dropped *)

LEMMA DropInv ==
    ASSUME Inv, Drop
    PROVE  Inv'
<1>1. /\ tenant \in 1..Tenants /\ Len(frames) \in Nat \ {0} /\ frames \in Seq(Scopes)
      /\ frames # <<>> /\ queue \in Seq(Commands) /\ Len(queue) \in Nat
  BY TopTyped, LevelsTyped DEF Inv, Base, Drop
<1>2. PICK k \in 1..Len(frames) : Cut(k)
  BY DropBase DEF Inv
<1>3. Base'
  BY DropBase DEF Inv
<1>4. /\ Len(queue') = Len(queue) /\ \A i \in 1..Len(queue) : queue'[i] = Orphaned(queue[i])
  <2>1. queue' = [i \in 1..Len(queue) |->
                    IF queue[i].by = "user" THEN [queue[i] EXCEPT !.by = "orphan"] ELSE queue[i]]
    BY DEF Drop
  <2>2. queue \in Seq(Commands)
    BY <1>1
  <2> QED
    BY <2>1, <2>2, OrphanedQueue, ZenonT(30)
<1>5. \A i \in 1..Len(queue) :
          /\ queue'[i].op = queue[i].op /\ queue'[i].arg = queue[i].arg /\ queue'[i].tenant = queue[i].tenant
          /\ queue'[i].by = IF queue[i].by = "user" THEN "orphan" ELSE queue[i].by
  BY <1>4, QueuedTyped, OrphanedFacts DEF Inv
<1> DEFINE out == {frames[i] : i \in k..Len(frames)}
<1>6. UNCHANGED <<tenant, opened, conn, levels, committed, raced>> /\ reply' = "none"
  BY DEF Drop, serverVars
<1>7. /\ Len(frames') = k - 1 /\ frames' \in Seq(Scopes)
      /\ \A i \in 1..(k - 1) : frames'[i] = frames[i]
      /\ pc' = IF k = 1 THEN "done" ELSE "body"
  BY <1>2 DEF Cut
<1>8. frames' # <<>> <=> k # 1
  <2>1. k \in Nat
    BY <1>1, <1>2
  <2> QED
    BY <1>7, <2>1
<1>9. /\ \A s \in Scopes \ out : outcome'[s] = outcome[s]
      /\ \A s \in Scopes \cap out : outcome'[s] = IF s = Top /\ pc = "finish" THEN "unknown" ELSE "dropped"
      /\ out \subseteq Scopes
  <2>1. out \subseteq Scopes
    BY <1>1, <1>2
  <2>2. outcome' = [s \in Scopes |-> IF s \notin out THEN outcome[s]
                                     ELSE IF s = Top /\ pc = "finish" THEN "unknown"
                                     ELSE "dropped"]
    BY <1>2 DEF Cut
  <2> HIDE DEF out
  <2> QED
    BY <2>1, <2>2
<1>10. \A s \in out : outcome[s] = "none" /\ s.tenant = tenant /\ (k # 1 => s.n > 1)
  <2> SUFFICES ASSUME NEW i \in k..Len(frames)
               PROVE  /\ outcome[frames[i]] = "none" /\ frames[i].tenant = tenant
                      /\ k # 1 => frames[i].n > 1
    OBVIOUS
  <2>1. i \in 1..Len(frames)
    BY <1>1, <1>2
  <2>2. CASE i = 1
    BY <1>1, <1>2, <2>1, <2>2, TxTyped DEF Inv, Base, Nested, Fresh
  <2>3. CASE i # 1
    <3>1. i \in 2..Len(frames)
      BY <2>1, <2>3
    <3>2. opened \in Nat
      BY BoundsAssumption DEF Inv, Base, Typed
    <3> QED
      BY <2>1, <3>1, <3>2 DEF Inv, Base, Nested, Fresh
  <2> QED
    BY <2>2, <2>3
<1>11. /\ tasks \subseteq tasks'
       /\ \A t \in tasks' : t \in tasks \/ (t.scope \in out /\ t.step = 1 /\ t.kind = "cleanup")
       /\ \A s \in out : \E t \in tasks' : t.scope = s
  <2>1. tasks' = tasks \cup {[kind |-> "cleanup", scope |-> s, step |-> 1] : s \in out}
    BY <1>2 DEF Cut, Spawned
  <2> HIDE DEF out
  <2>2. ASSUME NEW s \in out PROVE \E t \in tasks' : t.scope = s
    <3> DEFINE t == [kind |-> "cleanup", scope |-> s, step |-> 1]
    <3>1. t \in tasks' /\ t.scope = s
      BY <2>1
    <3> QED
      BY <3>1
  <2>3. ASSUME NEW t \in tasks', t \notin tasks PROVE t.scope \in out /\ t.step = 1 /\ t.kind = "cleanup"
    BY <2>1, <2>3
  <2> QED
    BY <2>1, <2>2, <2>3
<1>12. Top \in out
  BY <1>1, <1>2 DEF Top
<1> HIDE DEF out
<1>13. ~Starting' /\ ~Ended' /\ pc' \in {"done", "body"}
  BY <1>7 DEF Starting, Ended
<1>14. \A T \in 1..Tenants : Prior(T)' => Prior(T) /\ T # tenant
  <2>1. tenant \in Nat
    BY <1>1
  <2> QED
    BY <1>6, <1>13, <2>1 DEF Prior
<1>15. \A i \in 1..Len(queue) : queue[i].by = "user" => queue[i].tenant = tenant /\ Awaited(queue[i])
  BY DEF Inv, Asked, Awaited, Members
<1>16. Untouched'
  <2>1. \A i \in 1..Len(queue') : \/ queue'[i].by = "user"
                                  \/ \E j \in 1..Len(queue) : queue[j].tenant = queue'[i].tenant
                                                              /\ queue[j].by # "user"
                                  \/ \A T \in 1..Tenants : queue'[i].tenant = T => ~Prior(T)'
    BY <1>4, <1>5, <1>14, <1>15
  <2>2. \A t \in tasks' : \/ \E u \in tasks : u.scope.tenant = t.scope.tenant
                          \/ \A T \in 1..Tenants : t.scope.tenant = T => ~Prior(T)'
    BY <1>10, <1>11, <1>14
  <2> QED
    BY <1>6, <1>14, <2>1, <2>2, UntouchedKept DEF Inv
<1>17. Fresh'
  <2>1. \A s \in Scopes : s.tenant \in 1..Tenants
    BY DEF Scopes
  <2>2. \A i \in 1..Len(frames) : frames[i].n <= opened + 1
    <3> TAKE i \in 1..Len(frames)
    <3>0. opened \in Nat
      BY BoundsAssumption DEF Inv, Base, Typed
    <3>1. CASE i = 1
      BY <1>1, <3>0, <3>1, TxTyped DEF Inv, Base, Nested
    <3>2. CASE i # 1
      <4>1. i \in 2..Len(frames)
        BY <1>1, <3>2
      <4> QED
        BY <3>0, <4>1 DEF Inv, Base, Nested
    <3> QED
      BY <3>1, <3>2
  <2>3. \A s \in out : s.n <= opened + 1
    BY <1>1, <1>2, <2>2 DEF out
  <2>4. \A s \in Scopes : Unopened(s)' => Unopened(s) /\ s \notin out
    <3> TAKE s \in Scopes
    <3>1. Unopened(s)' => Unopened(s)
      BY <2>1, <1>6, <1>14 DEF Unopened
    <3>2. s \in out => ~Unopened(s)'
      <4>1. s.n \in Nat /\ opened \in Nat
        BY BoundsAssumption DEF Scopes, Inv, Base, Typed
      <4> QED
        BY <4>1, <1>6, <1>10, <1>14, <2>1, <2>3 DEF Unopened
    <3> QED
      BY <3>1, <3>2
  <2>5. \A i \in 1..Len(frames') : i \in 1..Len(frames) /\ i < k /\ frames'[i] = frames[i]
    BY <1>1, <1>2, <1>7
  <2>6. Distinct(frames')
    BY <2>5 DEF Inv, Fresh, Distinct
  <2>7. \A i \in 1..Len(frames') : frames'[i] \notin out /\ frames'[i] \in Scopes
    <3> TAKE i \in 1..Len(frames')
    <3> SUFFICES ASSUME NEW j \in k..Len(frames), frames'[i] = frames[j] PROVE FALSE
      BY <1>1, <2>5 DEF out
    <3>1. j \in 1..Len(frames) /\ i # j /\ frames[i] = frames[j] /\ i \in 1..Len(frames)
      BY <1>1, <1>2, <2>5
    <3> QED
      BY <3>1 DEF Inv, Fresh, Distinct
  <2>8. \A i \in 1..Len(frames') : outcome'[frames'[i]] = "none"
    BY <1>9, <2>5, <2>7 DEF Inv, Fresh
  <2> QED
    BY <1>9, <2>4, <2>6, <2>8 DEF Inv, Fresh
<1>18. Asked'
  <2>1. \A i \in 1..Len(queue') : queue'[i].by # "user"
    BY <1>4, <1>5
  <2>2. \A c \in Members(queue)' : c.by # "user"
    BY <2>1 DEF Members
  <2>3. \A i \in 1..Len(queue') : queue'[i].by \in Leftovers =>
            queue[i].by = queue'[i].by /\ queue[i].arg = queue'[i].arg
    BY <1>4, <1>5 DEF Leftovers
  <2> QED
    BY <1>4, <1>6, <1>11, <2>1, <2>2, <2>3 DEF Inv, Asked
<1>19. ASSUME NEW i \in 1..Len(queue), IsOf(queue[i], tenant)
       PROVE  queue[i].by = "user" /\ Len(frames) = 1 /\ k = 1
  <2>1. queue[i].by = "user" /\ Awaited(queue[i]) /\ pc # "recycle"
    BY <1>1, <1>15, <1>19 DEF Inv, Unended, Base, Nested, InScope
  <2>2. Len(frames) = 1
    BY <1>19, <2>1 DEF Awaited, IsOf, Ends
  <2> QED
    BY <1>2, <2>1, <2>2
<1>20. Unended'
  <2> SUFFICES ASSUME k # 1
               PROVE  /\ \A i \in 1..Len(queue') : ~IsOf(queue'[i], tenant)
                      /\ \A t \in tasks' : t.scope = Tx(tenant) => t.kind = "stream"
    BY <1>6, <1>8 DEF Unended
  <2>1. \A i \in 1..Len(queue') : ~IsOf(queue'[i], tenant)
    <3> SUFFICES ASSUME NEW i \in 1..Len(queue), IsOf(queue'[i], tenant) PROVE FALSE
      BY <1>4
    <3>1. IsOf(queue[i], tenant)
      BY <1>5 DEF IsOf, Ends
    <3> QED
      BY <1>19, <3>1
  <2>2. \A t \in tasks' : t.scope = Tx(tenant) => t.kind = "stream"
    <3>1. Tx(tenant) \notin out
      BY <1>1, <1>10, TxTyped
    <3> QED
      BY <1>1, <1>11, <3>1 DEF Inv, Unended
  <2> QED
    BY <2>1, <2>2
<1>21. Alone' => Alone /\ k # 1
  BY <1>1, <1>6, <1>8 DEF Alone
<1>22. k # 1 => Cleanups(tenant)' # {}
  BY <1>6, <1>10, <1>11, <1>12 DEF Cleanups
<1>23. Waiting'
  <2> SUFFICES ASSUME Alone', NEW t \in Cleanups(tenant)'
               PROVE  t.step = 1 \/ (t.step = 2 /\ Waits(t)')
    BY <1>21, <1>22 DEF Waiting
  <2>1. CASE t \in tasks
    <3>1. t \in Cleanups(tenant) /\ t.kind \in Leftovers
      BY <1>6, <2>1, LevelsTyped DEF Cleanups, Inv, Tasks
    <3>2. Waits(t) => Waits(t)'
      BY <1>4, <1>5, <3>1 DEF Waits, Leftovers
    <3> QED
      BY <1>21, <3>1, <3>2 DEF Inv, Waiting
  <2>2. CASE t \notin tasks
    BY <1>11, <2>2 DEF Cleanups
  <2> QED
    BY <2>1, <2>2
<1>24. Owns'
  <2>1. Alone' => ~Starting /\ ~Ended
    <3>1. Len(frames) = 1 => k = 1
      BY <1>2
    <3> QED
      BY <1>21, <3>1 DEF Starting, Ended
  <2> QED
    BY <1>6, <1>21, <2>1, OwnsKept DEF Inv
<1>25. OwnWrites'
  BY <1>6, OwnWritesKept DEF Inv
<1>26. Sheltered'
  <2> SUFFICES ASSUME NEW i \in 1..Len(queue), queue'[i].op = "WRITE", queue'[i].tenant \notin raced
               PROVE  /\ Owner = queue'[i].tenant
                      /\ \A j \in 1..(i - 1) : ~IsOf(queue'[j], queue'[i].tenant)
    BY <1>4, <1>6 DEF Sheltered, Owner
  <2>1. \A j \in 1..(i - 1) : j \in 1..Len(queue)
    BY <1>1
  <2>2. /\ Owner = queue[i].tenant
        /\ \A j \in 1..(i - 1) : ~IsOf(queue[j], queue[i].tenant)
    BY <1>5 DEF Inv, Sheltered
  <2>3. \A j \in 1..(i - 1) : IsOf(queue'[j], queue'[i].tenant) => IsOf(queue[j], queue[i].tenant)
    BY <1>5, <2>1 DEF IsOf, Ends
  <2> QED
    BY <1>5, <2>2, <2>3
<1>27. Synced'
  BY <1>6, <1>21, <1>22 DEF Synced
<1>28. Justified'
  <2>1. \A i \in 1..Len(queue), T \in 1..Tenants : Commits(i, T)' => Commits(i, T)
    BY <1>5, <1>6 DEF Commits
  <2>2. \A i \in 1..Len(queue), T \in 1..Tenants : WillRace(i, T) => WillRace(i, T)'
    <3>1. \A T : Cleanups(T) \subseteq Cleanups(T)'
      BY <1>11 DEF Cleanups
    <3>2. ASSUME NEW i \in 1..Len(queue), NEW t, Behind(i, t) PROVE Behind(i, t)'
      <4>1. PICK j \in (i + 1)..Len(queue) :
                queue[j].op = "RELEASE" /\ queue[j].by = "cleanup" /\ queue[j].arg = t.scope
        BY <3>2 DEF Behind
      <4>2. j \in 1..Len(queue) /\ j \in (i + 1)..Len(queue')
        BY <1>1, <1>4, <4>1
      <4> QED
        BY <1>5, <4>1, <4>2 DEF Behind
    <3> QED
      BY <3>1, <3>2 DEF WillRace
  <2>3. \A T : AllGood(T) => AllGood(T)'
    <3>1. \A w \in Writes : Good(w) => Good(w)'
      <4>1. \A w \in Writes : \A s \in w.in : s \in Scopes
        BY DEF Writes
      <4>2. \A s \in Scopes : outcome[s] = "ok" => outcome'[s] = "ok"
        BY <1>9, <1>10
      <4> QED
        BY <4>1, <4>2 DEF Good
    <3>2. \A w : Under(w)' => Under(w)
      BY <1>4, <1>5, <1>6 DEF Under
    <3> QED
      BY <3>1, <3>2 DEF AllGood
  <2>4. ASSUME NEW i \in 1..Len(queue), NEW T \in 1..Tenants, Commits(i, T), queue'[i].by = "orphan"
        PROVE  outcome'[Tx(T)] = "unknown"
    <3>1. Tx(T) \in Scopes /\ Tx(T).tenant = T
      BY TxTyped
    <3>2. CASE T = tenant
      <4>1. IsOf(queue[i], tenant)
        BY <2>4, <3>2 DEF Commits, IsOf, Ends
      <4>2. queue[i].by = "user" /\ Len(frames) = 1 /\ Awaited(queue[i]) /\ queue[i].op = "COMMIT"
        BY <1>15, <1>19, <2>4, <4>1 DEF Commits
      <4>3. pc = "finish" /\ Top = Tx(tenant)
        BY <1>1, <4>2 DEF Awaited, Top, Inv, Base, Nested
      <4> QED
        BY <1>9, <1>12, <3>1, <3>2, <4>3
    <3>3. CASE T # tenant
      <4>1. Tx(T) \notin out
        BY <1>10, <3>1, <3>3
      <4>2. queue[i].by = "orphan"
        BY <1>5, <1>15, <2>4, <3>3 DEF Commits
      <4> QED
        BY <1>9, <2>4, <3>1, <4>1, <4>2 DEF Inv, Justified
    <3> QED
      BY <3>2, <3>3
  <2> QED
    BY <1>4, <1>6, <2>1, <2>2, <2>3, <2>4 DEF Inv, Justified
<1>29. Final'
  <2>1. \A s \in Scopes : outcome[s] \in {"ok", "unknown"} => outcome'[s] = outcome[s]
    BY <1>9, <1>10
  <2>2. \A s \in Scopes : Finishing(s) => outcome'[s] \in {"ok", "unknown"}
    <3> SUFFICES ASSUME NEW s \in Scopes, Finishing(s) PROVE s = Top /\ pc = "finish"
      BY <1>9, <1>12
    <3> QED
      BY DEF Finishing, Top
  <2> QED
    BY <1>6, <2>1, <2>2, FinalKept DEF Inv, Base, Typed
<1> QED
  BY <1>3, <1>16, <1>17, <1>18, <1>20, <1>23, <1>24, <1>25, <1>26, <1>27, <1>28, <1>29 DEF Inv

-----------------------------------------------------------------------------
(* A spawned task moves *)

LEMMA TaskStepInv ==
    ASSUME Inv, NEW t \in tasks, TaskStep(t), Base'
    PROVE  Inv'
<1>1. /\ t \in Tasks /\ tasks \subseteq Tasks /\ queue \in Seq(Commands) /\ Len(queue) \in Nat
      /\ t.scope \in Scopes /\ t.kind \in Leftovers
  BY LevelsTyped DEF Inv, Tasks
<1>2. IF Sends(t) THEN queue' = Append(queue, TaskCmd(t)) /\ tasks' = (tasks \ {t}) \cup {Later(t)}
      ELSE tasks' = tasks \ {t} /\ UNCHANGED queue
  BY DEF TaskStep, Sends, TaskCmd, Later
<1>3. ASSUME Sends(t)
      PROVE  /\ TaskCmd(t) \in Commands /\ TaskCmd(t).op \notin {"BEGIN", "WRITE"}
             /\ TaskCmd(t).by = t.kind /\ TaskCmd(t).arg = t.scope /\ TaskCmd(t).tenant = t.scope.tenant
             /\ Later(t).step = t.step + 1 /\ Later(t).kind = t.kind /\ Later(t).scope = t.scope
  BY <1>1, <1>3, TaskCommand DEF Sends, TaskCmd, Cmd
<1>4. Sends(t) => Grown(TaskCmd(t))
  BY <1>2, <1>3, GrownFacts DEF Inv
<1>5. /\ UNCHANGED <<pooled, tenant, pc, frames, opened, sent, drops, reply, conn, levels, failed,
                     committed, outcome, raced>>
      /\ ~Waits(t)
  BY DEF TaskStep, callVars, serverVars, history
<1>6. \A i \in 1..Len(queue) : ~(queue[i].by = t.kind /\ queue[i].arg = t.scope)
  BY <1>5 DEF Waits
<1>7. \A i \in 1..Len(queue) : i \in 1..Len(queue') /\ queue'[i] = queue[i]
  BY <1>2, <1>4 DEF Grown
<1>8. \A i \in 1..Len(queue') : i \in 1..Len(queue) \/ (Sends(t) /\ i = Len(queue) + 1 /\ queue'[i] = TaskCmd(t))
  BY <1>2, <1>4 DEF Grown
<1>9. \A u \in tasks' : u \in tasks \/ (Sends(t) /\ u = Later(t))
  BY <1>2
<1>10. \A u \in tasks : u \in tasks' \/ u = t
  BY <1>2
<1>11. \A T : Prior(T)' <=> Prior(T)
  BY <1>5 DEF Prior, Starting
<1>12. Untouched'
  <2>1. \A u \in tasks' : \E v \in tasks : v.scope.tenant = u.scope.tenant
    BY <1>3, <1>9
  <2> SUFFICES ASSUME NEW T \in 1..Tenants, Prior(T), NEW i \in 1..Len(queue'), queue'[i].tenant = T
               PROVE  queue'[i].by = "user"
    BY <1>5, <1>11, <2>1 DEF Inv, Untouched, Owner
  <2>2. CASE i \in 1..Len(queue)
    BY <1>7, <2>2 DEF Inv, Untouched
  <2>3. CASE Sends(t) /\ queue'[i] = TaskCmd(t)
    BY <1>3, <2>3 DEF Inv, Untouched
  <2> QED
    BY <1>8, <2>2, <2>3
<1>13. Fresh'
  BY <1>5, <1>11 DEF Inv, Fresh, Unopened
<1>14. Asked'
  <2>1. \A i \in 1..Len(queue') : queue'[i].by = "user" => i \in 1..Len(queue) /\ queue'[i] = queue[i]
    BY <1>1, <1>3, <1>7, <1>8 DEF Leftovers
  <2>2. \A c \in Members(queue)' : c.by = "user" => c \in Members(queue)
    BY <2>1 DEF Members
  <2>3. \A c : Awaited(c) => Awaited(c)'
    BY <1>5 DEF Awaited, Top
  <2>4. ASSUME conn = "alive", NEW i \in 1..Len(queue'), queue'[i].by \in Leftovers
        PROVE  \E u \in tasks' : u.kind = queue'[i].by /\ u.scope = queue'[i].arg /\ u.step > 1
    <3>1. CASE i \in 1..Len(queue)
      <4>1. PICK u \in tasks : u.kind = queue[i].by /\ u.scope = queue[i].arg /\ u.step > 1
        BY <1>7, <2>4, <3>1 DEF Inv, Asked
      <4>2. u # t
        BY <1>6, <3>1, <4>1
      <4> QED
        BY <1>7, <1>10, <3>1, <4>1, <4>2
    <3>2. CASE Sends(t) /\ queue'[i] = TaskCmd(t)
      <4>1. Later(t) \in tasks' /\ Later(t).kind = t.kind /\ Later(t).scope = t.scope
        BY <1>2, <1>3, <3>2
      <4>2. Later(t).step > 1
        BY <1>1, <1>3, <3>2 DEF Tasks
      <4> QED
        BY <1>3, <3>2, <4>1, <4>2
    <3> QED
      BY <1>8, <3>1, <3>2
  <2>5. \A i, j \in 1..Len(queue') : queue'[i].by = "user" /\ queue'[j].by = "user" => i = j
    BY <2>1 DEF Inv, Asked
  <2> QED
    BY <1>5, <2>2, <2>3, <2>4, <2>5 DEF Inv, Asked
<1>15. Unended'
  <2> SUFFICES ASSUME frames # <<>>
               PROVE  /\ \A i \in 1..Len(queue') : IsOf(queue'[i], tenant) => queue'[i].by = "user"
                      /\ \A u \in tasks' : u.scope = Tx(tenant) => u.kind = "stream"
    BY <1>5 DEF Unended
  <2>1. \A u \in tasks' : u.scope = Tx(tenant) => u.kind = "stream"
    BY <1>3, <1>9 DEF Inv, Unended
  <2>2. ASSUME Sends(t), IsOf(TaskCmd(t), tenant) PROVE FALSE
    <3>1. t.scope.tenant = tenant /\ t.kind # "stream" /\ Ends(TaskCmd(t))
      BY <1>3, <2>2 DEF IsOf
    <3>2. t.scope.n = 1
      <4> SUFFICES ASSUME t.scope.n # 1 PROVE FALSE
        OBVIOUS
      <4>1. TaskCmd(t) \in Commands /\ TaskCmd(t).op \in {"COMMIT", "ROLLBACK"} /\ TaskCmd(t).arg = t.scope
        BY <1>3, <2>2, <3>1 DEF Ends
      <4> QED
        BY <4>1 DEF Commands, Proper
    <3>3. t.scope = Tx(tenant)
      BY <1>1, <3>1, <3>2 DEF Scopes, Tx
    <3> QED
      BY <3>1, <3>3 DEF Inv, Unended
  <2>3. \A i \in 1..Len(queue') : IsOf(queue'[i], tenant) => queue'[i].by = "user"
    BY <1>7, <1>8, <2>2 DEF Inv, Unended
  <2> QED
    BY <2>1, <2>3
<1>16. \A u : Waits(u) => Waits(u)'
  BY <1>7 DEF Waits
<1>17. Alone' <=> Alone
  BY <1>5 DEF Alone
<1>18. ASSUME Alone
       PROVE  /\ Cleanups(tenant) # {} => Cleanups(tenant)' # {}
              /\ \A u \in Cleanups(tenant)' : u.step = 1 \/ (u.step = 2 /\ Waits(u)')
  <2>1. ASSUME t \in Cleanups(tenant)
        PROVE  Sends(t) /\ t.step = 1 /\ Later(t) \in Cleanups(tenant)'
    <3>1. t.step = 1
      BY <1>5, <1>18, <2>1 DEF Inv, Waiting
    <3>2. Len(Script(t)) = 1 \/ Len(Script(t)) = 2
      BY <1>1, ScriptFacts
    <3>3. 1 <= Len(Script(t))
      BY <3>2
    <3>4. Sends(t)
      BY <1>18, <3>1, <3>3 DEF Sends, Alone
    <3> QED
      BY <1>2, <1>3, <1>5, <2>1, <3>1, <3>4 DEF Cleanups
  <2>2. Cleanups(tenant) # {} => Cleanups(tenant)' # {}
    BY <1>5, <1>10, <2>1 DEF Cleanups
  <2>3. ASSUME NEW u \in Cleanups(tenant)' PROVE u.step = 1 \/ (u.step = 2 /\ Waits(u)')
    <3>1. CASE u \in tasks
      <4>1. u \in Cleanups(tenant)
        BY <1>5, <2>3, <3>1 DEF Cleanups
      <4> QED
        BY <1>16, <1>18, <4>1 DEF Inv, Waiting
    <3>2. CASE Sends(t) /\ u = Later(t)
      <4>1. t \in Cleanups(tenant)
        BY <1>3, <1>5, <2>3, <3>2 DEF Cleanups
      <4>2. u.step = 2
        BY <1>3, <2>1, <3>2, <4>1
      <4>3. Len(queue) + 1 \in 1..Len(queue') /\ queue'[Len(queue) + 1] = TaskCmd(t)
        BY <1>4, <3>2 DEF Grown
      <4>4. u.kind = t.kind /\ u.scope = t.scope
        BY <1>3, <3>2
      <4>5. Waits(u)'
        BY <1>3, <3>2, <4>3, <4>4 DEF Waits
      <4> QED
        BY <4>2, <4>5
    <3> QED
      BY <1>9, <2>3, <3>1, <3>2 DEF Cleanups
  <2> QED
    BY <2>2, <2>3
<1>19. Waiting'
  <2>1. \A i \in 1..Len(queue') : queue'[i].by = "orphan" => i \in 1..Len(queue) /\ queue'[i] = queue[i]
    BY <1>1, <1>3, <1>7, <1>8 DEF Leftovers
  <2> QED
    BY <1>5, <1>17, <1>18, <2>1 DEF Inv, Waiting
<1>20. Owns' /\ OwnWrites'
  BY <1>5, <1>17 DEF Inv, Owns, Owner, OwnWrites, Starting, Ended
<1>21. Sheltered'
  <2>1. CASE ~Sends(t)
    BY <1>2, <1>5, <2>1 DEF Inv, Sheltered, Owner
  <2>2. CASE Sends(t)
    <3>1. Queued(TaskCmd(t)) /\ TaskCmd(t).op # "WRITE"
      BY <1>3, <1>4, <2>2 DEF Queued, Sends
    <3> QED
      BY <1>5, <3>1, ShelteredAdd DEF Inv
  <2> QED
    BY <2>1, <2>2
<1>22. Synced'
  <2> SUFFICES ASSUME Alone, ~Starting, Cleanups(tenant)' = {} PROVE Matches'
    BY <1>5, <1>17 DEF Synced, Starting
  <2>1. Matches
    BY <1>5, <1>18 DEF Inv, Synced
  <2> QED
    BY <1>5, <2>1 DEF Matches, Depth, Ended, Belongs, Emptied, Top
<1>23. Justified'
  <2> SUFFICES ASSUME NEW i \in 1..Len(queue'), NEW T \in 1..Tenants, Commits(i, T)'
               PROVE  /\ conn = "alive" => WillRace(i, T)' \/ AllGood(T)'
                      /\ queue'[i].by = "orphan" => outcome[Tx(T)] = "unknown"
    BY <1>5 DEF Justified
  <2>1. i \in 1..Len(queue) /\ queue'[i] = queue[i] /\ Commits(i, T)
    <3>1. Sends(t) => ~(TaskCmd(t).op = "COMMIT" /\ TaskCmd(t).by # "stream")
      BY <1>1, <1>3 DEF Commands, Proper, Leftovers
    <3> QED
      BY <1>5, <1>7, <1>8, <3>1 DEF Commits
  <2>2. queue'[i].by = "orphan" => outcome[Tx(T)] = "unknown"
    BY <2>1 DEF Inv, Justified
  <2> SUFFICES ASSUME conn = "alive" PROVE WillRace(i, T)' \/ AllGood(T)'
    BY <2>2
  <2>3. AllGood(T) => AllGood(T)'
    <3>1. \A w : Under(w)' => Under(w)
      <4>1. \A j \in 1..Len(queue') : queue'[j].op = "WRITE" => j \in 1..Len(queue) /\ queue'[j] = queue[j]
        BY <1>3, <1>7, <1>8
      <4> QED
        BY <1>5, <4>1 DEF Under
    <3>2. \A w : Good(w) => Good(w)'
      BY <1>5 DEF Good
    <3> QED
      BY <3>1, <3>2 DEF AllGood
  <2>4. ASSUME NEW u, Behind(i, u) PROVE Behind(i, u)'
    <3>1. PICK j \in (i + 1)..Len(queue) :
              queue[j].op = "RELEASE" /\ queue[j].by = "cleanup" /\ queue[j].arg = u.scope
      BY <2>4 DEF Behind
    <3>2. j \in 1..Len(queue)
      BY <1>1, <2>1, <3>1
    <3>3. j \in (i + 1)..Len(queue') /\ queue'[j] = queue[j]
      <4>1. j \in 1..Len(queue') /\ queue'[j] = queue[j]
        BY <1>7, <3>2
      <4> QED
        BY <3>1, <4>1
    <3> QED
      BY <3>1, <3>3 DEF Behind
  <2>5. ASSUME NEW u \in Cleanups(T), u.step <= 2 \/ Behind(i, u) PROVE WillRace(i, T)'
    <3>1. CASE u # t
      <4>1. u \in Cleanups(T)'
        BY <1>10, <3>1 DEF Cleanups
      <4> QED
        BY <2>4, <2>5, <4>1 DEF WillRace
    <3>2. CASE u = t
      <4>1. t.scope.n # 1 /\ t.scope.tenant = T /\ t.scope.n > 1
        BY <1>1, <3>2 DEF Cleanups, Scopes
      <4>2. t.kind = "cleanup" /\ Len(Script(t)) = 2
        BY <1>1, <4>1, ScriptFacts
      <4>3. ~Behind(i, u)
        <5> SUFFICES ASSUME NEW j \in (i + 1)..Len(queue), queue[j].by = "cleanup", queue[j].arg = t.scope
                     PROVE  FALSE
          BY <3>2 DEF Behind
        <5>1. j \in 1..Len(queue)
          BY <1>1, <2>1
        <5> QED
          BY <1>6, <4>2, <5>1
      <4>4. t.step <= 2 /\ t.step \in 1..3
        BY <1>1, <2>5, <3>2, <4>3 DEF Tasks
      <4>5. Sends(t)
        BY <4>2, <4>4 DEF Sends
      <4>6. Later(t) \in Cleanups(T)'
        BY <1>2, <1>3, <4>1, <4>5 DEF Cleanups
      <4>7. CASE t.step = 1
        <5>1. Later(t).step <= 2
          BY <1>3, <4>5, <4>7
        <5> QED
          BY <4>6, <5>1 DEF WillRace
      <4>8. CASE t.step = 2
        <5>1. TaskCmd(t).op = "RELEASE"
          BY <1>1, <4>1, <4>8, ScriptFacts DEF TaskCmd, Cmd
        <5>2. Len(queue) + 1 \in (i + 1)..Len(queue') /\ queue'[Len(queue) + 1] = TaskCmd(t)
          BY <1>1, <1>4, <2>1, <4>5 DEF Grown
        <5> DEFINE v == Later(t)
        <5>3. v.scope = t.scope /\ v \in Cleanups(T)'
          BY <1>3, <4>5, <4>6
        <5> HIDE DEF v
        <5>4. Behind(i, v)'
          BY <1>3, <4>2, <4>5, <5>1, <5>2, <5>3 DEF Behind
        <5> QED
          BY <5>3, <5>4 DEF WillRace
      <4> QED
        BY <4>4, <4>7, <4>8
    <3> QED
      BY <3>1, <3>2
  <2>6. WillRace(i, T) \/ AllGood(T)
    BY <2>1 DEF Inv, Justified
  <2> QED
    BY <2>3, <2>5, <2>6 DEF WillRace
<1>24. Final'
  <2>1. \A s \in Scopes : Finishing(s) => Finishing(s)'
    BY <1>5 DEF Finishing
  <2> QED
    BY <1>5, <2>1, FinalKept DEF Inv, Base, Typed
<1> QED
  BY <1>12, <1>13, <1>14, <1>15, <1>19, <1>20, <1>21, <1>22, <1>23, <1>24 DEF Inv

-----------------------------------------------------------------------------
(* The hand-over, and the loss of the connection *)

LEMMA HandOverInv ==
    ASSUME Inv, Base', NoUser, frames = <<>>, pc' \in {"idle", "dropped", "return"},
           UNCHANGED <<frames, opened, tasks, queue, levels, committed, outcome, raced>>,
           conn' = conn \/ conn' = "discarded", tenant' \in {tenant, tenant + 1},
           pc' = "idle" => tenant' = tenant + 1 \/ conn' = "discarded"
    PROVE  Inv'
<1>1. \A T \in 1..Tenants : Prior(T)' => Prior(T)
  <2>1. tenant \in Nat
    BY DEF Inv, Base, Typed
  <2> QED
    BY <2>1 DEF Prior, Starting
<1>2. Untouched'
  <2>1. \A i \in 1..Len(queue') : \/ queue'[i].by = "user"
                                  \/ \E j \in 1..Len(queue) : queue[j].tenant = queue'[i].tenant
                                                              /\ queue[j].by # "user"
    BY DEF NoUser
  <2>2. \A t \in tasks' : \E u \in tasks : u.scope.tenant = t.scope.tenant
    OBVIOUS
  <2> QED
    BY <1>1, <2>1, <2>2, UntouchedKept DEF Inv
<1>3. Fresh'
  <2>1. \A s \in Scopes : s.tenant \in 1..Tenants
    BY DEF Scopes
  <2>2. \A s \in Scopes : Unopened(s)' => Unopened(s)
    BY <2>1, <1>1 DEF Unopened
  <2> QED
    BY <2>2 DEF Inv, Fresh
<1>4. Asked'
  BY AskedSame DEF Inv
<1>5. Unended' /\ Waiting' /\ Owns' /\ Synced'
  BY DEF Unended, Waiting, Owns, Synced, Alone
<1>6. Sheltered' /\ OwnWrites'
  BY DEF Inv, Sheltered, OwnWrites, Owner
<1>7. Justified'
  BY DEF Inv, Justified, Commits, WillRace, AllGood, Cleanups, Behind, Under, Good
<1>8. Final'
  <2>1. \A s \in Scopes : ~Finishing(s)
    BY DEF Finishing
  <2> QED
    BY <2>1, FinalKept DEF Inv, Base, Typed
<1> QED
  BY <1>2, <1>3, <1>4, <1>5, <1>6, <1>7, <1>8 DEF Inv

LEMMA ReuseInv ==
    ASSUME Inv, Reuse, Base'
    PROVE  Inv'
<1>1. frames = <<>> /\ NoUser
  BY Idling DEF Reuse, Inv, Base, Nested, InScope
<1> QED
  BY <1>1, HandOverInv DEF Reuse, NextTenant, serverVars, history

LEMMA ReturnInv ==
    ASSUME Inv, Return, Base'
    PROVE  Inv'
<1>1. frames = <<>> /\ NoUser
  BY Idling DEF Return, Answered, Inv, Base, Nested, InScope
<1> QED
  BY <1>1, HandOverInv DEF Return, NextTenant, serverVars, history

LEMMA RecycleFailsInv ==
    ASSUME Inv, RecycleFails, Base'
    PROVE  Inv'
<1>1. frames = <<>> /\ NoUser
  BY Idling DEF RecycleFails, Answered, Inv, Base, Nested, InScope
<1> QED
  BY <1>1, HandOverInv DEF RecycleFails, serverVars, history

LEMMA DropConnectionInv ==
    ASSUME Inv, DropConnection, Base'
    PROVE  Inv'
<1>1. frames = <<>> /\ NoUser
  BY Idling DEF DropConnection, Inv, Base, Nested, InScope
<1> QED
  BY <1>1, HandOverInv DEF DropConnection, serverVars, history

LEMMA RecycleInv ==
    ASSUME Inv, Recycle, Base'
    PROVE  Inv'
<1>1. frames = <<>> /\ NoUser /\ pc = "dropped" /\ tenant \in 1..Tenants
  BY Idling DEF Recycle, Inv, Base, Nested, InScope, Typed
<1>2. UNCHANGED <<tenant, frames, opened, tasks, levels, committed, outcome, raced>>
  BY DEF Recycle, serverVars, history
<1>3. CASE known
  <2>1. UNCHANGED <<queue, conn>> /\ pc' = "return"
    BY <1>3 DEF Recycle
  <2> QED
    BY <1>1, <1>2, <2>1, HandOverInv
<1>4. CASE ~known
  <2> DEFINE d == Cmd("ROLLBACK", Tx(tenant), tenant, "user")
  <2>1. d \in Commands /\ d.by = "user" /\ d.tenant = tenant /\ d.op = "ROLLBACK"
    BY <1>1, TxTyped, CommandTyped DEF Cmd
  <2>2. Send(d) /\ pc' = "recycle" /\ UNCHANGED conn
    BY <1>4 DEF Recycle, Call
  <2> HIDE DEF d
  <2>3. PICK c \in Commands : c = d
    BY <2>1
  <2>4. Queued(c) /\ (Grown(c) => conn = "alive") /\ (conn = "alive" => reply' = "none")
    BY <2>2, <2>3, SendQueued DEF Inv
  <2>5. \A T \in 1..Tenants : Prior(T)' => Prior(T)
    BY <1>2, <2>2 DEF Prior, Starting
  <2>6. conn = "alive" => Awaited(c)'
    BY <1>2, <2>1, <2>2, <2>3, <2>4 DEF Awaited
  <2>7. Untouched' /\ Asked' /\ Sheltered' /\ OwnWrites' /\ Justified' /\ Final'
    BY <1>1, <1>2, <2>1, <2>2, <2>3, <2>4, <2>5, <2>6, OpenInv
  <2>8. Fresh'
    <3>1. \A s \in Scopes : s.tenant \in 1..Tenants
      BY DEF Scopes
    <3>2. \A s \in Scopes : Unopened(s)' => Unopened(s)
      BY <3>1, <1>2, <2>5 DEF Unopened
    <3> QED
      BY <1>2, <3>2 DEF Inv, Fresh
  <2>9. Unended' /\ Waiting' /\ Owns' /\ Synced'
    BY <1>1, <1>2 DEF Unended, Waiting, Owns, Synced, Alone
  <2> QED
    BY <2>7, <2>8, <2>9 DEF Inv
<1> QED
  BY <1>3, <1>4 DEF Inv, Base, Typed

LEMMA DieInv ==
    ASSUME Inv, Die, Base'
    PROVE  Inv'
<1>1. /\ UNCHANGED <<tenant, pc, frames, opened, tasks, committed, outcome, raced>>
      /\ conn = "alive" /\ conn' = "dead" /\ queue' = <<>> /\ levels' = <<>>
      /\ reply' = reply \/ (reply = "none" /\ reply' = "err")
  BY DEF Die, callVars, history
<1>2. 1..Len(queue') = {} /\ 1..Len(levels') = {}
  BY <1>1, EmptySeqFacts
<1>3. \A T \in 1..Tenants : Prior(T)' => Prior(T)
  BY <1>1 DEF Prior, Starting
<1>4. Untouched'
  <2>1. Owner' = 0 /\ 0 \notin 1..Tenants
    BY <1>1 DEF Owner
  <2> QED
    BY <1>1, <1>2, <1>3, <2>1 DEF Inv, Untouched
<1>5. Fresh'
  <2>1. \A s \in Scopes : s.tenant \in 1..Tenants
    BY DEF Scopes
  <2>2. \A s \in Scopes : Unopened(s)' => Unopened(s)
    BY <2>1, <1>1, <1>3 DEF Unopened
  <2> QED
    BY <1>1, <2>2 DEF Inv, Fresh
<1>6. Asked' /\ Sheltered' /\ OwnWrites' /\ Justified'
  <2>1. Members(queue)' = {}
    BY <1>2 DEF Members
  <2> QED
    BY <1>2, <2>1 DEF Asked, Sheltered, OwnWrites, Justified
<1>7. Unended'
  BY <1>1, <1>2 DEF Inv, Unended
<1>8. Waiting' /\ Owns' /\ Synced'
  BY <1>1 DEF Waiting, Owns, Synced, Alone
<1>9. Final'
  <2>1. \A s \in Scopes : Finishing(s) => Finishing(s)'
    BY <1>1 DEF Finishing
  <2> QED
    BY <1>1, <2>1, FinalKept DEF Inv, Base, Typed
<1> QED
  BY <1>4, <1>5, <1>6, <1>7, <1>8, <1>9 DEF Inv

-----------------------------------------------------------------------------
(* The server executes a command *)

(* A statement joins the innermost level.                                   *)
Joined(ls, w) ==
    /\ ls \in Seq(LevelSet) /\ Len(ls) = Len(levels)
    /\ \A i \in 1..Len(levels) :
          /\ ls[i].scope = levels[i].scope
          /\ ls[i].writes = IF i = Len(levels) THEN levels[i].writes \cup {w} ELSE levels[i].writes

(* The answers, by what they do to the levels.                              *)
Still(c, x) ==
    /\ x.levels = levels /\ x.new = {} /\ c.op # "ROLLBACK"
    /\ x.reply = "ok" => c.op \in {"BEGIN", "COMMIT"}
    /\ c.op = "COMMIT" => levels = <<>>
    /\ c.op = "BEGIN" => levels # <<>>
Opens(c, x) ==
    c.op = "BEGIN" /\ levels = <<>> /\ x.levels = <<Level(c.arg, {})>> /\ x.new = {} /\ x.reply = "ok"
Closes(c, x) ==
    /\ Ends(c) /\ x.levels = <<>>
    /\ x.new = {} \/ (c.op = "COMMIT" /\ x.reply = "ok" /\ x.new = AllWrites)
Deepens(c, x) ==
    /\ c.op = "SAVEPOINT" /\ levels # <<>> /\ x.levels = Append(levels, Level(c.arg, {}))
    /\ x.new = {} /\ x.reply = "ok"
Releases(c, x) ==
    /\ c.op = "RELEASE" /\ x.new = {} /\ x.reply = "ok"
    /\ \E i \in Index(c.arg) : x.levels = Merged(i)
Restores(c, x) ==
    /\ c.op = "ROLLBACK_TO" /\ x.new = {} /\ x.reply = "ok"
    /\ \E i \in Index(c.arg) : x.levels = Restored(i, c.arg)
Joins(c, x) == c.op = "WRITE" /\ levels # <<>> /\ Joined(x.levels, c.arg) /\ x.new = {} /\ x.reply = "ok"
Autocommits(c, x) ==
    c.op = "WRITE" /\ levels = <<>> /\ x.levels = <<>> /\ x.new = {c.arg} /\ x.reply = "ok"
Form(c, x) ==
    \/ Still(c, x) \/ Opens(c, x) \/ Closes(c, x) \/ Deepens(c, x) \/ Releases(c, x) \/ Restores(c, x)
    \/ Joins(c, x) \/ Autocommits(c, x)

LEMMA ExecutionForms ==
    ASSUME Base, NEW c \in Commands, NEW x \in Executions(c)
    PROVE  Form(c, x)
<1>1. c.op \in Ops /\ Proper(c)
  BY DEF Commands
<1>2. Len(levels) \in Nat /\ levels \in Seq(LevelSet) /\ (Len(levels) = 0 <=> levels = <<>>)
  BY LevelsTyped
<1>3. failed => levels # <<>>
  BY DEF Base, Stacked
<1>4. CASE c.op = "BEGIN"
  <2>1. CASE failed \/ Len(levels) > 0
    <3>1. x = Refused \/ x = Noted
      BY <1>4, <2>1 DEF Executions
    <3>2. levels # <<>>
      BY <1>2, <1>3, <2>1
    <3> QED
      BY <1>4, <3>1, <3>2 DEF Form, Still, Refused, Noted, Outcome
  <2>2. CASE ~failed /\ ~(Len(levels) > 0)
    <3>1. x = Outcome("ok", <<Level(c.arg, {})>>, FALSE, {})
      BY <1>4, <2>2 DEF Executions
    <3>2. levels = <<>>
      BY <1>2, <2>2
    <3> QED
      BY <1>4, <3>1, <3>2 DEF Form, Opens, Outcome
  <2> QED
    BY <2>1, <2>2 DEF Base, Typed
<1>5. CASE c.op = "COMMIT"
  <2>1. CASE Len(levels) = 0
    <3>1. x = Noted /\ levels = <<>>
      BY <1>2, <1>5, <2>1 DEF Executions
    <3> QED
      BY <1>5, <3>1 DEF Form, Still, Noted, Outcome
  <2>2. CASE Len(levels) # 0
    <3>1. \/ x = Outcome("ok", <<>>, FALSE, {}) \/ x = Outcome("ok", <<>>, FALSE, AllWrites)
          \/ x = Outcome("err", <<>>, FALSE, {})
      BY <1>5, <2>2 DEF Executions
    <3> QED
      BY <1>5, <3>1 DEF Form, Closes, Outcome, Ends
  <2> QED
    BY <2>1, <2>2
<1>6. CASE c.op = "ROLLBACK"
  <2>1. x = Outcome("ok", <<>>, FALSE, {})
    BY <1>6 DEF Executions
  <2> QED
    BY <1>6, <2>1 DEF Form, Closes, Outcome, Ends
<1>7. ASSUME x = Refused, c.op \in {"SAVEPOINT", "RELEASE", "ROLLBACK_TO", "WRITE"} PROVE Form(c, x)
  BY <1>7 DEF Form, Still, Refused, Outcome
<1>8. CASE c.op = "SAVEPOINT"
  <2>1. x = Refused \/ (x = Outcome("ok", Append(levels, Level(c.arg, {})), FALSE, {}) /\ levels # <<>>)
    BY <1>2, <1>8 DEF Executions
  <2> QED
    BY <1>7, <1>8, <2>1 DEF Form, Deepens, Outcome
<1>9. CASE c.op = "RELEASE"
  <2>1. x = Refused \/ \E i \in Index(c.arg) : x = Outcome("ok", Merged(i), FALSE, {})
    BY <1>9 DEF Executions, Merged
  <2>2. ASSUME NEW i \in Index(c.arg), x = Outcome("ok", Merged(i), FALSE, {}) PROVE Form(c, x)
    BY <1>9, <2>2 DEF Form, Releases, Outcome
  <2> QED
    BY <1>7, <1>9, <2>1, <2>2
<1>10. CASE c.op = "ROLLBACK_TO"
  <2>1. x = Refused \/ \E i \in Index(c.arg) : x = Outcome("ok", Restored(i, c.arg), FALSE, {})
    BY <1>10 DEF Executions, Restored
  <2>2. ASSUME NEW i \in Index(c.arg), x = Outcome("ok", Restored(i, c.arg), FALSE, {}) PROVE Form(c, x)
    BY <1>10, <2>2 DEF Form, Restores, Outcome
  <2> QED
    BY <1>7, <1>10, <2>1, <2>2
<1>11. CASE c.op = "WRITE"
  <2> DEFINE deep == Len(levels)
             m == [levels EXCEPT ![deep].writes = @ \cup {c.arg}]
  <2>1. \/ x = Refused \/ (x = Outcome("ok", <<>>, FALSE, {c.arg}) /\ levels = <<>>)
        \/ (x = Outcome("ok", m, FALSE, {}) /\ levels # <<>>)
    BY <1>2, <1>11 DEF Executions
  <2>2. ASSUME x = Outcome("ok", m, FALSE, {}), levels # <<>> PROVE Form(c, x)
    <3>1. x.levels = m /\ x.new = {} /\ x.reply = "ok"
      BY <2>2 DEF Outcome
    <3>2. Joined(m, c.arg)
      <4>1. deep \in 1..Len(levels) /\ levels[deep] \in LevelSet /\ c.arg \in Writes
        BY <1>1, <1>2, <1>11, <2>2 DEF Proper
      <4> DEFINE l == [levels[deep] EXCEPT !.writes = @ \cup {c.arg}]
      <4>2. l \in LevelSet /\ l.scope = levels[deep].scope /\ l.writes = levels[deep].writes \cup {c.arg}
        BY <4>1 DEF LevelSet
      <4>4. m = [levels EXCEPT ![deep] = l]
        BY <4>1
      <4> HIDE DEF l, m
      <4>5. m \in Seq(LevelSet) /\ Len(m) = Len(levels)
            /\ \A j \in 1..Len(levels) : m[j] = IF j = deep THEN l ELSE levels[j]
        BY <1>2, <4>1, <4>2, <4>4
      <4> QED
        BY <4>2, <4>5 DEF Joined
    <3> QED
      BY <1>11, <2>2, <3>1, <3>2 DEF Form, Joins
  <2>3. ASSUME x = Outcome("ok", <<>>, FALSE, {c.arg}), levels = <<>> PROVE Form(c, x)
    BY <1>11, <2>3 DEF Form, Autocommits, Outcome
  <2> QED
    BY <1>7, <1>11, <2>1, <2>2, <2>3
<1> QED
  BY <1>1, <1>4, <1>5, <1>6, <1>8, <1>9, <1>10, <1>11 DEF Ops

(* The command at the head of the queue is taken off.                       *)
Shifted(c) ==
    /\ queue # <<>> /\ 1 \in 1..Len(queue) /\ queue[1] = c
    /\ Len(queue) \in Nat /\ Len(queue') = Len(queue) - 1
    /\ \A i \in 1..Len(queue') : i + 1 \in 1..Len(queue) /\ queue'[i] = queue[i + 1]

(* It is executed with the answer x.                                        *)
Run(c, x) ==
    /\ c \in Commands /\ Form(c, x) /\ x.reply \in {"ok", "err"} /\ conn # "dead"
    /\ Shifted(c)
    /\ UNCHANGED <<tenant, pc, frames, opened, tasks, conn, outcome>>
    /\ levels' = x.levels /\ committed' = committed \cup x.new
    /\ reply' = IF c.by = "user" THEN x.reply ELSE reply
    /\ raced' = raced \cup Races(c)

(* What the histories keep of it.                                           *)
Recorded(c, x) ==
    /\ acked' = IF c.op = "WRITE" /\ x.reply = "ok" THEN acked \cup {c.arg} ELSE acked
    /\ hollow' = IF c.op = "COMMIT" /\ failed THEN hollow \cup {Owner} ELSE hollow
    /\ c.op = "COMMIT" /\ x.reply = "ok" /\ levels # <<>> => failed \/ x.new = AllWrites

LEMMA ExecuteRuns ==
    ASSUME Base, Execute
    PROVE  \E c \in Commands : \E x : Run(c, x) /\ Recorded(c, x)
<1> DEFINE h == Head(queue)
<1>1. h \in Commands /\ \E x \in Executions(h) : Executed(h, x)
  BY ExecuteBase
<1>2. /\ queue \in Seq(Commands) /\ queue # <<>> /\ queue' = Tail(queue) /\ conn # "dead"
      /\ UNCHANGED <<tenant, pc, frames, opened, tasks, conn, outcome>>
  BY DEF Execute, Base, Typed, callVars
<1> HIDE DEF h
<1>3. PICK c \in Commands : c = h
  BY <1>1
<1>4. PICK x \in Executions(c) : Executed(c, x)
  BY <1>1, <1>3
<1>5. Len(queue') = Len(queue) - 1 /\ Len(queue) >= 1 /\ Len(queue) \in Nat /\ queue[1] = c
      /\ \A i \in 1..Len(queue') : queue'[i] = queue[i + 1]
  BY <1>2, <1>3, TailFacts DEF h
<1>6. 1 \in 1..Len(queue) /\ \A i \in 1..Len(queue') : i + 1 \in 1..Len(queue)
  BY <1>5
<1>7. Shifted(c)
  BY <1>2, <1>5, <1>6 DEF Shifted
<1>8. Form(c, x) /\ x.reply \in {"ok", "err"}
  BY SoundExecutions, ExecutionForms DEF Sound
<1>9. Run(c, x)
  BY <1>2, <1>4, <1>7, <1>8 DEF Run, Executed
<1>10. ASSUME c.op = "COMMIT", x.reply = "ok", levels # <<>>, ~failed PROVE x.new = AllWrites
  <2>1. Len(levels) # 0
    BY <1>10, LevelsTyped
  <2>2. x = Outcome("ok", <<>>, FALSE, AllWrites) \/ x = Outcome("err", <<>>, FALSE, {})
    BY <1>10, <2>1 DEF Executions
  <2> QED
    BY <1>10, <2>2 DEF Outcome
<1>11. Recorded(c, x)
  BY <1>4, <1>10 DEF Recorded, Executed
<1> QED
  BY <1>9, <1>11

(* Who is not in a race with c.                                             *)
Fair(c) ==
    /\ raced \subseteq raced'
    /\ frames # <<>> /\ tenant \notin raced' => tasks = {} /\ c.by # "orphan"
    /\ c.tenant \notin raced' => Owner \in {0, c.tenant}
    /\ Owner # 0 /\ Owner \notin raced' =>
          /\ c.tenant = Owner /\ c.by # "stream"
          /\ c.op = "COMMIT" => conn # "discarded" /\ \A t \in tasks : ~(t.scope.n > 1)

LEMMA RunFair ==
    ASSUME NEW c, NEW x, Run(c, x)
    PROVE  Fair(c)
<1>1. raced' = raced \cup Races(c)
  BY DEF Run
<1>2. \A T : T \notin raced' => T \notin Races(c)
  BY <1>1
<1>3. frames # <<>> /\ tenant \notin Races(c) => tasks = {} /\ c.by # "orphan"
  BY DEF Races
<1>4. c.tenant \notin Races(c) => Owner \in {0, c.tenant}
  BY DEF Races
<1>5. ASSUME Owner # 0, Owner \notin Races(c)
      PROVE  /\ c.tenant = Owner /\ c.by # "stream"
             /\ c.op = "COMMIT" => conn # "discarded" /\ \A t \in tasks : ~(t.scope.n > 1)
  <2>1. Owner \in {0, c.tenant}
    BY <1>5 DEF Races
  <2>2. ~(c.by = "stream" \/ (c.op = "COMMIT" /\ (conn = "discarded" \/ \E t \in tasks : t.scope.n > 1)))
    BY <1>5 DEF Races
  <2> QED
    BY <1>5, <2>1, <2>2
<1> QED
  BY <1>1, <1>2, <1>3, <1>4, <1>5, Zenon DEF Fair

(* Whose transaction is open after c.                                       *)
Passes(c) ==
    /\ Ends(c) => levels' = <<>>
    /\ ~Ends(c) /\ levels # <<>> => levels' # <<>> /\ Owner' = Owner
    /\ levels = <<>> /\ c.op = "BEGIN" => levels' # <<>> /\ Owner' = c.tenant
    /\ levels = <<>> /\ c.op # "BEGIN" => levels' = <<>>

LEMMA RunPasses ==
    ASSUME Base, NEW c, NEW x, Run(c, x)
    PROVE  Passes(c)
<1>1. Form(c, x) /\ levels' = x.levels /\ c \in Commands /\ Proper(c)
  BY DEF Run, Commands
<1>2. levels \in Seq(LevelSet) /\ Len(levels) \in Nat /\ Len(<<>>) = 0
  BY LevelsTyped, EmptySeqFacts
<1>3. CASE Still(c, x)
  <2>1. levels' = levels /\ Owner' = Owner
    BY <1>1, <1>3 DEF Still, Owner
  <2> QED
    BY <1>3, <2>1 DEF Still, Passes, Ends
<1>4. CASE Opens(c, x)
  <2>1. levels' = <<Level(c.arg, {})>> /\ c.arg.tenant = c.tenant
    BY <1>1, <1>4 DEF Opens, Proper
  <2>2. levels' # <<>> /\ levels'[1].scope.tenant = c.tenant
    BY <2>1 DEF Level
  <2>3. Owner' = c.tenant
    BY <2>2 DEF Owner
  <2> QED
    BY <1>4, <2>2, <2>3 DEF Opens, Passes, Ends
<1>5. CASE Closes(c, x)
  BY <1>1, <1>5 DEF Closes, Passes, Ends
<1>6. CASE Deepens(c, x)
  <2>1. c.arg \in Scopes /\ levels # <<>>
    BY <1>1, <1>6 DEF Deepens, Proper
  <2>2. Level(c.arg, {}) \in LevelSet
    BY <2>1 DEF Level, LevelSet
  <2>3. Len(levels') = Len(levels) + 1 /\ \A i \in 1..Len(levels) : levels'[i] = levels[i]
    BY <1>1, <1>2, <1>6, <2>2, AppendFacts DEF Deepens
  <2>4. 1 \in 1..Len(levels) /\ levels' # <<>>
    BY <1>2, <2>1, <2>3
  <2>5. Owner' = Owner
    BY <2>1, <2>3, <2>4 DEF Owner
  <2> QED
    BY <1>6, <2>1, <2>4, <2>5 DEF Deepens, Passes, Ends
<1>7. CASE Releases(c, x)
  <2>1. c.arg \in Scopes /\ c.arg.n > 1
    BY <1>1, <1>7 DEF Releases, Proper
  <2>2. PICK i \in Index(c.arg) : levels' = Merged(i)
    BY <1>1, <1>7 DEF Releases
  <2>3. i \in 2..Len(levels) /\ Len(levels') = i - 1 /\ (\A j \in 1..(i - 2) : levels'[j] = levels[j])
    BY <2>1, <2>2, IndexFacts, MergedFacts
  <2>4. levels'[i - 1].scope = levels[i - 1].scope
    <3>1. levels'[i - 1] = Level(levels[i - 1].scope, UNION {levels[j].writes : j \in (i - 1)..Len(levels)})
      BY <2>1, <2>2, MergedFacts
    <3> QED
      BY <3>1 DEF Level
  <2>5. levels # <<>> /\ levels' # <<>>
    BY <1>2, <2>3
  <2>6. levels'[1].scope = levels[1].scope
    <3>1. i = 2 \/ 1 \in 1..(i - 2)
      BY <1>2, <2>3
    <3> QED
      BY <2>3, <2>4, <3>1
  <2>7. Owner' = Owner
    BY <2>5, <2>6 DEF Owner
  <2> QED
    BY <1>7, <2>5, <2>7 DEF Releases, Passes, Ends
<1>8. CASE Restores(c, x)
  <2>1. c.arg \in Scopes /\ c.arg.n > 1
    BY <1>1, <1>8 DEF Restores, Proper
  <2>2. PICK i \in Index(c.arg) : levels' = Restored(i, c.arg)
    BY <1>1, <1>8 DEF Restores
  <2>3. i \in 2..Len(levels) /\ Len(levels') = i /\ (\A j \in 1..(i - 1) : levels'[j] = levels[j])
    BY <2>1, <2>2, IndexFacts, RestoredFacts
  <2>4. levels # <<>> /\ levels' # <<>> /\ 1 \in 1..(i - 1)
    BY <1>2, <2>3
  <2>5. Owner' = Owner
    BY <2>3, <2>4 DEF Owner
  <2> QED
    BY <1>8, <2>4, <2>5 DEF Restores, Passes, Ends
<1>9. CASE Joins(c, x)
  <2>1. levels # <<>> /\ Joined(levels', c.arg)
    BY <1>1, <1>9 DEF Joins
  <2>2. 1 \in 1..Len(levels) /\ Len(levels') = Len(levels) /\ levels' \in Seq(LevelSet)
    BY <1>2, <2>1 DEF Joined
  <2>3. levels' # <<>>
    BY <1>2, <2>2
  <2>4. levels'[1].scope = levels[1].scope
    BY <2>1, <2>2 DEF Joined
  <2>5. Owner' = Owner
    BY <2>1, <2>3, <2>4 DEF Owner
  <2> QED
    BY <1>9, <2>3, <2>5 DEF Joins, Passes, Ends
<1>10. CASE Autocommits(c, x)
  BY <1>1, <1>10 DEF Autocommits, Passes, Ends
<1> QED
  BY <1>1, <1>3, <1>4, <1>5, <1>6, <1>7, <1>8, <1>9, <1>10 DEF Form

(* What the levels hold after c, and what c makes permanent.                *)
Held(w) == \E i \in 1..Len(levels) : w \in levels[i].writes
Carries(c, x) ==
    /\ \A w : Held(w)' => Held(w) \/ (c.op = "WRITE" /\ w = c.arg /\ levels # <<>>)
    /\ \A w \in x.new : \/ c.op = "COMMIT" /\ x.reply = "ok" /\ Held(w)
                        \/ c.op = "WRITE" /\ w = c.arg /\ levels = <<>>

LEMMA RunCarries ==
    ASSUME Base, NEW c, NEW x, Run(c, x)
    PROVE  Carries(c, x)
<1>1. Form(c, x) /\ levels' = x.levels /\ c \in Commands /\ Proper(c)
  BY DEF Run, Commands
<1>2. levels \in Seq(LevelSet) /\ Len(levels) \in Nat
  BY LevelsTyped
<1>3. CASE Still(c, x)
  BY <1>1, <1>3 DEF Still, Carries, Held
<1>4. CASE Opens(c, x)
  <2>1. Len(levels') = 1 /\ levels'[1].writes = {}
    BY <1>1, <1>4 DEF Opens, Level
  <2>2. \A w : ~Held(w)'
    BY <2>1 DEF Held
  <2> QED
    BY <1>4, <2>2 DEF Opens, Carries
<1>5. CASE Closes(c, x)
  <2>1. 1..Len(levels') = {}
    BY <1>1, <1>5, EmptySeqFacts DEF Closes
  <2>2. \A w \in AllWrites : Held(w)
    BY DEF AllWrites, Held
  <2>3. \A w : ~Held(w)'
    BY <2>1 DEF Held
  <2> QED
    BY <1>5, <2>2, <2>3 DEF Closes, Carries
<1>6. CASE Deepens(c, x)
  <2>1. c.arg \in Scopes /\ levels # <<>>
    BY <1>1, <1>6 DEF Deepens, Proper
  <2>2. Level(c.arg, {}) \in LevelSet /\ Level(c.arg, {}).writes = {}
    BY <2>1 DEF Level, LevelSet
  <2>3. Len(levels') = Len(levels) + 1 /\ (\A i \in 1..Len(levels) : levels'[i] = levels[i])
        /\ levels'[Len(levels) + 1] = Level(c.arg, {})
    BY <1>1, <1>2, <1>6, <2>2, AppendFacts DEF Deepens
  <2>4. \A i \in 1..Len(levels') : i \in 1..Len(levels) \/ levels'[i].writes = {}
    BY <1>2, <2>2, <2>3
  <2>5. \A w : Held(w)' => Held(w)
    BY <2>3, <2>4 DEF Held
  <2> QED
    BY <1>6, <2>5 DEF Deepens, Carries
<1>7. CASE Releases(c, x)
  <2>1. c.arg \in Scopes /\ c.arg.n > 1
    BY <1>1, <1>7 DEF Releases, Proper
  <2>2. PICK i \in Index(c.arg) : levels' = Merged(i)
    BY <1>1, <1>7 DEF Releases
  <2>3. i \in 2..Len(levels) /\ Len(levels') = i - 1 /\ (\A j \in 1..(i - 2) : levels'[j] = levels[j])
    BY <2>1, <2>2, IndexFacts, MergedFacts
  <2>4. levels'[i - 1].writes = UNION {levels[j].writes : j \in (i - 1)..Len(levels)}
    <3>1. levels'[i - 1] = Level(levels[i - 1].scope, UNION {levels[j].writes : j \in (i - 1)..Len(levels)})
      BY <2>1, <2>2, MergedFacts
    <3> QED
      BY <3>1 DEF Level
  <2>5. ASSUME NEW w, NEW k \in 1..Len(levels'), w \in levels'[k].writes PROVE Held(w)
    <3>1. CASE k \in 1..(i - 2)
      <4>1. k \in 1..Len(levels)
        BY <1>2, <2>3, <3>1
      <4> QED
        BY <2>3, <2>5, <3>1, <4>1 DEF Held
    <3>2. CASE k = i - 1
      <4>1. PICK j \in (i - 1)..Len(levels) : w \in levels[j].writes
        BY <2>4, <2>5, <3>2
      <4>2. j \in 1..Len(levels)
        BY <1>2, <2>3
      <4> QED
        BY <4>1, <4>2 DEF Held
    <3> QED
      BY <1>2, <2>3, <3>1, <3>2
  <2>6. \A w : Held(w)' => Held(w)
    BY <2>5 DEF Held
  <2> QED
    BY <1>7, <2>6 DEF Releases, Carries
<1>8. CASE Restores(c, x)
  <2>1. c.arg \in Scopes /\ c.arg.n > 1
    BY <1>1, <1>8 DEF Restores, Proper
  <2>2. PICK i \in Index(c.arg) : levels' = Restored(i, c.arg)
    BY <1>1, <1>8 DEF Restores
  <2>3. i \in 2..Len(levels) /\ Len(levels') = i /\ (\A j \in 1..(i - 1) : levels'[j] = levels[j])
    BY <2>1, <2>2, IndexFacts, RestoredFacts
  <2>4. levels'[i].writes = {}
    <3>1. levels'[i] = Level(c.arg, {})
      BY <2>1, <2>2, RestoredFacts
    <3> QED
      BY <3>1 DEF Level
  <2>5. \A k \in 1..Len(levels') : (k \in 1..Len(levels) /\ levels'[k] = levels[k]) \/ levels'[k].writes = {}
    BY <1>2, <2>3, <2>4
  <2>6. \A w : Held(w)' => Held(w)
    BY <2>5 DEF Held
  <2> QED
    BY <1>8, <2>6 DEF Restores, Carries
<1>9. CASE Joins(c, x)
  <2>1. levels # <<>> /\ Joined(levels', c.arg) /\ c.op = "WRITE" /\ x.new = {}
    BY <1>1, <1>9 DEF Joins
  <2>2. \A k \in 1..Len(levels') : k \in 1..Len(levels) /\ levels'[k].writes \subseteq levels[k].writes \cup {c.arg}
    BY <2>1 DEF Joined
  <2>3. \A w : Held(w)' => Held(w) \/ w = c.arg
    BY <2>2 DEF Held
  <2> QED
    BY <2>1, <2>3 DEF Carries
<1>10. CASE Autocommits(c, x)
  <2>1. \A w : ~Held(w)'
    BY <1>1, <1>10, EmptySeqFacts DEF Autocommits, Held
  <2> QED
    BY <1>10, <2>1 DEF Autocommits, Carries
<1> QED
  BY <1>1, <1>3, <1>4, <1>5, <1>6, <1>7, <1>8, <1>9, <1>10 DEF Form

(* A tenant that is alone after c was alone before it, and waited for c.    *)
LEMMA AloneWaits ==
    ASSUME Inv, NEW c, NEW x, Run(c, x), Alone'
    PROVE  /\ Alone /\ tasks = {} /\ c.by = "user" /\ Awaited(c) /\ reply = "none"
           /\ c.tenant = tenant /\ reply' = x.reply /\ tenant \notin raced'
<1>1. Fair(c) /\ UNCHANGED <<tenant, frames, tasks, conn>> /\ Shifted(c) /\ c \in Commands
  BY RunFair DEF Run
<1>2. Alone /\ tenant \notin raced'
  BY <1>1 DEF Alone, Fair
<1>3. tasks = {} /\ c.by # "orphan"
  BY <1>1, <1>2 DEF Fair, Alone
<1>4. c.by \notin Leftovers
  BY <1>1, <1>2, <1>3 DEF Inv, Asked, Alone, Shifted
<1>5. c.by = "user"
  BY <1>1, <1>3, <1>4 DEF Commands
<1>6. Awaited(c)
  BY <1>1, <1>5 DEF Shifted, Inv, Asked, Members
<1> QED
  BY <1>2, <1>3, <1>5, <1>6 DEF Awaited, Run

LEMMA UserWaits ==
    ASSUME Inv, NEW c, NEW x, Run(c, x), c.by = "user"
    PROVE  Awaited(c) /\ reply = "none" /\ c.tenant = tenant /\ reply' = x.reply
<1>1. Shifted(c)
  BY DEF Run
<1>2. Awaited(c)
  BY <1>1 DEF Shifted, Inv, Asked, Members
<1> QED
  BY <1>2 DEF Awaited, Run

LEMMA ExecutedPrior ==
    ASSUME Inv, NEW c, NEW x, Run(c, x), NEW T, Prior(T)'
    PROVE  Prior(T)
<1>1. UNCHANGED <<tenant, pc, frames, conn>>
  BY DEF Run
<1>2. reply = "ok" => reply' = "ok"
  BY UserWaits DEF Run
<1> QED
  BY <1>1, <1>2 DEF Prior, Starting

LEMMA ExecutedUntouched ==
    ASSUME Inv, NEW c, NEW x, Run(c, x)
    PROVE  Untouched' /\ Fresh'
<1>1. Shifted(c) /\ UNCHANGED <<tenant, pc, frames, opened, tasks, conn, outcome>> /\ levels' = x.levels
  BY DEF Run
<1>2. c.tenant \in 1..Tenants /\ Form(c, x) /\ Passes(c) /\ Base
  BY RunPasses DEF Run, Commands, Inv
<1>3. ASSUME NEW T \in 1..Tenants, Prior(T)'
      PROVE  /\ Owner' # T
             /\ \A t \in tasks' : t.scope.tenant # T
             /\ \A i \in 1..Len(queue') : queue'[i].tenant = T => queue'[i].by = "user"
  <2>1. Prior(T)
    BY <1>3, ExecutedPrior
  <2>2. \A t \in tasks' : t.scope.tenant # T
    BY <1>1, <2>1 DEF Inv, Untouched
  <2>3. \A i \in 1..Len(queue') : queue'[i].tenant = T => queue'[i].by = "user"
    BY <1>1, <2>1 DEF Inv, Untouched, Shifted
  <2>4. CASE levels' = <<>>
    <3>1. Owner' = 0 /\ T # 0
      BY <2>4 DEF Owner
    <3> QED
      BY <2>2, <2>3, <3>1
  <2>5. CASE levels # <<>> /\ levels' # <<>>
    <3>1. Owner' = Owner
      BY <1>2, <2>5 DEF Passes
    <3> QED
      BY <2>1, <2>2, <2>3, <3>1 DEF Inv, Untouched
  <2>6. CASE levels = <<>> /\ levels' # <<>>
    <3>1. c.op = "BEGIN" /\ Owner' = c.tenant
      BY <1>2, <2>6 DEF Passes
    <3>2. x.reply = "ok"
      BY <1>2, <2>6, <3>1 DEF Form, Still, Opens, Closes, Deepens, Releases, Restores, Joins, Autocommits, Ends
    <3>3. ASSUME c.tenant = T PROVE FALSE
      <4>1. c.by = "user"
        BY <1>1, <2>1, <3>3 DEF Inv, Untouched, Shifted
      <4>2. Awaited(c) /\ reply' = "ok" /\ T = tenant
        BY <3>2, <3>3, <4>1, UserWaits
      <4>3. pc' # "idle" /\ ~Starting' /\ tenant' = tenant /\ tenant \in Int
        BY <1>1, <1>2, <4>2 DEF Awaited, Starting, Base, Typed
      <4> QED
        BY <1>3, <4>2, <4>3 DEF Prior
    <3> QED
      BY <2>2, <2>3, <3>1, <3>3
  <2> QED
    BY <2>2, <2>3, <2>4, <2>5, <2>6
<1>4. Untouched'
  BY <1>3 DEF Untouched
<1>5. Fresh'
  <2>1. \A s \in Scopes : Unopened(s)' => Unopened(s)
    BY <1>1, ExecutedPrior DEF Unopened
  <2> QED
    BY <1>1, <2>1 DEF Inv, Fresh
<1> QED
  BY <1>4, <1>5

LEMMA ExecutedAsked ==
    ASSUME Inv, NEW c, NEW x, Run(c, x)
    PROVE  Asked' /\ Unended' /\ Waiting'
<1>1. Shifted(c) /\ UNCHANGED <<tenant, pc, frames, opened, tasks, conn, outcome>>
  BY DEF Run
<1>2. ASSUME NEW i \in 1..Len(queue'), queue'[i].by = "user" PROVE c.by # "user"
  <2>1. i + 1 \in 1..Len(queue) /\ queue[i + 1].by = "user" /\ queue[1] = c /\ 1 \in 1..Len(queue)
    BY <1>1, <1>2 DEF Shifted
  <2>2. c.by = "user" => i + 1 = 1
    BY <2>1 DEF Inv, Asked
  <2> QED
    BY <1>1, <2>2 DEF Shifted
<1>3. \A d \in Members(queue)' : d.by = "user" => Awaited(d)'
  <2> SUFFICES ASSUME NEW d \in Members(queue)', d.by = "user" PROVE Awaited(d)'
    OBVIOUS
  <2>1. PICK i \in 1..Len(queue') : queue'[i] = d
    BY DEF Members
  <2>2. c.by # "user" /\ d \in Members(queue)
    BY <1>1, <1>2, <2>1 DEF Members, Shifted
  <2>3. reply' = reply /\ Awaited(d)
    BY <2>2 DEF Run, Inv, Asked
  <2>4. Top' = Top /\ Members(frames)' = Members(frames)
    BY <1>1 DEF Top, Members
  <2> QED
    BY <1>1, <2>3, <2>4 DEF Awaited
<1>4. \A i, j \in 1..Len(queue') : queue'[i].by = "user" /\ queue'[j].by = "user" => i = j
  <2> SUFFICES ASSUME NEW i \in 1..Len(queue'), NEW j \in 1..Len(queue'),
                      queue'[i].by = "user", queue'[j].by = "user"
               PROVE  i = j
    OBVIOUS
  <2>1. /\ i + 1 \in 1..Len(queue) /\ queue[i + 1].by = "user"
        /\ j + 1 \in 1..Len(queue) /\ queue[j + 1].by = "user"
    BY <1>1 DEF Shifted
  <2>2. \A k, l \in 1..Len(queue) : queue[k].by = "user" /\ queue[l].by = "user" => k = l
    BY DEF Inv, Asked
  <2>3. i + 1 = j + 1
    BY <2>1, <2>2, Zenon
  <2> QED
    BY <2>3
<1>5. Asked'
  <2>1. conn' = "alive" => \A i \in 1..Len(queue') : queue'[i].by \in Leftovers =>
          \E t \in tasks' : t.kind = queue'[i].by /\ t.scope = queue'[i].arg /\ t.step > 1
    BY <1>1 DEF Shifted, Inv, Asked
  <2> QED
    BY <1>3, <1>4, <2>1 DEF Asked
<1>6. Unended'
  <2>1. frames # <<>> => \A i \in 1..Len(queue') : IsOf(queue'[i], tenant) => queue'[i].by = "user"
    BY <1>1 DEF Shifted, Inv, Unended
  <2> QED
    BY <1>1, <2>1 DEF Inv, Unended
<1>7. ASSUME Alone'
      PROVE  /\ \A t \in Cleanups(tenant)' : t.step = 1 \/ (t.step = 2 /\ Waits(t)')
             /\ (\E i \in 1..Len(queue') : queue'[i].by = "orphan" /\ queue'[i].tenant = tenant')
                    => Cleanups(tenant)' # {}
  <2>1. Alone /\ tasks = {}
    BY <1>7, AloneWaits
  <2>2. Cleanups(tenant) = {} /\ Cleanups(tenant)' = {}
    BY <1>1, <2>1 DEF Cleanups
  <2>3. ~\E i \in 1..Len(queue) : queue[i].by = "orphan" /\ queue[i].tenant = tenant
    BY <2>1, <2>2 DEF Inv, Waiting
  <2> QED
    BY <1>1, <2>2, <2>3 DEF Shifted
<1>8. Waiting'
  BY <1>7 DEF Waiting
<1> QED
  BY <1>5, <1>6, <1>8

(* BEGIN of a tenant that is alone afterwards finds the server idle.        *)
LEMMA StartsIdle ==
    ASSUME Inv, NEW c, NEW x, Run(c, x), Alone', Starting
    PROVE  levels = <<>> /\ c.op = "BEGIN" /\ c.arg = Top
<1>1. Awaited(c) /\ c.tenant = tenant /\ tenant \notin raced' /\ Fair(c) /\ Base
  BY AloneWaits, RunFair DEF Inv
<1>2. tenant \in 1..Tenants /\ frames # <<>>
  BY <1>1, TopTyped DEF Base, Starting
<1>3. Owner # tenant
  BY <1>2 DEF Inv, Untouched, Prior
<1>4. Owner = 0
  BY <1>1, <1>3 DEF Fair
<1>5. levels = <<>>
  BY <1>1, <1>4, OwnerTyped
<1> QED
  BY <1>1, <1>5 DEF Awaited, Starting

LEMMA ExecutedOwns ==
    ASSUME Inv, NEW c, NEW x, Run(c, x)
    PROVE  Owns' /\ Sheltered' /\ OwnWrites'
<1>1. /\ Shifted(c) /\ UNCHANGED <<tenant, pc, frames, opened, tasks, conn, outcome>>
      /\ Fair(c) /\ Passes(c) /\ Carries(c, x) /\ Base /\ c \in Commands /\ x.reply \in {"ok", "err"}
  BY RunFair, RunPasses, RunCarries DEF Run, Inv
<1>2. ASSUME Alone', ~Starting', ~Ended' PROVE Owner' = tenant
  <2>1. /\ Alone /\ Awaited(c) /\ reply = "none" /\ reply' = x.reply
        /\ c.tenant = tenant /\ tenant \notin raced'
    BY <1>2, AloneWaits
  <2>2. CASE Starting
    BY <1>1, <1>2, <2>1, <2>2, StartsIdle DEF Passes
  <2>3. CASE ~Starting
    <3>1. Owner = tenant
      BY <2>1, <2>3 DEF Inv, Owns, Ended
    <3>2. levels # <<>>
      BY <1>1, <2>1, <3>1, OwnerTyped, TopTyped DEF Base, Alone
    <3>3. ~Ends(c)
      <4>1. pc # "recycle"
        BY <2>1 DEF Alone, Inv, Base, Nested, InScope
      <4> QED
        BY <1>1, <1>2, <2>1, <4>1 DEF Awaited, Ended, Ends
    <3> QED
      BY <1>1, <3>1, <3>2, <3>3 DEF Passes
  <2> QED
    BY <2>2, <2>3
<1>3. Owns'
  BY <1>1, <1>2 DEF Owns
<1>4. ASSUME NEW i \in 1..Len(queue'), queue'[i].op = "WRITE", queue'[i].tenant \notin raced'
      PROVE  Owner' = queue'[i].tenant /\ \A j \in 1..(i - 1) : ~IsOf(queue'[j], queue'[i].tenant)
  <2>1. i + 1 \in 1..Len(queue) /\ queue'[i] = queue[i + 1] /\ i \in Nat
    BY <1>1 DEF Shifted
  <2>2. PICK T \in 1..Tenants : T = queue'[i].tenant
    BY <1>1, <2>1, QueuedTyped
  <2>3. T \notin raced /\ T \notin raced'
    BY <1>1, <1>4, <2>2 DEF Fair
  <2>4. Owner = T /\ \A j \in 1..((i + 1) - 1) : ~IsOf(queue[j], T)
    BY <1>4, <2>1, <2>2, <2>3 DEF Inv, Sheltered
  <2>5. ~IsOf(c, T)
    <3>1. 1 \in 1..((i + 1) - 1)
      BY <2>1
    <3> QED
      BY <1>1, <2>4, <3>1 DEF Shifted
  <2>6. c.tenant = T /\ c.by # "stream" /\ levels # <<>>
    BY <1>1, <2>3, <2>4, OwnerTyped DEF Fair
  <2>7. Owner' = T
    BY <1>1, <2>4, <2>5, <2>6 DEF IsOf, Passes
  <2>8. \A j \in 1..(i - 1) : j + 1 \in 1..((i + 1) - 1) /\ j \in 1..Len(queue')
    BY <2>1
  <2>9. \A j \in 1..(i - 1) : ~IsOf(queue'[j], T)
    BY <1>1, <2>4, <2>8 DEF Shifted
  <2> QED
    BY <2>2, <2>7, <2>9
<1>5. Sheltered'
  BY <1>4 DEF Sheltered
<1>6. ASSUME NEW i \in 1..Len(levels'), NEW w \in levels'[i].writes, w.tenant \notin raced'
      PROVE  Owner' = w.tenant
  <2>1. Held(w)' /\ levels' # <<>> /\ w.tenant \notin raced
    <3>1. 1..Len(<<>>) = {}
      BY EmptySeqFacts
    <3> QED
      BY <1>1, <1>6, <3>1 DEF Held, Fair
  <2>2. CASE Held(w)
    <3>1. Owner = w.tenant /\ levels # <<>>
      BY <2>1, <2>2, EmptySeqFacts DEF Held, Inv, OwnWrites
    <3> QED
      BY <1>1, <2>1, <3>1 DEF Passes
  <2>3. CASE c.op = "WRITE" /\ w = c.arg /\ levels # <<>>
    <3>1. w.tenant = c.tenant
      BY <1>1, <2>3 DEF Commands, Proper
    <3>2. Owner = c.tenant
      BY <1>1, <1>6, <2>3, <3>1, OwnerTyped DEF Fair
    <3> QED
      BY <1>1, <2>1, <2>3, <3>1, <3>2 DEF Passes
  <2> QED
    BY <1>1, <2>1, <2>2, <2>3 DEF Carries
<1>7. OwnWrites'
  BY <1>6 DEF OwnWrites
<1> QED
  BY <1>3, <1>5, <1>7

LEMMA ExecutedJustified ==
    ASSUME Inv, NEW c, NEW x, Run(c, x)
    PROVE  Justified'
<1>1. /\ Shifted(c) /\ UNCHANGED <<tenant, pc, frames, opened, tasks, conn, outcome>>
      /\ Fair(c) /\ Carries(c, x) /\ Base
  BY RunFair, RunCarries DEF Run, Inv
<1>2. \A w : Under(w)' => Under(w)
  <2> SUFFICES ASSUME NEW w, Under(w)' PROVE Under(w)
    OBVIOUS
  <2>1. CASE Held(w)'
    BY <1>1, <2>1 DEF Carries, Held, Under, Shifted
  <2>2. CASE \E i \in 1..Len(queue') : queue'[i].op = "WRITE" /\ queue'[i].arg = w
    BY <1>1, <2>2 DEF Under, Shifted
  <2> QED
    BY <2>1, <2>2 DEF Under, Held
<1>3. \A T : AllGood(T) => AllGood(T)'
  BY <1>1, <1>2 DEF AllGood, Good
<1>4. ASSUME NEW i \in 1..Len(queue'), NEW T \in 1..Tenants, Commits(i, T)'
      PROVE  /\ conn' = "alive" => WillRace(i, T)' \/ AllGood(T)'
             /\ queue'[i].by = "orphan" => outcome'[Tx(T)] = "unknown"
  <2>1. i + 1 \in 1..Len(queue) /\ queue'[i] = queue[i + 1] /\ i \in Nat
    BY <1>1 DEF Shifted
  <2>2. Commits(i + 1, T)
    BY <1>1, <1>4, <2>1 DEF Commits, Fair
  <2>3. /\ conn = "alive" => WillRace(i + 1, T) \/ AllGood(T)
        /\ queue[i + 1].by = "orphan" => outcome[Tx(T)] = "unknown"
    BY <2>1, <2>2 DEF Inv, Justified
  <2>4. ASSUME WillRace(i + 1, T) PROVE WillRace(i, T)'
    <3>1. PICK t \in Cleanups(T) : t.step <= 2 \/ Behind(i + 1, t)
      BY <2>4 DEF WillRace
    <3>2. t \in Cleanups(T)'
      BY <1>1 DEF Cleanups
    <3>3. Behind(i + 1, t) => Behind(i, t)'
      <4> SUFFICES ASSUME NEW j \in ((i + 1) + 1)..Len(queue), queue[j].op = "RELEASE",
                          queue[j].by = "cleanup", queue[j].arg = t.scope
                   PROVE  Behind(i, t)'
        BY DEF Behind
      <4>1. j - 1 \in (i + 1)..Len(queue') /\ j - 1 \in 1..Len(queue') /\ (j - 1) + 1 = j
        BY <1>1, <2>1 DEF Shifted
      <4>2. queue'[j - 1] = queue[j]
        BY <1>1, <4>1 DEF Shifted
      <4> QED
        BY <4>1, <4>2 DEF Behind
    <3> QED
      BY <3>1, <3>2, <3>3 DEF WillRace
  <2> QED
    BY <1>1, <1>3, <2>1, <2>3, <2>4
<1> QED
  BY <1>4 DEF Justified

LEMMA ExecutedFinal ==
    ASSUME Inv, NEW c, NEW x, Run(c, x)
    PROVE  Final'
<1>1. /\ Shifted(c) /\ UNCHANGED <<tenant, pc, frames, opened, tasks, conn, outcome>>
      /\ committed' = committed \cup x.new /\ Form(c, x)
      /\ Fair(c) /\ Carries(c, x) /\ Base /\ c \in Commands /\ Proper(c) /\ conn # "dead"
  BY RunFair, RunCarries DEF Run, Inv, Commands
<1> SUFFICES ASSUME NEW w \in committed', w.tenant \notin raced', NEW s \in w.in
             PROVE  outcome'[s] \in {"ok", "unknown"} \/ (s = Tx(w.tenant) /\ Finishing(s)')
  BY DEF Final
<1>2. w.tenant \notin raced
  BY <1>1 DEF Fair
<1>3. CASE w \in committed
  <2>1. outcome[s] \in {"ok", "unknown"} \/ (s = Tx(w.tenant) /\ Finishing(s))
    BY <1>2, <1>3 DEF Inv, Final
  <2>2. Finishing(s) => Finishing(s)'
    <3>1. reply = "ok" => reply' = "ok"
      BY UserWaits DEF Run
    <3> QED
      BY <1>1, <3>1 DEF Finishing
  <2> QED
    BY <1>1, <2>1, <2>2
<1>4. CASE w \in x.new /\ c.op = "COMMIT" /\ x.reply = "ok" /\ Held(w)
  <2>1. Owner = w.tenant /\ levels # <<>>
    BY <1>2, <1>4, EmptySeqFacts DEF Held, Inv, OwnWrites
  <2>2. Owner \in 1..Tenants
    BY <1>1, <2>1, OwnerTyped
  <2>3. PICK T \in 1..Tenants : T = Owner
    BY <2>2
  <2>4. c.tenant = T /\ c.by # "stream" /\ conn # "discarded" /\ \A t \in tasks : ~(t.scope.n > 1)
    <3>1. Owner # 0 /\ Owner \notin raced'
      BY <2>1, <2>2
    <3> QED
      BY <1>1, <1>4, <2>3, <3>1 DEF Fair
  <2>5. conn = "alive" /\ Commits(1, T) /\ 1 \in 1..Len(queue)
    BY <1>1, <1>2, <1>4, <2>1, <2>3, <2>4 DEF Base, Typed, Commits, Shifted
  <2>6. WillRace(1, T) \/ AllGood(T)
    BY <2>5 DEF Inv, Justified
  <2>7. ~WillRace(1, T)
    BY <2>4 DEF WillRace, Cleanups
  <2>8. w \in Writes /\ Under(w)
    <3>1. w \in AllWrites
      BY <1>4 DEF Held, AllWrites
    <3> QED
      BY <1>1, <1>4, <3>1, AllWritesTyped DEF Held, Under
  <2>9. s = Tx(w.tenant) \/ outcome[s] = "ok"
    BY <2>1, <2>3, <2>6, <2>7, <2>8 DEF AllGood, Good
  <2>10. CASE s = Tx(w.tenant)
    <3>1. c.by \in {"user", "orphan"}
      BY <1>1, <1>4, <2>4 DEF Commands, Proper, Leftovers
    <3>2. CASE c.by = "orphan"
      <4>1. outcome[Tx(T)] = "unknown"
        BY <1>1, <2>5, <3>2 DEF Inv, Justified, Shifted
      <4> QED
        BY <1>1, <2>1, <2>3, <2>10, <4>1
    <3>3. CASE c.by = "user"
      <4>1. Awaited(c) /\ c.tenant = tenant /\ reply' = "ok"
        BY <1>4, <3>3, UserWaits
      <4>2. pc = "finish" /\ Len(frames) = 1
        BY <1>4, <4>1 DEF Awaited
      <4>3. frames = <<Tx(tenant)>>
        <5>1. frames # <<>> /\ frames[1] = Tx(tenant) /\ frames \in Seq(Scopes)
          BY <1>1, <4>2 DEF Base, Nested, InScope, Typed
        <5> QED
          BY <4>2, <5>1
      <4>4. Finishing(s)'
        BY <1>1, <2>1, <2>3, <2>4, <2>10, <4>1, <4>2, <4>3 DEF Finishing
      <4> QED
        BY <2>10, <4>4
    <3> QED
      BY <3>1, <3>2, <3>3
  <2> QED
    BY <1>1, <2>9, <2>10
<1>5. CASE w \in x.new /\ c.op = "WRITE" /\ w = c.arg /\ levels = <<>>
  <2>1. c.tenant = w.tenant /\ c.tenant \in 1..Tenants
    BY <1>1, <1>5 DEF Commands, Proper
  <2>2. Owner = c.tenant
    BY <1>1, <1>2, <1>5, <2>1 DEF Inv, Sheltered, Shifted
  <2> QED
    BY <1>5, <2>1, <2>2 DEF Owner
<1> QED
  BY <1>1, <1>3, <1>4, <1>5 DEF Carries

(* The levels and the open scopes keep matching, by what the tenant waited  *)
(* for.  First the answers that leave the levels alone.                     *)
LEMMA MatchesStill ==
    ASSUME Base, Matches, UNCHANGED <<pc, frames, outcome, levels>>, reply = "none",
           Len(frames) > 1 \/ pc \notin {"finish", "abandon"},
           reply' = "err" \/ pc \in {"write", "stream"}
    PROVE  Matches'
<1>1. Len(frames') = Len(frames) /\ Top' = Top
  BY DEF Top
<1>2. ~Ended /\ ~Ended'
  <2>1. Len(frames) > 1 => Len(frames) # 1
    <3>1. Len(frames) \in Nat /\ \A k \in Nat : k > 1 => k # 1
      BY LevelsTyped
    <3> QED
      BY <3>1, Zenon
  <2> QED
    BY <1>1, <2>1 DEF Ended
<1>3. Depth' = Depth
  BY <1>1, <1>2 DEF Depth
<1>4. \A t, i : Belongs(t, i) => Belongs(t, i)'
  BY <1>1 DEF Belongs
<1>5. Emptied' => Emptied
  BY <1>1 DEF Emptied
<1> QED
  BY <1>1, <1>3, <1>4, <1>5 DEF Matches

(* A scope of a tenant that waits for the end of its innermost scope is at  *)
(* the top of the levels.                                                   *)
LEMMA TopIndex ==
    ASSUME Base, Distinct(frames), Matches, frames # <<>>, Depth = Len(frames), NEW i \in Index(Top)
    PROVE  i = Len(frames) /\ Len(levels) = Len(frames)
<1>1. Len(frames) \in Nat /\ Len(levels) = Len(frames) /\ frames \in Seq(Scopes)
  BY LevelsTyped DEF Matches
<1>2. i \in 1..Len(levels) /\ levels[i].scope = Top
  BY DEF Index
<1>3. frames[i] = frames[Len(frames)] /\ i \in 1..Len(frames) /\ Len(frames) \in 1..Len(frames)
  BY <1>1, <1>2 DEF Matches, Top
<1> QED
  BY <1>1, <1>3 DEF Distinct

LEMMA MatchesReleased ==
    ASSUME Base, Distinct(frames), Matches, UNCHANGED <<pc, frames, outcome>>,
           Len(frames) > 1, frames # <<>>, Depth = Len(frames),
           reply = "none", reply' = "ok", pc \in {"finish", "abandon2"},
           NEW i \in Index(Top), levels' = Merged(i)
    PROVE  Matches'
<1>1. i = Len(frames) /\ Len(levels) = Len(frames) /\ Len(frames) \in Nat
  BY TopIndex, LevelsTyped
<1>2. Top \in Scopes /\ Top.n > 1
  <2>1. Top.n \in 2..(opened + 1) /\ opened \in Nat
    BY <1>1 DEF Base, Nested, Top, Typed
  <2> QED
    BY <2>1, TopTyped DEF Base
<1>3. /\ Len(levels') = i - 1 /\ (\A j \in 1..(i - 2) : levels'[j] = levels[j])
      /\ levels'[i - 1] = Level(levels[i - 1].scope, UNION {levels[j].writes : j \in (i - 1)..Len(levels)})
  BY <1>2, MergedFacts
<1>4. /\ levels'[i - 1].scope = levels[i - 1].scope
      /\ levels'[i - 1].writes = UNION {levels[j].writes : j \in (i - 1)..Len(levels)}
  BY <1>3 DEF Level
<1>5. Depth' = i - 1 /\ ~Emptied'
  BY <1>1 DEF Depth, Ended, Emptied
<1>6. \A t : \A j \in 1..(i - 1) : Belongs(t, j) => Belongs(t, j)'
  BY <1>1 DEF Belongs
<1>7. ASSUME NEW j \in 1..Len(levels')
      PROVE  /\ levels'[j].scope = frames'[j]
             /\ \A w \in levels'[j].writes : \A t \in w.in : Belongs(t, j)'
  <2>1. CASE j \in 1..(i - 2)
    <3>1. j \in 1..Len(levels) /\ levels'[j] = levels[j] /\ j \in 1..(i - 1)
      BY <1>1, <1>3, <2>1
    <3> QED
      BY <1>6, <3>1 DEF Matches
  <2>2. CASE j = i - 1
    <3>1. i - 1 \in 1..Len(levels) /\ i \in 1..Len(levels)
      BY <1>1
    <3>2. levels'[j].scope = frames'[j]
      BY <1>4, <2>2, <3>1 DEF Matches
    <3>3. ASSUME NEW w \in levels'[j].writes, NEW t \in w.in PROVE Belongs(t, j)'
      <4>1. w \in levels[i - 1].writes \/ w \in levels[i].writes
        <5>1. \A k \in (i - 1)..Len(levels) : k = i - 1 \/ k = i
          BY <1>1
        <5> QED
          BY <1>4, <2>2, <3>3, <5>1
      <4>2. CASE w \in levels[i - 1].writes
        BY <1>6, <2>2, <3>1, <3>3, <4>2 DEF Matches
      <4>3. CASE w \in levels[i].writes
        <5>1. pc = "finish"
          BY <1>1, <4>3 DEF Matches, Emptied
        <5>2. outcome[t] = "ok" \/ \E k \in 1..i : t = frames[k]
          BY <3>1, <3>3, <4>3 DEF Matches, Belongs
        <5>3. \A k \in 1..i : k \in 1..j \/ k = i
          BY <1>1, <2>2
        <5>4. frames[i] = Top' /\ pc' = "finish"
          BY <1>1, <5>1 DEF Top
        <5> QED
          BY <5>2, <5>3, <5>4 DEF Belongs
      <4> QED
        BY <4>1, <4>2, <4>3
    <3> QED
      BY <3>2, <3>3
  <2> QED
    BY <1>1, <1>3, <2>1, <2>2
<1> QED
  BY <1>3, <1>5, <1>7 DEF Matches

LEMMA MatchesRestored ==
    ASSUME Base, Distinct(frames), Matches, UNCHANGED <<pc, frames, outcome>>,
           Len(frames) > 1, frames # <<>>, Depth = Len(frames),
           reply = "none", reply' = "ok", pc = "abandon",
           NEW i \in Index(Top), levels' = Restored(i, Top)
    PROVE  Matches'
<1>1. i = Len(frames) /\ Len(levels) = Len(frames) /\ Len(frames) \in Nat
  BY TopIndex, LevelsTyped
<1>2. Top \in Scopes /\ Top.n > 1
  <2>1. Top.n \in 2..(opened + 1) /\ opened \in Nat
    BY <1>1 DEF Base, Nested, Top, Typed
  <2> QED
    BY <2>1, TopTyped DEF Base
<1>3. Len(levels') = i /\ (\A j \in 1..(i - 1) : levels'[j] = levels[j]) /\ levels'[i] = Level(Top, {})
  BY <1>2, RestoredFacts
<1>4. levels'[i].scope = Top /\ levels'[i].writes = {}
  BY <1>3 DEF Level
<1>5. Depth' = Len(frames)
  BY <1>1 DEF Depth, Ended
<1>6. \A t, j : Belongs(t, j) => Belongs(t, j)'
  BY DEF Belongs
<1>7. ASSUME NEW j \in 1..Len(levels')
      PROVE  /\ levels'[j].scope = frames'[j]
             /\ \A w \in levels'[j].writes : \A t \in w.in : Belongs(t, j)'
  <2>1. CASE j \in 1..(i - 1)
    <3>1. j \in 1..Len(levels) /\ levels'[j] = levels[j]
      BY <1>1, <1>3, <2>1
    <3> QED
      BY <1>6, <3>1 DEF Matches
  <2>2. CASE j = i
    BY <1>1, <1>4, <2>2 DEF Top
  <2> QED
    BY <1>1, <1>3, <2>1, <2>2
<1> QED
  BY <1>1, <1>3, <1>4, <1>5, <1>7 DEF Matches

LEMMA MatchesDeepened ==
    ASSUME Base, Matches, UNCHANGED <<pc, frames, outcome>>,
           Len(frames) > 1, frames # <<>>,
           reply = "none", reply' = "ok", pc = "begin", levels' = Append(levels, Level(Top, {}))
    PROVE  Matches'
<1>1. Len(frames) \in Nat /\ levels \in Seq(LevelSet) /\ Len(levels) \in Nat /\ Top \in Scopes
  BY LevelsTyped, TopTyped DEF Base
<1>2. Len(levels) = Len(frames) - 1
  BY <1>1 DEF Matches, Depth, Ended
<1>3. Level(Top, {}) \in LevelSet /\ Level(Top, {}).scope = Top /\ Level(Top, {}).writes = {}
  BY <1>1 DEF Level, LevelSet
<1>4. /\ Len(levels') = Len(frames) /\ \A j \in 1..Len(levels) : levels'[j] = levels[j]
      /\ levels'[Len(frames)] = Level(Top, {})
  BY <1>1, <1>2, <1>3, AppendFacts
<1>5. Depth' = Len(frames) /\ ~Emptied'
  BY <1>1 DEF Depth, Ended, Emptied
<1>6. \A t, j : Belongs(t, j) => Belongs(t, j)'
  BY DEF Belongs
<1>7. ASSUME NEW j \in 1..Len(levels')
      PROVE  /\ levels'[j].scope = frames'[j]
             /\ \A w \in levels'[j].writes : \A t \in w.in : Belongs(t, j)'
  <2>1. CASE j \in 1..Len(levels)
    BY <1>4, <1>6, <2>1 DEF Matches
  <2>2. CASE j = Len(frames)
    BY <1>3, <1>4, <2>2 DEF Top
  <2> QED
    BY <1>1, <1>2, <1>4, <2>1, <2>2
<1> QED
  BY <1>4, <1>5, <1>7 DEF Matches

LEMMA MatchesJoined ==
    ASSUME Base, Matches, UNCHANGED <<pc, frames, outcome>>, frames # <<>>,
           reply = "none", pc = "write", NEW d, d.in = Members(frames), Joined(levels', d)
    PROVE  Matches'
<1>1. Len(frames) \in Nat /\ Len(levels) = Len(frames)
  BY LevelsTyped DEF Matches, Depth, Ended
<1>2. Depth' = Len(frames) /\ ~Emptied'
  BY <1>1 DEF Depth, Ended, Emptied
<1>3. \A t, j : Belongs(t, j) => Belongs(t, j)'
  BY DEF Belongs
<1>4. Len(levels') = Len(levels)
  BY DEF Joined
<1>5. ASSUME NEW j \in 1..Len(levels')
      PROVE  /\ levels'[j].scope = frames'[j]
             /\ \A w \in levels'[j].writes : \A t \in w.in : Belongs(t, j)'
  <2>1. j \in 1..Len(levels)
    BY <1>4
  <2>2. levels'[j].scope = levels[j].scope
        /\ (\A w \in levels'[j].writes : w \in levels[j].writes \/ (w = d /\ j = Len(levels)))
    BY <2>1 DEF Joined
  <2>3. ASSUME j = Len(levels), NEW t \in d.in PROVE Belongs(t, j)'
    BY <1>1, <2>3 DEF Members, Belongs
  <2>4. \A w \in levels[j].writes : \A t \in w.in : Belongs(t, j)'
    BY <1>3, <2>1 DEF Matches
  <2>5. levels[j].scope = frames[j]
    BY <2>1 DEF Matches
  <2> QED
    BY <2>2, <2>3, <2>4, <2>5
<1> QED
  BY <1>1, <1>2, <1>4, <1>5 DEF Matches

LEMMA ExecutedSynced ==
    ASSUME Inv, NEW c, NEW x, Run(c, x)
    PROVE  Synced'
<1> SUFFICES ASSUME Alone', ~Starting', Cleanups(tenant)' = {} PROVE Matches'
  BY DEF Synced
<1>1. /\ Shifted(c) /\ UNCHANGED <<tenant, pc, frames, opened, tasks, conn, outcome>>
      /\ Form(c, x) /\ levels' = x.levels /\ Passes(c)
      /\ Base /\ c \in Commands /\ x.reply \in {"ok", "err"}
  BY RunPasses DEF Run, Inv
<1>2. /\ Alone /\ Awaited(c) /\ reply = "none" /\ reply' = x.reply /\ tasks = {} /\ frames # <<>>
      /\ Distinct(frames)
  BY AloneWaits DEF Alone, Inv, Fresh
<1>3. Len(frames) \in Nat /\ Len(frames) >= 1 /\ (Len(frames) > 1 <=> Len(frames) # 1) /\ frames \in Seq(Scopes)
  <2>1. Len(frames) \in Nat /\ frames \in Seq(Scopes)
    BY <1>1, LevelsTyped
  <2>2. Len(frames) >= 1
    BY <1>2, <2>1
  <2>3. \A k \in Nat : k >= 1 => (k > 1 <=> k # 1)
    OBVIOUS
  <2> QED
    BY <2>1, <2>2, <2>3, Zenon
<1>4. CASE Starting
  <2>1. levels = <<>> /\ c.op = "BEGIN" /\ c.arg = Top /\ Len(frames) = 1 /\ pc = "begin"
    BY <1>4, StartsIdle DEF Starting
  <2>2. Opens(c, x)
    BY <1>1, <2>1 DEF Form, Still, Closes, Deepens, Releases, Restores, Joins, Autocommits, Ends
  <2>3. levels' = <<Level(Top, {})>> /\ reply' = "ok"
    BY <1>1, <1>2, <2>1, <2>2 DEF Opens
  <2>4. Len(levels') = 1 /\ levels'[1].scope = frames[1] /\ levels'[1].writes = {}
    BY <2>1, <2>3 DEF Level, Top
  <2>5. Depth' = 1 /\ ~Emptied'
    BY <1>1, <2>1, <2>3 DEF Depth, Ended, Emptied
  <2>6. \A j \in 1..Len(levels') : j = 1
    BY <2>4
  <2> QED
    BY <1>1, <2>4, <2>5, <2>6 DEF Matches
<1>5. CASE ~Starting
  <2>1. Cleanups(tenant) = {}
    BY <1>2 DEF Cleanups
  <2>2. Matches
    BY <1>2, <1>5, <2>1 DEF Inv, Synced
  <2>3. pc \in InScope
    BY <1>1, <1>2 DEF Base, Nested
  <2>4. CASE pc = "begin"
    <3>1. Len(frames) # 1 /\ c.op = "SAVEPOINT" /\ c.arg = Top
      BY <1>2, <1>5, <2>4 DEF Starting, Awaited
    <3>2. Still(c, x) \/ Deepens(c, x)
      BY <1>1, <3>1 DEF Form, Opens, Closes, Releases, Restores, Joins, Autocommits, Ends
    <3>3. CASE Still(c, x)
      <4>1. levels' = levels /\ reply' = "err"
        BY <1>1, <1>2, <3>1, <3>3 DEF Still
      <4> QED
        BY <1>1, <1>2, <2>2, <2>4, <4>1, MatchesStill
    <3>4. CASE Deepens(c, x)
      BY <1>1, <1>2, <1>3, <2>2, <2>4, <3>1, <3>4, MatchesDeepened DEF Deepens
    <3> QED
      BY <3>2, <3>3, <3>4
  <2>5. CASE pc = "write"
    <3>1. c.op = "WRITE" /\ c.arg.in = Members(frames)
      BY <1>2, <2>5 DEF Awaited
    <3>2. levels # <<>>
      <4>1. Len(levels) = Len(frames)
        BY <2>2, <2>5 DEF Matches, Depth, Ended
      <4> QED
        BY <1>3, <4>1, EmptySeqFacts
    <3>3. Still(c, x) \/ Joins(c, x)
      BY <1>1, <3>1, <3>2 DEF Form, Opens, Closes, Deepens, Releases, Restores, Autocommits, Ends
    <3>4. CASE Still(c, x)
      BY <1>1, <1>2, <2>2, <2>5, <3>4, MatchesStill DEF Still
    <3>5. CASE Joins(c, x)
      BY <1>1, <1>2, <2>2, <2>5, <3>1, <3>5, MatchesJoined DEF Joins
    <3> QED
      BY <3>3, <3>4, <3>5
  <2>6. CASE pc = "stream"
    <3>1. c.op = "BEGIN"
      BY <1>2, <2>6 DEF Awaited
    <3>2. levels # <<>>
      <4>1. Len(levels) = Len(frames)
        BY <2>2, <2>6 DEF Matches, Depth, Ended
      <4> QED
        BY <1>3, <4>1, EmptySeqFacts
    <3>3. Still(c, x)
      BY <1>1, <3>1, <3>2 DEF Form, Opens, Closes, Deepens, Releases, Restores, Joins, Autocommits, Ends
    <3> QED
      BY <1>1, <1>2, <2>2, <2>6, <3>3, MatchesStill DEF Still
  <2>7. CASE pc \in {"finish", "abandon"} /\ Len(frames) = 1
    <3>1. Ends(c)
      BY <1>2, <2>7 DEF Awaited, Ends
    <3>2. levels' = <<>>
      BY <1>1, <3>1 DEF Passes
    <3>3. Depth' = 0 /\ ~Emptied'
      BY <1>1, <1>2, <2>7 DEF Depth, Ended, Emptied
    <3>4. Len(levels') = 0 /\ 1..Len(levels') = {}
      BY <3>2, EmptySeqFacts
    <3> QED
      BY <3>3, <3>4 DEF Matches
  <2>8. CASE pc \in {"finish", "abandon2"} /\ Len(frames) > 1
    <3>1. c.op = "RELEASE" /\ c.arg = Top
      BY <1>2, <1>3, <2>8 DEF Awaited
    <3>2. Still(c, x) \/ Releases(c, x)
      BY <1>1, <3>1 DEF Form, Opens, Closes, Deepens, Restores, Joins, Autocommits, Ends
    <3>3. CASE Still(c, x)
      <4>1. levels' = levels /\ reply' = "err"
        BY <1>1, <1>2, <3>1, <3>3 DEF Still
      <4> QED
        BY <1>1, <1>2, <2>2, <2>8, <4>1, MatchesStill
    <3>4. CASE Releases(c, x)
      <4>1. Depth = Len(frames)
        BY <1>2, <1>3, <2>8 DEF Depth, Ended
      <4>2. PICK i \in Index(Top) : levels' = Merged(i)
        BY <1>1, <3>1, <3>4 DEF Releases
      <4>3. reply' = "ok"
        BY <1>2, <3>4 DEF Releases
      <4> QED
        BY <1>1, <1>2, <2>2, <2>8, <4>1, <4>2, <4>3, MatchesReleased
    <3> QED
      BY <3>2, <3>3, <3>4
  <2>9. CASE pc = "abandon" /\ Len(frames) > 1
    <3>1. c.op = "ROLLBACK_TO" /\ c.arg = Top
      BY <1>2, <1>3, <2>9 DEF Awaited
    <3>2. Still(c, x) \/ Restores(c, x)
      BY <1>1, <3>1 DEF Form, Opens, Closes, Deepens, Releases, Joins, Autocommits, Ends
    <3>3. CASE Still(c, x)
      <4>1. levels' = levels /\ reply' = "err"
        BY <1>1, <1>2, <3>1, <3>3 DEF Still
      <4> QED
        BY <1>1, <1>2, <2>2, <2>9, <4>1, MatchesStill
    <3>4. CASE Restores(c, x)
      <4>1. Depth = Len(frames)
        BY <1>2, <1>3, <2>9 DEF Depth, Ended
      <4>2. PICK i \in Index(Top) : levels' = Restored(i, Top)
        BY <1>1, <3>1, <3>4 DEF Restores
      <4>3. reply' = "ok"
        BY <1>2, <3>4 DEF Restores
      <4> QED
        BY <1>1, <1>2, <2>2, <2>9, <4>1, <4>2, <4>3, MatchesRestored
    <3> QED
      BY <3>2, <3>3, <3>4
  <2>10. pc # "body" /\ (pc = "abandon2" => Len(frames) > 1)
    BY <1>1, <1>2 DEF Awaited, Base, Nested
  <2>11. Len(frames) = 1 \/ Len(frames) > 1
    BY <1>3
  <2> QED
    BY <2>3, <2>4, <2>5, <2>6, <2>7, <2>8, <2>9, <2>10, <2>11 DEF InScope
<1> QED
  BY <1>4, <1>5

LEMMA ExecuteInv ==
    ASSUME Inv, Execute
    PROVE  Inv'
<1>1. Base /\ Base'
  BY ExecuteBase DEF Inv
<1>2. PICK c \in Commands : \E x : Run(c, x) /\ Recorded(c, x)
  BY <1>1, ExecuteRuns
<1>3. PICK x : Run(c, x)
  BY <1>2
<1>4. /\ Untouched' /\ Fresh' /\ Asked' /\ Unended' /\ Waiting' /\ Owns' /\ Sheltered' /\ OwnWrites'
      /\ Synced' /\ Justified' /\ Final'
  BY <1>3, ExecutedUntouched, ExecutedAsked, ExecutedOwns, ExecutedSynced, ExecutedJustified,
     ExecutedFinal
<1> QED
  BY <1>1, <1>4 DEF Inv

-----------------------------------------------------------------------------
(* The theorem about failed scopes *)

LEMMA InvInit ==
    ASSUME Init
    PROVE  Inv
<1>1. Base
  BY CoverInit
<1>2. 1..Len(queue) = {} /\ 1..Len(levels) = {} /\ 1..Len(frames) = {} /\ Members(queue) = {}
      /\ Distinct(frames) /\ Owner = 0
  BY EmptySeqFacts DEF Init, Owner
<1>3. frames = <<>> /\ tasks = {} /\ committed = {} /\ \A s \in Scopes : outcome[s] = "none"
  BY DEF Init
<1>4. Untouched /\ Fresh /\ Asked
  BY <1>2, <1>3 DEF Untouched, Fresh, Asked
<1>5. Unended /\ Waiting /\ Owns /\ Synced
  BY <1>3 DEF Unended, Waiting, Owns, Synced, Alone
<1>6. Sheltered /\ OwnWrites /\ Justified /\ Final
  BY <1>2, <1>3 DEF Sheltered, OwnWrites, Justified, Final
<1> QED
  BY <1>1, <1>4, <1>5, <1>6 DEF Inv

LEMMA InvStep ==
    ASSUME Inv, Covered, [Next]_vars
    PROVE  Inv'
<1>1. Base /\ Base'
  BY CoverStep DEF Inv
<1>2. ASSUME Body PROVE Inv'
  BY <1>2, BeginInv, SavepointInv, WriteInv, FinishInv, AbandonInv, OpenStreamInv DEF Body
<1>3. ASSUME TenantStep PROVE Inv'
  BY <1>1, <1>3, EnteredInv, EnterFailsInv, WrittenInv, FinishedInv, FinishFailsInv, RolledBackInv,
     RolledBackToInv, ReleasedInv, RollbackToFailsInv, StreamOpenedInv, ReuseInv, DropConnectionInv,
     RecycleInv, RecycleFailsInv, ReturnInv DEF TenantStep
<1>4. ASSUME NEW t \in tasks, TaskStep(t) PROVE Inv'
  BY <1>1, <1>4, TaskStepInv
<1>5. ASSUME UNCHANGED vars PROVE Inv'
  <2>1. Untouched' /\ Fresh'
    BY <1>5 DEF vars, Inv, Untouched, Fresh, Prior, Starting, Owner, Unopened
  <2>2. Asked' /\ Unended' /\ Waiting'
    BY <1>5 DEF vars, Inv, Asked, Awaited, Members, Top, Unended, Waiting, Alone, Cleanups, Waits
  <2>3. Owns' /\ Sheltered' /\ OwnWrites'
    BY <1>5 DEF vars, Inv, Owns, Sheltered, OwnWrites, Owner, Alone, Starting, Ended
  <2>4. Synced'
    BY <1>5 DEF vars, Inv, Synced, Alone, Starting, Cleanups, Matches, Depth, Ended, Belongs, Emptied, Top
  <2>5. Justified' /\ Final'
    BY <1>5 DEF vars, Inv, Justified, Commits, WillRace, Behind, Cleanups, AllGood, Under, Good, Final, Finishing
  <2> QED
    BY <1>1, <2>1, <2>2, <2>3, <2>4, <2>5 DEF Inv
<1> QED
  BY <1>1, <1>2, <1>3, <1>4, <1>5, DropInv, ExecuteInv, DieInv DEF Next, Over

(* No statement of a scope that returned an error or was dropped ever takes *)
(* effect, as long as its transaction raced with no leftover of another     *)
(* scope or tenant: what rollback_savepoint, ScopeGuard's cleanups and the  *)
(* pool's recycling undo stays undone, whatever is dropped, refused or lost *)
(* in between.                                                              *)
THEOREM FailedScopesLeaveNothing == Spec => []FailedScopeLeavesNothing
<1>1. Init => Inv
  BY InvInit
<1>2. Inv /\ (Base /\ Covered) /\ [Next]_vars => Inv'
  BY InvStep
<1>3. Inv => FailedScopeLeavesNothing
  <2> SUFFICES ASSUME Inv, NEW w \in committed, w.tenant \notin raced, NEW s \in w.in
               PROVE  outcome[s] \notin {"err", "dropped"}
    BY DEF FailedScopeLeavesNothing
  <2>1. outcome[s] \in {"ok", "unknown"} \/ Finishing(s)
    BY DEF Inv, Final
  <2>2. ASSUME Finishing(s) PROVE outcome[s] = "none"
    <3>1. frames = <<s>>
      BY <2>2 DEF Finishing
    <3>2. Len(frames) = 1 /\ frames[1] = s
      BY <3>1
    <3> QED
      BY <3>2 DEF Inv, Fresh
  <2> QED
    BY <2>1, <2>2
<1> QED
  BY <1>1, <1>2, <1>3, CoverInvariant, PTL DEF Spec

-----------------------------------------------------------------------------
(* The theorem about successful scopes *)

(* A scope that a statement was sent in did not return Ok.                  *)
Lost(w) == \E s \in w.in : outcome[s] \in {"err", "dropped", "unknown"}

(* The transaction of a statement is still running, and is not one whose    *)
(* COMMIT succeeded.                                                        *)
Current(w) == frames # <<>> /\ tenant = w.tenant /\ ~Finishing(Tx(tenant))

(* A statement was sent in the transaction of its tenant; one that is still *)
(* to be executed is part of a running transaction, or was given up.        *)
Rooted(w) == Tx(w.tenant) \in w.in
Promised ==
    /\ conn = "discarded" => frames = <<>>
    /\ \A w \in acked : Rooted(w)
    /\ \A i \in 1..Len(queue) : queue[i].op = "WRITE" =>
          /\ Rooted(queue[i].arg)
          /\ queue[i].tenant \notin raced => Lost(queue[i].arg) \/ Current(queue[i].arg)

(* It is kept at a level whose scopes are scopes of it, or the innermost of *)
(* them is about to return an error.                                        *)
Stored(w) == \E i \in 1..Len(levels) : w \in levels[i].writes /\ \A k \in 1..i : frames[k] \in w.in
Losing(w) == Top \in w.in /\ (pc \in {"abandon", "abandon2"} \/ (pc = "finish" /\ reply = "err"))
Pending(w) ==
    /\ Current(w)
    /\ conn = "alive" /\ Cleanups(tenant) = {} => Stored(w) \/ Losing(w)
Kept ==
    \A w \in acked : w.tenant \notin raced \cup hollow => Lost(w) \/ w \in committed \/ Pending(w)

Keeping == Promised /\ Kept

(* A step that reaches neither the server nor the histories.                *)
Moves(w) ==
    /\ Lost(w) => Lost(w)'
    /\ Current(w) => Lost(w)' \/ Current(w)'
    /\ w.tenant \notin raced /\ Pending(w) => Lost(w)' \/ Pending(w)'

(* A queued statement was queued before, or belongs to a running            *)
(* transaction.                                                             *)
Queues ==
    \A i \in 1..Len(queue') : \A w : queue'[i].op = "WRITE" /\ queue'[i].arg = w =>
        \/ \E j \in 1..Len(queue) : /\ queue[j].op = "WRITE" /\ queue[j].arg = w
                                    /\ queue[j].tenant = queue'[i].tenant
        \/ Rooted(w) /\ Current(w)'

LEMMA KeptMove ==
    ASSUME Base, Promised, Kept, UNCHANGED <<committed, acked, hollow, raced>>,
           conn' = "discarded" => frames' = <<>>, Queues,
           \A w \in Writes : Rooted(w) => Moves(w)
    PROVE  Promised' /\ Kept'
<1>1. acked \subseteq Writes
  BY DEF Base, Typed
<1>2. \A j \in 1..Len(queue) : queue[j].op = "WRITE" => queue[j].arg \in Writes
  BY QueuedTyped DEF Proper
<1>3. ASSUME NEW i \in 1..Len(queue'), NEW w, queue'[i].op = "WRITE", queue'[i].arg = w
      PROVE  Rooted(w) /\ (queue'[i].tenant \notin raced => Lost(w)' \/ Current(w)')
  <2>1. CASE Rooted(w) /\ Current(w)'
    BY <2>1
  <2>2. CASE \E j \in 1..Len(queue) : /\ queue[j].op = "WRITE" /\ queue[j].arg = w
                                      /\ queue[j].tenant = queue'[i].tenant
    <3>1. PICK j \in 1..Len(queue) : /\ queue[j].op = "WRITE" /\ queue[j].arg = w
                                     /\ queue[j].tenant = queue'[i].tenant
      BY <2>2
    <3>2. w \in Writes /\ Rooted(w) /\ (queue[j].tenant \notin raced => Lost(w) \/ Current(w))
      BY <1>2, <3>1 DEF Promised
    <3> QED
      BY <3>1, <3>2 DEF Moves
  <2> QED
    BY <1>3, <2>1, <2>2 DEF Queues
<1>4. Promised'
  <2>1. \A w : Rooted(w)' = Rooted(w)
    BY DEF Rooted, Tx
  <2>2. ASSUME NEW i \in 1..Len(queue'), queue'[i].op = "WRITE"
        PROVE  (/\ Rooted(queue[i].arg)
                /\ queue[i].tenant \notin raced => Lost(queue[i].arg) \/ Current(queue[i].arg))'
    <3>1. PICK w : w = queue'[i].arg
      OBVIOUS
    <3>2. (Lost(w)' <=> Lost(queue[i].arg)') /\ (Current(w)' <=> Current(queue[i].arg)')
          /\ (Rooted(w)' <=> Rooted(queue[i].arg)')
      BY <3>1 DEF Lost, Current, Rooted
    <3> QED
      BY <1>3, <2>1, <2>2, <3>1, <3>2
  <2>3. (\A w \in acked : Rooted(w))'
    BY <2>1 DEF Promised
  <2> QED
    BY <2>2, <2>3 DEF Promised
<1>5. ASSUME NEW w \in acked', w.tenant \notin raced' \cup hollow'
      PROVE  Lost(w)' \/ w \in committed' \/ Pending(w)'
  <2>1. w \in acked /\ w.tenant \notin raced \cup hollow /\ w \in Writes /\ Rooted(w)
    BY <1>1, <1>5 DEF Promised
  <2>2. Moves(w)
    BY <2>1
  <2>3. Lost(w) \/ w \in committed \/ Pending(w)
    BY <2>1 DEF Kept
  <2> QED
    BY <2>1, <2>2, <2>3 DEF Moves
<1> QED
  BY <1>4, <1>5 DEF Kept

(* Nobody is in a scope.                                                    *)
LEMMA OutsideMoves ==
    ASSUME frames = <<>>, UNCHANGED outcome, NEW w
    PROVE  Moves(w)
  BY DEF Moves, Current, Pending, Lost

(* The tenant asks for something, or goes on after an answer.               *)
LEMMA InsideMoves ==
    ASSUME Base, frames # <<>>, UNCHANGED <<tenant, frames, conn, levels, outcome>>,
           Cleanups(tenant)' = Cleanups(tenant),
           ~(pc' = "finish" /\ reply' = "ok"),
           pc \in {"abandon", "abandon2", "finish"} => pc = "abandon" /\ pc' = "abandon2",
           NEW w
    PROVE  Moves(w)
<1>1. Lost(w) => Lost(w)'
  BY DEF Lost
<1>2. Current(w) => Current(w)'
  BY DEF Current, Finishing
<1>3. Stored(w) => Stored(w)'
  BY DEF Stored
<1>4. Losing(w) => Losing(w)'
  BY DEF Losing, Top
<1> QED
  BY <1>1, <1>2, <1>3, <1>4 DEF Moves, Pending

LEMMA QueuesSame ==
    ASSUME NEW c, Queued(c), c.op # "WRITE"
    PROVE  Queues
  BY DEF Queued, Grown, Queues

LEMMA StaysPut ==
    ASSUME UNCHANGED queue
    PROVE  Queues
  BY DEF Queues

LEMMA BeginKeeps ==
    ASSUME Inv, Keeping, Begin
    PROVE  Keeping'
<1> DEFINE d == Cmd("BEGIN", Tx(tenant), tenant, "user")
<1>1. frames = <<>> /\ UNCHANGED <<tenant, outcome, conn, committed, acked, hollow, raced>> /\ Send(d)
      /\ conn # "discarded"
  BY DEF Begin, Call, Inv, Base, Nested, InScope, history, serverVars
<1>2. tenant \in 1..Tenants
  BY DEF Begin, Inv, Base, Typed
<1>3. d \in Commands /\ d.op = "BEGIN"
  BY <1>2, TxTyped, CommandTyped DEF Cmd
<1> HIDE DEF d
<1>4. Queues
  BY <1>1, <1>3, SendQueued, QueuesSame DEF Inv
<1> QED
  BY <1>1, <1>4, KeptMove, OutsideMoves DEF Inv, Keeping

LEMMA ReuseKeeps ==
    ASSUME Inv, Keeping, Reuse
    PROVE  Keeping'
<1>1. frames = <<>> /\ UNCHANGED <<frames, outcome, conn, queue, committed, acked, hollow, raced>>
  BY DEF Reuse, Inv, Base, Nested, InScope, history, serverVars
<1> QED
  BY <1>1, KeptMove, OutsideMoves, StaysPut DEF Inv, Keeping

LEMMA ReturnKeeps ==
    ASSUME Inv, Keeping, Return
    PROVE  Keeping'
<1>1. frames = <<>> /\ UNCHANGED <<frames, outcome, conn, queue, committed, acked, hollow, raced>>
  BY DEF Return, Answered, Inv, Base, Nested, InScope, history, serverVars
<1> QED
  BY <1>1, KeptMove, OutsideMoves, StaysPut DEF Inv, Keeping

LEMMA RecycleFailsKeeps ==
    ASSUME Inv, Keeping, RecycleFails
    PROVE  Keeping'
<1>1. frames = <<>> /\ UNCHANGED <<frames, outcome, queue, committed, acked, hollow, raced>>
  BY DEF RecycleFails, Answered, Inv, Base, Nested, InScope, history, serverVars
<1> QED
  BY <1>1, KeptMove, OutsideMoves, StaysPut DEF Inv, Keeping

LEMMA DropConnectionKeeps ==
    ASSUME Inv, Keeping, DropConnection
    PROVE  Keeping'
<1>1. frames = <<>> /\ UNCHANGED <<frames, outcome, queue, committed, acked, hollow, raced>>
  BY DEF DropConnection, Inv, Base, Nested, InScope, history, serverVars
<1> QED
  BY <1>1, KeptMove, OutsideMoves, StaysPut DEF Inv, Keeping

LEMMA RecycleKeeps ==
    ASSUME Inv, Keeping, Recycle
    PROVE  Keeping'
<1> DEFINE d == Cmd("ROLLBACK", Tx(tenant), tenant, "user")
<1>1. frames = <<>> /\ UNCHANGED <<frames, outcome, committed, acked, hollow, raced>>
      /\ tenant \in 1..Tenants
  BY DEF Recycle, Inv, Base, Nested, InScope, Typed, history, serverVars
<1>2. UNCHANGED queue \/ Send(d)
  BY DEF Recycle, Call
<1>3. d \in Commands /\ d.op = "ROLLBACK"
  BY <1>1, TxTyped, CommandTyped DEF Cmd
<1> HIDE DEF d
<1>4. Queues
  BY <1>2, <1>3, SendQueued, QueuesSame, StaysPut DEF Inv
<1> QED
  BY <1>1, <1>4, KeptMove, OutsideMoves DEF Inv, Keeping

(* The tenant sends c from within its scope.                                *)
LEMMA AskKeeps ==
    ASSUME Inv, Keeping, frames # <<>>, NEW c \in Commands, c.op # "WRITE", Send(c),
           pc = "body" \/ (pc = "abandon" /\ pc' = "abandon2"),
           UNCHANGED <<tenant, frames, tasks, conn, levels, outcome, committed, acked, hollow, raced>>
    PROVE  Keeping'
<1>1. Queues /\ reply' # "ok"
  BY SendQueued, QueuesSame DEF Inv
<1>2. Cleanups(tenant)' = Cleanups(tenant)
  BY DEF Cleanups
<1>3. \A w \in Writes : Moves(w)
  BY <1>1, <1>2, InsideMoves DEF Inv
<1>4. conn' = "discarded" => frames' = <<>>
  BY DEF Keeping, Promised
<1> QED
  BY <1>1, <1>3, <1>4, KeptMove DEF Inv, Keeping

LEMMA OpenStreamKeeps ==
    ASSUME Inv, Keeping, OpenStream
    PROVE  Keeping'
<1> DEFINE d == Cmd("BEGIN", Tx(tenant), tenant, "user")
<1>1. frames # <<>>
  BY DEF OpenStream, Inv, Base, Nested, InScope
<1>2. tenant \in 1..Tenants
  BY <1>1, TopTyped DEF Inv, Base
<1>3. d \in Commands /\ d.op = "BEGIN"
  BY <1>2, TxTyped, CommandTyped DEF Cmd
<1>4. Send(d) /\ pc = "body"
      /\ UNCHANGED <<tenant, frames, tasks, conn, levels, outcome, committed, acked, hollow, raced>>
  BY DEF OpenStream, Call, serverVars, history
<1> HIDE DEF d
<1> QED
  BY <1>1, <1>3, <1>4, AskKeeps

LEMMA FinishKeeps ==
    ASSUME Inv, Keeping, Finish
    PROVE  Keeping'
<1> DEFINE d == Cmd(IF Len(frames) = 1 THEN "COMMIT" ELSE "RELEASE", Top, tenant, "user")
<1>1. frames # <<>>
  BY DEF Finish, Inv, Base, Nested, InScope
<1>2. d \in Commands /\ d.op # "WRITE"
  <2>1. d \in Commands
    BY <1>1, TopTyped, CommandTyped DEF Inv, Base
  <2> QED
    BY <2>1 DEF Cmd
<1>3. Send(d) /\ pc = "body"
      /\ UNCHANGED <<tenant, frames, tasks, conn, levels, outcome, committed, acked, hollow, raced>>
  BY DEF Finish, Call, serverVars, history
<1> HIDE DEF d
<1> QED
  BY <1>1, <1>2, <1>3, AskKeeps

LEMMA AbandonKeeps ==
    ASSUME Inv, Keeping, Abandon
    PROVE  Keeping'
<1> DEFINE d == Cmd(IF Len(frames) = 1 THEN "ROLLBACK" ELSE "ROLLBACK_TO", Top, tenant, "user")
<1>1. frames # <<>>
  BY DEF Abandon, Inv, Base, Nested, InScope
<1>2. d \in Commands /\ d.op # "WRITE"
  <2>1. d \in Commands
    BY <1>1, TopTyped, CommandTyped DEF Inv, Base
  <2> QED
    BY <2>1 DEF Cmd
<1>3. Send(d) /\ pc = "body"
      /\ UNCHANGED <<tenant, frames, tasks, conn, levels, outcome, committed, acked, hollow, raced>>
  BY DEF Abandon, Call, serverVars, history
<1> HIDE DEF d
<1> QED
  BY <1>1, <1>2, <1>3, AskKeeps

LEMMA RolledBackToKeeps ==
    ASSUME Inv, Keeping, RolledBackTo
    PROVE  Keeping'
<1> DEFINE d == Cmd("RELEASE", Top, tenant, "user")
<1>1. frames # <<>> /\ Len(frames) # 1
  BY LevelsTyped DEF RolledBackTo, Answered, Inv, Base, Nested, InScope
<1>2. d \in Commands /\ d.op # "WRITE"
  <2>1. d \in Commands
    BY <1>1, TopTyped, CommandTyped DEF Inv, Base
  <2> QED
    BY <2>1 DEF Cmd
<1>3. Send(d) /\ pc = "abandon" /\ pc' = "abandon2"
      /\ UNCHANGED <<tenant, frames, tasks, conn, levels, outcome, committed, acked, hollow, raced>>
  BY DEF RolledBackTo, Answered, Call, serverVars, history
<1> HIDE DEF d
<1> QED
  BY <1>1, <1>2, <1>3, AskKeeps

(* A statement is sent in the tenant's open scopes.                         *)
LEMMA WriteKeeps ==
    ASSUME Inv, Keeping, Write
    PROVE  Keeping'
<1> DEFINE w == [tenant |-> tenant, n |-> sent + 1, in |-> {frames[i] : i \in 1..Len(frames)}]
           d == Cmd("WRITE", w, tenant, "user")
<1>1. frames # <<>>
  BY DEF Write, Inv, Base, Nested, InScope
<1>2. tenant \in 1..Tenants /\ Len(frames) \in Nat \ {0} /\ frames[1] = Tx(tenant)
  BY <1>1, TopTyped DEF Inv, Base, Nested
<1>3. {frames[i] : i \in 1..Len(frames)} \in SUBSET Scopes
  BY DEF Inv, Base, Typed
<1>4. sent + 1 \in 1..MaxWrites
  BY BoundsAssumption DEF Write, Inv, Base, Typed
<1>5. w \in Writes /\ w.tenant = tenant /\ Tx(tenant) \in w.in
  BY <1>2, <1>3, <1>4 DEF Writes
<1>6. Send(d) /\ pc' = "write" /\ pc = "body"
      /\ UNCHANGED <<tenant, frames, tasks, conn, levels, outcome, committed, acked, hollow, raced>>
  BY DEF Write, Call, serverVars, history
<1> HIDE DEF w
<1>7. d \in Commands /\ d.op = "WRITE" /\ d.arg = w
  BY <1>5, WriteTyped DEF Cmd
<1> HIDE DEF d
<1>8. Queued(d) /\ reply' # "ok"
  BY <1>6, <1>7, SendQueued DEF Inv
<1>9. Rooted(w)
  BY <1>5 DEF Rooted
<1>10. \A v : v = w => Current(v)'
  BY <1>1, <1>5, <1>6 DEF Current, Finishing
<1>11. Queues
  <2> SUFFICES ASSUME NEW i \in 1..Len(queue'), NEW v, queue'[i].op = "WRITE", queue'[i].arg = v
               PROVE  \/ \E j \in 1..Len(queue) : /\ queue[j].op = "WRITE" /\ queue[j].arg = v
                                                  /\ queue[j].tenant = queue'[i].tenant
                      \/ Rooted(v) /\ Current(v)'
    BY DEF Queues
  <2>1. (i \in 1..Len(queue) /\ queue'[i] = queue[i]) \/ queue'[i] = d
    BY <1>8 DEF Queued, Grown
  <2> QED
    BY <1>7, <1>9, <1>10, <2>1
<1>12. Cleanups(tenant)' = Cleanups(tenant)
  BY <1>6 DEF Cleanups
<1>13. \A v \in Writes : Moves(v)
  BY <1>1, <1>6, <1>8, <1>12, InsideMoves DEF Inv
<1>14. conn' = "discarded" => frames' = <<>>
  BY <1>6 DEF Keeping, Promised
<1> QED
  BY <1>6, <1>11, <1>13, <1>14, KeptMove DEF Inv, Keeping

(* The tenant takes an answer and goes on in its scope.                     *)
LEMMA GoOnKeeps ==
    ASSUME Inv, Keeping, frames # <<>>, pc \in {"begin", "write", "stream"}, pc' = "body",
           \A t \in tasks' : t \in tasks \/ t.scope.n = 1, tasks \subseteq tasks',
           UNCHANGED <<tenant, frames, conn, queue, levels, outcome, committed, acked, hollow, raced>>
    PROVE  Keeping'
<1>1. Cleanups(tenant)' = Cleanups(tenant)
  BY DEF Cleanups, Inv, Base, Typed, Tasks, Scopes
<1>2. \A w \in Writes : Moves(w)
  BY <1>1, InsideMoves DEF Inv
<1>3. conn' = "discarded" => frames' = <<>>
  BY DEF Keeping, Promised
<1> QED
  BY <1>2, <1>3, KeptMove, StaysPut DEF Inv, Keeping

LEMMA EnteredKeeps ==
    ASSUME Inv, Keeping, Entered
    PROVE  Keeping'
<1>1. frames # <<>>
  BY DEF Entered, Answered, Inv, Base, Nested, InScope
<1> QED
  BY <1>1, GoOnKeeps DEF Entered, Answered, serverVars, history

LEMMA WrittenKeeps ==
    ASSUME Inv, Keeping, Written
    PROVE  Keeping'
<1>1. frames # <<>>
  BY DEF Written, Inv, Base, Nested, InScope
<1> QED
  BY <1>1, GoOnKeeps DEF Written, serverVars, history

LEMMA StreamOpenedKeeps ==
    ASSUME Inv, Keeping, StreamOpened
    PROVE  Keeping'
<1>1. frames # <<>>
  BY DEF StreamOpened, Inv, Base, Nested, InScope
<1>2. Tx(tenant).n = 1
  BY <1>1, TopTyped, TxTyped DEF Inv, Base
<1>3. (\A t \in tasks' : t \in tasks \/ t.scope.n = 1) /\ tasks \subseteq tasks'
  BY <1>2 DEF StreamOpened
<1>4. pc = "stream" /\ pc' = "body"
      /\ UNCHANGED <<tenant, frames, conn, queue, levels, outcome, committed, acked, hollow, raced>>
  BY DEF StreamOpened, serverVars, history
<1> QED
  BY <1>1, <1>3, <1>4, GoOnKeeps

(* The levels never outnumber the open scopes.                              *)
LEMMA StoredDepth ==
    ASSUME Inv, frames # <<>>, conn = "alive", tenant \notin raced, ~Starting, Cleanups(tenant) = {}
    PROVE  Matches /\ Len(levels) = Depth /\ Depth \in 0..Len(frames)
<1>1. Matches /\ Len(frames) \in Nat \ {0}
  BY TopTyped DEF Inv, Base, Synced, Alone
<1> QED
  BY <1>1 DEF Matches, Depth

LEMMA SavepointKeeps ==
    ASSUME Inv, Keeping, Savepoint
    PROVE  Keeping'
<1> DEFINE s == [tenant |-> tenant, n |-> opened + 2]
           d == Cmd("SAVEPOINT", s, tenant, "user")
<1>1. frames # <<>>
  BY DEF Savepoint, Inv, Base, Nested, InScope
<1>2. Len(frames) \in Nat \ {0} /\ frames \in Seq(Scopes) /\ tenant \in 1..Tenants
  BY <1>1, TopTyped DEF Inv, Base, Typed
<1>3. s \in Scopes /\ s.n > 1 /\ s.tenant = tenant
  BY <1>2, BoundsAssumption DEF Savepoint, Inv, Base, Typed, Scopes
<1>4. Send(d) /\ frames' = Append(frames, s) /\ pc = "body" /\ pc' = "begin"
      /\ UNCHANGED <<tenant, tasks, conn, levels, outcome, committed, acked, hollow, raced>>
  BY DEF Savepoint, Call, serverVars, history
<1> HIDE DEF s
<1>5. d \in Commands /\ d.op # "WRITE"
  <2>1. d \in Commands
    BY <1>3, CommandTyped
  <2> QED
    BY <2>1 DEF Cmd
<1> HIDE DEF d
<1>6. Queues
  BY <1>4, <1>5, SendQueued, QueuesSame DEF Inv
<1>7. frames' # <<>> /\ \A k \in 1..Len(frames) : frames'[k] = frames[k]
  <2>1. Len(frames') = Len(frames) + 1 /\ \A k \in 1..Len(frames) : frames'[k] = frames[k]
    BY <1>2, <1>3, <1>4, AppendFacts
  <2>2. Len(frames') # 0
    BY <1>2, <2>1
  <2> QED
    BY <2>1, <2>2, EmptySeqFacts
<1>8. ASSUME NEW w \in Writes PROVE Moves(w)
  <2>1. Lost(w) => Lost(w)'
    BY <1>4 DEF Lost
  <2>2. Current(w) => Current(w)'
    BY <1>4, <1>7 DEF Current, Finishing
  <2>3. ASSUME w.tenant \notin raced, Pending(w) PROVE Pending(w)'
    <3>1. tenant \notin raced /\ Current(w)'
      BY <2>2, <2>3 DEF Pending, Current
    <3>2. ASSUME conn = "alive", Cleanups(tenant) = {} PROVE Stored(w)'
      <4>1. Stored(w)
        BY <1>4, <2>3, <3>2 DEF Pending, Losing
      <4>2. PICK i \in 1..Len(levels) : w \in levels[i].writes /\ \A k \in 1..i : frames[k] \in w.in
        BY <4>1 DEF Stored
      <4>3. Len(levels) \in 0..Len(frames)
        BY <1>1, <1>4, <3>1, <3>2, StoredDepth DEF Starting
      <4>4. \A k \in 1..i : k \in 1..Len(frames)
        BY <1>2, <4>3
      <4> QED
        BY <1>4, <1>7, <4>2, <4>4 DEF Stored
    <3> QED
      BY <1>4, <3>1, <3>2 DEF Pending, Cleanups
  <2> QED
    BY <2>1, <2>2, <2>3 DEF Moves
<1>9. conn' = "discarded" => frames' = <<>>
  BY <1>1, <1>4 DEF Keeping, Promised
<1> QED
  BY <1>4, <1>6, <1>8, <1>9, KeptMove DEF Inv, Keeping

(* The innermost scope returns.                                             *)
LEMMA LeaveKeeps ==
    ASSUME Inv, Keeping, Left, frames # <<>>, NEW r \in {"ok", "err", "unknown"}, Leave(r),
           reply # "none",
           \/ tasks' = Spawned({Top})
           \/ tasks' = tasks /\ (Len(frames) = 1 \/ (pc \in {"finish", "abandon2"} /\ reply = "ok")),
           r = "ok" => pc = "finish" /\ reply = "ok",
           pc = "abandon2" => r # "ok",
           UNCHANGED <<tenant, conn, queue, levels, committed, acked, hollow, raced>>
    PROVE  Keeping'
<1>1. /\ tenant \in 1..Tenants /\ Top \in Scopes /\ Top.tenant = tenant
      /\ Len(frames) = 1 => Top = Tx(tenant)
      /\ Len(frames) # 1 => Len(frames) > 1 /\ Top.n > 1
      /\ Len(frames) \in Nat \ {0} /\ frames \in Seq(Scopes)
  <2>1. Len(frames) = 1 => Top = Tx(tenant)
    BY DEF Inv, Base, Nested, Top
  <2> QED
    BY <2>1, TopTyped, LevelsTyped DEF Inv, Base
<1>2. pc' = (IF Len(frames) = 1 THEN "done" ELSE "body") /\ outcome' = [outcome EXCEPT ![Top] = r]
      /\ outcome \in [Scopes -> {"none", "ok", "err", "dropped", "unknown"}]
  BY DEF Leave, Inv, Base, Typed
<1>3. outcome'[Top] = r /\ outcome[Top] = "none" /\ \A s \in Scopes : s # Top => outcome'[s] = outcome[s]
  <2>1. outcome[frames[Len(frames)]] = "none"
    BY <1>1 DEF Inv, Fresh
  <2> QED
    BY <1>1, <1>2, <2>1 DEF Top
<1>4. Len(frames') = Len(frames) - 1 /\ frames' \in Seq(Scopes)
      /\ \A i \in 1..(Len(frames) - 1) : frames'[i] = frames[i]
  BY DEF Left
<1>5. Len(frames) # 1 => frames' # <<>>
  <2> HIDE DEF Left
  <2> QED
    BY <1>1, <1>4
<1>6. Len(frames) = 1 => (r = "ok" => Finishing(Tx(tenant)))
  <2>1. Len(frames) = 1 => frames = <<Tx(tenant)>>
    BY <1>1 DEF Inv, Base, Nested
  <2> QED
    BY <2>1 DEF Finishing
<1>7. tasks' = Spawned({Top}) /\ Len(frames) # 1 => Cleanups(tenant)' # {}
  <2> DEFINE u == [kind |-> "cleanup", scope |-> Top, step |-> 1]
  <2>1. u.scope = Top
    OBVIOUS
  <2>2. tasks' = Spawned({Top}) => u \in tasks'
    BY DEF Spawned
  <2> HIDE DEF u
  <2> QED
    BY <1>1, <2>1, <2>2 DEF Cleanups
<1>8. ASSUME NEW w \in Writes, Rooted(w) PROVE Moves(w)
  <2>1. w.in \subseteq Scopes
    BY DEF Writes
  <2>2. Lost(w) => Lost(w)'
    BY <1>3, <2>1 DEF Lost
  <2>3. r # "ok" /\ Top \in w.in => Lost(w)'
    BY <1>3 DEF Lost
  <2>31. ASSUME Current(w), Len(frames) = 1 PROVE Lost(w)'
    <3>1. tenant = w.tenant /\ ~Finishing(Tx(tenant))
      BY <2>31 DEF Current
    <3>2. Top \in w.in
      BY <1>1, <1>8, <2>31, <3>1 DEF Rooted
    <3> QED
      BY <1>6, <2>3, <2>31, <3>1, <3>2
  <2>4. ASSUME Current(w) PROVE Lost(w)' \/ Current(w)'
    <3>1. CASE Len(frames) = 1
      BY <2>31, <2>4, <3>1
    <3>2. CASE Len(frames) # 1
      BY <1>2, <1>5, <2>4, <3>2 DEF Current, Finishing
    <3> QED
      BY <3>1, <3>2
  <2>5. ASSUME w.tenant \notin raced, Pending(w), ~Lost(w)' PROVE Pending(w)'
    <3>1. Current(w) /\ Current(w)' /\ tenant \notin raced
      BY <2>4, <2>5 DEF Pending, Current
    <3>2. Len(frames) # 1
      BY <2>31, <2>5, <3>1
    <3>3. ASSUME conn = "alive", Cleanups(tenant)' = {} PROVE Stored(w)'
      <4>1. tasks' = tasks /\ pc \in {"finish", "abandon2"} /\ reply = "ok"
        BY <1>7, <3>2, <3>3
      <4>2. Cleanups(tenant) = {}
        BY <3>3, <4>1 DEF Cleanups
      <4>3. ~Losing(w)
        BY <2>3, <2>5, <4>1 DEF Losing
      <4>4. PICK i \in 1..Len(levels) : w \in levels[i].writes /\ \A k \in 1..i : frames[k] \in w.in
        BY <2>5, <3>3, <4>2, <4>3 DEF Pending, Stored
      <4>5. Len(levels) = Depth
        BY <3>1, <3>3, <4>1, <4>2, StoredDepth DEF Starting
      <4>6. Depth = Len(frames) - 1
        BY <3>2, <4>1 DEF Depth, Ended
      <4>7. \A k \in 1..i : k \in 1..(Len(frames) - 1)
        BY <1>1, <4>5, <4>6
      <4> QED
        BY <1>4, <4>4, <4>7 DEF Stored
    <3> QED
      BY <3>1, <3>3 DEF Pending
  <2> QED
    BY <2>2, <2>4, <2>5 DEF Moves
<1>9. conn' = "discarded" => frames' = <<>>
  BY DEF Keeping, Promised
<1> QED
  BY <1>8, <1>9, KeptMove, StaysPut DEF Inv, Keeping

LEMMA EnterFailsKeeps ==
    ASSUME Inv, Keeping, EnterFails
    PROVE  Keeping'
<1>1. frames # <<>>
  BY DEF EnterFails, Answered, Inv, Base, Nested, InScope
<1>2. /\ UNCHANGED <<pooled, tenant, opened, sent, drops, broken, conn, queue, levels, failed,
                     committed, known, acked, hollow, raced>>
      /\ reply' = "none" /\ pc = "begin" /\ reply = "err" /\ Leave("err") /\ tasks' = Spawned({Top})
  BY DEF EnterFails, LeaveArmed, Answered, serverVars
<1>3. Left
  BY <1>1, <1>2, LeaveBase DEF Inv
<1> QED
  BY <1>1, <1>2, <1>3, LeaveKeeps

LEMMA FinishedKeeps ==
    ASSUME Inv, Keeping, Finished
    PROVE  Keeping'
<1>1. frames # <<>>
  BY DEF Finished, Answered, Inv, Base, Nested, InScope
<1>2. /\ UNCHANGED <<pooled, tenant, opened, sent, drops, broken, conn, queue, levels, failed,
                     committed, known, acked, hollow, raced>>
      /\ reply' = "none" /\ pc = "finish" /\ reply = "ok" /\ Leave("ok") /\ tasks' = tasks
  BY DEF Finished, Answered, serverVars
<1>3. Left
  BY <1>1, <1>2, LeaveBase DEF Inv
<1> QED
  BY <1>1, <1>2, <1>3, LeaveKeeps

LEMMA FinishFailsKeeps ==
    ASSUME Inv, Keeping, FinishFails
    PROVE  Keeping'
<1>1. frames # <<>>
  BY DEF FinishFails, Answered, Inv, Base, Nested, InScope
<1>2. PICK r \in {"err", "unknown"} : Leave(r)
  BY DEF FinishFails, LeaveArmed
<1>3. /\ UNCHANGED <<pooled, tenant, opened, sent, drops, broken, conn, queue, levels, failed,
                     committed, known, acked, hollow, raced>>
      /\ reply' = "none" /\ pc = "finish" /\ reply = "err" /\ tasks' = Spawned({Top})
  BY DEF FinishFails, LeaveArmed, Answered, serverVars
<1>4. Left
  BY <1>1, <1>2, <1>3, LeaveBase DEF Inv
<1> QED
  BY <1>1, <1>2, <1>3, <1>4, LeaveKeeps

LEMMA RolledBackKeeps ==
    ASSUME Inv, Keeping, RolledBack
    PROVE  Keeping'
<1>1. frames # <<>>
  BY DEF RolledBack, Inv, Base, Nested, InScope
<1>2. /\ UNCHANGED <<pooled, tenant, opened, sent, drops, broken, conn, queue, levels, failed,
                     committed, known, acked, hollow, raced>>
      /\ reply' = "none" /\ pc = "abandon" /\ reply # "none" /\ Leave("err") /\ tasks' = tasks
      /\ Len(frames) = 1
  BY DEF RolledBack, serverVars
<1>3. Left
  BY <1>1, <1>2, LeaveBase DEF Inv
<1> QED
  BY <1>1, <1>2, <1>3, LeaveKeeps

LEMMA ReleasedKeeps ==
    ASSUME Inv, Keeping, Released
    PROVE  Keeping'
<1>1. frames # <<>>
  BY DEF Released, Answered, Inv, Base, Nested, InScope
<1>2. /\ UNCHANGED <<pooled, tenant, opened, sent, drops, broken, conn, queue, levels, failed,
                     committed, known, acked, hollow, raced>>
      /\ reply' = "none" /\ pc = "abandon2" /\ reply = "ok" /\ Leave("err") /\ tasks' = tasks
  BY DEF Released, Answered, serverVars
<1>3. Left
  BY <1>1, <1>2, LeaveBase DEF Inv
<1> QED
  BY <1>1, <1>2, <1>3, LeaveKeeps

LEMMA RollbackToFailsKeeps ==
    ASSUME Inv, Keeping, RollbackToFails
    PROVE  Keeping'
<1>1. frames # <<>>
  BY DEF RollbackToFails, Inv, Base, Nested, InScope
<1>2. /\ UNCHANGED <<pooled, tenant, opened, sent, drops, broken, conn, queue, levels, failed,
                     committed, known, acked, hollow, raced>>
      /\ reply' = "none" /\ pc \in {"abandon", "abandon2"} /\ reply = "err" /\ Leave("err")
      /\ tasks' = Spawned({Top})
  BY DEF RollbackToFails, LeaveArmed, serverVars
<1>3. Left
  BY <1>1, <1>2, LeaveBase DEF Inv
<1> QED
  BY <1>1, <1>2, <1>3, LeaveKeeps

LEMMA DropKeeps ==
    ASSUME Inv, Keeping, Drop
    PROVE  Keeping'
<1>1. /\ tenant \in 1..Tenants /\ Len(frames) \in Nat \ {0} /\ frames \in Seq(Scopes)
      /\ frames # <<>> /\ queue \in Seq(Commands) /\ Len(queue) \in Nat
  BY TopTyped, LevelsTyped DEF Inv, Base, Drop
<1>2. PICK k \in 1..Len(frames) : Cut(k)
  BY DropBase DEF Inv
<1>3. /\ Len(queue') = Len(queue) /\ \A i \in 1..Len(queue) : queue'[i] = Orphaned(queue[i])
  <2>1. queue' = [i \in 1..Len(queue) |->
                    IF queue[i].by = "user" THEN [queue[i] EXCEPT !.by = "orphan"] ELSE queue[i]]
    BY DEF Drop
  <2>2. queue \in Seq(Commands)
    BY <1>1
  <2> QED
    BY <2>1, <2>2, OrphanedQueue, ZenonT(30)
<1>4. \A i \in 1..Len(queue) :
          queue'[i].op = queue[i].op /\ queue'[i].arg = queue[i].arg /\ queue'[i].tenant = queue[i].tenant
  BY <1>3, QueuedTyped, OrphanedFacts DEF Inv
<1>5. Queues
  BY <1>3, <1>4 DEF Queues
<1>6. UNCHANGED <<tenant, conn, levels, committed, acked, hollow, raced>> /\ reply' = "none"
  BY DEF Drop, serverVars
<1> DEFINE out == {frames[i] : i \in k..Len(frames)}
<1>7. /\ tasks' = Spawned(out) /\ pc' = (IF k = 1 THEN "done" ELSE "body")
      /\ \A s \in Scopes : outcome'[s] = IF s \notin out THEN outcome[s]
                                         ELSE IF s = Top /\ pc = "finish" THEN "unknown" ELSE "dropped"
  BY <1>2 DEF Cut
<1>8. frames[k] \in out /\ Len(frames') = k - 1 /\ frames[k] \in Scopes /\ frames' \in Seq(Scopes)
  BY <1>1, <1>2 DEF Cut
<1>9. k # 1 => frames' # <<>> /\ frames[k].tenant = tenant /\ frames[k].n > 1
  <2>1. k # 1 => k \in 2..Len(frames)
    BY <1>1
  <2>2. k # 1 => frames[k].tenant = tenant /\ frames[k].n \in 2..(opened + 1) /\ opened \in Nat
    BY <2>1 DEF Inv, Base, Nested, Typed
  <2>3. k # 1 => Len(frames') # 0
    BY <1>1, <1>8
  <2> QED
    BY <2>2, <2>3, EmptySeqFacts
<1>10. k = 1 => frames[k] = Tx(tenant)
  BY <1>1 DEF Inv, Base, Nested
<1>11. k # 1 => Cleanups(tenant)' # {}
  <2> DEFINE u == [kind |-> "cleanup", scope |-> frames[k], step |-> 1]
  <2>1. u.scope = frames[k] /\ u \in tasks'
    BY <1>7, <1>8 DEF Spawned
  <2> HIDE DEF u
  <2> QED
    BY <1>6, <1>9, <2>1 DEF Cleanups
<1> HIDE DEF out
<1>12. ASSUME NEW w \in Writes, Rooted(w) PROVE Moves(w)
  <2>1. w.in \subseteq Scopes
    BY DEF Writes
  <2>2. Lost(w) => Lost(w)'
    BY <1>7, <2>1 DEF Lost
  <2>3. frames[k] \in w.in => Lost(w)'
    BY <1>7, <1>8 DEF Lost
  <2>4. Current(w) => Lost(w)' \/ Current(w)'
    <3>1. CASE k = 1
      BY <1>10, <1>12, <2>3, <3>1 DEF Current, Rooted
    <3>2. CASE k # 1
      BY <1>6, <1>7, <1>9, <3>2 DEF Current, Finishing
    <3> QED
      BY <3>1, <3>2
  <2>5. Current(w) /\ ~Lost(w)' => k # 1
    BY <1>10, <1>12, <2>3 DEF Current, Rooted
  <2>6. Pending(w) => Lost(w)' \/ Pending(w)'
    BY <1>6, <1>11, <2>4, <2>5 DEF Pending
  <2> QED
    BY <2>2, <2>4, <2>6 DEF Moves
<1>13. conn' = "discarded" => frames' = <<>>
  BY <1>1, <1>6 DEF Keeping, Promised
<1> QED
  BY <1>5, <1>6, <1>12, <1>13, KeptMove DEF Inv, Keeping

LEMMA TaskStepKeeps ==
    ASSUME Inv, Keeping, NEW t \in tasks, TaskStep(t)
    PROVE  Keeping'
<1>1. /\ t \in Tasks /\ tasks \subseteq Tasks /\ queue \in Seq(Commands) /\ Len(queue) \in Nat
      /\ t.scope \in Scopes /\ t.kind \in Leftovers
  BY LevelsTyped DEF Inv, Tasks
<1>2. IF Sends(t) THEN queue' = Append(queue, TaskCmd(t)) /\ tasks' = (tasks \ {t}) \cup {Later(t)}
      ELSE tasks' = tasks \ {t} /\ UNCHANGED queue
  BY DEF TaskStep, Sends, TaskCmd, Later
<1>3. ASSUME Sends(t)
      PROVE  /\ TaskCmd(t) \in Commands /\ TaskCmd(t).op \notin {"BEGIN", "WRITE"}
             /\ Later(t).scope = t.scope
  BY <1>1, <1>3, TaskCommand DEF Sends, TaskCmd, Cmd
<1>4. Sends(t) => Grown(TaskCmd(t)) /\ conn = "alive"
  BY <1>2, <1>3, GrownFacts DEF Inv, Sends
<1>5. UNCHANGED <<tenant, pc, frames, reply, conn, levels, committed, outcome, acked, hollow, raced>>
      /\ ~Waits(t)
  BY DEF TaskStep, callVars, serverVars, history
<1>6. Queues
  <2>1. CASE Sends(t)
    BY <1>3, <1>4, <2>1, QueuesSame DEF Queued
  <2>2. CASE ~Sends(t)
    BY <1>2, <2>2, StaysPut
  <2> QED
    BY <2>1, <2>2
<1>7. ASSUME Alone, Cleanups(tenant) # {} PROVE Cleanups(tenant)' # {}
  <2>1. PICK u \in Cleanups(tenant) : TRUE
    BY <1>7
  <2>2. CASE u # t
    BY <1>2, <1>5, <2>1, <2>2 DEF Cleanups
  <2>3. CASE u = t
    <3>1. t.step = 1 /\ t.scope.n > 1 /\ conn = "alive"
      BY <1>5, <1>7, <2>1, <2>3 DEF Inv, Waiting, Alone, Cleanups
    <3>2. Sends(t)
      BY <1>1, <3>1 DEF Sends, Script
    <3> QED
      BY <1>2, <1>3, <1>5, <2>1, <2>3, <3>2 DEF Cleanups
  <2> QED
    BY <2>2, <2>3
<1>8. ASSUME NEW w \in Writes PROVE Moves(w)
  <2>1. (Lost(w) => Lost(w)') /\ (Current(w) => Current(w)')
    BY <1>5 DEF Lost, Current, Finishing
  <2>2. (Stored(w) => Stored(w)') /\ (Losing(w) => Losing(w)')
    BY <1>5 DEF Stored, Losing, Top
  <2>3. ASSUME w.tenant \notin raced, Pending(w) PROVE Pending(w)'
    <3>1. frames # <<>> /\ tenant \notin raced /\ Current(w)
      BY <2>3 DEF Pending, Current
    <3>2. conn = "alive" /\ Cleanups(tenant)' = {} => Cleanups(tenant) = {}
      BY <1>7, <3>1 DEF Alone
    <3> QED
      BY <1>5, <2>1, <2>2, <2>3, <3>1, <3>2 DEF Pending
  <2> QED
    BY <2>1, <2>3 DEF Moves
<1>9. conn' = "discarded" => frames' = <<>>
  BY <1>5 DEF Keeping, Promised
<1> QED
  BY <1>5, <1>6, <1>8, <1>9, KeptMove DEF Inv, Keeping

LEMMA DieKeeps ==
    ASSUME Inv, Keeping, Die
    PROVE  Keeping'
<1>1. /\ UNCHANGED <<tenant, pc, frames, committed, outcome, acked, hollow, raced>>
      /\ conn' = "dead" /\ queue' = <<>> /\ (reply' = reply \/ reply' = "err")
  BY DEF Die, callVars, history
<1>2. Queues
  BY <1>1, EmptySeqFacts DEF Queues
<1>3. ASSUME NEW w \in Writes PROVE Moves(w)
  <2>1. (Lost(w) => Lost(w)') /\ (Current(w) => Current(w)')
    BY <1>1 DEF Lost, Current, Finishing
  <2> QED
    BY <1>1, <2>1 DEF Moves, Pending
<1> QED
  BY <1>1, <1>2, <1>3, KeptMove DEF Inv, Keeping

(* The COMMIT of a transaction is executed behind its statements.           *)
LEMMA ExecutedPromised ==
    ASSUME Inv, Promised, NEW c, NEW x, Run(c, x), Recorded(c, x)
    PROVE  Promised'
<1>1. /\ Shifted(c) /\ UNCHANGED <<tenant, pc, frames, conn, outcome>> /\ c \in Commands
      /\ raced \subseteq raced'
  BY DEF Run
<1>2. \A w : Rooted(w)' = Rooted(w)
  BY DEF Rooted, Tx
<1>3. c.op = "WRITE" => Rooted(c.arg)
  BY <1>1 DEF Shifted, Promised
<1>4. \A w \in acked' : Rooted(w)'
  BY <1>2, <1>3 DEF Recorded, Promised
<1>5. ASSUME NEW i \in 1..Len(queue'), NEW w, queue'[i].op = "WRITE", queue'[i].arg = w
      PROVE  Rooted(w) /\ (queue'[i].tenant \notin raced' => Lost(w)' \/ Current(w)')
  <2>1. i + 1 \in 1..Len(queue) /\ queue'[i] = queue[i + 1] /\ 1 \in 1..Len(queue) /\ queue[1] = c
        /\ i \in Nat \ {0}
    BY <1>1 DEF Shifted
  <2>2. Rooted(w) /\ (queue'[i].tenant \notin raced => Lost(w) \/ Current(w))
    BY <1>5, <2>1 DEF Promised
  <2>3. Lost(w) => Lost(w)'
    BY <1>1 DEF Lost
  <2>4. w.tenant = queue'[i].tenant
    <3>1. Proper(queue[i + 1])
      BY <2>1, QueuedTyped DEF Inv
    <3> QED
      BY <1>5, <2>1, <3>1 DEF Proper
  <2>5. ASSUME queue'[i].tenant \notin raced', Current(w), ~Current(w)' PROVE FALSE
    <3>1. tenant = w.tenant /\ Finishing(Tx(tenant))' /\ ~Finishing(Tx(tenant))
      BY <1>1, <2>5 DEF Current
    <3>2. frames = <<Tx(tenant)>> /\ pc = "finish" /\ reply' = "ok" /\ reply # "ok"
      BY <1>1, <3>1 DEF Finishing, Tx
    <3>3. Len(frames) = 1
      BY <3>2
    <3>4. c.by = "user"
      BY <3>2 DEF Run
    <3>5. Awaited(c) /\ c.tenant = tenant
      BY <3>4, UserWaits
    <3>6. IsOf(c, w.tenant)
      BY <3>1, <3>2, <3>3, <3>4, <3>5 DEF Awaited, IsOf, Ends
    <3>7. queue[i + 1].op = "WRITE" /\ queue[i + 1].tenant = w.tenant /\ w.tenant \notin raced
      BY <1>1, <1>5, <2>1, <2>4, <2>5
    <3>8. 1 \in 1..(i + 1 - 1)
      BY <2>1
    <3> QED
      BY <2>1, <3>6, <3>7, <3>8 DEF Inv, Sheltered
  <2> QED
    BY <1>1, <2>2, <2>3, <2>5
<1>6. ASSUME NEW i \in 1..Len(queue'), queue'[i].op = "WRITE"
      PROVE  (/\ Rooted(queue[i].arg)
              /\ queue[i].tenant \notin raced => Lost(queue[i].arg) \/ Current(queue[i].arg))'
  <2>1. PICK w : w = queue'[i].arg
    OBVIOUS
  <2>2. (Lost(w)' <=> Lost(queue[i].arg)') /\ (Current(w)' <=> Current(queue[i].arg)')
        /\ (Rooted(w)' <=> Rooted(queue[i].arg)')
    BY <2>1 DEF Lost, Current, Rooted
  <2> QED
    BY <1>2, <1>5, <1>6, <2>1, <2>2
<1> QED
  BY <1>1, <1>4, <1>6 DEF Promised

(* A level that keeps its place keeps its statements.                       *)
LEMMA StoredStill ==
    ASSUME NEW w, NEW i \in 1..Len(levels), w \in levels[i].writes, UNCHANGED frames,
           \A k \in 1..i : frames[k] \in w.in,
           i \in 1..Len(levels'), levels[i].writes \subseteq levels'[i].writes
    PROVE  Stored(w)'
  BY DEF Stored

(* The innermost level is merged into the one below it.                     *)
LEMMA StoredReleased ==
    ASSUME Base, NEW w, NEW i \in 1..Len(levels), w \in levels[i].writes, UNCHANGED frames,
           \A k \in 1..i : frames[k] \in w.in,
           NEW s \in Scopes, s.n > 1, NEW m \in Index(s), m = Len(levels), levels' = Merged(m)
    PROVE  Stored(w)'
<1>1. m \in 2..Len(levels) /\ Len(levels) \in Nat /\ Len(levels') = m - 1
      /\ (\A j \in 1..(m - 2) : levels'[j] = levels[j])
      /\ levels'[m - 1] = Level(levels[m - 1].scope, UNION {levels[j].writes : j \in (m - 1)..Len(levels)})
  BY IndexFacts, MergedFacts
<1>2. levels'[m - 1].writes = UNION {levels[j].writes : j \in (m - 1)..Len(levels)}
  BY <1>1 DEF Level
<1>3. CASE i \in 1..(m - 2)
  BY <1>1, <1>3 DEF Stored
<1>4. CASE i \in (m - 1)..Len(levels)
  <2>1. w \in levels'[m - 1].writes
    BY <1>2, <1>4
  <2>2. m - 1 \in 1..Len(levels') /\ \A k \in 1..(m - 1) : k \in 1..i
    BY <1>1, <1>4
  <2> QED
    BY <2>1, <2>2 DEF Stored
<1> QED
  BY <1>1, <1>3, <1>4

(* The statement of a running transaction: it stays at its level, or its    *)
(* scope is rolled back and about to say so, or COMMIT makes it permanent.  *)
LEMMA ExecutedPending ==
    ASSUME Inv, Promised, NEW c, NEW x, Run(c, x), Recorded(c, x),
           NEW w \in Writes, Rooted(w), Pending(w), w.tenant \notin raced' \cup hollow'
    PROVE  w \in committed' \/ Pending(w)'
<1>1. /\ c \in Commands /\ Form(c, x) /\ x.reply \in {"ok", "err"} /\ Fair(c) /\ Base
      /\ UNCHANGED <<tenant, pc, frames, tasks, conn, outcome>> /\ levels' = x.levels
      /\ committed' = committed \cup x.new
  BY RunFair DEF Run, Inv
<1>2. frames # <<>> /\ tenant = w.tenant /\ conn = "alive"
  <2>1. frames # <<>> /\ tenant = w.tenant
    BY DEF Pending, Current
  <2>2. conn # "dead" /\ conn # "discarded"
    BY <2>1 DEF Run, Promised
  <2> QED
    BY <2>1, <2>2 DEF Inv, Base, Typed
<1>3. /\ Alone /\ tasks = {} /\ c.by = "user" /\ Awaited(c) /\ reply = "none"
      /\ c.tenant = tenant /\ reply' = x.reply /\ tenant \notin raced'
  <2>1. Alone'
    BY <1>1, <1>2 DEF Alone
  <2> QED
    BY <2>1, AloneWaits
<1>4. Cleanups(tenant) = {} /\ pc \in InScope /\ Len(frames) \in Nat \ {0} /\ Top \in Scopes
      /\ (Len(frames) # 1 => Len(frames) > 1 /\ Top.n > 1)
  BY <1>1, <1>2, <1>3, TopTyped DEF Cleanups, Base, Nested
<1>5. Stored(w) \/ (Losing(w) /\ pc \in {"abandon", "abandon2"})
  BY <1>2, <1>3, <1>4 DEF Pending, Losing
<1>6. Top' = Top
  BY <1>1 DEF Top
<1>7. ~(Len(frames) = 1 /\ pc = "finish") => Current(w)'
  <2>1. frames = <<Tx(tenant)>> => Len(frames) = 1
    OBVIOUS
  <2> QED
    BY <1>1, <1>2, <2>1 DEF Current, Finishing, Tx
<1>8. CASE Top \in w.in /\ pc \in {"abandon", "abandon2"}
  BY <1>1, <1>6, <1>7, <1>8 DEF Pending, Losing
<1>9. CASE Stored(w) /\ ~(Top \in w.in /\ pc \in {"abandon", "abandon2"})
  <2>1. PICK i \in 1..Len(levels) : w \in levels[i].writes /\ \A k \in 1..i : frames[k] \in w.in
    BY <1>9 DEF Stored
  <2>2. Owner = tenant /\ levels # <<>> /\ levels \in Seq(LevelSet) /\ Len(levels) \in Nat
    <3>1. Owner = tenant
      BY <1>2, <1>3, <2>1 DEF Inv, OwnWrites, Alone
    <3> QED
      BY <1>1, <2>1, <3>1, LevelsTyped
  <2>3. ~Starting
    <3>1. Starting => Prior(tenant)
      BY DEF Prior
    <3> QED
      BY <1>1, <1>2, <2>2, <3>1, TopTyped DEF Inv, Untouched, Base
  <2>4. Matches /\ Len(levels) = Depth /\ Distinct(frames)
    BY <1>2, <1>3, <1>4, <2>3, StoredDepth DEF Alone, Inv, Fresh
  <2>5. ASSUME Stored(w)', ~(Len(frames) = 1 /\ pc = "finish") PROVE Pending(w)'
    BY <1>7, <2>5 DEF Pending
  <2>6. ASSUME Still(c, x), ~(Len(frames) = 1 /\ pc = "finish") PROVE Pending(w)'
    BY <1>1, <2>1, <2>5, <2>6, StoredStill DEF Still
  <2>7. CASE pc = "begin"
    <3>1. c.op = "SAVEPOINT"
      BY <1>3, <2>3, <2>7 DEF Awaited, Starting
    <3>2. Still(c, x) \/ Deepens(c, x)
      BY <1>1, <3>1 DEF Form, Opens, Closes, Releases, Restores, Joins, Autocommits, Ends
    <3>3. ASSUME Deepens(c, x) PROVE Stored(w)'
      <4>1. c.arg \in Scopes
        BY <1>1, <3>1 DEF Commands, Proper
      <4>2. Level(c.arg, {}) \in LevelSet
        BY <4>1 DEF Level, LevelSet
      <4>3. Len(levels') = Len(levels) + 1 /\ \A j \in 1..Len(levels) : levels'[j] = levels[j]
        BY <1>1, <2>2, <3>3, <4>2, AppendFacts DEF Deepens
      <4>4. i \in 1..Len(levels')
        BY <2>2, <4>3
      <4> QED
        BY <1>1, <2>1, <4>3, <4>4, StoredStill
    <3> QED
      BY <2>5, <2>6, <2>7, <3>2, <3>3
  <2>8. CASE pc = "write"
    <3>1. c.op = "WRITE"
      BY <1>3, <2>8 DEF Awaited
    <3>2. Still(c, x) \/ Joins(c, x)
      BY <1>1, <2>2, <3>1 DEF Form, Opens, Closes, Deepens, Releases, Restores, Autocommits, Ends
    <3>3. ASSUME Joins(c, x) PROVE Stored(w)'
      <4>1. i \in 1..Len(levels') /\ levels[i].writes \subseteq levels'[i].writes
        BY <1>1, <3>3 DEF Joins, Joined
      <4> QED
        BY <1>1, <2>1, <4>1, StoredStill
    <3> QED
      BY <2>5, <2>6, <2>8, <3>2, <3>3
  <2>9. CASE pc = "stream"
    <3>1. c.op = "BEGIN"
      BY <1>3, <2>9 DEF Awaited
    <3>2. Still(c, x)
      BY <1>1, <2>2, <3>1 DEF Form, Opens, Closes, Deepens, Releases, Restores, Joins, Autocommits, Ends
    <3> QED
      BY <2>6, <2>9, <3>2
  <2>10. CASE Len(frames) = 1 /\ pc = "finish"
    <3>1. c.op = "COMMIT"
      BY <1>3, <2>10 DEF Awaited
    <3>2. CASE x.reply = "ok"
      <4>1. ~failed
        BY <1>2, <2>2, <3>1 DEF Recorded
      <4>2. x.new = AllWrites
        BY <2>2, <3>1, <3>2, <4>1 DEF Recorded
      <4>3. w \in AllWrites
        BY <2>1 DEF AllWrites
      <4> QED
        BY <1>1, <4>2, <4>3
    <3>3. CASE x.reply = "err"
      <4>1. Top \in w.in
        BY <2>1, <2>10 DEF Top
      <4>2. Losing(w)'
        BY <1>1, <1>3, <1>6, <2>10, <3>3, <4>1 DEF Losing
      <4>3. Current(w)'
        BY <1>1, <1>2, <1>3, <3>3 DEF Current, Finishing
      <4> QED
        BY <4>2, <4>3 DEF Pending
    <3> QED
      BY <1>1, <3>2, <3>3
  <2>11. CASE Len(frames) # 1 /\ pc \in {"finish", "abandon2"}
    <3>1. c.op = "RELEASE" /\ c.arg = Top
      BY <1>3, <2>11 DEF Awaited
    <3>2. Still(c, x) \/ Releases(c, x)
      BY <1>1, <3>1 DEF Form, Opens, Closes, Deepens, Restores, Joins, Autocommits, Ends
    <3>3. ASSUME Releases(c, x) PROVE Stored(w)'
      <4>1. PICK m \in Index(Top) : levels' = Merged(m)
        BY <1>1, <3>1, <3>3 DEF Releases
      <4>2. Depth = Len(frames)
        BY <1>3, <2>11 DEF Depth, Ended
      <4>3. m = Len(levels)
        BY <1>1, <1>2, <2>4, <4>2, TopIndex
      <4> QED
        BY <1>1, <1>4, <2>1, <2>11, <4>1, <4>3, StoredReleased
    <3> QED
      BY <2>5, <2>6, <2>11, <3>2, <3>3
  <2>12. CASE pc = "abandon"
    <3>1. Top \notin w.in
      BY <1>9, <2>12
    <3>2. i # Len(frames) /\ Len(levels) = Len(frames)
      <4>1. Len(levels) = Len(frames)
        BY <1>3, <2>4, <2>12 DEF Depth, Ended
      <4>2. i \in 1..i
        BY <2>1
      <4> QED
        BY <2>1, <3>1, <4>1, <4>2 DEF Top
    <3>3. Len(frames) # 1 /\ i \in 1..(Len(frames) - 1)
      BY <1>4, <2>1, <3>2
    <3>4. c.op = "ROLLBACK_TO" /\ c.arg = Top
      BY <1>3, <2>12, <3>3 DEF Awaited
    <3>5. Still(c, x) \/ Restores(c, x)
      BY <1>1, <3>4 DEF Form, Opens, Closes, Deepens, Releases, Joins, Autocommits, Ends
    <3>6. ASSUME Restores(c, x) PROVE Stored(w)'
      <4>1. PICK m \in Index(Top) : levels' = Restored(m, Top)
        BY <1>1, <3>4, <3>6 DEF Restores
      <4>2. Depth = Len(frames)
        BY <1>3, <2>12 DEF Depth, Ended
      <4>3. m = Len(frames)
        BY <1>1, <1>2, <2>4, <4>2, TopIndex
      <4>4. Len(levels') = m /\ \A j \in 1..(m - 1) : levels'[j] = levels[j]
        BY <1>1, <1>4, <3>3, <4>1, RestoredFacts
      <4>5. i \in 1..Len(levels') /\ levels'[i] = levels[i]
        BY <1>4, <3>3, <4>3, <4>4
      <4> QED
        BY <1>1, <2>1, <4>5, StoredStill
    <3> QED
      BY <2>5, <2>6, <3>3, <3>5, <3>6
  <2>13. pc # "body" /\ (pc = "abandon2" => Len(frames) # 1)
    BY <1>1, <1>3, <1>4 DEF Awaited, Base, Nested
  <2> QED
    BY <1>4, <2>7, <2>8, <2>9, <2>10, <2>11, <2>12, <2>13 DEF InScope
<1> QED
  BY <1>5, <1>8, <1>9 DEF Losing

(* A statement is answered with success.                                    *)
LEMMA ExecutedWrite ==
    ASSUME Inv, Promised, NEW c, NEW x, Run(c, x), c.op = "WRITE", x.reply = "ok",
           NEW w, w = c.arg, w.tenant \notin raced'
    PROVE  Lost(w)' \/ w \in committed' \/ Pending(w)'
<1>1. /\ c \in Commands /\ Form(c, x) /\ Shifted(c) /\ Fair(c) /\ Base
      /\ UNCHANGED <<tenant, pc, frames, tasks, conn, outcome>> /\ levels' = x.levels
      /\ committed' = committed \cup x.new
  BY RunFair DEF Run, Inv
<1>2. Proper(c) /\ c.tenant = w.tenant /\ c.by \in {"user", "orphan"}
  BY <1>1 DEF Commands, Proper, Leftovers
<1>3. Joins(c, x) \/ Autocommits(c, x)
  BY <1>1 DEF Form, Still, Opens, Closes, Deepens, Releases, Restores, Ends
<1>4. CASE Autocommits(c, x)
  BY <1>1, <1>4 DEF Autocommits
<1>5. CASE Joins(c, x) /\ c.by = "orphan"
  <2>1. w.tenant \notin raced
    BY <1>1 DEF Fair
  <2>2. Lost(w) \/ Current(w)
    BY <1>1, <1>2, <2>1 DEF Shifted, Promised
  <2>3. ~Current(w)
    BY <1>1, <1>5 DEF Current, Fair
  <2> QED
    BY <1>1, <2>2, <2>3 DEF Lost
<1>6. CASE Joins(c, x) /\ c.by = "user"
  <2>1. Awaited(c) /\ reply = "none" /\ c.tenant = tenant
    BY <1>6, UserWaits
  <2>2. pc = "write" /\ w.in = Members(frames) /\ frames # <<>> /\ tenant = w.tenant
    BY <1>1, <1>2, <2>1 DEF Awaited, Base, Nested, InScope
  <2>3. Current(w)'
    BY <1>1, <2>2 DEF Current, Finishing
  <2>4. ASSUME conn = "alive", Cleanups(tenant) = {} PROVE Stored(w)'
    <3>1. Len(levels) = Depth /\ Len(frames) \in Nat \ {0} /\ tenant \notin raced
      BY <1>1, <2>2, <2>4, StoredDepth, TopTyped DEF Starting, Base, Fair
    <3>2. Len(levels) = Len(frames)
      BY <2>2, <3>1 DEF Depth, Ended
    <3>3. Len(levels') = Len(frames) /\ w \in levels'[Len(frames)].writes
      <4>1. Joined(levels', w) /\ Len(levels) \in 1..Len(levels)
        BY <1>1, <1>6, <3>1, <3>2 DEF Joins
      <4> QED
        BY <3>2, <4>1 DEF Joined
    <3>4. \A k \in 1..Len(frames) : frames'[k] \in w.in
      BY <1>1, <2>2 DEF Members
    <3> QED
      BY <3>1, <3>3, <3>4 DEF Stored
  <2> QED
    BY <1>1, <2>3, <2>4 DEF Pending, Cleanups
<1> QED
  BY <1>2, <1>3, <1>4, <1>5, <1>6

LEMMA ExecuteKeeps ==
    ASSUME Inv, Keeping, Execute
    PROVE  Keeping'
<1>1. PICK c \in Commands : \E x : Run(c, x) /\ Recorded(c, x)
  BY ExecuteRuns DEF Inv
<1>2. PICK x : Run(c, x) /\ Recorded(c, x)
  BY <1>1
<1>3. Promised'
  BY <1>2, ExecutedPromised DEF Keeping
<1>4. ASSUME NEW w \in acked', w.tenant \notin raced' \cup hollow'
      PROVE  Lost(w)' \/ w \in committed' \/ Pending(w)'
  <2>1. raced \subseteq raced' /\ hollow \subseteq hollow' /\ committed \subseteq committed'
        /\ UNCHANGED outcome
    BY <1>2 DEF Run, Recorded
  <2>2. CASE w \in acked
    <3>1. Rooted(w) /\ w \in Writes /\ (Lost(w) \/ w \in committed \/ Pending(w))
      BY <1>4, <2>1, <2>2 DEF Keeping, Promised, Kept, Inv, Base, Typed
    <3>2. Lost(w) => Lost(w)'
      BY <2>1 DEF Lost
    <3>3. Pending(w) => w \in committed' \/ Pending(w)'
      BY <1>2, <1>4, <3>1, ExecutedPending DEF Keeping
    <3> QED
      BY <2>1, <3>1, <3>2, <3>3
  <2>3. CASE w \notin acked
    <3>1. c.op = "WRITE" /\ x.reply = "ok" /\ w = c.arg
      BY <1>2, <1>4, <2>3 DEF Recorded
    <3> QED
      BY <1>2, <1>4, <3>1, ExecutedWrite DEF Keeping
  <2> QED
    BY <2>2, <2>3
<1> QED
  BY <1>3, <1>4 DEF Keeping, Kept

LEMMA KeepingStep ==
    ASSUME Inv, Keeping, [Next]_vars
    PROVE  Keeping'
<1>1. ASSUME Body PROVE Keeping'
  BY <1>1, BeginKeeps, SavepointKeeps, WriteKeeps, FinishKeeps, AbandonKeeps, OpenStreamKeeps DEF Body
<1>2. ASSUME TenantStep PROVE Keeping'
  BY <1>2, EnteredKeeps, EnterFailsKeeps, WrittenKeeps, FinishedKeeps, FinishFailsKeeps,
     RolledBackKeeps, RolledBackToKeeps, ReleasedKeeps, RollbackToFailsKeeps, StreamOpenedKeeps,
     ReuseKeeps, DropConnectionKeeps, RecycleKeeps, RecycleFailsKeeps, ReturnKeeps DEF TenantStep
<1>3. ASSUME NEW t \in tasks, TaskStep(t) PROVE Keeping'
  BY <1>3, TaskStepKeeps
<1>4. ASSUME UNCHANGED vars PROVE Keeping'
  <2>1. Queues /\ \A w : Moves(w)
    BY <1>4, StaysPut DEF vars, Moves, Lost, Current, Finishing, Pending, Stored, Losing, Top, Cleanups
  <2> QED
    BY <1>4, <2>1, KeptMove DEF vars, Inv, Keeping, Promised
<1> QED
  BY <1>1, <1>2, <1>3, <1>4, DropKeeps, ExecuteKeeps, DieKeeps DEF Next, Over

(* When transaction(f) returns Ok, every statement of it that was answered  *)
(* with success, in scopes that all returned Ok, took effect for good,      *)
(* unless the transaction raced with a leftover or COMMIT met an aborted    *)
(* transaction, which PostgreSQL answers as if it had worked: a savepoint   *)
(* keeps what it encloses when it is released, a rollback reaches no        *)
(* further than its own scope, and no acknowledgement outruns the COMMIT.   *)
THEOREM OkScopesArePermanent == Spec => []OkScopeIsPermanent
<1>1. Init => Keeping
  <2> SUFFICES ASSUME Init PROVE Keeping
    OBVIOUS
  <2>1. 1..Len(queue) = {} /\ acked = {} /\ frames = <<>>
    BY EmptySeqFacts DEF Init
  <2> QED
    BY <2>1 DEF Keeping, Promised, Kept
<1>2. Keeping /\ Inv /\ [Next]_vars => Keeping'
  BY KeepingStep
<1>3. Inv /\ (Base /\ Covered) /\ [Next]_vars => Inv'
  BY InvStep
<1>4. Init => Inv
  BY InvInit
<1>5. Inv /\ Keeping => OkScopeIsPermanent
  <2> SUFFICES ASSUME Inv, Keeping, NEW w \in acked, w.tenant \notin raced \cup hollow,
                      \A s \in w.in : outcome[s] = "ok"
               PROVE  w \in committed
    BY DEF OkScopeIsPermanent
  <2>1. Rooted(w) /\ ~Lost(w) /\ (Lost(w) \/ w \in committed \/ Pending(w))
    BY DEF Keeping, Promised, Kept, Lost
  <2>2. ASSUME Pending(w) PROVE FALSE
    <3>1. frames # <<>> /\ tenant = w.tenant
      BY <2>2 DEF Pending, Current
    <3>2. 1 \in 1..Len(frames) /\ frames[1] = Tx(tenant)
      BY <3>1, TopTyped DEF Inv, Base, Nested
    <3>3. outcome[Tx(tenant)] = "none"
      BY <3>2 DEF Inv, Fresh
    <3> QED
      BY <2>1, <3>1, <3>3 DEF Rooted
  <2> QED
    BY <2>1, <2>2
<1> QED
  BY <1>1, <1>2, <1>3, <1>4, <1>5, CoverInvariant, PTL DEF Spec
=============================================================================
