------------------------ MODULE StatementCacheProofs ------------------------
(***************************************************************************)
(* Proofs about the prepared-statement cache, for every set of handles and *)
(* keys, whether or not callers abandon their calls.                       *)
(***************************************************************************)
EXTENDS StatementCache, SequenceFacts, FiniteSetTheorems, TLAPS

-----------------------------------------------------------------------------
(* The inductive invariant *)

Sent == Members(queue)

(* The handles that an entry counts.                                        *)
Counting == {"live", "leaked"} \cup Releasing
Counted(k) == {h \in Handles : key[h] = k /\ pc[h] \in Counting}

(* Handles with a name of their own: prepare has not handed it out yet.     *)
OnItsOwn == {"named", "preparing", "prepared"}

(* Every name in use is one that next_name has given.                       *)
Given ==
    /\ \A h \in Handles : name[h] <= counter
    /\ \A h \in Handles : pc[h] \in {"new", "missed"} => name[h] = 0
    /\ \A h \in Handles : pc[h] \in OnItsOwn => name[h] > 0
    /\ \A k \in Keys : stmts[k] # None => stmts[k].name \in 1..counter
    /\ \A s \in server : s.name \in 1..counter

(* A name stands for one key, in the cache, in a handle, on the server.     *)
OneKey ==
    /\ \A k, l \in Keys : stmts[k] # None /\ stmts[l] # None
                          /\ stmts[k].name = stmts[l].name => k = l
    /\ \A k \in Keys, h \in Handles : stmts[k] # None /\ stmts[k].name = name[h] => key[h] = k
    /\ \A g, h \in Handles : name[g] = name[h] /\ name[g] > 0 => key[g] = key[h]
    /\ \A s \in server, h \in Handles : s.name = name[h] => key[h] = s.key
    /\ \A s, r \in server : s.name = r.name => s = r

(* What prepare is still working on: nobody else has the name or is about   *)
(* to close it, and once the server has answered the statement is there.    *)
Fresh ==
    \A h \in Handles : pc[h] \in OnItsOwn =>
        /\ \A g \in Handles : name[g] = name[h] => g = h
        /\ \A k \in Keys : stmts[k] # None => stmts[k].name # name[h]
        /\ ~Doomed(name[h])
        /\ pc[h] = "prepared" => [name |-> name[h], key |-> key[h]] \in server

(* Every command is sent once.  A Prepare that is under way carries its     *)
(* call's name, and the call waits for it or was abandoned; the call behind *)
(* a CloseStatement is over.                                                *)
Asked ==
    /\ Distinct(queue)
    /\ \A m \in Sent : m.name = name[m.by]
    /\ \A m \in Sent : m.op = "Prepare" => pc[m.by] \in {"preparing", "cancelled"} /\ m.name > 0
    /\ \A m \in Sent : m.op = "CloseStatement" => pc[m.by] \in {"failed", "gone"}

(* The books of a key that was never prepared twice at a time.              *)
Apart(k) ==
    /\ \A g, h \in Handles :
          key[g] = k /\ key[h] = k /\ pc[g] \in Preparing /\ pc[h] \in Preparing => g = h
    /\ stmts[k] = None => Counted(k) = {}
    /\ stmts[k] # None =>
          /\ \A h \in Handles : key[h] = k => pc[h] \notin Preparing
          /\ \A h \in Counted(k) : name[h] = stmts[k].name
          /\ stmts[k].handles = Cardinality(Counted(k))
AllApart == \A k \in Keys \ overlapped : Apart(k)

Traced == \A s \in server : s.key \notin overlapped => Accounted(s)

Inv == TypeOK /\ Given /\ OneKey /\ Fresh /\ Asked /\ HitIsAlive /\ AllApart /\ Traced

-----------------------------------------------------------------------------
(* Commands on their way *)

Command == [op : {"Prepare", "CloseStatement"}, name : Nat, by : Handles]

LEMMA CommandFacts ==
    ASSUME TypeOK, NEW h \in Handles
    PROVE  /\ PrepareCommand(h) \in Command /\ CloseCommand(h) \in Command
           /\ PrepareCommand(h).op = "Prepare" /\ CloseCommand(h).op = "CloseStatement"
           /\ PrepareCommand(h).name = name[h] /\ CloseCommand(h).name = name[h]
           /\ PrepareCommand(h).by = h /\ CloseCommand(h).by = h
           /\ \A m \in Sent : m \in Command
<1>1. name[h] \in Nat /\ queue \in Seq(Command)
  BY DEF TypeOK, Command
<1>2. \A m \in Sent : m \in Command
  BY <1>1 DEF Sent, Members
<1> QED
  BY <1>1, <1>2 DEF Command, PrepareCommand, CloseCommand

(* What the cache operations leave under each key.                          *)
LEMMA CacheFacts ==
    ASSUME TypeOK, NEW k \in Keys, stmts[k] # None
    PROVE  /\ stmts[k] \in Entry /\ stmts[k].name \in Nat /\ stmts[k].handles \in Nat
           /\ Checkout(k) = [stmts EXCEPT ![k] =
                 [name |-> stmts[k].name, handles |-> stmts[k].handles + 1]]
           /\ ReleasesLast(k) => ReleaseHandle(k) = [stmts EXCEPT ![k] = None]
           /\ ~ReleasesLast(k) => ReleaseHandle(k) = [stmts EXCEPT ![k] =
                 [name |-> stmts[k].name,
                  handles |-> IF stmts[k].handles > 1 THEN stmts[k].handles - 1 ELSE 0]]
<1>1. stmts[k] \in Entry /\ stmts[k].name \in Nat /\ stmts[k].handles \in Nat
  BY DEF TypeOK, Entry
<1>2. \A x : [stmts[k] EXCEPT !.handles = x] = [name |-> stmts[k].name, handles |-> x]
  BY <1>1 DEF Entry
<1> QED
  BY <1>1, <1>2 DEF Checkout, ReleaseHandle, ReleasesLast

(* A command is sent.                                                       *)
LEMMA OneMoreSent ==
    ASSUME TypeOK, NEW m \in Command, queue' = Append(queue, m)
    PROVE  /\ Sent' = Sent \cup {m} /\ queue' \in Seq(Command)
           /\ Distinct(queue) /\ m \notin Sent => Distinct(queue')
<1>1. queue \in Seq(Command)
  BY DEF TypeOK, Command
<1>2. /\ Append(queue, m) \in Seq(Command)
      /\ Members(Append(queue, m)) = Members(queue) \cup {m}
      /\ Distinct(queue) /\ m \notin Members(queue) => Distinct(Append(queue, m))
  BY <1>1, AppendFacts
<1> QED
  BY <1>2 DEF Sent

(* A command is served.                                                     *)
LEMMA OneLessSent ==
    ASSUME TypeOK, queue # <<>>, queue' = Tail(queue)
    PROVE  /\ Sent = Sent' \cup {Head(queue)} /\ Head(queue) \in Sent
           /\ queue' \in Seq(Command) /\ Head(queue) \in Command
           /\ Distinct(queue) => Distinct(queue') /\ Head(queue) \notin Sent'
<1>1. queue \in Seq(Command)
  BY DEF TypeOK, Command
<1>2. /\ Tail(queue) \in Seq(Command) /\ Head(queue) \in Command
      /\ Members(queue) = Members(Tail(queue)) \cup {Head(queue)}
      /\ Distinct(queue) => Distinct(Tail(queue)) /\ Head(queue) \notin Members(Tail(queue))
  BY <1>1, TailFacts
<1> QED
  BY <1>2 DEF Sent

LEMMA DoomedFacts ==
    /\ \A n : Doomed(n) <=> \/ \E m \in Sent : m.op = "CloseStatement" /\ m.name = n
                            \/ \E h \in Handles : pc[h] \in Closing /\ name[h] = n
    /\ \A n : Doomed(n)' <=> \/ \E m \in Sent' : m.op = "CloseStatement" /\ m.name = n
                             \/ \E h \in Handles : pc'[h] \in Closing /\ name'[h] = n
  BY DEF Doomed, Sent, Members
(* What the steps that touch the cache do to it.                            *)
LEMMA HitFacts ==
    ASSUME TypeOK, NEW h \in Handles, Hit(h)
    PROVE  /\ key[h] \in Keys /\ pc[h] = "new" /\ stmts[key[h]] # None
           /\ stmts' \in [Keys -> Entry \cup {None}] /\ name' \in [Handles -> Nat]
           /\ name'[h] = stmts[key[h]].name /\ \A g \in Handles \ {h} : name'[g] = name[g]
           /\ \A l \in Keys : stmts'[l] # None <=> stmts[l] # None
           /\ \A l \in Keys : stmts[l] # None => stmts'[l].name = stmts[l].name
           /\ \A l \in Keys \ {key[h]} : stmts'[l] = stmts[l]
           /\ stmts'[key[h]].handles = stmts[key[h]].handles + 1
           /\ pc'[h] = "live" /\ \A g \in Handles \ {h} : pc'[g] = pc[g]
           /\ UNCHANGED <<counter, key, queue, server, overlapped>>
<1>6. /\ pc'[h] = "live" /\ \A g \in Handles \ {h} : pc'[g] = pc[g]
      /\ UNCHANGED <<counter, key, queue, server, overlapped>>
  BY DEF Hit, Go, TypeOK
<1>1. key[h] \in Keys /\ pc[h] = "new" /\ stmts[key[h]] # None
  BY DEF Hit, TypeOK
<1> DEFINE e == [name |-> stmts[key[h]].name, handles |-> stmts[key[h]].handles + 1]
<1>2. e \in Entry /\ e # None /\ e.name = stmts[key[h]].name
  <2>1. e \in Entry
    BY <1>1, CacheFacts DEF Entry
  <2>2. None \notin Entry
    BY NoneAssumption DEF Entry
  <2> QED
    BY <2>1, <2>2
<1>3. stmts' = [stmts EXCEPT ![key[h]] = e] /\ stmts \in [Keys -> Entry \cup {None}]
  BY <1>1, CacheFacts DEF Hit, TypeOK
<1>4. /\ name' = [name EXCEPT ![h] = stmts[key[h]].name] /\ stmts[key[h]].name \in Nat
      /\ name \in [Handles -> Nat]
  BY <1>1, CacheFacts DEF Hit, TypeOK
<1>5. e.handles = stmts[key[h]].handles + 1
  OBVIOUS
<1> HIDE DEF e
<1> QED
  BY <1>1, <1>2, <1>3, <1>4, <1>5, <1>6

LEMMA StoreFacts ==
    ASSUME TypeOK, NEW h \in Handles, Store(h)
    PROVE  /\ key[h] \in Keys /\ pc[h] = "prepared"
           /\ stmts' \in [Keys -> Entry \cup {None}]
           /\ stmts'[key[h]] # None /\ stmts'[key[h]].name = name[h]
           /\ stmts'[key[h]].handles = 1
           /\ \A l \in Keys \ {key[h]} : stmts'[l] = stmts[l]
           /\ pc'[h] = "live" /\ \A g \in Handles \ {h} : pc'[g] = pc[g]
           /\ UNCHANGED <<counter, key, name, queue, server, overlapped>>
<1>3. /\ pc'[h] = "live" /\ \A g \in Handles \ {h} : pc'[g] = pc[g]
      /\ UNCHANGED <<counter, key, name, queue, server, overlapped>>
  BY DEF Store, Go, TypeOK
<1> DEFINE e == [name |-> name[h], handles |-> 1]
<1>1. e \in Entry /\ e # None /\ e.name = name[h] /\ e.handles = 1
  <2>1. e \in Entry
    BY DEF TypeOK, Entry
  <2>2. None \notin Entry
    BY NoneAssumption DEF Entry
  <2> QED
    BY <2>1, <2>2
<1>2. /\ stmts' = [stmts EXCEPT ![key[h]] = e] /\ stmts \in [Keys -> Entry \cup {None}]
      /\ key[h] \in Keys /\ pc[h] = "prepared"
  BY DEF Store, TypeOK, Insert
<1> HIDE DEF e
<1> QED
  BY <1>1, <1>2, <1>3

LEMMA ReleaseFacts ==
    ASSUME TypeOK, NEW h \in Handles, Release(h)
    PROVE  /\ key[h] \in Keys /\ pc[h] \in Releasing
           /\ stmts' \in [Keys -> Entry \cup {None}]
           /\ \A l \in Keys \ {key[h]} : stmts'[l] = stmts[l]
           /\ ReleasesLast(key[h]) => stmts'[key[h]] = None /\ pc'[h] \in Closing
           /\ ~ReleasesLast(key[h]) => pc'[h] = "gone"
           /\ stmts[key[h]] = None => stmts'[key[h]] = None
           /\ ~ReleasesLast(key[h]) /\ stmts[key[h]] # None =>
                 /\ stmts'[key[h]] # None /\ stmts'[key[h]].name = stmts[key[h]].name
                 /\ stmts[key[h]].handles >= 1 =>
                       stmts'[key[h]].handles = stmts[key[h]].handles - 1
           /\ \A g \in Handles \ {h} : pc'[g] = pc[g]
           /\ UNCHANGED <<counter, key, name, queue, server, overlapped>>
<1>6. /\ \A g \in Handles \ {h} : pc'[g] = pc[g]
      /\ UNCHANGED <<counter, key, name, queue, server, overlapped>>
  BY DEF Release, Go, TypeOK
<1>1. /\ stmts \in [Keys -> Entry \cup {None}] /\ key[h] \in Keys /\ pc[h] \in Releasing
      /\ stmts' = ReleaseHandle(key[h])
  BY DEF Release, TypeOK
<1>2. /\ ReleasesLast(key[h]) => pc'[h] \in Closing
      /\ ~ReleasesLast(key[h]) => pc'[h] = "gone"
  BY DEF Release, Go, Closing, TypeOK
<1>3. CASE stmts[key[h]] = None
  BY <1>1, <1>2, <1>3, <1>6 DEF ReleaseHandle, ReleasesLast
<1>4. CASE stmts[key[h]] # None /\ ReleasesLast(key[h])
  <2>1. stmts' = [stmts EXCEPT ![key[h]] = None]
    BY <1>1, <1>4, CacheFacts
  <2> QED
    BY <1>1, <1>2, <1>4, <1>6, <2>1
<1>5. CASE stmts[key[h]] # None /\ ~ReleasesLast(key[h])
  <2> DEFINE n == IF stmts[key[h]].handles > 1 THEN stmts[key[h]].handles - 1 ELSE 0
             e == [name |-> stmts[key[h]].name, handles |-> n]
  <2>1. n \in Nat /\ (stmts[key[h]].handles >= 1 => n = stmts[key[h]].handles - 1)
    BY <1>1, <1>5, CacheFacts
  <2>2. e \in Entry
    BY <2>1, <1>1, <1>5, CacheFacts DEF Entry
  <2>3. None \notin Entry
    BY NoneAssumption DEF Entry
  <2>4. e # None /\ e.name = stmts[key[h]].name /\ e.handles = n
    BY <2>2, <2>3
  <2>5. stmts' = [stmts EXCEPT ![key[h]] = e]
    BY <1>1, <1>5, CacheFacts
  <2> HIDE DEF e, n
  <2> QED
    BY <1>1, <1>2, <1>5, <1>6, <2>1, <2>2, <2>4, <2>5
<1> QED
  BY <1>3, <1>4, <1>5


(* Every step keeps the types.                                              *)
LEMMA TypesKept == ASSUME Inv, [Next]_vars PROVE TypeOK'
<1>1. ASSUME NEW h \in Handles, Hit(h) PROVE TypeOK'
  BY <1>1, HitFacts DEF Hit, Inv, Go, TypeOK, States, Preparing, Releasing, Closing, Over, Abandoned
<1>2. ASSUME NEW h \in Handles, Miss(h) PROVE TypeOK'
  BY <1>2 DEF Miss, Inv, Go, TypeOK, States, Preparing, Releasing, Closing, Over, Abandoned
<1>3. ASSUME NEW h \in Handles, NextName(h) PROVE TypeOK'
  BY <1>3 DEF NextName, Inv, Go, TypeOK, States, Preparing, Releasing, Closing, Over, Abandoned
<1>4. ASSUME NEW h \in Handles, ResolveFails(h) PROVE TypeOK'
  BY <1>4 DEF ResolveFails, Inv, Go, TypeOK, States, Preparing, Releasing, Closing, Over, Abandoned
<1>5. ASSUME NEW h \in Handles, SendPrepare(h) PROVE TypeOK'
  <2>1. queue' \in Seq(Command)
    BY <1>5, CommandFacts, OneMoreSent DEF SendPrepare, Inv
  <2> QED
    BY <1>5, <2>1 DEF SendPrepare, Inv, Command, Go, TypeOK, States, Preparing, Releasing, Closing, Over, Abandoned
<1>6. ASSUME NEW h \in Handles, Mismatch(h) PROVE TypeOK'
  <2>1. queue' \in Seq(Command)
    BY <1>6, CommandFacts, OneMoreSent DEF Mismatch, Inv
  <2> QED
    BY <1>6, <2>1 DEF Mismatch, Inv, Command, Go, TypeOK, States, Preparing, Releasing, Closing, Over, Abandoned
<1>7. ASSUME NEW h \in Handles, Store(h) PROVE TypeOK'
  BY <1>7, StoreFacts DEF Store, Inv, Go, TypeOK, States, Preparing, Releasing, Closing, Over, Abandoned
<1>8. ASSUME NEW h \in Handles, Cancel(h) PROVE TypeOK'
  BY <1>8 DEF Cancel, Inv, Go, TypeOK, States, Preparing, Releasing, Closing, Over, Abandoned
<1>9. ASSUME NEW h \in Handles, Close(h) PROVE TypeOK'
  BY <1>9 DEF Close, Inv, Go, TypeOK, States, Preparing, Releasing, Closing, Over, Abandoned
<1>10. ASSUME NEW h \in Handles, Drop(h) PROVE TypeOK'
  BY <1>10 DEF Drop, Inv, Go, TypeOK, States, Preparing, Releasing, Closing, Over, Abandoned
<1>11. ASSUME NEW h \in Handles, Release(h) PROVE TypeOK'
  BY <1>11, ReleaseFacts DEF Release, Inv, Go, TypeOK, States, Preparing, Releasing, Closing, Over, Abandoned
<1>12. ASSUME NEW h \in Handles, SendClose(h) PROVE TypeOK'
  <2>1. queue' \in Seq(Command)
    BY <1>12, CommandFacts, OneMoreSent DEF SendClose, Inv
  <2> QED
    BY <1>12, <2>1 DEF SendClose, Inv, Command, Go, TypeOK, States, Preparing, Releasing, Closing, Over, Abandoned
<1>13. ASSUME ServerPrepare PROVE TypeOK'
  <2>1. queue' \in Seq(Command) /\ Head(queue) \in Command
    BY <1>13, OneLessSent DEF ServerPrepare, Inv
  <2>2. server' \subseteq Statement
    BY <1>13, <2>1 DEF ServerPrepare, Inv, TypeOK, Statement, Command
  <2>3. pc' \in [Handles -> States]
    BY <1>13, <2>1 DEF ServerPrepare, Inv, Command, Go, TypeOK, States, Preparing, Releasing, Closing, Over, Abandoned
  <2> QED
    BY <1>13, <2>1, <2>2, <2>3 DEF ServerPrepare, Inv, TypeOK, Command
<1>14. ASSUME ServerClose PROVE TypeOK'
  <2>1. queue' \in Seq(Command)
    BY <1>14, OneLessSent DEF ServerClose, Inv
  <2> QED
    BY <1>14, <2>1 DEF ServerClose, Inv, TypeOK, Command
<1>15. ASSUME UNCHANGED vars PROVE TypeOK'
  BY <1>15 DEF vars, Inv, Go, TypeOK, States, Preparing, Releasing, Closing, Over, Abandoned
<1> QED
  BY <1>1, <1>2, <1>3, <1>4, <1>5, <1>6, <1>7, <1>8, <1>9, <1>10, <1>11, <1>12, <1>13, <1>14, <1>15
     DEF Next, HandleStep, Quiescent

(* The server answers a Prepare: the call's statement is there, or the call *)
(* fails; an abandoned call learns nothing.                                 *)
LEMMA ServerPrepareFacts ==
    ASSUME Inv, ServerPrepare, NEW h, h = Head(queue).by
    PROVE  /\ h \in Handles /\ Head(queue) \in Sent /\ Head(queue).name = name[h]
           /\ name[h] \in Nat /\ name[h] > 0 /\ key[h] \in Keys
           /\ pc[h] \in {"preparing", "cancelled"} /\ pc'[h] \in {pc[h], "prepared", "failed"}
           /\ pc[h] = "cancelled" => pc'[h] = pc[h]
           /\ pc[h] = "preparing" => pc'[h] \in {"prepared", "failed"}
           /\ pc'[h] = "failed" => server' = server
           /\ \A g \in Handles \ {h} : pc'[g] = pc[g]
           /\ server' \in {server, server \cup {[name |-> name[h], key |-> key[h]]}}
           /\ pc'[h] = "prepared" => [name |-> name[h], key |-> key[h]] \in server'
           /\ Sent = Sent' \cup {Head(queue)} /\ Head(queue) \notin Sent'
           /\ Distinct(queue')
<1>1. /\ Sent = Sent' \cup {Head(queue)} /\ Head(queue) \in Sent /\ Head(queue) \in Command
      /\ Distinct(queue') /\ Head(queue) \notin Sent'
  BY OneLessSent DEF ServerPrepare, Inv, Asked
<1>2. h \in Handles /\ Head(queue).op = "Prepare"
  BY <1>1 DEF Command, ServerPrepare
<1>3. /\ Head(queue).name = name[h] /\ name[h] > 0 /\ pc[h] \in {"preparing", "cancelled"}
      /\ name[h] \in Nat /\ key[h] \in Keys
  BY <1>1, <1>2 DEF Inv, Asked, TypeOK
<1>4. pc \in [Handles -> States]
  BY DEF Inv, TypeOK
<1> DEFINE there == [name |-> name[h], key |-> key[h]]
<1>5. \/ /\ server' = server \cup {there}
         /\ pc' = IF pc[h] = "preparing" THEN [pc EXCEPT ![h] = "prepared"] ELSE pc
      \/ /\ pc' = IF pc[h] = "preparing" THEN [pc EXCEPT ![h] = "failed"] ELSE pc
         /\ UNCHANGED server
  BY <1>3 DEF ServerPrepare
<1>6. CASE /\ server' = server \cup {there}
           /\ pc' = IF pc[h] = "preparing" THEN [pc EXCEPT ![h] = "prepared"] ELSE pc
  <2> HIDE DEF there
  <2>1. /\ pc[h] = "cancelled" => pc'[h] = pc[h]
        /\ pc[h] = "preparing" => pc'[h] = "prepared"
        /\ \A g \in Handles \ {h} : pc'[g] = pc[g]
    BY <1>2, <1>4, <1>6
  <2> QED
    BY <1>1, <1>2, <1>3, <1>6, <2>1 DEF there
<1>7. CASE /\ pc' = IF pc[h] = "preparing" THEN [pc EXCEPT ![h] = "failed"] ELSE pc
           /\ UNCHANGED server
  <2>1. /\ pc[h] = "cancelled" => pc'[h] = pc[h]
        /\ pc[h] = "preparing" => pc'[h] = "failed"
        /\ \A g \in Handles \ {h} : pc'[g] = pc[g]
    BY <1>2, <1>4, <1>7
  <2> QED
    BY <1>1, <1>2, <1>3, <1>7, <2>1
<1> QED
  BY <1>5, <1>6, <1>7

LEMMA ServerCloseFacts ==
    ASSUME Inv, ServerClose
    PROVE  /\ Sent = Sent' \cup {Head(queue)} /\ Head(queue) \in Sent /\ Head(queue) \in Command
           /\ Distinct(queue') /\ Head(queue) \notin Sent'
           /\ Head(queue).op = "CloseStatement"
  BY OneLessSent DEF ServerClose, Inv, Asked

(* A call sends its Prepare, or the CloseStatement of its statement.        *)
LEMMA SendFacts ==
    ASSUME Inv, NEW h \in Handles
    PROVE  /\ SendPrepare(h) => /\ Sent' = Sent \cup {PrepareCommand(h)} /\ Distinct(queue')
                                /\ pc[h] = "named" /\ pc'[h] = "preparing"
           /\ Mismatch(h) \/ SendClose(h) =>
                 /\ Sent' = Sent \cup {CloseCommand(h)} /\ Distinct(queue')
                 /\ pc[h] \in {"prepared"} \cup Closing /\ pc'[h] \in {"failed", "gone"}
           /\ SendPrepare(h) \/ Mismatch(h) \/ SendClose(h) =>
                 \A g \in Handles \ {h} : pc'[g] = pc[g]
<1>1. ASSUME pc[h] = "named" PROVE PrepareCommand(h) \notin Sent
  BY <1>1, CommandFacts DEF Inv, Asked
<1>2. ASSUME pc[h] \in {"prepared"} \cup Closing PROVE CloseCommand(h) \notin Sent
  BY <1>2, CommandFacts DEF Inv, Asked, Closing
<1>3. ASSUME SendPrepare(h)
      PROVE  /\ Sent' = Sent \cup {PrepareCommand(h)} /\ Distinct(queue')
             /\ pc[h] = "named" /\ pc'[h] = "preparing"
             /\ \A g \in Handles \ {h} : pc'[g] = pc[g]
  BY <1>1, <1>3, CommandFacts, OneMoreSent DEF SendPrepare, Go, Inv, TypeOK, Asked
<1>4. ASSUME Mismatch(h)
      PROVE  /\ Sent' = Sent \cup {CloseCommand(h)} /\ Distinct(queue')
             /\ pc[h] = "prepared" /\ pc'[h] = "failed"
             /\ \A g \in Handles \ {h} : pc'[g] = pc[g]
  BY <1>2, <1>4, CommandFacts, OneMoreSent DEF Mismatch, Go, Inv, TypeOK, Asked
<1>5. ASSUME SendClose(h)
      PROVE  /\ Sent' = Sent \cup {CloseCommand(h)} /\ Distinct(queue')
             /\ pc[h] \in Closing /\ pc'[h] = "gone"
             /\ \A g \in Handles \ {h} : pc'[g] = pc[g]
  BY <1>2, <1>5, CommandFacts, OneMoreSent DEF SendClose, Go, Inv, TypeOK, Asked
<1> QED
  BY <1>3, <1>4, <1>5

-----------------------------------------------------------------------------
(* Frames *)

LEMMA SentTypes ==
    ASSUME TypeOK
    PROVE  \A m \in Sent : /\ m.by \in Handles /\ m.name \in Nat
                           /\ m.op \in {"Prepare", "CloseStatement"}
<1>1. queue \in Seq(Command)
  BY DEF TypeOK, Command
<1>2. \A m \in Sent : m \in Command
  BY <1>1 DEF Sent, Members
<1> QED
  BY <1>2 DEF Command

LEMMA CountedIsFinite == ASSUME NEW k PROVE IsFiniteSet(Counted(k))
  BY HandlesAssumption, FS_Subset DEF Counted

(* The books of a key that a step leaves alone.                             *)
LEMMA ApartFrame ==
    ASSUME NEW k \in Keys, Apart(k), stmts'[k] = stmts[k], UNCHANGED key,
           \A g \in Handles : key[g] = k =>
              /\ pc'[g] \in Preparing => pc[g] \in Preparing
              /\ pc'[g] \in Counting <=> pc[g] \in Counting
              /\ pc[g] \in Counting => name'[g] = name[g]
    PROVE  Apart(k)'
<1>1. Counted(k)' = Counted(k)
  BY DEF Counted
<1>2. \A h \in Counted(k) : name'[h] = name[h]
  BY DEF Counted
<1> QED
  BY <1>1, <1>2 DEF Apart

-----------------------------------------------------------------------------
(* What each step keeps *)

Kept == Given' /\ OneKey' /\ Fresh' /\ Asked' /\ HitIsAlive' /\ AllApart' /\ Traced'

LEMMA HitKeeps == ASSUME Inv, NEW h \in Handles, Hit(h) PROVE Kept
<1>1. /\ key[h] \in Keys /\ pc[h] = "new" /\ stmts[key[h]] # None
      /\ name'[h] = stmts[key[h]].name /\ \A g \in Handles \ {h} : name'[g] = name[g]
      /\ \A l \in Keys : stmts'[l] # None <=> stmts[l] # None
      /\ \A l \in Keys : stmts[l] # None => stmts'[l].name = stmts[l].name
      /\ \A l \in Keys \ {key[h]} : stmts'[l] = stmts[l]
      /\ stmts'[key[h]].handles = stmts[key[h]].handles + 1
      /\ pc'[h] = "live" /\ \A g \in Handles \ {h} : pc'[g] = pc[g]
      /\ UNCHANGED <<counter, key, queue, server, overlapped>>
  BY HitFacts DEF Inv
<1>2. /\ stmts[key[h]].name \in 1..counter
      /\ [name |-> stmts[key[h]].name, key |-> key[h]] \in server
  BY <1>1 DEF Inv, Given, HitIsAlive
<1>3. Sent' = Sent
  BY <1>1 DEF Sent
<1>4. \A n : Doomed(n)' <=> Doomed(n)
  BY <1>1, <1>3, DoomedFacts DEF Closing
<1>5. Given'
  BY <1>1, <1>2 DEF Inv, Given, OnItsOwn
<1>6. OneKey'
  <2>1. \A k, l \in Keys : stmts'[k] # None /\ stmts'[l] # None
                           /\ stmts'[k].name = stmts'[l].name => k = l
    BY <1>1 DEF Inv, OneKey
  <2>2. \A k \in Keys, g \in Handles : stmts'[k] # None /\ stmts'[k].name = name'[g] => key'[g] = k
    BY <1>1 DEF Inv, OneKey
  <2>3. \A s \in server', g \in Handles : s.name = name'[g] => key'[g] = s.key
    BY <1>1, <1>2 DEF Inv, OneKey
  <2> QED
    BY <1>1, <2>1, <2>2, <2>3 DEF Inv, OneKey
<1>7. Fresh'
  BY <1>1, <1>4 DEF Inv, Fresh, OnItsOwn
<1>8. Asked'
  BY <1>1, <1>3, SentTypes DEF Inv, Asked
<1>9. HitIsAlive'
  BY <1>1, <1>4 DEF Inv, HitIsAlive
<1>10. ASSUME NEW k \in Keys \ overlapped PROVE Apart(k)'
  <2>1. CASE k # key[h]
    BY <1>1, <2>1, <1>10, ApartFrame DEF Inv, AllApart
  <2>2. CASE k = key[h]
    <3>1. Counted(k)' = Counted(k) \cup {h} /\ h \notin Counted(k)
      BY <1>1, <2>2 DEF Counted, Counting, Releasing
    <3>2. Cardinality(Counted(k)') = Cardinality(Counted(k)) + 1
      BY <3>1, CountedIsFinite, AddOne
    <3>3. /\ stmts[k].handles = Cardinality(Counted(k))
          /\ \A g \in Counted(k) : name[g] = stmts[k].name
          /\ \A g \in Handles : key[g] = k => pc[g] \notin Preparing
      BY <1>1, <2>2, <1>10 DEF Inv, AllApart, Apart
    <3>4. \A g \in Counted(k)' : name'[g] = stmts'[k].name
      BY <1>1, <2>2, <3>1, <3>3 DEF Counted
    <3>5. \A g \in Handles : key'[g] = k => pc'[g] \notin Preparing
      BY <1>1, <3>3 DEF Preparing
    <3> QED
      BY <1>1, <2>2, <3>2, <3>3, <3>4, <3>5 DEF Apart
  <2> QED
    BY <2>1, <2>2
<1>11. Traced'
  <2> SUFFICES ASSUME NEW s \in server', s.key \notin overlapped PROVE Accounted(s)'
    BY <1>1 DEF Traced
  <2>1. Accounted(s) /\ s.key \in Keys
    BY <1>1 DEF Inv, Traced, TypeOK, Statement
  <2> QED
    BY <1>1, <1>4, <2>1 DEF Accounted, Abandoned
<1> QED
  BY <1>1, <1>5, <1>6, <1>7, <1>8, <1>9, <1>10, <1>11 DEF Kept, AllApart

LEMMA NextNameKeeps == ASSUME Inv, NEW h \in Handles, NextName(h) PROVE Kept
<1>1. /\ pc[h] = "missed" /\ counter \in Nat /\ counter' = counter + 1
      /\ name'[h] = counter + 1 /\ \A g \in Handles \ {h} : name'[g] = name[g]
      /\ pc'[h] = "named" /\ \A g \in Handles \ {h} : pc'[g] = pc[g]
      /\ \A g \in Handles : name[g] \in Nat
      /\ UNCHANGED <<stmts, key, queue, server, overlapped>>
  BY DEF NextName, Go, Inv, TypeOK
<1>2. /\ \A g \in Handles : name[g] <= counter
      /\ \A k \in Keys : stmts[k] # None => stmts[k].name \in 1..counter
      /\ \A s \in server : s.name \in 1..counter
      /\ \A m \in Sent : m.name <= counter
  BY SentTypes DEF Inv, Given, Asked
<1>3. Sent' = Sent
  BY <1>1 DEF Sent
<1>4. \A n : Doomed(n)' <=> Doomed(n)
  BY <1>1, <1>3, DoomedFacts DEF Closing
<1>5. ~Doomed(counter + 1)
  BY <1>1, <1>2, SentTypes, DoomedFacts DEF Inv
<1>6. Given'
  BY <1>1, <1>2 DEF Inv, Given, OnItsOwn
<1>7. OneKey'
  BY <1>1, <1>2 DEF Inv, OneKey
<1>8. Fresh'
  BY <1>1, <1>2, <1>4, <1>5 DEF Inv, Fresh, OnItsOwn
<1>9. Asked'
  BY <1>1, <1>3, SentTypes DEF Inv, Asked
<1>10. HitIsAlive'
  BY <1>1, <1>4 DEF Inv, HitIsAlive
<1>11. ASSUME NEW k \in Keys \ overlapped PROVE Apart(k)'
  BY <1>1, ApartFrame DEF Inv, AllApart, Preparing, Counting, Releasing
<1>12. Traced'
  <2> SUFFICES ASSUME NEW s \in server', s.key \notin overlapped PROVE Accounted(s)'
    BY <1>1 DEF Traced
  <2>1. Accounted(s) /\ s.key \in Keys
    BY <1>1 DEF Inv, Traced, TypeOK, Statement
  <2> QED
    BY <1>1, <1>4, <2>1 DEF Accounted, Abandoned
<1> QED
  BY <1>1, <1>6, <1>7, <1>8, <1>9, <1>10, <1>11, <1>12 DEF Kept, AllApart

(* A call goes on without touching the cache, its name, the server or the   *)
(* queue: a miss, a failed resolve, close or drop begin, a call is dropped. *)
LEMMA MoveKeeps ==
    ASSUME Inv, NEW h \in Handles, \A g \in Handles \ {h} : pc'[g] = pc[g],
           UNCHANGED <<stmts, counter, key, name, queue, server>>, overlapped \subseteq overlapped',
           pc'[h] \notin OnItsOwn \cup Closing \cup {"new"},
           pc'[h] = "missed" => pc[h] = "new",
           pc[h] \notin {"failed", "gone", "cancelled"},
           pc[h] = "preparing" => pc'[h] = "cancelled",
           pc[h] \in {"prepared"} \cup Abandoned \cup Closing => pc'[h] \in Abandoned,
           pc'[h] \in Counting <=> pc[h] \in Counting,
           pc'[h] \in Preparing /\ key[h] \notin overlapped' =>
               /\ stmts[key[h]] = None
               /\ \A g \in Handles : key[g] = key[h] => pc[g] \notin Preparing
    PROVE  Kept
<1>1. Sent' = Sent
  BY DEF Sent
<1>2. \A n : Doomed(n)' => Doomed(n)
  BY <1>1, DoomedFacts
<1>3. \A n : Doomed(n) => Doomed(n)' \/ (pc'[h] \in Abandoned /\ n = name[h])
  BY <1>1, DoomedFacts
<1>4. Given'
  BY DEF Inv, Given, OnItsOwn
<1>5. OneKey'
  BY DEF Inv, OneKey
<1>6. Fresh'
  BY <1>2 DEF Inv, Fresh, OnItsOwn
<1>7. Asked'
  BY <1>1, SentTypes DEF Inv, Asked
<1>8. HitIsAlive'
  BY <1>2 DEF Inv, HitIsAlive
<1>9. ASSUME NEW k \in Keys, k \notin overlapped' PROVE Apart(k)'
  <2>0. Apart(k)
    BY <1>9 DEF Inv, AllApart
  <2>1. CASE k # key[h] \/ pc'[h] \notin Preparing
    BY <2>0, <2>1, ApartFrame
  <2>2. CASE k = key[h] /\ pc'[h] \in Preparing
    <3>1. Counted(k)' = Counted(k)
      BY DEF Counted
    <3>2. stmts'[k] = None /\ \A g \in Handles \ {h} : key[g] = k => pc'[g] \notin Preparing
      BY <1>9, <2>2
    <3> QED
      BY <2>0, <3>1, <3>2 DEF Apart
  <2> QED
    BY <2>1, <2>2
<1>10. Traced'
  <2> SUFFICES ASSUME NEW s \in server', s.key \notin overlapped' PROVE Accounted(s)'
    BY DEF Traced
  <2>1. Accounted(s)
    BY DEF Inv, Traced
  <2> QED
    BY <1>3, <2>1 DEF Accounted, Abandoned
<1> QED
  BY <1>4, <1>5, <1>6, <1>7, <1>8, <1>9, <1>10 DEF Kept, AllApart

LEMMA MissKeeps == ASSUME Inv, NEW h \in Handles, Miss(h) PROVE Kept
<1>1. /\ \A g \in Handles \ {h} : pc'[g] = pc[g]
      /\ UNCHANGED <<stmts, counter, key, name, queue, server>> /\ overlapped \subseteq overlapped'
      /\ pc[h] = "new" /\ pc'[h] = "missed" /\ stmts[key[h]] = None
  BY DEF Miss, Go, Inv, TypeOK
<1>2. key[h] \notin overlapped' => \A g \in Handles : key[g] = key[h] => pc[g] \notin Preparing
  BY DEF Miss
<1> QED
  BY <1>1, <1>2, MoveKeeps DEF OnItsOwn, Closing, Abandoned, Counting, Releasing

LEMMA QuietKeeps ==
    ASSUME Inv, NEW h \in Handles, ResolveFails(h) \/ Cancel(h) \/ Close(h) \/ Drop(h)
    PROVE  Kept
<1>1. /\ \A g \in Handles \ {h} : pc'[g] = pc[g]
      /\ UNCHANGED <<stmts, counter, key, name, queue, server>> /\ overlapped \subseteq overlapped'
  BY DEF ResolveFails, Cancel, Close, Drop, Go, Inv, TypeOK
<1>2. \/ pc[h] = "named" /\ pc'[h] = "failed"
      \/ pc[h] \in Preparing \cup {"close_send"} /\ pc'[h] = "cancelled"
      \/ pc[h] = "close" /\ pc'[h] = "leaked"
      \/ pc[h] = "live" /\ pc'[h] \in {"close", "drop"}
  BY DEF ResolveFails, Cancel, Close, Drop, Go, Inv, TypeOK
<1> QED
  BY <1>1, <1>2, MoveKeeps
     DEF OnItsOwn, Closing, Abandoned, Counting, Releasing, Preparing

LEMMA SendPrepareKeeps == ASSUME Inv, NEW h \in Handles, SendPrepare(h) PROVE Kept
<1> DEFINE c == PrepareCommand(h)
<1>1. /\ c.op = "Prepare" /\ c.name = name[h] /\ c.by = h
      /\ Sent' = Sent \cup {c} /\ Distinct(queue') /\ pc[h] = "named" /\ pc'[h] = "preparing"
      /\ \A g \in Handles \ {h} : pc'[g] = pc[g]
      /\ UNCHANGED <<stmts, counter, key, name, server, overlapped>>
  BY SendFacts, CommandFacts DEF SendPrepare, Inv
<1> HIDE DEF c
<1>2. \A n : Doomed(n)' <=> Doomed(n)
  BY <1>1, DoomedFacts DEF Closing
<1>3. Given'
  BY <1>1 DEF Inv, Given, OnItsOwn
<1>4. OneKey'
  BY <1>1 DEF Inv, OneKey
<1>5. Fresh'
  BY <1>1, <1>2 DEF Inv, Fresh, OnItsOwn
<1>6. Asked'
  BY <1>1, SentTypes DEF Inv, Asked, Given, OnItsOwn
<1>7. HitIsAlive'
  BY <1>1, <1>2 DEF Inv, HitIsAlive
<1>8. ASSUME NEW k \in Keys \ overlapped PROVE Apart(k)'
  BY <1>1, ApartFrame DEF Inv, AllApart, Preparing, Counting, Releasing
<1>9. Traced'
  <2> SUFFICES ASSUME NEW s \in server', s.key \notin overlapped' PROVE Accounted(s)'
    BY DEF Traced
  <2>1. Accounted(s)
    BY <1>1 DEF Inv, Traced
  <2> QED
    BY <1>1, <1>2, <2>1 DEF Accounted, Abandoned
<1> QED
  BY <1>1, <1>3, <1>4, <1>5, <1>6, <1>7, <1>8, <1>9 DEF Kept, AllApart

(* A CloseStatement goes out: of a rejected statement, or of one whose last *)
(* handle is gone.                                                          *)
LEMMA SendCloseKeeps ==
    ASSUME Inv, NEW h \in Handles, Mismatch(h) \/ SendClose(h)
    PROVE  Kept
<1> DEFINE c == CloseCommand(h)
<1>1. /\ c.op = "CloseStatement" /\ c.name = name[h] /\ c.by = h
      /\ Sent' = Sent \cup {c} /\ Distinct(queue')
      /\ pc[h] \in {"prepared"} \cup Closing /\ pc'[h] \in {"failed", "gone"}
      /\ \A g \in Handles \ {h} : pc'[g] = pc[g]
      /\ UNCHANGED <<stmts, counter, key, name, server, overlapped>>
  BY SendFacts, CommandFacts DEF Mismatch, SendClose, Inv
<1> HIDE DEF c
<1>2. \A n : Doomed(n)' <=> Doomed(n) \/ n = name[h]
  BY <1>1, DoomedFacts DEF Closing
<1>3. Given'
  BY <1>1 DEF Inv, Given, OnItsOwn
<1>4. OneKey'
  BY <1>1 DEF Inv, OneKey
<1>5. ASSUME NEW g \in Handles, g # h, pc[g] \in OnItsOwn PROVE name[h] # name[g]
  BY <1>5 DEF Inv, Fresh
<1>6. Fresh'
  BY <1>1, <1>2, <1>5 DEF Inv, Fresh, OnItsOwn
<1>7. Asked'
  BY <1>1, SentTypes DEF Inv, Asked, Closing
<1>8. ASSUME NEW k \in Keys, stmts[k] # None PROVE stmts[k].name # name[h]
  <2>1. CASE pc[h] = "prepared"
    BY <1>8, <2>1 DEF Inv, Fresh, OnItsOwn
  <2>2. CASE pc[h] \in Closing
    BY <1>8, <2>2, DoomedFacts DEF Inv, HitIsAlive
  <2> QED
    BY <1>1, <2>1, <2>2
<1>9. HitIsAlive'
  BY <1>1, <1>2, <1>8 DEF Inv, HitIsAlive
<1>10. ASSUME NEW k \in Keys \ overlapped PROVE Apart(k)'
  BY <1>1, ApartFrame DEF Inv, AllApart, Preparing, Counting, Releasing, Closing
<1>11. Traced'
  <2> SUFFICES ASSUME NEW s \in server', s.key \notin overlapped' PROVE Accounted(s)'
    BY DEF Traced
  <2>1. Accounted(s)
    BY <1>1 DEF Inv, Traced
  <2> QED
    BY <1>1, <1>2, <2>1 DEF Accounted, Abandoned
<1> QED
  BY <1>1, <1>3, <1>4, <1>6, <1>7, <1>9, <1>10, <1>11 DEF Kept, AllApart

LEMMA StoreKeeps == ASSUME Inv, NEW h \in Handles, Store(h) PROVE Kept
<1>1. /\ key[h] \in Keys /\ pc[h] = "prepared"
      /\ stmts'[key[h]] # None /\ stmts'[key[h]].name = name[h] /\ stmts'[key[h]].handles = 1
      /\ \A l \in Keys \ {key[h]} : stmts'[l] = stmts[l]
      /\ pc'[h] = "live" /\ \A g \in Handles \ {h} : pc'[g] = pc[g]
      /\ UNCHANGED <<counter, key, name, queue, server, overlapped>>
  BY StoreFacts DEF Inv
<1>2. /\ \A g \in Handles : name[g] = name[h] => g = h
      /\ \A k \in Keys : stmts[k] # None => stmts[k].name # name[h]
      /\ ~Doomed(name[h]) /\ [name |-> name[h], key |-> key[h]] \in server
      /\ name[h] \in 1..counter
  BY <1>1 DEF Inv, Fresh, OnItsOwn, Given, TypeOK
<1>3. Sent' = Sent
  BY <1>1 DEF Sent
<1>4. \A n : Doomed(n)' <=> Doomed(n)
  BY <1>1, <1>3, DoomedFacts DEF Closing
<1>5. Given'
  <2>1. \A k \in Keys : stmts'[k] # None => stmts'[k].name \in 1..counter'
    <3> TAKE k \in Keys
    <3> QED
      BY <1>1, <1>2 DEF Inv, Given
  <2> QED
    BY <1>1, <2>1 DEF Inv, Given, OnItsOwn
<1>6. OneKey'
  <2>1. \A k, l \in Keys : stmts'[k] # None /\ stmts'[l] # None
                           /\ stmts'[k].name = stmts'[l].name => k = l
    BY <1>1, <1>2 DEF Inv, OneKey
  <2>2. \A k \in Keys, g \in Handles : stmts'[k] # None /\ stmts'[k].name = name'[g] => key'[g] = k
    BY <1>1, <1>2 DEF Inv, OneKey
  <2> QED
    BY <1>1, <2>1, <2>2 DEF Inv, OneKey
<1>7. Fresh'
  <2> SUFFICES ASSUME NEW g \in Handles, pc'[g] \in OnItsOwn
               PROVE  /\ \A f \in Handles : name'[f] = name'[g] => f = g
                      /\ \A k \in Keys : stmts'[k] # None => stmts'[k].name # name'[g]
                      /\ ~Doomed(name[g])'
                      /\ pc'[g] = "prepared" => [name |-> name'[g], key |-> key'[g]] \in server'
    BY DEF Fresh
  <2>1. g # h /\ pc[g] \in OnItsOwn /\ name[g] # name[h]
    BY <1>1, <1>2 DEF OnItsOwn
  <2> QED
    BY <1>1, <1>4, <2>1 DEF Inv, Fresh
<1>8. Asked'
  BY <1>1, <1>3, SentTypes DEF Inv, Asked
<1>9. HitIsAlive'
  <2> SUFFICES ASSUME NEW k \in Keys, stmts'[k] # None
               PROVE  [name |-> stmts'[k].name, key |-> k] \in server' /\ ~Doomed(stmts[k].name)'
    BY DEF HitIsAlive
  <2>1. CASE k = key[h]
    BY <1>1, <1>2, <1>4, <2>1
  <2>2. CASE k # key[h]
    BY <1>1, <1>4, <2>2 DEF Inv, HitIsAlive
  <2> QED
    BY <2>1, <2>2
<1>10. ASSUME NEW k \in Keys \ overlapped PROVE Apart(k)'
  <2>1. CASE k # key[h]
    BY <1>1, <2>1, <1>10, ApartFrame DEF Inv, AllApart
  <2>2. CASE k = key[h]
    <3>1. /\ Counted(k) = {}
          /\ \A g \in Handles \ {h} : key[g] = k => pc[g] \notin Preparing
      BY <1>1, <2>2, <1>10 DEF Inv, AllApart, Apart, Preparing
    <3>2. Counted(k)' = {h}
      BY <1>1, <2>2, <3>1 DEF Counted, Counting
    <3>3. Cardinality(Counted(k)') = 1
      BY <3>2, FS_Singleton
    <3>4. \A g \in Handles : key'[g] = k => pc'[g] \notin Preparing
      BY <1>1, <3>1 DEF Preparing
    <3> QED
      BY <1>1, <2>2, <3>2, <3>3, <3>4 DEF Apart
  <2> QED
    BY <2>1, <2>2
<1>11. Traced'
  <2> SUFFICES ASSUME NEW s \in server', s.key \notin overlapped' PROVE Accounted(s)'
    BY DEF Traced
  <2>1. Accounted(s) /\ s.key \in Keys /\ (s.name = name[h] => s.key = key[h])
    BY <1>1 DEF Inv, Traced, TypeOK, Statement, OneKey
  <2>2. s.key = key[h] => stmts[s.key] = None
    BY <1>1 DEF Inv, AllApart, Apart, Preparing
  <2> QED
    BY <1>1, <1>4, <2>1, <2>2 DEF Accounted, Abandoned
<1> QED
  BY <1>1, <1>5, <1>6, <1>7, <1>8, <1>9, <1>10, <1>11 DEF Kept, AllApart

LEMMA ReleaseKeeps == ASSUME Inv, NEW h \in Handles, Release(h) PROVE Kept
<1>1. /\ key[h] \in Keys /\ pc[h] \in Releasing
      /\ \A l \in Keys \ {key[h]} : stmts'[l] = stmts[l]
      /\ ReleasesLast(key[h]) => stmts'[key[h]] = None /\ pc'[h] \in Closing
      /\ ~ReleasesLast(key[h]) => pc'[h] = "gone"
      /\ stmts[key[h]] = None => stmts'[key[h]] = None
      /\ ~ReleasesLast(key[h]) /\ stmts[key[h]] # None =>
            /\ stmts'[key[h]] # None /\ stmts'[key[h]].name = stmts[key[h]].name
            /\ stmts[key[h]].handles >= 1 => stmts'[key[h]].handles = stmts[key[h]].handles - 1
      /\ \A g \in Handles \ {h} : pc'[g] = pc[g]
      /\ UNCHANGED <<counter, key, name, queue, server, overlapped>>
  BY ReleaseFacts DEF Inv
<1>2. pc[h] \notin OnItsOwn /\ pc'[h] \notin OnItsOwn \cup {"new", "missed"}
  BY <1>1 DEF OnItsOwn, Releasing, Closing
<1>3. Sent' = Sent
  BY <1>1 DEF Sent
<1>4. \A n : Doomed(n)' <=> Doomed(n) \/ (ReleasesLast(key[h]) /\ n = name[h])
  BY <1>1, <1>3, DoomedFacts DEF Closing, Releasing
<1>5. \A k \in Keys : stmts'[k] # None => stmts[k] # None /\ stmts'[k].name = stmts[k].name
  BY <1>1
<1>6. Given'
  BY <1>1, <1>2, <1>5 DEF Inv, Given
<1>7. OneKey'
  BY <1>1, <1>5 DEF Inv, OneKey
<1>8. ASSUME NEW g \in Handles, pc[g] \in OnItsOwn PROVE name[h] # name[g]
  BY <1>2, <1>8 DEF Inv, Fresh
<1>9. Fresh'
  <2> SUFFICES ASSUME NEW g \in Handles, pc'[g] \in OnItsOwn
               PROVE  /\ \A f \in Handles : name'[f] = name'[g] => f = g
                      /\ \A k \in Keys : stmts'[k] # None => stmts'[k].name # name'[g]
                      /\ ~Doomed(name[g])'
                      /\ pc'[g] = "prepared" => [name |-> name'[g], key |-> key'[g]] \in server'
    BY DEF Fresh
  <2>1. g # h /\ pc[g] \in OnItsOwn /\ name[h] # name[g]
    BY <1>1, <1>2, <1>8
  <2> QED
    BY <1>1, <1>4, <1>5, <2>1 DEF Inv, Fresh
<1>10. Asked'
  BY <1>1, <1>3, SentTypes DEF Inv, Asked, Releasing
<1>11. HitIsAlive'
  <2> SUFFICES ASSUME NEW k \in Keys, stmts'[k] # None
               PROVE  [name |-> stmts'[k].name, key |-> k] \in server' /\ ~Doomed(stmts[k].name)'
    BY DEF HitIsAlive
  <2>1. ReleasesLast(key[h]) => stmts[k].name # name[h]
    BY <1>1, <1>5 DEF Inv, OneKey
  <2> QED
    BY <1>1, <1>4, <1>5, <2>1 DEF Inv, HitIsAlive
<1>12. ASSUME NEW k \in Keys \ overlapped PROVE Apart(k)'
  <2>1. CASE k # key[h]
    BY <1>1, <2>1, <1>12, ApartFrame DEF Inv, AllApart
  <2>2. CASE k = key[h]
    <3>1. Apart(k) /\ h \in Counted(k)
      BY <1>1, <1>12, <2>2 DEF Inv, AllApart, Counted, Counting
    <3>2. Counted(k)' = Counted(k) \ {h}
      BY <1>1, <2>2 DEF Counted, Counting, Releasing, Closing
    <3>3. /\ stmts[k] # None /\ stmts[k].handles = Cardinality(Counted(k))
          /\ \A g \in Counted(k) : name[g] = stmts[k].name
          /\ \A g \in Handles : key[g] = k => pc[g] \notin Preparing
      BY <3>1 DEF Apart
    <3>4. /\ Cardinality(Counted(k)') = Cardinality(Counted(k)) - 1
          /\ Cardinality(Counted(k)) >= 1 /\ IsFiniteSet(Counted(k)')
      BY <3>1, <3>2, CountedIsFinite, RemoveOne
    <3>5. \A g \in Handles : key'[g] = k => pc'[g] \notin Preparing
      BY <1>1, <3>3 DEF Preparing, Closing
    <3>6. CASE ReleasesLast(k)
      <4>1. Cardinality(Counted(k)) \in Nat /\ Cardinality(Counted(k)) <= 1
        BY <3>3, <3>6, CountedIsFinite, FS_CardinalityType DEF ReleasesLast
      <4>2. Counted(k)' = {}
        BY <3>4, <4>1, FS_EmptySet
      <4> QED
        BY <1>1, <2>2, <3>5, <3>6, <4>2 DEF Apart
    <3>7. CASE ~ReleasesLast(k)
      <4>1. \A g \in Counted(k)' : name'[g] = stmts'[k].name
        BY <1>1, <2>2, <3>2, <3>3, <3>7
      <4> QED
        BY <1>1, <2>2, <3>3, <3>4, <3>5, <3>7, <4>1 DEF Apart
    <3> QED
      BY <3>6, <3>7
  <2> QED
    BY <2>1, <2>2
<1>13. Traced'
  <2> SUFFICES ASSUME NEW s \in server', s.key \notin overlapped' PROVE Accounted(s)'
    BY DEF Traced
  <2>1. Accounted(s) /\ s.key \in Keys
    BY <1>1 DEF Inv, Traced, TypeOK, Statement
  <2>2. ASSUME s.key = key[h], stmts[s.key] # None PROVE name[h] = stmts[s.key].name
    BY <1>1, <2>1, <2>2 DEF Inv, AllApart, Apart, Counted, Counting
  <2>3. CASE stmts[s.key] # None /\ stmts[s.key].name = s.name
    BY <1>1, <1>4, <2>1, <2>2, <2>3 DEF Accounted
  <2>4. CASE Doomed(s.name)
    BY <1>4, <2>4 DEF Accounted
  <2>5. CASE \E g \in Handles : pc[g] \in {"prepared"} \cup Abandoned /\ name[g] = s.name
    BY <1>1, <2>5 DEF Accounted, Abandoned, Releasing
  <2> QED
    BY <2>1, <2>3, <2>4, <2>5 DEF Accounted
<1> QED
  BY <1>1, <1>6, <1>7, <1>9, <1>10, <1>11, <1>12, <1>13 DEF Kept, AllApart

LEMMA ServerPrepareKeeps == ASSUME Inv, ServerPrepare PROVE Kept
<1> DEFINE h == Head(queue).by
           there == [name |-> name[h], key |-> key[h]]
<1>1. /\ h \in Handles /\ Head(queue) \in Sent /\ Head(queue).name = name[h]
      /\ name[h] \in Nat /\ name[h] > 0 /\ key[h] \in Keys
      /\ pc[h] \in {"preparing", "cancelled"} /\ pc'[h] \in {pc[h], "prepared", "failed"}
      /\ pc[h] = "cancelled" => pc'[h] = pc[h]
      /\ pc[h] = "preparing" => pc'[h] \in {"prepared", "failed"}
      /\ pc'[h] = "failed" => server' = server
      /\ \A g \in Handles \ {h} : pc'[g] = pc[g]
      /\ server' \in {server, server \cup {there}}
      /\ pc'[h] = "prepared" => there \in server'
      /\ Sent = Sent' \cup {Head(queue)} /\ Head(queue) \notin Sent' /\ Distinct(queue')
      /\ Head(queue).op = "Prepare" /\ Head(queue).by = h
      /\ UNCHANGED <<stmts, counter, key, name, overlapped>>
  BY ServerPrepareFacts DEF ServerPrepare
<1>2. there.name = name[h] /\ there.key = key[h] /\ there = [name |-> name[h], key |-> key[h]]
  OBVIOUS
<1>3. \A s \in server' : s \in server \/ s = there
  BY <1>1
<1>4. server \subseteq server'
  BY <1>1
<1>5. \A m \in Sent' : m.op = "Prepare" => m.by # h
  <2> SUFFICES ASSUME NEW m \in Sent', m.op = "Prepare", m.by = h PROVE FALSE
    OBVIOUS
  <2>1. m \in Command /\ Head(queue) \in Command /\ m.name = name[h]
    BY <1>1, CommandFacts DEF Inv, Asked
  <2>2. m = Head(queue)
    BY <1>1, <2>1 DEF Command
  <2> QED
    BY <1>1, <2>2
<1> HIDE DEF h, there
<1>6. \A n : Doomed(n)' <=> Doomed(n)
  BY <1>1, DoomedFacts DEF Closing
<1>7. Given'
  BY <1>1, <1>2, <1>3 DEF Inv, Given, OnItsOwn
<1>8. OneKey'
  <2>1. \A s \in server', g \in Handles : s.name = name'[g] => key'[g] = s.key
    <3> TAKE s \in server', g \in Handles
    <3>1. CASE s \in server
      BY <1>1, <3>1 DEF Inv, OneKey
    <3>2. CASE s = there
      BY <1>1, <1>2, <3>2 DEF Inv, OneKey
    <3> QED
      BY <1>3, <3>1, <3>2
  <2>2. \A s \in server : s.name = name[h] => s = there
    BY <1>1, <1>2 DEF Inv, OneKey, TypeOK, Statement, there
  <2>3. \A s, r \in server' : s.name = r.name => s = r
    BY <1>2, <1>3, <2>2 DEF Inv, OneKey
  <2> QED
    BY <1>1, <2>1, <2>3 DEF Inv, OneKey
<1>9. Fresh'
  BY <1>1, <1>2, <1>4, <1>6 DEF Inv, Fresh, OnItsOwn
<1>10. Asked'
  BY <1>1, <1>5, SentTypes DEF Inv, Asked
<1>11. HitIsAlive'
  BY <1>1, <1>4, <1>6 DEF Inv, HitIsAlive
<1>12. ASSUME NEW k \in Keys \ overlapped PROVE Apart(k)'
  BY <1>1, ApartFrame DEF Inv, AllApart, Preparing, Counting, Releasing
<1>13. Traced'
  <2> SUFFICES ASSUME NEW s \in server', s.key \notin overlapped' PROVE Accounted(s)'
    BY DEF Traced
  <2>1. CASE s \in server
    <3>1. Accounted(s)
      BY <1>1, <2>1 DEF Inv, Traced
    <3> QED
      BY <1>1, <1>6, <3>1 DEF Accounted, Abandoned
  <2>2. CASE s = there /\ s \notin server
    BY <1>1, <1>2, <2>2 DEF Accounted, Abandoned
  <2> QED
    BY <1>3, <2>1, <2>2
<1> QED
  BY <1>1, <1>7, <1>8, <1>9, <1>10, <1>11, <1>12, <1>13 DEF Kept, AllApart

LEMMA ServerCloseKeeps == ASSUME Inv, ServerClose PROVE Kept
<1> DEFINE c == Head(queue)
<1>1. /\ Sent = Sent' \cup {c} /\ c \in Sent /\ c.op = "CloseStatement" /\ c.by \in Handles
      /\ Distinct(queue') /\ c \notin Sent'
      /\ server' = {s \in server : s.name # c.name}
      /\ UNCHANGED <<stmts, counter, pc, key, name, overlapped>>
  BY ServerCloseFacts DEF ServerClose, Command
<1> HIDE DEF c
<1>2. \A n : Doomed(n)' => Doomed(n)
  BY <1>1, DoomedFacts
<1>3. \A n : Doomed(n) => Doomed(n)' \/ n = c.name
  BY <1>1, DoomedFacts
<1>4. Doomed(c.name)
  BY <1>1, DoomedFacts
<1>5. Given'
  BY <1>1 DEF Inv, Given
<1>6. OneKey'
  BY <1>1 DEF Inv, OneKey
<1>7. Fresh'
  <2> SUFFICES ASSUME NEW g \in Handles, pc'[g] \in OnItsOwn
               PROVE  /\ \A f \in Handles : name'[f] = name'[g] => f = g
                      /\ \A k \in Keys : stmts'[k] # None => stmts'[k].name # name'[g]
                      /\ ~Doomed(name[g])'
                      /\ pc'[g] = "prepared" => [name |-> name'[g], key |-> key'[g]] \in server'
    BY DEF Fresh
  <2>1. name[g] # c.name
    BY <1>1, <1>4 DEF Inv, Fresh
  <2> QED
    BY <1>1, <1>2, <2>1 DEF Inv, Fresh
<1>8. Asked'
  BY <1>1, SentTypes DEF Inv, Asked
<1>9. HitIsAlive'
  BY <1>1, <1>2, <1>4 DEF Inv, HitIsAlive
<1>10. ASSUME NEW k \in Keys \ overlapped PROVE Apart(k)'
  BY <1>1, ApartFrame DEF Inv, AllApart
<1>11. Traced'
  <2> SUFFICES ASSUME NEW s \in server', s.key \notin overlapped' PROVE Accounted(s)'
    BY DEF Traced
  <2>1. Accounted(s) /\ s.name # c.name
    BY <1>1 DEF Inv, Traced
  <2> QED
    BY <1>1, <1>3, <2>1 DEF Accounted
<1> QED
  BY <1>1, <1>5, <1>6, <1>7, <1>8, <1>9, <1>10, <1>11 DEF Kept, AllApart

LEMMA StutterKeeps == ASSUME Inv, UNCHANGED vars PROVE Kept
<1>1. /\ UNCHANGED <<stmts, counter, pc, key, name, queue, server, overlapped>>
      /\ Sent' = Sent
  BY DEF vars, Sent
<1>2. \A n : Doomed(n)' <=> Doomed(n)
  BY <1>1, DoomedFacts
<1>3. Given' /\ OneKey' /\ Asked'
  BY <1>1 DEF Inv, Given, OneKey, Asked
<1>4. Fresh' /\ HitIsAlive'
  BY <1>1, <1>2 DEF Inv, Fresh, HitIsAlive
<1>5. \A k \in Keys \ overlapped : Apart(k)'
  BY <1>1, ApartFrame DEF Inv, AllApart
<1>6. Traced'
  BY <1>1, <1>2 DEF Inv, Traced, Accounted
<1> QED
  BY <1>1, <1>3, <1>4, <1>5, <1>6 DEF Kept, AllApart

-----------------------------------------------------------------------------
(* The theorems *)

LEMMA InitInv == ASSUME Init PROVE Inv
<1>1. TypeOK
  BY DEF Init, TypeOK, States
<1>2. Sent = {} /\ Distinct(queue)
  BY EmptySeqFacts DEF Init, Sent
<1>3. Given /\ OneKey /\ Asked
  BY <1>2 DEF Init, Given, OneKey, Asked, OnItsOwn
<1>4. Fresh /\ HitIsAlive /\ Traced
  BY DEF Init, Fresh, HitIsAlive, Traced, OnItsOwn
<1>5. AllApart
  BY DEF Init, AllApart, Apart, Counted, Counting, Releasing, Preparing
<1> QED
  BY <1>1, <1>3, <1>4, <1>5 DEF Inv

LEMMA StepInv == ASSUME Inv, [Next]_vars PROVE Inv'
<1>1. Kept
  BY HitKeeps, MissKeeps, NextNameKeeps, QuietKeeps, SendPrepareKeeps, SendCloseKeeps,
     StoreKeeps, ReleaseKeeps, ServerPrepareKeeps, ServerCloseKeeps, StutterKeeps
     DEF Next, HandleStep, Quiescent
<1> QED
  BY <1>1, TypesKept DEF Kept, Inv

LEMMA Invariance == Spec => []Inv
  BY InitInv, StepInv, PTL DEF Spec

(* A statement that the cache would hand out exists on the server under     *)
(* that key, and nobody is about to close it, however prepare_query,        *)
(* prepare_command, close, drop and abandoned calls overlap, also on the    *)
(* same key.                                                                *)
THEOREM CacheHitsAreAlive == Spec => []HitIsAlive
<1>1. Inv => HitIsAlive
  BY DEF Inv
<1> QED
  BY Invariance, <1>1, PTL

(* A handle whose key was never prepared twice at a time can be executed    *)
(* until it is released itself: release_handle of another one never closes  *)
(* its statement.                                                           *)
THEOREM LiveHandlesWork == Spec => []LiveHandleWorksApart
<1>1. Inv => LiveHandleWorksApart
  <2> SUFFICES ASSUME Inv, NEW h \in Handles, pc[h] = "live", key[h] \notin overlapped
               PROVE  HandleWorks(h)
    BY DEF LiveHandleWorksApart
  <2>1. key[h] \in Keys
    BY DEF Inv, TypeOK
  <2>2. stmts[key[h]] # None /\ name[h] = stmts[key[h]].name
    BY <2>1 DEF Inv, AllApart, Apart, Counted, Counting
  <2> QED
    BY <2>1, <2>2 DEF Inv, HitIsAlive, HandleWorks
<1> QED
  BY Invariance, <1>1, PTL

(* The handles an entry counts are the ones that exist, and every statement *)
(* on the server is cached, about to be, or on its way out.                 *)
THEOREM BooksAlwaysAgree == Spec => []BooksAgree
<1>1. Inv => BooksAgree
  <2> SUFFICES ASSUME Inv PROVE BooksAgree
    OBVIOUS
  <2>1. \A k \in Keys \ overlapped : CountIsExact(k)
    BY DEF Inv, AllApart, Apart, CountIsExact, Counted, Counting
  <2> QED
    BY <2>1 DEF Inv, Traced, BooksAgree
<1> QED
  BY Invariance, <1>1, PTL
=============================================================================
