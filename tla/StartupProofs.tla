---------------------------- MODULE StartupProofs ----------------------------
(***************************************************************************)
(* Proofs about connecting, for every client configuration, every server   *)
(* and every number of messages out of turn.                               *)
(***************************************************************************)
EXTENDS Startup, SequenceTheorems, TLAPS

-----------------------------------------------------------------------------
(* What a server can send *)

Plain == {"Ok", "ErrorResponse", "ParameterStatus", "Unsupported", "NoticeResponse",
          "BackendKeyData", "CleartextPassword", "Md5Password", "S", "N", "X"}
Texts(s) ==
    {Msg(m) : m \in Plain}
    \cup {MsgWith("ReadyForQuery", d) : d \in {"I", "T"}}
    \cup {MsgWith("SaslContinue", d) : d \in {"good", "bad"}}
    \cup {MsgWith("SaslFinal", d) : d \in {"right", "wrong"}}
    \cup (IF s.method = "sasl" THEN {MsgWith("Sasl", s.offers)} ELSE {})
Pieces(s) == [of : Texts(s), last : BOOLEAN]

-----------------------------------------------------------------------------
(* The inductive invariant *)

Early == {"tcp", "ssl", "upgrade", "hello"}
Authenticating == {"auth", "server first", "server final"}
Later == Authenticating \cup {"parameters", "session"}

Exchanges == [stage : {"none", "first", "final", "verified", "fooled"},
              mechanism : {"none", "PLUS", "SHA256"}, bound : BOOLEAN]
Words == {"Startup", "Password", "Md5", "PLUS", "SHA256", "Proof"}

Typed ==
    /\ serverIs \in Servers
    /\ rx \in Seq(Pieces(serverIs)) /\ wire \in Seq(Pieces(serverIs))
    /\ params \in Nat /\ told \in Nat /\ late \in Nat /\ odd \in Nat
    /\ scram \in Exchanges

(* Before the startup message nothing is under way, but the SSLRequest or   *)
(* its one byte.                                                            *)
Quietly ==
    pc \in Early =>
        /\ rx = <<>> /\ turn = "ssl" /\ scram = NoScram /\ told = 0 /\ late = 0 /\ params = 0
        /\ pc # "ssl" => toServer = <<>> /\ wire = <<>>
        /\ pc = "ssl" => \/ toServer = <<"SSLRequest">> /\ wire = <<>>
                         \/ toServer = <<>> /\ Len(wire) = 1
Unasked ==
    pc \in Later => /\ toServer \in Seq(Words)
                    /\ turn \in {"parameters", "ready"} \/ (told = 0 /\ late = 0)

(* Authentication.                                                          *)
Proven ==
    /\ pc \in {"auth", "parameters", "session"} => scram.stage \in {"none", "verified"}
    /\ pc \in {"server first", "server final"} => scram.stage # "none"
    /\ pc \in {"hello"} \cup Later /\ config.tls = "require" => tls = "tls"
    /\ binding = "Available" => tls = "tls"

(* What is under way, from the bytes that are read to those on the wire, is *)
(* a sequence of messages.                                                  *)
Feed == rx \o wire
Carries(q) ==
    /\ Len(Feed) = 2 * Len(q)
    /\ \A i \in 1..Len(q) : Feed[2 * i - 1].of = q[i] /\ Feed[2 * i].of = q[i]

(* With a server that keeps to its turns: nothing that ends authentication  *)
(* is under way; or the o-th message is the AuthenticationOk, with the      *)
(* settings and the ReadyForQuery behind it; or the session has begun.      *)
Signals == {"Ok", "ParameterStatus", "ReadyForQuery"}
Before(q) ==
    /\ pc \in Authenticating /\ params = 0 /\ told = 0 /\ late = 0
    /\ \A i \in 1..Len(q) : q[i].m \notin Signals
Granted(q, o) ==
    /\ o = 0 => pc = "parameters"
    /\ o > 0 => pc \in Authenticating /\ params = 0 /\ q[o].m = "Ok"
    /\ \A i \in 1..(o - 1) : q[i].m \notin Signals
    /\ turn = "parameters" =>
          /\ late = 0 /\ told = params + (Len(q) - o)
          /\ \A i \in (o + 1)..Len(q) : q[i].m = "ParameterStatus"
    /\ turn = "ready" =>
          /\ Len(q) - late > o /\ told = params + (Len(q) - o - 1)
          /\ q[Len(q) - late] = MsgWith("ReadyForQuery", "I")
          /\ \A i \in (o + 1)..Len(q) : i # Len(q) - late => q[i].m = "ParameterStatus"
After(q) ==
    /\ pc = "session" /\ ready = "I" /\ Len(q) = late /\ told = params + late
    /\ \A i \in 1..Len(q) : q[i].m = "ParameterStatus"
InTurn(q) ==
    /\ pc = "session" => After(q)
    /\ pc # "session" /\ turn \in {"parameters", "ready"} => \E o \in 0..Len(q) : Granted(q, o)
    /\ pc # "session" /\ turn \notin {"parameters", "ready"} => Before(q)
Flow ==
    pc \in Later => \E q \in Seq(Texts(serverIs)) : Carries(q) /\ (odd = 0 => InTurn(q))

Inv == Typed /\ Quietly /\ Unasked /\ Proven /\ MechanismMatches /\ Flow

-----------------------------------------------------------------------------
(* Messages *)

LEMMA TextFacts ==
    ASSUME NEW s \in Servers
    PROVE  /\ \A m \in Plain : Msg(m) \in Texts(s) /\ Msg(m).m = m
           /\ Msg(s.ssl) \in Texts(s)
           /\ s.method \in {"CleartextPassword", "Md5Password"} =>
                 Msg(s.method) \in Texts(s) /\ Msg(s.method).m \notin Signals
           /\ s.method = "sasl" => MsgWith("Sasl", s.offers) \in Texts(s)
           /\ \A d \in {"I", "T"} : MsgWith("ReadyForQuery", d) \in Texts(s)
           /\ MsgWith("SaslContinue", "good") \in Texts(s)
           /\ MsgWith("SaslFinal", "right") \in Texts(s)
           /\ OddMessages \subseteq Texts(s)
           /\ \A t \in Texts(s) : t.m = "Sasl" => s.method = "sasl" /\ t.data = s.offers
           /\ \A m, d : MsgWith(m, d).m = m /\ MsgWith(m, d).data = d
<1>1. \A m, d : MsgWith(m, d).m = m /\ MsgWith(m, d).data = d
  BY DEF MsgWith
<1>2. \A m : Msg(m).m = m
  BY DEF Msg
<1>3. \A m \in Plain : Msg(m) \in Texts(s)
  BY DEF Texts
<1>4. /\ \A d \in {"I", "T"} : MsgWith("ReadyForQuery", d) \in Texts(s)
      /\ \A d \in {"good", "bad"} : MsgWith("SaslContinue", d) \in Texts(s)
      /\ \A d \in {"right", "wrong"} : MsgWith("SaslFinal", d) \in Texts(s)
  BY DEF Texts
<1>5. s.method = "sasl" => MsgWith("Sasl", s.offers) \in Texts(s)
  BY DEF Texts
<1>6. OddMessages \subseteq Texts(s)
  <2>1. {"Ok", "CleartextPassword", "NoticeResponse", "ErrorResponse", "BackendKeyData"}
           \subseteq Plain
    BY DEF Plain
  <2> QED
    BY <1>3, <1>4, <2>1 DEF OddMessages
<1>7. \A t \in Texts(s) : t.m = "Sasl" => s.method = "sasl" /\ t.data = s.offers
  <2> TAKE t \in Texts(s)
  <2>1. CASE t \in {Msg(m) : m \in Plain}
    BY <1>2, <2>1 DEF Plain
  <2>2. CASE \E d : t \in {MsgWith("ReadyForQuery", d), MsgWith("SaslContinue", d),
                          MsgWith("SaslFinal", d)}
    BY <1>1, <2>2
  <2>3. CASE s.method = "sasl" /\ t = MsgWith("Sasl", s.offers)
    BY <1>1, <2>3
  <2> QED
    BY <2>1, <2>2, <2>3 DEF Texts
<1>8. s.ssl \in Plain /\ {"CleartextPassword", "Md5Password"} \subseteq Plain \ Signals
  BY ServersAssumption DEF Plain, Signals
<1> QED
  BY <1>1, <1>2, <1>3, <1>4, <1>5, <1>6, <1>7, <1>8

LEMMA JoinMoved ==
    ASSUME NEW P, NEW r \in Seq(P), NEW a \in Seq(P), NEW b \in Seq(P)
    PROVE  r \o a \in Seq(P) /\ (r \o a) \o b = r \o (a \o b)
BY ConcatAssociative, ConcatProperties

(* A sequence cut in two.                                                   *)
LEMMA CutInTwo ==
    ASSUME NEW P, NEW w \in Seq(P), NEW n \in 1..Len(w)
    PROVE  /\ SubSeq(w, 1, n) \in Seq(P) /\ SubSeq(w, n + 1, Len(w)) \in Seq(P)
           /\ SubSeq(w, 1, n) \o SubSeq(w, n + 1, Len(w)) = w
<1>1. n \in 0..Len(w) /\ Len(w) \in Nat /\ \A i \in 1..Len(w) : w[i] \in P
  OBVIOUS
<1> DEFINE a == SubSeq(w, 1, n)
           b == SubSeq(w, n + 1, Len(w))
<1>2. a \in Seq(P) /\ b \in Seq(P)
  <2>1. \A i \in 1..n : w[i] \in P
    BY <1>1
  <2>2. \A i \in (n + 1)..Len(w) : w[i] \in P
    BY <1>1
  <2>3. 1 \in Int /\ n \in Int /\ n + 1 \in Int /\ Len(w) \in Int
    BY <1>1
  <2> QED
    BY <2>1, <2>2, <2>3, SubSeqProperties
<1>3. a \o b = w
  <2>1. /\ 1 \in 1..Len(w) + 1 /\ n \in 1 - 1..Len(w) /\ Len(w) \in n..Len(w)
    BY <1>1
  <2>2. a \o b = SubSeq(w, 1, Len(w))
    BY <1>1, <2>1, ConcatAdjacentSubSeq
  <2> QED
    BY <1>1, <2>2, SubSeqFull
<1> QED
  BY <1>2, <1>3 DEF a, b

(* read_buf moves bytes, and the messages under way stay as they are.       *)
LEMMA FeedRead ==
    ASSUME Typed, UNCHANGED serverIs, NEW n \in 1..Len(wire), rx' = rx \o SubSeq(wire, 1, n),
           wire' = SubSeq(wire, n + 1, Len(wire))
    PROVE  /\ Feed' = Feed
           /\ rx' \in Seq(Pieces(serverIs)) /\ wire' \in Seq(Pieces(serverIs))
<1>1. rx \in Seq(Pieces(serverIs)) /\ wire \in Seq(Pieces(serverIs))
  BY DEF Typed
<1> DEFINE a == SubSeq(wire, 1, n)
<1>2. a \in Seq(Pieces(serverIs)) /\ wire' \in Seq(Pieces(serverIs)) /\ a \o wire' = wire
  BY <1>1, CutInTwo
<1>3. rx' = rx \o a
  OBVIOUS
<1> HIDE DEF a
<1>4. rx \o a \in Seq(Pieces(serverIs)) /\ (rx \o a) \o wire' = rx \o (a \o wire')
  <2> DEFINE S == Seq(Pieces(serverIs))
             v == wire'
  <2>1. rx \in S /\ a \in S /\ v \in S
    BY <1>1, <1>2
  <2>2. \A x, y, z \in S : x \o y \in S /\ (x \o y) \o z = x \o (y \o z)
    BY JoinMoved, SMTT(60)
  <2> HIDE DEF S, v
  <2>3. rx \o a \in S /\ (rx \o a) \o v = rx \o (a \o v)
    BY <2>1, <2>2, ZenonT(40)
  <2> QED
    BY <2>3 DEF S, v
<1> QED
  BY <1>2, <1>3, <1>4, Zenon DEF Feed

(* decode takes the first message.                                          *)
LEMMA CarriesDecoded ==
    ASSUME Typed, Whole, Decoded, UNCHANGED <<wire, serverIs>>,
           NEW q \in Seq(Texts(serverIs)), Carries(q)
    PROVE  /\ q # <<>> /\ Message = q[1] /\ Tail(q) \in Seq(Texts(serverIs))
           /\ rx' \in Seq(Pieces(serverIs)) /\ Carries(Tail(q))'
<1> DEFINE P == Pieces(serverIs)
<1>1. rx \in Seq(P) /\ wire \in Seq(P) /\ Len(rx) \in Nat /\ Len(rx) >= 2
  BY DEF Typed, Whole
<1> HIDE DEF P
<1>2. /\ rx' \in Seq(P) /\ Len(rx') = Len(rx) - 2
      /\ \A i \in 1..Len(rx) - 2 : rx'[i] = rx[i + 2]
  <2>1. \A i \in 3..Len(rx) : rx[i] \in P
    BY <1>1
  <2>2. 3 \in Int /\ Len(rx) \in Int
    BY <1>1
  <2>3. /\ SubSeq(rx, 3, Len(rx)) \in Seq(P)
        /\ Len(SubSeq(rx, 3, Len(rx))) = IF 3 <= Len(rx) THEN Len(rx) - 3 + 1 ELSE 0
        /\ \A i \in 1..Len(rx) - 3 + 1 : SubSeq(rx, 3, Len(rx))[i] = rx[3 + i - 1]
    BY <2>1, <2>2, SubSeqProperties
  <2>4. Len(rx) - 3 + 1 = Len(rx) - 2 /\ \A i \in 1..Len(rx) - 2 : 3 + i - 1 = i + 2
    BY <1>1
  <2>5. (IF 3 <= Len(rx) THEN Len(rx) - 3 + 1 ELSE 0) = Len(rx) - 2
    <3>0. Len(rx) = 2 \/ Len(rx) >= 3
      <4>1. \A n \in Nat : n >= 2 => n = 2 \/ n >= 3
        OBVIOUS
      <4> QED
        BY <1>1, <4>1, Zenon
    <3>1. CASE Len(rx) = 2
      BY <3>1
    <3>2. CASE Len(rx) >= 3
      BY <1>1, <3>2
    <3> QED
      BY <3>0, <3>1, <3>2
  <2>6. rx' = SubSeq(rx, 3, Len(rx))
    BY DEF Decoded
  <2>7. Len(rx') = Len(rx) - 2
    BY <2>3, <2>5, <2>6, Zenon
  <2>8. \A i \in 1..Len(rx) - 2 : rx'[i] = rx[i + 2]
    BY <2>3, <2>4, <2>6, Zenon
  <2> QED
    BY <2>3, <2>6, <2>7, <2>8
<1>3. /\ Len(Feed) = Len(rx) + Len(wire) /\ Len(wire) \in Nat
      /\ \A i \in 1..Len(rx) + Len(wire) : Feed[i] = IF i <= Len(rx) THEN rx[i] ELSE wire[i - Len(rx)]
  BY <1>1, ConcatProperties DEF Feed
<1>4. /\ Len(Feed') = Len(rx') + Len(wire)
      /\ \A i \in 1..Len(rx') + Len(wire) :
            Feed'[i] = IF i <= Len(rx') THEN rx'[i] ELSE wire[i - Len(rx')]
  BY <1>1, <1>2, ConcatProperties DEF Feed
<1> HIDE DEF Feed
<1>5. Len(Feed') = Len(Feed) - 2 /\ Len(Feed) \in Nat /\ Len(Feed) >= 2
  BY <1>1, <1>2, <1>3, <1>4
<1>6. \A i \in 1..Len(Feed) - 2 : Feed'[i] = Feed[i + 2]
  <2> TAKE i \in 1..Len(Feed) - 2
  <2>1. i \in 1..Len(rx') + Len(wire) /\ i + 2 \in 1..Len(rx) + Len(wire)
    BY <1>1, <1>2, <1>3
  <2>2. CASE i <= Len(rx) - 2
    BY <1>1, <1>2, <1>3, <1>4, <2>1, <2>2
  <2>3. CASE i > Len(rx) - 2
    <3>1. i - Len(rx') = i + 2 - Len(rx) /\ ~(i <= Len(rx')) /\ ~(i + 2 <= Len(rx))
      BY <1>1, <1>2, <2>1, <2>3
    <3> QED
      BY <1>3, <1>4, <2>1, <3>1, SMTT(20)
  <2> QED
    BY <1>1, <2>1, <2>2, <2>3
<1>7. Len(q) \in Nat /\ Len(Feed) = 2 * Len(q) /\ Len(q) >= 1
  BY <1>5 DEF Carries
<1>8. q # <<>> /\ Tail(q) \in Seq(Texts(serverIs)) /\ Len(Tail(q)) = Len(q) - 1
      /\ \A i \in 1..Len(q) - 1 : Tail(q)[i] = q[i + 1]
  <2>1. q # <<>>
    BY <1>7
  <2> QED
    BY <2>1, HeadTailProperties
<1>9. Message = q[1]
  <2>1. Feed[2 * 1 - 1].of = q[1]
    BY <1>7 DEF Carries
  <2>2. Feed[1] = rx[1]
    BY <1>1, <1>3
  <2>3. Head(rx) = rx[1]
    BY <1>1
  <2> QED
    BY <2>1, <2>2, <2>3 DEF Message
<1>10. \A i \in 1..Len(q) - 1 : Feed'[2 * i - 1].of = Tail(q)[i] /\ Feed'[2 * i].of = Tail(q)[i]
  <2> TAKE i \in 1..Len(q) - 1
  <2>1. i + 1 \in 1..Len(q) /\ 2 * i - 1 \in 1..Len(Feed) - 2 /\ 2 * i \in 1..Len(Feed) - 2
    BY <1>7
  <2>2. (2 * i - 1) + 2 = 2 * (i + 1) - 1 /\ 2 * i + 2 = 2 * (i + 1)
    OBVIOUS
  <2>3. Feed[2 * (i + 1) - 1].of = q[i + 1] /\ Feed[2 * (i + 1)].of = q[i + 1]
    BY <2>1 DEF Carries
  <2>4. Feed'[2 * i - 1] = Feed[2 * (i + 1) - 1] /\ Feed'[2 * i] = Feed[2 * (i + 1)]
    BY <1>6, <2>1, <2>2
  <2> QED
    BY <1>8, <2>3, <2>4
<1>11. Carries(Tail(q))'
  BY <1>5, <1>7, <1>8, <1>10 DEF Carries
<1> QED
  BY <1>2, <1>8, <1>9, <1>11 DEF P

(* The server puts a message on the wire.                                   *)
LEMMA CarriesSaid ==
    ASSUME Typed, NEW m \in Texts(serverIs), wire' = wire \o Units(m), UNCHANGED <<rx, serverIs>>
    PROVE  /\ wire' \in Seq(Pieces(serverIs))
           /\ \A q \in Seq(Texts(serverIs)) :
                 Carries(q) => Append(q, m) \in Seq(Texts(serverIs)) /\ Carries(Append(q, m))'
<1> DEFINE P == Pieces(serverIs)
           u == Units(m)
<1>1. rx \in Seq(P) /\ wire \in Seq(P)
  BY DEF Typed
<1>2. u \in Seq(P) /\ Len(u) = 2 /\ u[1].of = m /\ u[2].of = m
  <2>1. [of |-> m, last |-> FALSE] \in P /\ [of |-> m, last |-> TRUE] \in P
    BY DEF Pieces
  <2> HIDE DEF P
  <2> QED
    BY <2>1 DEF Units
<1> HIDE DEF P, u
<1>3. wire' \in Seq(P) /\ wire' = wire \o u
  BY <1>1, <1>2, ConcatProperties DEF u
<1>4. Feed' = Feed \o u /\ Feed \in Seq(P)
  <2>1. (rx \o wire) \o u = rx \o (wire \o u)
    BY <1>1, <1>2, ConcatAssociative, SMTT(20)
  <2>2. rx \o wire \in Seq(P)
    BY <1>1, ConcatProperties
  <2> QED
    BY <1>3, <2>1, <2>2, Zenon DEF Feed
<1> HIDE DEF Feed
<1>5. /\ Len(Feed') = Len(Feed) + 2 /\ Len(Feed) \in Nat
      /\ \A i \in 1..Len(Feed) + 2 : Feed'[i] = IF i <= Len(Feed) THEN Feed[i] ELSE u[i - Len(Feed)]
  <2>1. /\ Len(Feed \o u) = Len(Feed) + Len(u)
        /\ \A i \in 1..Len(Feed) + Len(u) :
              (Feed \o u)[i] = IF i <= Len(Feed) THEN Feed[i] ELSE u[i - Len(Feed)]
    BY <1>2, <1>4, ConcatProperties
  <2>2. Len(Feed) \in Nat
    BY <1>4
  <2> QED
    BY <1>2, <1>4, <2>1, <2>2, Zenon
<1>6. ASSUME NEW q \in Seq(Texts(serverIs)), Carries(q)
      PROVE  Append(q, m) \in Seq(Texts(serverIs)) /\ Carries(Append(q, m))'
  <2> DEFINE a == Append(q, m)
  <2>1. /\ a \in Seq(Texts(serverIs)) /\ Len(a) = Len(q) + 1 /\ Len(q) \in Nat
        /\ \A i \in 1..Len(q) : a[i] = q[i]
        /\ a[Len(q) + 1] = m
    OBVIOUS
  <2>2. Len(Feed) = 2 * Len(q)
    BY <1>6 DEF Carries
  <2> HIDE DEF a
  <2>3. \A i \in 1..Len(a) : Feed'[2 * i - 1].of = a[i] /\ Feed'[2 * i].of = a[i]
    <3> TAKE i \in 1..Len(a)
    <3>1. CASE i <= Len(q)
      <4>1. 2 * i - 1 \in 1..Len(Feed) /\ 2 * i \in 1..Len(Feed) /\ i \in 1..Len(q)
        BY <2>1, <2>2, <3>1
      <4>2. Feed'[2 * i - 1] = Feed[2 * i - 1] /\ Feed'[2 * i] = Feed[2 * i]
        BY <1>5, <4>1
      <4> QED
        BY <1>6, <2>1, <4>1, <4>2 DEF Carries
    <3>2. CASE i > Len(q)
      <4>1. i = Len(q) + 1 /\ 2 * i - 1 = Len(Feed) + 1 /\ 2 * i = Len(Feed) + 2
        <5>1. i \in Nat /\ i <= Len(q) + 1
          BY <2>1
        <5>2. i = Len(q) + 1
          BY <2>1, <3>2, <5>1
        <5> QED
          BY <2>1, <2>2, <5>2
      <4>2. Feed'[Len(Feed) + 1] = u[1] /\ Feed'[Len(Feed) + 2] = u[2]
        <5>1. /\ Len(Feed) + 1 \in 1..Len(Feed) + 2 /\ ~(Len(Feed) + 1 <= Len(Feed))
              /\ Len(Feed) + 2 \in 1..Len(Feed) + 2 /\ ~(Len(Feed) + 2 <= Len(Feed))
              /\ (Len(Feed) + 1) - Len(Feed) = 1 /\ (Len(Feed) + 2) - Len(Feed) = 2
          BY <1>5
        <5> QED
          BY <1>5, <5>1
      <4> QED
        BY <1>2, <2>1, <4>1, <4>2
    <3> QED
      BY <2>1, <3>1, <3>2
  <2> QED
    BY <1>5, <2>1, <2>2, <2>3, SMTT(20) DEF Carries, a
<1> QED
  BY <1>3, <1>6 DEF P

-----------------------------------------------------------------------------
(* The messages under way *)

(* What a message that is no error does to the client.                      *)
Walks ==
    \/ pc \in Authenticating /\ pc' \in Authenticating /\ params' = params /\ Message.m # "Ok"
    \/ pc = "auth" /\ pc' = "parameters" /\ params' = params /\ Message.m = "Ok"
    \/ /\ pc = "parameters" /\ pc' = "parameters" /\ params' = params + 1
       /\ Message.m = "ParameterStatus"
    \/ /\ pc = "parameters" /\ pc' = "parameters" /\ params' = params
       /\ Message.m \notin Signals
    \/ /\ pc = "parameters" /\ pc' = "session" /\ params' = params
       /\ ready' = Message.data /\ Message.m = "ReadyForQuery"

LEMMA DecodedInTurn ==
    ASSUME Typed, Whole, UNCHANGED <<turn, told, late, odd>>, Walks,
           NEW q \in Seq(Texts(serverIs)), q # <<>>, Message = q[1], InTurn(q)
    PROVE  InTurn(Tail(q))'
<1> DEFINE t == Tail(q)
<1>1. /\ t \in Seq(Texts(serverIs)) /\ Len(q) \in Nat /\ Len(q) >= 1 /\ Len(t) = Len(q) - 1
      /\ \A i \in 1..Len(t) : t[i] = q[i + 1] /\ i + 1 \in 1..Len(q)
  <2>1. Len(q) \in Nat /\ Len(q) >= 1
    BY HeadTailProperties
  <2>2. t \in Seq(Texts(serverIs)) /\ Len(t) = Len(q) - 1 /\ \A i \in 1..Len(q) - 1 : t[i] = q[i + 1]
    BY HeadTailProperties
  <2> HIDE DEF t
  <2> QED
    BY <2>1, <2>2
<1>2. params \in Nat /\ told \in Nat /\ late \in Nat
  BY DEF Typed
<1> HIDE DEF t
<1>3. pc # "session"
  BY DEF Walks, Authenticating
<1>4. CASE turn \notin {"parameters", "ready"}
  <2>1. Before(q)
    BY <1>3, <1>4 DEF InTurn
  <2>2. pc' \in Authenticating /\ params' = params
    <3>1. pc \in Authenticating /\ Message.m \notin Signals
      <4>1. 1 \in 1..Len(q)
        BY <1>1
      <4> QED
        BY <2>1, <4>1 DEF Before
    <3>2. Message.m # "Ok" /\ pc # "parameters"
      BY <3>1 DEF Signals, Authenticating
    <3> QED
      BY <3>1, <3>2 DEF Walks
  <2>3. Before(t)'
    BY <1>1, <2>1, <2>2 DEF Before
  <2> QED
    BY <1>4, <2>2, <2>3 DEF InTurn, Authenticating, t
<1>5. CASE turn \in {"parameters", "ready"}
  <2>1. PICK o \in 0..Len(q) : Granted(q, o)
    BY <1>3, <1>5 DEF InTurn
  <2>2. CASE pc \in Authenticating
    <3>1. o > 0 /\ o \in Nat
      <4>1. o \in Nat /\ pc # "parameters"
        <5>1. o \in Nat
          BY <1>1, <2>1
        <5>2. pc # "parameters"
          BY <2>2 DEF Authenticating
        <5> QED
          BY <5>1, <5>2
      <4>2. o # 0
        BY <2>1, <4>1 DEF Granted
      <4> QED
        BY <4>1, <4>2
    <3>2. o - 1 \in 0..Len(t)
      BY <1>1, <3>1
    <3>3. \A i \in 1..(o - 2) : i \in 1..Len(t) /\ i + 1 \in 1..(o - 1)
      BY <1>1, <3>1
    <3>4. \A i \in o..Len(t) : i \in 1..Len(t) /\ i + 1 \in (o + 1)..Len(q)
      BY <1>1, <3>1
    <3>5. /\ (o - 1 = 0 => pc' = "parameters")
          /\ (o - 1 > 0 => pc' \in Authenticating /\ t[o - 1].m = "Ok")
          /\ params' = params /\ pc' # "session"
      <4>1. CASE o = 1
        <5>1. Message.m = "Ok"
          BY <2>1, <4>1 DEF Granted
        <5> QED
          <6>1. pc # "parameters"
            BY <2>2 DEF Authenticating
          <6>2. pc' = "parameters" /\ params' = params
            BY <5>1, <6>1 DEF Walks
          <6> QED
            BY <4>1, <6>2
      <4>2. CASE o > 1
        <5>1. 1 \in 1..(o - 1)
          BY <3>1, <4>2
        <5>2. Message.m # "Ok"
          BY <2>1, <5>1 DEF Granted, Signals
        <5>3. o - 1 \in 1..Len(t) /\ (o - 1) + 1 = o
          BY <1>1, <3>1, <3>2, <4>2
        <5> QED
          <6>1. pc # "parameters"
            BY <2>2 DEF Authenticating
          <6>2. pc' \in Authenticating /\ params' = params
            BY <5>2, <6>1 DEF Walks
          <6>3. pc' # "session"
            BY <6>2 DEF Authenticating
          <6>4. t[o - 1].m = "Ok"
            BY <1>1, <2>1, <3>1, <5>3 DEF Granted
          <6> QED
            BY <3>1, <4>2, <6>2, <6>3, <6>4
      <4> QED
        BY <3>1, <4>1, <4>2
    <3>6. params' = 0
      BY <2>1, <3>1, <3>5 DEF Granted
    <3>7. \A i \in 1..(o - 2) : t[i].m \notin Signals
      BY <1>1, <2>1, <3>3 DEF Granted
    <3>8. turn = "parameters" => /\ late = 0 /\ told = params + (Len(t) - (o - 1))
                                 /\ \A i \in o..Len(t) : t[i].m = "ParameterStatus"
      BY <1>1, <2>1, <3>1, <3>4 DEF Granted
    <3>9. turn = "ready" =>
            /\ Len(t) - late > o - 1 /\ told = params + (Len(t) - (o - 1) - 1)
            /\ t[Len(t) - late] = MsgWith("ReadyForQuery", "I")
            /\ \A i \in o..Len(t) : i # Len(t) - late => t[i].m = "ParameterStatus"
      <4> SUFFICES ASSUME turn = "ready"
                   PROVE  /\ Len(t) - late > o - 1 /\ told = params + (Len(t) - (o - 1) - 1)
                          /\ t[Len(t) - late] = MsgWith("ReadyForQuery", "I")
                          /\ \A i \in o..Len(t) : i # Len(t) - late => t[i].m = "ParameterStatus"
        OBVIOUS
      <4>1. /\ Len(q) - late > o /\ told = params + (Len(q) - o - 1)
            /\ q[Len(q) - late] = MsgWith("ReadyForQuery", "I")
            /\ \A i \in (o + 1)..Len(q) : i # Len(q) - late => q[i].m = "ParameterStatus"
        BY <2>1 DEF Granted
      <4>2. /\ Len(t) - late \in 1..Len(t) /\ (Len(t) - late) + 1 = Len(q) - late
            /\ Len(t) - late > o - 1 /\ Len(t) - (o - 1) - 1 = Len(q) - o - 1
        BY <1>1, <1>2, <3>1, <4>1
      <4>3. \A i \in o..Len(t) : i # Len(t) - late => i + 1 # Len(q) - late
        BY <1>1, <1>2, <3>1
      <4> QED
        BY <1>1, <3>4, <4>1, <4>2, <4>3
    <3>10. Granted(t, o - 1)'
      <4>1. (o - 1) - 1 = o - 2 /\ (o - 1) + 1 = o
        BY <3>1
      <4> QED
        BY <3>5, <3>6, <3>7, <3>8, <3>9, <4>1 DEF Granted
    <3> QED
      BY <1>5, <3>2, <3>5, <3>10 DEF InTurn, t
  <2>3. CASE pc = "parameters"
    <3>1. o = 0
      BY <1>1, <2>1, <2>3 DEF Granted, Authenticating
    <3>2. \A i \in 1..Len(t) : i + 1 \in 1..Len(q) /\ i + 1 \in (0 + 1)..Len(q) /\ i \in (0 + 1)..Len(t)
      BY <1>1
    <3>3. 1 \in (0 + 1)..Len(q) /\ 0 + 1 = 1 /\ 0 \in 0..Len(t)
      BY <1>1
    <3>4. CASE turn = "parameters"
      <4>1. /\ late = 0 /\ told = params + (Len(q) - 0)
            /\ \A i \in (0 + 1)..Len(q) : q[i].m = "ParameterStatus"
        BY <2>1, <3>1, <3>4 DEF Granted
      <4>2. Message.m = "ParameterStatus"
        BY <3>3, <4>1
      <4>3. pc' = "parameters" /\ params' = params + 1
        BY <2>3, <4>2 DEF Walks, Signals, Authenticating
      <4>4. told = params' + (Len(t) - 0)
        BY <1>1, <1>2, <4>1, <4>3
      <4>5. \A i \in (0 + 1)..Len(t) : t[i].m = "ParameterStatus"
        BY <1>1, <3>2, <3>3, <4>1
      <4>6. Granted(t, 0)'
        BY <3>4, <4>1, <4>3, <4>4, <4>5 DEF Granted
      <4> QED
        BY <3>3, <3>4, <4>3, <4>6 DEF InTurn, t
    <3>5. CASE turn = "ready"
      <4>1. /\ Len(q) - late > 0 /\ told = params + (Len(q) - 0 - 1)
            /\ q[Len(q) - late] = MsgWith("ReadyForQuery", "I")
            /\ \A i \in (0 + 1)..Len(q) : i # Len(q) - late => q[i].m = "ParameterStatus"
        BY <2>1, <3>1, <3>5 DEF Granted
      <4>2. CASE Len(q) - late = 1
        <5>1. Message = MsgWith("ReadyForQuery", "I") /\ Message.m = "ReadyForQuery" /\ Message.data = "I"
          BY <4>1, <4>2 DEF MsgWith
        <5>2. pc' = "session" /\ ready' = "I" /\ params' = params
          BY <2>3, <5>1 DEF Walks, Signals, Authenticating
        <5>3. Len(t) = late /\ told = params + late
          BY <1>1, <1>2, <4>1, <4>2
        <5>4. \A i \in 1..Len(t) : t[i].m = "ParameterStatus"
          <6>1. \A i \in 1..Len(t) : i + 1 # Len(q) - late
            BY <1>1, <4>2
          <6> QED
            BY <1>1, <3>2, <4>1, <6>1
        <5>5. After(t)'
          BY <5>2, <5>3, <5>4 DEF After
        <5> QED
          BY <5>2, <5>5 DEF InTurn, t
      <4>3. CASE Len(q) - late # 1
        <5>1. Message.m = "ParameterStatus"
          BY <3>3, <4>1, <4>3
        <5>2. pc' = "parameters" /\ params' = params + 1
          BY <2>3, <5>1 DEF Walks, Signals, Authenticating
        <5>3. Len(t) - late > 0 /\ told = params' + (Len(t) - 0 - 1)
          BY <1>1, <1>2, <4>1, <4>3, <5>2, SMTT(20)
        <5>4. t[Len(t) - late] = MsgWith("ReadyForQuery", "I")
          <6>1. Len(t) - late \in 1..Len(t) /\ (Len(t) - late) + 1 = Len(q) - late
            BY <1>1, <1>2, <5>3
          <6> QED
            BY <1>1, <4>1, <6>1
        <5>5. \A i \in (0 + 1)..Len(t) : i # Len(t) - late => t[i].m = "ParameterStatus"
          <6>1. \A i \in 1..Len(t) : i # Len(t) - late => i + 1 # Len(q) - late
            BY <1>1, <1>2
          <6> QED
            BY <1>1, <3>2, <3>3, <4>1, <6>1, SMTT(60)
        <5>6. Granted(t, 0)'
          BY <3>5, <5>2, <5>3, <5>4, <5>5 DEF Granted
        <5> QED
          BY <3>3, <3>5, <5>2, <5>6 DEF InTurn, t
      <4> QED
        BY <4>2, <4>3
    <3> QED
      BY <1>5, <3>4, <3>5
  <2> QED
    BY <2>2, <2>3 DEF Walks, Authenticating
<1> QED
  BY <1>4, <1>5

(* What the server says, with nothing out of turn.                          *)
SaysInTurn(m) ==
    \/ /\ turn \notin {"parameters", "ready"} /\ turn' = "parameters" /\ m.m = "Ok"
       /\ told' = told /\ late' = late
    \/ /\ turn \notin {"parameters", "ready"} /\ turn' \notin {"parameters", "ready"}
       /\ m.m \notin Signals /\ told' = told /\ late' = late
    \/ /\ turn = "parameters" /\ turn' = "parameters" /\ m.m = "ParameterStatus"
       /\ told' = told + 1 /\ late' = late
    \/ /\ turn = "ready" /\ turn' = "ready" /\ m.m = "ParameterStatus"
       /\ told' = told + 1 /\ late' = late + 1
    \/ /\ turn = "parameters" /\ turn' = "ready" /\ m = MsgWith("ReadyForQuery", "I")
       /\ told' = told /\ late' = late

LEMMA SaidInTurn ==
    ASSUME Typed, pc # "session", UNCHANGED <<pc, params, ready>>, NEW m \in Texts(serverIs),
           NEW q \in Seq(Texts(serverIs)), InTurn(q), SaysInTurn(m)
    PROVE  InTurn(Append(q, m))'
<1> DEFINE a == Append(q, m)
<1>1. /\ Len(a) = Len(q) + 1 /\ Len(q) \in Nat /\ a[Len(q) + 1] = m
      /\ \A i \in 1..Len(q) : a[i] = q[i] /\ i \in 1..Len(a)
      /\ \A i \in 1..Len(a) : i \in 1..Len(q) \/ i = Len(q) + 1
  <2>1. /\ Len(a) = Len(q) + 1 /\ Len(q) \in Nat /\ a[Len(q) + 1] = m
        /\ \A i \in 1..Len(q) : a[i] = q[i]
    OBVIOUS
  <2> HIDE DEF a
  <2> QED
    BY <2>1
<1> HIDE DEF a
<1>2. params \in Nat /\ told \in Nat /\ late \in Nat
  BY DEF Typed
<1>3. CASE turn \notin {"parameters", "ready"}
  <2>1. Before(q)
    BY <1>3 DEF InTurn
  <2>2. CASE turn' = "parameters" /\ m.m = "Ok" /\ told' = told /\ late' = late
    <3>1. Len(a) \in 0..Len(a) /\ Len(a) > 0 /\ Len(a) # 0 /\ Len(a) - 1 = Len(q) /\ Len(a) - Len(a) = 0
      BY <1>1
    <3>2. \A i \in 1..(Len(a) - 1) : a[i].m \notin Signals
      BY <1>1, <2>1, <3>1 DEF Before
    <3>3. told' = params' + (Len(a) - Len(a)) /\ late' = 0
      BY <2>1, <2>2, <3>1 DEF Before
    <3>4. \A i \in (Len(a) + 1)..Len(a) : FALSE
      BY <1>1
    <3>5. Granted(a, Len(a))'
      BY <1>1, <2>1, <2>2, <3>1, <3>2, <3>3, <3>4 DEF Granted, Before
    <3> QED
      BY <2>2, <3>1, <3>5 DEF InTurn, a
  <2>3. CASE turn' \notin {"parameters", "ready"} /\ m.m \notin Signals /\ told' = told /\ late' = late
    <3>1. \A i \in 1..Len(a) : a[i].m \notin Signals
      BY <1>1, <2>1, <2>3 DEF Before
    <3>2. Before(a)'
      BY <2>1, <2>3, <3>1 DEF Before
    <3> QED
      BY <2>3, <3>2 DEF InTurn, a
  <2> QED
    BY <1>3, <2>2, <2>3 DEF SaysInTurn
<1>4. CASE turn \in {"parameters", "ready"}
  <2>1. PICK o \in 0..Len(q) : Granted(q, o)
    BY <1>4 DEF InTurn
  <2>2. o \in Nat /\ o <= Len(q) /\ o \in 0..Len(a)
    BY <1>1, <2>1
  <2>3. /\ (o = 0 => pc = "parameters")
        /\ (o > 0 => pc \in Authenticating /\ params = 0 /\ a[o].m = "Ok")
        /\ \A i \in 1..(o - 1) : a[i].m \notin Signals
    <3>1. \A i \in 1..(o - 1) : i \in 1..Len(q)
      BY <1>1, <2>2
    <3>2. o > 0 => o \in 1..Len(q)
      BY <1>1, <2>2
    <3> QED
      BY <1>1, <2>1, <3>1, <3>2 DEF Granted
  <2>4. \A i \in (o + 1)..Len(a) : (i \in (o + 1)..Len(q) /\ i \in 1..Len(q)) \/ i = Len(q) + 1
    BY <1>1, <2>2
  <2>5. turn' \in {"parameters", "ready"}
    BY <1>4 DEF SaysInTurn
  <2>6. CASE turn = "parameters"
    <3>1. /\ late = 0 /\ told = params + (Len(q) - o)
          /\ \A i \in (o + 1)..Len(q) : q[i].m = "ParameterStatus"
      BY <2>1, <2>6 DEF Granted
    <3>2. \A i \in (o + 1)..Len(a) : i # Len(q) + 1 => a[i].m = "ParameterStatus"
      BY <1>1, <2>4, <3>1
    <3>3. ASSUME turn' = "parameters" /\ m.m = "ParameterStatus" /\ told' = told + 1 /\ late' = late
          PROVE  Granted(a, o)'
      <4>1. told' = params + (Len(a) - o)
        BY <1>1, <1>2, <2>2, <3>1, <3>3
      <4>2. \A i \in (o + 1)..Len(a) : a[i].m = "ParameterStatus"
        BY <1>1, <3>2, <3>3
      <4> QED
        BY <2>3, <3>1, <3>3, <4>1, <4>2 DEF Granted
    <3>4. ASSUME turn' = "ready" /\ m = MsgWith("ReadyForQuery", "I") /\ told' = told /\ late' = late
          PROVE  Granted(a, o)'
      <4>1. told' = params + (Len(a) - o - 1) /\ Len(a) - late' > o /\ Len(a) - late' = Len(q) + 1
        BY <1>1, <1>2, <2>2, <3>1, <3>4
      <4> QED
        BY <1>1, <2>3, <3>2, <3>4, <4>1 DEF Granted
    <3>5. Granted(a, o)'
      BY <2>6, <3>3, <3>4 DEF SaysInTurn
    <3> QED
      BY <2>2, <2>5, <3>5 DEF InTurn, a
  <2>7. CASE turn = "ready"
    <3>1. /\ Len(q) - late > o /\ told = params + (Len(q) - o - 1)
          /\ q[Len(q) - late] = MsgWith("ReadyForQuery", "I")
          /\ \A i \in (o + 1)..Len(q) : i # Len(q) - late => q[i].m = "ParameterStatus"
      BY <2>1, <2>7 DEF Granted
    <3>2. turn' = "ready" /\ m.m = "ParameterStatus" /\ told' = told + 1 /\ late' = late + 1
      BY <2>7 DEF SaysInTurn
    <3>3. /\ Len(a) - late' = Len(q) - late /\ Len(a) - late' > o
          /\ told' = params + (Len(a) - o - 1)
      BY <1>1, <1>2, <2>2, <3>1, <3>2
    <3>4. Len(q) - late \in 1..Len(q)
      BY <1>1, <1>2, <2>2, <3>1
    <3>5. a[Len(a) - late'] = MsgWith("ReadyForQuery", "I")
      BY <1>1, <3>1, <3>3, <3>4
    <3>6. \A i \in (o + 1)..Len(a) : i # Len(a) - late' => a[i].m = "ParameterStatus"
      BY <1>1, <2>4, <3>1, <3>2, <3>3
    <3>7. Granted(a, o)'
      BY <2>3, <3>2, <3>3, <3>5, <3>6 DEF Granted
    <3> QED
      BY <2>2, <2>5, <3>7 DEF InTurn, a
  <2> QED
    BY <1>4, <2>6, <2>7
<1> QED
  BY <1>3, <1>4

-----------------------------------------------------------------------------
(* A message is decoded *)

LEMMA MessageIsText ==
    ASSUME Typed, Whole
    PROVE  Message \in Texts(serverIs)
<1>1. rx \in Seq(Pieces(serverIs)) /\ Len(rx) \in Nat /\ Len(rx) >= 2
  BY DEF Typed, Whole
<1>2. Head(rx) \in Pieces(serverIs)
  BY <1>1
<1> QED
  BY <1>2 DEF Message, Pieces

LEMMA BecomeKeeps ==
    ASSUME Inv, Reading, Whole, NEW to \in {"error"} \cup Later, NEW answer \in Seq(Words),
           Become(to, answer), to = "error" \/ Walks,
           params' \in Nat, scram' \in Exchanges, MechanismMatches',
           to \in {"auth", "parameters", "session"} => scram'.stage \in {"none", "verified"},
           to \in {"server first", "server final"} => scram'.stage # "none"
    PROVE  Inv'
<1>1. /\ Decoded /\ pc' = to /\ toServer' = toServer \o answer
      /\ UNCHANGED <<config, serverIs, turn, told, late, odd, up, tls, binding, wire>>
  BY DEF Become, ClientOnly, server, transport
<1>2. pc \in Later /\ pc \notin Early
  BY DEF Reading, Later, Authenticating, Early
<1>3. to \notin Early
  BY DEF Later, Authenticating, Early
<1>4. PICK q \in Seq(Texts(serverIs)) : Carries(q) /\ (odd = 0 => InTurn(q))
  BY <1>2 DEF Inv, Flow
<1>5. /\ q # <<>> /\ Message = q[1] /\ Tail(q) \in Seq(Texts(serverIs))
      /\ rx' \in Seq(Pieces(serverIs)) /\ Carries(Tail(q))'
  BY <1>1, <1>4, CarriesDecoded DEF Inv
<1>6. Typed'
  BY <1>1, <1>5 DEF Inv, Typed
<1>7. Quietly'
  BY <1>1, <1>3 DEF Quietly
<1>8. Unasked'
  <2>1. toServer \in Seq(Words) /\ (turn \in {"parameters", "ready"} \/ (told = 0 /\ late = 0))
    BY <1>2 DEF Inv, Unasked
  <2>2. toServer \o answer \in Seq(Words)
    BY <2>1, ConcatProperties
  <2> QED
    BY <1>1, <2>1, <2>2 DEF Unasked
<1>9. Proven'
  <2>1. config.tls = "require" => tls = "tls"
    BY <1>2 DEF Inv, Proven
  <2> QED
    BY <1>1, <2>1 DEF Inv, Proven
<1>10. Flow'
  <2>1. CASE to = "error"
    BY <1>1, <2>1 DEF Flow, Later, Authenticating
  <2>2. CASE Walks
    <3>1. odd' = 0 => InTurn(Tail(q))'
      BY <1>1, <1>4, <1>5, <2>2, DecodedInTurn DEF Inv
    <3>2. Tail(q) \in Seq(Texts(serverIs))'
      BY <1>1, <1>5
    <3> QED
      BY <1>5, <3>1, <3>2 DEF Flow
  <2> QED
    BY <2>1, <2>2
<1> QED
  BY <1>6, <1>7, <1>8, <1>9, <1>10 DEF Inv

(* A message that ends the attempt, or that leaves the exchange as it is.   *)
LEMMA NoAnswer == <<>> \in Seq(Words)
OBVIOUS

LEMMA ExchangeUnchanged ==
    ASSUME Inv, NEW to, NEW answer, Become(to, answer), scram' = scram
    PROVE  scram' \in Exchanges /\ MechanismMatches' /\ params \in Nat
BY DEF Inv, Typed, MechanismMatches, Become, ClientOnly, server, transport

LEMMA ErrorKeeps ==
    ASSUME Inv, Reading, Whole, Become("error", <<>>), UNCHANGED Rest
    PROVE  Inv'
<1>1. scram' = scram /\ params' = params
  BY DEF Rest
<1>2. scram' \in Exchanges /\ MechanismMatches' /\ params' \in Nat
  BY <1>1, ExchangeUnchanged
<1>3. "error" \in {"error"} \cup Later /\ "error" \notin {"auth", "parameters", "session"}
      /\ "error" \notin {"server first", "server final"}
  OBVIOUS
<1> QED
  BY <1>2, <1>3, NoAnswer, BecomeKeeps

LEMMA StayKeeps ==
    ASSUME Inv, Whole, NEW to \in {"auth", "parameters", "session"}, NEW answer \in Seq(Words),
           pc \in {"auth", "parameters"}, Become(to, answer), Walks, scram' = scram
    PROVE  Inv'
<1>1. Reading /\ to \in {"error"} \cup Later
  BY DEF Reading, Later, Authenticating
<1>2. scram' \in Exchanges /\ MechanismMatches' /\ params \in Nat
  BY ExchangeUnchanged
<1>3. params' \in Nat
  BY <1>2 DEF Walks
<1>4. scram'.stage \in {"none", "verified"}
  BY DEF Inv, Proven
<1>5. to \notin {"server first", "server final"}
  OBVIOUS
<1> QED
  BY <1>1, <1>2, <1>3, <1>4, <1>5, BecomeKeeps

LEMMA AuthOkKeeps == ASSUME Inv, AuthOk PROVE Inv'
<1>1. pc = "auth" /\ Whole /\ Message.m = "Ok" /\ Become("parameters", <<>>) /\ scram' = scram
      /\ params' = params /\ pc' = "parameters"
  BY DEF AuthOk, Rest, Become
<1>2. Walks
  BY <1>1 DEF Walks
<1> QED
  BY <1>1, <1>2, NoAnswer, StayKeeps

LEMMA AuthPasswordKeeps == ASSUME Inv, AuthPassword PROVE Inv'
<1>1. pc = "auth" /\ Whole /\ Message.m # "Ok" /\ UNCHANGED Rest /\ scram' = scram /\ params' = params
  BY DEF AuthPassword, Rest
<1>2. CASE Become("error", <<>>)
  BY <1>1, <1>2, ErrorKeeps DEF Reading
<1>3. ASSUME NEW word \in {"Md5", "Password"}, Become("auth", <<word>>)
      PROVE  Inv'
  <2>1. Walks
    BY <1>1, <1>3 DEF Walks, Become, Authenticating
  <2>2. <<word>> \in Seq(Words)
    BY DEF Words
  <2> QED
    BY <1>1, <1>3, <2>1, <2>2, StayKeeps
<1> QED
  BY <1>2, <1>3 DEF AuthPassword

LEMMA AuthIgnoresKeeps == ASSUME Inv, AuthIgnores PROVE Inv'
<1>1. pc = "auth" /\ Whole /\ Message.m # "Ok" /\ Become("auth", <<>>) /\ scram' = scram
      /\ params' = params /\ pc' = "auth"
  BY DEF AuthIgnores, Rest, Become
<1>2. Walks
  BY <1>1 DEF Walks, Authenticating
<1> QED
  BY <1>1, <1>2, NoAnswer, StayKeeps

LEMMA RejectsKeep == ASSUME Inv, AuthRejects \/ ParametersReject PROVE Inv'
<1>1. pc \in {"auth", "parameters"} /\ Whole /\ Become("error", <<>>) /\ UNCHANGED Rest
  BY DEF AuthRejects, ParametersReject
<1> QED
  BY <1>1, ErrorKeeps DEF Reading

LEMMA ParametersKeep ==
    ASSUME Inv, Parameter \/ ParametersIgnore \/ ReadyForQuery
    PROVE  Inv'
<1>1. CASE Parameter
  <2>1. pc = "parameters" /\ Whole /\ Message.m = "ParameterStatus" /\ Become("parameters", <<>>)
        /\ scram' = scram /\ params' = params + 1 /\ pc' = "parameters"
    BY <1>1 DEF Parameter, Become
  <2>2. Walks
    BY <2>1 DEF Walks
  <2> QED
    BY <2>1, <2>2, NoAnswer, StayKeeps
<1>2. CASE ParametersIgnore
  <2>1. pc = "parameters" /\ Whole /\ Message.m \notin Signals /\ Become("parameters", <<>>)
        /\ scram' = scram /\ params' = params /\ pc' = "parameters"
    BY <1>2 DEF ParametersIgnore, Become, Rest, Signals
  <2>2. Walks
    BY <2>1 DEF Walks
  <2> QED
    BY <2>1, <2>2, NoAnswer, StayKeeps
<1>3. CASE ReadyForQuery
  <2>1. pc = "parameters" /\ Whole /\ Message.m = "ReadyForQuery" /\ Become("session", <<>>)
        /\ scram' = scram /\ params' = params /\ pc' = "session" /\ ready' = Message.data
    BY <1>3 DEF ReadyForQuery, Become
  <2>2. Walks
    BY <2>1 DEF Walks
  <2> QED
    BY <2>1, <2>2, NoAnswer, StayKeeps
<1> QED
  BY <1>1, <1>2, <1>3

(* select_scram_client takes what the server offers.                        *)
LEMMA AuthSaslKeeps == ASSUME Inv, AuthSasl PROVE Inv'
<1> DEFINE mechanism == Select(Message.data, binding)
<1>1. pc = "auth" /\ Whole /\ Message.m = "Sasl" /\ Reading
  BY DEF AuthSasl, Reading
<1>2. CASE config.password = "none" \/ mechanism = "error"
  <2>1. Become("error", <<>>) /\ UNCHANGED Rest
    BY <1>2 DEF AuthSasl
  <2> QED
    BY <1>1, <2>1, ErrorKeeps
<1>3. CASE ~(config.password = "none" \/ mechanism = "error")
  <2>1. /\ Become("server first", <<mechanism>>) /\ params' = params
        /\ scram' = [stage |-> "first", mechanism |-> mechanism, bound |-> mechanism = "PLUS"]
    BY <1>3 DEF AuthSasl
  <2>2. mechanism \in {"PLUS", "SHA256"} /\ (mechanism = "PLUS" <=> "PLUS" \in Message.data)
        /\ (mechanism = "PLUS" => binding = "Available")
    BY <1>3 DEF Select
  <2> HIDE DEF mechanism
  <2>3. serverIs.method = "sasl" /\ Message.data = serverIs.offers
    BY <1>1, MessageIsText, TextFacts DEF Inv, Typed
  <2>4. UNCHANGED <<serverIs, tls, binding>> /\ pc' = "server first"
    BY <2>1 DEF Become, ClientOnly, server, transport
  <2>5. binding = "Available" => tls = "tls"
    BY DEF Inv, Proven
  <2>6. scram'.stage = "first" /\ scram'.mechanism = mechanism /\ (scram'.bound <=> mechanism = "PLUS")
    BY <2>1
  <2>7. scram' \in Exchanges
    BY <2>1, <2>2 DEF Exchanges
  <2>8. MechanismMatches'
    BY <2>2, <2>3, <2>4, <2>5, <2>6 DEF MechanismMatches
  <2>9. Walks
    BY <1>1, <2>1, <2>4 DEF Walks, Authenticating
  <2>10. <<mechanism>> \in Seq(Words) /\ "server first" \in {"error"} \cup Later /\ params' \in Nat
    <3>1. mechanism \in Words
      BY <2>2 DEF Words
    <3>2. <<mechanism>> \in Seq(Words)
      BY <3>1
    <3>3. "server first" \in {"error"} \cup Later
      BY DEF Later, Authenticating
    <3>4. params' \in Nat
      BY <2>1 DEF Inv, Typed
    <3> QED
      BY <3>2, <3>3, <3>4
  <2>11. "server first" \notin {"auth", "parameters", "session"} /\ scram'.stage # "none"
    BY <2>6
  <2> QED
    BY <1>1, <2>1, <2>7, <2>8, <2>9, <2>10, <2>11, BecomeKeeps
<1> QED
  BY <1>2, <1>3

(* The stages of SCRAM keep the mechanism.                                  *)
LEMMA StageFacts ==
    ASSUME Inv, scram.stage # "none", NEW g \in {"final", "verified"}, NEW to, NEW answer,
           Become(to, answer), scram' = [scram EXCEPT !.stage = g]
    PROVE  scram' \in Exchanges /\ MechanismMatches' /\ scram'.stage = g
<1>1. scram \in Exchanges
  BY DEF Inv, Typed
<1>2. scram' \in Exchanges /\ scram'.stage = g /\ scram'.mechanism = scram.mechanism
      /\ scram'.bound = scram.bound
  BY <1>1 DEF Exchanges
<1>3. UNCHANGED <<serverIs, tls, binding>>
  BY DEF Become, ClientOnly, server, transport
<1>4. MechanismMatches
  BY DEF Inv
<1> QED
  BY <1>2, <1>3, <1>4 DEF MechanismMatches

LEMMA ServerFirstKeeps == ASSUME Inv, ServerFirst PROVE Inv'
<1>1. pc = "server first" /\ Whole /\ Reading /\ scram.stage # "none" /\ params \in Nat
  BY DEF ServerFirst, Reading, Inv, Proven, Typed
<1>2. CASE Message.m = "SaslContinue" /\ Message.data = "good"
  <2>1. /\ Become("server final", <<"Proof">>) /\ params' = params
        /\ scram' = [scram EXCEPT !.stage = "final"]
    BY <1>2 DEF ServerFirst
  <2>2. scram' \in Exchanges /\ MechanismMatches' /\ scram'.stage = "final"
    BY <1>1, <2>1, StageFacts
  <2>3. Walks
    BY <1>1, <1>2, <2>1 DEF Walks, Authenticating, Become
  <2>4. <<"Proof">> \in Seq(Words) /\ "server final" \in {"error"} \cup Later
        /\ "server final" \notin {"auth", "parameters", "session"}
    BY DEF Words, Later, Authenticating
  <2> QED
    BY <1>1, <2>1, <2>2, <2>3, <2>4, BecomeKeeps
<1>3. CASE ~(Message.m = "SaslContinue" /\ Message.data = "good")
  <2>1. Become("error", <<>>) /\ UNCHANGED Rest
    BY <1>3 DEF ServerFirst
  <2> QED
    BY <1>1, <2>1, ErrorKeeps
<1> QED
  BY <1>2, <1>3

LEMMA ServerFinalKeeps == ASSUME Inv, ServerFinal PROVE Inv'
<1>1. pc = "server final" /\ Whole /\ Reading /\ scram.stage # "none" /\ params \in Nat
  BY DEF ServerFinal, Reading, Inv, Proven, Typed
<1>2. CASE Message.m = "SaslFinal" /\ Verify(Message.data)
  <2>1. /\ Become("auth", <<>>) /\ params' = params
        /\ scram' = [scram EXCEPT !.stage = "verified"]
    BY <1>2 DEF ServerFinal, Verify
  <2>2. scram' \in Exchanges /\ MechanismMatches' /\ scram'.stage = "verified"
    BY <1>1, <2>1, StageFacts
  <2>3. Walks
    BY <1>1, <1>2, <2>1 DEF Walks, Authenticating, Become
  <2>4. "auth" \in {"error"} \cup Later /\ "auth" \notin {"server first", "server final"}
    BY DEF Later, Authenticating
  <2> QED
    BY <1>1, <2>1, <2>2, <2>3, <2>4, NoAnswer, BecomeKeeps
<1>3. CASE ~(Message.m = "SaslFinal" /\ Verify(Message.data))
  <2>1. Become("error", <<>>) /\ UNCHANGED Rest
    BY <1>3 DEF ServerFinal
  <2> QED
    BY <1>1, <2>1, ErrorKeeps
<1> QED
  BY <1>2, <1>3

-----------------------------------------------------------------------------
(* The transport *)

LEMMA NothingCarried ==
    ASSUME rx = <<>>, wire = <<>>
    PROVE  <<>> \in Seq(Texts(serverIs)) /\ Carries(<<>>)
<1>1. Feed = <<>>
  BY DEF Feed
<1> QED
  BY <1>1 DEF Carries

LEMMA ConnectKeeps == ASSUME Inv, Connect PROVE Inv'
<1>1. /\ pc = "tcp" /\ pc' \in {"hello", "ssl", "error"}
      /\ UNCHANGED <<config, serverIs, turn, told, late, odd, up, tls, binding, scram, rx, params,
                     ready, wire>>
      /\ (pc' = "hello" => toServer' = toServer /\ config.tls = "disable")
      /\ (pc' = "ssl" => toServer' = <<"SSLRequest">>)
  BY DEF Connect, Fail, ClientOnly, server, transport
<1>2. pc \in Early /\ pc' \notin Later
  BY <1>1 DEF Early, Later, Authenticating
<1>3. Typed'
  BY <1>1 DEF Inv, Typed
<1>4. Quietly'
  <2>1. /\ rx = <<>> /\ turn = "ssl" /\ scram = NoScram /\ told = 0 /\ late = 0 /\ params = 0
        /\ toServer = <<>> /\ wire = <<>>
    BY <1>1, <1>2 DEF Inv, Quietly
  <2>2. CASE pc' = "error"
    BY <2>2 DEF Quietly, Early
  <2>3. CASE pc' = "hello"
    BY <1>1, <2>1, <2>3 DEF Quietly
  <2>4. CASE pc' = "ssl"
    BY <1>1, <2>1, <2>4 DEF Quietly
  <2> QED
    BY <1>1, <2>2, <2>3, <2>4
<1>5. Proven'
  BY <1>1, <1>2 DEF Inv, Proven, Later, Authenticating
<1>6. MechanismMatches'
  BY <1>1 DEF Inv, MechanismMatches
<1> QED
  BY <1>2, <1>3, <1>4, <1>5, <1>6 DEF Inv, Unasked, Flow

LEMMA NegotiateTlsKeeps == ASSUME Inv, NegotiateTls PROVE Inv'
<1>1. /\ pc = "ssl" /\ pc' \in {"hello", "upgrade", "error"} /\ wire # <<>> /\ wire' = Tail(wire)
      /\ UNCHANGED <<config, serverIs, turn, told, late, odd, up, tls, binding, scram, rx, params,
                     ready, toServer>>
      /\ (pc' = "hello" => config.tls = "prefer")
  BY DEF NegotiateTls, ClientOnly, server, transport
<1>2. pc \in Early /\ pc' \notin Later
  BY <1>1 DEF Early, Later, Authenticating
<1>3. toServer = <<>> /\ Len(wire) = 1
  BY <1>1, <1>2 DEF Inv, Quietly
<1>4. wire' = <<>>
  <2>1. wire \in Seq(Pieces(serverIs))
    BY DEF Inv, Typed
  <2>2. Len(Tail(wire)) = 0 /\ Tail(wire) \in Seq(Pieces(serverIs))
    BY <1>1, <1>3, <2>1, HeadTailProperties
  <2> QED
    BY <1>1, <2>2, EmptySeq
<1>5. Typed'
  BY <1>1, <1>4 DEF Inv, Typed
<1>6. Quietly'
  BY <1>1, <1>2, <1>3, <1>4 DEF Inv, Quietly
<1>7. Proven'
  BY <1>1, <1>2 DEF Inv, Proven, Later, Authenticating
<1>8. MechanismMatches'
  BY <1>1 DEF Inv, MechanismMatches
<1> QED
  BY <1>2, <1>5, <1>6, <1>7, <1>8 DEF Inv, Unasked, Flow

LEMMA UpgradeKeeps == ASSUME Inv, Upgrade PROVE Inv'
<1>1. /\ pc = "upgrade" /\ pc' \in {"hello", "error"}
      /\ UNCHANGED <<config, serverIs, turn, told, late, odd, up, scram, rx, params, ready, wire,
                     toServer>>
      /\ (tls' = "tls" \/ (pc' = "error" /\ UNCHANGED <<tls, binding>>))
  BY DEF Upgrade, Fail, ClientOnly, server, transport
<1>2. pc \in Early /\ pc' \notin Later
  BY <1>1 DEF Early, Later, Authenticating
<1>3. scram = NoScram
  BY <1>2 DEF Inv, Quietly
<1>4. Typed'
  BY <1>1 DEF Inv, Typed
<1>5. Quietly'
  BY <1>1, <1>2 DEF Inv, Quietly
<1>6. Proven'
  BY <1>1, <1>2 DEF Inv, Proven, Later, Authenticating
<1>7. MechanismMatches'
  BY <1>1, <1>3 DEF MechanismMatches, NoScram
<1> QED
  BY <1>2, <1>4, <1>5, <1>6, <1>7 DEF Inv, Unasked, Flow

LEMMA HelloKeeps == ASSUME Inv, Hello PROVE Inv'
<1>1. /\ pc = "hello" /\ pc' \in {"auth", "error"}
      /\ UNCHANGED <<config, serverIs, turn, told, late, odd, up, tls, binding, scram, rx, params,
                     ready, wire>>
      /\ (pc' = "auth" => toServer' = Append(toServer, "Startup"))
  BY DEF Hello, Fail, ClientOnly, server, transport
<1>2. pc \in Early /\ pc' \notin Early /\ "auth" \in Authenticating /\ "auth" \in Later
      /\ "error" \notin Later
  BY <1>1 DEF Early, Later, Authenticating
<1>3. /\ rx = <<>> /\ wire = <<>> /\ turn = "ssl" /\ scram = NoScram /\ told = 0 /\ late = 0
      /\ params = 0 /\ toServer = <<>>
  BY <1>1, <1>2 DEF Inv, Quietly
<1>4. Typed'
  BY <1>1 DEF Inv, Typed
<1>5. Quietly'
  BY <1>2 DEF Quietly
<1>6. Unasked'
  <2>1. Append(<<>>, "Startup") \in Seq(Words)
    BY DEF Words
  <2> QED
    BY <1>1, <1>2, <1>3, <2>1 DEF Unasked
<1>7. Proven'
  BY <1>1, <1>3 DEF Inv, Proven, NoScram, Later, Authenticating
<1>8. MechanismMatches'
  BY <1>1 DEF Inv, MechanismMatches
<1>9. Flow'
  <2>1. CASE pc' = "auth"
    <3>1. <<>> \in Seq(Texts(serverIs)) /\ Carries(<<>>)
      BY <1>3, NothingCarried
    <3>2. Carries(<<>>)'
      BY <1>1, <3>1 DEF Carries, Feed
    <3>3. Before(<<>>)'
      BY <1>1, <1>2, <1>3, <2>1 DEF Before
    <3>4. InTurn(<<>>)'
      BY <1>1, <1>3, <2>1, <3>3 DEF InTurn
    <3> QED
      BY <1>1, <3>1, <3>2, <3>4 DEF Flow
  <2> QED
    BY <1>1, <1>2, <2>1 DEF Flow
<1> QED
  BY <1>4, <1>5, <1>6, <1>7, <1>8, <1>9 DEF Inv

(* What is read, decoded or ended moves nothing but rx and wire, or stops.  *)
LEMMA FlowUnchanged ==
    ASSUME Flow, pc \in Later, Feed' = Feed,
           UNCHANGED <<pc, serverIs, params, ready, turn, told, late, odd>>
    PROVE  Flow'
<1>1. PICK q \in Seq(Texts(serverIs)) : Carries(q) /\ (odd = 0 => InTurn(q))
  BY DEF Flow
<1>2. Carries(q)'
  BY <1>1 DEF Carries
<1>3. (odd = 0 => InTurn(q))'
  BY <1>1 DEF InTurn, After, Before, Granted
<1> QED
  BY <1>1, <1>2, <1>3 DEF Flow

LEMMA ReadBufKeeps == ASSUME Inv, ReadBuf PROVE Inv'
<1>1. /\ UNCHANGED <<config, serverIs, turn, told, late, odd, up, pc, tls, binding, scram, params,
                     ready, toServer>>
      /\ \E n \in 1..Len(wire) : rx' = rx \o SubSeq(wire, 1, n) /\ wire' = SubSeq(wire, n + 1, Len(wire))
  BY DEF ReadBuf, ClientOnly, server, transport
<1>2. pc \in Later /\ pc \notin Early
  BY DEF ReadBuf, Reading, Later, Authenticating, Early
<1>3. Feed' = Feed /\ rx' \in Seq(Pieces(serverIs)) /\ wire' \in Seq(Pieces(serverIs))
  BY <1>1, FeedRead DEF Inv
<1>4. Typed'
  BY <1>1, <1>3 DEF Inv, Typed
<1>5. Flow'
  BY <1>1, <1>2, <1>3, FlowUnchanged DEF Inv
<1> QED
  BY <1>1, <1>2, <1>4, <1>5 DEF Inv, Quietly, Unasked, Proven, MechanismMatches

LEMMA EndKeeps == ASSUME Inv, ReadEnd \/ SslEnd PROVE Inv'
<1>1. /\ UNCHANGED <<config, serverIs, turn, told, late, odd, up, tls, binding, scram, rx, params,
                     ready, wire, toServer>>
      /\ pc' = "error"
  BY DEF ReadEnd, SslEnd, Fail, ClientOnly, server, transport
<1>2. "error" \notin Later /\ "error" \notin Early
  BY DEF Later, Authenticating, Early
<1> QED
  BY <1>1, <1>2 DEF Inv, Typed, Quietly, Unasked, Proven, MechanismMatches, Flow

-----------------------------------------------------------------------------
(* The server *)

LEMMA HeardWord ==
    ASSUME Inv, pc \notin Early, pc # "error", NEW x, Heard(x), pc \in Later
    PROVE  x \in Words /\ toServer' \in Seq(Words)
<1>1. toServer \in Seq(Words) /\ toServer # <<>>
  BY DEF Inv, Unasked, Heard
<1> QED
  BY <1>1, HeadTailProperties DEF Heard

(* Whatever the server says once the startup message is on its way.         *)
LEMMA SaysKeeps ==
    ASSUME Inv, pc \notin Early \cup {"session", "error"}, NEW m \in Texts(serverIs), NEW next,
           Says(m, next), UNCHANGED <<ServerOnly, up>>,
           toServer' = toServer \/ \E x : Heard(x),
           told' \in Nat, late' \in Nat, odd' \in Nat,
           turn' \in {"parameters", "ready"} \/ (told' = 0 /\ late' = 0),
           odd' # 0 \/ (odd' = odd /\ SaysInTurn(m))
    PROVE  Inv'
<1>1. /\ wire' = wire \o Units(m) /\ turn' = next
      /\ UNCHANGED <<config, serverIs, pc, tls, binding, scram, rx, params, ready, up>>
  BY DEF Says, ServerOnly, transport
<1>2. wire' \in Seq(Pieces(serverIs))
  BY <1>1, CarriesSaid DEF Inv
<1>3. Typed'
  BY <1>1, <1>2 DEF Inv, Typed
<1>4. Quietly'
  BY <1>1 DEF Quietly
<1>5. Unasked'
  <2>1. pc \in Later => toServer' \in Seq(Words)
    BY HeardWord DEF Inv, Unasked
  <2> QED
    BY <1>1, <2>1 DEF Unasked
<1>6. Proven' /\ MechanismMatches'
  BY <1>1 DEF Inv, Proven, MechanismMatches
<1>7. Flow'
  <2> SUFFICES ASSUME pc \in Later
               PROVE  Flow'
    BY <1>1 DEF Flow
  <2>1. PICK q \in Seq(Texts(serverIs)) : Carries(q) /\ (odd = 0 => InTurn(q))
    BY DEF Inv, Flow
  <2>2. Append(q, m) \in Seq(Texts(serverIs)) /\ Carries(Append(q, m))'
    BY <1>1, <2>1, CarriesSaid DEF Inv
  <2>3. odd' = 0 => InTurn(Append(q, m))'
    BY <1>1, <2>1, SaidInTurn DEF Inv
  <2>4. Append(q, m) \in Seq(Texts(serverIs))'
    BY <1>1, <2>2
  <2> QED
    BY <2>2, <2>3, <2>4 DEF Flow
<1> QED
  BY <1>3, <1>4, <1>5, <1>6, <1>7 DEF Inv

LEMMA SaysSslKeeps ==
    ASSUME Inv, pc \notin {"session", "error"}, SaysSsl, UNCHANGED <<ServerOnly, up>>
    PROVE  Inv'
<1>1. /\ turn = "ssl" /\ turn' = "ssl" /\ Heard("SSLRequest")
      /\ wire' = Append(wire, [of |-> Msg(serverIs.ssl), last |-> TRUE])
      /\ UNCHANGED <<told, late, odd, config, serverIs, pc, tls, binding, scram, rx, params, ready, up>>
  BY DEF SaysSsl, ServerOnly, transport
<1>2. wire' \in Seq(Pieces(serverIs)) /\ (wire = <<>> => Len(wire') = 1)
  <2>1. Msg(serverIs.ssl) \in Texts(serverIs) /\ wire \in Seq(Pieces(serverIs))
    BY TextFacts DEF Inv, Typed
  <2>2. [of |-> Msg(serverIs.ssl), last |-> TRUE] \in Pieces(serverIs)
    BY <2>1 DEF Pieces
  <2> QED
    BY <1>1, <2>1, <2>2, AppendProperties
<1>3. pc \notin Later
  <2>1. "SSLRequest" \notin Words
    BY DEF Words
  <2>2. "session" \notin Early /\ "error" \notin Later /\ \A x \in Later : x \notin Early
    BY DEF Early, Later, Authenticating
  <2> QED
    BY <1>1, <2>1, <2>2, HeardWord
<1>4. Typed'
  BY <1>1, <1>2 DEF Inv, Typed
<1>5. Quietly'
  <2> SUFFICES ASSUME pc \in Early
               PROVE  Quietly'
    BY <1>1 DEF Quietly
  <2>1. toServer # <<>> /\ toServer' = Tail(toServer)
    BY <1>1 DEF Heard
  <2>2. pc = "ssl" /\ toServer = <<"SSLRequest">> /\ wire = <<>>
    BY <2>1 DEF Inv, Quietly
  <2>3. toServer' = <<>>
    BY <2>1, <2>2
  <2> QED
    BY <1>1, <1>2, <2>2, <2>3 DEF Inv, Quietly
<1>6. Proven' /\ MechanismMatches'
  BY <1>1 DEF Inv, Proven, MechanismMatches
<1> QED
  BY <1>1, <1>3, <1>4, <1>5, <1>6 DEF Inv, Unasked, Flow

(* With nothing heard or said before the startup message.                   *)
LEMMA NotEarly ==
    ASSUME Inv, turn # "ssl" \/ \E x \in Words : Heard(x)
    PROVE  pc \notin Early
<1>1. CASE turn # "ssl"
  BY <1>1 DEF Inv, Quietly
<1>2. CASE \E x \in Words : Heard(x)
  <2>1. toServer # <<>> /\ Head(toServer) \in Words
    BY <1>2 DEF Heard
  <2>2. toServer # <<"SSLRequest">>
    BY <2>1 DEF Words
  <2> QED
    BY <2>1, <2>2 DEF Inv, Quietly
<1> QED
  BY <1>1, <1>2

(* An answer before AuthenticationOk, or AuthenticationOk itself.           *)
LEMMA AnswerKeeps ==
    ASSUME Inv, pc \notin {"session", "error"}, NEW x \in Words, Heard(x) \/ UNCHANGED toServer,
           turn # "ssl" \/ Heard(x), turn \notin {"parameters", "ready"},
           NEW m \in Texts(serverIs), NEW next, Says(m, next),
           \/ next = "parameters" /\ m.m = "Ok"
           \/ next \notin {"parameters", "ready"} /\ m.m \notin Signals,
           UNCHANGED <<told, late, odd>>, UNCHANGED <<ServerOnly, up>>
    PROVE  Inv'
<1>1. pc \notin Early
  BY NotEarly
<1>2. turn' = next
  BY DEF Says
<1>3. SaysInTurn(m)
  BY <1>2 DEF SaysInTurn
<1>4. told' \in Nat /\ late' \in Nat /\ odd' \in Nat /\ odd' = odd
  BY DEF Inv, Typed
<1>5. CASE pc \in Later
  <2>1. told = 0 /\ late = 0
    BY <1>5 DEF Inv, Unasked
  <2> QED
    BY <1>1, <1>3, <1>4, <2>1, SaysKeeps
<1>6. CASE pc \notin Later
  <2>1. /\ wire' = wire \o Units(m)
        /\ UNCHANGED <<config, serverIs, pc, tls, binding, scram, rx, params, ready, up>>
    BY DEF Says, ServerOnly, transport
  <2>2. wire' \in Seq(Pieces(serverIs))
    BY <2>1, CarriesSaid DEF Inv
  <2>3. Typed'
    BY <1>4, <2>1, <2>2 DEF Inv, Typed
  <2> QED
    BY <1>1, <1>6, <2>1, <2>3 DEF Inv, Quietly, Unasked, Proven, MechanismMatches, Flow
<1> QED
  BY <1>5, <1>6

LEMMA AnswersKeep ==
    ASSUME Inv, pc \notin {"session", "error"}, Asks \/ Judges \/ SaysOk, UNCHANGED <<ServerOnly, up>>
    PROVE  Inv'
<1>1. serverIs \in Servers
  BY DEF Inv, Typed
<1>2. /\ Msg("Ok") \in Texts(serverIs) /\ Msg("Ok").m = "Ok"
      /\ Msg("Unsupported") \in Texts(serverIs) /\ Msg("Unsupported").m \notin Signals
      /\ Msg("ErrorResponse") \in Texts(serverIs) /\ Msg("ErrorResponse").m \notin Signals
  BY <1>1, TextFacts DEF Plain, Signals
<1>3. /\ MsgWith("SaslContinue", "good") \in Texts(serverIs)
      /\ MsgWith("SaslContinue", "good").m \notin Signals
      /\ MsgWith("SaslFinal", "right") \in Texts(serverIs)
      /\ MsgWith("SaslFinal", "right").m \notin Signals
  BY <1>1, TextFacts DEF Signals
<1>4. {"Startup", "Password", "Md5", "PLUS", "SHA256", "Proof"} = Words
  BY DEF Words
<1>5. CASE Asks
  <2>1. turn = "ssl" /\ Heard("Startup") /\ UNCHANGED <<told, late, odd>>
    BY <1>5 DEF Asks
  <2>2. ASSUME NEW m \in Texts(serverIs), NEW next, Says(m, next),
               \/ next = "parameters" /\ m.m = "Ok"
               \/ next \notin {"parameters", "ready"} /\ m.m \notin Signals
        PROVE  Inv'
    BY <1>4, <2>1, <2>2, AnswerKeeps
  <2>3. CASE serverIs.method = "trust"
    <3>1. Says(Msg("Ok"), "parameters")
      BY <1>5, <2>3 DEF Asks
    <3> QED
      BY <1>2, <2>2, <3>1
  <2>4. CASE serverIs.method = "sasl"
    <3>1. Says(MsgWith("Sasl", serverIs.offers), "sasl")
      BY <1>5, <2>4 DEF Asks
    <3>2. MsgWith("Sasl", serverIs.offers) \in Texts(serverIs)
          /\ MsgWith("Sasl", serverIs.offers).m \notin Signals
      BY <1>1, <2>4, TextFacts DEF Signals
    <3> QED
      BY <2>2, <3>1, <3>2
  <2>5. CASE serverIs.method = "other"
    <3>1. Says(Msg("Unsupported"), "gone")
      BY <1>5, <2>5 DEF Asks
    <3> QED
      BY <1>2, <2>2, <3>1
  <2>6. CASE serverIs.method \in {"CleartextPassword", "Md5Password"}
    <3>1. Says(Msg(serverIs.method), "password")
      BY <1>5, <2>6 DEF Asks
    <3>2. Msg(serverIs.method) \in Texts(serverIs) /\ Msg(serverIs.method).m \notin Signals
      BY <1>1, <2>6, TextFacts
    <3> QED
      BY <2>2, <3>1, <3>2
  <2> QED
    BY <1>1, <2>3, <2>4, <2>5, <2>6, ServersAssumption
<1>6. CASE Judges
  <2>1. UNCHANGED <<told, late, odd>>
    BY <1>6 DEF Judges
  <2>2. ASSUME NEW x \in Words, Heard(x), turn \in {"password", "sasl", "proof"},
               NEW m \in Texts(serverIs), NEW next, Says(m, next),
               \/ next = "parameters" /\ m.m = "Ok"
               \/ next \notin {"parameters", "ready"} /\ m.m \notin Signals
        PROVE  Inv'
    BY <2>1, <2>2, AnswerKeeps
  <2>3. CASE turn = "password" /\ (Heard("Password") \/ Heard("Md5"))
                /\ (Says(Msg("Ok"), "parameters") \/ Says(Msg("ErrorResponse"), "gone"))
    BY <1>2, <1>4, <2>2, <2>3
  <2>4. CASE turn = "sasl" /\ (Heard("PLUS") \/ Heard("SHA256"))
                /\ Says(MsgWith("SaslContinue", "good"), "proof")
    BY <1>3, <1>4, <2>2, <2>4
  <2>5. CASE turn = "proof" /\ Heard("Proof")
                /\ (Says(MsgWith("SaslFinal", "right"), "granted") \/ Says(Msg("ErrorResponse"), "gone"))
    BY <1>2, <1>3, <1>4, <2>2, <2>5
  <2> QED
    BY <1>6, <2>3, <2>4, <2>5 DEF Judges
<1>7. CASE SaysOk
  <2>1. turn = "granted" /\ Says(Msg("Ok"), "parameters") /\ UNCHANGED <<told, late, odd, toServer>>
    BY <1>7 DEF SaysOk
  <2>2. "Proof" \in Words /\ turn # "ssl" /\ turn \notin {"parameters", "ready"} /\ UNCHANGED toServer
    BY <2>1 DEF Words
  <2> QED
    BY <1>2, <2>1, <2>2, AnswerKeeps
<1> QED
  BY <1>5, <1>6, <1>7

LEMMA TellsKeep ==
    ASSUME Inv, pc \notin {"session", "error"}, Tells \/ SaysReady \/ OutOfTurn,
           UNCHANGED <<ServerOnly, up>>
    PROVE  Inv'
<1>1. turn # "ssl" /\ toServer' = toServer
  BY DEF Tells, SaysReady, OutOfTurn
<1>2. pc \notin Early \cup {"session", "error"}
  BY <1>1, NotEarly
<1>3. serverIs \in Servers /\ told \in Nat /\ late \in Nat /\ odd \in Nat
  BY DEF Inv, Typed
<1>4. CASE Tells
  <2>1. /\ turn \in {"parameters", "ready"} /\ told' = told + 1 /\ odd' = odd /\ turn' = turn
        /\ late' = IF turn = "ready" THEN late + 1 ELSE late
        /\ Says(Msg("ParameterStatus"), turn)
    BY <1>4 DEF Tells, Says
  <2>2. Msg("ParameterStatus") \in Texts(serverIs) /\ Msg("ParameterStatus").m = "ParameterStatus"
    BY <1>3, TextFacts DEF Plain
  <2>3. SaysInTurn(Msg("ParameterStatus"))
    BY <2>1, <2>2 DEF SaysInTurn
  <2>4. told' \in Nat /\ late' \in Nat /\ odd' \in Nat
    BY <1>3, <2>1
  <2> QED
    BY <1>1, <1>2, <2>1, <2>2, <2>3, <2>4, SaysKeeps
<1>5. CASE SaysReady
  <2>1. /\ turn = "parameters" /\ turn' = "ready" /\ told' = told /\ late' = late /\ odd' = odd
        /\ Says(MsgWith("ReadyForQuery", "I"), "ready")
    BY <1>5 DEF SaysReady, Says
  <2>2. MsgWith("ReadyForQuery", "I") \in Texts(serverIs)
    BY <1>3, TextFacts
  <2>3. SaysInTurn(MsgWith("ReadyForQuery", "I"))
    BY <2>1 DEF SaysInTurn
  <2> QED
    BY <1>1, <1>2, <1>3, <2>1, <2>2, <2>3, SaysKeeps
<1>6. CASE OutOfTurn
  <2>1. PICK m \in OddMessages : Says(m, turn)
    BY <1>6 DEF OutOfTurn
  <2>2. odd' = odd + 1 /\ told' = told /\ late' = late /\ turn' = turn
    BY <1>6, <2>1 DEF OutOfTurn, Says
  <2>3. m \in Texts(serverIs)
    BY <1>3, <2>1, TextFacts
  <2>4. odd' # 0 /\ odd' \in Nat
    BY <1>3, <2>2
  <2>5. CASE pc \in Later
    <3>1. turn' \in {"parameters", "ready"} \/ (told' = 0 /\ late' = 0)
      BY <2>2, <2>5 DEF Inv, Unasked
    <3> QED
      BY <1>1, <1>2, <1>3, <2>1, <2>2, <2>3, <2>4, <3>1, SaysKeeps
  <2>6. CASE pc \notin Later
    <3>1. /\ wire' = wire \o Units(m)
          /\ UNCHANGED <<config, serverIs, pc, tls, binding, scram, rx, params, ready, up>>
      BY <2>1 DEF Says, ServerOnly, transport
    <3>2. wire' \in Seq(Pieces(serverIs))
      BY <2>3, <3>1, CarriesSaid DEF Inv
    <3>3. Typed'
      BY <1>3, <2>2, <2>4, <3>1, <3>2 DEF Inv, Typed
    <3> QED
      BY <1>2, <2>6, <3>1, <3>3 DEF Inv, Quietly, Unasked, Proven, MechanismMatches, Flow
  <2> QED
    BY <2>5, <2>6
<1> QED
  BY <1>4, <1>5, <1>6

LEMMA IdleKeeps == ASSUME Inv, Closes \/ UNCHANGED vars PROVE Inv'
<1>1. UNCHANGED <<config, serverIs, pc, tls, binding, scram, rx, params, ready, wire, toServer, turn,
                  told, late, odd>>
  BY DEF Closes, ServerOnly, transport, vars
<1>2. Feed' = Feed
  BY <1>1 DEF Feed
<1>3. Flow'
  <2>1. CASE pc \in Later
    BY <1>1, <1>2, <2>1, FlowUnchanged DEF Inv
  <2> QED
    BY <1>1, <2>1 DEF Flow
<1> QED
  BY <1>1, <1>3 DEF Inv, Typed, Quietly, Unasked, Proven, MechanismMatches

-----------------------------------------------------------------------------
(* The theorems *)

LEMMA Starts == Init => Inv
<1> SUFFICES ASSUME Init
             PROVE  Inv
  OBVIOUS
<1>1. Typed
  BY DEF Init, Typed, NoScram, Exchanges
<1>2. pc \notin Later /\ pc \notin {"hello", "ssl"} /\ scram.stage = "none" /\ binding = "Unavailable"
  BY DEF Init, Later, Authenticating, NoScram
<1>3. Quietly
  BY <1>2 DEF Init, Quietly
<1> QED
  BY <1>1, <1>2, <1>3 DEF Inv, Unasked, Proven, MechanismMatches, Flow, Later, Authenticating

LEMMA Steps == Inv /\ [Next]_vars => Inv'
<1> SUFFICES ASSUME Inv, [Next]_vars
             PROVE  Inv'
  OBVIOUS
<1>1. CASE Client
  BY <1>1, ConnectKeeps, NegotiateTlsKeeps, UpgradeKeeps, HelloKeeps, ReadBufKeeps, EndKeeps,
     AuthOkKeeps, AuthPasswordKeeps, AuthSaslKeeps, ServerFirstKeeps, ServerFinalKeeps,
     AuthIgnoresKeeps, RejectsKeep, ParametersKeep DEF Client
<1>2. CASE SslEnd
  BY <1>2, EndKeeps
<1>3. CASE Server
  BY <1>3, SaysSslKeeps, AnswersKeep, TellsKeep, IdleKeeps DEF Server
<1>4. CASE UNCHANGED vars
  BY <1>4, IdleKeeps
<1> QED
  BY <1>1, <1>2, <1>3, <1>4 DEF Next

LEMMA Always == Spec => []Inv
BY Starts, Steps, PTL DEF Spec

(* A session exists only when authentication ran to its end: no message,    *)
(* in turn or out of it, takes authenticate past a SCRAM exchange that is   *)
(* half done, and a connection that requires TLS has it.                    *)
THEOREM SessionsAreEarned == Spec => []SessionIsEarned
<1>1. Inv => SessionIsEarned
  <2> SUFFICES ASSUME Inv, pc \in {"parameters", "session"}
               PROVE  SessionIsEarned
    BY DEF SessionIsEarned
  <2>1. pc \in Later
    BY DEF Later
  <2> QED
    BY <2>1 DEF Inv, Proven, SessionIsEarned
<1> QED
  BY <1>1, Always, PTL

(* select_scram_client never falls back: with PLUS on offer the client      *)
(* binds to the channel, or gives up; and it binds to nothing but TLS.      *)
THEOREM MechanismIsTheOneOffered == Spec => []MechanismMatches
<1>1. Inv => MechanismMatches
  BY DEF Inv
<1> QED
  BY <1>1, Always, PTL

(* A message of the feed that is read is one of those under way.            *)
LEMMA ReadIsCarried ==
    ASSUME Typed, NEW q \in Seq(Texts(serverIs)), Carries(q)
    PROVE  /\ Len(rx) <= 2 * Len(q)
           /\ \A i \in DOMAIN rx : \E j \in 1..Len(q) : rx[i].of = q[j]
<1>1. rx \in Seq(Pieces(serverIs)) /\ wire \in Seq(Pieces(serverIs))
  BY DEF Typed
<1>2. /\ Len(Feed) = Len(rx) + Len(wire)
      /\ \A i \in 1..Len(rx) + Len(wire) : Feed[i] = IF i <= Len(rx) THEN rx[i] ELSE wire[i - Len(rx)]
  BY <1>1, ConcatProperties DEF Feed
<1>3. /\ Len(rx) \in Nat /\ Len(wire) \in Nat /\ Len(q) \in Nat /\ DOMAIN rx = 1..Len(rx)
      /\ Len(Feed) = 2 * Len(q)
  BY <1>1 DEF Carries
<1> HIDE DEF Feed
<1>4. Len(rx) <= 2 * Len(q)
  BY <1>2, <1>3
<1>5. ASSUME NEW i \in 1..Len(rx)
      PROVE  \E j \in 1..Len(q) : rx[i].of = q[j]
  <2>1. Feed[i] = rx[i] /\ i \in Nat /\ i >= 1 /\ i <= 2 * Len(q)
    BY <1>2, <1>3, <1>4
  <2>2. PICK j \in Nat : i = 2 * j - 1 \/ i = 2 * j
    <3>1. \A n \in Nat : n >= 1 => (n % 2 = 0 \/ n % 2 = 1) /\ n = 2 * (n \div 2) + (n % 2) /\ n \div 2 \in Nat
      OBVIOUS
    <3>2. CASE i % 2 = 0
      BY <2>1, <3>1, <3>2
    <3>3. CASE i % 2 = 1
      <4>1. (i \div 2) + 1 \in Nat /\ i = 2 * ((i \div 2) + 1) - 1
        BY <2>1, <3>1, <3>3
      <4> QED
        BY <4>1
    <3> QED
      BY <2>1, <3>1, <3>2, <3>3
  <2>3. j \in 1..Len(q)
    BY <1>3, <2>1, <2>2
  <2>4. Feed[2 * j - 1].of = q[j] /\ Feed[2 * j].of = q[j]
    BY <2>3 DEF Carries
  <2>5. rx[i].of = q[j]
    BY <2>1, <2>2, <2>4
  <2> QED
    BY <2>3, <2>5
<1> QED
  BY <1>3, <1>4, <1>5

(* With a server that keeps to its turns, the session knows every setting   *)
(* that came before ReadyForQuery and has its status; what rx_buf still     *)
(* holds when the stream goes to the driver, and is lost with it, came      *)
(* after: as many settings as were reloaded meanwhile, and nothing else.    *)
THEOREM HandOverLosesOnlyReloads == Spec => []HandOver
<1>1. Inv => HandOver
  <2> SUFFICES ASSUME Inv, pc = "session", odd = 0
               PROVE  /\ params = told - late /\ ready = "I"
                      /\ \A i \in DOMAIN rx : rx[i].of.m = "ParameterStatus"
                      /\ Len(rx) <= 2 * late
    BY DEF HandOver
  <2>1. PICK q \in Seq(Texts(serverIs)) : Carries(q) /\ InTurn(q)
    BY DEF Inv, Flow, Later
  <2>2. After(q)
    BY <2>1 DEF InTurn
  <2>3. params \in Nat /\ told \in Nat /\ late \in Nat /\ told = params + late
    BY <2>2 DEF Inv, Typed, After
  <2>4. Len(rx) <= 2 * Len(q) /\ \A i \in DOMAIN rx : \E j \in 1..Len(q) : rx[i].of = q[j]
    BY <2>1, ReadIsCarried DEF Inv
  <2>5. params = told - late
    BY <2>3
  <2>6. \A i \in DOMAIN rx : rx[i].of.m = "ParameterStatus"
    BY <2>2, <2>4 DEF After
  <2> QED
    BY <2>2, <2>4, <2>5, <2>6 DEF After
<1> QED
  BY <1>1, Always, PTL
=============================================================================
