------------------------------- MODULE Codecs --------------------------------
(***************************************************************************)
(* The value codecs (codec/): what each writes into a parameter slot, what *)
(* it makes of a column, and how nullable, array, range and multirange are *)
(* built on the scalar ones.  A cell is <<bytes>>, or <<>> for SQL NULL.   *)
(*                                                                         *)
(* A value of a codec: an integer for int2, int4, int8; the bits of a      *)
(* float; a byte string for text and bytea; and so on, as the comment of   *)
(* each pair of operators says.                                            *)
(***************************************************************************)
EXTENDS Bytes, FiniteSetsExt, TLC

CONSTANTS Bits,       \* the bits of a byte (8 in the program)
          Clock,      \* [h, m, s, us, ns]: hours a day, ..., ns a microsecond
          DateMin, DateMax,    \* the calendar crate's first and last day
          StampMin, StampMax   \* and its first and last microsecond

ASSUME CalendarAssumption == /\ DateMin < 0 /\ 0 < DateMax /\ IsSigned(DateMax, W32)
                             /\ StampMin < 0 /\ 0 < StampMax /\ IsSigned(StampMax, W64)
                             /\ Octet = 2 ^ Bits

NULL == <<>>
Slot(bs) == <<bs>>

\* cell, primitive_bytes, ...: every scalar decoder refuses NULL.
OfCell(cell, F(_)) == IF cell = NULL THEN Err ELSE F(cell[1])
OfText(cell, F(_)) == OfCell(cell, LAMBDA bs : IF IsText(bs) THEN F(bs) ELSE Err)

(***************************************************************************)
(* Integers: w bytes are binary; any other length is read as text.         *)
(***************************************************************************)
IsNumeral(bs) ==
    LET n == IF bs # <<>> /\ bs[1] \in {PLUS, MINUS} THEN Skip(bs, 1) ELSE bs
    IN  n # <<>> /\ \A i \in DOMAIN n : IsDigit(n[i])
Numeral(bs) ==
    LET n == IF bs[1] \in {PLUS, MINUS} THEN Skip(bs, 1) ELSE bs
        m == FoldLeft(LAMBDA v, c : v * 10 + (c - ZERO), 0, n)
    IN  IF bs[1] = MINUS THEN -m ELSE m

IntEncode(v, w) == Slot(BigEndian(v, w))
IntDecode(cell, w) ==
    OfCell(cell, LAMBDA bs :
        IF Len(bs) = w THEN Ok(Signed(bs))
        ELSE IF IsText(bs) /\ IsNumeral(bs) /\ IsSigned(Numeral(bs), w)
        THEN Ok(Numeral(bs)) ELSE Err)

(***************************************************************************)
(* Floats: the bytes are tried as text FIRST.  A value is its bits, or     *)
(* the number that a text denotes: digits with a point or none, and an     *)
(* exponent or none; or one of the texts without digits.                   *)
(***************************************************************************)
Signless(bs) == IF bs # <<>> /\ bs[1] \in {PLUS, MINUS} THEN Skip(bs, 1) ELSE bs
NAN == <<LETTERN, LETTERA, LETTERN>>
INF == <<LETTERI, LETTERN, LETTERF>>
INFINITY == INF \o <<LETTERI, LETTERN, LETTERI, LETTERT, LETTERY>>
IsMantissa(bs) == /\ \E i \in DOMAIN bs : IsDigit(bs[i])
                  /\ \A i \in DOMAIN bs : IsDigit(bs[i]) \/ bs[i] = DOT
                  /\ Len(SelectSeq(bs, LAMBDA c : c = DOT)) <= 1
IsFloatText(bs) ==
    /\ IsText(bs)
    /\ LET n == Signless(bs)
           e == Position(n, LETTERE)
       IN  \/ n \in {NAN, INF, INFINITY}
           \/ IF e = 0 THEN IsMantissa(n)
              ELSE IsMantissa(Upto(n, e - 1)) /\ IsNumeral(Skip(n, e))
FloatEncode(v) == Slot(v.bits)
FloatDecode(cell, w) ==
    OfCell(cell, LAMBDA bs : IF IsFloatText(bs) THEN Ok([number |-> bs])
                             ELSE IF Len(bs) = w THEN Ok([bits |-> bs]) ELSE Err)

(***************************************************************************)
(* bool, text and its kin, bytea.                                          *)
(***************************************************************************)
BoolEncode(v) == Slot(<<IF v THEN 1 ELSE 0>>)
BoolDecode(cell) ==
    OfCell(cell, LAMBDA bs :
        CASE bs \in {<<1>>, <<LETTERT>>, <<LETTERT, LETTERR, LETTERU, LETTERE>>} -> Ok(TRUE)
          [] bs \in {<<0>>, <<LETTERF>>, <<LETTERF, LETTERA, LETTERL, LETTERS, LETTERE>>} -> Ok(FALSE)
          [] OTHER -> Err)

TextEncode(v) == Slot(v)
TextDecode(cell) == OfText(cell, LAMBDA bs : Ok(bs))

\* bytea: a value that begins with `\x' is read as its hexadecimal text.
ByteaDecode(cell) ==
    OfCell(cell, LAMBDA bs :
        IF Len(bs) < 2 \/ Upto(bs, 2) # <<BSLASH, LETTERX>> THEN Ok(bs)
        ELSE LET hex == Skip(bs, 2)
                 pair(i) == SubSeq(hex, 2 * i - 1, 2 * i)
                 n == Len(hex) \div 2
             IN  IF ~IsText(bs) \/ Len(hex) % 2 # 0
                    \/ \E i \in 1..n : ~IsHexPair(pair(i)) THEN Err
                 ELSE Ok([i \in 1..n |-> HexPair(pair(i))]))

\* json, jsonb: serde_json writes the value and reads it back; here a value is
\* a string and its JSON the string in quotes (external).
JsonEncode(v) == Slot(<<DQUOTE>> \o v \o <<DQUOTE>>)
JsonDecode(cell) ==
    OfCell(cell, LAMBDA bs :
        IF Len(bs) >= 2 /\ bs[1] = DQUOTE /\ Last(bs) = DQUOTE /\ IsText(bs)
           /\ \A i \in 2..(Len(bs) - 1) : bs[i] # DQUOTE
        THEN Ok(SubSeq(bs, 2, Len(bs) - 1)) ELSE Err)

(***************************************************************************)
(* interval <<months, days, microseconds>>, uuid (16 bytes), inet and cidr *)
(* ([v, addr], a host address only), numeric [m, s] = m / 10^s.            *)
(***************************************************************************)
\* The fields in the order of the struct rather than of the wire.
IntervalEncodeSwapped(v) == Slot(BigEndian(v[3], W64) \o BigEndian(v[1], W32)
                                 \o BigEndian(v[2], W32))
IntervalEncode(v) == Slot(BigEndian(v[3], W64) \o BigEndian(v[2], W32)
                          \o BigEndian(v[1], W32))
IntervalDecode(cell) ==
    OfCell(cell, LAMBDA bs :
        IF Len(bs) # W64 + W32 + W32 THEN Err
        ELSE Ok(<<Signed(Skip(bs, W64 + W32)), Signed(SubSeq(bs, W64 + 1, W64 + W32)),
                  Signed(Upto(bs, W64))>>))

UuidDecode(cell) ==
    OfCell(cell, LAMBDA bs :
        IF Len(bs) = 16 THEN Ok(bs)
        ELSE IF Len(bs) = 32 /\ \A i \in 1..32 : IsHex(bs[i])
        THEN Ok([i \in 1..16 |-> HexPair(SubSeq(bs, 2 * i - 1, 2 * i))]) ELSE Err)

\* 32 and, in the program, 128.
HostMask(v) == IF v = 4 THEN 32 ELSE 48
Family(v)   == IF v = 4 THEN 2 ELSE 3
AddrLen(v)  == IF v = 4 THEN 4 ELSE 16
InetEncode(x) == Slot(<<Family(x.v), HostMask(x.v), 0, AddrLen(x.v)>> \o x.addr)
InetDecode(cell) ==
    OfCell(cell, LAMBDA bs :
        IF Len(bs) < 4 \/ bs[1] \notin {2, 3} THEN Err
        ELSE LET v == IF bs[1] = 2 THEN 4 ELSE 6
             IN  IF bs[2] # HostMask(v) \/ bs[4] # AddrLen(v) \/ Len(bs) # 4 + AddrLen(v)
                 THEN Err ELSE Ok([v |-> v, addr |-> Skip(bs, 4)]))

RECURSIVE Normalize(_)
Normalize(d) == IF d.m = 0 THEN [m |-> 0, s |-> 0]
                ELSE IF d.s > 0 /\ d.m % 10 = 0
                THEN Normalize([m |-> d.m \div 10, s |-> d.s - 1]) ELSE d
DecimalDigits(n, k) == [i \in 1..k |-> ZERO + ((n \div (10 ^ (k - i))) % 10)]
RECURSIVE Width(_)
Width(n) == IF n < 10 THEN 1 ELSE 1 + Width(n \div 10)
\* Decimal::to_string and parse (external).
DecimalText(d) ==
    LET a == IF d.m < 0 THEN -d.m ELSE d.m
        whole == a \div (10 ^ d.s)
    IN  (IF d.m < 0 THEN <<MINUS>> ELSE <<>>) \o DecimalDigits(whole, Width(whole))
        \o (IF d.s = 0 THEN <<>> ELSE <<DOT>> \o DecimalDigits(a % (10 ^ d.s), d.s))
NumericEncode(v) == Slot(DecimalText(Normalize(v)))
NumericDecode(cell) ==
    OfText(cell, LAMBDA bs :
        LET dot == Position(bs, DOT)
            digits == IF dot = 0 THEN bs ELSE Upto(bs, dot - 1) \o Skip(bs, dot)
        IN  IF IsNumeral(digits)
            THEN Ok([m |-> Numeral(digits), s |-> IF dot = 0 THEN 0 ELSE Len(bs) - dot])
            ELSE Err)

(***************************************************************************)
(* Dates and times: days and microseconds since 2000-01-01.  Decoding adds *)
(* a duration to the epoch, which panics outside the calendar.             *)
(***************************************************************************)
Truncate(ns) == IF ns < 0 THEN -((-ns) \div Clock.ns) ELSE ns \div Clock.ns
DateEncode(day) == IntEncode(day, W32)
DateDecode(cell) ==
    OfCell(cell, LAMBDA bs : IF Len(bs) # W32 THEN Err
                             ELSE IF Signed(bs) \in DateMin..DateMax THEN Ok(Signed(bs))
                             ELSE Panic)
\* A timestamp is nanoseconds since the epoch; a timestamptz has an offset too.
StampEncode(ns) == IntEncode(Truncate(ns), W64)
StampTzEncode(v) == StampEncode(v.local - v.offset)
StampDecode(cell) ==
    OfCell(cell, LAMBDA bs : IF Len(bs) # W64 THEN Err
                             ELSE IF Signed(bs) \in StampMin..StampMax
                             THEN Ok(Signed(bs) * Clock.ns) ELSE Panic)
StampTzDecode(cell) == Map(StampDecode(cell), LAMBDA ns : [local |-> ns, offset |-> 0])

\* time::Time <<hour, minute, second, nanosecond>>, read back field by field.
TimeEncode(t) == IntEncode(((t[1] * Clock.m + t[2]) * Clock.s + t[3]) * Clock.us
                           + (t[4] \div Clock.ns), W64)
TimeDecode(cell) ==
    OfCell(cell, LAMBDA bs :
        IF Len(bs) # W64 THEN Err
        ELSE LET us == Signed(bs)
                 hour == us \div (Clock.m * Clock.s * Clock.us)
             IN  IF us < 0 \/ hour >= Clock.h THEN Err
                 ELSE Ok(<<hour, (us \div (Clock.s * Clock.us)) % Clock.m,
                           (us \div Clock.us) % Clock.s, (us % Clock.us) * Clock.ns>>))
\* chrono::NaiveTime <<second of the day, nanosecond>>; a leap second is a
\* nanosecond part of more than a second.
ChronoEncode(t) == IntEncode(t[1] * Clock.us + (t[2] \div Clock.ns), W64)
ChronoDecode(cell) ==
    OfCell(cell, LAMBDA bs :
        IF Len(bs) # W64 \/ Signed(bs) < 0
           \/ Signed(bs) \div Clock.us >= Clock.h * Clock.m * Clock.s THEN Err
        ELSE Ok(<<Signed(bs) \div Clock.us, (Signed(bs) % Clock.us) * Clock.ns>>))

(***************************************************************************)
(* Text forms: macaddr and macaddr8 (octets), bit strings [bytes, len],    *)
(* hstore (a set of <<key, value>>, a value possibly NULL), and vector (a  *)
(* sequence of f32 bits).                                                  *)
(***************************************************************************)
MacEncode(v) == Slot(FlattenSeq([i \in DOMAIN v |->
                         IF i = 1 THEN Hex(v[1]) ELSE <<COLON>> \o Hex(v[i])]))
\* parse_mac: the separator is whichever of `:' and `-' occurs.
parse_mac(bs, n) ==
    LET parts == Split(bs, IF Position(bs, COLON) # 0 THEN COLON ELSE MINUS)
    IN  IF \A s \in {COLON, MINUS} : Position(bs, s) = 0 THEN Err
        ELSE IF Len(parts) # n \/ \E k \in 1..n : ~IsHexPair(parts[k]) THEN Err
        ELSE Ok([k \in 1..n |-> HexPair(parts[k])])
MacDecode(cell, n) == OfText(cell, LAMBDA bs : parse_mac(bs, n))

\* BitString::from_bytes: the bits of the last byte that are unused are zero.
from_bytes(bytes, len) ==
    LET trailing == len % Bits
    IN  IF len > Len(bytes) * Bits
           \/ (trailing # 0 /\ Last(bytes) % (2 ^ (Bits - trailing)) # 0) THEN Err
        ELSE Ok([bytes |-> bytes, len |-> len])
GetBit(b, i) == (b.bytes[1 + (i \div Bits)] \div 2 ^ (Bits - 1 - (i % Bits))) % 2
to_bit_text(b) == [i \in 1..b.len |-> ZERO + GetBit(b, i - 1)]
from_text(bs) ==
    LET n == (Len(bs) + Bits - 1) \div Bits
        weight(i) == IF bs[i] = ONE THEN 2 ^ (Bits - 1 - ((i - 1) % Bits)) ELSE 0
        byte(k) == SumSet({weight(i) : i \in {j \in DOMAIN bs : 1 + ((j - 1) \div Bits) = k}})
    IN  IF \E i \in DOMAIN bs : bs[i] \notin {ZERO, ONE} THEN Err
        ELSE from_bytes([k \in 1..n |-> byte(k)], Len(bs))
BitEncode(v) == Slot(to_bit_text(v))
BitDecode(cell) == OfText(cell, from_text)

Quoted(s) == <<DQUOTE>> \o FlattenSeq([i \in DOMAIN s |->
                 IF s[i] \in {DQUOTE, BSLASH} THEN <<BSLASH, s[i]>> ELSE <<s[i]>>]) \o <<DQUOTE>>
NullWord == <<LETTERN, LETTERU, LETTERL, LETTERL>>
HstoreEncode(v) ==
    LET pairs == SetToSeq(v)
    IN  Slot(FlattenSeq([i \in DOMAIN pairs |->
            (IF i > 1 THEN <<COMMA, SPACE>> ELSE <<>>) \o Quoted(pairs[i][1])
            \o <<EQUALS, GREATER>>
            \o (IF pairs[i][2] = NULL THEN NullWord ELSE Quoted(pairs[i][2][1]))]))

SkipWs(bs) ==
    LET n == SelectInSeq(bs, LAMBDA c : c \notin {SPACE, TAB, 10, 13})
    IN  IF n = 0 THEN <<>> ELSE Skip(bs, n - 1)
Expect(bs, token) == IF IsPrefix(token, bs) THEN Got(token, Skip(bs, Len(token))) ELSE Err
\* parse_quoted: up to the first quote that no escape protects.
RECURSIVE Unquote(_, _)
Unquote(bs, out) ==
    IF bs = <<>> THEN Err
    ELSE IF bs[1] = DQUOTE THEN Got(out, Skip(bs, 1))
    ELSE IF bs[1] # BSLASH THEN Unquote(Skip(bs, 1), Append(out, bs[1]))
    ELSE IF Len(bs) = 1 THEN Err
    ELSE Unquote(Skip(bs, 2), Append(out, bs[2]))
parse_quoted(bs) == IF bs = <<>> \/ bs[1] # DQUOTE THEN Err ELSE Unquote(Skip(bs, 1), <<>>)
HstoreValue(bs) == IF bs # <<>> /\ bs[1] = LETTERN
                   THEN Then(Expect(bs, NullWord), LAMBDA w, rest : Got(NULL, rest))
                   ELSE Then(parse_quoted(bs), LAMBDA v, rest : Got(<<v>>, rest))
\* A later pair with the same key replaces the earlier one.
Insert(pairs, k, v) == {p \in pairs : p[1] # k} \cup {<<k, v>>}
RECURSIVE ParsePairs(_, _)
ParsePairs(bs, pairs) ==
    IF bs = <<>> THEN Ok(pairs)
    ELSE Then(parse_quoted(bs), LAMBDA k, r1 :
         Then(Expect(SkipWs(r1), <<EQUALS, GREATER>>), LAMBDA arrow, r2 :
         Then(HstoreValue(SkipWs(r2)), LAMBDA v, r3 :
              LET rest == SkipWs(r3)
              IN  IF rest = <<>> THEN Ok(Insert(pairs, k, v))
                  ELSE Then(Expect(rest, <<COMMA>>), LAMBDA comma, r4 :
                            ParsePairs(SkipWs(r4), Insert(pairs, k, v))))))
HstoreDecode(cell) == OfText(cell, LAMBDA bs : ParsePairs(SkipWs(bs), {}))

\* The exponent of a number that is not finite is all ones.
IsFinite(f) == IF "number" \in DOMAIN f THEN \E i \in DOMAIN f.number : IsDigit(f.number[i])
               ELSE f.bits[1] % (Octet \div 2) # (Octet \div 2) - 1
NewVector(vs) == IF vs = <<>> \/ \E i \in DOMAIN vs : ~IsFinite(vs[i]) THEN Err ELSE Ok(vs)
VectorEncode(vs) ==
    IF ~NewVector(vs).ok \/ ~IsSigned(Len(vs), W16) THEN Err
    ELSE Ok(Slot(BigEndian(Len(vs), W16) \o BigEndian(0, W16)
                 \o FlattenSeq([i \in DOMAIN vs |-> vs[i].bits])))
VectorText(bs) ==
    IF ~IsText(bs) \/ Last(bs) # CLOSE THEN Err
    ELSE LET parts == Split(SubSeq(bs, 2, Len(bs) - 1), COMMA)
         IN  IF \E i \in DOMAIN parts : ~IsFloatText(parts[i]) THEN Err
             ELSE NewVector([i \in DOMAIN parts |-> [number |-> parts[i]]])
VectorDecode(cell) ==
    OfCell(cell, LAMBDA bs :
        IF bs # <<>> /\ bs[1] = BRACKET THEN VectorText(bs)
        ELSE Then(ReadSigned(bs, W16), LAMBDA dims, r1 :
             Then(ReadSigned(r1, W16), LAMBDA unused, r2 :
                  IF dims <= 0 \/ unused # 0 \/ Len(r2) # dims * W32 THEN Err
                  ELSE NewVector([i \in 1..dims |->
                           [bits |-> SubSeq(r2, (i - 1) * W32 + 1, i * W32)]]))))
==============================================================================
