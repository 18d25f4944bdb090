-------------------------------- MODULE Bytes --------------------------------
(***************************************************************************)
(* Bytes, machine integers and readers.  The wire protocol, the COPY       *)
(* payload, the TLS certificate reader and the value codecs all work on    *)
(* byte strings with big-endian (in EWKB also little-endian) integers.     *)
(*                                                                         *)
(* The machine is scaled: a byte has Octet values and an i16 has W16       *)
(* bytes.  The program runs with Octet = 256 and W16 = 2; TLC, whose       *)
(* integers have 32 bits, with Octet = 64 and W16 = 1, which keeps every   *)
(* ratio the code relies on (i32 is two i16 wide, i64 two i32, a byte two  *)
(* hexadecimal digits) and lets the boundaries of every width be reached.  *)
(***************************************************************************)
EXTENDS Integers, Sequences, SequencesExt, Results

CONSTANTS Octet,    \* the number of values of a byte
          W16,      \* the bytes of an i16
          Digit     \* the values of a hexadecimal digit

ASSUME ScaleAssumption == /\ Octet \in Nat /\ W16 \in Nat \ {0}
                          /\ Digit \in Nat \ {0, 1} /\ Octet = Digit * Digit

W32 == 2 * W16
W64 == 2 * W32

Byte == 0..(Octet - 1)

(***************************************************************************)
(* Characters.  The codes below 64 are ASCII's; a character whose code is  *)
(* larger has a free one.  The last byte value stands for the bytes that   *)
(* are not UTF-8.                                                          *)
(***************************************************************************)
NUL    == 0
TAB    == 9
SPACE  == 32
DQUOTE == 34
DOLLAR == 36
QUOTE  == 39
PLUS   == 43
COMMA  == 44
MINUS  == 45
DOT    == 46
ZERO   == 48
ONE    == 49
COLON  == 58
EQUALS == 61
GREATER == 62
BSLASH  == 1
LETTERX == 2
LETTERN == 3
LETTERU == 4
LETTERL == 5
BRACKET == 6
CLOSE   == 7
LETTERT == 8
LETTERF == 11
LETTERR == 12
LETTERE == 13
LETTERA == 14
LETTERS == 15
LETTERI == 16
LETTERY == 17

IsText(bs) == \A i \in DOMAIN bs : bs[i] # Octet - 1
IsDigit(c) == c \in ZERO..(ZERO + 9)
IsHex(c)   == c \in ZERO..(ZERO + Digit - 1)

(***************************************************************************)
(* Readers: a reader takes the bytes left and returns the value read and   *)
(* what is then left.                                                      *)
(***************************************************************************)
Got(v, rest) == [ok |-> TRUE, v |-> v, rest |-> rest]

\* The `?' of the source: go on with the value of a success.
Then(r, F(_, _)) == IF r.ok THEN F(r.v, r.rest) ELSE r

Skip(bs, n) == SubSeq(bs, n + 1, Len(bs))
Upto(bs, n) == SubSeq(bs, 1, n)

\* n bytes, or an error when fewer are left.
Take(bs, n) == IF Len(bs) < n THEN Err ELSE Got(Upto(bs, n), Skip(bs, n))

\* R, n times in a row: the loops `for _ in 0..count'.
Times(n, R(_), bs) ==
    FoldLeft(LAMBDA acc, i : Then(acc, LAMBDA vs, rest :
                 Then(R(rest), LAMBDA v, left : Got(Append(vs, v), left))),
             Got(<<>>, bs), [i \in 1..n |-> i])

(***************************************************************************)
(* Integers of w bytes, big-endian.                                        *)
(***************************************************************************)
Limit(w) == Octet ^ w
Unsigned(bs) == FoldLeft(LAMBDA n, b : n * Octet + b, 0, bs)
Signed(bs) == LET n == Unsigned(bs)
              IN  IF 2 * n >= Limit(Len(bs)) THEN n - Limit(Len(bs)) ELSE n
IsSigned(n, w)   == 2 * n >= -Limit(w) /\ 2 * n < Limit(w)
IsUnsigned(n, w) == n >= 0 /\ n < Limit(w)

\* to_be_bytes of an integer of w bytes, signed or not.
BigEndian(n, w) == LET u == n % Limit(w)
                   IN  [i \in 1..w |-> (u \div Octet ^ (w - i)) % Octet]
LittleEndian(n, w) == Reverse(BigEndian(n, w))

ReadUnsigned(bs, w) == Then(Take(bs, w), LAMBDA b, rest : Got(Unsigned(b), rest))
ReadSigned(bs, w)   == Then(Take(bs, w), LAMBDA b, rest : Got(Signed(b), rest))

\* The position of the first byte b, or 0.
Position(bs, b) == SelectInSeq(bs, LAMBDA x : x = b)

\* The parts between the occurrences of sep: one more than those.
Split(bs, sep) ==
    LET cuts == <<0>> \o SelectSeq([i \in DOMAIN bs |-> i], LAMBDA i : bs[i] = sep) \o <<Len(bs) + 1>>
    IN  [k \in 1..(Len(cuts) - 1) |-> SubSeq(bs, cuts[k] + 1, cuts[k + 1] - 1)]

\* Two hexadecimal digits, as u8::from_str_radix reads them (a leading `+'
\* is accepted).
IsHexPair(p) == Len(p) = 2 /\ (IsHex(p[1]) \/ p[1] = PLUS) /\ IsHex(p[2])
HexPair(p)   == (IF p[1] = PLUS THEN 0 ELSE (p[1] - ZERO) * Digit) + (p[2] - ZERO)
Hex(b)       == <<ZERO + (b \div Digit), ZERO + (b % Digit)>>
==============================================================================
