---------------------------- MODULE MCAlgorithms -----------------------------
(***************************************************************************)
(* The inputs of the Algorithms runs.                                      *)
(***************************************************************************)
EXTENDS Algorithms

MCClock == [h |-> 4, m |-> 3, s |-> 2, us |-> 4, ns |-> 2]
MCDateMin == -1000
MCStampMin == -100000

(***************************************************************************)
(* Values of every codec.                                                  *)
(***************************************************************************)
One(k, vs) == [i \in DOMAIN vs |-> [row |-> [cols |-> <<[k |-> k, in |-> "plain"]>>, opt |-> FALSE],
                                  v |-> <<vs[i]>>]]
In(c, v) == <<[row |-> [cols |-> <<c>>, opt |-> FALSE], v |-> <<v>>]>>
Arr(dims, values) == [dims |-> dims, values |-> values]
Incl(v) == [b |-> "incl", v |-> v]
Excl(v) == [b |-> "excl", v |-> v]
Open == [b |-> "open"]
IntArray == [k |-> "int4", in |-> "array"]
NullableArray == [k |-> "text", in |-> "nullable array"]
IntRange == [k |-> "int4", in |-> "range"]
DateMultirange == [k |-> "date", in |-> "multirange"]
IntAndText == <<[k |-> "int4", in |-> "plain"], [k |-> "text", in |-> "nullable"]>>

Floats == One("float8", <<[bits |-> <<0, 0, 0, 0>>], [bits |-> <<31, 0, 0, 1>>], [bits |-> <<63, 63, 63, 63>>],
                          [bits |-> <<ONE, 50, DOT, 53>>], [bits |-> <<ONE, LETTERE, ZERO, 53>>]>>)
Strings == One("bytea", <<<<>>, <<BSLASH>>, <<63, 0>>, <<BSLASH, LETTERX, ZERO, ONE>>>>)
\* The values for which the tests claim a bit-exact trip.
MCExact == Strings \o Floats

Scalars ==
    One("int2", <<-32, -1, 0, 31>>) \o One("int4", <<-2048, -1, 0, 2047>>)
    \o One("int8", <<-8388608, -1, 0, 8388607>>) \o One("bool", <<TRUE, FALSE>>)
    \o Floats
    \o One("text", <<<<>>, <<LETTERX, DQUOTE>>>>) \o One("json", <<<<>>, <<LETTERX>>>>)
    \o Strings
    \o One("interval", <<<<1, -2, 3>>, <<-2048, 2047, -8388608>>>>) \o One("uuid", <<[i \in 1..16 |-> i + 40]>>)
    \o One("inet", <<[v |-> 4, addr |-> <<1, 2, 3, 63>>], [v |-> 6, addr |-> [i \in 1..16 |-> i]]>>)
    \o One("numeric", <<[m |-> 120, s |-> 1], [m |-> 0, s |-> 2], [m |-> -5, s |-> 1], [m |-> -1005, s |-> 2]>>)
    \o One("date", <<DateMin, -1, 0, DateMax>>) \o One("timestamp", <<-7, -1, 0, 2 * StampMax, 2 * StampMin>>)
    \o One("timestamptz", <<[local |-> 5, offset |-> 8], [local |-> -7, offset |-> 0]>>)
    \o [i \in 1..192 |-> One("time", <<<<(i - 1) \div 48, ((i - 1) \div 16) % 3, ((i - 1) \div 8) % 2, (i - 1) % 8>>>>)[1]]
    \o One("chrono_time", <<<<0, 0>>, <<23, 7>>, <<5, 3>>>>)
    \o One("macaddr", <<[i \in 1..6 |-> 63], [i \in 1..6 |-> i]>>)
    \o One("varbit", <<[bytes |-> <<>>, len |-> 0], [bytes |-> <<32>>, len |-> 1], [bytes |-> <<42>>, len |-> 6],
                      [bytes |-> <<63, 48>>, len |-> 8]>>)
    \o One("hstore", <<{}, {<<<<DQUOTE>>, <<<<BSLASH, SPACE>>>>>>},
                      {<<<<LETTERN>>, NULL>>, <<<<>>, <<<<COMMA, EQUALS, GREATER>>>>>>}>>)
    \o One("vector", <<<<[bits |-> <<1, 2>>]>>, <<[bits |-> <<0, 0>>], [bits |-> <<40, 63>>]>>,
                      [i \in 1..6 |-> [bits |-> <<1, 2>>]]>>)
Composites ==
    In(IntArray, Arr(<<>>, <<>>)) \o In(IntArray, Arr(<<<<3, 1>>>>, <<-2048, 0, 2047>>))
    \o In(IntArray, Arr(<<<<2, 0>>, <<2, -1>>>>, <<1, 2, 3, 4>>))
    \o In(NullableArray, Arr(<<<<3, 1>>>>, << <<>>, <<<<>>>>, <<<<LETTERX>>>> >>))
    \o In(IntRange, EmptyRange) \o In(IntRange, <<Incl(-5), Excl(9)>>) \o In(IntRange, <<Open, Incl(0)>>)
    \o In(IntRange, <<Excl(7), Open>>) \o In(IntRange, <<Open, Open>>)
    \o In(DateMultirange, <<>>) \o In(DateMultirange, <<<<Incl(-1), Excl(2)>>, EmptyRange>>)
Rows ==
    <<[row |-> [cols |-> IntAndText, opt |-> FALSE], v |-> <<1, <<>>>>],
      [row |-> [cols |-> IntAndText, opt |-> FALSE], v |-> <<2, <<<<LETTERX>>>>>>],
      [row |-> [cols |-> IntAndText, opt |-> TRUE], v |-> <<>>],
      [row |-> [cols |-> IntAndText, opt |-> TRUE], v |-> << <<3, <<>>>> >>]>>
MCValues == Scalars \o Composites \o Rows

MCNoiseKinds == {"int2", "int4", "bool", "date", "timestamp", "time", "chrono_time", "macaddr", "varbit",
                 "hstore", "vector", "inet", "interval", "numeric", "json"}
NoiseAlphabet == {0, 2, MINUS, ONE, DQUOTE, 63}
MCNoiseBytes == UNION {[1..n -> NoiseAlphabet] : n \in 0..4}
                \cup {<<ONE, ONE, COLON, ONE, ONE, COLON, ONE, PLUS, COLON, ONE, ONE, COLON, ONE, ONE, COLON, ONE, ONE>>,
                      <<ONE, ONE, MINUS, ONE, ONE, MINUS, ONE, ONE, MINUS, ONE, ONE, MINUS, ONE, ONE, MINUS, PLUS, ONE>>,
                      <<DQUOTE, DQUOTE, EQUALS, GREATER, LETTERN, LETTERU, LETTERL, LETTERL, COMMA>>,
                      <<BRACKET, ONE, COMMA, ONE, CLOSE>>, <<BRACKET, MINUS, LETTERI, LETTERN, LETTERF, CLOSE>>,
                      <<LETTERT, LETTERR, LETTERU, LETTERE>>, <<LETTERF, LETTERA, LETTERL, LETTERS, LETTERE>>}

(***************************************************************************)
(* Spatial values.                                                         *)
(***************************************************************************)
C(x, y) == <<<<x, 0, 1, 2>>, <<y, 3, 0, 1>>>>
Triangle == <<C(0, 0), C(1, 0), C(0, 1)>>
OfSrid(srid, t, g) == [srid |-> srid, shape |-> [t |-> t, g |-> g]]
MCShapes == <<OfSrid(<<>>, "Point", C(1, 2)), OfSrid(<<2047>>, "Point", C(1, 2)),
              OfSrid(<<0>>, "LineString", <<>>), OfSrid(<<>>, "LineString", Triangle),
              OfSrid(<<5>>, "Polygon", <<Triangle, Append(Triangle, C(0, 0))>>), OfSrid(<<>>, "Polygon", <<>>),
              OfSrid(<<7>>, "MultiPoint", <<C(1, 2), C(3, 4)>>), OfSrid(<<>>, "MultiPoint", <<>>),
              OfSrid(<<>>, "MultiPoint", <<C(1, 2), C(3, 4)>>),
              OfSrid(<<1>>, "MultiLineString", <<Triangle, <<>>>>),
              OfSrid(<<1>>, "MultiPolygon", <<<<Triangle>>>>), OfSrid(<<>>, "GeometryCollection", <<>>)>>

(***************************************************************************)
(* Messages, COPY payloads.                                                *)
(***************************************************************************)
Says1(tag, body, m, f) == [tag |-> tag, body |-> body, says |-> Message(m, f)]
A1 == <<LETTERX>>
MCMessages ==
    <<Says1(Tag.D, WireRow(<<<<>>, <<<<>>>>, <<A1>>>>), "DataRow", <<<<>>, <<<<>>>>, <<A1>>>>),
      Says1(Tag.C, Cstr(A1), "CommandComplete", A1),
      Says1(Tag.E, <<5>> \o Cstr(A1) \o <<6>> \o Cstr(<<>>) \o <<NUL>>, "Error", <<<<5, A1>>, <<6, <<>>>>>>),
      Says1(Tag.T, BigEndian(1, W16) \o Cstr(A1) \o BigEndian(4095, W32) \o BigEndian(-1, W16)
                   \o BigEndian(23, W32) \o BigEndian(4, W16) \o BigEndian(-1, W32) \o BigEndian(1, W16),
            "RowDescription", <<<<A1, 4095, -1, 23, 4, -1, 1>>>>),
      Says1(Tag.t, BigEndian(2, W16) \o BigEndian(23, W32) \o BigEndian(0, W32),
            "ParameterDescription", <<23, 0>>),
      Says1(Tag.R, BigEndian(10, W32) \o Cstr(A1) \o Cstr(<<LETTERX, LETTERN>>) \o <<NUL>>,
            "Sasl", <<A1, <<LETTERX, LETTERN>>>>),
      Says1(Tag.Z, <<LETTERT>>, "ReadyForQuery", <<LETTERT>>), Says1(Tag.s, <<>>, "PortalSuspended", <<>>),
      Says1(Tag.G, <<1>> \o BigEndian(1, W16) \o BigEndian(1, W16), "CopyIn", <<1>>),
      Says1(40, A1, "Other", <<40, A1>>)>>

Binary(n) == [oids |-> [i \in 1..n |-> 23], formats |-> [i \in 1..n |-> 1]]
Wide(n) == [i \in 1..n |-> IF i = 2 THEN <<>> ELSE <<<<i>>>>]
MCCopies == <<[encoder |-> Binary(2), rows |-> <<>>], [encoder |-> Binary(2), rows |-> <<Wide(2), Wide(2)>>],
              [encoder |-> Binary(31), rows |-> <<Wide(31)>>], [encoder |-> Binary(32), rows |-> <<Wide(32)>>],
              [encoder |-> Binary(63), rows |-> <<Wide(63), Wide(63)>>],
              [encoder |-> [oids |-> <<23, 1700>>, formats |-> <<1, 0>>], rows |-> <<Wide(2)>>],
              [encoder |-> Binary(2), rows |-> <<Wide(2), Wide(1)>>]>>

(***************************************************************************)
(* Typed statements.                                                       *)
(***************************************************************************)
Of(type, nullable) == [type |-> type, nullable |-> nullable]
MCTables == [t |-> [a |-> Of("int4", FALSE), b |-> Of("text", FALSE), n |-> Of("int8", TRUE)],
             u |-> [a |-> Of("int4", FALSE), c |-> Of("varchar", TRUE), d |-> Of("inet", FALSE)]]
Col(b, c) == [k |-> "col", b |-> b, c |-> c]
Ph(n) == [k |-> "ph", name |-> n, optional |-> FALSE]
Maybe(n) == [k |-> "ph", name |-> n, optional |-> TRUE]
Val(v) == [k |-> "lit", v |-> v, text |-> <<>>]
Str(parts) == [k |-> "lit", v |-> "str", text |-> parts]
Cmp(l, r) == [k |-> "cmp", l |-> l, r |-> r]
Bin(k, l, r) == [k |-> k, l |-> l, r |-> r]
Un(k, e) == [k |-> k, e |-> e]
Par(e) == [k |-> "paren", e |-> e, optional |-> FALSE]
Group(e) == [k |-> "paren", e |-> e, optional |-> TRUE]

TA == Col("t", "a")
TB == Col("t", "b")
Atoms == {Cmp(TA, Ph("p")), Cmp(TA, Maybe("p")), Cmp(Maybe("q"), TB), Cmp(TA, Val("int"))}
Toggled == {Group(x) : x \in Atoms}
Simple == Atoms \cup Toggled \cup {Un("not", Par(x)) : x \in Atoms} \cup {Un("isnull", Col("t", "n"))}
Chains == {Bin(k, x, y) : k \in {"and", "or"}, x \in Simple, y \in Atoms}
Nested == {Bin(k, x, Group(y)) : k \in {"and", "or"}, x \in Atoms,
                                 y \in {Bin("or", v, w) : v \in Toggled, w \in Atoms}}
          \cup {Group(Bin("and", x, Par(Bin("or", y, Cmp(TA, Ph("r")))))) : x \in Atoms, y \in Atoms}
          \cup {Bin("and", Par(Bin("or", x, y)), z) : x \in Simple, y \in Simple, z \in Toggled}
Predicates == Simple \cup Chains \cup Nested

Statement(kind, outs, joins, sets, filter, order, limit) ==
    [kind |-> kind, from |-> <<"t", "t">>, joins |-> joins,
     outs |-> [i \in DOMAIN outs |-> [e |-> outs[i], alias |-> None]],
     sets |-> sets, filter |-> filter, order |-> order, limit |-> limit]
Selects == {Statement("select", <<TA>>, <<>>, <<>>, <<x>>, <<Group(TB), TA>>, <<Maybe("limit")>>) : x \in Predicates}
Writes == {Statement("delete", <<TA>>, <<>>, <<>>, <<x>>, <<>>, <<>>) : x \in Simple \cup Chains}
          \cup {Statement("update", <<>>, <<>>, <<<<"b", Ph("s")>>>>, <<x>>, <<>>, <<>>) : x \in Simple \cup Chains}
          \cup {Statement("delete", <<>>, <<>>, <<>>, <<>>, <<>>, <<>>),
                Statement("update", <<>>, <<>>, <<<<"n", Val("null")>>>>, <<Cmp(TA, Ph("p"))>>, <<>>, <<>>),
                Statement("insert", <<TB>>, <<>>, <<<<"a", Ph("p")>>, <<"n", Val("null")>>>>, <<>>, <<>>, <<>>),
                Statement("insert", <<>>, <<>>, <<<<"a", Ph("p")>>, <<"b", Ph("p")>>>>, <<>>, <<>>, <<>>),
                \* Two rows of VALUES.
                Statement("insert", <<TA>>, <<>>, <<<<"a", Ph("p")>>, <<"b", Ph("r")>>, <<"a", Ph("q")>>, <<"b", Ph("r")>>>>,
                          <<>>, <<>>, <<>>)}
Join(kind, b, table, on) == [kind |-> kind, from |-> <<b, table>>, on |-> on]
JoinKinds == {"inner", "left", "right", "full"}
On(b) == Bin("and", Cmp(TA, Col(b, "a")), Cmp(Col(b, "c"), Maybe("c")))
Joins == {Statement("select", <<TA, Col("u", "a"), Col("v", "c"), Col("v", "a")>>,
                    <<Join(j, "u", "u", On("u")), Join(k, "v", "u", On("v"))>>,
                    <<>>, <<>>, <<>>, <<Val("int")>>) : j \in JoinKinds, k \in JoinKinds}
         \cup {Statement("select", <<TA>>, <<Join("left", "t", "u", On("t"))>>, <<>>, <<>>, <<>>, <<>>),
               Statement("select", <<Col("u", "d")>>, <<Join("left", "u", "u", On("u"))>>, <<>>, <<>>, <<>>, <<>>)}
\* The operands of two comparisons, one of them between placeholders.
Operands == {TA, TB, Col("t", "n"), Ph("p"), Ph("q"), Val("int"), Val("str"), Val("num"), Val("null"),
             Val("bool"), Un("neg", Ph("p")), Un("neg", TB)}
Typings == {Statement("select", <<TA>>, <<>>, <<>>,
                      <<Bin("and", Cmp(x, y), Bin("and", Cmp(z, Ph("q")), Cmp(Ph("p"), Ph("q"))))>>, <<>>, <<Ph("limit")>>) :
                x \in Operands, y \in Operands, z \in {TA, TB, Col("t", "n"), Ph("p")}}
\* String literals of every kind of text, with and without a value to send.
Texts == {<<<<"ascii">>>>, <<<<"wide">>>>, <<<<"ascii">>, <<"$", 1>>>>, <<<<"$", 2>>>>}
Quotings == {Statement("select", <<TA>>, <<>>, <<>>, <<Bin("and", Cmp(TB, Str(text)), x)>>, <<>>, <<>>) :
                 text \in Texts, x \in Atoms}
MCStatements == Selects \cup Writes \cup Joins \cup Typings \cup Quotings

MCAlphabets == {{"$", "a", "b", "'", "?", "1"}, {"$", "a", "(", ")", "?", "W"}, {"$", "a", "/", "*", "-", "~"},
                {"$", "a", "\"", "'", ")"}}
==============================================================================
