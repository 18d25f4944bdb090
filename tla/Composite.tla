------------------------------ MODULE Composite ------------------------------
(***************************************************************************)
(* Codecs built on codecs: nullable, array, range, multirange and tuple,   *)
(* what each says of its slots (OIDs, format codes), and the SQL fragments *)
(* that number the placeholders of those slots.                            *)
(*                                                                         *)
(* A column codec is [k, in]: a scalar kind and what wraps it.  A row      *)
(* codec is [cols, opt]: a tuple of column codecs, possibly nullable as a  *)
(* whole.                                                                  *)
(***************************************************************************)
EXTENDS Codecs

(***************************************************************************)
(* What a scalar codec says of itself.                                     *)
(***************************************************************************)
OidOf == [bool |-> 16, bytea |-> 17, int8 |-> 20, int2 |-> 21, int4 |-> 23,
          text |-> 25, float8 |-> 701, date |-> 1082, time |-> 1083,
          chrono_time |-> 1083, timestamp |-> 1114, timestamptz |-> 1184,
          interval |-> 1186, inet |-> 869, macaddr |-> 829, varbit |-> 1562,
          numeric |-> 1700, uuid |-> 2950, json |-> 114, tsvector |-> 3614,
          hstore |-> 0, vector |-> 0, toggle |-> 0]
Kinds == DOMAIN OidOf

BINARY == 1
TEXTUAL == 0
TextKinds == {"numeric", "varbit", "macaddr", "json", "hstore"}

\* array_oid_slice_for_scalar_oid and its siblings.
ArrayKinds == {"bool", "bytea", "int2", "int4", "text", "int8", "float8", "inet",
               "date", "time", "timestamp", "timestamptz", "interval", "uuid"}
RangeKinds == {"int4", "int8", "numeric", "date", "timestamp", "timestamptz"}

\* The text-search codecs say nothing of their format; the toggle of the
\* typed SQL macros has no slot.
ScalarFormats(k) == CASE k \in {"tsvector", "toggle"} -> <<>>
                      [] k \in TextKinds -> <<TEXTUAL>>
                      [] OTHER -> <<BINARY>>
ScalarSlots(k) == IF k = "toggle" THEN 0 ELSE 1

ScalarEncode(k, v) ==
    CASE k = "int2"  -> Ok(<<IntEncode(v, W16)>>)
      [] k = "int4"  -> Ok(<<IntEncode(v, W32)>>)
      [] k = "int8"  -> Ok(<<IntEncode(v, W64)>>)
      [] k = "float8" -> Ok(<<FloatEncode(v)>>)
      [] k = "bool"  -> Ok(<<BoolEncode(v)>>)
      [] k \in {"text", "tsvector", "bytea", "uuid"} -> Ok(<<TextEncode(v)>>)
      [] k = "json"  -> Ok(<<JsonEncode(v)>>)
      [] k = "interval" -> Ok(<<IntervalEncode(v)>>)
      [] k = "inet"  -> Ok(<<InetEncode(v)>>)
      [] k = "numeric" -> Ok(<<NumericEncode(v)>>)
      [] k = "date"  -> Ok(<<DateEncode(v)>>)
      [] k = "time"  -> Ok(<<TimeEncode(v)>>)
      [] k = "chrono_time" -> Ok(<<ChronoEncode(v)>>)
      [] k = "timestamp"   -> Ok(<<StampEncode(v)>>)
      [] k = "timestamptz" -> Ok(<<StampTzEncode(v)>>)
      [] k = "macaddr" -> Ok(<<MacEncode(v)>>)
      [] k = "varbit"  -> Ok(<<BitEncode(v)>>)
      [] k = "hstore"  -> Ok(<<HstoreEncode(v)>>)
      [] k = "vector"  -> Map(VectorEncode(v), LAMBDA cell : <<cell>>)
      [] k = "toggle"  -> Ok(<<>>)

ScalarDecode(k, cell) ==
    CASE k = "int2"  -> IntDecode(cell, W16)
      [] k = "int4"  -> IntDecode(cell, W32)
      [] k = "int8"  -> IntDecode(cell, W64)
      [] k = "float8" -> FloatDecode(cell, W64)
      [] k = "bool"  -> BoolDecode(cell)
      [] k \in {"text", "tsvector"} -> TextDecode(cell)
      [] k = "bytea" -> ByteaDecode(cell)
      [] k = "uuid"  -> UuidDecode(cell)
      [] k = "json"  -> JsonDecode(cell)
      [] k = "interval" -> IntervalDecode(cell)
      [] k = "inet"  -> InetDecode(cell)
      [] k = "numeric" -> NumericDecode(cell)
      [] k = "date"  -> DateDecode(cell)
      [] k = "time"  -> TimeDecode(cell)
      [] k = "chrono_time" -> ChronoDecode(cell)
      [] k = "timestamp"   -> StampDecode(cell)
      [] k = "timestamptz" -> StampTzDecode(cell)
      [] k = "macaddr" -> MacDecode(cell, 6)
      [] k = "varbit"  -> BitDecode(cell)
      [] k = "hstore"  -> HstoreDecode(cell)
      [] k = "vector"  -> VectorDecode(cell)

(***************************************************************************)
(* nullable: None is one NULL for each slot; a column that is NULL in all  *)
(* its slots is None.  An optional value is <<>> or <<v>>.                 *)
(***************************************************************************)
NullableEncode(slots, v, F(_)) == IF v = <<>> THEN Ok([i \in 1..slots |-> NULL]) ELSE F(v[1])
NullableDecode(cells, F(_)) ==
    IF \A i \in DOMAIN cells : cells[i] = NULL THEN Ok(<<>>)
    ELSE Map(F(cells), LAMBDA v : <<v>>)

(***************************************************************************)
(* array: [dims, values], a dimension <<len, lower bound>>.  The header    *)
(* and the walk over the elements are postgres_protocol's (external).      *)
(***************************************************************************)
validate_shape(dims, n) ==
    IF dims = <<>> THEN n = 0
    ELSE /\ \A i \in DOMAIN dims : dims[i][1] >= 0
         /\ FoldLeft(LAMBDA p, d : p * d[1], 1, dims) = n

\* An inner codec of an array or range is one binary slot.
binary_scalar(k) == ScalarSlots(k) = 1 /\ ScalarFormats(k) = <<BINARY>>

Element(k, nullable, v) == IF nullable THEN NullableEncode(1, v, LAMBDA x : ScalarEncode(k, x))
                           ELSE ScalarEncode(k, v)
Sized(cell) == IF cell = NULL THEN BigEndian(-1, W32)
               ELSE BigEndian(Len(cell[1]), W32) \o cell[1]

ArrayEncode(k, nullable, a) ==
    LET cells == [i \in DOMAIN a.values |-> Element(k, nullable, a.values[i])]
        nulls == \E i \in DOMAIN cells : cells[i].ok /\ cells[i].v = <<NULL>>
    IN  IF ~validate_shape(a.dims, Len(a.values)) \/ ~binary_scalar(k) \/ k \notin ArrayKinds
           \/ \E i \in DOMAIN cells : ~cells[i].ok THEN Err
        ELSE Ok(<<Slot(BigEndian(Len(a.dims), W32) \o BigEndian(IF nulls THEN 1 ELSE 0, W32)
                       \o BigEndian(OidOf[k], W32)
                       \o FlattenSeq([i \in DOMAIN a.dims |->
                             BigEndian(a.dims[i][1], W32) \o BigEndian(a.dims[i][2], W32)])
                       \o FlattenSeq([i \in DOMAIN cells |-> Sized(cells[i].v[1])]))>>)

ReadDim(bs) == Then(ReadSigned(bs, W32), LAMBDA len, r1 :
               Then(ReadSigned(r1, W32), LAMBDA lower, r2 :
                    IF len < 0 THEN Err ELSE Got(<<len, lower>>, r2)))
ReadSized(bs) == Then(ReadSigned(bs, W32), LAMBDA len, rest :
                      IF len < 0 THEN Got(NULL, rest)
                      ELSE Then(Take(rest, len), LAMBDA v, left : Got(<<v>>, left)))
DecodeElement(k, nullable, cell) ==
    IF nullable THEN NullableDecode(<<cell>>, LAMBDA cs : ScalarDecode(k, cs[1]))
    ELSE ScalarDecode(k, cell)

ArrayDecode(k, nullable, cell) ==
    OfCell(cell, LAMBDA bs :
        Then(ReadSigned(bs, W32), LAMBDA ndim, r1 :
        Then(ReadSigned(r1, W32), LAMBDA nulls, r2 :
        Then(ReadUnsigned(r2, W32), LAMBDA oid, r3 :
        Then(Times(ndim, ReadDim, r3), LAMBDA dims, r4 :
             LET n == IF ndim = 0 THEN 0 ELSE FoldLeft(LAMBDA p, d : p * d[1], 1, dims)
                 elems == Times(n, ReadSized, r4)
             IN  IF ndim < 0 \/ ~binary_scalar(k) \/ k \notin ArrayKinds \/ oid # OidOf[k]
                    \/ ~elems.ok THEN Err
                 ELSE LET vs == [i \in 1..n |-> DecodeElement(k, nullable, elems.v[i])]
                      IN  IF elems.rest # <<>> \/ \E i \in 1..n : ~vs[i].ok THEN Err
                          ELSE Ok([dims |-> dims, values |-> [i \in 1..n |-> vs[i].v]]))))))

(***************************************************************************)
(* range: "empty", or <<lower, upper>>, a bound [b, v] with b "incl",      *)
(* "excl" or "open".  The flag byte is postgres_protocol's.                *)
(***************************************************************************)
EmptyRange == <<>>
EMPTY_FLAG == 1
Flag(b, incl, open) == CASE b = "incl" -> incl [] b = "open" -> open [] OTHER -> 0
HasFlag(n, f) == (n \div f) % 2 = 1

encode_bound(k, bound) ==
    IF bound.b = "open" THEN Ok(<<>>)
    ELSE Map(ScalarEncode(k, bound.v), LAMBDA cells : Sized(cells[1]))
encode_range(k, r) ==
    IF r = EmptyRange THEN Ok(<<EMPTY_FLAG>>)
    ELSE LET lo == encode_bound(k, r[1])
             hi == encode_bound(k, r[2])
         IN  IF ~lo.ok \/ ~hi.ok THEN Err
             ELSE Ok(<<Flag(r[1].b, 2, 8) + Flag(r[2].b, 4, 16)>> \o lo.v \o hi.v)
decode_bound(k, bs, open, incl) ==
    IF open THEN Got([b |-> "open"], bs)
    ELSE Then(ReadSized(bs), LAMBDA cell, rest :
              LET v == ScalarDecode(k, cell)
              IN  IF cell = NULL \/ ~v.ok THEN Err
                  ELSE Got([b |-> IF incl THEN "incl" ELSE "excl", v |-> v.v], rest))
\* What follows the bounds is not looked at.
decode_rangeLax(k, bs) ==
    Then(Take(bs, 1), LAMBDA flag, r1 :
         IF HasFlag(flag[1], EMPTY_FLAG) THEN Ok(EmptyRange)
         ELSE Then(decode_bound(k, r1, HasFlag(flag[1], 8), HasFlag(flag[1], 2)), LAMBDA lo, r2 :
              Then(decode_bound(k, r2, HasFlag(flag[1], 16), HasFlag(flag[1], 4)), LAMBDA hi, r3 :
                   Ok(<<lo, hi>>))))
decode_range(k, bs) ==
    Then(Take(bs, 1), LAMBDA flag, r1 :
         IF HasFlag(flag[1], EMPTY_FLAG) THEN (IF r1 = <<>> THEN Ok(EmptyRange) ELSE Err)
         ELSE Then(decode_bound(k, r1, HasFlag(flag[1], 8), HasFlag(flag[1], 2)), LAMBDA lo, r2 :
              Then(decode_bound(k, r2, HasFlag(flag[1], 16), HasFlag(flag[1], 4)), LAMBDA hi, r3 :
                   IF r3 = <<>> THEN Ok(<<lo, hi>>) ELSE Err)))

RangeInner(k) == binary_scalar(k) /\ k \in RangeKinds
RangeEncode(k, r) == IF ~RangeInner(k) THEN Err
                     ELSE Map(encode_range(k, r), LAMBDA bs : <<Slot(bs)>>)
RangeDecode(k, cell) == OfCell(cell, LAMBDA bs : IF RangeInner(k) THEN decode_range(k, bs) ELSE Err)

\* multirange: a count, then each range with its size.
MultirangeEncode(k, rs) ==
    LET enc == [i \in DOMAIN rs |-> encode_range(k, rs[i])]
    IN  IF ~RangeInner(k) \/ \E i \in DOMAIN rs : ~enc[i].ok THEN Err
        ELSE Ok(<<Slot(BigEndian(Len(rs), W32)
                       \o FlattenSeq([i \in DOMAIN rs |-> Sized(<<enc[i].v>>)]))>>)
MultirangeDecode(k, cell) ==
    OfCell(cell, LAMBDA bs :
        IF ~RangeInner(k) THEN Err
        ELSE Then(ReadSigned(bs, W32), LAMBDA count, r1 :
             Then(Times(count, ReadSized, r1), LAMBDA cells, r2 :
                  LET rs == [i \in DOMAIN cells |-> IF cells[i] = NULL THEN Err
                                                    ELSE decode_range(k, cells[i][1])]
                  IN  IF count < 0 \/ r2 # <<>> \/ \E i \in DOMAIN rs : ~rs[i].ok THEN Err
                      ELSE Ok([i \in DOMAIN rs |-> rs[i].v]))))

(***************************************************************************)
(* Column codecs and rows.                                                 *)
(***************************************************************************)
ColumnEncode(c, v) ==
    CASE c.in = "plain"    -> ScalarEncode(c.k, v)
      [] c.in = "nullable" -> NullableEncode(ScalarSlots(c.k), v, LAMBDA x : ScalarEncode(c.k, x))
      [] c.in = "array"    -> ArrayEncode(c.k, FALSE, v)
      [] c.in = "nullable array" -> ArrayEncode(c.k, TRUE, v)
      [] c.in = "range"    -> RangeEncode(c.k, v)
      [] c.in = "multirange" -> MultirangeEncode(c.k, v)
ColumnDecode(c, cell) ==
    CASE c.in = "plain"    -> ScalarDecode(c.k, cell)
      [] c.in = "nullable" -> NullableDecode(<<cell>>, LAMBDA cs : ScalarDecode(c.k, cs[1]))
      [] c.in = "array"    -> ArrayDecode(c.k, FALSE, cell)
      [] c.in = "nullable array" -> ArrayDecode(c.k, TRUE, cell)
      [] c.in = "range"    -> RangeDecode(c.k, cell)
      [] c.in = "multirange" -> MultirangeDecode(c.k, cell)
ColumnFormats(c) == IF c.in \in {"plain", "nullable"} THEN ScalarFormats(c.k) ELSE <<BINARY>>
ColumnSlots(c)   == IF c.in \in {"plain", "nullable"} THEN ScalarSlots(c.k) ELSE 1

\* tuple_codec!: the slots, format codes and OIDs of the parts, in order.
TupleSlots(cols) == FoldLeft(LAMBDA n, c : n + ColumnSlots(c), 0, cols)
TupleFormats(cols) == FlattenSeq([i \in DOMAIN cols |-> ColumnFormats(cols[i])])
TupleEncode(cols, v) ==
    LET parts == [i \in DOMAIN cols |-> ColumnEncode(cols[i], v[i])]
    IN  IF \E i \in DOMAIN parts : ~parts[i].ok THEN Err
        ELSE Ok(FlattenSeq([i \in DOMAIN parts |-> parts[i].v]))
TupleDecode(cols, cells) ==
    LET parts == [i \in DOMAIN cols |-> ColumnDecode(cols[i], cells[i])]
    IN  IF Len(cells) < Len(cols) \/ \E i \in DOMAIN cols : ~parts[i].ok THEN Err
        ELSE Ok([i \in DOMAIN cols |-> parts[i].v])
RowEncode(row, v) ==
    LET encode(x) == TupleEncode(row.cols, x)
    IN  IF row.opt THEN NullableEncode(TupleSlots(row.cols), v, encode) ELSE encode(v)
RowDecode(row, cells) ==
    LET decode(cs) == TupleDecode(row.cols, cs)
    IN  IF row.opt THEN NullableDecode(cells, decode) ELSE decode(cells)

(***************************************************************************)
(* Bind: how the server matches format codes with slots (external).  None  *)
(* is text for all, one is that one for all, otherwise one for each.       *)
(***************************************************************************)
FormatOf(formats, n, i) == CASE formats = <<>> -> TEXTUAL
                             [] Len(formats) = 1 -> formats[1]
                             [] OTHER -> formats[i]
BindAccepted(formats, n) == Len(formats) \in {0, 1, n}
ExpectedFormat(c) == IF c.in \in {"plain", "nullable"} /\ ScalarFormats(c.k) = <<>>
                     THEN TEXTUAL ELSE ColumnFormats(c)[1]

(***************************************************************************)
(* Fragments: SQL is a text, a sequence of pieces: a `$N' [ph], whoever    *)
(* wrote it, or other text [lit], of ASCII characters ("ascii") or not     *)
(* ("wide").  The encoder is the row of column codecs that feeds the       *)
(* placeholders.                                                           *)
(***************************************************************************)
Placeholder(n) == [ph |-> n]
IsPlaceholder(piece) == "ph" \in DOMAIN piece

Lit(sql) == [sql |-> sql, cols |-> <<>>, n |-> 0]
append_lit(f, piece) == [f EXCEPT !.sql = Append(@, piece)]
\* bind: the next number, whatever the codec's slots.
bind(f, c) == [sql |-> Append(f.sql, Placeholder(f.n + 1)),
               cols |-> Append(f.cols, c), n |-> f.n + 1]
\* The right operand's placeholders left as they are.
renumber_placeholdersNever(sql, offset) == sql
\* renumber_placeholders: a scan for `$N', so every one is shifted; it copies
\* byte by byte (`bytes[i] as char'), so what is not ASCII comes out as other
\* characters.  The text is left alone when nothing is shifted.
Copied(text) == IF text = "ascii" THEN text ELSE "mangled"
renumber_placeholders(sql, offset) ==
    IF offset = 0 THEN sql
    ELSE [i \in DOMAIN sql |-> IF IsPlaceholder(sql[i]) THEN Placeholder(sql[i].ph + offset)
                               ELSE [lit |-> Copied(sql[i].lit)]]
plus(f, g) == [sql |-> f.sql \o renumber_placeholders(g.sql, f.n),
               cols |-> f.cols \o g.cols, n |-> f.n + g.n]
==============================================================================
