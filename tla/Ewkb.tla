-------------------------------- MODULE Ewkb ---------------------------------
(***************************************************************************)
(* The PostGIS codecs (codec/postgis.rs): geometry and geography values as *)
(* EWKB.  A geometry is [t, g]: a Point's g is a coordinate <<x, y>> of two *)
(* f64 (their bytes, most significant first), a LineString's a sequence of *)
(* coordinates, a Polygon's <<exterior, interior, ...>>, and the g of a    *)
(* Multi shape is the sequence of its parts' g.  A spatial value is        *)
(* [srid, shape], srid <<>> or <<n>>.                                      *)
(***************************************************************************)
EXTENDS Codecs

TypeId == [Point |-> 1, LineString |-> 2, Polygon |-> 3, MultiPoint |-> 4,
           MultiLineString |-> 5, MultiPolygon |-> 6, GeometryCollection |-> 7]
PartOf == [MultiPoint |-> "Point", MultiLineString |-> "LineString",
           MultiPolygon |-> "Polygon"]

\* The flags are the upper bits of the type id, the type its lower half.
EWKB_Z_FLAG    == Limit(W32) \div 2
EWKB_M_FLAG    == Limit(W32) \div 4
EWKB_SRID_FLAG == Limit(W32) \div 8
EWKB_TYPE(id)  == id % Limit(W32 - W16)
Flagged(id, f) == (id \div f) % 2 = 1

\* geo_types::Polygon::new closes a ring that is not closed (external).
ClosedRing(ring) == IF ring # <<>> /\ ring[1] # Last(ring) THEN Append(ring, ring[1]) ELSE ring

(***************************************************************************)
(* Writing: always little-endian; the SRID only at the top.                *)
(***************************************************************************)
write_u32(n) == LittleEndian(n, W32)
write_point(c) == Reverse(c[1]) \o Reverse(c[2])
write_line_string(l) == write_u32(Len(l)) \o FlattenSeq([i \in DOMAIN l |-> write_point(l[i])])
write_polygon(p) == write_u32(Len(p)) \o FlattenSeq([i \in DOMAIN p |-> write_line_string(p[i])])

RECURSIVE write_geometry(_, _)
write_geometry(shape, srid) ==
    IF shape.t = "GeometryCollection" THEN Err
    ELSE Ok(<<1>> \o write_u32(TypeId[shape.t] + (IF srid = <<>> THEN 0 ELSE EWKB_SRID_FLAG))
            \o (IF srid = <<>> THEN <<>> ELSE write_u32(srid[1]))
            \o CASE shape.t = "Point"      -> write_point(shape.g)
                 [] shape.t = "LineString" -> write_line_string(shape.g)
                 [] shape.t = "Polygon"    -> write_polygon(shape.g)
                 [] OTHER -> write_u32(Len(shape.g))
                             \o FlattenSeq([i \in DOMAIN shape.g |->
                                   write_geometry([t |-> PartOf[shape.t], g |-> shape.g[i]], <<>>).v]))

(***************************************************************************)
(* Reading: either byte order, at every level.                             *)
(***************************************************************************)
Ordered(little, bs) == IF little THEN Reverse(bs) ELSE bs
read_u32(bs, little) == Then(Take(bs, W32), LAMBDA b, rest : Got(Unsigned(Ordered(little, b)), rest))
read_i32(bs, little) == Then(Take(bs, W32), LAMBDA b, rest : Got(Signed(Ordered(little, b)), rest))
read_f64(bs, little) == Then(Take(bs, W64), LAMBDA b, rest : Got(Ordered(little, b), rest))
read_point(bs, little) ==
    Then(read_f64(bs, little), LAMBDA x, r1 :
    Then(read_f64(r1, little), LAMBDA y, r2 : Got(<<x, y>>, r2)))
\* A count cannot be met by fewer bytes than elements: the loop then fails.
ReadMany(bs, little, R(_)) ==
    Then(read_u32(bs, little), LAMBDA n, rest : IF n > Len(rest) THEN Err ELSE Times(n, R, rest))
read_line_string(bs, little) == ReadMany(bs, little, LAMBDA b : read_point(b, little))
\* No ring at all is an empty polygon, whose exterior is the empty ring.
read_polygon(bs, little) ==
    Then(ReadMany(bs, little, LAMBDA b : read_line_string(b, little)), LAMBDA rings, rest :
         Got(IF rings = <<>> THEN <<<<>>>> ELSE [i \in DOMAIN rings |-> ClosedRing(rings[i])], rest))

RECURSIVE read_geometry(_)
read_multi(bs, little, part) ==
    ReadMany(bs, little, LAMBDA b : Then(read_geometry(b), LAMBDA nested, rest :
        IF nested.srid # <<>> \/ nested.shape.t # part THEN Err ELSE Got(nested.shape.g, rest)))
ReadShape(t, bs, little) ==
    CASE t = "Point"      -> read_point(bs, little)
      [] t = "LineString" -> read_line_string(bs, little)
      [] t = "Polygon"    -> read_polygon(bs, little)
      [] t \in DOMAIN PartOf -> read_multi(bs, little, PartOf[t])
      [] OTHER -> Err
ReadSrid(id, bs, little) ==
    IF ~Flagged(id, EWKB_SRID_FLAG) THEN Got(<<>>, bs)
    ELSE Then(read_i32(bs, little), LAMBDA n, rest : IF n < 0 THEN Err ELSE Got(<<n>>, rest))
read_geometry(bs) ==
    Then(Take(bs, 1), LAMBDA endian, r1 :
    IF endian[1] \notin {0, 1} THEN Err
    ELSE LET little == endian[1] = 1 IN
    Then(read_u32(r1, little), LAMBDA id, r2 :
    IF Flagged(id, EWKB_Z_FLAG) \/ Flagged(id, EWKB_M_FLAG) THEN Err
    ELSE Then(ReadSrid(id, r2, little), LAMBDA srid, r3 :
         LET ts == {t \in DOMAIN TypeId : TypeId[t] = EWKB_TYPE(id)} IN
         IF ts = {} THEN Err
         ELSE LET t == CHOOSE u \in ts : TRUE
              IN  Then(ReadShape(t, r3, little), LAMBDA g, r4 :
                       Got([srid |-> srid, shape |-> [t |-> t, g |-> g]], r4)))))

\* decode_spatial: the whole column, nothing after it.
encode_spatial(v) == Map(write_geometry(v.shape, v.srid), Slot)
decode_spatial(cell) ==
    OfCell(cell, LAMBDA bs : LET r == read_geometry(bs)
                             IN  IF r.ok /\ r.rest = <<>> THEN Ok(r.v) ELSE Err)
\* try_from_geometry: a codec of one shape takes that shape only.
try_from_geometry(t, r) == IF r.ok /\ t # "any" /\ r.v.shape.t # t THEN Err ELSE r

(***************************************************************************)
(* What a server may send (external): any byte order at any level.         *)
(***************************************************************************)
Ends(endian, n) == IF endian = 1 THEN LittleEndian(n, W32) ELSE BigEndian(n, W32)
ServerPoint(endian, flag, c) == <<endian>> \o Ends(endian, TypeId.Point + flag)
                                \o Ordered(endian = 1, c[1]) \o Ordered(endian = 1, c[2])
==============================================================================
