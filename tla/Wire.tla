-------------------------------- MODULE Wire ---------------------------------
(***************************************************************************)
(* The byte-level protocol: the framing and the bodies of backend messages *)
(* (protocol/codec.rs), the payload of a binary COPY (copy.rs), and the    *)
(* DER reader that finds the signature algorithm of the server's           *)
(* certificate (tls.rs).  Everything here is a function of bytes.          *)
(***************************************************************************)
EXTENDS Bytes

\* read_cstr: a NUL-terminated UTF-8 string.
ReadCstr(bs) ==
    LET nul == Position(bs, NUL)
    IN  IF nul = 0 \/ ~IsText(Upto(bs, nul - 1)) THEN Err
        ELSE Got(Upto(bs, nul - 1), Skip(bs, nul))

\* read_i16 for a count of elements, which may not be negative.
ReadCount(bs) == Then(ReadSigned(bs, W16), LAMBDA n, rest :
                      IF n < 0 THEN Err ELSE Got(n, rest))

Read32(bs) == ReadSigned(bs, W32)
ReadU32(bs) == ReadUnsigned(bs, W32)

\* One field of a RowDescription: its name, two OIDs, sizes and the format.
ReadField(bs) ==
    Then(ReadCstr(bs), LAMBDA name, r1 :
    Then(ReadU32(r1), LAMBDA table, r2 :
    Then(ReadSigned(r2, W16), LAMBDA column, r3 :
    Then(ReadU32(r3), LAMBDA type, r4 :
    Then(ReadSigned(r4, W16), LAMBDA size, r5 :
    Then(Read32(r5), LAMBDA modifier, r6 :
    Then(ReadSigned(r6, W16), LAMBDA format, r7 :
         Got(<<name, table, column, type, size, modifier, format>>, r7))))))))

\* One column of a DataRow: length -1 is NULL.
ReadColumn(bs) ==
    Then(Read32(bs), LAMBDA len, rest :
         CASE len = -1 -> Got(<<>>, rest)
           [] len < -1 -> Err
           [] OTHER    -> Then(Take(rest, len), LAMBDA v, left : Got(<<v>>, left)))

\* read_error_fields: (code, string) pairs up to a NUL code.  The loop is a
\* function of the bytes read so far, as many times as there are bytes.
ReadErrorFields(bs) ==
    LET loop[n \in 0..Len(bs)] ==
          \* loop[n]: what the last n bytes read as.
          LET at == Skip(bs, Len(bs) - n)
          IN  IF n = 0 THEN Err
              ELSE IF at[1] = NUL THEN Got(<<>>, Skip(at, 1))
              ELSE Then(ReadCstr(Skip(at, 1)), LAMBDA v, rest :
                   Then(loop[Len(rest)], LAMBDA more, left :
                        Got(<<<<at[1], v>>>> \o more, left)))
    IN  loop[Len(bs)]

\* The list of SASL mechanisms: strings, then an empty one.
ReadMechanisms(bs) ==
    LET loop[n \in 0..Len(bs)] ==
          LET at == Skip(bs, Len(bs) - n)
          IN  IF n = 0 THEN Err
              ELSE IF at[1] = NUL THEN Got(<<>>, at)
              ELSE Then(ReadCstr(at), LAMBDA v, rest :
                   Then(loop[Len(rest)], LAMBDA more, left :
                        Got(<<v>> \o more, left)))
    IN  loop[Len(bs)]

Message(m, f) == [m |-> m, f |-> f]
Body(m, r) == Map(r, LAMBDA v : Message(m, v))

decode_auth(code, bs) ==
    CASE code = 0  -> Ok(Message("AuthOk", <<>>))
      [] code = 3  -> Ok(Message("Cleartext", <<>>))
      [] code = 5  -> IF Len(bs) # 4 THEN Err ELSE Ok(Message("Md5", bs))
      [] code = 10 -> Body("Sasl", ReadMechanisms(bs))
      [] code = 11 -> Ok(Message("SaslContinue", bs))
      [] code = 12 -> Ok(Message("SaslFinal", bs))
      [] OTHER     -> Ok(Message("AuthUnsupported", code))

\* Repeated elements after a count.
Counted(bs, R(_)) == Then(ReadCount(bs), LAMBDA n, rest : Times(n, R, rest))

\* The tags, which the program has as ASCII letters.
Tag == [R |-> 1, S |-> 2, K |-> 3, Z |-> 4, T |-> 5, D |-> 6, G |-> 7,
        C |-> 8, I |-> 9, E |-> 10, N |-> 11, p |-> 12, b |-> 13,
        c |-> 14, n |-> 15, t |-> 16, s |-> 17]

\* The messages that carry nothing, whatever their body holds.
Bare == Tag.I :> "EmptyQuery" @@ Tag.p :> "ParseComplete"
        @@ Tag.b :> "BindComplete" @@ Tag.c :> "CloseComplete"
        @@ Tag.n :> "NoData" @@ Tag.s :> "PortalSuspended"

\* decode_body: bytes left over in a body are ignored, an unknown tag is kept
\* as it is.
decode_body(tag, bs) ==
    CASE tag = Tag.R -> LET code == Read32(bs)
                        IN  IF code.ok THEN decode_auth(code.v, code.rest) ELSE Err
      [] tag = Tag.S -> Body("ParameterStatus", Times(2, ReadCstr, bs))
      [] tag = Tag.K -> Body("BackendKeyData", Times(2, Read32, bs))
      [] tag = Tag.Z -> Body("ReadyForQuery", Take(bs, 1))
      [] tag = Tag.T -> Body("RowDescription", Counted(bs, ReadField))
      [] tag = Tag.D -> Body("DataRow", Counted(bs, ReadColumn))
      [] tag = Tag.G -> Body("CopyIn", Then(Take(bs, 1), LAMBDA f, rest :
                                 Counted(rest, LAMBDA b : ReadSigned(b, W16))))
      [] tag = Tag.C -> Body("CommandComplete", ReadCstr(bs))
      [] tag = Tag.E -> Body("Error", ReadErrorFields(bs))
      [] tag = Tag.N -> Body("Notice", ReadErrorFields(bs))
      [] tag = Tag.t -> Body("ParameterDescription", Counted(bs, ReadU32))
      [] tag \in DOMAIN Bare -> Ok(Message(Bare[tag], <<>>))
      [] OTHER -> Ok(Message("Other", <<tag, bs>>))

(***************************************************************************)
(* decode: one message off the front of the buffer.  More |-> TRUE asks    *)
(* for more bytes; otherwise the frame leaves the buffer whether or not    *)
(* its body decodes.                                                       *)
(***************************************************************************)
NeedMore(buf) == [more |-> TRUE, buf |-> buf]
Frame(r, buf) == [more |-> FALSE, r |-> r, buf |-> buf]

\* decode as it would be if it took a frame as soon as its header is there.
decodeEager(buf) ==
    IF Len(buf) < 1 + W32 THEN NeedMore(buf)
    ELSE LET len == Unsigned(SubSeq(buf, 2, 1 + W32))
         IN  IF len < W32 THEN Frame(Err, buf)
             ELSE Frame(decode_body(buf[1], IF Len(buf) < 1 + len THEN Skip(buf, 1 + W32)
                                            ELSE SubSeq(buf, 2 + W32, 1 + len)),
                        Skip(buf, 1 + len))

decode(buf) ==
    IF Len(buf) < 1 + W32 THEN NeedMore(buf)
    ELSE LET len == Unsigned(SubSeq(buf, 2, 1 + W32))
         IN  IF len < W32 THEN Frame(Err, buf)
             ELSE IF Len(buf) < 1 + len THEN NeedMore(buf)
             ELSE Frame(decode_body(buf[1], SubSeq(buf, 2 + W32, 1 + len)),
                        Skip(buf, 1 + len))

\* The reader's loop (startup.rs and driver.rs): decode until more is needed
\* or a message fails.  Every frame is at least one header long.
Drain(buf, out) ==
    LET turns == Len(buf) \div (1 + W32)
        step(st, i) == IF ~st.ok THEN st
                       ELSE LET d == decode(st.buf)
                            IN  IF d.more THEN st
                                ELSE IF ~d.r.ok THEN [st EXCEPT !.ok = FALSE]
                                ELSE [st EXCEPT !.buf = d.buf,
                                                !.out = Append(@, d.r.v)]
    IN  FoldLeft(step, [ok |-> TRUE, buf |-> buf, out |-> out],
                 [i \in 1..turns |-> i])

\* The same bytes, arriving in the chunks given.
Arrive(chunks) ==
    FoldLeft(LAMBDA st, chunk : IF ~st.ok THEN st ELSE Drain(st.buf \o chunk, st.out),
             [ok |-> TRUE, buf |-> <<>>, out |-> <<>>], chunks)

(***************************************************************************)
(* The server's side (external): how the messages are written.             *)
(***************************************************************************)
Cstr(s) == s \o <<NUL>>
Framed(tag, body) == <<tag>> \o BigEndian(Len(body) + W32, W32) \o body
WireColumn(v) == IF v = <<>> THEN BigEndian(-1, W32)
             ELSE BigEndian(Len(v[1]), W32) \o v[1]
WireRow(vs) == BigEndian(Len(vs), W16) \o FlattenSeq([i \in DOMAIN vs |-> WireColumn(vs[i])])

(***************************************************************************)
(* COPY ... FROM STDIN BINARY (copy.rs).  A row is a sequence of fields,   *)
(* a field a value <<bytes>> or NULL <<>>.  The header is abstract: its    *)
(* signature is one chunk.                                                 *)
(***************************************************************************)
CopyHeader == <<BSLASH, NUL>> \o BigEndian(0, W32) \o BigEndian(0, W32)
CopyTrailer == BigEndian(-1, W16)

\* A row encoder that says what it produces: its OIDs, its format codes and
\* the fields of one value.
CopyCapable(encoder) ==
    \A i \in DOMAIN encoder.oids :
        i \in DOMAIN encoder.formats /\ encoder.formats[i] = 1

encode_fields(fields) ==
    IF ~IsSigned(Len(fields), W16) \/ \E i \in DOMAIN fields :
          fields[i] # <<>> /\ ~IsSigned(Len(fields[i][1]), W32)
    THEN Err ELSE Ok(WireRow(fields))

encode_row(encoder, fields) ==
    IF ~CopyCapable(encoder) \/ Len(fields) # Len(encoder.oids) THEN Err
    ELSE encode_fields(fields)

\* encode_rows: the first row that fails fails the whole payload.
encode_rows(encoder, rows) ==
    LET enc == [i \in DOMAIN rows |-> encode_row(encoder, rows[i])]
    IN  IF \E i \in DOMAIN rows : ~enc[i].ok THEN Err
        ELSE Ok(<<CopyHeader>> \o [i \in DOMAIN rows |-> enc[i].v] \o <<CopyTrailer>>)

\* What the server makes of the concatenated payload (external): rows until
\* the count is -1.
ServerReads(payload) ==
    LET body == Skip(payload, Len(CopyHeader))
        loop[n \in 0..Len(body)] ==
          LET at == Skip(body, Len(body) - n)
          IN  Then(ReadSigned(at, W16), LAMBDA count, rest :
                IF count = -1 THEN Got(<<>>, rest)
                ELSE IF count < 0 THEN Err
                ELSE Then(Times(count, ReadColumn, rest), LAMBDA row, left :
                     Then(loop[Len(left)], LAMBDA more, end :
                          Got(<<row>> \o more, end))))
    IN  loop[Len(body)]

(***************************************************************************)
(* DER (tls.rs): tag, length, body; a length of one byte below half its    *)
(* range, or the number of bytes that hold it.                             *)
(***************************************************************************)
Half == Octet \div 2
SEQUENCE == 48
OBJECT_ID == 6

read_len(bs) ==
    Then(Take(bs, 1), LAMBDA first, rest :
         IF first[1] < Half THEN Got(first[1], rest)
         ELSE LET octets == first[1] - Half
              IN  IF octets = 0 \/ octets > W64 THEN Err
                  ELSE ReadUnsigned(rest, octets))

read_any(bs) ==
    Then(Take(bs, 1), LAMBDA tag, rest :
    Then(read_len(rest), LAMBDA len, left :
    Then(Take(left, len), LAMBDA body, end : Got(<<tag[1], body>>, end))))

read_tlv(bs, tag) ==
    Then(read_any(bs), LAMBDA v, rest :
         IF v[1] # tag THEN Err ELSE Got(v[2], rest))

certificate_signature_algorithm_oid(der) ==
    Then(read_tlv(der, SEQUENCE), LAMBDA cert, r1 :
    Then(read_any(cert), LAMBDA tbs, r2 :
    Then(read_tlv(r2, SEQUENCE), LAMBDA algorithm, r3 :
    Then(read_tlv(algorithm, OBJECT_ID), LAMBDA oid, r4 : Ok(oid)))))

\* A DER element as the certificate's issuer writes it (external): the
\* shortest length that fits.
DerElement(tag, body) ==
    LET n == Len(body)
    IN  <<tag>> \o (IF n < Half THEN <<n>> ELSE <<Half + W16>> \o BigEndian(n, W16))
        \o body
==============================================================================
