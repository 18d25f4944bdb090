------------------------------ MODULE SqlSource ------------------------------
(***************************************************************************)
(* The scanner of the typed SQL macros (typed_sql/source.rs): named        *)
(* placeholders become numbered slots, the `?' of an optional group is     *)
(* taken out, and what is quoted or commented is left alone.               *)
(*                                                                         *)
(* A text is a sequence of characters.  The character "W" stands for a     *)
(* clause keyword and the space after it, "~" for an end of line.          *)
(***************************************************************************)
EXTENDS Naturals, Sequences, FiniteSets, SequencesExt, Results

IdentStart == {"a", "b"}
Digits     == {"1"}
IdentContinue == IdentStart \cup Digits
At(sql, i) == IF i \in DOMAIN sql THEN sql[i] ELSE "end"

\* What the scan has made so far: `out' is the canonical text, an element with
\* slot # 0 being a whole placeholder; `names' the name of every slot; `occ'
\* the placeholders met; `parens' the open parentheses (place in the text and
\* in `out'); `groups' the optional groups as [from, to] of `out'.
Scanner == [i |-> 1, mode |-> "normal", depth |-> 0, ok |-> TRUE, out |-> <<>>,
            names |-> <<>>, occ |-> <<>>, parens |-> <<>>, groups |-> <<>>]

Push(st, chars) == [st EXCEPT !.out = @ \o [k \in DOMAIN chars |-> [ch |-> chars[k], slot |-> 0]],
                              !.i = @ + Len(chars)]
Enter(st, mode) == [st EXCEPT !.mode = mode]

\* A slot for every occurrence.
ReadPlaceholderAnew(sql, st) ==
    LET end == CHOOSE j \in (st.i + 2)..(Len(sql) + 1) :
                   /\ At(sql, j) \notin IdentContinue
                   /\ \A k \in (st.i + 2)..(j - 1) : sql[k] \in IdentContinue
        name == SubSeq(sql, st.i + 1, end - 1)
        optional == At(sql, end) = "?"
    IN  [st EXCEPT !.i = IF optional THEN end + 1 ELSE end,
                   !.names = Append(@, name),
                   !.occ = Append(@, [name |-> name, optional |-> optional]),
                   !.out = Append(@, [ch |-> "$", slot |-> Len(st.names) + 1])]

\* A placeholder: the name as far as it goes, a `?' after it, and the slot of
\* the name, a new one if it is the first time.
ReadPlaceholder(sql, st) ==
    LET end == CHOOSE j \in (st.i + 2)..(Len(sql) + 1) :
                   /\ At(sql, j) \notin IdentContinue
                   /\ \A k \in (st.i + 2)..(j - 1) : sql[k] \in IdentContinue
        name == SubSeq(sql, st.i + 1, end - 1)
        optional == At(sql, end) = "?"
        known == SelectInSeq(st.names, LAMBDA n : n = name)
        slot == IF known = 0 THEN Len(st.names) + 1 ELSE known
    IN  [st EXCEPT !.i = IF optional THEN end + 1 ELSE end,
                   !.names = IF known = 0 THEN Append(@, name) ELSE @,
                   !.occ = Append(@, [name |-> name, optional |-> optional]),
                   !.out = Append(@, [ch |-> "$", slot |-> slot])]

\* A closing parenthesis, which a `?' makes the end of an optional group; a
\* group may not begin with a clause keyword.
Close(sql, st) ==
    LET frame == IF st.parens = <<>> THEN [src |-> st.i, out |-> Len(st.out) + 1] ELSE Last(st.parens)
        next == [Push(st, <<")">>) EXCEPT !.parens = IF @ = <<>> THEN @ ELSE Front(@)]
        inner == SelectSeq(SubSeq(sql, frame.src + 1, st.i), LAMBDA c : c # " ")
    IN  IF At(sql, st.i + 1) # "?" THEN next
        ELSE IF inner # <<>> /\ inner[1] = "W" THEN [st EXCEPT !.ok = FALSE]
        ELSE [next EXCEPT !.i = @ + 1,
                          !.groups = Append(@, [from |-> frame.out, to |-> Len(next.out)])]

Normal(sql, st) ==
    LET c == sql[st.i]
        next == At(sql, st.i + 1)
    IN  CASE c \in {"'", "\""} -> Enter(Push(st, <<c>>), c)
          [] c = "-" /\ next = "-" -> Enter(Push(st, <<"-", "-">>), "line")
          [] c = "/" /\ next = "*" -> [Enter(Push(st, <<"/", "*">>), "block") EXCEPT !.depth = 1]
          [] c = "$" /\ next \in Digits -> [st EXCEPT !.ok = FALSE]
          [] c = "$" /\ next \in IdentStart -> ReadPlaceholder(sql, st)
          [] c = "(" -> [Push(st, <<c>>) EXCEPT !.parens =
                             Append(@, [src |-> st.i, out |-> Len(st.out) + 1])]
          [] c = ")" -> Close(sql, st)
          [] OTHER -> Push(st, <<c>>)

\* A doubled quote does not end the literal.
InQuotes(sql, st) ==
    LET c == sql[st.i]
    IN  IF c # st.mode THEN Push(st, <<c>>)
        ELSE IF At(sql, st.i + 1) = c THEN Push(st, <<c, c>>)
        ELSE Enter(Push(st, <<c>>), "normal")

\* Block comments nest.
Comment(sql, st) ==
    LET c == sql[st.i]
        next == At(sql, st.i + 1)
    IN  CASE c = "/" /\ next = "*" -> [Push(st, <<c, next>>) EXCEPT !.depth = @ + 1]
          [] c = "*" /\ next = "/" ->
                 [Push(st, <<c, next>>) EXCEPT !.depth = @ - 1,
                      !.mode = IF st.depth = 1 THEN "normal" ELSE @]
          [] OTHER -> Push(st, <<c>>)

canonicalize_parts(sql) ==
    FoldLeft(LAMBDA st, n :
                 IF ~st.ok \/ st.i > Len(sql) THEN st
                 ELSE CASE st.mode = "normal" -> Normal(sql, st)
                        [] st.mode \in {"'", "\""} -> InQuotes(sql, st)
                        [] st.mode = "line" -> Enter(Push(st, <<sql[st.i]>>),
                                                 IF sql[st.i] = "~" THEN "normal" ELSE "line")
                        [] st.mode = "block" -> Comment(sql, st),
             Scanner, [n \in DOMAIN sql |-> n])

(***************************************************************************)
(* Reading the canonical text back: every placeholder by its name, every   *)
(* optional marker where it was.                                           *)
(***************************************************************************)
Restored(st) ==
    LET nth(k) == Cardinality({j \in 1..k : st.out[j].slot # 0})
        mark(k) == IF \E g \in ToSet(st.groups) : g.to = k THEN <<"?">> ELSE <<>>
    IN  FlattenSeq([k \in DOMAIN st.out |->
            IF st.out[k].slot = 0 THEN <<st.out[k].ch>> \o mark(k)
            ELSE LET o == st.occ[nth(k)]
                 IN  <<"$">> \o st.names[st.out[k].slot] \o (IF o.optional THEN <<"?">> ELSE <<>>)])
==============================================================================
