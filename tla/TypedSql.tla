------------------------------- MODULE TypedSql ------------------------------
(***************************************************************************)
(* The typed SQL compiler of the macros crate: from a parsed statement to  *)
(* the SQL and the parameters that are sent at run time.                   *)
(*   normalize.rs  the supported subset; who owns `$v?' and `(...)?'        *)
(*   resolver.rs   names, the nullability of joins, the types of            *)
(*                 placeholders                                            *)
(*   lower.rs      one SQL text for each combination of the optional        *)
(*                 inputs, with its placeholders renumbered                *)
(* The SQL parser is sqlparser's and external: a statement starts here as  *)
(* a syntax tree.  An expression is a record with k one of "col" [b, c],   *)
(* "ph" [name, optional], "lit" [v, text], "cmp" [l, r], "and" and "or"     *)
(* [l, r], "not", "neg" and "isnull" [e], "paren" [e, optional].  The text   *)
(* of a string literal is a sequence of parts: <<"ascii">>, <<"wide">> (not  *)
(* ASCII) and <<"$", n>>, a `$' with digits.  A statement is                 *)
(* [kind, from, joins, outs, sets, filter, order, limit]: from is <<alias,   *)
(* table>>, a join [kind, from, on], outs the projections or RETURNING      *)
(* items [e, alias], sets the assignments (UPDATE) or the target columns    *)
(* and values (INSERT, its VALUES row after row, each of as many values as  *)
(* there are target columns) <<column, e>>; filter, order and limit are      *)
(* sequences of expressions, filter and limit of at most one (an OFFSET is  *)
(* treated as a LIMIT is).                                                  *)
(***************************************************************************)
EXTENDS Integers, Sequences, FiniteSets, SequencesExt, FiniteSetsExt, Results

CONSTANT Tables     \* table -> column -> [type, nullable]: the schema declared

None == <<>>

(***************************************************************************)
(* The parser (external).  Every leaf and every keyword, operator and       *)
(* parenthesis is one character wide; the span of a parenthesised or unary  *)
(* expression is that of its operand, as sqlparser has it.                 *)
(***************************************************************************)
RECURSIVE TextWidth(_)
TextWidth(e) == CASE e.k \in {"col", "ph", "lit"} -> 1
                  [] e.k \in {"cmp", "and", "or"} -> TextWidth(e.l) + 1 + TextWidth(e.r)
                  [] e.k \in {"not", "neg", "isnull"} -> TextWidth(e.e) + 1
                  [] e.k = "paren" -> TextWidth(e.e) + 2
\* Where the operand(s) of an expression at `at' begin.
Inner(e, at) == IF e.k = "isnull" THEN at ELSE at + 1
Right(e, at) == at + TextWidth(e.l) + 1
RECURSIVE ParserSpan(_, _)
ParserSpan(e, at) ==
    CASE e.k \in {"col", "ph", "lit"} -> <<at, at>>
      [] e.k \in {"cmp", "and", "or"} -> <<ParserSpan(e.l, at)[1], ParserSpan(e.r, Right(e, at))[2]>>
      [] OTHER -> ParserSpan(e.e, Inner(e, at))
\* optional_groups: the spans of the `(...)?', in the order they close.
RECURSIVE Groups(_, _)
Groups(e, at) ==
    CASE e.k \in {"col", "ph", "lit"} -> <<>>
      [] e.k \in {"cmp", "and", "or"} -> Groups(e.l, at) \o Groups(e.r, Right(e, at))
      [] e.k = "paren" /\ e.optional ->
             Groups(e.e, at + 1) \o << <<at, at + TextWidth(e) - 1>> >>
      [] OTHER -> Groups(e.e, Inner(e, at))
\* The names of the placeholders, in the order of the text.
RECURSIVE Names(_)
Names(e) == CASE e.k \in {"col", "lit"} -> <<>>
              [] e.k = "ph" -> <<e.name>>
              [] e.k \in {"cmp", "and", "or"} -> Names(e.l) \o Names(e.r)
              [] OTHER -> Names(e.e)

\* The expressions of a statement in the order of its text.
OutExprs(s) == [i \in DOMAIN s.outs |-> s.outs[i].e]
Exprs(s) == (IF s.kind = "select" THEN OutExprs(s) ELSE <<>>) \o [i \in DOMAIN s.joins |-> s.joins[i].on]
            \o [i \in DOMAIN s.sets |-> s.sets[i][2]] \o s.filter \o s.order \o s.limit
            \o (IF s.kind = "select" THEN <<>> ELSE OutExprs(s))
\* How many of them precede each clause.
Before(s) ==
    LET joins == IF s.kind = "select" THEN Len(s.outs) ELSE 0
        sets == joins + Len(s.joins)
        filter == sets + Len(s.sets)
        order == filter + Len(s.filter)
        limit == order + Len(s.order)
    IN  [outs |-> IF s.kind = "select" THEN 0 ELSE limit + Len(s.limit), joins |-> joins, sets |-> sets,
         filter |-> filter, order |-> order, limit |-> limit]
\* slot: the names of a statement are numbered as they first appear.
Distinct(names) == FoldLeft(LAMBDA seen, n : IF n \in ToSet(seen) THEN seen ELSE Append(seen, n),
                            <<>>, names)
SlotNames(s) == Distinct(FlattenSeq([i \in DOMAIN Exprs(s) |-> Names(Exprs(s)[i])]))

(***************************************************************************)
(* normalize.rs.  Chains of AND and OR are flattened; an optional           *)
(* placeholder must be an operand of a comparison or all of a LIMIT, an     *)
(* optional group a predicate or an ORDER BY item.  The result of a group   *)
(* has its place as its id.                                                *)
(***************************************************************************)
allows_optional_placeholder(context) == context \in {"operand", "limit"}
allows_optional_group(context) == context \in {"predicate", "order"}
comparison_operand_context(context) ==
    IF context \in {"predicate", "operand", "nested"} THEN "operand" ELSE context
nested_value_context(context) == IF context \in {"operand", "nested"} THEN "nested" ELSE context

\* entry_for_canonical_span: the first group that contains the span.
GroupOf(groups, span) ==
    SelectSeq(groups, LAMBDA g : g[1] <= span[1] /\ span[2] <= g[2])

\* A normalised expression and the groups it has used.
Norm(e, used) == [ok |-> TRUE, e |-> e, used |-> used]

RECURSIVE normalize_expr(_, _, _, _)
RECURSIVE collect_bool_terms(_, _, _, _)
collect_bool_terms(e, at, op, groups) ==
    IF e.k = op THEN collect_bool_terms(e.l, at, op, groups)
                     \o collect_bool_terms(e.r, Right(e, at), op, groups)
    ELSE <<normalize_expr(e, at, "predicate", groups)>>

normalize_expr(e, at, context, groups) ==
    CASE e.k \in {"col", "lit"} -> Norm(e, {})
      [] e.k = "ph" -> IF e.optional /\ ~allows_optional_placeholder(context) THEN Err ELSE Norm(e, {})
      [] e.k \in {"not", "neg", "isnull"} ->
             LET n == normalize_expr(e.e, Inner(e, at), nested_value_context(context), groups)
             IN  IF n.ok THEN Norm([k |-> e.k, e |-> n.e], n.used) ELSE Err
      [] e.k \in {"and", "or"} ->
             LET ts == collect_bool_terms(e, at, e.k, groups)
             IN  IF \A i \in DOMAIN ts : ts[i].ok
                 THEN Norm([k |-> e.k, terms |-> [i \in DOMAIN ts |-> ts[i].e]],
                           UNION {ts[i].used : i \in DOMAIN ts})
                 ELSE Err
      [] e.k = "cmp" ->
             LET l == normalize_expr(e.l, at, comparison_operand_context(context), groups)
                 r == normalize_expr(e.r, Right(e, at), comparison_operand_context(context), groups)
             IN  IF l.ok /\ r.ok THEN Norm([k |-> "cmp", l |-> l.e, r |-> r.e], l.used \cup r.used)
                 ELSE Err
      [] e.k = "paren" ->
             LET n == normalize_expr(e.e, at + 1, context, groups)
                 group == GroupOf(groups, ParserSpan(e, at))
             IN  IF ~n.ok \/ group = <<>> THEN n
                 ELSE IF ~allows_optional_group(context) THEN Err
                 ELSE Norm([k |-> "group", id |-> at + TextWidth(e) - 1, e |-> n.e],
                           n.used \cup {group[1]})

\* One clause; reject_unconsumed_optional_groups.
Clause(e, at, context) ==
    LET groups == Groups(e, at)
        n == normalize_expr(e, at, context, groups)
    IN  IF n.ok /\ ToSet(groups) \subseteq n.used THEN Ok(n.e) ELSE Err

\* Each clause of a statement begins where it stands in the text.
ClauseAt(s, i) == FoldLeft(LAMBDA n, e : n + TextWidth(e) + 1, 1, SubSeq(Exprs(s), 1, i - 1))
Context(s, i) == LET before == Before(s)
                     in(clause, es) == i - before[clause] \in DOMAIN es
                 IN  CASE in("joins", s.joins) \/ in("filter", s.filter) -> "predicate"
                       [] in("order", s.order) -> "order"
                       [] in("limit", s.limit) -> "limit"
                       [] OTHER -> "projection"

\* UPDATE and DELETE need a WHERE, an INSERT has none.
normalize_statement(s) ==
    LET n == [i \in DOMAIN Exprs(s) |-> Clause(Exprs(s)[i], ClauseAt(s, i), Context(s, i))]
        before == Before(s)
        part(clause, es) == [i \in DOMAIN es |-> n[before[clause] + i].v]
        outs == part("outs", s.outs)
        ons == part("joins", s.joins)
        sets == part("sets", s.sets)
    IN  IF \/ \E i \in DOMAIN n : ~n[i].ok
           \/ s.kind \in {"update", "delete"} /\ s.filter = <<>>
        THEN Err
        ELSE Ok([s EXCEPT !.outs = [i \in DOMAIN s.outs |-> [s.outs[i] EXCEPT !.e = outs[i]]],
                          !.joins = [i \in DOMAIN s.joins |-> [s.joins[i] EXCEPT !.on = ons[i]]],
                          !.sets = [i \in DOMAIN s.sets |-> <<s.sets[i][1], sets[i]>>],
                          !.filter = part("filter", s.filter),
                          !.order = part("order", s.order),
                          !.limit = part("limit", s.limit)])

(***************************************************************************)
(* resolver.rs, names.  A scope gives each binding its table; a name is     *)
(* bound once, and the ON of a join sees the bindings up to it.             *)
(***************************************************************************)
Froms(s) == <<s.from>> \o [i \in DOMAIN s.joins |-> s.joins[i].from]
Scope(froms) == [a \in {froms[i][1] : i \in DOMAIN froms} |->
                     froms[CHOOSE i \in DOMAIN froms : froms[i][1] = a][2]]
resolve_from(froms) == /\ \A i \in DOMAIN froms : froms[i][2] \in DOMAIN Tables
                       /\ \A i, j \in DOMAIN froms : i # j => froms[i][1] # froms[j][1]
ScopeOfOn(s, i) == Scope(SubSeq(Froms(s), 1, i + 1))
Column(scope, e) == Tables[scope[e.b]][e.c]

RECURSIVE resolve_expr(_, _)
resolve_expr(e, scope) ==
    CASE e.k = "col" -> e.b \in DOMAIN scope /\ e.c \in DOMAIN Tables[scope[e.b]]
      [] e.k \in {"ph", "lit"} -> TRUE
      [] e.k = "cmp" -> resolve_expr(e.l, scope) /\ resolve_expr(e.r, scope)
      [] e.k \in {"and", "or"} -> \A i \in DOMAIN e.terms : resolve_expr(e.terms[i], scope)
      [] OTHER -> resolve_expr(e.e, scope)

resolve_names(s) ==
    /\ resolve_from(Froms(s))
    /\ \A i \in DOMAIN s.joins : resolve_expr(s.joins[i].on, ScopeOfOn(s, i))
    /\ LET scope == Scope(Froms(s))
       IN  /\ \A i \in DOMAIN s.outs : resolve_expr(s.outs[i].e, scope)
           /\ \A i \in DOMAIN s.sets : /\ s.sets[i][1] \in DOMAIN Tables[s.from[2]]
                                       /\ resolve_expr(s.sets[i][2], scope)
           /\ \A e \in ToSet(s.filter \o s.order \o s.limit) : resolve_expr(e, scope)

(***************************************************************************)
(* The nullability of the bindings: an outer join makes one or both of its *)
(* sides nullable.                                                         *)
(***************************************************************************)
with_binding(env, a, nullable) == [b \in DOMAIN env \cup {a} |-> IF b = a THEN nullable ELSE env[b]]
mark_all_nullable(env) == [b \in DOMAIN env |-> TRUE]

apply_join_nullability(kind, env, right) ==
    with_binding(IF kind \in {"right", "full"} THEN mark_all_nullable(env) ELSE env, right,
                 kind \in {"left", "full"})
\* The environment after the first n joins.
RowEnv(s, n) == FoldLeft(LAMBDA env, j : apply_join_nullability(j.kind, env, j.from[1]),
                         [b \in {s.from[1]} |-> FALSE], SubSeq(s.joins, 1, n))
\* An ON is evaluated on a row of both sides.
OnEnv(s, i) == with_binding(RowEnv(s, i - 1), s.joins[i].from[1], FALSE)

(***************************************************************************)
(* Types.  The value of an expression is of a concrete SQL type, of the    *)
(* type of a placeholder, or a literal of a kind.  Inference keeps, for    *)
(* every placeholder, the type found for it ("none" at first), whether it  *)
(* is nullable and whether it is optional; and the pairs of placeholders    *)
(* that are compared.  An error anywhere makes `ok' FALSE.                  *)
(***************************************************************************)
IntegerLike == {"int2", "int4", "int8"}
NumericLike == IntegerLike \cup {"float4", "float8", "numeric"}
TextLike    == {"text", "varchar"}
comparable_to(a, b) == a = b \/ {a, b} \subseteq TextLike \/ {a, b} \subseteq IntegerLike

Concrete(t) == [of |-> "type", is |-> t]
Named(n)    == [of |-> "ph", is |-> n]
literal_value_type(v) == IF v = "bool" THEN Concrete("bool") ELSE [of |-> "lit", is |-> v]
literal_compatible(t, v) == \/ v = "int" /\ t \in NumericLike
                            \/ v = "num" /\ t \in NumericLike \ IntegerLike
                            \/ v = "str" /\ t \in TextLike
literals_comparable(v, w) == v = w \/ {v, w} = {"int", "num"}

Inference(names) == [ok |-> TRUE, types |-> [n \in names |-> "none"],
                     nulls |-> [n \in names |-> FALSE], optional |-> {}, pending |-> <<>>]
Require(inf, fact) == [inf EXCEPT !.ok = @ /\ fact]
expect_placeholder(inf, n, type, nullable) ==
    [Require(inf, inf.types[n] \in {"none", type}) EXCEPT
        !.types[n] = IF @ = "none" THEN type ELSE @, !.nulls[n] = @ \/ nullable]
observe_placeholder(inf, e) == IF e.optional THEN [inf EXCEPT !.optional = @ \cup {e.name}] ELSE inf
relate_placeholders(inf, a, b) == IF a = b THEN inf ELSE [inf EXCEPT !.pending = Append(@, <<a, b>>)]

constrain_comparison(inf, l, r) ==
    CASE [of |-> "lit", is |-> "null"] \in {l.vt, r.vt} -> Require(inf, FALSE)
      [] l.vt.of = "type" /\ r.vt.of = "type" -> Require(inf, comparable_to(l.vt.is, r.vt.is))
      [] l.vt.of = "type" /\ r.vt.of = "ph" -> expect_placeholder(inf, r.vt.is, l.vt.is, l.nullable)
      [] l.vt.of = "ph" /\ r.vt.of = "type" -> expect_placeholder(inf, l.vt.is, r.vt.is, r.nullable)
      [] l.vt.of = "ph" /\ r.vt.of = "ph" -> relate_placeholders(inf, l.vt.is, r.vt.is)
      [] l.vt.of = "type" /\ r.vt.of = "lit" -> Require(inf, literal_compatible(l.vt.is, r.vt.is))
      [] l.vt.of = "lit" /\ r.vt.of = "type" -> Require(inf, literal_compatible(r.vt.is, l.vt.is))
      [] l.vt.of = "lit" /\ r.vt.of = "lit" -> Require(inf, literals_comparable(l.vt.is, r.vt.is))
      [] OTHER -> inf

constrain_assignment(inf, column, m) ==
    CASE m.vt.of = "type" -> Require(inf, comparable_to(column.type, m.vt.is))
      [] m.vt.of = "ph" -> expect_placeholder(inf, m.vt.is, column.type, column.nullable)
      [] m.vt.of = "lit" -> Require(inf, IF m.vt.is = "null" THEN column.nullable
                                         ELSE literal_compatible(column.type, m.vt.is))
require_predicate(inf, m) == Require(inf, m.kind = "predicate")
require_limit_like(inf, m) ==
    CASE m.vt.of = "type" -> Require(inf, m.vt.is \in IntegerLike)
      [] m.vt.of = "ph" -> expect_placeholder(inf, m.vt.is, "int8", FALSE)
      [] m.vt.of = "lit" -> Require(inf, m.vt.is = "int")
signed_numeric(vt) == \/ vt.of = "type" /\ vt.is \in NumericLike
                      \/ vt.of = "ph"
                      \/ vt.of = "lit" /\ vt.is \in {"int", "num"}

\* What is known of an expression, and the inference after it.
Value(vt, nullable) == [kind |-> "value", vt |-> vt, nullable |-> nullable]
Predicate(nullable) == [kind |-> "predicate", vt |-> Concrete("bool"), nullable |-> nullable]
Seen(meta, inf) == [meta |-> meta, inf |-> inf]

RECURSIVE analyze_expr(_, _, _, _)
analyze_expr(e, env, scope, inf) ==
    CASE e.k = "col" -> Seen(Value(Concrete(Column(scope, e).type), Column(scope, e).nullable \/ env[e.b]), inf)
      [] e.k = "ph"  -> Seen(Value(Named(e.name), inf.nulls[e.name]), observe_placeholder(inf, e))
      [] e.k = "lit" -> Seen(Value(literal_value_type(e.v), e.v = "null"), inf)
      [] e.k = "group" -> analyze_expr(e.e, env, scope, inf)
      [] e.k = "not" -> LET a == analyze_expr(e.e, env, scope, inf)
                        IN  Seen(Predicate(a.meta.nullable), require_predicate(a.inf, a.meta))
      [] e.k = "neg" -> LET a == analyze_expr(e.e, env, scope, inf)
                        IN  Seen(Value(a.meta.vt, a.meta.nullable), Require(a.inf, signed_numeric(a.meta.vt)))
      [] e.k = "isnull" -> Seen(Predicate(FALSE), analyze_expr(e.e, env, scope, inf).inf)
      [] e.k = "cmp" -> LET l == analyze_expr(e.l, env, scope, inf)
                            r == analyze_expr(e.r, env, scope, l.inf)
                        IN  Seen(Predicate(l.meta.nullable \/ r.meta.nullable),
                                 constrain_comparison(r.inf, l.meta, r.meta))
      [] e.k \in {"and", "or"} ->
             FoldLeft(LAMBDA seen, t :
                          LET a == analyze_expr(t, env, scope, seen.inf)
                          IN  Seen(Predicate(seen.meta.nullable \/ a.meta.nullable),
                                   require_predicate(a.inf, a.meta)),
                      Seen(Predicate(FALSE), inf), e.terms)

(***************************************************************************)
(* The clauses in the order they are analysed; then the pairs of           *)
(* placeholders until nothing changes, and every placeholder must have a   *)
(* type.                                                                   *)
(***************************************************************************)
analyze_clauses(s, inf0) ==
    LET scope == Scope(Froms(s))
        env == RowEnv(s, Len(s.joins))
        ons == FoldLeft(LAMBDA inf, i :
                   LET a == analyze_expr(s.joins[i].on, OnEnv(s, i), ScopeOfOn(s, i), inf)
                   IN  require_predicate(a.inf, a.meta), inf0, [i \in DOMAIN s.joins |-> i])
        sets == FoldLeft(LAMBDA inf, set :
                   LET a == analyze_expr(set[2], env, scope, inf)
                   IN  constrain_assignment(a.inf, Tables[s.from[2]][set[1]], a.meta), ons, s.sets)
        filter == FoldLeft(LAMBDA inf, e :
                   LET a == analyze_expr(e, env, scope, inf)
                   IN  require_predicate(a.inf, a.meta), sets, s.filter)
        outs == FoldLeft(LAMBDA inf, out :
                   Require(analyze_expr(out.e, env, scope, inf).inf, out.alias # None \/ out.e.k = "col"),
                   filter, s.outs)
        order == FoldLeft(LAMBDA inf, e : analyze_expr(e, env, scope, inf).inf, outs, s.order)
    IN  FoldLeft(LAMBDA inf, e : LET a == analyze_expr(e, env, scope, inf)
                                 IN  require_limit_like(a.inf, a.meta), order, s.limit)

\* The first type found wins: later pairs are not compared.
solve_pairUnchecked(inf, pair) ==
    LET l == inf.types[pair[1]]
        r == inf.types[pair[2]]
    IN  CASE l # "none" /\ r = "none" -> expect_placeholder(inf, pair[2], l, inf.nulls[pair[1]])
          [] l = "none" /\ r # "none" -> expect_placeholder(inf, pair[1], r, inf.nulls[pair[2]])
          [] OTHER -> inf
solve_pair(inf, pair) ==
    LET l == inf.types[pair[1]]
        r == inf.types[pair[2]]
    IN  CASE l # "none" /\ r = "none" -> expect_placeholder(inf, pair[2], l, inf.nulls[pair[1]])
          [] l = "none" /\ r # "none" -> expect_placeholder(inf, pair[1], r, inf.nulls[pair[2]])
          [] OTHER -> Require(inf, l = r)
\* A pass that changes something gives a placeholder its type, so there are
\* no more passes than placeholders, and one that changes nothing.
solve(inf) ==
    LET names == DOMAIN inf.types
        done == FoldLeft(LAMBDA i, n : FoldLeft(solve_pair, i, i.pending), inf,
                         [n \in 1..(Cardinality(names) + 1) |-> n])
    IN  Require(done, \A n \in names : done.types[n] # "none")

(***************************************************************************)
(* The types of the solved expressions.  A bare NULL has none, which also  *)
(* refuses UPDATE ... SET c = NULL; the values of an INSERT are not         *)
(* finalised.                                                              *)
(***************************************************************************)
RECURSIVE SqlTypeOf(_, _, _)
SqlTypeOf(e, scope, inf) ==
    CASE e.k = "col" -> Column(scope, e).type
      [] e.k = "ph"  -> inf.types[e.name]
      [] e.k = "lit" -> CASE e.v = "int" -> "int8" [] e.v = "num" -> "numeric"
                          [] e.v = "str" -> "text" [] OTHER -> e.v
      [] e.k \in {"neg", "group"} -> SqlTypeOf(e.e, scope, inf)
      [] OTHER -> "bool"
RECURSIVE Nullable(_, _, _, _)
Nullable(e, env, scope, inf) ==
    CASE e.k = "col" -> Column(scope, e).nullable \/ env[e.b]
      [] e.k = "ph"  -> inf.nulls[e.name]
      [] e.k = "lit" -> e.v = "null"
      [] e.k = "cmp" -> Nullable(e.l, env, scope, inf) \/ Nullable(e.r, env, scope, inf)
      [] e.k \in {"and", "or"} -> \E i \in DOMAIN e.terms : Nullable(e.terms[i], env, scope, inf)
      [] e.k = "isnull" -> FALSE
      [] OTHER -> Nullable(e.e, env, scope, inf)
RECURSIVE finalize_expr(_, _, _)
finalize_expr(e, scope, inf) ==
    CASE e.k \in {"col", "ph"} -> TRUE
      [] e.k = "lit" -> e.v # "null"
      [] e.k = "neg" -> finalize_expr(e.e, scope, inf) /\ SqlTypeOf(e.e, scope, inf) \in NumericLike
      [] e.k = "cmp" -> finalize_expr(e.l, scope, inf) /\ finalize_expr(e.r, scope, inf)
      [] e.k \in {"and", "or"} -> \A i \in DOMAIN e.terms : finalize_expr(e.terms[i], scope, inf)
      [] OTHER -> finalize_expr(e.e, scope, inf)

\* The parameters, by slot, and the columns of the result.
parameters(s, inf, names) ==
    [i \in DOMAIN names |-> [name |-> names[i], slot |-> i, type |-> inf.types[names[i]],
                             nullable |-> inf.nulls[names[i]], optional |-> names[i] \in inf.optional]]
resolve_statement(s, names) ==
    IF ~resolve_names(s) THEN Err
    ELSE LET inf == solve(analyze_clauses(s, Inference(ToSet(names))))
             scope == Scope(Froms(s))
             env == RowEnv(s, Len(s.joins))
             finals == [i \in DOMAIN s.outs |-> s.outs[i].e] \o s.filter \o s.order \o s.limit
                       \o (IF s.kind = "insert" THEN <<>> ELSE [i \in DOMAIN s.sets |-> s.sets[i][2]])
         IN  IF /\ inf.ok
                /\ \A e \in ToSet(finals) : finalize_expr(e, scope, inf)
                /\ \A i \in DOMAIN s.joins : finalize_expr(s.joins[i].on, ScopeOfOn(s, i), inf)
             THEN Ok([parameters |-> parameters(s, inf, names),
                      columns |-> [i \in DOMAIN s.outs |->
                          [type |-> SqlTypeOf(s.outs[i].e, scope, inf),
                           nullable |-> Nullable(s.outs[i].e, env, scope, inf)]]])
             ELSE Err

(***************************************************************************)
(* lower.rs.  What is rendered is a tree as well, for every part of the    *)
(* text is parenthesised; <<>> is a part that is left out.  A placeholder   *)
(* is rendered as the number of its slot.                                  *)
(***************************************************************************)
RECURSIVE collect_optional_placeholders(_)
collect_optional_placeholders(e) ==
    CASE e.k \in {"col", "lit"} -> {}
      [] e.k = "ph"  -> IF e.optional THEN {e.name} ELSE {}
      [] e.k = "cmp" -> collect_optional_placeholders(e.l) \cup collect_optional_placeholders(e.r)
      [] e.k \in {"and", "or"} -> UNION {collect_optional_placeholders(e.terms[i]) : i \in DOMAIN e.terms}
      [] OTHER -> collect_optional_placeholders(e.e)

group_active(e, given, on) ==
    LET required == collect_optional_placeholders(e.e)
    IN  IF required = {} THEN e.id \in on ELSE required \subseteq given

RECURSIVE render_expr(_, _, _, _)
render_expr(e, names, given, on) ==
    LET rendered(x) == render_expr(x, names, given, on)
    IN  CASE e.k \in {"col", "lit"} -> <<e>>
          [] e.k = "ph" -> IF e.optional /\ e.name \notin given THEN <<>>
                           ELSE <<[k |-> "slot", n |-> SelectInSeq(names, LAMBDA n : n = e.name)]>>
          [] e.k = "group" -> IF group_active(e, given, on) THEN rendered(e.e) ELSE <<>>
          [] e.k \in {"not", "neg", "isnull"} ->
                 LET r == rendered(e.e) IN [i \in DOMAIN r |-> [k |-> e.k, e |-> r[i]]]
          [] e.k = "cmp" -> LET l == rendered(e.l)
                                r == rendered(e.r)
                            IN  IF l = <<>> \/ r = <<>> THEN <<>>
                                ELSE <<[k |-> "cmp", l |-> l[1], r |-> r[1]]>>
          [] e.k \in {"and", "or"} ->
                 LET kept == FlattenSeq([i \in DOMAIN e.terms |-> rendered(e.terms[i])])
                 IN  IF Len(kept) <= 1 THEN kept ELSE <<[k |-> e.k, terms |-> kept]>>

\* render: the clauses that are left.  An ON that is left out is TRUE.
render(s, names, given, on) ==
    LET expr(e) == render_expr(e, names, given, on)
        each(es) == FlattenSeq([i \in DOMAIN es |-> expr(es[i])])
        ons == [i \in DOMAIN s.joins |-> expr(s.joins[i].on)]
    IN  [s EXCEPT !.outs = [i \in DOMAIN s.outs |-> [s.outs[i] EXCEPT !.e = expr(@)[1]]],
                  !.joins = [i \in DOMAIN s.joins |->
                      [s.joins[i] EXCEPT !.on = IF ons[i] = <<>> THEN [k |-> "true"] ELSE ons[i][1]]],
                  !.sets = [i \in DOMAIN s.sets |-> <<s.sets[i][1], expr(s.sets[i][2])[1]>>],
                  !.filter = each(s.filter), !.order = each(s.order), !.limit = each(s.limit)]

\* The numbers after a `$' in the text of a rendered tree: its slots, and what
\* its literals have.
RECURSIVE Slots(_)
Slots(e) == CASE e.k = "slot" -> {e.n}
              [] e.k = "lit" -> {part[2] : part \in {x \in ToSet(e.text) : x[1] = "$"}}
              [] e.k \in {"col", "true"} -> {}
              [] e.k = "cmp" -> Slots(e.l) \cup Slots(e.r)
              [] e.k \in {"and", "or"} -> UNION {Slots(e.terms[i]) : i \in DOMAIN e.terms}
              [] OTHER -> Slots(e.e)
\* The text is copied byte by byte (`bytes[i] as char'): what is not ASCII comes
\* out as other characters.
RECURSIVE Renumbered(_, _)
Renumbered(e, active) ==
    LET number(n) == SelectInSeq(active, LAMBDA slot : slot = n)
        copied(part) == CASE part[1] = "$" -> <<"$", number(part[2])>>
                          [] part[1] = "wide" -> <<"mangled">>
                          [] OTHER -> part
    IN
    CASE e.k = "slot" -> [e EXCEPT !.n = number(@)]
      [] e.k = "lit" -> [e EXCEPT !.text = [i \in DOMAIN @ |-> copied(@[i])]]
      [] e.k \in {"col", "true"} -> e
      [] e.k = "cmp" -> [e EXCEPT !.l = Renumbered(@, active), !.r = Renumbered(@, active)]
      [] e.k \in {"and", "or"} -> [e EXCEPT !.terms = [i \in DOMAIN @ |-> Renumbered(@[i], active)]]
      [] OTHER -> [e EXCEPT !.e = Renumbered(@, active)]
\* The slots as they were.
renumber_sql_placeholdersNever(e, active) == Ok(e)
\* Numbered by what is sent; an `expect' when a number is not that of a slot
\* that is sent, be it in a literal.  Nothing changes when nothing is sent.
renumber_sql_placeholders(e, active) ==
    IF active = <<>> THEN Ok(e)
    ELSE IF Slots(e) \subseteq ToSet(active) THEN Ok(Renumbered(e, active)) ELSE Panic

\* The groups without optional placeholders of their own, in the order of
\* their ids: each is switched by an argument of its own.
RECURSIVE GroupsOf(_)
GroupsOf(e) ==
    CASE e.k \in {"col", "ph", "lit"} -> {}
      [] e.k = "cmp" -> GroupsOf(e.l) \cup GroupsOf(e.r)
      [] e.k \in {"and", "or"} -> UNION {GroupsOf(e.terms[i]) : i \in DOMAIN e.terms}
      [] e.k = "group" -> {e} \cup GroupsOf(e.e)
      [] OTHER -> GroupsOf(e.e)
toggle_group_ids(s) ==
    SetToSortSeq({g.id : g \in {h \in UNION {GroupsOf(e) : e \in ToSet(Exprs(s))} :
                                   collect_optional_placeholders(h.e) = {}}}, <)

Lowerable == NumericLike \cup TextLike \cup
             {"bool", "bytea", "uuid", "date", "time", "timestamp", "timestamptz", "json", "jsonb"}
lower_statement(s) ==
    LET n == normalize_statement(s)
        names == SlotNames(s)
        c == IF n.ok THEN resolve_statement(n.v, names) ELSE Err
    IN  IF c.ok /\ \A p \in ToSet(c.v.parameters \o c.v.columns) : p.type \in Lowerable
        THEN Ok([statement |-> n.v, names |-> names, parameters |-> c.v.parameters,
                 columns |-> c.v.columns, toggles |-> toggle_group_ids(n.v)])
        ELSE Err

\* One shape of the statement: given are the optional parameters that are
\* Some, on the groups that are switched on.  `sent' is what is bound, in order.
Shape(q, given, on) ==
    LET active == SelectSeq([i \in DOMAIN q.parameters |-> i],
                            LAMBDA i : ~q.parameters[i].optional \/ q.parameters[i].name \in given)
        r == render(q.statement, q.names, given, on)
        renumber(e) == renumber_sql_placeholders(e, active)
    IN  IF \E e \in ToSet(Exprs(r)) : ~renumber(e).ok THEN Panic
        ELSE Ok([sent |-> [i \in DOMAIN active |-> q.parameters[active[i]].name],
                 sql |-> [r EXCEPT
                     !.outs = [i \in DOMAIN r.outs |-> [r.outs[i] EXCEPT !.e = renumber(@).v]],
                     !.joins = [i \in DOMAIN r.joins |-> [r.joins[i] EXCEPT !.on = renumber(@).v]],
                     !.sets = [i \in DOMAIN r.sets |-> <<r.sets[i][1], renumber(r.sets[i][2]).v>>],
                     !.filter = [i \in DOMAIN r.filter |-> renumber(r.filter[i]).v],
                     !.order = [i \in DOMAIN r.order |-> renumber(r.order[i]).v],
                     !.limit = [i \in DOMAIN r.limit |-> renumber(r.limit[i]).v]]])
OptionalNames(q) == {p.name : p \in {x \in ToSet(q.parameters) : x.optional}}
runtime_sql_shapes(q) == [given : SUBSET OptionalNames(q), on : SUBSET ToSet(q.toggles)]
==============================================================================
