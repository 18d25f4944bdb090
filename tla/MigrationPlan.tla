---------------------------- MODULE MigrationPlan ----------------------------
(***************************************************************************)
(* Discovery and planning of migrations (crates/core/src/migration: source,*)
(* filename, model, checksum, plan): from the entries of a directory to a  *)
(* validated catalog, and from a catalog and the rows of the state table   *)
(* to the plan of an apply or a rollback.                                  *)
(*                                                                         *)
(* A file name is the pieces its grammar tells apart, a file the sequence  *)
(* of its lines, a line what the directive parser makes of it.  SHA-256 is *)
(* taken to be injective.                                                  *)
(***************************************************************************)
EXTENDS Naturals, Sequences, FiniteSets, SequencesExt

Err(e) == [ok |-> FALSE, error |-> e, value |-> <<>>]
Ok(v) == [ok |-> TRUE, error |-> "none", value |-> v]

-----------------------------------------------------------------------------
(* Files *)

(* MigrationFilename::parse: the ".sql" suffix, the direction, the "__", an *)
(* unsigned version, a snake_case name, in this order.                      *)
ParseFilename(f) ==
    IF ~f.sql \/ f.kind = "none" \/ ~f.split THEN Err("InvalidFileName")
    ELSE IF ~f.numeric THEN Err("InvalidVersion")
    ELSE IF ~f.snake THEN Err("InvalidName")
    ELSE Ok([version |-> f.version, name |-> f.name, kind |-> f.kind])

(* MigrationScriptMetadata::parse reads the directives above the first line *)
(* of SQL; blank lines do not end them.                                     *)
Directives(lines) ==
    LET code == {i \in DOMAIN lines : lines[i] = "sql"}
        top == IF code = {} THEN Len(lines) ELSE (CHOOSE i \in code : \A j \in code : i <= j) - 1
    IN  SelectSeq(SubSeq(lines, 1, top), LAMBDA l : l # "blank")

(* parse_directive, which also reads the modes of the state table back.     *)
ParseMode(text) ==
    CASE text = "transactional" -> Ok("transactional")
      [] text \in {"none", "non_transactional"} -> Ok("non_transactional")
      [] OTHER -> Err("InvalidDirective")

(* One transaction directive at most, and nothing else that starts with     *)
(* "--!".                                                                   *)
ParseMetadata(lines) ==
    LET ds == Directives(lines) IN
    IF Len(ds) > 1 \/ \E i \in DOMAIN ds : ~ParseMode(ds[i]).ok THEN Err("InvalidDirective")
    ELSE IF ds = <<>> THEN Ok("transactional") ELSE ParseMode(ds[1])

Checksum(lines) == <<"sha256", lines>>

(* MigrationAsset::parse, MigrationScript::new.                             *)
ParseAsset(a) ==
    LET file == ParseFilename(a.file)
        meta == ParseMetadata(a.lines)
    IN  IF ~file.ok THEN file
        ELSE IF ~meta.ok THEN meta
        ELSE Ok([version |-> file.value.version, name |-> file.value.name,
                 kind |-> file.value.kind, mode |-> meta.value, checksum |-> Checksum(a.lines)])

(* FileSystemMigrationSource::load: files with a ".sql" extension of any    *)
(* case, in path order; what cannot be read is an error, not a gap.         *)
LoadFiles(entries) ==
    LET files == SelectSeq(entries, LAMBDA e : e.isFile)
        sqls == SelectSeq(files, LAMBDA e : e.ext)
    IN  IF \/ \E i \in DOMAIN files : ~files[i].utf8
           \/ \E i \in DOMAIN sqls : ~sqls[i].readable
        THEN Err("InvalidSourcePath")
        ELSE Ok(SortSeq(sqls, LAMBDA a, b : a.path < b.path))
Load(root) == IF ~root.isDir THEN Err("InvalidSourcePath") ELSE LoadFiles(root.entries)

-----------------------------------------------------------------------------
(* MigrationCatalog *)

(* What from_assets finds wrong with the i-th script, given those before.   *)
Conflict(scripts, i) ==
    LET s == scripts[i]
        earlier == {j \in 1..(i - 1) : scripts[j].version = s.version}
    IN  IF \E j \in earlier : scripts[j].name # s.name THEN "ConflictingMigrationVersion"
        ELSE IF \E j \in earlier : scripts[j].kind = s.kind THEN "DuplicateMigrationScript"
        ELSE "none"

(* PairBuilder::finish for the scripts of one version.                      *)
PairOf(scripts, v) ==
    LET of(k) == CHOOSE s \in Range(scripts) : s.version = v /\ s.kind = k
    IN  [version |-> v, name |-> of("up").name, up |-> of("up").mode, down |-> of("down").mode,
         upSum |-> of("up").checksum, downSum |-> of("down").checksum]

(* The members of S in the order of their versions, no two of which are     *)
(* equal: a BTreeMap's values, and ORDER BY version on a primary key.       *)
ByVersion(S) ==
    CHOOSE s \in [1..Cardinality(S) -> S] : \A i, j \in DOMAIN s : i < j => s[i].version < s[j].version

(* The end of from_assets: the pairs come out of a BTreeMap, by version.    *)
Catalog(scripts) ==
    LET versions == {scripts[i].version : i \in DOMAIN scripts}
        half == {v \in versions : \E k \in {"up", "down"} :
                    ~\E i \in DOMAIN scripts : scripts[i].version = v /\ scripts[i].kind = k}
    IN  IF half # {} THEN Err("MissingMigrationScript")
        ELSE Ok(ByVersion({PairOf(scripts, v) : v \in versions}))

(* from_assets takes the assets in order, and the first error ends it.      *)
FromAssets(assets) ==
    LET parsed == [i \in DOMAIN assets |-> ParseAsset(assets[i])]
        scripts == [i \in DOMAIN assets |-> parsed[i].value]
        wrong(i) == IF ~parsed[i].ok THEN parsed[i].error ELSE Conflict(scripts, i)
        bad == {i \in DOMAIN assets : \/ ~parsed[i].ok
                                      \/ \A j \in 1..i : parsed[j].ok /\ wrong(i) # "none"}
    IN  IF bad # {} THEN Err(wrong(CHOOSE i \in bad : \A j \in bad : i <= j))
        ELSE Catalog(scripts)

(* MigrationCatalog::from_source.                                           *)
FromSource(root) == LET a == Load(root) IN IF a.ok THEN FromAssets(a.value) ELSE a

-----------------------------------------------------------------------------
(* Reconciliation and plans *)

(* The row that insert_applied_migration_sql writes for a pair, and what    *)
(* parse_applied_row reads back.  The NOT NULL and CHECK constraints of the *)
(* table leave the modes as the only column with two readings.              *)
Row(p) == [version |-> p.version, name |-> p.name, upSum |-> p.upSum, downSum |-> p.downSum,
           up |-> p.up, down |-> p.down]
ParseRow(row) == [row EXCEPT !.up = ParseMode(row.up).value, !.down = ParseMode(row.down).value]

(* verify_drift.                                                            *)
SameScript(row, pair) ==
    /\ row.upSum = pair.upSum /\ row.downSum = pair.downSum
    /\ row.up = pair.up /\ row.down = pair.down

(* MigrationId is ordered by version, then by name.                         *)
Before(a, b) == a.version < b.version \/ (a.version = b.version /\ a.name < b.name)

(* reconcile: every row, in order, is the pair at its place in the catalog. *)
RowError(applied, pairs, i) ==
    IF i > 1 /\ ~Before(applied[i - 1], applied[i]) THEN "AppliedMigrationOrderMismatch"
    ELSE IF i > Len(pairs) THEN "AppliedMigrationMissing"
    ELSE IF applied[i].version # pairs[i].version \/ applied[i].name # pairs[i].name
         THEN "AppliedMigrationOrderMismatch"
    ELSE IF ~SameScript(applied[i], pairs[i]) THEN "DriftDetected"
    ELSE "none"
Reconcile(applied, pairs) ==
    LET bad == {i \in DOMAIN applied : RowError(applied, pairs, i) # "none"}
    IN  IF bad = {} THEN Ok(applied)
        ELSE Err(RowError(applied, pairs, CHOOSE i \in bad : \A j \in bad : i <= j))

Step(kind, pair) == [kind |-> kind, pair |-> pair]

(* plan_apply: what is left of the catalog.                                 *)
PlanApply(applied, pairs) ==
    LET r == Reconcile(applied, pairs) IN
    IF ~r.ok THEN r
    ELSE Ok([i \in 1..(Len(pairs) - Len(applied)) |-> Step("up", pairs[Len(applied) + i])])

(* plan_rollback: the last `steps` rows, newest first.                      *)
PlanRollbackForwards(applied, pairs, steps) ==
    LET r == Reconcile(applied, pairs)
        n == IF steps < Len(applied) THEN steps ELSE Len(applied)
    IN  IF ~r.ok THEN r
        ELSE Ok([i \in 1..n |-> Step("down", pairs[Len(applied) - n + i])])
PlanRollback(applied, pairs, steps) ==
    LET r == Reconcile(applied, pairs)
        n == IF steps < Len(applied) THEN steps ELSE Len(applied)
    IN  IF ~r.ok THEN r
        ELSE Ok([i \in 1..n |-> Step("down", pairs[Len(applied) + 1 - i])])

(* MigrationCatalog::status.                                                *)
Status(applied, pairs) ==
    LET r == Reconcile(applied, pairs) IN
    IF ~r.ok THEN r
    ELSE Ok([i \in DOMAIN pairs |-> IF i <= Len(applied) THEN "applied" ELSE "pending"])
=============================================================================
