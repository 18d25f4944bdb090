--------------------------- MODULE MigrationHistory ---------------------------
(***************************************************************************)
(* What the migration engine promises of a database, whatever runners do   *)
(* to it and wherever they are interrupted: the recorded history is a      *)
(* prefix of one catalog and moves along it, and the scripts that have     *)
(* taken effect move with it, except that a script which opted out of      *)
(* transactions may take effect by itself.                                 *)
(***************************************************************************)
EXTENDS Integers, Sequences, FiniteSets

CONSTANTS
    Catalogs,   \* the valid catalogs, each a sequence of rows by version
    Versions    \* the versions that occur in them

VARIABLES
    rows,   \* the committed rows of the state table
    net     \* net[v] : runs of v's up script less runs of its down script

hvars == <<rows, net>>

Prefix(c, n) == {c[i] : i \in 1..n}

HInit == rows = {} /\ net = [v \in Versions |-> 0]

(* What recording v, or removing it, does to the count of its scripts: the *)
(* two go together, unless the script is a non-transactional one, which    *)
(* has then run before.                                                    *)
Carried(mode, change) == IF mode = "transactional" THEN {change} ELSE {0, change}

(* The history moves from the n-th to the m-th prefix of a catalog, in one *)
(* commit.                                                                 *)
Move ==
    \E c \in Catalogs : \E n, m \in 0..Len(c) :
        /\ rows = Prefix(c, n)
        /\ rows' = Prefix(c, m)
        /\ \A v \in Versions :
             LET is(row) == row.version = v
                 up == \E i \in (n + 1)..m : is(c[i])
                 down == \E i \in (m + 1)..n : is(c[i])
                 pair == CHOOSE row \in {c[i] : i \in 1..Len(c)} : is(row)
             IN  net'[v] - net[v] \in CASE up -> Carried(pair.up, 1)
                                        [] down -> Carried(pair.down, -1)
                                        [] OTHER -> {0}
        /\ DOMAIN net' = Versions

(* A non-transactional script takes effect without its record.             *)
Alone ==
    \E c \in Catalogs : \E i \in 1..Len(c) :
        /\ \/ c[i].up = "non_transactional" /\ net' = [net EXCEPT ![c[i].version] = @ + 1]
           \/ c[i].down = "non_transactional" /\ net' = [net EXCEPT ![c[i].version] = @ - 1]
        /\ UNCHANGED rows

HNext == Move \/ Alone
HSpec == HInit /\ [][HNext]_hvars
=============================================================================
