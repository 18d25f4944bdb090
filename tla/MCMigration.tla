------------------------------ MODULE MCMigration ------------------------------
(* Directories for the migration runner's instances. *)
EXTENDS MigrationRunner

File(path, v, kind, lines) ==
    [path |-> path, isFile |-> TRUE, utf8 |-> TRUE, ext |-> TRUE, readable |-> TRUE, lines |-> lines,
     file |-> [sql |-> TRUE, kind |-> kind, split |-> TRUE, numeric |-> TRUE, version |-> v,
               snake |-> TRUE, name |-> v]]
Dir(entries) == [isDir |-> TRUE, entries |-> entries]

One == <<File(2, 1, "up", <<"sql">>), File(1, 1, "down", <<"sql">>)>>
OneEdited == <<File(2, 1, "up", <<"sql">>), File(1, 1, "down", <<"sql", "sql">>)>>
Two == <<File(4, 2, "up", <<"none", "sql">>), File(3, 2, "down", <<"blank", "sql">>)>>
Three == <<File(6, 3, "up", <<"sql">>), File(5, 3, "down", <<"non_transactional", "sql">>)>>
TooLarge == <<File(8, 4, "up", <<"sql">>), File(7, 4, "down", <<"sql">>)>>

Old == Dir(One)
New == Dir(Two \o One)
Newer == Dir(One \o Two \o Three)
Edited == Dir(OneEdited \o Two)
Huge == Dir(One \o TooLarge)
Unpaired == Dir(One \o <<File(3, 2, "down", <<"sql">>)>>)

TwoOfThem == {"a", "b"}
OnePooled == {"b"}
Directories == [old |-> Old, new |-> New, newer |-> Newer, edited |-> Edited, huge |-> Huge,
                unpaired |-> Unpaired]
SomeSources == {"old", "newer", "edited", "huge", "unpaired"}
=============================================================================
