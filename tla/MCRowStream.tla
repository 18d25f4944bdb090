----------------------------- MODULE MCRowStream -----------------------------
(* One stream with every request, and one that is the simplest of them. *)
EXTENDS RowStream

Ask(r, n, b) == [rows |-> r, size |-> n, bad |-> b]
TwoStreams == {"first", "second"}
Requests ==
    [first |-> {Ask(3, 1, 3), Ask(2, 2, 0), Ask(1, 0, 0)},
     second |-> {Ask(0, 1, 0)}]
=============================================================================
