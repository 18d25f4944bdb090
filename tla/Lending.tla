------------------------------- MODULE Lending -------------------------------
(***************************************************************************)
(* What a pool promises: a store of at most Limit items that are lent to   *)
(* one borrower at a time.  An item comes from the front of the shelf or   *)
(* is made for the borrower; it goes back to the end of the shelf only     *)
(* through a check, and only while the store is open.  A place is taken    *)
(* before an item is made, and is free again when the item leaves, unless  *)
(* the borrower walked away with it.                                       *)
(***************************************************************************)
EXTENDS Integers, FiniteSets, Sequences

CONSTANTS
    Borrowers,
    Items,
    None,      \* no item
    Limit      \* how many places the store has

VARIABLES
    holder,    \* holder[b]: the item that b has
    shelf,     \* the items to lend, the longest waiting first
    back,      \* items on their way to the shelf, being checked
    making,    \* borrowers for whom an item is being made
    stocking,  \* whether one is being made for the shelf
    lost,      \* places that nobody will free
    open       \* whether items are put on the shelf

lvars == <<holder, shelf, back, making, stocking, lost, open>>

OnShelf == {shelf[i] : i \in 1..Len(shelf)}
Present == ({holder[b] : b \in Borrowers} \ {None}) \cup OnShelf \cup back
Taken == Cardinality(Present) + Cardinality(making) + (IF stocking THEN 1 ELSE 0) + lost

LInit ==
    /\ holder = [b \in Borrowers |-> None] /\ shelf = <<>> /\ back = {}
    /\ making = {} /\ stocking = FALSE /\ lost = 0 /\ open = TRUE

(* b has neither an item nor the promise of one.                           *)
Empty(b) == holder[b] = None /\ b \notin making
Gives(b, c) == holder' = [holder EXCEPT ![b] = c]

(* The place of what goes away is free again, or lost.                     *)
FreesOrLoses == lost' \in {lost, lost + 1}

(* The oldest item on the shelf, whoever comes first.                      *)
Borrow(b) ==
    /\ Empty(b) /\ shelf # <<>>
    /\ Gives(b, Head(shelf)) /\ shelf' = Tail(shelf)
    /\ UNCHANGED <<back, making, stocking, lost, open>>

(* An item is made in a place that was free.                               *)
Reserve(b) ==
    /\ Empty(b) /\ Taken < Limit
    /\ making' = making \cup {b}
    /\ UNCHANGED <<holder, shelf, back, stocking, lost, open>>
Make(b, c) ==
    /\ b \in making /\ c \notin Present
    /\ Gives(b, c) /\ making' = making \ {b}
    /\ UNCHANGED <<shelf, back, stocking, lost, open>>
GiveUp(b) ==
    /\ b \in making
    /\ making' = making \ {b} /\ FreesOrLoses
    /\ UNCHANGED <<holder, shelf, back, stocking, open>>

(* The same for the shelf; it is filled only while the store is open.      *)
Restock ==
    /\ open /\ ~stocking /\ Taken < Limit
    /\ stocking' = TRUE
    /\ UNCHANGED <<holder, shelf, back, making, lost, open>>
Stock(c) ==
    /\ stocking /\ c \notin Present
    /\ stocking' = FALSE /\ back' = back \cup {c}
    /\ UNCHANGED <<holder, shelf, making, lost, open>>
StockFails ==
    /\ stocking /\ stocking' = FALSE
    /\ UNCHANGED <<holder, shelf, back, making, lost, open>>

(* The borrower brings its item back, or the item does not come back.      *)
GiveBack(b) ==
    /\ holder[b] # None
    /\ Gives(b, None) /\ back' = back \cup {holder[b]}
    /\ UNCHANGED <<shelf, making, stocking, lost, open>>
Scrap(b) ==
    /\ holder[b] # None
    /\ Gives(b, None) /\ FreesOrLoses
    /\ UNCHANGED <<shelf, back, making, stocking, open>>

(* It is put behind the others, or out of use.                             *)
Shelve(c) ==
    /\ open /\ c \in back
    /\ back' = back \ {c} /\ shelf' = Append(shelf, c)
    /\ UNCHANGED <<holder, making, stocking, lost, open>>
Retire(c) ==
    /\ c \in back
    /\ back' = back \ {c}
    /\ UNCHANGED <<holder, shelf, making, stocking, lost, open>>

(* Items leave the shelf; the others stay in order.                        *)
InOrder(s, q) ==
    /\ \A i \in 1..Len(s) : \E k \in 1..Len(q) : s[i] = q[k]
    /\ \A i, j \in 1..Len(s), k, l \in 1..Len(q) :
          i < j /\ s[i] = q[k] /\ s[j] = q[l] => k < l
Clear ==
    /\ InOrder(shelf', shelf)
    /\ UNCHANGED <<holder, back, making, stocking, lost, open>>

(* The store closes to items that come back; at the end it throws away     *)
(* what it has, when nobody has an item or waits for one.                  *)
Close ==
    /\ open' = FALSE
    /\ UNCHANGED <<holder, shelf, back, making, stocking, lost>>
End ==
    /\ Present = OnShelf /\ making = {}
    /\ open' = FALSE /\ shelf' = <<>> /\ stocking' = FALSE
    /\ UNCHANGED <<holder, back, making, lost>>

LNext ==
    \/ \E b \in Borrowers : \/ Borrow(b) \/ Reserve(b) \/ GiveUp(b) \/ GiveBack(b) \/ Scrap(b)
                            \/ \E c \in Items : Make(b, c)
    \/ \E c \in Items : Stock(c) \/ Shelve(c) \/ Retire(c)
    \/ Restock \/ StockFails \/ Clear \/ Close \/ End

LSpec == LInit /\ [][LNext]_lvars
=============================================================================
