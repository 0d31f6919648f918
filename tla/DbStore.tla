------------------------------- MODULE DbStore -------------------------------
(***************************************************************************)
(* What a WriteVar promises about the data blocks: the items of a request  *)
(* are handled in order, each at one instant, and an item that is accepted *)
(* sets its own bits and no other.                                         *)
(***************************************************************************)
EXTENDS Naturals

CONSTANTS
  Writers,      \* the requests
  Cells,        \* the bits of the data blocks
  Count(_),     \* the items of a request
  Target(_, _), \* the cells its item sets: none when the item is refused
  Value(_, _, _)

VARIABLES
  store,     \* the value of each cell
  handled    \* the items of each request handled so far

Init ==
  /\ store \in [Cells -> BOOLEAN]
  /\ handled = [w \in Writers |-> 0]

Handle(w) ==
  LET j == handled[w] + 1
  IN  /\ handled[w] < Count(w)
      /\ handled' = [handled EXCEPT ![w] = j]
      /\ store' = [c \in Cells |->
                     IF c \in Target(w, j) THEN Value(w, j, c) ELSE store[c]]

Next == \E w \in Writers : Handle(w)

Spec == Init /\ [][Next]_<<store, handled>>
=============================================================================
