---------------------------- MODULE RecurringSlot ----------------------------
(***************************************************************************)
(* What the checkout promises of a donor's recurring gifts, with nothing   *)
(* of how it is done: there is one slot; a gift is offered, paid and ends  *)
(* only while its attempt has the slot, and the slot is given up only when *)
(* its gift can no longer charge the donor.                                *)
(***************************************************************************)
CONSTANTS Attempts, None

VARIABLES
  slot,   \* the attempt that has the donor's slot, or None
  state   \* what the gift of each attempt can still do

Init ==
  /\ slot = None
  /\ state = [a \in Attempts |-> "unopened"]

Take(a) ==
  /\ slot = None /\ state[a] = "unopened"
  /\ slot' = a
  /\ UNCHANGED state

\* The only ways a gift moves, and it moves only while it has the slot.
Moves == {<<"unopened", "payable">>, <<"payable", "live">>, <<"payable", "over">>,
          <<"live", "over">>}

Move(a, to) ==
  /\ slot = a
  /\ <<state[a], to>> \in Moves
  /\ state' = [state EXCEPT ![a] = to]
  /\ UNCHANGED slot

Free(a) ==
  /\ slot = a /\ state[a] = "over"
  /\ slot' = None
  /\ UNCHANGED state

Next ==
  \E a \in Attempts : \/ Take(a)
                      \/ \E to \in {"payable", "live", "over"} : Move(a, to)
                      \/ Free(a)

Spec == Init /\ [][Next]_<<slot, state>>
=============================================================================
