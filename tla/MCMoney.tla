------------------------------ MODULE MCMoney -------------------------------
(* Money with the constants of its components, for model checking. *)
EXTENDS Money

\* One refund that two requests of staff ask for at once, one of which may die.
OneCommand ==
  [Commands |-> {"c1"}, Dashboard |-> {}, Amount |-> [r \in {"c1"} |-> 1], GiftAmount |-> 2,
   Requests |-> {"p1", "p2"}, Workers |-> {}, MaxAttempts |-> 2, RetryCap |-> 1, Window |-> 1,
   RequestTime |-> 1, KeyLife |-> 2, Horizon |-> 0, Late |-> FALSE, MaxTime |-> 2,
   MaxEvents |-> 3, MaxDeaths |-> 1, MaxRecords |-> 2]

\* One refund made in the dashboard, whose three events two workers apply.
ThreeEvents ==
  [Commands |-> {}, Dashboard |-> {"d1"}, Amount |-> [r \in {"d1"} |-> 2], GiftAmount |-> 2,
   Requests |-> {}, Workers |-> {"w1", "w2"}, MaxAttempts |-> 2, RetryCap |-> 1, Window |-> 1,
   RequestTime |-> 1, KeyLife |-> 2, Horizon |-> 0, Late |-> FALSE, MaxTime |-> 0,
   MaxEvents |-> 3, MaxDeaths |-> 0, MaxRecords |-> 2]

\* Two updates of the card, applied by two workers.
TwoUpdates ==
  [Updates |-> {"u1", "u2"}, Requests |-> {"p1"}, Workers |-> {"w1", "w2"}, Life |-> 2,
   Margin |-> 1, Window |-> 3, MaxAttempts |-> 2, MaxTime |-> 1, MaxDeaths |-> 1]
=============================================================================
