----------------------------- MODULE MCProgramme ----------------------------
(* Programme with the constants of its components, for model checking. *)
EXTENDS Programme

\* A donor whose facts and whose badge rules change in two transactions.
OneDonor ==
  [Donors |-> {"d1"}, Known |-> {"d1"}, Emails |-> {}, Txs |-> {"t1", "t2"}, Devices |-> {"d1"},
   Keys |-> {TRUE}, Thresholds |-> {1, 2}, MaxRefs |-> 2, MaxCheckins |-> 2, MaxWrites |-> 2,
   MaxRules |-> 1, MaxStaff |-> 1]

\* An address that is imported while two donors sign up or change theirs.
OneAddress ==
  [Donors |-> {"d1", "d2"}, Known |-> {"d2"}, Emails |-> {"e"}, Txs |-> {"t1", "t2"},
   Devices |-> {"d1"}, Keys |-> {TRUE, FALSE}, Thresholds |-> {1}, MaxRefs |-> 0,
   MaxCheckins |-> 0, MaxWrites |-> 3, MaxRules |-> 0, MaxStaff |-> 0]

\* Two teams of a company, whose months two workers close.
TwoTeams ==
  [Donors |-> {"d1", "d2"}, Partners |-> {1}, Names |-> {1, 2}, Visitors |-> {},
   Workers |-> {"w1", "w2"}, Staff |-> {}, Requests |-> {}, Minimum |-> 1, Batch |-> 1,
   Pledges |-> {0, 2, 3}, Terms |-> {[rate |-> 5000, cap |-> 2]}, Amounts |-> {},
   Gifts |-> [d \in {"d1", "d2"} |-> 0], MaxInt |-> 9, MaxMonth |-> 2, MaxMoves |-> 5]

\* An employee of one company or another, whose terms change.
OneEmployee ==
  [Donors |-> {"d1"}, Partners |-> {1, 2}, Names |-> {}, Visitors |-> {"v"}, Workers |-> {},
   Staff |-> {"s1"}, Requests |-> {}, Minimum |-> 1, Batch |-> 1, Pledges |-> {0},
   Terms |-> {[rate |-> 5000, cap |-> 0], [rate |-> 20000, cap |-> 3]}, Amounts |-> {},
   Gifts |-> [d \in {"d1"} |-> 3], MaxInt |-> 9, MaxMonth |-> 1, MaxMoves |-> 3]

\* One payment request that two members of staff send, alike or not.
OneRequest ==
  [Donors |-> {"d1"}, Partners |-> {1, 2}, Names |-> {}, Visitors |-> {}, Workers |-> {},
   Staff |-> {"s1", "s2"}, Requests |-> {"r1"}, Minimum |-> 1, Batch |-> 1, Pledges |-> {0},
   Terms |-> {[rate |-> 5000, cap |-> 2]}, Amounts |-> {1, 2}, Gifts |-> [d \in {"d1"} |-> 0],
   MaxInt |-> 9, MaxMonth |-> 1, MaxMoves |-> 0]
=============================================================================
