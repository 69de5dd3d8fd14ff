-------------------------- MODULE CheckoutRestarts --------------------------
(***************************************************************************)
(* How often the website can close a donor's open checkout. A history      *)
(* variable added to Checkout records when a website request closed each   *)
(* attempt's session (retire, for a request without a donor's token).      *)
(***************************************************************************)
EXTENDS Checkout

VARIABLE restarts   \* restarts[a]: when a website request closed a's session, or 0

\* The session of a is closed by a website request in this step.
Restarted(a) ==
  /\ session[a] = "open" /\ session'[a] = "expired"
  /\ \E p \in Requests \ Apps : pc[p] = "expire" /\ pc'[p] = "retire"

RestartInit == Init /\ restarts = [a \in Attempts |-> 0]

RestartNext ==
  /\ Next
  /\ restarts' = [a \in Attempts |-> IF Restarted(a) THEN now ELSE restarts[a]]

RestartSpec == RestartInit /\ [][RestartNext]_<<vars, restarts>>

\* Sessions of this donor that website requests closed up to t, within a restart
\* window less the time a request may run on after it read the clock.
RestartsUpTo(t) ==
  {b \in Attempts : restarts[b] \in 1 .. t
                     /\ restarts[b] > t - (RestartWindow - RequestTime)}

\* Whoever types the donor's email on the website, at most RestartBudget of the
\* donor's open sessions are closed that way within such a window, whatever
\* requests race, or crash between expiring a session and replacing it.
RestartsBounded ==
  \A a \in Attempts :
    restarts[a] # 0 => Cardinality(RestartsUpTo(restarts[a])) =< RestartBudget
=============================================================================
