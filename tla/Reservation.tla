----------------------------- MODULE Reservation -----------------------------
(***************************************************************************)
(* What booking promises: appointments hold slots, no two of them clash,   *)
(* and rescheduling exchanges one for another in a single step, so nobody  *)
(* is ever left without the old time and without the new one.              *)
(***************************************************************************)
CONSTANTS Bookings, Slots, Clash, None

VARIABLE at    \* the slot each booking holds, or None

Holders == {b \in Bookings : at[b] # None}

\* No holder but those in Except is in the way of slot s.
Free(s, Except) == \A b \in Holders \ Except : <<at[b], s>> \notin Clash

Take(b, s) ==
  /\ at[b] = None /\ Free(s, {})
  /\ at' = [at EXCEPT ![b] = s]

GiveUp(b) ==
  /\ at[b] # None
  /\ at' = [at EXCEPT ![b] = None]

Exchange(b, c, s) ==
  /\ at[b] # None /\ at[c] = None /\ Free(s, {b})
  /\ at' = [at EXCEPT ![b] = None, ![c] = s]

Init == at = [b \in Bookings |-> None]

Next ==
  \/ \E b \in Bookings, s \in Slots : Take(b, s)
  \/ \E b \in Bookings : GiveUp(b)
  \/ \E b, c \in Bookings, s \in Slots : Exchange(b, c, s)

Spec == Init /\ [][Next]_at
=============================================================================
