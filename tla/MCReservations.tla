--------------------------- MODULE MCReservations ---------------------------
(* Small instances of Reservations for TLC. *)
EXTENDS Reservations, TLC

CONSTANTS c1, c2, t1, t2, r1, j1

CoinSymmetry == Permutations({c1, c2})

\* Room for two advances, and for one by value.
Wide == [sats |-> 660, count |-> 2]
MCLimits == {Wide, [sats |-> 330, count |-> 2]}
WideLimits == {Wide}
=============================================================================
