--------------------------- MODULE MCPackageHours ---------------------------
(* Two purchases of two hours, a booking to be made, and an extension of another *)
(* booking, whose shift has begun.  The booking takes up to two hours, the       *)
(* extension one.                                                                *)
EXTENDS PackageHours, TLC

CONSTANTS b1, b2, e1

MCBookings == {b1, b2}
MCOf       == e1 :> b2
MCUnderway == {b2}
MCWanted   == e1 :> {1} @@ [b \in MCBookings |-> {2}]
MCAlike    == Permutations(Requests) \cup Permutations(Buckets)
=============================================================================
