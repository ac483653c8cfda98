------------------------- MODULE MCBookingLifecycle -------------------------
(***************************************************************************)
(* BookingLifecycle on small sets, for TLC.                                *)
(***************************************************************************)
EXTENDS BookingLifecycle, TLC

CONSTANTS b1, b2, n1, n2

\* Nannies and request slots are interchangeable; bookings and slots are told
\* apart by Covered and Routed.
Symmetry == Permutations(Nannies) \cup Permutations(Requests)
=============================================================================
