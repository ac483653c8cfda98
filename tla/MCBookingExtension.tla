------------------------- MODULE MCBookingExtension -------------------------
(* Extensions of one shift, for TLC. *)
EXTENDS BookingExtension, TLC

MCSlots == Permutations(Requests)
=============================================================================
