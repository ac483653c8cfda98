---------------------------- MODULE MCBookingEdit ----------------------------
(* One booking and its console, for TLC. *)
EXTENDS BookingEdit, TLC

MCSlots == Permutations(Requests)
=============================================================================
