---------------------------- MODULE MCCarePoints ----------------------------
(* Two mothers, one of whom has the booking; small amounts that differ. *)
EXTENDS CarePoints, TLC

CONSTANTS ann, beth, shift

MCMothers  == {ann, beth}
MCBookings == {shift}
MCOwner    == shift :> ann
MCGrants   == {1, -2}
=============================================================================
