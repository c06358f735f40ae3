-------------------------- MODULE MCTicketLifecycle --------------------------
(* Instance of TicketLifecycle for TLC: one admin of each role, a category *)
(* of every routing shape, one rating of each band and the boundary 4.     *)
EXTENDS TicketLifecycle

CONSTANTS kam1, cs1

MCKams == {kam1}
MCCSs == {cs1}
MCCategories == {"technical", "referral_amount", "resignation", "other"}
MCRatings == {1, 3, 4}
MCZohoIds == {1}
MCAllOperations == OperationNames
=============================================================================
