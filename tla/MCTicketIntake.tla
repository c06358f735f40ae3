---------------------------- MODULE MCTicketIntake ----------------------------
(* Instances of TicketIntake for TLC: one admin of each role, one visit or *)
(* two (the astrologer's phone and a second tab), a CS and a KAM category. *)
EXTENDS TicketIntake, TLC

CONSTANTS kam1, cs1, v1, v2

MCKams == {kam1}
MCCSs == {cs1}
MCOneVisit == {v1}
MCTwoVisits == {v1, v2}
MCSymmetry == Permutations(MCTwoVisits)
MCOneCategory == {"technical"}
MCCategories == {"technical", "resignation"}
MCAllFaults == FaultNames
MCNoFaults == {}
=============================================================================
