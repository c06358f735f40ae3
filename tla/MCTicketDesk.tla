----------------------------- MODULE MCTicketDesk -----------------------------
(* Instances of TicketDesk for TLC: one admin of each role; the categories *)
(* and the operations differ from run to run.                              *)
EXTENDS TicketDesk, TLC

CONSTANTS kam1, cs1, w1, w2

MCKams == {kam1}
MCCSs == {cs1}
MCOneWorker == {w1}
MCTwoWorkers == {w1, w2}
MCSymmetry == Permutations(MCTwoWorkers)
MCKamCategory == {"referral_amount"}
MCCsCategory == {"technical"}
MCMixedCategories == {"technical", "resignation"}
MCAllOperations == OperationNames
\* What moves the status, and what answers a resolution.
MCStatusOperations == {"transition", "rate", "auto_close"}
\* What moves a ticket between queues and into Zoho Desk.
MCQueueOperations == {"reassign", "escalate", "webhook", "backfill_zoho"}
MCAllFaults == FaultNames
MCNoFaults == {}
MCCrash == {"crash"}
=============================================================================
