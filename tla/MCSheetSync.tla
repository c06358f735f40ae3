----------------------------- MODULE MCSheetSync -----------------------------
(* Instances of SheetSync for TLC: two overlapping calls, two experts, of   *)
(* whom one leaves the payouts, and a tab of the winter besides the newest.  *)
EXTENDS SheetSync, TLC

CONSTANTS s1, s2, e1, e2, kam1, kam2

MCSyncs == {s1, s2}
MCExperts == {e1, e2}
MCListed == {e1}
MCKams == {kam1}
MCUserOf == e1 :> 101 @@ e2 :> 102
MCBlank == [phone |-> {<<e1, 2>>}, language |-> {<<e1, 2>>}, user_id |-> {<<e1, 1>>}]
MCFrozen == {e1}
MCSpeakersFor == e1 :> {kam1} @@ e2 :> {}

\* Days of 2026 and the year before, counted from the beginning of some year 0:
\* cycles at the end of January and in August, and a day after the payout that
\* follows the first of them, so that two calls can find different next payouts.
MCOld == 2026 * 365 + 30
MCNewer == 2026 * 365 + 228
MCCycles == {MCOld, MCNewer}
MCOldCycles == {MCOld}
MCRowsOf == MCOld :> MCExperts @@ MCNewer :> {e1}
MCTab == [date |-> MCOld, copy |-> 1]
MCFirstDay == MCNewer - 2
MCDays == {MCNewer - 2, MCNewer + 13}

MCPayoutPlan == <<"payout_status">>
MCProfilePlan == <<"roster", "expert_priority", "provisioned_astrologers", "astrologer_profiles">>
MCPayoutPlans == {MCPayoutPlan}
MCPlans == {MCPayoutPlan, MCProfilePlan}
=============================================================================
