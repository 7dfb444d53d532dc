---------------------------- MODULE StakeCustody ----------------------------
(***************************************************************************)
(* What the platform promises about every stake, with no market, wallet or *)
(* ledger in sight: a stake is in exactly one place, and it moves between  *)
(* places only along the edges below.                                      *)
(*                                                                         *)
(*   none ------> escrow ------> paid        (won: back to the owner)      *)
(*                escrow ------> forfeited   (lost)                        *)
(*                escrow ------> refunded    (canceled or revised: final)  *)
(*                paid, forfeited -> escrow  (the resolution was undone)   *)
(*                                                                         *)
(* MarketSettlement implements this specification; its refinement mapping  *)
(* reads the custody of a stake off the wallet ledger.                     *)
(***************************************************************************)

CONSTANT Predictions    \* identities of the predictions that carry a stake

VARIABLE custody        \* where the stake of each prediction is

Places == {"none", "escrow", "paid", "forfeited", "refunded"}

TypeOK == custody \in [Predictions -> Places]

Init == custody = [p \in Predictions |-> "none"]

\* The stakes in S leave one of the places "from" and arrive at "to".
Move(S, from, to) ==
    /\ \A p \in S : custody[p] \in from
    /\ custody' = [p \in Predictions |-> IF p \in S THEN to ELSE custody[p]]

\* A new stake enters escrow; a revision returns the stakes it replaces.
Stake(p, replaced) ==
    /\ custody[p] = "none"
    /\ \A q \in replaced : custody[q] = "escrow"
    /\ custody' = [q \in Predictions |->
                     IF q = p THEN "escrow"
                     ELSE IF q \in replaced THEN "refunded" ELSE custody[q]]

\* A resolution pays the winning stakes back and forfeits the others.
Settle(winners, losers) ==
    /\ winners \cap losers = {}
    /\ \A p \in winners \cup losers : custody[p] = "escrow"
    /\ custody' = [p \in Predictions |->
                     IF p \in winners THEN "paid"
                     ELSE IF p \in losers THEN "forfeited" ELSE custody[p]]

\* A cancellation returns stakes for good.
Refund(S) == Move(S, {"escrow"}, "refunded")

\* Undoing a resolution takes settled stakes back into escrow.
Recall(S) == Move(S, {"paid", "forfeited"}, "escrow")

Next ==
    \/ \E p \in Predictions, replaced \in SUBSET Predictions : Stake(p, replaced)
    \/ \E winners, losers \in SUBSET Predictions : Settle(winners, losers)
    \/ \E S \in SUBSET Predictions : Refund(S) \/ Recall(S)

Spec == Init /\ [][Next]_custody

=============================================================================
