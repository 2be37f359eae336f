----------------------------- MODULE ProofStore -----------------------------
(***************************************************************************)
(* What a wallet needs of its store: each operation changes the durable    *)
(* snapshot at once and sees all earlier ones.  MemoryProofStore does so,  *)
(* because its persist does not yield before the assignment.               *)
(***************************************************************************)
EXTENDS Transitions

VARIABLE wallet

Init == wallet = EMPTY_SNAPSHOT

Step(op) == Legal(wallet, op) /\ wallet' = Result(wallet, op)

Next == \E op \in Operations : Step(op)

Spec == Init /\ [][Next]_wallet

(* A coin is spendable or in one reservation, never in two places: what a  *)
(* reservation is for.                                                     *)
NeverTwice == Partition(wallet)
=============================================================================
