--------------------------- MODULE MCWalletSpend ---------------------------
(* Values for model checking WalletSpend.                                   *)
EXTENDS WalletSpend, TLC

Symmetry == Permutations(Purse) \cup Permutations(Coins \ (Purse \cup Budget \cup Incoming))
              \cup Permutations(Ids)
=============================================================================
