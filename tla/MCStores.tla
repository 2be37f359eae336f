------------------------------ MODULE MCStores ------------------------------
(* Values for model checking Stores.                                        *)
EXTENDS Stores, TLC, SequencesExt

CONSTANTS c1, y1, y2

(* c1 can be paid with either coin, so two credentials for it race; c2     *)
(* takes both, and overlaps with either.                                   *)
NoneBound == [c \in Challenges |-> {}]
OneEach == [y \in Proofs |-> 1]
OneOrTwo == [c \in Challenges |-> IF c = c1 THEN 1 ELSE 2]

-----------------------------------------------------------------------------
(* Reservation ids, fresh coins and inodes are as good as one another.     *)
(* TLC's symmetry would not tell them apart; taking the new ones in an     *)
(* order fixed beforehand does the same at less cost.                      *)
Names == SetToSeq(Ids)
Outputs == SetToSeq(Coin \ (Purse \cup Budget \cup Incoming))
Nodes == SetToSeq(Inodes)

(* Between the sets before and after, the first elements of seq were added.*)
InOrder(seq, before, after) ==
  \A i, j \in DOMAIN seq : i < j /\ seq[j] \in after \ before => seq[i] \in after

(* Of the coins a swap makes, the first ones go to the bundle.             *)
BundleFirst ==
  LET fresh == issued' \ issued IN
  \A i, j \in DOMAIN Outputs :
    i < j /\ {Outputs[i], Outputs[j]} \subseteq fresh /\ Outputs[j] \in spend'.bundle
      => Outputs[i] \in spend'.bundle

Linked == {file, tmp} \cup {call[c].fd : c \in Callers}

Canonical ==
  CASE which = "file" -> InOrder(Names, used, used') /\ InOrder(Nodes, Linked, Linked \cup {tmp'})
    [] which = "wallet" -> /\ InOrder(Names, drawn, drawn')
                           /\ InOrder(Outputs, issued, issued')
                           /\ BundleFirst
    [] which = "engram" -> InOrder(Names, taken, taken')
    [] OTHER -> TRUE

MCNext == AllNext /\ Canonical
MCSpec == AllInit /\ [][MCNext]_all

Symmetry == Permutations(Callers) \cup Permutations(Coins)
=============================================================================
