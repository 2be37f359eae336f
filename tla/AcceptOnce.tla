----------------------------- MODULE AcceptOnce -----------------------------
(***************************************************************************)
(* What the acceptor of the payment method needs of its replay store: a    *)
(* challenge is accepted at most once, with coins no other challenge was   *)
(* accepted with, and all of it at once.  This is the contract of          *)
(* AcceptorStore, and what MemoryAcceptorStore does between two awaits.    *)
(***************************************************************************)
CONSTANTS Challenges, Coins

VARIABLE accepted   \* accepted[c]: the coins c was accepted with, {} if it was not

Accept(c, ys) ==
  /\ accepted[c] = {}
  /\ \A d \in Challenges : ys \cap accepted[d] = {}
  /\ accepted' = [accepted EXCEPT ![c] = ys]

Init == accepted = [c \in Challenges |-> {}]

Next == \E c \in Challenges, ys \in SUBSET Coins : Accept(c, ys)

Spec == Init /\ [][Next]_accepted
=============================================================================
