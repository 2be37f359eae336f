---------------------------- MODULE Transitions ----------------------------
(***************************************************************************)
(* The state transitions every wallet store shares.  A proof is known by   *)
(* its Y, so a snapshot is made of sets of coins: what is spendable, and   *)
(* what each live reservation took out of it.  The history is left out.    *)
(***************************************************************************)
EXTENDS Naturals

CONSTANTS Coins, Ids   \* Ids: reservation ids, random in the code

Snapshots == [free : SUBSET Coins, live : SUBSET Ids, held : [Ids -> SUBSET Coins], seq : Nat]

EMPTY_SNAPSHOT == [free |-> {}, live |-> {}, held |-> [i \in Ids |-> {}], seq |-> 0]

Held(s) == s.free \cup UNION {s.held[i] : i \in Ids}

Advance(s) == [s EXCEPT !.seq = @ + 1]

(* Coins already held, reserved ones included, are ignored.                *)
AddTo(s, ys) == [Advance(s) EXCEPT !.free = @ \cup (ys \ Held(s))]

(* Defect: the reservation is not written down.                            *)
ReservesNothing(s, i, ys) == [Advance(s) EXCEPT !.free = @ \ ys, !.live = @ \cup {i}]

Reserve(s, i, ys) ==
  [Advance(s) EXCEPT !.free = @ \ ys, !.live = @ \cup {i}, !.held[i] = ys]

Drop(s, i) == [s EXCEPT !.live = @ \ {i}, !.held[i] = {}]

(* Spent proofs are dropped before the change is added: change may contain *)
(* reserved coins that were never presented.                               *)
Commit(s, i, change) == AddTo(Drop(s, i), change)

Release(s, i) == [Advance(Drop(s, i)) EXCEPT !.free = @ \cup s.held[i]]

(* An operation of ProofStore as a value, when it is legal and what it     *)
(* makes of a snapshot.                                                    *)
Operations ==
  [kind : {"add"}, id : {"none"}, coins : SUBSET Coins] \cup
  [kind : {"reserve", "commit", "release"}, id : Ids, coins : SUBSET Coins]

Legal(s, op) ==
  CASE op.kind = "add" -> TRUE
    [] op.kind = "reserve" -> op.id \notin s.live /\ op.coins \subseteq s.free
    [] OTHER -> op.id \in s.live

Result(s, op) ==
  CASE op.kind = "add" -> AddTo(s, op.coins)
    [] op.kind = "reserve" -> Reserve(s, op.id, op.coins)
    [] op.kind = "commit" -> Commit(s, op.id, op.coins)
    [] OTHER -> Release(s, op.id)

(* No coin is in two places at once.                                       *)
Partition(s) ==
  \A i \in Ids :
    /\ s.held[i] \cap s.free = {}
    /\ i \notin s.live => s.held[i] = {}
    /\ \A j \in Ids \ {i} : s.held[i] \cap s.held[j] = {}

=============================================================================
