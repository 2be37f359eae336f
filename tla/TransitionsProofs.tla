-------------------------- MODULE TransitionsProofs --------------------------
(***************************************************************************)
(* What the transitions every wallet store shares make of a snapshot:      *)
(* another snapshot, in which no coin is in two places.                    *)
(***************************************************************************)
EXTENDS Transitions, TLAPS

(* Coins may be put into the free ones of a snapshot.                      *)
LEMMA OnlyFree ==
  ASSUME NEW snap \in Snapshots, NEW ys \in SUBSET Coins
  PROVE  [snap EXCEPT !.free = @ \cup ys] \in Snapshots
BY DEF Snapshots

(* Receiving coins makes a snapshot of a snapshot.                         *)
LEMMA AddToTyped ==
  ASSUME NEW snap \in Snapshots, NEW ys \in SUBSET Coins
  PROVE  AddTo(snap, ys) \in Snapshots
<1> DEFINE more == ys \ Held(snap)
<1>1. more \subseteq Coins
  OBVIOUS
<1> HIDE DEF more
<1>2. Advance(snap) \in Snapshots
  BY DEF Advance, Snapshots
<1>3. [Advance(snap) EXCEPT !.free = @ \cup more] \in Snapshots
  BY <1>1, <1>2, OnlyFree
<1> QED
  BY <1>3 DEF AddTo, more

(* The transitions take snapshots to snapshots.                            *)
LEMMA ResultTyped ==
  ASSUME NEW snap \in Snapshots, NEW op \in Operations
  PROVE  Result(snap, op) \in Snapshots
<1>1. Advance(snap) \in Snapshots
  BY DEF Advance, Snapshots
<1>2. CASE op.kind = "add"
  <2>1. AddTo(snap, op.coins) \in Snapshots
    BY AddToTyped DEF Operations
  <2> QED
    BY <1>2, <2>1 DEF Result
<1>3. CASE op.kind = "reserve"
  <2>1. op.id \in Ids /\ op.coins \subseteq Coins
    BY <1>3 DEF Operations
  <2>2. Reserve(snap, op.id, op.coins) \in Snapshots
    BY <1>1, <2>1 DEF Reserve, Advance, Snapshots
  <2> QED
    BY <1>3, <2>2 DEF Result
<1>4. CASE op.kind \in {"commit", "release"}
  <2>1. op.id \in Ids /\ op.coins \subseteq Coins
    BY <1>4 DEF Operations
  <2>2. Drop(snap, op.id) \in Snapshots
    BY <2>1 DEF Drop, Snapshots
  <2>3. Commit(snap, op.id, op.coins) \in Snapshots
    BY <2>1, <2>2, AddToTyped DEF Commit
  <2>4. Release(snap, op.id) \in Snapshots
    <3>1. Advance(Drop(snap, op.id)) \in Snapshots
      BY <2>2 DEF Advance, Snapshots
    <3>2. snap.held[op.id] \in SUBSET Coins
      BY <2>1 DEF Snapshots
    <3> QED
      BY <3>1, <3>2, OnlyFree DEF Release
  <2> QED
    BY <1>4, <2>3, <2>4 DEF Result
<1> QED
  BY <1>2, <1>3, <1>4 DEF Operations

(* An operation leaves every reservation alone but its own.                *)
LEMMA OthersKept ==
  ASSUME NEW snap \in Snapshots, NEW op \in Operations, NEW i \in Ids,
         op.kind = "add" \/ op.id # i
  PROVE  /\ i \in snap.live => i \in Result(snap, op).live
         /\ Result(snap, op).held[i] = snap.held[i]
<1>1. CASE op.kind = "add"
  BY <1>1 DEF Result, AddTo, Advance, Snapshots
<1>2. CASE op.kind = "reserve"
  <2>1. op.id \in Ids /\ op.id # i
    BY <1>2 DEF Operations
  <2> QED
    BY <1>2, <2>1 DEF Result, Reserve, Advance, Snapshots
<1>3. CASE op.kind \in {"commit", "release"}
  <2>1. op.id \in Ids /\ op.id # i
    BY <1>3 DEF Operations
  <2>2. /\ Drop(snap, op.id).held[i] = snap.held[i]
        /\ i \in snap.live => i \in Drop(snap, op.id).live
        /\ Drop(snap, op.id) \in Snapshots
    BY <2>1 DEF Drop, Snapshots
  <2>3. CASE op.kind = "commit"
    BY <2>2, <2>3 DEF Result, Commit, AddTo, Advance, Snapshots
  <2>4. CASE op.kind = "release"
    BY <2>2, <2>4 DEF Result, Release, Advance, Snapshots
  <2> QED
    BY <1>3, <2>3, <2>4
<1> QED
  BY <1>1, <1>2, <1>3 DEF Operations

(* A reservation writes down the coins it took.                            *)
LEMMA ReserveRecords ==
  ASSUME NEW snap \in Snapshots, NEW op \in Operations, op.kind = "reserve"
  PROVE  /\ op.id \in Result(snap, op).live
         /\ Result(snap, op).held[op.id] = op.coins
<1>1. op.id \in Ids /\ op.coins \subseteq Coins
  BY DEF Operations
<1> QED
  BY <1>1 DEF Result, Reserve, Advance, Snapshots

-----------------------------------------------------------------------------
(* What receiving coins changes.                                           *)
LEMMA AddToFacts ==
  ASSUME NEW snap \in Snapshots, NEW ys \in SUBSET Coins, Partition(snap)
  PROVE  LET next == AddTo(snap, ys) IN
         /\ next \in Snapshots
         /\ Partition(next)
         /\ next.free = snap.free \cup (ys \ Held(snap))
         /\ next.live = snap.live
         /\ next.held = snap.held
<1> DEFINE next == AddTo(snap, ys)
           more == ys \ Held(snap)
<1>1. next \in Snapshots
  BY AddToTyped
<1> HIDE DEF more
<1>2. next.free = snap.free \cup more /\ next.live = snap.live /\ next.held = snap.held
  <2>1. /\ Advance(snap) \in Snapshots /\ Advance(snap).free = snap.free
        /\ Advance(snap).live = snap.live /\ Advance(snap).held = snap.held
    BY DEF Advance, Snapshots
  <2>2. next = [Advance(snap) EXCEPT !.free = @ \cup more]
    BY DEF AddTo, more
  <2> QED
    BY <2>1, <2>2 DEF Snapshots
<1>3. \A i \in Ids : snap.held[i] \cap more = {}
  BY DEF Held, more
<1> HIDE DEF next
<1>4. Partition(next)
  BY <1>2, <1>3 DEF Partition
<1> QED
  BY <1>1, <1>2, <1>4 DEF next, more

(* What taking spendable coins for a new reservation changes.              *)
LEMMA ReserveFacts ==
  ASSUME NEW snap \in Snapshots, NEW i \in Ids, i \notin snap.live,
         NEW ys \in SUBSET snap.free, Partition(snap)
  PROVE  LET next == Reserve(snap, i, ys) IN
         /\ next \in Snapshots
         /\ Partition(next)
         /\ next.free = snap.free \ ys
         /\ next.live = snap.live \cup {i}
         /\ next.held[i] = ys
         /\ \A j \in Ids \ {i} : next.held[j] = snap.held[j]
<1> DEFINE next == Reserve(snap, i, ys)
<1>1. next \in Snapshots
  <2>1. Advance(snap) \in Snapshots /\ ys \subseteq Coins
    BY DEF Advance, Snapshots
  <2> QED
    BY <2>1 DEF Reserve, Advance, Snapshots
<1>2. /\ next.free = snap.free \ ys /\ next.live = snap.live \cup {i}
      /\ next.held = [snap.held EXCEPT ![i] = ys]
  <2> DEFINE adv == Advance(snap)
  <2>1. /\ adv \in Snapshots /\ adv.free = snap.free /\ adv.live = snap.live
        /\ adv.held = snap.held
    BY DEF Advance, Snapshots
  <2> HIDE DEF adv
  <2> DEFINE part == [adv EXCEPT !.free = @ \ ys, !.live = @ \cup {i}]
  <2>2. /\ part \in Snapshots /\ part.free = snap.free \ ys
        /\ part.live = snap.live \cup {i} /\ part.held = snap.held
    BY <2>1 DEF Snapshots
  <2>3. next = [part EXCEPT !.held[i] = ys]
    BY DEF Reserve, adv
  <2> HIDE DEF part, next
  <2> QED
    BY <2>2, <2>3 DEF Snapshots
<1>3. next.held[i] = ys /\ \A j \in Ids \ {i} : next.held[j] = snap.held[j]
  BY <1>2 DEF Snapshots
<1> HIDE DEF next
<1>4. Partition(next)
  <2> SUFFICES ASSUME NEW j \in Ids
               PROVE  /\ next.held[j] \cap next.free = {}
                      /\ j \notin next.live => next.held[j] = {}
                      /\ \A k \in Ids \ {j} : next.held[j] \cap next.held[k] = {}
    BY DEF Partition
  <2>1. \A k \in Ids : snap.held[k] \cap snap.free = {}
    BY DEF Partition
  <2>2. CASE j = i
    BY <1>2, <1>3, <2>1, <2>2
  <2>3. CASE j # i
    BY <1>2, <1>3, <2>1, <2>3 DEF Partition
  <2> QED
    BY <2>2, <2>3
<1> QED
  BY <1>1, <1>2, <1>3, <1>4 DEF next

(* What dropping a reservation changes.                                    *)
LEMMA DropFacts ==
  ASSUME NEW snap \in Snapshots, NEW i \in Ids, Partition(snap)
  PROVE  LET next == Drop(snap, i) IN
         /\ next \in Snapshots
         /\ Partition(next)
         /\ next.free = snap.free
         /\ next.live = snap.live \ {i}
         /\ next.held[i] = {}
         /\ \A j \in Ids \ {i} : next.held[j] = snap.held[j]
<1> DEFINE next == Drop(snap, i)
<1>1. next \in Snapshots
  BY DEF Drop, Snapshots
<1>2. /\ next.free = snap.free /\ next.live = snap.live \ {i}
      /\ next.held[i] = {}
      /\ \A j \in Ids \ {i} : next.held[j] = snap.held[j]
  BY DEF Drop, Snapshots
<1> HIDE DEF next
<1>3. Partition(next)
  BY <1>2 DEF Partition
<1> QED
  BY <1>1, <1>2, <1>3 DEF next

(* What a commit changes: the reservation is gone, and the change is added *)
(* unless the wallet has it elsewhere.                                     *)
LEMMA CommitFacts ==
  ASSUME NEW snap \in Snapshots, NEW i \in Ids, NEW change \in SUBSET Coins, Partition(snap)
  PROVE  LET next == Commit(snap, i, change) IN
         /\ next \in Snapshots
         /\ Partition(next)
         /\ snap.free \subseteq next.free /\ next.free \subseteq snap.free \cup change
         /\ change \subseteq Held(next)
         /\ next.live = snap.live \ {i}
         /\ next.held[i] = {}
         /\ \A j \in Ids \ {i} : next.held[j] = snap.held[j]
<1> DEFINE rest == Drop(snap, i)
           next == Commit(snap, i, change)
<1>1. /\ rest \in Snapshots /\ Partition(rest) /\ rest.free = snap.free
      /\ rest.live = snap.live \ {i} /\ rest.held[i] = {}
      /\ \A j \in Ids \ {i} : rest.held[j] = snap.held[j]
  BY DropFacts
<1>2. next = AddTo(rest, change)
  BY DEF Commit
<1> HIDE DEF rest, next
<1>3. /\ next \in Snapshots /\ Partition(next) /\ next.live = rest.live
      /\ next.free = rest.free \cup (change \ Held(rest)) /\ next.held = rest.held
  BY <1>1, <1>2, AddToFacts
<1>4. change \subseteq Held(next)
  BY <1>3 DEF Held
<1> QED
  BY <1>1, <1>3, <1>4 DEF next

(* What a release changes: the coins of the reservation are spendable.     *)
LEMMA ReleaseFacts ==
  ASSUME NEW snap \in Snapshots, NEW i \in Ids, Partition(snap)
  PROVE  LET next == Release(snap, i) IN
         /\ next \in Snapshots
         /\ Partition(next)
         /\ next.free = snap.free \cup snap.held[i]
         /\ next.live = snap.live \ {i}
         /\ next.held[i] = {}
         /\ \A j \in Ids \ {i} : next.held[j] = snap.held[j]
<1> DEFINE rest == Drop(snap, i)
           next == Release(snap, i)
<1>1. /\ rest \in Snapshots /\ rest.free = snap.free
      /\ rest.live = snap.live \ {i} /\ rest.held[i] = {}
      /\ \A j \in Ids \ {i} : rest.held[j] = snap.held[j]
  BY DropFacts
<1>2. next = [Advance(rest) EXCEPT !.free = @ \cup snap.held[i]]
  BY DEF Release
<1>3. snap.held[i] \in SUBSET Coins
  BY DEF Snapshots
<1> HIDE DEF rest, next
<1>4. Advance(rest) \in Snapshots /\ Advance(rest).free = rest.free
      /\ Advance(rest).live = rest.live /\ Advance(rest).held = rest.held
  BY <1>1 DEF Advance, Snapshots
<1>5. next \in Snapshots
  BY <1>2, <1>3, <1>4, OnlyFree
<1>6. /\ next.free = rest.free \cup snap.held[i]
      /\ next.live = rest.live /\ next.held = rest.held
  BY <1>2, <1>4 DEF Snapshots
<1>7. Partition(next)
  BY <1>1, <1>6 DEF Partition
<1> QED
  BY <1>1, <1>5, <1>6, <1>7 DEF next

(* A legal operation leaves no coin in two places.                         *)
LEMMA ResultPartition ==
  ASSUME NEW snap \in Snapshots, NEW op \in Operations, Partition(snap), Legal(snap, op)
  PROVE  Partition(Result(snap, op))
<1>1. op.coins \in SUBSET Coins
  BY DEF Operations
<1>2. CASE op.kind = "add"
  BY <1>1, <1>2, AddToFacts DEF Result
<1>3. CASE op.kind = "reserve"
  <2>1. op.id \in Ids /\ op.id \notin snap.live /\ op.coins \in SUBSET snap.free
    BY <1>3 DEF Operations, Legal
  <2> QED
    BY <1>3, <2>1, ReserveFacts DEF Result
<1>4. CASE op.kind \in {"commit", "release"}
  <2>1. op.id \in Ids
    BY <1>4 DEF Operations
  <2> QED
    BY <1>1, <1>4, <2>1, CommitFacts, ReleaseFacts DEF Result
<1> QED
  BY <1>2, <1>3, <1>4 DEF Operations

(* The empty wallet is a snapshot.                                         *)
LEMMA EmptyTyped == EMPTY_SNAPSHOT \in Snapshots /\ Partition(EMPTY_SNAPSHOT)
BY DEF EMPTY_SNAPSHOT, Snapshots, Partition
=============================================================================
