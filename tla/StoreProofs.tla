---------------------------- MODULE StoreProofs ----------------------------
(***************************************************************************)
(* The Engram store, for any number of sessions, coins and reservations,   *)
(* however clocks tie and whatever sessions die.  As long as mutations do  *)
(* not overlap, the relay is an atomic wallet for all sessions (EInv).  If *)
(* they overlap, a reservation a session was told of is lost only by a     *)
(* publication that was made from a head it does not replace (ReadInv).    *)
(* WalletProofs states the theorems about Stores with these lemmas.        *)
(***************************************************************************)
EXTENDS EngramStore, TransitionsProofs

Events == [id : EventIds \cup {0}, at : Nat, snap : Snapshots]
Awaits == {"idle", "holding", "fetch", "publish", "verify"}

TypeInv ==
  /\ head \in Events
  /\ now \in Nat
  /\ call \in [Sessions -> [at : Awaits, op : Operations, seen : Int, mine : Events]]
  /\ last \in [Sessions -> Events]

Recorded(op) == op.id \in head.snap.live /\ head.snap.held[op.id] = op.coins

Spends(s) == call[s].op.kind # "add"

(* One session is between the fetch of the head and its verification, and  *)
(* no two sessions work on one reservation.                                *)
Apart ==
  \A s, t \in Sessions : s # t =>
    /\ ~(Mutating(s) /\ Mutating(t))
    /\ Spends(s) /\ Spends(t) => call[s].op.id # call[t].op.id

SessionOK(s) ==
  /\ At(s, "idle") => call[s].op = Noop
  /\ Spends(s) => call[s].op.id \in drawn /\ call[s].op.id \in Ids
  /\ At(s, "publish") =>
       /\ call[s].mine.at > head.at
       /\ Legal(head.snap, call[s].op)
       /\ call[s].mine.snap = Result(head.snap, call[s].op)
  /\ At(s, "verify") =>
       /\ head.id = call[s].mine.id
       /\ call[s].op.kind = "reserve" => Recorded(call[s].op)
  /\ At(s, "holding") => call[s].op.kind = "reserve" /\ Recorded(call[s].op)

EInv == TypeInv /\ Apart /\ \A s \in Sessions : SessionOK(s)

-----------------------------------------------------------------------------
(* The clock stamps above the fetched head, so the new event is newer.     *)
LEMMA StampIsNewer ==
  ASSUME NEW h \in Events, now \in Nat
  PROVE  Stamp(h) \in Nat /\ Stamp(h) > h.at
BY DEF Stamp, Larger, Events

(* What an idle session remembers.                                         *)
LEMMA IdleTyped ==
  /\ NoEvent \in Events
  /\ Noop \in Operations /\ Noop.kind = "add"
  /\ Idle \in [at : Awaits, op : Operations, seen : Int, mine : Events]
  /\ Idle.at = "idle" /\ Idle.op = Noop
<1>1. NoEvent \in Events
  BY DEF NoEvent, Events, EMPTY_SNAPSHOT, Snapshots
<1>2. Noop \in Operations /\ Noop.kind = "add"
  BY DEF Noop, Operations
<1> QED
  BY <1>1, <1>2 DEF Idle, NoSeq, Awaits

(* The empty wallet is an event, and nobody holds anything in it.          *)
LEMMA InitInv == Init => EInv
<1> SUFFICES ASSUME Init PROVE EInv
  OBVIOUS
<1>4. TypeInv
  BY IdleTyped DEF Init, TypeInv
<1>5. \A s \in Sessions : call[s] = Idle
  BY DEF Init
<1>6. Apart
  BY <1>5, IdleTyped DEF Apart, Mutating, Spends
<1>7. \A s \in Sessions : SessionOK(s)
  BY <1>5, IdleTyped DEF SessionOK, Spends, At
<1> QED
  BY <1>4, <1>6, <1>7 DEF EInv

-----------------------------------------------------------------------------
(* Only session s moves, and the head stays: what the others know of their *)
(* reservations and of the head is untouched.                              *)
Turns(s, c) ==
  /\ head' = head
  /\ drawn \subseteq drawn'
  /\ call' = [call EXCEPT ![s] = c]

LEMMA TurnKeeps ==
  ASSUME EInv, TypeInv', NEW s \in Sessions, NEW c, Turns(s, c),
         SessionOK(s)',
         \A t \in Sessions \ {s} :
           /\ c.at \in {"fetch", "publish", "verify"} => ~Mutating(t)
           /\ c.op.kind # "add" /\ Spends(t) => c.op.id # call[t].op.id
  PROVE  EInv'
<1>1. call'[s] = c /\ \A t \in Sessions \ {s} : call'[t] = call[t]
  BY DEF Turns, EInv, TypeInv
<1>2. Apart'
  <2> SUFFICES ASSUME NEW t \in Sessions, NEW u \in Sessions, t # u
               PROVE  /\ ~(Mutating(t)' /\ Mutating(u)')
                      /\ Spends(t)' /\ Spends(u)' => call'[t].op.id # call'[u].op.id
    BY DEF Apart
  <2>1. CASE t = s
    BY <1>1, <2>1 DEF Mutating, Spends
  <2>2. CASE u = s
    BY <1>1, <2>2 DEF Mutating, Spends
  <2>3. CASE t # s /\ u # s
    BY <1>1, <2>3 DEF Mutating, Spends, EInv, Apart
  <2> QED
    BY <2>1, <2>2, <2>3
<1>3. ASSUME NEW t \in Sessions PROVE SessionOK(t)'
  <2>1. CASE t # s
    <3>1. SessionOK(t)
      BY DEF EInv
    <3> QED
      BY <1>1, <2>1, <3>1 DEF SessionOK, At, Spends, Recorded, Turns
  <2> QED
    BY <2>1
<1> QED
  BY <1>2, <1>3 DEF EInv

(* A session becomes idle without touching the head.                       *)
LEMMA EndKeeps ==
  ASSUME EInv, TypeInv', NEW s \in Sessions, Ends(s), head' = head, drawn \subseteq drawn'
  PROVE  EInv'
<1>1. Noop.kind = "add" /\ Idle.op = Noop /\ Idle.at = "idle"
  BY IdleTyped
<1>2. Turns(s, Idle)
  BY DEF Turns, Ends
<1>3. call'[s] = Idle
  BY DEF Ends, EInv, TypeInv
<1>4. SessionOK(s)'
  BY <1>1, <1>3 DEF SessionOK, At, Spends
<1> QED
  BY <1>1, <1>2, <1>4, TurnKeeps

(* The start of a mutation: it is alone, and if it reserves, its id is new;*)
(* if it ends a reservation, it is the session's own.                      *)
LEMMA BeginKeeps ==
  ASSUME EInv, ~Overlap, NEW s \in Sessions, NEW op \in Operations,
         Begin(s, op), drawn \subseteq drawn',
         op.kind # "add" => op.id \in drawn' /\ op.id \in Ids,
         \A t \in Sessions \ {s} : op.kind # "add" /\ Spends(t) => op.id # call[t].op.id
  PROVE  EInv'
<1> DEFINE seen == IF last[s] = NoEvent THEN NoSeq ELSE last[s].snap.seq
<1>0. seen \in Int
  BY DEF EInv, TypeInv, Events, Snapshots, NoSeq
<1> HIDE DEF seen
<1> DEFINE c == [Idle EXCEPT !.at = "fetch", !.op = op, !.seen = seen]
<1>2. Idle \in [at : Awaits, op : Operations, seen : Int, mine : Events]
  BY IdleTyped
<1>3. /\ c.at = "fetch" /\ c.op = op
      /\ c \in [at : Awaits, op : Operations, seen : Int, mine : Events]
  BY <1>0, <1>2 DEF Awaits
<1>4. Turns(s, c)
  BY DEF Turns, Begin, seen
<1>5. call'[s] = c
  BY <1>4 DEF Turns, EInv, TypeInv
<1> HIDE DEF c
<1>6. TypeInv'
  <2>1. UNCHANGED <<head, last, now>>
    BY DEF Begin
  <2> QED
    BY <1>3, <1>4, <2>1 DEF EInv, TypeInv, Turns
<1>7. SessionOK(s)'
  BY <1>3, <1>5 DEF SessionOK, At, Spends
<1>8. \A t \in Sessions \ {s} : ~Mutating(t)
  BY DEF Begin, MayStart
<1> QED
  BY <1>3, <1>4, <1>6, <1>7, <1>8, TurnKeeps

(* A fetch sees the head, so what it will publish is the operation applied *)
(* to it, newer than it.                                                   *)
LEMMA FetchKeeps ==
  ASSUME EInv, NEW s \in Sessions, NEW i \in EventIds, Fetch(s, i)
  PROVE  EInv'
<1> DEFINE mine == [id |-> i, at |-> Stamp(head), snap |-> Result(head.snap, call[s].op)]
           c == [call[s] EXCEPT !.at = "publish", !.mine = mine]
<1>1. call[s] \in [at : Awaits, op : Operations, seen : Int, mine : Events] /\ head \in Events
  BY DEF EInv, TypeInv
<1>2. Result(head.snap, call[s].op) \in Snapshots
  BY <1>1, ResultTyped DEF Events
<1>3. Stamp(head) \in Nat /\ Stamp(head) > head.at
  BY <1>1, StampIsNewer DEF EInv, TypeInv
<1>4. /\ mine \in Events
      /\ mine.at > head.at
      /\ mine.snap = Result(head.snap, call[s].op)
  BY <1>2, <1>3 DEF Events
<1>5. Legal(head.snap, call[s].op) /\ Turns(s, c)
  BY <1>1 DEF Fetch, GoesOn, Turns, EInv, TypeInv
<1>6. call'[s] = c
  BY <1>5 DEF Turns, EInv, TypeInv
<1> HIDE DEF mine
<1>7. /\ c \in [at : Awaits, op : Operations, seen : Int, mine : Events]
      /\ c.at = "publish" /\ c.op = call[s].op /\ c.mine = mine
  BY <1>1, <1>4 DEF Awaits
<1> HIDE DEF c
<1>8. TypeInv'
  <2>1. now' = now /\ last' = [last EXCEPT ![s] = head]
    BY DEF Fetch
  <2>2. \A t \in Sessions : last'[t] \in Events
    BY <1>1, <2>1 DEF EInv, TypeInv
  <2> QED
    BY <1>5, <1>7, <2>1, <2>2 DEF EInv, TypeInv, Turns
<1>9. SessionOK(s)'
  <2>1. SessionOK(s)
    BY DEF EInv
  <2>2. head' = head /\ drawn \subseteq drawn'
    BY <1>5 DEF Turns
  <2> QED
    BY <1>4, <1>5, <1>6, <1>7, <2>1, <2>2 DEF SessionOK, At, Spends
<1>10. Mutating(s)
  BY DEF Fetch, At, Mutating
<1>11. \A t \in Sessions \ {s} :
         /\ ~Mutating(t)
         /\ Spends(s) /\ Spends(t) => call[s].op.id # call[t].op.id
  BY <1>10 DEF EInv, Apart
<1> QED
  BY <1>5, <1>7, <1>8, <1>9, <1>11, TurnKeeps DEF Spends

(* What a publication does: the head becomes the writer's event.           *)
LEMMA Publication ==
  ASSUME EInv, NEW s \in Sessions, Publish(s)
  PROVE  /\ head' = call[s].mine
         /\ Legal(head.snap, call[s].op)
         /\ head'.snap = Result(head.snap, call[s].op)
<1>1. /\ call[s].mine.at > head.at
      /\ Legal(head.snap, call[s].op)
      /\ call[s].mine.snap = Result(head.snap, call[s].op)
  BY DEF EInv, SessionOK, Publish
<1>2. Newer(call[s].mine, head)
  BY <1>1 DEF Newer
<1> QED
  BY <1>1, <1>2 DEF Publish

(* It stays the head until the writer looks, and no other reservation      *)
(* changed.                                                                *)
LEMMA PublishKeeps ==
  ASSUME EInv, NEW s \in Sessions, Publish(s)
  PROVE  EInv'
<1> DEFINE c == [call[s] EXCEPT !.at = "verify"]
<1>1. call[s] \in [at : Awaits, op : Operations, seen : Int, mine : Events] /\ head \in Events
  BY DEF EInv, TypeInv
<1>2. /\ head' = call[s].mine
      /\ head'.snap = Result(head.snap, call[s].op)
  BY Publication
<1>3. /\ c \in [at : Awaits, op : Operations, seen : Int, mine : Events]
      /\ c.at = "verify" /\ c.op = call[s].op /\ c.mine = call[s].mine
  BY <1>1 DEF Awaits
<1>4. call' = [call EXCEPT ![s] = c]
  BY DEF Publish, EInv, TypeInv
<1>5. call'[s] = c /\ \A t \in Sessions \ {s} : call'[t] = call[t]
  BY <1>4 DEF EInv, TypeInv
<1> HIDE DEF c
<1>6. TypeInv'
  BY <1>1, <1>2, <1>3, <1>4 DEF EInv, TypeInv, Publish
<1>7. Mutating(s)
  BY DEF Publish, At, Mutating
<1>8. Apart'
  <2> SUFFICES ASSUME NEW t \in Sessions, NEW u \in Sessions, t # u
               PROVE  /\ ~(Mutating(t)' /\ Mutating(u)')
                      /\ Spends(t)' /\ Spends(u)' => call'[t].op.id # call'[u].op.id
    BY DEF Apart
  <2>1. /\ ~(Mutating(t) /\ Mutating(u))
        /\ Spends(t) /\ Spends(u) => call[t].op.id # call[u].op.id
    BY DEF EInv, Apart
  <2>2. \A v \in Sessions : (Mutating(v)' => Mutating(v)) /\ call'[v].op = call[v].op
    BY <1>3, <1>5, <1>7 DEF Mutating
  <2> QED
    BY <2>1, <2>2 DEF Spends
<1>9. ASSUME NEW t \in Sessions PROVE SessionOK(t)'
  <2>1. SessionOK(t) /\ drawn' = drawn
    BY DEF EInv, Publish
  <2>2. CASE t = s
    <3>1. call[s].op.kind = "reserve" =>
            /\ call[s].op.id \in head'.snap.live
            /\ head'.snap.held[call[s].op.id] = call[s].op.coins
      BY <1>1, <1>2, ReserveRecords DEF Events
    <3> QED
      BY <1>2, <1>3, <1>5, <2>1, <2>2, <3>1 DEF SessionOK, At, Spends, Recorded
  <2>3. CASE t # s
    <3>1. ~Mutating(t) /\ (Spends(s) /\ Spends(t) => call[s].op.id # call[t].op.id)
      BY <1>7, <2>3 DEF EInv, Apart
    <3>2. call'[t] = call[t]
      BY <1>5, <2>3
    <3>3. At(t, "holding") => /\ call[t].op.id \in head'.snap.live
                              /\ head'.snap.held[call[t].op.id] = call[t].op.coins
      <4> SUFFICES ASSUME At(t, "holding")
                   PROVE  /\ call[t].op.id \in head'.snap.live
                          /\ head'.snap.held[call[t].op.id] = call[t].op.coins
        OBVIOUS
      <4>1. Spends(t) /\ Recorded(call[t].op) /\ call[t].op.id \in Ids
        BY <2>1 DEF SessionOK, Spends
      <4>2. call[s].op.kind = "add" \/ call[s].op.id # call[t].op.id
        BY <3>1, <4>1 DEF Spends
      <4> QED
        BY <1>1, <1>2, <4>1, <4>2, OthersKept DEF Recorded, Events
    <3> QED
      BY <2>1, <3>1, <3>2, <3>3 DEF SessionOK, At, Spends, Mutating, Recorded
  <2> QED
    BY <2>2, <2>3
<1> QED
  BY <1>6, <1>8, <1>9 DEF EInv

(* The writer finds its own event, and holds what it recorded.             *)
LEMMA VerifyKeeps ==
  ASSUME EInv, NEW s \in Sessions, Verify(s)
  PROVE  EInv'
<1>1. CASE head.id = call[s].mine.id /\ call[s].op.kind = "reserve"
  <2> DEFINE c == [Idle EXCEPT !.at = "holding", !.op = call[s].op]
  <2>1. call[s].op \in Operations
    BY DEF EInv, TypeInv
  <2>2. /\ c \in [at : Awaits, op : Operations, seen : Int, mine : Events]
        /\ c.at = "holding" /\ c.op = call[s].op
    BY <2>1, IdleTyped DEF Awaits
  <2>3. Turns(s, c)
    BY <1>1 DEF Verify, Turns
  <2>4. call'[s] = c
    BY <2>3 DEF Turns, EInv, TypeInv
  <2> HIDE DEF c
  <2>5. TypeInv'
    BY <2>2, <2>3 DEF EInv, TypeInv, Turns, Verify
  <2>6. SessionOK(s)'
    <3>1. SessionOK(s) /\ Recorded(call[s].op) /\ head' = head /\ drawn' = drawn
      BY <1>1 DEF EInv, SessionOK, Verify
    <3> QED
      BY <1>1, <2>2, <2>4, <3>1 DEF SessionOK, At, Spends, Recorded
  <2>7. \A t \in Sessions \ {s} : Spends(s) /\ Spends(t) => call[s].op.id # call[t].op.id
    BY DEF EInv, Apart
  <2> QED
    BY <2>2, <2>3, <2>5, <2>6, <2>7, TurnKeeps DEF Spends
<1>2. CASE ~(head.id = call[s].mine.id /\ call[s].op.kind = "reserve")
  <2>1. Ends(s) /\ head' = head /\ drawn' = drawn
    BY <1>2 DEF Verify
  <2>2. TypeInv'
    BY <2>1, IdleTyped DEF EInv, TypeInv, Verify, Ends
  <2> QED
    BY <2>1, <2>2, EndKeeps
<1> QED
  BY <1>1, <1>2

-----------------------------------------------------------------------------
(* Every step keeps the invariant.                                         *)
LEMMA StepKeeps ==
  ASSUME EInv, ~Overlap, [Next]_vars
  PROVE  EInv'
<1>1. ASSUME NEW s \in Sessions, NEW ys \in SUBSET Coins, BeginAdd(s, ys)
      PROVE  EInv'
  <2> DEFINE op == [Noop EXCEPT !.coins = ys]
  <2>1. op \in Operations /\ op.kind = "add"
    BY DEF Noop, Operations
  <2>2. Begin(s, op) /\ drawn' = drawn
    BY <1>1 DEF BeginAdd
  <2> HIDE DEF op
  <2> QED
    BY <2>1, <2>2, BeginKeeps
<1>2. ASSUME NEW s \in Sessions, NEW i \in Ids, NEW ys \in SUBSET Coins, BeginReserve(s, i, ys)
      PROVE  EInv'
  <2> DEFINE op == [kind |-> "reserve", id |-> i, coins |-> ys]
  <2>1. op \in Operations /\ op.id = i
    BY DEF Operations
  <2>2. Begin(s, op) /\ drawn' = drawn \cup {i} /\ i \notin drawn
    BY <1>2 DEF BeginReserve
  <2>3. \A t \in Sessions : Spends(t) => call[t].op.id \in drawn
    BY DEF EInv, SessionOK
  <2> HIDE DEF op
  <2> QED
    BY <2>1, <2>2, <2>3, BeginKeeps
<1>3. ASSUME NEW s \in Sessions, NEW ys \in SUBSET Coins,
             NEW kind \in {"commit", "release"}, BeginEnd(s, kind, ys)
      PROVE  EInv'
  <2> DEFINE op == [kind |-> kind, id |-> call[s].op.id, coins |-> ys]
  <2>1. Spends(s) /\ call[s].op.id \in Ids /\ call[s].op.id \in drawn
    BY <1>3 DEF BeginEnd, EInv, SessionOK, Spends
  <2>2. op \in Operations /\ op.id = call[s].op.id
    BY <2>1 DEF Operations
  <2>3. Begin(s, op) /\ drawn' = drawn
    BY <1>3 DEF BeginEnd
  <2>4. \A t \in Sessions \ {s} : Spends(t) => call[s].op.id # call[t].op.id
    BY <2>1 DEF EInv, Apart
  <2> HIDE DEF op
  <2> QED
    BY <2>1, <2>2, <2>3, <2>4, BeginKeeps
<1>4. ASSUME NEW s \in Sessions, Load(s)
      PROVE  EInv'
  <2>1. TypeInv'
    BY <1>4 DEF EInv, TypeInv, Load
  <2>2. UNCHANGED <<head, call, drawn>>
    BY <1>4 DEF Load
  <2> QED
    BY <2>1, <2>2 DEF EInv, Apart, Mutating, Spends, SessionOK, At, Recorded
<1>5. ASSUME NEW s \in Sessions, FetchRefuses(s) \/ Dies(s)
      PROVE  EInv'
  <2>1. Ends(s) /\ head' = head /\ drawn' = drawn /\ now' = now
    BY <1>5 DEF FetchRefuses, Dies
  <2>2. \E e \in {head, last[s], NoEvent} : last' = [last EXCEPT ![s] = e]
    BY <1>5 DEF FetchRefuses, Dies
  <2>3. last' \in [Sessions -> Events]
    BY <2>2, IdleTyped DEF EInv, TypeInv
  <2>4. TypeInv'
    BY <2>1, <2>3, IdleTyped DEF EInv, TypeInv, Ends
  <2> QED
    BY <2>1, <2>4, EndKeeps
<1>6. CASE Tick \/ UNCHANGED vars
  <2>1. TypeInv' /\ UNCHANGED <<head, call, drawn>>
    BY <1>6 DEF Tick, vars, EInv, TypeInv
  <2> QED
    BY <2>1 DEF EInv, Apart, Mutating, Spends, SessionOK, At, Recorded
<1> QED
  BY <1>1, <1>2, <1>3, <1>4, <1>5, <1>6, FetchKeeps, PublishKeeps, VerifyKeeps DEF Next

-----------------------------------------------------------------------------
(* What a session was told it holds is in the record, and the verifying    *)
(* fetch never sees another's event.                                       *)
LEMMA InvFollows == EInv => NoSilentOverwrite /\ PublishWins
<1> SUFFICES ASSUME EInv PROVE NoSilentOverwrite /\ PublishWins
  OBVIOUS
<1>1. NoSilentOverwrite
  BY DEF EInv, SessionOK, NoSilentOverwrite, Recorded
<1>2. PublishWins
  BY DEF EInv, SessionOK, PublishWins
<1> QED
  BY <1>1, <1>2

(* Only a publication changes the wallet, and it is the mutation's         *)
(* transition applied to the wallet there was.                             *)
LEMMA StepIsOperation ==
  ASSUME EInv, [Next]_vars
  PROVE  \/ head' = head
         \/ \E op \in Operations : Legal(head.snap, op) /\ head'.snap = Result(head.snap, op)
<1>1. ASSUME NEW s \in Sessions, Publish(s)
      PROVE  \E op \in Operations : Legal(head.snap, op) /\ head'.snap = Result(head.snap, op)
  <2>1. call[s].op \in Operations
    BY DEF EInv, TypeInv
  <2>2. Legal(head.snap, call[s].op) /\ head'.snap = Result(head.snap, call[s].op)
    BY <1>1, Publication
  <2> QED
    BY <2>1, <2>2
<1>2. CASE ~\E s \in Sessions : Publish(s)
  BY <1>2 DEF Next, vars, BeginAdd, BeginReserve, BeginEnd, Begin, Load, Fetch,
              FetchRefuses, Verify, Dies, Tick
<1> QED
  BY <1>1, <1>2

-----------------------------------------------------------------------------
(* The types of the Engram store, whether mutations overlap or not.        *)
EventOK(e) == e \in Events /\ e.id \in EventIds \cup {0} /\ Partition(e.snap)

EventsOK ==
  /\ EventOK(head)
  /\ \A s \in Sessions : EventOK(last[s]) /\ EventOK(call[s].mine)
  /\ \A s \in Sessions : At(s, "holding") => call[s].op.id \in Ids

EngramTypes == TypeInv /\ EventsOK

LEMMA NoEventOK == EventOK(NoEvent) /\ Idle.mine = NoEvent
  BY IdleTyped, EmptyTyped DEF EventOK, NoEvent, Idle

LEMMA TypesStart == Init => EngramTypes
<1> SUFFICES ASSUME Init PROVE EngramTypes
  OBVIOUS
<1>1. TypeInv
  BY IdleTyped DEF Init, TypeInv
<1> QED  BY <1>1, NoEventOK, IdleTyped DEF Init, EngramTypes, EventsOK, At

LEMMA TypesFollow == EngramTypes => TypeOK
<1> SUFFICES ASSUME EngramTypes PROVE TypeOK
  OBVIOUS
<1>1. \A e : EventOK(e) => /\ e.id \in EventIds \cup {0} /\ e.at \in Nat
                          /\ e.snap.free \subseteq Coins /\ e.snap.live \subseteq Ids
                          /\ Partition(e.snap)
  BY DEF EventOK, Events, Snapshots
<1>2. \A e \in {head} \cup {last[s] : s \in Sessions} \cup {call[s].mine : s \in Sessions} : EventOK(e)
  BY DEF EngramTypes, EventsOK
<1>3. \A s \in Sessions : /\ call[s].at \in {"idle", "holding", "fetch", "publish", "verify"}
                          /\ call[s].op \in Operations
  BY DEF EngramTypes, TypeInv, Awaits
<1> QED  BY <1>1, <1>2, <1>3 DEF TypeOK

(* Session s gets a new record and may see the head again.                 *)
LEMMA TypesStay ==
  ASSUME EngramTypes, NEW s \in Sessions, NEW c \in [at : Awaits, op : Operations, seen : Int, mine : Events],
         EventOK(c.mine), c.at = "holding" => c.op.id \in Ids,
         call' = [call EXCEPT ![s] = c],
         \E e \in {last[s], head, NoEvent} : last' = [last EXCEPT ![s] = e],
         EventOK(head'), now' \in Nat
  PROVE  EngramTypes'
<1>1. PICK e \in {last[s], head, NoEvent} : last' = [last EXCEPT ![s] = e]
  OBVIOUS
<1>2. EventOK(e)
  BY NoEventOK DEF EngramTypes, EventsOK
<1>3. TypeInv'
  BY <1>1, <1>2 DEF EngramTypes, TypeInv, EventOK
<1>4. \A t \in Sessions : call'[t] = (IF t = s THEN c ELSE call[t]) /\ last'[t] \in {e, last[t]}
  BY <1>1 DEF EngramTypes, TypeInv
<1>5. \A t \in Sessions : EventOK(last'[t]) /\ EventOK(call'[t].mine)
  BY <1>2, <1>4 DEF EngramTypes, EventsOK
<1>6. \A t \in Sessions : call'[t].at = "holding" => call'[t].op.id \in Ids
  BY <1>4 DEF EngramTypes, EventsOK, At
<1> QED  BY <1>3, <1>5, <1>6 DEF EngramTypes, EventsOK, EventOK, At

LEMMA TypesStep ==
  ASSUME EngramTypes, [Next]_vars
  PROVE  EngramTypes'
<1>0. \A s \in Sessions : last' = last => \E e \in {last[s], head, NoEvent} : last' = [last EXCEPT ![s] = e]
  BY DEF EngramTypes, TypeInv
<1>1. ASSUME NEW s \in Sessions, NEW op \in Operations, Begin(s, op)
      PROVE  EngramTypes'
  <2> DEFINE seen == IF last[s] = NoEvent THEN NoSeq ELSE last[s].snap.seq
             c == [Idle EXCEPT !.at = "fetch", !.op = op, !.seen = seen]
  <2>1. seen \in Int
    BY DEF EngramTypes, TypeInv, Events, Snapshots, NoSeq
  <2> HIDE DEF seen
  <2>2. c \in [at : Awaits, op : Operations, seen : Int, mine : Events] /\ c.mine = NoEvent /\ c.at = "fetch"
    BY <2>1, IdleTyped DEF Idle, Awaits
  <2>3. call' = [call EXCEPT ![s] = c]
    BY <1>1 DEF Begin, seen
  <2> HIDE DEF c
  <2>4. UNCHANGED <<head, last, now>>
    BY <1>1 DEF Begin
  <2>5. EventOK(head') /\ now' \in Nat
    BY <2>4 DEF EngramTypes, EventsOK, TypeInv
  <2>6. EventOK(c.mine) /\ \E e \in {last[s], head, NoEvent} : last' = [last EXCEPT ![s] = e]
    BY <1>0, <2>2, <2>4, NoEventOK
  <2> QED  BY <2>2, <2>3, <2>5, <2>6, TypesStay
<1>2. ASSUME NEW s \in Sessions, NEW ys \in SUBSET Coins, BeginAdd(s, ys) PROVE EngramTypes'
  <2>1. [Noop EXCEPT !.coins = ys] \in Operations
    BY DEF Noop, Operations
  <2> QED  BY <1>1, <1>2, <2>1 DEF BeginAdd
<1>3. ASSUME NEW s \in Sessions, NEW i \in Ids, NEW ys \in SUBSET Coins, BeginReserve(s, i, ys)
      PROVE  EngramTypes'
  <2>1. [kind |-> "reserve", id |-> i, coins |-> ys] \in Operations
    BY DEF Operations
  <2> QED  BY <1>1, <1>3, <2>1 DEF BeginReserve
<1>4. ASSUME NEW s \in Sessions, NEW ys \in SUBSET Coins, NEW kind \in {"commit", "release"},
             BeginEnd(s, kind, ys)
      PROVE  EngramTypes'
  <2>1. [kind |-> kind, id |-> call[s].op.id, coins |-> ys] \in Operations
    BY <1>4 DEF BeginEnd, EngramTypes, EventsOK, Operations
  <2> QED  BY <1>1, <1>4, <2>1 DEF BeginEnd
<1>5. ASSUME NEW s \in Sessions, NEW i \in EventIds, Fetch(s, i) PROVE EngramTypes'
  <2>1. PICK e \in {head, last[s]} :
          /\ GoesOn(s, e)
          /\ call' = [call EXCEPT ![s].at = "publish",
                                  ![s].mine = [id |-> i, at |-> Stamp(head),
                                               snap |-> Result(e.snap, call[s].op)]]
    BY <1>5 DEF Fetch
  <2> DEFINE m == [id |-> i, at |-> Stamp(head), snap |-> Result(e.snap, call[s].op)]
             c == [call[s] EXCEPT !.at = "publish", !.mine = m]
  <2>2. EventOK(head) /\ call[s].op \in Operations /\ now \in Nat
    BY DEF EngramTypes, EventsOK, TypeInv
  <2>3. e = head /\ Legal(head.snap, call[s].op) /\ head.snap \in Snapshots /\ Partition(head.snap)
    BY <2>1, <2>2 DEF GoesOn, EventOK, Events
  <2>4. Result(e.snap, call[s].op) \in Snapshots /\ Partition(Result(e.snap, call[s].op))
    BY <2>2, <2>3, ResultTyped, ResultPartition
  <2>5. Stamp(head) \in Nat
    BY <2>2, StampIsNewer DEF EventOK
  <2>6. EventOK(m)
    BY <2>4, <2>5 DEF EventOK, Events
  <2> HIDE DEF m
  <2>7. c \in [at : Awaits, op : Operations, seen : Int, mine : Events] /\ c.mine = m /\ c.at = "publish"
    BY <2>6 DEF EventOK, EngramTypes, TypeInv, Awaits
  <2>8. call' = [call EXCEPT ![s] = c]
    BY <2>1 DEF EngramTypes, TypeInv, m
  <2> HIDE DEF c
  <2> QED  BY <1>5, <2>2, <2>6, <2>7, <2>8, TypesStay DEF Fetch
<1>6. ASSUME NEW s \in Sessions, Publish(s) PROVE EngramTypes'
  <2> DEFINE c == [call[s] EXCEPT !.at = "verify"]
  <2>1. c \in [at : Awaits, op : Operations, seen : Int, mine : Events] /\ c.mine = call[s].mine /\ c.at = "verify"
    BY DEF EngramTypes, TypeInv, Awaits
  <2>2. call' = [call EXCEPT ![s] = c]
    BY <1>6 DEF Publish, EngramTypes, TypeInv
  <2>3. EventOK(head') /\ EventOK(c.mine)
    BY <1>6, <2>1 DEF Publish, EngramTypes, EventsOK
  <2> HIDE DEF c
  <2> QED  BY <1>0, <1>6, <2>1, <2>2, <2>3, TypesStay DEF Publish, EngramTypes, TypeInv
<1>7. ASSUME NEW s \in Sessions, Ends(s), UNCHANGED <<head, now>>,
             \E e \in {last[s], head, NoEvent} : last' = [last EXCEPT ![s] = e]
      PROVE  EngramTypes'
  <2>1. EventOK(head') /\ now' \in Nat
    BY <1>7 DEF EngramTypes, EventsOK, TypeInv
  <2> QED  BY <1>7, <2>1, IdleTyped, NoEventOK, TypesStay DEF Ends
<1>8. ASSUME NEW s \in Sessions, Verify(s) PROVE EngramTypes'
  <2>1. CASE head.id = call[s].mine.id /\ call[s].op.kind = "reserve"
    <3> DEFINE c == [Idle EXCEPT !.at = "holding", !.op = call[s].op]
    <3>1. call[s].op \in Operations
      BY DEF EngramTypes, TypeInv
    <3>2. c \in [at : Awaits, op : Operations, seen : Int, mine : Events] /\ c.mine = NoEvent /\ c.op = call[s].op
      BY <3>1, IdleTyped DEF Idle, Awaits
    <3>3. c.op.id \in Ids
      BY <2>1, <3>1, <3>2 DEF Operations
    <3>4. call' = [call EXCEPT ![s] = c] /\ last' = [last EXCEPT ![s] = head] /\ UNCHANGED <<head, now>>
      BY <1>8, <2>1 DEF Verify
    <3> HIDE DEF c
    <3> QED  BY <3>2, <3>3, <3>4, NoEventOK, TypesStay DEF EngramTypes, EventsOK, TypeInv
  <2>2. CASE ~(head.id = call[s].mine.id /\ call[s].op.kind = "reserve")
    BY <1>7, <1>8, <2>2 DEF Verify
  <2> QED  BY <2>1, <2>2
<1>9. ASSUME NEW s \in Sessions, FetchRefuses(s) \/ Dies(s) PROVE EngramTypes'
  BY <1>7, <1>9 DEF FetchRefuses, Dies
<1>10. ASSUME NEW s \in Sessions, Load(s) PROVE EngramTypes'
  <2>1. last' = [last EXCEPT ![s] = head] /\ UNCHANGED <<head, call, now>>
    BY <1>10 DEF Load
  <2>2. TypeInv' /\ \A t \in Sessions : last'[t] \in {head, last[t]}
    BY <2>1 DEF EngramTypes, TypeInv
  <2> QED  BY <2>1, <2>2 DEF EngramTypes, EventsOK, EventOK, At
<1>11. CASE Tick \/ UNCHANGED vars
  BY <1>11 DEF Tick, vars, EngramTypes, TypeInv, EventsOK, EventOK, At
<1> QED  BY <1>2, <1>3, <1>4, <1>5, <1>6, <1>8, <1>9, <1>10, <1>11 DEF Next

-----------------------------------------------------------------------------
(* Mutations that may overlap.                                             *)
Writes(s) == call[s].at \in {"publish", "verify"}

(* No two sessions work on one reservation or made the same event, and     *)
(* while an event is not published it is not the head.                     *)
Distinct ==
  /\ head.id \in drawn \cup {0}
  /\ \A s, t \in Sessions : s # t =>
       /\ Spends(s) /\ Spends(t) => call[s].op.id # call[t].op.id
       /\ Writes(s) /\ Writes(t) => call[s].mine.id # call[t].mine.id

ReaderOK(s) ==
  /\ At(s, "idle") => call[s].op = Noop
  /\ Spends(s) => call[s].op.id \in drawn /\ call[s].op.id \in Ids
  /\ Writes(s) => call[s].mine.id \in drawn \ {0}
  /\ At(s, "publish") => head.id # call[s].mine.id
  /\ At(s, "verify") /\ call[s].op.kind = "reserve" /\ head.id = call[s].mine.id =>
       Recorded(call[s].op)
  /\ At(s, "holding") => call[s].op.kind = "reserve" /\ Recorded(call[s].op)

ReadInv == EngramTypes /\ Distinct /\ \A s \in Sessions : ReaderOK(s)

LEMMA ReadStart == Init => ReadInv
<1> SUFFICES ASSUME Init PROVE ReadInv
  OBVIOUS
<1>1. \A s \in Sessions : call[s] = Idle
  BY DEF Init
<1>2. head.id = 0
  BY DEF Init, NoEvent
<1>3. Distinct
  BY <1>1, <1>2, IdleTyped DEF Distinct, Spends, Writes
<1>4. \A s \in Sessions : ReaderOK(s)
  BY <1>1, IdleTyped DEF ReaderOK, Spends, Writes, At
<1> QED
  BY <1>3, <1>4, TypesStart DEF ReadInv

(* A session that moves alone and leaves the head as it is.                *)
LEMMA ReaderTurns ==
  ASSUME ReadInv, EngramTypes', NEW s \in Sessions, NEW c, Turns(s, c), ReaderOK(s)',
         \A t \in Sessions \ {s} :
           /\ c.op.kind # "add" /\ Spends(t) => c.op.id # call[t].op.id
           /\ c.at \in {"publish", "verify"} /\ Writes(t) => c.mine.id # call[t].mine.id
  PROVE  ReadInv'
<1>1. call'[s] = c /\ \A t \in Sessions \ {s} : call'[t] = call[t]
  BY DEF Turns, ReadInv, EngramTypes, TypeInv
<1>2. head' = head /\ drawn \subseteq drawn'
  BY DEF Turns
<1>3. Distinct'
  <2>1. head'.id \in drawn' \cup {0}
    BY <1>2 DEF ReadInv, Distinct
  <2>2. ASSUME NEW t \in Sessions, NEW u \in Sessions, t # u
        PROVE  /\ Spends(t)' /\ Spends(u)' => call'[t].op.id # call'[u].op.id
               /\ Writes(t)' /\ Writes(u)' => call'[t].mine.id # call'[u].mine.id
    <3>1. CASE t = s
      BY <1>1, <2>2, <3>1 DEF Writes, Spends
    <3>2. CASE u = s
      BY <1>1, <2>2, <3>2 DEF Writes, Spends
    <3>3. CASE t # s /\ u # s
      BY <1>1, <2>2, <3>3 DEF Writes, Spends, ReadInv, Distinct
    <3> QED
      BY <3>1, <3>2, <3>3
  <2> QED
    BY <2>1, <2>2 DEF Distinct
<1>4. ASSUME NEW t \in Sessions PROVE ReaderOK(t)'
  <2>1. CASE t # s
    <3>1. ReaderOK(t) /\ call'[t] = call[t]
      BY <1>1, <2>1 DEF ReadInv
    <3> QED
      BY <1>2, <3>1 DEF ReaderOK, At, Spends, Writes, Recorded
  <2> QED
    BY <2>1
<1> QED
  BY <1>3, <1>4 DEF ReadInv

(* A mutation begins, whether or not another one is under way.             *)
LEMMA ReaderBegins ==
  ASSUME ReadInv, EngramTypes', NEW s \in Sessions, NEW op \in Operations,
         Begin(s, op), drawn \subseteq drawn',
         op.kind # "add" => op.id \in drawn' /\ op.id \in Ids,
         \A t \in Sessions \ {s} : op.kind # "add" /\ Spends(t) => op.id # call[t].op.id
  PROVE  ReadInv'
<1> DEFINE seen == IF last[s] = NoEvent THEN NoSeq ELSE last[s].snap.seq
           c == [Idle EXCEPT !.at = "fetch", !.op = op, !.seen = seen]
<1>1. c.at = "fetch" /\ c.op = op
  BY DEF Idle
<1>2. Turns(s, c)
  BY DEF Turns, Begin
<1>3. call'[s] = c
  BY <1>2 DEF Turns, ReadInv, EngramTypes, TypeInv
<1> HIDE DEF c
<1>4. ReaderOK(s)'
  BY <1>1, <1>3 DEF ReaderOK, At, Spends, Writes
<1> QED
  BY <1>1, <1>2, <1>4, ReaderTurns

LEMMA ReaderEnds ==
  ASSUME ReadInv, EngramTypes', NEW s \in Sessions, Ends(s), head' = head, drawn \subseteq drawn'
  PROVE  ReadInv'
<1>1. Noop.kind = "add" /\ Idle.op = Noop /\ Idle.at = "idle"
  BY IdleTyped
<1>2. Turns(s, Idle)
  BY DEF Turns, Ends
<1>3. call'[s] = Idle
  BY DEF Ends, ReadInv, EngramTypes, TypeInv
<1>4. ReaderOK(s)'
  BY <1>1, <1>3 DEF ReaderOK, At, Spends, Writes
<1> QED
  BY <1>1, <1>2, <1>4, ReaderTurns

(* A fetch draws an event id nobody had.                                   *)
LEMMA ReaderFetches ==
  ASSUME ReadInv, EngramTypes', 0 \notin EventIds,
         NEW s \in Sessions, NEW i \in EventIds, Fetch(s, i)
  PROVE  ReadInv'
<1>1. PICK e \in {head, last[s]} :
        call' = [call EXCEPT ![s].at = "publish",
                             ![s].mine = [id |-> i, at |-> Stamp(head),
                                          snap |-> Result(e.snap, call[s].op)]]
  BY DEF Fetch
<1> DEFINE m == [id |-> i, at |-> Stamp(head), snap |-> Result(e.snap, call[s].op)]
           c == [call[s] EXCEPT !.at = "publish", !.mine = m]
<1>2. call[s] \in [at : Awaits, op : Operations, seen : Int, mine : Events]
  BY DEF ReadInv, EngramTypes, TypeInv
<1>3. m.id = i
  OBVIOUS
<1>4. call' = [call EXCEPT ![s] = c]
  BY <1>1, <1>2 DEF ReadInv, EngramTypes, TypeInv
<1> HIDE DEF m
<1>5. c.at = "publish" /\ c.op = call[s].op /\ c.mine.id = i
  BY <1>2, <1>3
<1> HIDE DEF c
<1>6. i \notin drawn /\ drawn' = drawn \cup {i} /\ head' = head
  BY DEF Fetch
<1>7. Turns(s, c)
  BY <1>4, <1>6 DEF Turns
<1>8. call'[s] = c
  BY <1>4 DEF ReadInv, EngramTypes, TypeInv
<1>9. head.id # i /\ i # 0
  BY <1>6 DEF ReadInv, Distinct
<1>10. ReaderOK(s)'
  <2>1. Spends(s) => call[s].op.id \in drawn /\ call[s].op.id \in Ids
    BY DEF ReadInv, ReaderOK
  <2> QED
    BY <1>5, <1>6, <1>8, <1>9, <2>1 DEF ReaderOK, At, Spends, Writes
<1>11. \A t \in Sessions \ {s} :
         /\ c.op.kind # "add" /\ Spends(t) => c.op.id # call[t].op.id
         /\ Writes(t) => c.mine.id # call[t].mine.id
  BY <1>5, <1>6 DEF ReadInv, Distinct, ReaderOK, Spends
<1> QED
  BY <1>7, <1>10, <1>11, ReaderTurns

(* A publication that becomes the head was made from the head: it changes  *)
(* no reservation but its own, and nobody else finds its own event then.   *)
LEMMA ReaderPublishes ==
  ASSUME ReadInv, EngramTypes', BuiltOnHead, NEW s \in Sessions, Publish(s)
  PROVE  ReadInv'
<1> DEFINE c == [call[s] EXCEPT !.at = "verify"]
<1>1. /\ call[s] \in [at : Awaits, op : Operations, seen : Int, mine : Events]
      /\ head \in Events /\ At(s, "publish")
  BY DEF ReadInv, EngramTypes, TypeInv, Publish
<1>2. c.at = "verify" /\ c.op = call[s].op /\ c.mine = call[s].mine
  BY <1>1
<1>3. call' = [call EXCEPT ![s] = c] /\ drawn' = drawn
  BY DEF Publish, ReadInv, EngramTypes, TypeInv
<1> HIDE DEF c
<1>4. call'[s] = c /\ \A t \in Sessions \ {s} : call'[t] = call[t]
  BY <1>3 DEF ReadInv, EngramTypes, TypeInv
<1>5. \A t \in Sessions : ReaderOK(t)
  BY DEF ReadInv
<1>6. head.id # call[s].mine.id /\ call[s].mine.id \in drawn \ {0} /\ Writes(s)
  BY <1>1, <1>5 DEF ReaderOK, Writes, At
<1>7. head' \in {head, call[s].mine}
  BY DEF Publish
<1>8. Distinct'
  <2>1. head'.id \in drawn' \cup {0}
    BY <1>3, <1>6, <1>7 DEF ReadInv, Distinct
  <2>2. \A v \in Sessions : /\ call'[v].op = call[v].op /\ call'[v].mine = call[v].mine
                            /\ Writes(v)' => Writes(v)
    BY <1>2, <1>4, <1>6 DEF Writes
  <2> QED
    BY <2>1, <2>2 DEF ReadInv, Distinct, Spends
<1>9. CASE head' = head
  <2>1. ASSUME NEW t \in Sessions PROVE ReaderOK(t)'
    <3>1. CASE t = s
      BY <1>2, <1>3, <1>4, <1>5, <1>6, <1>9, <3>1 DEF ReaderOK, At, Spends, Writes
    <3>2. CASE t # s
      BY <1>3, <1>4, <1>5, <1>9, <3>2 DEF ReaderOK, At, Spends, Writes, Recorded
    <3> QED
      BY <3>1, <3>2
  <2> QED
    BY <1>8, <2>1 DEF ReadInv
<1>10. CASE head' = call[s].mine /\ head' # head
  <2>1. head'.snap = Result(head.snap, call[s].op)
    BY <1>10 DEF BuiltOnHead
  <2>2. ASSUME NEW t \in Sessions PROVE ReaderOK(t)'
    <3>1. CASE t = s
      <4>1. call[s].op.kind = "reserve" =>
              /\ call[s].op.id \in head'.snap.live
              /\ head'.snap.held[call[s].op.id] = call[s].op.coins
        BY <1>1, <2>1, ReserveRecords DEF Events
      <4>2. Spends(s) => call[s].op.id \in drawn /\ call[s].op.id \in Ids
        BY <1>5 DEF ReaderOK
      <4> QED
        BY <1>2, <1>3, <1>4, <1>6, <3>1, <4>1, <4>2 DEF ReaderOK, At, Spends, Writes, Recorded
    <3>2. CASE t # s
      <4>1. call'[t] = call[t] /\ ReaderOK(t)
        BY <1>4, <1>5, <3>2
      <4>2. Writes(t) => head'.id # call[t].mine.id
        BY <1>6, <1>10, <3>2 DEF ReadInv, Distinct
      <4>3. At(t, "holding") => /\ call[t].op.id \in head'.snap.live
                                /\ head'.snap.held[call[t].op.id] = call[t].op.coins
        <5> SUFFICES ASSUME At(t, "holding")
                     PROVE  /\ call[t].op.id \in head'.snap.live
                            /\ head'.snap.held[call[t].op.id] = call[t].op.coins
          OBVIOUS
        <5>1. Spends(t) /\ Recorded(call[t].op) /\ call[t].op.id \in Ids
          BY <4>1 DEF ReaderOK, Spends
        <5>2. call[s].op.kind = "add" \/ call[s].op.id # call[t].op.id
          BY <3>2, <5>1 DEF Spends, ReadInv, Distinct
        <5> QED
          BY <1>1, <2>1, <5>1, <5>2, OthersKept DEF Recorded, Events
      <4> QED
        BY <1>3, <4>1, <4>2, <4>3 DEF ReaderOK, At, Spends, Writes, Recorded
    <3> QED
      BY <3>1, <3>2
  <2> QED
    BY <1>8, <2>2 DEF ReadInv
<1> QED
  BY <1>7, <1>9, <1>10

(* Who finds its own event as the head finds its reservation there.        *)
LEMMA ReaderVerifies ==
  ASSUME ReadInv, EngramTypes', NEW s \in Sessions, Verify(s)
  PROVE  ReadInv'
<1>1. CASE head.id = call[s].mine.id /\ call[s].op.kind = "reserve"
  <2> DEFINE c == [Idle EXCEPT !.at = "holding", !.op = call[s].op]
  <2>1. c.at = "holding" /\ c.op = call[s].op
    BY DEF Idle
  <2>2. Turns(s, c)
    BY <1>1 DEF Verify, Turns
  <2>3. call'[s] = c
    BY <2>2 DEF Turns, ReadInv, EngramTypes, TypeInv
  <2> HIDE DEF c
  <2>4. ReaderOK(s) /\ Recorded(call[s].op) /\ head' = head /\ drawn' = drawn
    BY <1>1 DEF ReadInv, ReaderOK, Verify
  <2>5. ReaderOK(s)'
    BY <1>1, <2>1, <2>3, <2>4 DEF ReaderOK, At, Spends, Writes, Recorded
  <2>6. \A t \in Sessions \ {s} : Spends(s) /\ Spends(t) => call[s].op.id # call[t].op.id
    BY DEF ReadInv, Distinct
  <2> QED
    BY <2>1, <2>2, <2>5, <2>6, ReaderTurns DEF Spends
<1>2. CASE ~(head.id = call[s].mine.id /\ call[s].op.kind = "reserve")
  <2>1. Ends(s) /\ head' = head /\ drawn' = drawn
    BY <1>2 DEF Verify
  <2> QED
    BY <2>1, ReaderEnds
<1> QED
  BY <1>1, <1>2

LEMMA ReadStep ==
  ASSUME ReadInv, 0 \notin EventIds, [Next /\ BuiltOnHead]_vars
  PROVE  ReadInv'
<1>0. EngramTypes'
  BY TypesStep DEF ReadInv
<1>1. ASSUME NEW s \in Sessions, NEW ys \in SUBSET Coins, BeginAdd(s, ys)
      PROVE  ReadInv'
  <2> DEFINE op == [Noop EXCEPT !.coins = ys]
  <2>1. op \in Operations /\ op.kind = "add"
    BY DEF Noop, Operations
  <2>2. Begin(s, op) /\ drawn' = drawn
    BY <1>1 DEF BeginAdd
  <2> HIDE DEF op
  <2> QED
    BY <1>0, <2>1, <2>2, ReaderBegins
<1>2. ASSUME NEW s \in Sessions, NEW i \in Ids, NEW ys \in SUBSET Coins, BeginReserve(s, i, ys)
      PROVE  ReadInv'
  <2> DEFINE op == [kind |-> "reserve", id |-> i, coins |-> ys]
  <2>1. op \in Operations /\ op.id = i
    BY DEF Operations
  <2>2. Begin(s, op) /\ drawn' = drawn \cup {i} /\ i \notin drawn
    BY <1>2 DEF BeginReserve
  <2>3. \A t \in Sessions : Spends(t) => call[t].op.id \in drawn
    BY DEF ReadInv, ReaderOK
  <2> HIDE DEF op
  <2> QED
    BY <1>0, <2>1, <2>2, <2>3, ReaderBegins
<1>3. ASSUME NEW s \in Sessions, NEW ys \in SUBSET Coins,
             NEW kind \in {"commit", "release"}, BeginEnd(s, kind, ys)
      PROVE  ReadInv'
  <2> DEFINE op == [kind |-> kind, id |-> call[s].op.id, coins |-> ys]
  <2>1. Spends(s) /\ call[s].op.id \in Ids /\ call[s].op.id \in drawn
    BY <1>3 DEF BeginEnd, ReadInv, ReaderOK, Spends
  <2>2. op \in Operations /\ op.id = call[s].op.id
    BY <2>1 DEF Operations
  <2>3. Begin(s, op) /\ drawn' = drawn
    BY <1>3 DEF BeginEnd
  <2>4. \A t \in Sessions \ {s} : Spends(t) => call[s].op.id # call[t].op.id
    BY <2>1 DEF ReadInv, Distinct
  <2> HIDE DEF op
  <2> QED
    BY <1>0, <2>1, <2>2, <2>3, <2>4, ReaderBegins
<1>4. ASSUME NEW s \in Sessions, FetchRefuses(s) \/ Dies(s)
      PROVE  ReadInv'
  <2>1. Ends(s) /\ head' = head /\ drawn' = drawn
    BY <1>4 DEF FetchRefuses, Dies
  <2> QED
    BY <1>0, <2>1, ReaderEnds
<1>5. ASSUME NEW s \in Sessions, Publish(s), BuiltOnHead PROVE ReadInv'
  BY <1>0, <1>5, ReaderPublishes
<1>6. ASSUME UNCHANGED <<head, call, drawn>>
      PROVE  ReadInv'
  BY <1>0, <1>6 DEF ReadInv, Distinct, ReaderOK, At, Spends, Writes, Recorded
<1>7. ASSUME NEW s \in Sessions, NEW i \in EventIds, Fetch(s, i) PROVE ReadInv'
  BY <1>0, <1>7, ReaderFetches
<1>8. ASSUME NEW s \in Sessions, Verify(s) PROVE ReadInv'
  BY <1>0, <1>8, ReaderVerifies
<1>9. ASSUME NEW s \in Sessions, Load(s) PROVE ReadInv'
  BY <1>6, <1>9 DEF Load
<1>10. CASE Tick \/ UNCHANGED vars
  BY <1>6, <1>10 DEF Tick, vars
<1>11. ASSUME Next, BuiltOnHead PROVE ReadInv'
  BY <1>1, <1>2, <1>3, <1>4, <1>5, <1>7, <1>8, <1>9, <1>10, <1>11 DEF Next
<1> QED
  BY <1>10, <1>11

(* The claim of engram-store.ts:16 for mutations that overlap in any way:  *)
(* a session loses what it was told it holds only when a publication       *)
(* becomes the head that was not made from the head it replaces, which is  *)
(* what the run engram_overlap shows.  So a relay that refused such a      *)
(* publication would make the claim true.                                  *)
THEOREM OverwritesAreStale ==
  ASSUME 0 \notin EventIds
  PROVE  Spec /\ [][BuiltOnHead]_vars => []NoSilentOverwrite
<1>1. ReadInv /\ [Next]_vars /\ [BuiltOnHead]_vars => ReadInv'
  BY ReadStep
<1>2. ReadInv => NoSilentOverwrite
  BY DEF ReadInv, ReaderOK, NoSilentOverwrite, Recorded
<1> QED
  BY <1>1, <1>2, ReadStart, PTL DEF Spec
=============================================================================
