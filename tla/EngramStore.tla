---------------------------- MODULE EngramStore ----------------------------
(***************************************************************************)
(* EngramProofStore: several sessions of one agent keep the wallet as a    *)
(* replaceable event on a relay.  A mutation fetches the head, compares    *)
(* its seq with the last one seen, publishes a newer event and fetches     *)
(* again to see whether it is the head.                                    *)
(*                                                                         *)
(* The relay keeps one event: the newest, and of two equally new ones the  *)
(* one with the lower id.  Ids are hashes, so a writer may draw any.       *)
(***************************************************************************)
EXTENDS Transitions, Integers

CONSTANTS
  Sessions,
  EventIds,    \* a set of positive numbers, compared as ids are
  MaxNow,      \* bound on the wall clock, in seconds
  Overlap,     \* whether mutations of two sessions may overlap
  MaxFaults

VARIABLES
  head,     \* the event the relay answers with
  last,     \* last[s]: lastHead of the session
  call,
  drawn,    \* event and reservation ids that are taken
  now,
  faults

vars == <<head, last, call, drawn, now, faults>>

NoEvent == [id |-> 0, at |-> 0, snap |-> EMPTY_SNAPSHOT]
NoSeq == 0 - 1
Noop == [kind |-> "add", id |-> "none", coins |-> {}]
Idle == [at |-> "idle", op |-> Noop, seen |-> NoSeq, mine |-> NoEvent]

Init ==
  /\ head = NoEvent
  /\ last = [s \in Sessions |-> NoEvent]
  /\ call = [s \in Sessions |-> Idle]
  /\ drawn = {}
  /\ now = 1
  /\ faults = 0

At(s, step) == call[s].at = step
Ends(s) == call' = [call EXCEPT ![s] = Idle]

Newer(e, f) == e.at > f.at \/ (e.at = f.at /\ e.id < f.id)

-----------------------------------------------------------------------------
Mutating(s) == call[s].at \in {"fetch", "publish", "verify"}
MayStart(s) == Overlap \/ \A t \in Sessions \ {s} : ~Mutating(t)

Begin(s, op) ==
  /\ MayStart(s)
  /\ call' = [call EXCEPT ![s] =
       [Idle EXCEPT !.at = "fetch", !.op = op,
                    !.seen = IF last[s] = NoEvent THEN NoSeq ELSE last[s].snap.seq]]
  /\ UNCHANGED <<head, last, now, faults>>

BeginAdd(s, ys) ==
  /\ At(s, "idle")
  /\ Begin(s, [Noop EXCEPT !.coins = ys])
  /\ UNCHANGED drawn

BeginReserve(s, i, ys) ==
  /\ At(s, "idle")
  /\ i \notin drawn
  /\ drawn' = drawn \cup {i}
  /\ Begin(s, [kind |-> "reserve", id |-> i, coins |-> ys])

BeginEnd(s, kind, change) ==
  /\ At(s, "holding")
  /\ Begin(s, [kind |-> kind, id |-> call[s].op.id, coins |-> change])
  /\ UNCHANGED drawn

(* load, which also renews lastHead.                                       *)
Load(s) ==
  /\ ~Mutating(s)
  /\ last' = [last EXCEPT ![s] = head]
  /\ UNCHANGED <<head, call, drawn, now, faults>>

-----------------------------------------------------------------------------
Larger(a, b) == IF a >= b THEN a ELSE b

(* Defect: the clock alone stamps the event.                               *)
StampsNow(h) == now

Stamp(h) == Larger(now, h.at + 1)

(* Defect: the transition is applied to what the session last saw.         *)
TrustsLastHead(s, e) ==
  /\ e = IF last[s] = NoEvent THEN head ELSE last[s]
  /\ Legal(e.snap, call[s].op)

(* The mutation may go on from event e.                                    *)
GoesOn(s, e) ==
  /\ e = head
  /\ call[s].seen \in {NoSeq, e.snap.seq}
  /\ Legal(e.snap, call[s].op)

Fetch(s, i) ==
  /\ At(s, "fetch")
  /\ i \in EventIds \ drawn
  /\ drawn' = drawn \cup {i}
  /\ \E e \in {head, last[s]} :
       /\ GoesOn(s, e)
       /\ call' = [call EXCEPT ![s].at = "publish",
                               ![s].mine = [id |-> i, at |-> Stamp(head),
                                            snap |-> Result(e.snap, call[s].op)]]
  /\ last' = [last EXCEPT ![s] = head]
  /\ UNCHANGED <<head, now, faults>>

(* ConflictError, or an operation the fetched snapshot does not allow; at  *)
(* any time a snapshot that is too large, or a head from the far future.   *)
FetchRefuses(s) ==
  /\ At(s, "fetch")
  /\ Ends(s)
  /\ last' = [last EXCEPT ![s] = head]
  /\ UNCHANGED <<head, drawn, now, faults>>

Publish(s) ==
  /\ At(s, "publish")
  /\ head' = IF Newer(call[s].mine, head) THEN call[s].mine ELSE head
  /\ call' = [call EXCEPT ![s].at = "verify"]
  /\ UNCHANGED <<last, drawn, now, faults>>

Verify(s) ==
  /\ At(s, "verify")
  /\ last' = [last EXCEPT ![s] = head]
  /\ IF head.id = call[s].mine.id /\ call[s].op.kind = "reserve"
       THEN call' = [call EXCEPT ![s] = [Idle EXCEPT !.at = "holding", !.op = call[s].op]]
       ELSE Ends(s)
  /\ UNCHANGED <<head, drawn, now, faults>>

(* The relay does not answer, or the session is reaped: what it had in     *)
(* memory is gone, what it published stays.                                *)
Dies(s) ==
  /\ faults < MaxFaults
  /\ faults' = faults + 1
  /\ Ends(s)
  /\ \E known \in {last[s], NoEvent} : last' = [last EXCEPT ![s] = known]
  /\ UNCHANGED <<head, drawn, now>>

Tick ==
  /\ now < MaxNow
  /\ now' = now + 1
  /\ UNCHANGED <<head, last, call, drawn, faults>>

Next ==
  \/ \E s \in Sessions :
       \/ \E ys \in SUBSET Coins :
            \/ BeginAdd(s, ys)
            \/ \E i \in Ids : BeginReserve(s, i, ys)
            \/ BeginEnd(s, "commit", ys)
       \/ BeginEnd(s, "release", {})
       \/ \E i \in EventIds : Fetch(s, i)
       \/ Load(s) \/ FetchRefuses(s) \/ Publish(s) \/ Verify(s) \/ Dies(s)
  \/ Tick

Spec == Init /\ [][Next]_vars

-----------------------------------------------------------------------------
TypeOK ==
  /\ \A e \in {head} \cup {last[s] : s \in Sessions} \cup {call[s].mine : s \in Sessions} :
       /\ e.id \in EventIds \cup {0}
       /\ e.at \in Nat
       /\ e.snap.free \subseteq Coins /\ e.snap.live \subseteq Ids
       /\ Partition(e.snap)
  /\ \A s \in Sessions :
       /\ call[s].at \in {"idle", "holding", "fetch", "publish", "verify"}
       /\ call[s].op \in Operations

(* While mutations do not overlap, the relay is one atomic snapshot for    *)
(* all sessions, however their tool calls interleave and whenever one of   *)
(* them is reaped.                                                         *)
Store == INSTANCE ProofStore WITH wallet <- head.snap
AtomicStore == Store!Spec

(* And a session is told of a conflict only if there was one: while        *)
(* mutations do not overlap, its event is the head when it looks, although *)
(* clocks may tie and ids are random.                                      *)
PublishWins ==
  ~Overlap =>
    \A s \in Sessions : At(s, "verify") => head.id = call[s].mine.id

(* What the head of engram-store.ts says of concurrent sessions: "A loser  *)
(* gets a conflict, never a silent overwrite of the other session's        *)
(* spend."  The coins a session was told it holds are then reserved for it *)
(* in the record, until it ends the reservation itself.  It does not hold  *)
(* when mutations overlap: two sessions fetch the same head, each          *)
(* publishes and finds its own event, because the second publication comes *)
(* after the first one's check.                                            *)
NoSilentOverwrite ==
  \A s \in Sessions : At(s, "holding") /\ call[s].op.coins # {} =>
    /\ call[s].op.id \in head.snap.live
    /\ head.snap.held[call[s].op.id] = call[s].op.coins

(* While mutations do not overlap, the claim holds, whichever sessions     *)
(* take turns and die.                                                     *)
HeldIsRecorded == ~Overlap => NoSilentOverwrite

(* A publication that becomes the head was made from the head it replaces. *)
BuiltOnHead ==
  \A s \in Sessions :
    Publish(s) /\ head' # head => call[s].mine.snap = Result(head.snap, call[s].op)
=============================================================================
