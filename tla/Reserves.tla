------------------------------ MODULE Reserves ------------------------------
(***************************************************************************)
(* The reserves dashboard as a protocol over its KV records: refreshes     *)
(* that discover the tokens of a permissionless factory a window of blocks *)
(* at a time, read the metadata of the new ones, publish a snapshot and    *)
(* append points to histories.  Every KV call is a step of its own.        *)
(*                                                                         *)
(* The Node server runs one refresh at a time over files; the Worker runs  *)
(* as many as its cron and POST /v1/refresh start, over a KV whose reads   *)
(* may return any value written before.  A record is therefore the set of  *)
(* values a read of it may return.                                         *)
(***************************************************************************)
EXTENDS Integers, FiniteSets, Sequences

CONSTANTS
  Tokens, CreatedAt,   \* addresses, and the block that creates each
  Genesis,             \* those without a TokenCreated event (GENESIS_TOKENS)
  Watched,             \* those whose history is kept when they are recognized
  Window,              \* blocks one run scans at most
  MetaPerRun,          \* new tokens one run reads (maxMetaReadsPerRun)
  Runners,             \* refreshes that may be in flight
  SingleFlight,        \* server.ts: a trigger during a run is a no-op
  EventualKv,          \* Workers KV: a read may be stale
  Gap, Points,         \* 55 minutes, HISTORY_POINTS
  MaxBlocks, MaxTime   \* bounds

ASSUME ReservesAssumption ==
  /\ CreatedAt \in [Tokens -> Nat]
  /\ Genesis \subseteq Tokens /\ Watched \subseteq Tokens
  /\ Window \in Nat \ {0} /\ MetaPerRun \in Nat \ {0}
  /\ Gap \in Nat \ {0} /\ Points \in Nat \ {0}
  /\ SingleFlight \in BOOLEAN /\ EventualKv \in BOOLEAN

VARIABLES
  block, now,  \* the chain's head, the clock
  registry,    \* tokens and the last block scanned
  meta,        \* tokens whose metadata is cached
  snapshot,    \* block of the snapshot that was written last, None before
  history,     \* history[t]: times of its points
  run          \* run[r]: where a refresh is, and what it holds

vars == <<block, now, registry, meta, snapshot, history, run>>

None == -1
Factory == Tokens \ Genesis
Registries == [tokens : SUBSET Tokens, cursor : Int]
Unset == [tokens |-> {}, cursor |-> None]
Idle == [pc |-> "idle", head |-> 0, reg |-> Unset, meta |-> {}, at |-> 0,
         left |-> {}, tok |-> {}, points |-> <<>>]

Put(record, value) == IF EventualKv THEN record \cup {value} ELSE {value}

(* Histories keep their rhythm, whichever runs append to one.              *)
IsHistory(points) ==
  /\ points \in Seq(Nat) /\ Len(points) <= Points
  /\ \A i \in 1..(Len(points) - 1) : points[i + 1] - points[i] >= Gap

TypeOK ==
  /\ block \in Nat /\ now \in Nat
  /\ registry \subseteq Registries
  /\ meta \subseteq SUBSET Tokens
  /\ snapshot \in Int
  /\ \A t \in Tokens : \A points \in history[t] : IsHistory(points)
  /\ \A r \in Runners :
       /\ run[r].pc \in {"idle", "registry", "meta", "discover", "metadata",
                         "snapshot", "history", "append"}
       /\ run[r].head \in Nat /\ run[r].reg \in Registries /\ run[r].meta \subseteq Tokens

(* registryFromScan, metaFromScan: what an offline scan up to block b has. *)
Scanned(b) == {t \in Factory : CreatedAt[t] <= b}
FromScan(b) ==
  [tokens |-> Scanned(b),
   cursor |-> IF \E t \in Scanned(b) : TRUE
              THEN CHOOSE c \in 0..b :
                     /\ \E t \in Scanned(b) : CreatedAt[t] = c
                     /\ \A t \in Scanned(b) : CreatedAt[t] <= c
              ELSE 0]

(* seedIfEmpty: both records, none, or the registry when it stops between. *)
Init ==
  /\ block \in 0..1 /\ now = 0
  /\ \/ registry = {Unset} /\ meta = {{}}
     \/ registry = {FromScan(block)} /\ meta \in {{{}}, {Scanned(block)}}
  /\ snapshot = None
  /\ history = [t \in Tokens |-> {<<>>}]
  /\ run = [r \in Runners |-> Idle]
-----------------------------------------------------------------------------
Mine == block < MaxBlocks /\ block' = block + 1
        /\ UNCHANGED <<now, registry, meta, snapshot, history, run>>

Tick == now < MaxTime /\ now' = now + 1
        /\ UNCHANGED <<block, registry, meta, snapshot, history, run>>

(* triggerRefresh: by the interval, the cron or the API; reads the head.   *)
Trigger(r) ==
  /\ run[r].pc = "idle"
  /\ SingleFlight => \A q \in Runners : run[q].pc = "idle"
  /\ run' = [run EXCEPT ![r] = [Idle EXCEPT !.pc = "registry", !.head = block]]
  /\ UNCHANGED <<block, now, registry, meta, snapshot, history>>

ReadRegistry(r) ==
  /\ run[r].pc = "registry"
  /\ \E v \in registry : run' = [run EXCEPT ![r].pc = "meta", ![r].reg = v]
  /\ UNCHANGED <<block, now, registry, meta, snapshot, history>>

ReadMeta(r) ==
  /\ run[r].pc = "meta"
  /\ \E v \in meta : run' = [run EXCEPT ![r].pc = "discover", ![r].meta = v]
  /\ UNCHANGED <<block, now, registry, meta, snapshot, history>>

Behind(r) == run[r].head > run[r].reg.cursor

(* discoverTokens over the blocks after the cursor; genesis tokens join.   *)
Discovered(r) ==
  LET from == run[r].reg.cursor + 1
      to == IF run[r].head < from + Window - 1 THEN run[r].head ELSE from + Window - 1
  IN [tokens |-> run[r].reg.tokens \cup Genesis \cup
                   {t \in Factory : CreatedAt[t] \in from..to},
      cursor |-> to]

(* The registry is written when it changed, tokens and cursor in one value.*)
SaveRegistry(r, new) ==
  /\ run' = [run EXCEPT ![r].pc = "metadata", ![r].reg = new]
  /\ registry' = IF new = run[r].reg THEN registry ELSE Put(registry, new)
  /\ UNCHANGED <<block, now, meta, snapshot, history>>

Discover(r) ==
  /\ run[r].pc = "discover" /\ Behind(r)
  /\ SaveRegistry(r, Discovered(r))

(* Defect: the cursor moves over a window whose query failed.              *)
SkipsWindow(r) ==
  /\ run[r].pc = "discover"
  /\ SaveRegistry(r, [run[r].reg EXCEPT !.tokens = @ \cup Genesis,
                        !.cursor = IF Behind(r) THEN run[r].head ELSE @])

(* Nothing new to scan, or a log query failed: found tokens are dropped.   *)
SkipDiscovery(r) ==
  /\ run[r].pc = "discover"
  /\ SaveRegistry(r, [run[r].reg EXCEPT !.tokens = @ \cup Genesis])

(* Defect: the first tokens are taken, read or not.                        *)
FirstTokens(r) ==
  {t \in run[r].reg.tokens \ run[r].meta :
     Cardinality({u \in run[r].reg.tokens : CreatedAt[u] < CreatedAt[t]}) < MetaPerRun}

(* The first MetaPerRun tokens of the registry that have no metadata.      *)
NeedMeta(r) ==
  LET unread == run[r].reg.tokens \ run[r].meta
  IN {t \in unread : Cardinality({u \in unread : CreatedAt[u] < CreatedAt[t]}) < MetaPerRun}

(* Each is read on its own, some fail; the whole map is written back.      *)
ReadTokens(r, readable) ==
  /\ run[r].pc = "metadata"
  /\ readable \subseteq NeedMeta(r)
  /\ run' = [run EXCEPT ![r].pc = "snapshot", ![r].meta = @ \cup readable]
  /\ meta' = IF NeedMeta(r) = {} THEN meta ELSE Put(meta, run[r].meta \cup readable)
  /\ UNCHANGED <<block, now, registry, snapshot, history>>

(* The sources are asked, the checks are run (module Recognition), and the *)
(* snapshot is written; the recognized tokens get a point in their history.*)
PutSnapshot(r, recognized) ==
  /\ run[r].pc = "snapshot"
  /\ recognized \subseteq run[r].reg.tokens \cap run[r].meta \cap Watched
  /\ snapshot' = run[r].head
  /\ run' = [run EXCEPT ![r] =
       [Idle EXCEPT !.pc = "history", !.at = now, !.left = recognized]]
  /\ UNCHANGED <<block, now, registry, meta, history>>

(* Defect: a point is appended whenever a refresh ran.                     *)
NeverYoung(points, at) == FALSE

Young(points, at) == points # <<>> /\ at - points[Len(points)] < Gap

(* appendHistory reads the points of one token, and skips it when the last *)
(* point is younger than the gap.                                          *)
ReadHistory(r, t) ==
  /\ run[r].pc = "history" /\ t \in run[r].left
  /\ \E points \in history[t] :
       run' = IF Young(points, run[r].at)
              THEN [run EXCEPT ![r].left = @ \ {t}]
              ELSE [run EXCEPT ![r].pc = "append", ![r].tok = {t}, ![r].points = points]
  /\ UNCHANGED <<block, now, registry, meta, snapshot, history>>

Appended(points, at) ==
  LET longer == Append(points, at)
  IN IF Len(longer) > Points THEN Tail(longer) ELSE longer

AppendHistory(r) ==
  /\ run[r].pc = "append"
  /\ history' = [t \in Tokens |->
       IF t \in run[r].tok THEN Put(history[t], Appended(run[r].points, run[r].at))
                           ELSE history[t]]
  /\ run' = [run EXCEPT ![r].pc = "history", ![r].left = @ \ run[r].tok,
                        ![r].tok = {}, ![r].points = <<>>]
  /\ UNCHANGED <<block, now, registry, meta, snapshot>>

(* All points are in: the run is over.                                     *)
Finish(r) ==
  /\ run[r].pc = "history" /\ run[r].left = {}
  /\ run' = [run EXCEPT ![r] = Idle]
  /\ UNCHANGED <<block, now, registry, meta, snapshot, history>>

(* The chain or the KV throws, or the process stops: what was written stays*)
Fails(r) ==
  /\ run[r].pc # "idle"
  /\ run' = [run EXCEPT ![r] = Idle]
  /\ UNCHANGED <<block, now, registry, meta, snapshot, history>>

Next ==
  \/ Mine \/ Tick
  \/ \E r \in Runners :
       \/ Trigger(r) \/ ReadRegistry(r) \/ ReadMeta(r)
       \/ Discover(r) \/ SkipDiscovery(r)
       \/ \E readable \in SUBSET Tokens : ReadTokens(r, readable)
       \/ \E recognized \in SUBSET Watched : PutSnapshot(r, recognized)
       \/ \E t \in Watched : ReadHistory(r, t)
       \/ AppendHistory(r) \/ Finish(r) \/ Fails(r)

Spec == Init /\ [][Next]_vars

(* What a run does when its calls return what they should.                 *)
Succeeds(r) ==
  \/ ReadRegistry(r) \/ ReadMeta(r)
  \/ Discover(r) \/ (~Behind(r) /\ SkipDiscovery(r))
  \/ ReadTokens(r, NeedMeta(r))
  \/ \E recognized \in SUBSET Watched : PutSnapshot(r, recognized)
  \/ \E t \in Watched : ReadHistory(r, t)
  \/ AppendHistory(r) \/ Finish(r)

(* The interval fires, calls return, and the chain and the KV do not fail  *)
(* for ever.                                                               *)
Fairness ==
  /\ WF_vars(\E r \in Runners : Trigger(r))
  /\ \A r \in Runners : WF_vars(Succeeds(r))
  /\ <>[][\A r \in Runners : run'[r] # run[r] => Trigger(r) \/ Succeeds(r)]_vars
-----------------------------------------------------------------------------
(* Nothing below a cursor is missing: every token the factory created up   *)
(* to the last block a registry says it scanned is in that registry, also  *)
(* when runs overlap, read stale values, or fail after some of the windows *)
(* of a query (refresh.ts:120-135).                                        *)
RegistryComplete ==
  \A v \in registry : \A t \in Factory : CreatedAt[t] <= v.cursor => t \in v.tokens

(* Every token is found and read in the end, however small the share one   *)
(* run takes (refresh.ts:137).                                             *)
EveryTokenRead ==
  \A t \in Tokens : CreatedAt[t] <= block ~> \E v \in meta : t \in v
=============================================================================
