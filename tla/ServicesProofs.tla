--------------------------- MODULE ServicesProofs ---------------------------
(***************************************************************************)
(* What each service promises, for every value of the constants: any       *)
(* number of requests, links, calls, quotes, parties, clients and runs.    *)
(* One section per service: its inductive invariant, a lemma per kind of   *)
(* step, and the theorem.  In a behaviour of Services each service takes   *)
(* steps of its own or rests, so what is an invariant of the service alone *)
(* is an invariant of the whole.                                           *)
(***************************************************************************)
EXTENDS Services, FiniteSetTheorems, SequenceTheorems, WellFoundedInduction, TLAPS

(* The reserves pipeline.  A run writes what it read and discovered as one *)
(* value, so whatever value a read returns was complete when it was        *)
(* written, and tokens created later are above its cursor (Sound); the     *)
(* points a run appends to were checked for their age when they were read  *)
(* (Ready).                                                                *)
Pcs == {"idle", "registry", "meta", "discover", "metadata", "snapshot", "history", "append"}
Runs == [pc : Pcs, head : Nat, reg : Registries, meta : SUBSET Tokens, at : Nat,
         left : SUBSET Tokens, tok : SUBSET Tokens, points : Seq(Nat)]

Complete(v) == \A t \in Factory : CreatedAt[t] <= v.cursor => t \in v.tokens

Sound(v) == v \in Registries /\ Complete(v)

(* What a run is about to append to is a history whose last point is old.  *)
Ready(j) == j.pc = "append" => IsHistory(j.points) /\ ~Young(j.points, j.at)

RunOK(j) == j \in Runs /\ Sound(j.reg) /\ Ready(j)

Records ==
  /\ block \in Nat /\ now \in Nat /\ snapshot \in Int
  /\ meta \subseteq SUBSET Tokens
  /\ \A v \in registry : Sound(v)
  /\ \A t \in Tokens : \A points \in history[t] : IsHistory(points)

RInv ==
  /\ Records
  /\ run \in [Runners -> Runs]
  /\ \A r \in Runners : RunOK(run[r])
-----------------------------------------------------------------------------
(* The value of an untouched record, and what a scan found, are complete.  *)
LEMMA UnsetSound ==
  ASSUME ReservesAssumption
  PROVE  Sound(Unset)
BY DEF ReservesAssumption, Sound, Complete, Unset, Registries, None, Factory

LEMMA ScanSound ==
  ASSUME ReservesAssumption, NEW b \in 0..1
  PROVE  Sound(FromScan(b))
<1> DEFINE Last(c) == /\ \E t \in Scanned(b) : CreatedAt[t] = c
                      /\ \A t \in Scanned(b) : CreatedAt[t] <= c
<1>0. /\ \A t \in Factory : CreatedAt[t] \in Nat
      /\ Scanned(b) \subseteq Tokens
      /\ \A t \in Factory : t \in Scanned(b) <=> CreatedAt[t] <= b
      /\ Scanned(b) \subseteq Factory
  BY DEF ReservesAssumption, Factory, Scanned
<1>1. FromScan(b).tokens = Scanned(b)
  BY DEF FromScan
<1>2. FromScan(b).cursor \in 0..b
  <2>1. CASE Scanned(b) = {}
    BY <2>1 DEF FromScan
  <2>2. CASE \E t \in Scanned(b) : TRUE
    <3>1. \E c \in 0..b : Last(c)
      <4>1. CASE b = 0
        BY <1>0, <2>2, <4>1
      <4>2. CASE b = 1 /\ \E t \in Scanned(b) : CreatedAt[t] = 1
        BY <1>0, <4>2
      <4>3. CASE b = 1 /\ ~\E t \in Scanned(b) : CreatedAt[t] = 1
        <5>1. \A t \in Scanned(b) : CreatedAt[t] = 0
          BY <1>0, <4>3
        <5> QED
          BY <2>2, <4>3, <5>1
      <4> QED
        BY <4>1, <4>2, <4>3
    <3>2. (CHOOSE c \in 0..b : Last(c)) \in 0..b
      BY <3>1
    <3>3. FromScan(b).cursor = CHOOSE c \in 0..b : Last(c)
      BY <2>2 DEF FromScan
    <3> QED
      BY <3>2, <3>3
  <2> QED
    BY <2>1, <2>2
<1>3. FromScan(b) \in Registries
  BY <1>0, <1>1, <1>2 DEF FromScan, Registries
<1> QED
  BY <1>0, <1>1, <1>2, <1>3 DEF Sound, Complete

(* A window that is scanned joins what was known below it.                 *)
LEMMA DiscoverSound ==
  ASSUME ReservesAssumption, NEW r \in Runners, RunOK(run[r])
  PROVE  Sound(Discovered(r))
<1> DEFINE from == run[r].reg.cursor + 1
           to == IF run[r].head < from + Window - 1 THEN run[r].head ELSE from + Window - 1
           found == {t \in Factory : CreatedAt[t] \in from..to}
<1>0. /\ run[r].reg.cursor \in Int /\ run[r].reg.tokens \subseteq Tokens /\ run[r].head \in Nat
      /\ Window \in Nat /\ \A t \in Factory : CreatedAt[t] \in Nat
      /\ Genesis \subseteq Tokens /\ Complete(run[r].reg)
  BY DEF RunOK, Sound, Runs, Registries, ReservesAssumption, Factory
<1>1. /\ Discovered(r).tokens = run[r].reg.tokens \cup Genesis \cup found
      /\ Discovered(r).cursor = to
  BY DEF Discovered
<1>2. from \in Int /\ to \in Int /\ from = run[r].reg.cursor + 1
  BY <1>0
<1>3. Discovered(r) \in Registries
  BY <1>0, <1>1, <1>2 DEF Discovered, Registries, Factory
<1>4. ASSUME NEW t \in Factory, CreatedAt[t] <= to
      PROVE  t \in run[r].reg.tokens \cup found
  <2>1. CASE CreatedAt[t] <= run[r].reg.cursor
    BY <1>0, <2>1 DEF Complete
  <2>2. CASE ~(CreatedAt[t] <= run[r].reg.cursor)
    BY <1>0, <1>2, <1>4, <2>2
  <2> QED
    BY <2>1, <2>2
<1> HIDE DEF from, to, found
<1> QED
  BY <1>1, <1>3, <1>4 DEF Sound, Complete

(* A point that is old enough may follow, and the oldest may go.           *)
LEMMA AppendedIsHistory ==
  ASSUME ReservesAssumption, NEW points, IsHistory(points), NEW at \in Nat, ~Young(points, at)
  PROVE  IsHistory(Appended(points, at))
<1> DEFINE longer == Append(points, at)
           n == Len(points)
<1>0. /\ points \in Seq(Nat) /\ n \in Nat /\ n <= Points /\ Points \in Nat \ {0} /\ Gap \in Nat
      /\ \A i \in 1..(n - 1) : points[i + 1] - points[i] >= Gap
  BY DEF IsHistory, ReservesAssumption
<1>1. longer \in Seq(Nat) /\ Len(longer) = n + 1 /\ longer[n + 1] = at
      /\ \A i \in 1..n : longer[i] = points[i] /\ points[i] \in Nat
  BY <1>0
<1>2. n > 0 => at - points[n] >= Gap
  <2> SUFFICES ASSUME n > 0
      PROVE  at - points[n] >= Gap
    OBVIOUS
  <2>1. points # <<>>
    BY <1>0
  <2>2. ~(at - points[n] < Gap)
    BY <2>1 DEF Young
  <2> QED
    BY <1>0, <1>1, <2>2
<1>3. \A i \in 1..n : longer[i + 1] - longer[i] >= Gap
  <2> TAKE i \in 1..n
  <2>1. CASE i = n
    BY <1>0, <1>1, <1>2, <2>1
  <2>2. CASE i # n
    <3>1. i \in 1..(n - 1) /\ i + 1 \in 1..n
      BY <1>0, <2>2
    <3> QED
      BY <1>0, <1>1, <3>1
  <2> QED
    BY <2>1, <2>2
<1> HIDE DEF longer, n
<1>4. CASE n + 1 > Points
  <2>1. Appended(points, at) = Tail(longer)
    BY <1>1, <1>4 DEF Appended, longer
  <2>2. /\ Tail(longer) \in Seq(Nat) /\ Len(Tail(longer)) = n
        /\ \A i \in 1..n : Tail(longer)[i] = longer[i + 1]
    BY <1>0, <1>1
  <2>3. \A i \in 1..(n - 1) : Tail(longer)[i + 1] - Tail(longer)[i] >= Gap
    <3> TAKE i \in 1..(n - 1)
    <3>1. i \in 1..n /\ i + 1 \in 1..n
      BY <1>0
    <3>2. Tail(longer)[i] = longer[i + 1] /\ Tail(longer)[i + 1] = longer[(i + 1) + 1]
      BY <2>2, <3>1
    <3> QED
      BY <1>3, <3>1, <3>2
  <2> QED
    BY <1>0, <2>1, <2>2, <2>3 DEF IsHistory
<1>5. CASE ~(n + 1 > Points)
  <2>1. Appended(points, at) = longer
    BY <1>1, <1>5 DEF Appended, longer
  <2>2. n + 1 - 1 = n
    BY <1>0
  <2> QED
    BY <1>0, <1>1, <1>3, <1>5, <2>1, <2>2 DEF IsHistory
<1> QED
  BY <1>4, <1>5

LEMMA IdleOK ==
  ASSUME ReservesAssumption
  PROVE  RunOK(Idle)
<1>1. Unset \in Registries /\ Sound(Unset)
  BY UnsetSound DEF Sound
<1>2. <<>> \in Seq(Nat)
  OBVIOUS
<1> QED
  BY <1>1, <1>2 DEF RunOK, Idle, Runs, Pcs, Ready

(* The invariant holds at the start, whatever the seed.                    *)
LEMMA RInit ==
  ASSUME ReservesAssumption, Init
  PROVE  RInv
<1>1. \A v \in registry : Sound(v)
  BY UnsetSound, ScanSound DEF Init
<1>2. meta \subseteq SUBSET Tokens
  BY DEF Init, Scanned, Factory
<1>3. IsHistory(<<>>)
  BY DEF IsHistory, ReservesAssumption
<1>4. Records
  BY <1>1, <1>2, <1>3 DEF Init, Records, None
<1>5. Idle \in Runs
  BY IdleOK DEF RunOK
<1> QED
  BY <1>4, <1>5, IdleOK DEF Init, RInv

(* A step of one run keeps the invariant when what it writes is sound.     *)
LEMMA OneRun ==
  ASSUME RInv, Records', NEW r \in Runners, NEW j, RunOK(j), run' = [run EXCEPT ![r] = j]
  PROVE  RInv'
<1>1. j \in Runs
  BY DEF RunOK
<1>2. run' \in [Runners -> Runs]
  BY <1>1 DEF RInv
<1>3. ASSUME NEW q \in Runners
      PROVE  RunOK(run'[q])
  BY <1>3 DEF RInv
<1>4. ASSUME NEW q \in Runners
      PROVE  RunOK(run[q])'
  BY <1>3, <1>4 DEF RunOK, Sound, Complete, Ready, Young, IsHistory
<1> QED
  BY <1>2, <1>4 DEF RInv

(* Reads: a run takes whatever the record may return.                      *)
LEMMA RReads ==
  ASSUME ReservesAssumption, RInv, NEW r \in Runners,
         Trigger(r) \/ ReadRegistry(r) \/ ReadMeta(r)
  PROVE  RInv'
<1>0. RunOK(run[r]) /\ run[r] \in Runs /\ run \in [Runners -> Runs] /\ Records
  BY DEF RInv, RunOK
<1>1. CASE Trigger(r)
  <2> DEFINE j == [Idle EXCEPT !.pc = "registry", !.head = block]
  <2>1. run' = [run EXCEPT ![r] = j] /\ Records'
    BY <1>0, <1>1 DEF Trigger, Records
  <2>2. RunOK(j)
    BY <1>0, IdleOK DEF RunOK, Runs, Pcs, Ready, Records
  <2> QED
    BY <2>1, <2>2, OneRun
<1>2. CASE ReadRegistry(r)
  <2>1. PICK v \in registry : run' = [run EXCEPT ![r].pc = "meta", ![r].reg = v]
    BY <1>2 DEF ReadRegistry
  <2> DEFINE j == [run[r] EXCEPT !.pc = "meta", !.reg = v]
  <2>2. run' = [run EXCEPT ![r] = j] /\ Records'
    BY <1>0, <1>2, <2>1 DEF ReadRegistry, Records
  <2>3. Sound(v)
    BY <1>0 DEF Records
  <2>4. RunOK(j)
    BY <1>0, <2>3 DEF RunOK, Runs, Pcs, Ready, Sound
  <2> QED
    BY <2>2, <2>4, OneRun
<1>3. CASE ReadMeta(r)
  <2>1. PICK v \in meta : run' = [run EXCEPT ![r].pc = "discover", ![r].meta = v]
    BY <1>3 DEF ReadMeta
  <2> DEFINE j == [run[r] EXCEPT !.pc = "discover", !.meta = v]
  <2>2. run' = [run EXCEPT ![r] = j] /\ Records'
    BY <1>0, <1>3, <2>1 DEF ReadMeta, Records
  <2>3. RunOK(j)
    BY <1>0 DEF RunOK, Runs, Pcs, Ready, Records
  <2> QED
    BY <2>2, <2>3, OneRun
<1> QED
  BY <1>1, <1>2, <1>3

(* Discovery: the registry that is written is complete.                    *)
LEMMA RDiscovers ==
  ASSUME ReservesAssumption, RInv, NEW r \in Runners, Discover(r) \/ SkipDiscovery(r)
  PROVE  RInv'
<1>0. RunOK(run[r]) /\ run[r] \in Runs /\ run \in [Runners -> Runs] /\ Records
  BY DEF RInv, RunOK
<1>1. PICK new : SaveRegistry(r, new) /\ Sound(new)
  <2>1. CASE Discover(r)
    BY <1>0, <2>1, DiscoverSound DEF Discover
  <2>2. CASE SkipDiscovery(r)
    <3> DEFINE same == [run[r].reg EXCEPT !.tokens = @ \cup Genesis]
    <3>1. run[r].reg \in Registries /\ Complete(run[r].reg) /\ Genesis \subseteq Tokens
      BY <1>0 DEF RunOK, Sound, ReservesAssumption
    <3>2. Sound(same)
      BY <3>1 DEF Sound, Complete, Registries
    <3> QED
      BY <2>2, <3>2 DEF SkipDiscovery
  <2> QED
    BY <2>1, <2>2
<1> DEFINE j == [run[r] EXCEPT !.pc = "metadata", !.reg = new]
<1>2. run' = [run EXCEPT ![r] = j]
  BY <1>0, <1>1 DEF SaveRegistry
<1>3. Records'
  BY <1>0, <1>1 DEF SaveRegistry, Records, Put
<1>4. RunOK(j)
  BY <1>0, <1>1 DEF RunOK, Runs, Pcs, Ready, Sound
<1> QED
  BY <1>2, <1>3, <1>4, OneRun

(* Metadata and the snapshot.                                              *)
LEMMA RWrites ==
  ASSUME ReservesAssumption, RInv, NEW r \in Runners,
         \/ \E readable \in SUBSET Tokens : ReadTokens(r, readable)
         \/ \E recognized \in SUBSET Watched : PutSnapshot(r, recognized)
  PROVE  RInv'
<1>0. RunOK(run[r]) /\ run[r] \in Runs /\ run \in [Runners -> Runs] /\ Records
  BY DEF RInv, RunOK
<1>1. ASSUME NEW readable \in SUBSET Tokens, ReadTokens(r, readable)
      PROVE  RInv'
  <2> DEFINE j == [run[r] EXCEPT !.pc = "snapshot", !.meta = @ \cup readable]
  <2>1. run' = [run EXCEPT ![r] = j]
    BY <1>0, <1>1 DEF ReadTokens
  <2>2. run[r].meta \cup readable \in SUBSET Tokens
    BY <1>0 DEF Runs
  <2>3. Records'
    BY <1>0, <1>1, <2>2 DEF ReadTokens, Records, Put
  <2>4. RunOK(j)
    BY <1>0, <2>2 DEF RunOK, Runs, Pcs, Ready
  <2> QED
    BY <2>1, <2>3, <2>4, OneRun
<1>2. ASSUME NEW recognized \in SUBSET Watched, PutSnapshot(r, recognized)
      PROVE  RInv'
  <2> DEFINE j == [Idle EXCEPT !.pc = "history", !.at = now, !.left = recognized]
  <2>1. run' = [run EXCEPT ![r] = j]
    BY <1>2 DEF PutSnapshot
  <2>2. Records'
    <3>1. run[r].head \in Int
      BY <1>0 DEF Runs
    <3>2. snapshot' = run[r].head /\ UNCHANGED <<block, now, registry, meta, history>>
      BY <1>2 DEF PutSnapshot
    <3> QED
      BY <1>0, <3>1, <3>2 DEF Records
  <2>3. RunOK(j)
    BY <1>0, IdleOK DEF RunOK, Runs, Pcs, Ready, Records, ReservesAssumption
  <2> QED
    BY <2>1, <2>2, <2>3, OneRun
<1> QED
  BY <1>1, <1>2

(* Histories: what was read old enough is appended to.                     *)
LEMMA RHistories ==
  ASSUME ReservesAssumption, RInv, NEW r \in Runners,
         (\E t \in Watched : ReadHistory(r, t)) \/ AppendHistory(r)
  PROVE  RInv'
<1>0. RunOK(run[r]) /\ run[r] \in Runs /\ run \in [Runners -> Runs] /\ Records
  BY DEF RInv, RunOK
<1>1. ASSUME NEW t \in Watched, ReadHistory(r, t)
      PROVE  RInv'
  <2>1. PICK points \in history[t] :
          run' = IF Young(points, run[r].at)
                 THEN [run EXCEPT ![r].left = @ \ {t}]
                 ELSE [run EXCEPT ![r].pc = "append", ![r].tok = {t}, ![r].points = points]
    BY <1>1 DEF ReadHistory
  <2>2. Records'
    BY <1>0, <1>1 DEF ReadHistory, Records
  <2>3. IsHistory(points) /\ points \in Seq(Nat) /\ {t} \in SUBSET Tokens
    BY <1>0 DEF Records, ReservesAssumption, IsHistory
  <2>4. CASE Young(points, run[r].at)
    <3> DEFINE j == [run[r] EXCEPT !.left = @ \ {t}]
    <3>1. run' = [run EXCEPT ![r] = j]
      BY <1>0, <2>1, <2>4
    <3>2. RunOK(j)
      BY <1>0, <1>1 DEF RunOK, Runs, Ready, ReadHistory
    <3> QED
      BY <2>2, <3>1, <3>2, OneRun
  <2>5. CASE ~Young(points, run[r].at)
    <3> DEFINE j == [run[r] EXCEPT !.pc = "append", !.tok = {t}, !.points = points]
    <3>1. run' = [run EXCEPT ![r] = j]
      BY <1>0, <2>1, <2>5
    <3>2. j \in Runs /\ j.reg = run[r].reg /\ j.points = points /\ j.at = run[r].at
      BY <1>0, <2>3 DEF Runs, Pcs
    <3>3. RunOK(j)
      BY <1>0, <2>3, <2>5, <3>2 DEF RunOK, Ready
    <3> QED
      BY <2>2, <3>1, <3>3, OneRun
  <2> QED
    BY <2>4, <2>5
<1>2. ASSUME AppendHistory(r)
      PROVE  RInv'
  <2> DEFINE j == [run[r] EXCEPT !.pc = "history", !.left = @ \ run[r].tok,
                                 !.tok = {}, !.points = <<>>]
             longer == Appended(run[r].points, run[r].at)
  <2>1. /\ run' = [run EXCEPT ![r] = j]
        /\ history' = [t \in Tokens |->
             IF t \in run[r].tok THEN Put(history[t], longer) ELSE history[t]]
        /\ UNCHANGED <<block, now, registry, meta, snapshot>>
    BY <1>0, <1>2 DEF AppendHistory
  <2>2. IsHistory(longer)
    <3>1. /\ IsHistory(run[r].points) /\ ~Young(run[r].points, run[r].at) /\ run[r].at \in Nat
      BY <1>0, <1>2 DEF AppendHistory, RunOK, Ready, Runs
    <3> QED
      BY <3>1, AppendedIsHistory
  <2> HIDE DEF longer
  <2>3. \A t \in Tokens : \A points \in history'[t] : IsHistory(points)
    BY <1>0, <2>1, <2>2 DEF Records, Put
  <2>4. Records'
    BY <1>0, <2>1, <2>3 DEF Records, IsHistory
  <2>5. RunOK(j)
    <3>1. <<>> \in Seq(Nat)
      OBVIOUS
    <3>2. run[r].left \ run[r].tok \in SUBSET Tokens
      BY <1>0 DEF Runs
    <3>3. j \in Runs /\ j.reg = run[r].reg /\ j.pc = "history"
      BY <1>0, <3>1, <3>2 DEF Runs, Pcs
    <3> QED
      BY <1>0, <3>3 DEF RunOK, Ready
  <2> QED
    BY <2>1, <2>4, <2>5, OneRun
<1> QED
  BY <1>1, <1>2

(* A step that touches neither the records nor the runs.                   *)
LEMMA Untouched ==
  ASSUME RInv, block' \in Nat, now' \in Nat,
         UNCHANGED <<registry, meta, snapshot, history, run>>
  PROVE  RInv'
<1>1. \A v \in registry' : Sound(v)'
  BY DEF RInv, Records, Sound, Complete
<1>2. \A t \in Tokens : \A points \in history'[t] : IsHistory(points)'
  BY DEF RInv, Records, IsHistory
<1>3. Records'
  BY <1>1, <1>2 DEF RInv, Records
<1>4. ASSUME NEW r \in Runners
      PROVE  RunOK(run[r])'
  <2>1. run' = run /\ RunOK(run[r])
    BY DEF RInv
  <2>2. Sound(run[r].reg)'
    BY <2>1 DEF RunOK, Sound, Complete
  <2>3. Ready(run[r])'
    BY <2>1 DEF RunOK, Ready, Young, IsHistory
  <2> QED
    BY <2>1, <2>2, <2>3 DEF RunOK
<1> QED
  BY <1>3, <1>4 DEF RInv

(* The environment moves, a run ends or fails.                             *)
LEMMA RQuiet ==
  ASSUME ReservesAssumption, RInv,
         Mine \/ Tick \/ (\E r \in Runners : Finish(r) \/ Fails(r)) \/ UNCHANGED vars
  PROVE  RInv'
<1>0. block \in Nat /\ now \in Nat
  BY DEF RInv, Records
<1>1. CASE Mine \/ Tick
  BY <1>0, <1>1, Untouched DEF Mine, Tick
<1>2. CASE \E r \in Runners : Finish(r) \/ Fails(r)
  <2>1. PICK r \in Runners : Finish(r) \/ Fails(r)
    BY <1>2
  <2>2. run' = [run EXCEPT ![r] = Idle] /\ UNCHANGED <<block, now, registry, meta, snapshot, history>>
    BY <2>1 DEF Finish, Fails
  <2>3. Records'
    BY <2>2 DEF RInv, Records
  <2> QED
    BY <2>2, <2>3, IdleOK, OneRun
<1>3. CASE UNCHANGED vars
  BY <1>0, <1>3, Untouched DEF vars
<1> QED
  BY <1>1, <1>2, <1>3
-----------------------------------------------------------------------------
(* Refreshes keep the invariant.                                           *)
THEOREM ReservesInvariant ==
  ASSUME ReservesAssumption
  PROVE  Spec => []RInv
<1>1. Init => RInv
  BY RInit
<1>2. RInv /\ [Next]_vars => RInv'
  <2> SUFFICES ASSUME RInv, [Next]_vars
      PROVE  RInv'
    OBVIOUS
  <2>1. CASE Mine \/ Tick \/ (\E r \in Runners : Finish(r) \/ Fails(r)) \/ UNCHANGED vars
    BY <2>1, RQuiet
  <2>2. ASSUME NEW r \in Runners, Trigger(r) \/ ReadRegistry(r) \/ ReadMeta(r)
        PROVE  RInv'
    BY <2>2, RReads
  <2>3. ASSUME NEW r \in Runners, Discover(r) \/ SkipDiscovery(r)
        PROVE  RInv'
    BY <2>3, RDiscovers
  <2>4. ASSUME NEW r \in Runners,
               \/ \E readable \in SUBSET Tokens : ReadTokens(r, readable)
               \/ \E recognized \in SUBSET Watched : PutSnapshot(r, recognized)
        PROVE  RInv'
    BY <2>4, RWrites
  <2>5. ASSUME NEW r \in Runners, (\E t \in Watched : ReadHistory(r, t)) \/ AppendHistory(r)
        PROVE  RInv'
    BY <2>5, RHistories
  <2> QED
    BY <2>1, <2>2, <2>3, <2>4, <2>5 DEF Next
<1> QED
  BY <1>1, <1>2, PTL DEF Spec

(* No registry lacks a token below its cursor (refresh.ts:120-135), with   *)
(* any number of runs over stale reads.                                    *)
THEOREM NothingIsOverlooked ==
  ASSUME ReservesAssumption
  PROVE  Spec => []RegistryComplete
<1>1. RInv => RegistryComplete
  BY DEF RInv, Records, Sound, Complete, RegistryComplete
<1> QED
  BY <1>1, ReservesInvariant, PTL

(* Histories keep their rhythm and their length (store.ts:143-150), and  *)
(* every record its type.                                                  *)
THEOREM RecordsAreTyped ==
  ASSUME ReservesAssumption
  PROVE  Spec => []TypeOK
<1>1. RInv => TypeOK
  BY DEF RInv, Records, Sound, RunOK, Runs, Pcs, TypeOK
<1> QED
  BY <1>1, ReservesInvariant, PTL
-----------------------------------------------------------------------------
(* Closed-loop credit.  A call knows what it funds; a wallet flips what is *)
(* funded.                                                                 *)
CreditCalls ==
  /\ \A i \in Issuers : issue[i].at # "idle" => issue[i].ref \in Refs /\ issue[i].quote \in Quotes
  /\ \A w \in Wallets :
       /\ poll[w].at # "idle" => poll[w].quote \in Quotes
       /\ poll[w].at = "flip" => C!Funded(poll[w].quote)

CreditInv == C!TypeOK /\ C!CreditOnce /\ CreditCalls

LEMMA CreditStarts == ASSUME C!Init PROVE CreditInv
BY DEF C!Init, CreditInv, CreditCalls, C!TypeOK, C!CreditOnce, C!FundedBy, C!Funded, C!NoIssue, C!NoPoll

LEMMA CreditLooks ==
  ASSUME CreditInv, NEW i \in Issuers, NEW f \in Refs, NEW q \in Quotes, C!LookUp(i, f, q)
  PROVE  CreditInv'
<1>1. /\ told' = told \/ \E p \in C!FundedBy(f) : told' = told \cup {<<f, p>>}
      /\ issue' \in {issue, [issue EXCEPT ![i] = [at |-> "quote", ref |-> f, quote |-> q]]}
      /\ UNCHANGED <<state, expired, issuances, poll, melted, deaths>>
  <2>1. CASE C!FundedBy(f) \cap {q} = {}
    BY <2>1 DEF C!LookUp
  <2>2. CASE q \in C!FundedBy(f)
    BY <2>2 DEF C!LookUp
  <2> QED BY <2>1, <2>2
<1>2. told' \subseteq issuances /\ told \subseteq told'
  BY <1>1 DEF CreditInv, C!CreditOnce, C!FundedBy
<1>3. C!TypeOK'
  BY <1>1, <1>2 DEF CreditInv, C!TypeOK
<1>4. C!CreditOnce'
  BY <1>1, <1>2 DEF CreditInv, C!CreditOnce, C!FundedBy, C!Funded
<1>5. CreditCalls'
  <2>1. \A j \in Issuers :
          \/ issue'[j] = issue[j]
          \/ issue'[j].ref \in Refs /\ issue'[j].quote \in Quotes
    <3>1. issue = [j \in Issuers |-> issue[j]]
      BY DEF CreditInv, C!TypeOK
    <3> QED BY <1>1, <3>1
  <2>2. /\ \A j \in Issuers :
             issue[j].at # "idle" => issue[j].ref \in Refs /\ issue[j].quote \in Quotes
        /\ \A w \in Wallets :
             /\ poll[w].at # "idle" => poll[w].quote \in Quotes
             /\ poll[w].at = "flip" => C!Funded(poll[w].quote)
    BY DEF CreditInv, CreditCalls
  <2>3. poll' = poll /\ issuances' = issuances
    BY <1>1
  <2> QED BY ONLY <2>1, <2>2, <2>3 DEF CreditCalls, C!Funded
<1> QED BY <1>3, <1>4, <1>5 DEF CreditInv

LEMMA CreditReads ==
  ASSUME CreditInv, NEW i \in Issuers, C!ReadQuote(i) \/ C!IssueDies(i)
  PROVE  CreditInv'
<1>. USE DEF CreditInv, C!ReadQuote, C!IssueDies, C!Dies, C!Ends, C!NoIssue
<1>2. C!TypeOK'
  BY DEF C!TypeOK
<1>3. C!CreditOnce'
  BY DEF C!CreditOnce, C!FundedBy, C!Funded
<1>4. CreditCalls'
  BY DEF CreditCalls, C!TypeOK, C!Funded
<1> QED BY <1>2, <1>3, <1>4

(* The insert is the one place where a reference funds a quote.            *)
LEMMA CreditFunds ==
  ASSUME CreditInv, NEW i \in Issuers, C!Insert(i) \/ C!InsertUnheard(i)
  PROVE  CreditInv'
<1>. DEFINE f == issue[i].ref
            q == issue[i].quote
<1>1. f \in Refs /\ q \in Quotes
  BY DEF CreditInv, CreditCalls, C!Insert, C!InsertUnheard
<1>2. /\ issue' = [issue EXCEPT ![i] = C!NoIssue]
      /\ deaths' \in Nat
      /\ \/ UNCHANGED <<issuances, told>>
         \/ /\ C!FundedBy(f) = {} /\ ~C!Funded(q)
            /\ issuances' = issuances \cup {<<f, q>>}
            /\ told' = told \cup {<<f, q>>} \/ told' = told
      /\ UNCHANGED <<state, expired, poll, melted>>
  BY DEF C!Insert, C!InsertUnheard, C!Ends, C!Free, C!Dies, CreditInv, C!TypeOK
<1>3. C!TypeOK'
  BY <1>1, <1>2 DEF CreditInv, C!TypeOK, C!NoIssue
<1>4. issuances \subseteq issuances'
  BY <1>2
<1>5. C!CreditOnce'
  BY <1>1, <1>2 DEF CreditInv, C!CreditOnce, C!FundedBy, C!Funded
<1>6. CreditCalls'
  BY <1>2, <1>4 DEF CreditInv, CreditCalls, C!TypeOK, C!NoIssue, C!Funded
<1> QED BY <1>3, <1>5, <1>6 DEF CreditInv

(* A step of a wallet's call replaces what it holds.                       *)
CreditPoll == [at : {"idle", "insert", "deposit", "flip", "issue"},
               quote : Quotes \cup {Nothing}, mints : BOOLEAN]

LEMMA OnePoll ==
  ASSUME CreditInv, NEW w \in Wallets, NEW new \in CreditPoll,
         poll' = [poll EXCEPT ![w] = new], deaths' \in Nat,
         new.at # "idle" => new.quote \in Quotes,
         new.at = "flip" => C!Funded(new.quote),
         UNCHANGED <<expired, issuances, issue, told, melted>>,
         state' \in [Quotes -> {"NONE", "UNPAID", "PAID", "ISSUED"}],
         \A q \in Quotes : state'[q] \in {"PAID", "ISSUED"} =>
           state[q] \in {"PAID", "ISSUED"} \/ C!Funded(q)
  PROVE  CreditInv'
<1>1. C!TypeOK'
  BY DEF CreditInv, C!TypeOK, CreditPoll
<1>2. C!CreditOnce'
  BY DEF CreditInv, C!CreditOnce, C!FundedBy, C!Funded
<1>3. \A v \in Wallets : poll'[v] = IF v = w THEN new ELSE poll[v]
  BY DEF CreditInv, C!TypeOK
<1>4. CreditCalls'
  BY <1>3 DEF CreditInv, CreditCalls, C!Funded
<1> QED BY <1>1, <1>2, <1>4 DEF CreditInv

LEMMA CreditPolls ==
  ASSUME CreditInv, NEW w \in Wallets,
         \/ \E q \in Quotes : C!PostQuote(w, q) \/ C!GetQuote(w, q) \/ C!PostMint(w, q)
         \/ C!InsertQuote(w) \/ C!GetDeposit(w) \/ C!Flip(w) \/ C!Issue(w) \/ C!PollDies(w)
  PROVE  CreditInv'
<1>1. state \in [Quotes -> {"NONE", "UNPAID", "PAID", "ISSUED"}] /\ poll[w] \in CreditPoll /\ deaths \in Nat
      /\ C!NoPoll \in CreditPoll /\ C!NoPoll.at = "idle" /\ poll \in [Wallets -> CreditPoll]
  BY DEF CreditInv, C!TypeOK, CreditPoll, C!NoPoll
<1>2. poll[w].at # "idle" => poll[w].quote \in Quotes
  BY DEF CreditInv, CreditCalls
<1>3. ASSUME NEW q \in Quotes, C!GetQuote(w, q) \/ C!PostMint(w, q) PROVE CreditInv'
  <2>1. PICK mints \in BOOLEAN : C!Polls(w, q, mints)
    BY <1>3 DEF C!GetQuote, C!PostMint
  <2>. DEFINE new == [at |-> IF state[q] = "UNPAID" THEN "deposit" ELSE "issue", quote |-> q,
                      mints |-> mints]
  <2>2. new \in CreditPoll /\ new.at # "flip" /\ new.quote \in Quotes
    BY DEF CreditPoll
  <2>3. poll' = [poll EXCEPT ![w] = new]
    BY <2>1 DEF C!Polls
  <2>4. UNCHANGED <<state, expired, issuances, issue, told, melted, deaths>>
    BY <1>3 DEF C!GetQuote, C!PostMint
  <2>. HIDE DEF new
  <2> QED BY <1>1, <2>2, <2>3, <2>4, OnePoll
<1>4. CASE C!GetDeposit(w)
  <2>1. CASE C!Funded(poll[w].quote)
    <3>. DEFINE new == [poll[w] EXCEPT !.at = "flip"]
    <3>1. new \in CreditPoll /\ new.at = "flip" /\ new.quote = poll[w].quote
      BY <1>1 DEF CreditPoll
    <3>2. poll' = [poll EXCEPT ![w] = new]
      BY <1>1, <1>4, <2>1 DEF C!GetDeposit
    <3> QED BY <1>1, <1>2, <1>4, <2>1, <3>1, <3>2, OnePoll DEF C!GetDeposit
  <2>2. CASE ~C!Funded(poll[w].quote)
    BY <1>1, <1>4, <2>2, OnePoll DEF C!GetDeposit, C!Stops
  <2> QED BY <2>1, <2>2
<1>5. CASE C!PollDies(w)
  <2>1. deaths' \in Nat /\ UNCHANGED <<state, expired, issuances, issue, told, melted>>
    BY <1>1, <1>5 DEF C!PollDies, C!Dies
  <2>2. poll' = [poll EXCEPT ![w] = C!NoPoll]
    BY <1>5 DEF C!PollDies, C!Stops
  <2> QED BY <1>1, <2>1, <2>2, OnePoll
<1>6. CASE C!Flip(w)
  <2>. DEFINE q == poll[w].quote
              went == [poll[w] EXCEPT !.at = "issue"]
  <2>1. q \in Quotes /\ C!Funded(q)
    BY <1>2, <1>6 DEF C!Flip, CreditInv, CreditCalls
  <2>2. PICK new \in {C!NoPoll, went} : poll' = [poll EXCEPT ![w] = new]
    BY <1>1, <1>6 DEF C!Flip, C!Stops
  <2>3. new \in CreditPoll /\ new.at # "flip" /\ (new.at # "idle" => new.quote = q)
    BY <1>1, <2>2 DEF CreditPoll
  <2>4. /\ state' \in [Quotes -> {"NONE", "UNPAID", "PAID", "ISSUED"}]
        /\ \A p \in Quotes : state'[p] \in {"PAID", "ISSUED"} =>
             state[p] \in {"PAID", "ISSUED"} \/ C!Funded(p)
    BY <1>1, <1>6, <2>1 DEF C!Flip
  <2> QED BY <1>1, <1>6, <2>1, <2>2, <2>3, <2>4, OnePoll DEF C!Flip
<1>7. CASE C!Issue(w)
  <2>1. /\ state' \in [Quotes -> {"NONE", "UNPAID", "PAID", "ISSUED"}]
        /\ \A p \in Quotes : state'[p] \in {"PAID", "ISSUED"} =>
             state[p] \in {"PAID", "ISSUED"}
    BY <1>1, <1>2, <1>7 DEF C!Issue
  <2> QED BY <1>1, <1>7, <2>1, OnePoll DEF C!Issue, C!Stops
<1>8. ASSUME NEW q \in Quotes, C!PostQuote(w, q) PROVE CreditInv'
  <2>. DEFINE new == [at |-> "insert", quote |-> q, mints |-> FALSE]
  <2>1. new \in CreditPoll /\ new.at = "insert" /\ new.quote \in Quotes
    BY DEF CreditPoll
  <2>2. /\ poll' = [poll EXCEPT ![w] = new]
        /\ UNCHANGED <<state, expired, issuances, issue, told, melted, deaths>>
    BY <1>8 DEF C!PostQuote
  <2>. HIDE DEF new
  <2> QED BY <1>1, <2>1, <2>2, OnePoll
<1>9. CASE C!InsertQuote(w)
  <2>1. /\ state' \in [Quotes -> {"NONE", "UNPAID", "PAID", "ISSUED"}]
        /\ \A p \in Quotes : state'[p] \in {"PAID", "ISSUED"} => state[p] \in {"PAID", "ISSUED"}
    BY <1>1, <1>2, <1>9 DEF C!InsertQuote
  <2> QED BY <1>1, <1>9, <2>1, OnePoll DEF C!InsertQuote, C!Stops
<1> QED BY <1>3, <1>4, <1>5, <1>6, <1>7, <1>8, <1>9

LEMMA CreditKeeps == ASSUME CreditInv, [C!Next]_creditVars PROVE CreditInv'
<1>1. ASSUME NEW q \in Quotes, C!Expire(q) PROVE CreditInv'
  BY <1>1 DEF CreditInv, C!Expire, C!TypeOK, C!CreditOnce, CreditCalls, C!Funded, C!FundedBy
<1>2. CASE UNCHANGED creditVars
  BY <1>2 DEF CreditInv, creditVars, C!TypeOK, C!CreditOnce, CreditCalls, C!Funded, C!FundedBy
<1>3. CASE C!Melt
  <2>1. melted' \in Nat /\ UNCHANGED <<state, expired, issuances, issue, poll, told, deaths>>
    BY <1>3 DEF C!Melt, CreditInv, C!TypeOK
  <2> QED
    BY <2>1 DEF CreditInv, C!TypeOK, C!CreditOnce, CreditCalls, C!Funded, C!FundedBy
<1> QED BY <1>1, <1>2, <1>3, CreditLooks, CreditReads, CreditFunds, CreditPolls DEF C!Next

LEMMA IsCredit == AllSpec => C!Init /\ [][C!Next]_creditVars
<1>1. AllInit => C!Init
  BY DEF AllInit
<1>2. [AllNext]_all => [C!Next]_creditVars
  BY DEF AllNext, all, creditVars
<1> QED BY <1>1, <1>2, PTL DEF AllSpec

(* A reference funds one quote, and only what is funded becomes payable,   *)
(* whatever is retried, raced or cut off (vault-credit.ts:46-72), for any  *)
(* number of issuers, wallets, quotes and references.                      *)
THEOREM CreditedOnce == AllSpec => []CreditOnce
<1>1. CreditInv => CreditOnce
  BY DEF CreditInv, CreditOnce
<1> QED BY <1>1, CreditStarts, CreditKeeps, IsCredit, PTL
-----------------------------------------------------------------------------
(* Links.  Whoever burned a blob holds its link for good, alone; the blob  *)
(* is handed out to nobody else, and only that or its time removes it.     *)
LinkReader == [at : {"idle", "take", "check", "decrypt", "has", "lost", "refused"},
               link : Links \cup {Nothing}, right : BOOLEAN]
Burned == {"check", "decrypt", "has", "lost"}

LinkInv ==
  /\ L!TypeOK
  /\ \A r \in Fetchers : read[r].at # "idle" =>
       read[r].link \in Links /\ upload[read[r].link] = "shared"
  /\ \A l \in stored : upload[l] = "shared"
  /\ \A r \in Fetchers : read[r].at \in Burned => read[r].link \notin stored
  /\ \A l \in Links : \A q, r \in L!Took(l) : q = r
  /\ \A l \in Links : handed[l] # 0 => \E r \in L!Took(l) : read[r].at # "check"
  /\ \A l \in Links : upload[l] = "shared" /\ l \notin stored => L!Expired(l) \/ L!Took(l) # {}

(* What a step of the relay may do to a link.                              *)
LinkStep ==
  \A l \in Links :
    /\ handed'[l] # handed[l] => handed[l] = 0 /\ ~L!Expired(l)
    /\ upload'[l] = "shared" /\ l \notin stored' => L!Expired(l)' \/ L!Took(l)' # {}
    /\ \A q, r \in L!Took(l)' : q = r

LEMMA LinkStarts == ASSUME L!Init PROVE LinkInv
BY DEF L!Init, LinkInv, L!TypeOK, L!Unread, L!Took, Burned

(* While no reader moves.                                                  *)
LEMMA LinkUploads ==
  ASSUME LinkInv, UNCHANGED <<read, handed>>,
         \/ UNCHANGED <<linkNow, stored, due, upload>>
         \/ L!Tick
         \/ \E l \in Links : L!Post(l) \/ L!Purge(l) \/ L!Insert(l) \/ L!UploadFails(l)
  PROVE  LinkInv' /\ LinkStep
<1>1. ASSUME L!TypeOK', \A l \in Links : L!Took(l)' = L!Took(l),
             \A l \in Links : upload[l] = "shared" => upload'[l] = "shared",
             \A l \in stored' : upload'[l] = "shared",
             \A l \in stored' : l \in stored \/ upload[l] # "shared",
             \A l \in Links : upload'[l] = "shared" /\ l \notin stored' =>
                (upload[l] = "shared" /\ l \notin stored) \/ L!Expired(l)',
             \A l \in Links : upload[l] = "shared" /\ L!Expired(l) => L!Expired(l)'
      PROVE  LinkInv' /\ LinkStep
  BY <1>1 DEF LinkInv, LinkStep, Burned, L!Took
<1>2. \A l \in Links : L!Took(l)' = L!Took(l)
  BY DEF L!Took
<1>. USE DEF LinkInv, L!TypeOK, L!Expired
<1>3. CASE UNCHANGED <<linkNow, stored, due, upload>>
  BY <1>1, <1>2, <1>3
<1>4. CASE L!Tick
  BY <1>1, <1>2, <1>4 DEF L!Tick
<1>5. ASSUME NEW l \in Links, L!Post(l) PROVE LinkInv' /\ LinkStep
  BY <1>1, <1>2, <1>5, ServicesAssumption DEF L!Post
<1>6. ASSUME NEW l \in Links, L!Purge(l) PROVE LinkInv' /\ LinkStep
  BY <1>1, <1>2, <1>6 DEF L!Purge
<1>7. ASSUME NEW l \in Links, L!Insert(l) PROVE LinkInv' /\ LinkStep
  BY <1>1, <1>2, <1>7 DEF L!Insert
<1>8. ASSUME NEW l \in Links, L!UploadFails(l) PROVE LinkInv' /\ LinkStep
  BY <1>1, <1>2, <1>8 DEF L!UploadFails
<1> QED BY <1>3, <1>4, <1>5, <1>6, <1>7, <1>8

LEMMA OneReader ==
  ASSUME L!TypeOK, NEW r \in Fetchers, NEW new \in LinkReader, read' = [read EXCEPT ![r] = new]
  PROVE  /\ read' \in [Fetchers -> LinkReader]
         /\ read'[r] = new
         /\ \A q \in Fetchers : q # r => read'[q] = read[q]
BY DEF L!TypeOK, LinkReader

LEMMA LinkOpens ==
  ASSUME LinkInv, NEW r \in Fetchers, NEW l \in Links, NEW right \in BOOLEAN, L!Open(r, l, right)
  PROVE  LinkInv' /\ LinkStep
<1>1. [at |-> "take", link |-> l, right |-> right] \in LinkReader
  BY DEF LinkReader
<1>2. /\ read' \in [Fetchers -> LinkReader]
      /\ read'[r] = [at |-> "take", link |-> l, right |-> right]
      /\ \A q \in Fetchers : q # r => read'[q] = read[q]
      /\ read[r].at = "idle" /\ upload[l] = "shared"
      /\ UNCHANGED <<linkNow, stored, due, upload, handed>>
  BY <1>1, OneReader DEF L!Open, LinkInv
<1>3. \A k \in Links : L!Took(k)' = L!Took(k)
  BY <1>2 DEF L!Took
<1>4. L!TypeOK'
  BY <1>2 DEF LinkInv, L!TypeOK, LinkReader
<1>5. \A k \in Links : L!Expired(k)' = L!Expired(k)
  BY <1>2 DEF L!Expired
<1>6. \A q \in Fetchers : read'[q].at \in Burned => read'[q] = read[q]
  BY <1>2 DEF Burned
<1>7. LinkInv'
  <2>1. \A q \in Fetchers : read'[q].at # "idle" =>
          read'[q].link \in Links /\ upload'[read'[q].link] = "shared"
    BY <1>2 DEF LinkInv
  <2>2. \A k \in Links : handed'[k] # 0 => \E q \in L!Took(k)' : read'[q].at # "check"
    BY <1>2, <1>3, <1>6 DEF LinkInv, L!Took
  <2> QED BY <1>2, <1>3, <1>4, <1>5, <1>6, <2>1, <2>2 DEF LinkInv
<1>8. LinkStep
  BY <1>2, <1>3, <1>5 DEF LinkInv, LinkStep
<1> QED BY <1>7, <1>8

(* A reader's call goes on with the link it has.                           *)
LEMMA LinkReaches ==
  ASSUME LinkInv, NEW r \in Fetchers, NEW at, L!Reaches(r, at),
         at \in {"check", "decrypt", "has", "lost", "refused"},
         read[r].at \in {"take", "check", "decrypt"},
         UNCHANGED <<linkNow, due, upload>>
  PROVE  /\ read[r].link \in Links
         /\ read' \in [Fetchers -> LinkReader]
         /\ \A q \in Fetchers : read'[q].link = read[q].link
         /\ \A q \in Fetchers : read'[q].at = IF q = r THEN at ELSE read[q].at
         /\ \A k \in Links : L!Expired(k)' = L!Expired(k)
<1>. DEFINE new == [read[r] EXCEPT !.at = at]
<1>1. read[r] \in LinkReader
  BY DEF LinkInv, L!TypeOK, LinkReader
<1>2. new \in LinkReader /\ new.at = at /\ new.link = read[r].link
  BY <1>1 DEF LinkReader
<1>3. read' = [read EXCEPT ![r] = new]
  BY DEF L!Reaches
<1>. HIDE DEF new
<1>4. /\ read' \in [Fetchers -> LinkReader]
      /\ read'[r] = new
      /\ \A q \in Fetchers : q # r => read'[q] = read[q]
  BY <1>2, <1>3, OneReader DEF LinkInv
<1>5. \A k \in Links : L!Expired(k)' = L!Expired(k)
  BY DEF L!Expired
<1> QED BY <1>2, <1>4, <1>5 DEF LinkInv

LEMMA LinkTakes ==
  ASSUME LinkInv, NEW r \in Fetchers, L!Take(r)
  PROVE  LinkInv' /\ LinkStep
<1>. DEFINE l == read[r].link
            at == IF l \in stored THEN "check" ELSE "refused"
<1>1. /\ read[r].at = "take" /\ stored' = stored \ {l} /\ L!Reaches(r, at)
      /\ UNCHANGED <<linkNow, due, upload, handed>>
      /\ at \in {"check", "refused"}
      /\ at = "check" <=> l \in stored
  BY DEF L!Take
<1>. HIDE DEF at
<1>2. /\ l \in Links
      /\ read' \in [Fetchers -> LinkReader]
      /\ \A q \in Fetchers : read'[q].link = read[q].link
      /\ \A q \in Fetchers : read'[q].at = IF q = r THEN at ELSE read[q].at
      /\ \A k \in Links : L!Expired(k)' = L!Expired(k)
  BY <1>1, LinkReaches
<1>3. \A k \in Links : L!Took(k)' = L!Took(k) \cup {q \in {r} : k = l /\ at = "check"}
  BY <1>1, <1>2 DEF L!Took
<1>4. L!TypeOK'
  BY <1>1, <1>2 DEF LinkInv, L!TypeOK, LinkReader
<1>5. at = "check" => L!Took(l) = {}
  BY <1>1 DEF LinkInv, L!Took, Burned
<1>6. \A k \in Links : \A p, q \in L!Took(k)' : p = q
  BY <1>3, <1>5 DEF LinkInv
<1>7. \A k \in Links : upload'[k] = "shared" /\ k \notin stored' => L!Expired(k)' \/ L!Took(k)' # {}
  BY <1>1, <1>2, <1>3 DEF LinkInv
<1>8. \A q \in Fetchers : read'[q].at # "idle" => read[q].at # "idle"
  BY <1>1, <1>2
<1>9. \A q \in Fetchers : read'[q].at \in Burned => read'[q].link \notin stored'
  BY <1>1, <1>2 DEF LinkInv
<1>10. \A k \in Links : handed'[k] # 0 => \E q \in L!Took(k)' : read'[q].at # "check"
  <2>1. ASSUME NEW k \in Links, handed'[k] # 0 PROVE \E q \in L!Took(k)' : read'[q].at # "check"
    <3>1. PICK q \in L!Took(k) : read[q].at # "check"
      BY <1>1, <2>1 DEF LinkInv
    <3>2. q # r
      BY <1>1, <3>1 DEF L!Took
    <3> QED BY <1>2, <1>3, <3>1, <3>2 DEF L!Took
  <2> QED BY <2>1
<1>11. LinkInv'
  BY <1>1, <1>2, <1>4, <1>6, <1>7, <1>8, <1>9, <1>10 DEF LinkInv
<1>12. LinkStep
  BY <1>1, <1>6, <1>7 DEF LinkStep
<1> QED BY <1>11, <1>12

(* The answer is on its way, got lost, or is decrypted.                    *)
LEMMA LinkHands ==
  ASSUME LinkInv, NEW r \in Fetchers, L!Hand(r) \/ L!HandFails(r) \/ L!Decrypt(r)
  PROVE  LinkInv' /\ LinkStep
<1>. DEFINE l == read[r].link
<1>1. PICK at \in {"decrypt", "has", "lost"} : L!Reaches(r, at)
  BY DEF L!Hand, L!HandFails, L!Decrypt
<1>2. /\ read[r].at \in {"check", "decrypt"}
      /\ \/ handed' = handed
         \/ /\ read[r].at = "check" /\ ~L!Expired(l)
            /\ handed' = [handed EXCEPT ![l] = @ + 1]
      /\ UNCHANGED <<linkNow, stored, due, upload>>
  BY DEF L!Hand, L!HandFails, L!Decrypt
<1>3. /\ l \in Links
      /\ read' \in [Fetchers -> LinkReader]
      /\ \A q \in Fetchers : read'[q].link = read[q].link
      /\ \A q \in Fetchers : read'[q].at = IF q = r THEN at ELSE read[q].at
      /\ \A k \in Links : L!Expired(k)' = L!Expired(k)
  BY <1>1, <1>2, LinkReaches
<1>4. \A k \in Links : L!Took(k)' = L!Took(k)
  BY <1>2, <1>3 DEF L!Took
<1>5. r \in L!Took(l)
  BY <1>2 DEF L!Took
<1>6. read[r].at = "check" => handed[l] = 0
  BY <1>3, <1>5 DEF LinkInv
<1>7. L!TypeOK'
  BY <1>2, <1>3 DEF LinkInv, L!TypeOK, LinkReader
<1>8. \A k \in Links : handed'[k] # handed[k] => k = l /\ handed[k] = 0 /\ ~L!Expired(k)
  BY <1>2, <1>3, <1>6 DEF LinkInv, L!TypeOK
<1>9. \A k \in Links : handed'[k] # 0 => \E q \in L!Took(k)' : read'[q].at # "check"
  BY <1>3, <1>4, <1>5, <1>8 DEF LinkInv, L!Took
<1>10. \A q \in Fetchers : read'[q].at \in Burned => read[q].at \in Burned
  BY <1>2, <1>3 DEF Burned
<1>11. \A q \in Fetchers : read'[q].at # "idle" => read[q].at # "idle"
  BY <1>2, <1>3
<1>12. LinkInv'
  BY <1>2, <1>3, <1>4, <1>7, <1>9, <1>10, <1>11 DEF LinkInv
<1>13. LinkStep
  BY <1>2, <1>3, <1>4, <1>8 DEF LinkInv, LinkStep
<1> QED BY <1>12, <1>13

LEMMA LinkKeeps == ASSUME LinkInv, [L!Next]_linkVars PROVE LinkInv' /\ LinkStep
<1>1. CASE L!Next
  <2>1. ASSUME NEW l \in Links, L!Post(l) \/ L!Purge(l) \/ L!Insert(l) \/ L!UploadFails(l)
        PROVE  LinkInv' /\ LinkStep
    BY <2>1, LinkUploads DEF L!Post, L!Purge, L!Insert, L!UploadFails
  <2> QED BY <1>1, <2>1, LinkUploads, LinkOpens, LinkTakes, LinkHands DEF L!Next, L!Tick
<1>2. CASE UNCHANGED linkVars
  BY <1>2, LinkUploads DEF linkVars
<1> QED BY <1>1, <1>2

LEMMA IsLink == AllSpec => L!Init /\ [][L!Next]_linkVars
<1>1. AllInit => L!Init
  BY DEF AllInit
<1>2. [AllNext]_all => [L!Next]_linkVars
  BY DEF AllNext, all, linkVars
<1> QED BY <1>1, <1>2, PTL DEF AllSpec

(* A link is handed out once, not after its time, and is gone only because *)
(* one reader took it or it expired (routes/relay.ts:45-66), for any       *)
(* number of uploads and readers.                                          *)
THEOREM LinksReadOnce == AllSpec => LinkReadOnce
<1>1. LinkInv /\ [L!Next]_linkVars =>
        [\A l \in Links :
           /\ handed'[l] # handed[l] => handed[l] = 0 /\ ~L!Expired(l)
           /\ upload'[l] = "shared" /\ l \notin stored' => L!Expired(l)' \/ L!Took(l)' # {}
           /\ \A q, r \in L!Took(l)' : q = r]_(L!vars)
  BY LinkKeeps DEF LinkStep
<1> QED BY <1>1, LinkStarts, LinkKeeps, IsLink, PTL DEF LinkReadOnce, L!LinkReadOnce
-----------------------------------------------------------------------------
(* Quotes.  What an answer says was so when the vault was asked: an answer *)
(* on its way is at most a step old, one that is remembered dates itself.  *)
GateInv ==
  /\ G!TypeOK
  /\ published <= gateNow /\ tripped <= gateNow /\ cache.at <= gateNow
  /\ \A r \in Requests : ask[r].at # "idle" =>
       ask[r].since <= gateNow /\ gateNow <= ask[r].since + 1
  /\ \A r \in Requests : ask[r].at = "emergency" /\ ~ask[r].overdue =>
       gateNow - published <= Interval + (gateNow - ask[r].since)
  /\ cache.at # G!Never /\ ~cache.value =>
       /\ gateNow - published <= Interval + 1 + (gateNow - cache.at)
       /\ cache.blind \/ ~G!Emergency \/ tripped >= cache.at
  /\ G!QuotesStop

LEMMA GateStarts == ASSUME G!Init PROVE GateInv
BY ServicesAssumption
   DEF G!Init, GateInv, G!TypeOK, G!QuotesStop, G!Emergency, G!Never, G!Empty, G!Quiet

GateCall == [at : {"idle", "overdue", "emergency"}, overdue : BOOLEAN, since : Nat]

LEMMA GateTicks == ASSUME GateInv, G!Tick PROVE GateInv'
BY ServicesAssumption
   DEF GateInv, G!Tick, G!TypeOK, G!QuotesStop, G!Emergency, G!Never

LEMMA VaultMoves == ASSUME GateInv, G!Attest \/ G!Trip PROVE GateInv'
BY ServicesAssumption
   DEF GateInv, G!Attest, G!Trip, G!TypeOK, G!QuotesStop, G!Emergency, G!Never

LEMMA OneAsks ==
  ASSUME GateInv, NEW r \in Requests, NEW new \in GateCall, ask' = [ask EXCEPT ![r] = new]
  PROVE  /\ ask' \in [Requests -> GateCall]
         /\ ask'[r] = new
         /\ \A q \in Requests : q # r => ask'[q] = ask[q]
BY DEF GateInv, G!TypeOK, GateCall

LEMMA GateAsks ==
  ASSUME GateInv, NEW r \in Requests, G!Ask(r) \/ G!ReadOverdue(r) \/ G!AskFails(r)
  PROVE  GateInv'
<1>1. CASE G!Ask(r) /\ G!Fresh
  BY <1>1, ServicesAssumption DEF G!Ask, G!Fresh, G!Answer, G!Ttl, GateInv, G!TypeOK, G!QuotesStop, G!Emergency, G!Never
<1>2. ASSUME NEW new \in GateCall, ask' = [ask EXCEPT ![r] = new], accepted' = {},
             UNCHANGED <<gateNow, published, tripped, cache>>,
             new.at # "idle" => new.since <= gateNow /\ gateNow <= new.since + 1,
             new.at = "emergency" /\ ~new.overdue =>
               gateNow - published <= Interval + (gateNow - new.since)
      PROVE  GateInv'
  <2>1. /\ ask' \in [Requests -> GateCall]
        /\ ask'[r] = new
        /\ \A q \in Requests : q # r => ask'[q] = ask[q]
    BY <1>2, OneAsks
  <2>2. G!TypeOK'
    BY <1>2, <2>1 DEF GateInv, G!TypeOK, GateCall
  <2> QED BY <1>2, <2>1, <2>2 DEF GateInv, G!QuotesStop, G!Emergency
<1>3. CASE G!Ask(r) /\ ~G!Fresh
  <2>. DEFINE new == [G!Quiet EXCEPT !.at = "overdue", !.since = gateNow]
  <2>1. new \in GateCall /\ new.at = "overdue" /\ new.since = gateNow /\ gateNow \in Nat
    BY DEF G!Quiet, GateCall, GateInv, G!TypeOK
  <2>2. ask' = [ask EXCEPT ![r] = new] /\ accepted' = {} /\ UNCHANGED <<gateNow, published, tripped, cache>>
    BY <1>3 DEF G!Ask
  <2>3. /\ new.at # "idle" => new.since <= gateNow /\ gateNow <= new.since + 1
        /\ ~(new.at = "emergency" /\ ~new.overdue)
    BY <2>1
  <2>. HIDE DEF new
  <2> QED BY <1>2, <2>1, <2>2, <2>3
<1>4. ask[r] \in GateCall /\ gateNow \in Nat /\ published \in Nat
  BY DEF GateInv, G!TypeOK, GateCall
<1>5. CASE G!ReadOverdue(r)
  <2>. DEFINE new == [ask[r] EXCEPT !.at = "emergency", !.overdue = G!Overdue]
  <2>5. G!Overdue \in BOOLEAN
    BY DEF G!Overdue
  <2>1. /\ new \in GateCall /\ new.at = "emergency" /\ new.since = ask[r].since
        /\ new.overdue = G!Overdue
    BY <1>4, <2>5 DEF GateCall
  <2>2. /\ ask' = [ask EXCEPT ![r] = new] /\ accepted' = {}
        /\ UNCHANGED <<gateNow, published, tripped, cache>>
        /\ ask[r].since <= gateNow /\ gateNow <= ask[r].since + 1
    BY <1>5 DEF G!ReadOverdue, GateInv
  <2>3. ask[r].since \in Nat
    BY <1>4 DEF GateCall
  <2>4. ~new.overdue => gateNow - published <= Interval + (gateNow - new.since)
    <3>1. ~G!Overdue => gateNow - published <= Interval
      BY <1>4, ServicesAssumption DEF G!Overdue
    <3> QED BY <1>4, <2>1, <2>2, <2>3, <3>1, ServicesAssumption
  <2>. HIDE DEF new
  <2> QED BY <1>2, <2>1, <2>2, <2>4
<1>6. CASE G!AskFails(r)
  <2>1. G!Quiet \in GateCall /\ G!Quiet.at = "idle"
    BY DEF G!Quiet, GateCall
  <2> QED BY <1>2, <1>6, <2>1 DEF G!AskFails
<1> QED BY <1>1, <1>3, <1>5, <1>6

LEMMA GateAnswers ==
  ASSUME GateInv, NEW r \in Requests, NEW failed \in BOOLEAN, G!ReadEmergency(r, failed)
  PROVE  GateInv'
<1>. DEFINE value == ask[r].overdue \/ (G!Emergency /\ ~failed)
<1>1. /\ ask[r].at = "emergency"
      /\ cache' = [value |-> value, at |-> gateNow, blind |-> failed]
      /\ accepted' = IF value THEN {} ELSE {r}
      /\ ask' = [ask EXCEPT ![r] = G!Quiet]
      /\ UNCHANGED <<gateNow, published, tripped>>
  BY DEF G!ReadEmergency, G!Answer
<1>2. G!Quiet \in GateCall /\ G!Quiet.at = "idle"
  BY DEF G!Quiet, GateCall
<1>3. /\ ask' \in [Requests -> GateCall]
      /\ ask'[r] = G!Quiet
      /\ \A q \in Requests : q # r => ask'[q] = ask[q]
  BY <1>1, <1>2, OneAsks
<1>4. ask[r].overdue \in BOOLEAN /\ G!Emergency \in BOOLEAN
  BY DEF GateInv, G!TypeOK, G!Emergency
<1>5. G!TypeOK'
  BY <1>1, <1>3, <1>4 DEF GateInv, G!TypeOK, GateCall
<1>6. ~value => gateNow - published <= Interval + 1 /\ (~G!Emergency \/ failed)
  BY <1>1, ServicesAssumption DEF GateInv, G!TypeOK
<1>7. \A q \in Requests : ask'[q].at # "idle" => ask'[q] = ask[q]
  BY <1>2, <1>3
<1>8. cache'.at = gateNow /\ cache'.value = value /\ cache'.blind = failed
  BY <1>1
<1>. HIDE DEF value
<1>9. G!QuotesStop'
  BY <1>1, <1>6, <1>8, ServicesAssumption DEF GateInv, G!TypeOK, G!QuotesStop, G!Emergency, G!Ttl
<1>10. cache'.at # G!Never /\ ~cache'.value =>
         /\ gateNow' - published' <= Interval + 1 + (gateNow' - cache'.at)
         /\ cache'.blind \/ ~G!Emergency' \/ tripped' >= cache'.at
  BY <1>1, <1>6, <1>8, ServicesAssumption DEF GateInv, G!TypeOK, G!Emergency
<1> QED BY <1>1, <1>5, <1>7, <1>8, <1>9, <1>10 DEF GateInv, G!TypeOK

LEMMA GateKeeps == ASSUME GateInv, [G!Next]_gateVars PROVE GateInv'
<1>1. CASE UNCHANGED gateVars
  BY <1>1 DEF GateInv, gateVars, G!TypeOK, G!QuotesStop, G!Emergency
<1> QED BY <1>1, GateTicks, VaultMoves, GateAsks, GateAnswers DEF G!Next

LEMMA IsGate == AllSpec => G!Init /\ [][G!Next]_gateVars
<1>1. AllInit => G!Init
  BY DEF AllInit
<1>2. [AllNext]_all => [G!Next]_gateVars
  BY DEF AllNext, all, gateVars
<1> QED BY <1>1, <1>2, PTL DEF AllSpec

(* No quote is handed out once the vault was overdue for longer than an    *)
(* answer is remembered, or while it is in emergency mode and could be     *)
(* read (vault-tempo.ts:205-234), for any interval and number of requests. *)
THEOREM QuotesAreStopped == AllSpec => []QuotesStop
<1>1. GateInv => QuotesStop
  BY DEF GateInv, QuotesStop
<1> QED BY <1>1, GateStarts, GateKeeps, IsGate, PTL
-----------------------------------------------------------------------------
(* The hosted mint.  What the check has passed holds of the vault it is    *)
(* for, and requests wait for, or are served by, the vault they met.       *)
Allows(v) == B!Sound(v) \/ (blind /\ VaultFacts[v].token = UnitToken)

BindingInv ==
  /\ B!TypeOK
  /\ verified = "vault" => VaultFacts[config].hasCode
  /\ verified = "ceiling" => VaultFacts[config].token = UnitToken
  /\ verified = "ok" => Allows(config)
  /\ \A r \in Requests : call[r] = "served" => verified = "ok"
  /\ \A r \in Requests : call[r] # "idle" => bound[r] = config

LEMMA BindingStarts == ASSUME B!Init PROVE BindingInv
BY DEF B!Init, BindingInv, B!TypeOK

LEMMA BindingDeploys ==
  ASSUME BindingInv, NEW v \in DOMAIN VaultFacts, B!Deploy(v)
  PROVE  BindingInv'
BY DEF BindingInv, B!Deploy, B!TypeOK, Allows, B!Sound

LEMMA BindingChecks ==
  ASSUME BindingInv, B!ReadCode \/ B!ReadToken \/ B!ReadCeiling \/ B!CallFails
  PROVE  BindingInv'
<1>. USE ServicesAssumption
<1>1. CASE B!ReadCode
  BY <1>1 DEF BindingInv, B!ReadCode, B!Facts, B!TypeOK, B!Steps, Allows, B!Sound
<1>2. CASE B!ReadToken
  BY <1>2 DEF BindingInv, B!ReadToken, B!Facts, B!Rejects, B!TypeOK, B!Steps, Allows, B!Sound
<1>3. CASE B!ReadCeiling
  BY <1>3 DEF BindingInv, B!ReadCeiling, B!Facts, B!Rejects, B!TypeOK, B!Steps, Allows, B!Sound
<1>4. CASE B!CallFails
  <2>1. CASE verified = "ceiling"
    BY <1>4, <2>1 DEF BindingInv, B!CallFails, B!TypeOK, Allows
  <2>2. CASE verified # "ceiling"
    BY <1>4, <2>2 DEF BindingInv, B!CallFails, B!Rejects, B!TypeOK, B!Steps
  <2> QED BY <2>1, <2>2
<1> QED BY <1>1, <1>2, <1>3, <1>4

LEMMA BindingFetches ==
  ASSUME BindingInv, NEW r \in Requests, B!Fetch(r)
  PROVE  BindingInv'
<1>1. CASE env # config
  BY <1>1 DEF BindingInv, B!Fetch, B!Build, B!TypeOK, B!Steps
<1>2. CASE env = config
  BY <1>2 DEF BindingInv, B!Fetch, B!TypeOK, B!Steps, Allows, B!Sound
<1> QED BY <1>1, <1>2

LEMMA BindingServes ==
  ASSUME BindingInv, NEW r \in Requests, B!Serve(r) \/ B!Answers(r)
  PROVE  BindingInv'
BY DEF BindingInv, B!Serve, B!Answers, B!TypeOK, B!Steps, Allows, B!Sound

LEMMA BindingKeeps == ASSUME BindingInv, [B!Next]_bindingVars PROVE BindingInv'
<1>1. CASE UNCHANGED bindingVars
  BY <1>1 DEF BindingInv, bindingVars, B!TypeOK, Allows, B!Sound
<1> QED
  BY <1>1, BindingDeploys, BindingChecks, BindingFetches, BindingServes DEF B!Next

LEMMA IsBinding == AllSpec => B!Init /\ [][B!Next]_bindingVars
<1>1. AllInit => B!Init
  BY DEF AllInit
<1>2. [AllNext]_all => [B!Next]_bindingVars
  BY DEF AllNext, all, bindingVars
<1> QED BY <1>1, <1>2, PTL DEF AllSpec

(* A request is answered only by a mint whose vault passed the check, or   *)
(* could not be asked for its ceiling (worker.ts:63-92), however often the *)
(* operator points it elsewhere.                                           *)
THEOREM ServedIsVerified == AllSpec => []ServesVerified
<1>1. BindingInv => ServesVerified
  BY DEF BindingInv, ServesVerified, B!ServesVerified, Allows
<1> QED BY <1>1, BindingStarts, BindingKeeps, IsBinding, PTL
-----------------------------------------------------------------------------
(* The solvency report.  The mint owes no more than it holds, so the least *)
(* supply a reader saw is at most the balance of that moment; a reader     *)
(* whose balance did not move compares with that one.                      *)

(* What a reader holds while it works; what it calls low it saw circulate. *)
SoundJob(r) ==
  LET j == job[r]
  IN /\ j.at = "spent" => j.issued <= S!Issued /\ j.issued - S!Spent <= j.low
     /\ j.at \in {"balance", "send"} => S!Outstanding(j) <= j.low
     /\ j.at \in {"spent", "balance", "send"} /\ ~j.moved => j.low <= S!Balance
     /\ ~S!Resting(r) /\ j.balance # S!None /\ ~j.moved => j.balance = S!Balance
     /\ j.at = "alarm" => j.moved

CacheSound == cached # S!None /\ ~stale => cached = S!Balance

SInv ==
  /\ S!TypeOK
  /\ CacheSound
  /\ \A r \in S!Readers : SoundJob(r)
-----------------------------------------------------------------------------
(* A mint that is solvent owes no more than it holds.                      *)
LEMMA Solvent ==
  ASSUME S!TypeOK
  PROVE  /\ S!Supply <= S!Balance /\ S!Supply = S!Issued - S!Spent
         /\ S!Supply \in Nat /\ S!Balance \in Nat /\ S!Issued \in Nat /\ S!Spent \in Nat
BY DEF S!TypeOK, S!Supply, S!Balance, S!Issued, S!Spent

(* What readers make of their jobs are jobs.                               *)
LEMMA JobIssued ==
  ASSUME NEW j \in S!Jobs, NEW n \in Nat, NEW m \in Int
  PROVE  LET k == [j EXCEPT !.at = "spent", !.issued = n, !.low = m]
         IN /\ k \in S!Jobs /\ k.at = "spent" /\ k.issued = n /\ k.low = m
            /\ k.balance = j.balance /\ (k.moved <=> j.moved)
<1>1. [j EXCEPT !.at = "spent", !.issued = n] \in S!Jobs
  BY DEF S!Jobs
<1>2. [[j EXCEPT !.at = "spent", !.issued = n] EXCEPT !.low = m] \in S!Jobs
  BY <1>1 DEF S!Jobs
<1> QED
  BY <1>2 DEF S!Jobs

LEMMA JobSpent ==
  ASSUME NEW j \in S!Jobs, NEW n \in Nat, NEW m \in Int
  PROVE  LET k == [j EXCEPT !.at = "balance", !.spent = n, !.low = m]
         IN /\ k \in S!Jobs /\ k.at = "balance" /\ k.spent = n /\ k.low = m
            /\ k.issued = j.issued /\ k.balance = j.balance /\ (k.moved <=> j.moved)
<1>1. [j EXCEPT !.at = "balance", !.spent = n] \in S!Jobs
  BY DEF S!Jobs
<1>2. [[j EXCEPT !.at = "balance", !.spent = n] EXCEPT !.low = m] \in S!Jobs
  BY <1>1 DEF S!Jobs
<1> QED
  BY <1>2 DEF S!Jobs

LEMMA JobFound ==
  ASSUME NEW j \in S!Jobs, NEW b \in Int, NEW m \in BOOLEAN
  PROVE  LET k == [j EXCEPT !.balance = b, !.moved = @ \/ m]
         IN /\ k \in S!Jobs /\ k.at = j.at /\ k.issued = j.issued /\ k.spent = j.spent
            /\ k.low = j.low /\ k.balance = b /\ (k.moved <=> j.moved \/ m)
  BY DEF S!Jobs

LEMMA JobRests == S!Rest \in S!Jobs /\ [S!Rest EXCEPT !.at = "issued"] \in S!Jobs
<1>1. S!Rest \in S!Jobs
  BY DEF S!Jobs, S!Rest, S!None
<1> QED
  BY <1>1 DEF S!Jobs

LEMMA JobAlarm ==
  ASSUME NEW m \in BOOLEAN
  PROVE  [S!Rest EXCEPT !.at = "alarm", !.moved = m] \in S!Jobs
BY JobRests DEF S!Jobs

LEMMA JobMoved ==
  ASSUME NEW j \in S!Jobs, NEW m \in BOOLEAN
  PROVE  LET k == [j EXCEPT !.moved = @ \/ m]
         IN /\ k \in S!Jobs /\ k.at = j.at /\ k.issued = j.issued /\ k.spent = j.spent
            /\ k.low = j.low /\ k.balance = j.balance /\ (k.moved <=> j.moved \/ m)
  BY DEF S!Jobs

(* The invariant holds at the start.                                       *)
LEMMA SInit ==
  ASSUME S!Init
  PROVE  SInv
<1>1. S!TypeOK
  <2>1. stale \in BOOLEAN
    BY DEF S!Init
  <2>2. job \in [S!Readers -> S!Jobs]
    BY JobRests DEF S!Init
  <2> QED
    BY <2>1, <2>2 DEF S!Init, S!TypeOK, S!None
<1>2. CacheSound
  BY DEF S!Init, CacheSound
<1>3. \A r \in S!Readers : SoundJob(r)
  BY DEF S!Init, SoundJob, S!Rest, S!Resting
<1> QED
  BY <1>1, <1>2, <1>3 DEF SInv

(* Deposits and payouts move the balance, and every reader at work is told.*)
LEMMA SMoves ==
  ASSUME SInv, S!Deposit \/ S!Pay
  PROVE  SInv'
<1> USE DEF SInv
<1>1. S!BalanceMoves /\ UNCHANGED <<minted, swaps, burned, cached, attested>>
  BY DEF S!Deposit, S!Pay
<1>2. job' \in [S!Readers -> S!Jobs]
  <2> SUFFICES ASSUME NEW r \in S!Readers
      PROVE  [job[r] EXCEPT !.moved = @ \/ ~S!Resting(r)] \in S!Jobs
    BY <1>1 DEF S!BalanceMoves
  <2>1. job[r] \in S!Jobs /\ (~S!Resting(r)) \in BOOLEAN
    BY DEF S!TypeOK
  <2> QED
    BY <2>1, JobMoved
<1>3. S!TypeOK'
  <2>1. stale' \in BOOLEAN
    BY <1>1 DEF S!BalanceMoves
  <2>2. /\ deposits' \in Nat /\ minted' \in Nat /\ swaps' \in Nat /\ burned' \in Nat /\ paid' \in Nat
        /\ paid' <= burned' /\ burned' <= minted' /\ minted' <= deposits'
    BY <1>1 DEF S!Deposit, S!Pay, S!TypeOK
  <2> QED
    BY <1>1, <1>2, <2>1, <2>2 DEF S!TypeOK
<1>4. CacheSound'
  BY <1>1 DEF S!BalanceMoves, CacheSound
<1>5. ASSUME NEW r \in S!Readers
      PROVE  SoundJob(r)'
  <2>1. job'[r] = [job[r] EXCEPT !.moved = @ \/ ~S!Resting(r)] /\ job[r] \in S!Jobs
    BY <1>1 DEF S!BalanceMoves, S!TypeOK
  <2>2. SoundJob(r)
    OBVIOUS
  <2>3. S!Issued' = S!Issued /\ S!Spent' = S!Spent
    BY <1>1 DEF S!Issued, S!Spent
  <2>4. CASE S!Resting(r)
    BY <2>1, <2>2, <2>4 DEF SoundJob, S!Resting, S!Jobs
  <2>5. CASE ~S!Resting(r)
    <3>1. job'[r].moved
      BY <2>1, <2>5 DEF S!Jobs
    <3> QED
      BY <2>1, <2>2, <2>3, <2>5, <3>1 DEF SoundJob, S!Resting, S!Outstanding, S!Jobs
  <2> QED
    BY <2>4, <2>5
<1> QED
  BY <1>3, <1>4, <1>5

(* Issues, swaps and burns leave the balance; between the two sums they    *)
(* only lower what the reader will make of the supply.                     *)
LEMMA SCirculates ==
  ASSUME SInv, S!Issue \/ S!Swap \/ S!Burn
  PROVE  SInv'
<1> USE DEF SInv
<1>1. UNCHANGED <<deposits, paid, cached, stale, job, attested>>
  BY DEF S!Issue, S!Swap, S!Burn
<1>2. S!TypeOK'
  BY DEF S!Issue, S!Swap, S!Burn, S!TypeOK, S!Supply
<1>3. S!Balance' = S!Balance /\ S!Issued' >= S!Issued /\ S!Spent' >= S!Spent
      /\ S!Issued \in Nat /\ S!Spent \in Nat /\ S!Issued' \in Nat /\ S!Spent' \in Nat
  BY DEF S!Issue, S!Swap, S!Burn, S!TypeOK, S!Balance, S!Issued, S!Spent
<1>4. CacheSound'
  BY <1>1, <1>3 DEF CacheSound
<1>5. ASSUME NEW r \in S!Readers
      PROVE  SoundJob(r)'
  <2>1. SoundJob(r) /\ job[r] \in S!Jobs
    BY DEF S!TypeOK
  <2> QED
    BY <1>1, <1>3, <2>1 DEF SoundJob, S!Resting, S!Outstanding, S!Jobs
<1> QED
  BY <1>2, <1>4, <1>5

(* A step of one reader that leaves the books is sound when it is for that *)
(* reader.                                                                 *)
LEMMA OneJob ==
  ASSUME SInv, NEW r \in S!Readers, NEW j \in S!Jobs, S!Goes(r, j),
         UNCHANGED S!books, attested' \in Int, cached' \in Int, stale' \in BOOLEAN,
         CacheSound', SoundJob(r)'
  PROVE  SInv'
<1> USE DEF SInv, S!Goes
<1>1. S!TypeOK'
  BY DEF S!TypeOK, S!books
<1>2. ASSUME NEW q \in S!Readers, q # r
      PROVE  SoundJob(q)'
  <2>1. job'[q] = job[q] /\ SoundJob(q)
    BY <1>2 DEF S!TypeOK
  <2> QED
    BY <2>1 DEF SoundJob, S!Resting, S!Outstanding, S!Issued, S!Spent, S!Balance, S!books
<1> QED
  BY <1>1, <1>2

(* The steps of computeOutstanding.                                        *)
LEMMA SReads ==
  ASSUME SInv, NEW r \in S!Readers, S!Begin(r) \/ S!ReadIssued(r) \/ S!ReadSpent(r) \/ S!Fails(r)
  PROVE  SInv'
<1> USE DEF SInv
<1>0. /\ UNCHANGED S!books /\ CacheSound'
      /\ cached' \in Int /\ stale' \in BOOLEAN /\ attested' \in Int
      /\ job[r] \in S!Jobs /\ SoundJob(r) /\ job \in [S!Readers -> S!Jobs]
  BY DEF S!Begin, S!ReadIssued, S!ReadSpent, S!Fails, S!TypeOK, CacheSound, S!Balance, S!books
<1>1. /\ S!Supply <= S!Balance /\ S!Supply = S!Issued - S!Spent
      /\ S!Supply \in Nat /\ S!Balance \in Nat /\ S!Issued \in Nat /\ S!Spent \in Nat
      /\ S!Issued' = S!Issued /\ S!Spent' = S!Spent /\ S!Balance' = S!Balance
  BY <1>0, Solvent DEF S!Issued, S!Spent, S!Balance, S!books
<1>2. CASE S!Begin(r) \/ S!Fails(r)
  <2>1. PICK j \in {S!Rest, [S!Rest EXCEPT !.at = "issued"]} : S!Goes(r, j)
    BY <1>2 DEF S!Begin, S!Fails
  <2>2. j \in S!Jobs /\ job'[r] = j
    BY <1>0, <2>1, JobRests DEF S!Goes
  <2>3. SoundJob(r)'
    BY <2>1, <2>2 DEF SoundJob, S!Rest, S!Resting
  <2> QED
    BY <1>0, <2>1, <2>2, <2>3, OneJob
<1>3. CASE S!ReadIssued(r)
  <2> DEFINE j == [job[r] EXCEPT !.at = "spent", !.issued = S!Issued, !.low = S!Supply]
  <2>1. S!Goes(r, j) /\ job[r].at = "issued" /\ job'[r] = j
    BY <1>0, <1>3 DEF S!ReadIssued, S!Goes
  <2>2. /\ j \in S!Jobs /\ j.at = "spent" /\ j.issued = S!Issued /\ j.low = S!Supply
        /\ j.balance = job[r].balance /\ (j.moved <=> job[r].moved)
    <3>1. job[r] \in S!Jobs /\ S!Issued \in Nat /\ S!Supply \in Int
      BY <1>0, <1>1
    <3> QED
      BY <3>1, JobIssued, Zenon
  <2> HIDE DEF j
  <2>3. SoundJob(r)'
    BY <1>0, <1>1, <2>1, <2>2 DEF SoundJob, S!Resting
  <2> QED
    BY <1>0, <2>1, <2>2, <2>3, OneJob
<1>4. CASE S!ReadSpent(r)
  <2> DEFINE low == IF S!Supply < job[r].low THEN S!Supply ELSE job[r].low
             j == [job[r] EXCEPT !.at = "balance", !.spent = S!Spent, !.low = low]
  <2>1. S!Goes(r, j) /\ job[r].at = "spent" /\ job'[r] = j
    BY <1>0, <1>4 DEF S!ReadSpent, S!Goes
  <2>2. low \in Int /\ job[r].low \in Int /\ job[r].issued \in Nat
    BY <1>0, <1>1 DEF S!Jobs
  <2>3. /\ j \in S!Jobs /\ j.at = "balance" /\ j.spent = S!Spent /\ j.low = low
        /\ j.issued = job[r].issued /\ j.balance = job[r].balance /\ (j.moved <=> job[r].moved)
    <3>1. job[r] \in S!Jobs /\ S!Spent \in Nat /\ low \in Int
      BY <1>0, <1>1, <2>2
    <3> HIDE DEF low
    <3> QED
      BY <3>1, JobSpent, Zenon
  <2> HIDE DEF j
  <2>4. SoundJob(r)'
    BY <1>0, <1>1, <2>1, <2>2, <2>3 DEF SoundJob, S!Resting, S!Outstanding
  <2> QED
    BY <1>0, <2>1, <2>3, <2>4, OneJob
<1> QED
  BY <1>2, <1>3, <1>4

(* The balance is read and compared, and the supply is sent.               *)
LEMMA SCompares ==
  ASSUME SInv, NEW r \in S!Readers,
         \/ S!Compare(r) \/ S!Publish(r) \/ S!StatusCached(r) \/ S!Show(r)
         \/ \E failed \in BOOLEAN : S!ChainStatus(r, failed)
  PROVE  SInv'
<1> USE DEF SInv
<1>0. /\ UNCHANGED S!books
      /\ job[r] \in S!Jobs /\ SoundJob(r) /\ job \in [S!Readers -> S!Jobs]
      /\ cached \in Int /\ stale \in BOOLEAN /\ attested \in Int /\ CacheSound
  BY DEF S!Compare, S!Publish, S!StatusCached, S!Show, S!ChainStatus, S!TypeOK
<1>1. /\ S!Supply <= S!Balance /\ S!Balance \in Nat
      /\ S!Issued' = S!Issued /\ S!Spent' = S!Spent /\ S!Balance' = S!Balance
  BY <1>0, Solvent DEF S!Issued, S!Spent, S!Balance, S!books
<1>2. ASSUME S!Compare(r) \/ S!Show(r)
      PROVE  SInv'
  <2> DEFINE alarm == [S!Rest EXCEPT !.at = "alarm", !.moved = job[r].moved]
             send == [job[r] EXCEPT !.at = "send"]
  <2>1. /\ UNCHANGED <<cached, stale, attested>> /\ job[r].at = "balance"
        /\ \/ S!Goes(r, S!Rest)
           \/ S!Goes(r, send)
           \/ S!Goes(r, alarm) /\ S!Balance < S!Outstanding(job[r])
           \/ S!Goes(r, alarm) /\ job[r].balance # S!None /\ job[r].balance < S!Outstanding(job[r])
    BY <1>2 DEF S!Compare, S!Show, S!Alarm
  <2>2. CacheSound'
    BY <1>0, <1>1, <2>1 DEF CacheSound
  <2>3. S!Rest \in S!Jobs /\ send \in S!Jobs /\ alarm \in S!Jobs
    <3>1. send \in S!Jobs /\ job[r].moved \in BOOLEAN
      BY <1>0 DEF S!Jobs
    <3> QED
      BY <3>1, JobRests, JobAlarm
  <2>4. CASE S!Goes(r, S!Rest)
    <3>1. SoundJob(r)'
      BY <1>0, <2>4 DEF SoundJob, S!Rest, S!Resting, S!Goes
    <3> QED
      BY <1>0, <2>1, <2>2, <2>3, <2>4, <3>1, OneJob
  <2>5. CASE S!Goes(r, send)
    <3>1. SoundJob(r)'
      BY <1>0, <1>1, <2>1, <2>5 DEF SoundJob, S!Resting, S!Outstanding, S!Goes, S!Jobs
    <3> QED
      BY <1>0, <2>1, <2>2, <2>3, <2>5, <3>1, OneJob
  <2>6. CASE /\ S!Goes(r, alarm)
             /\ \/ S!Balance < S!Outstanding(job[r])
                \/ job[r].balance # S!None /\ job[r].balance < S!Outstanding(job[r])
    <3>1. S!Outstanding(job[r]) <= job[r].low /\ S!Outstanding(job[r]) \in Int /\ job[r].low \in Int
      BY <1>0, <2>1 DEF SoundJob, S!Outstanding, S!Jobs
    <3>2. ~job[r].moved => job[r].low <= S!Balance
      BY <1>0, <2>1 DEF SoundJob
    <3>3. job[r].balance # S!None /\ ~job[r].moved => job[r].balance = S!Balance
      BY <1>0, <2>1 DEF SoundJob, S!Resting
    <3>4. job[r].moved
      BY <1>0, <1>1, <2>6, <3>1, <3>2, <3>3 DEF S!Jobs
    <3>5. SoundJob(r)'
      BY <1>0, <2>6, <3>4 DEF SoundJob, S!Rest, S!Resting, S!Goes
    <3> QED
      BY <1>0, <2>1, <2>2, <2>3, <2>6, <3>5, OneJob
  <2> QED
    BY <2>1, <2>4, <2>5, <2>6
<1>3. ASSUME S!Publish(r)
      PROVE  SInv'
  <2>1. S!Goes(r, S!Rest) /\ UNCHANGED <<cached, stale>> /\ attested' \in Int /\ S!Rest \in S!Jobs
    <3>1. S!Outstanding(job[r]) \in Int
      BY <1>0 DEF S!Outstanding, S!Jobs
    <3> QED
      BY <1>0, <1>3, <3>1, JobRests DEF S!Publish
  <2>2. CacheSound' /\ SoundJob(r)'
    BY <1>0, <1>1, <2>1 DEF CacheSound, SoundJob, S!Rest, S!Resting, S!Goes
  <2> QED
    BY <1>0, <2>1, <2>2, OneJob
<1>4. ASSUME S!StatusCached(r) \/ \E failed \in BOOLEAN : S!ChainStatus(r, failed)
      PROVE  SInv'
  <2>1. PICK b \in Int, m \in BOOLEAN :
          /\ S!Goes(r, [job[r] EXCEPT !.balance = b, !.moved = @ \/ m])
          /\ b # S!None /\ ~m => b = S!Balance
          /\ cached' = b /\ stale' = m
          /\ job[r].at \in {"issued", "spent", "balance"}
          /\ UNCHANGED attested
    <3>1. CASE S!StatusCached(r)
      <4>1. /\ S!Goes(r, [job[r] EXCEPT !.balance = cached, !.moved = @ \/ stale])
            /\ UNCHANGED <<cached, stale, attested>>
            /\ job[r].at \in {"issued", "spent", "balance"}
        BY <3>1 DEF S!StatusCached, S!ReadsChain
      <4> QED
        BY <1>0, <4>1 DEF CacheSound
    <3>2. CASE \E failed \in BOOLEAN : S!ChainStatus(r, failed)
      <4>1. PICK failed \in BOOLEAN : S!ChainStatus(r, failed)
        BY <3>2
      <4>2. /\ cached' = (IF failed THEN 0 ELSE S!Balance) /\ stale' = failed
            /\ S!Goes(r, [job[r] EXCEPT !.balance = cached', !.moved = @ \/ failed])
            /\ UNCHANGED attested
            /\ job[r].at \in {"issued", "spent", "balance"}
        BY <4>1 DEF S!ChainStatus, S!ReadsChain
      <4>3. cached' \in Int /\ (~failed => cached' = S!Balance)
        BY <1>1, <4>2
      <4> QED
        BY <4>2, <4>3
    <3> QED
      BY <1>4, <3>1, <3>2
  <2> DEFINE j == [job[r] EXCEPT !.balance = b, !.moved = @ \/ m]
  <2>2. job'[r] = j
    BY <1>0, <2>1 DEF S!Goes
  <2>3. CacheSound'
    BY <1>1, <2>1 DEF CacheSound
  <2>4. /\ j \in S!Jobs /\ j.at = job[r].at /\ j.issued = job[r].issued /\ j.spent = job[r].spent
        /\ j.low = job[r].low /\ j.balance = b /\ (j.moved <=> job[r].moved \/ m)
    <3>1. job[r] \in S!Jobs
      BY <1>0
    <3> QED
      BY <3>1, JobFound, ZenonT(20)
  <2> HIDE DEF j
  <2>5. SoundJob(r)'
    BY <1>0, <1>1, <2>1, <2>2, <2>4 DEF SoundJob, S!Resting, S!Outstanding
  <2>6. stale' \in BOOLEAN /\ cached' \in Int /\ attested' \in Int /\ S!Goes(r, j)
    BY <1>0, <2>1 DEF j
  <2> QED
    BY <1>0, <2>3, <2>4, <2>5, <2>6, OneJob
<1> QED
  BY <1>2, <1>3, <1>4

(* The cached status runs out.                                             *)
LEMMA SExpires ==
  ASSUME SInv, S!CacheExpires \/ UNCHANGED S!vars
  PROVE  SInv'
<1>1. UNCHANGED <<S!books, stale, job, attested>> /\ (cached' = S!None \/ cached' = cached)
  BY DEF S!CacheExpires, S!vars, S!books
<1>2. S!TypeOK' /\ CacheSound'
  BY <1>1 DEF SInv, S!TypeOK, CacheSound, S!Balance, S!books, S!None
<1>3. \A r \in S!Readers : SoundJob(r)'
  BY <1>1 DEF SInv, SoundJob, S!Resting, S!Outstanding, S!Issued, S!Spent, S!Balance, S!books
<1> QED
  BY <1>2, <1>3 DEF SInv

(* Every step of the mint and of the readers keeps the invariant.          *)
LEMMA SKeeps ==
  ASSUME SInv, [S!Next]_supplyVars
  PROVE  SInv'
<1>1. CASE S!Deposit \/ S!Pay
  BY <1>1, SMoves
<1>2. CASE S!Issue \/ S!Swap \/ S!Burn
  BY <1>2, SCirculates
<1>3. CASE S!CacheExpires \/ UNCHANGED supplyVars
  BY <1>3, SExpires DEF supplyVars, S!vars
<1>4. ASSUME NEW r \in S!Readers, S!Begin(r) \/ S!ReadIssued(r) \/ S!ReadSpent(r) \/ S!Fails(r)
      PROVE  SInv'
  BY <1>4, SReads
<1>5. ASSUME NEW r \in S!Readers,
             \/ S!Compare(r) \/ S!Publish(r) \/ S!StatusCached(r) \/ S!Show(r)
             \/ \E failed \in BOOLEAN : S!ChainStatus(r, failed)
      PROVE  SInv'
  BY <1>5, SCompares
<1> QED
  BY <1>1, <1>2, <1>3, <1>4, <1>5 DEF S!Next

LEMMA IsSupply == AllSpec => S!Init /\ [][S!Next]_supplyVars
<1>1. AllInit => S!Init
  BY DEF AllInit
<1>2. [AllNext]_all => [S!Next]_supplyVars
  BY DEF AllNext, all, supplyVars
<1> QED BY <1>1, <1>2, PTL DEF AllSpec

(* The two sums of computeOutstanding (solvency.ts:13,17) never say more   *)
(* than circulated, whatever commits between them.                         *)
THEOREM SupplyErrsLow == AllSpec => []S!ReportErrsLow
<1>1. SInv => S!ReportErrsLow
  BY DEF SInv, S!ReportErrsLow, SoundJob
<1> QED BY <1>1, SInit, SKeeps, IsSupply, PTL

(* A solvent mint raises an alarm only when its balance moved under the    *)
(* reader or could not be read (worker.ts:121, status.ts:48).              *)
THEOREM AlarmsMeanMoves == AllSpec => []AlarmNeedsMove
<1>1. SInv => AlarmNeedsMove
  BY DEF SInv, SoundJob, AlarmNeedsMove, S!AlarmNeedsMove
<1> QED BY <1>1, SInit, SKeeps, IsSupply, PTL
-----------------------------------------------------------------------------
(* The paid proxy.  The calls it still owes for a challenge, at the price  *)
(* of that challenge, are covered by what it received and did not use.     *)
PayCall == [at : {"idle", "accept", "swap", "put", "put_spent", "forward"},
            body : Bodies \cup {Nothing}, id : Links \cup {Nothing}, coins : SUBSET Paid]

Owes(r, c) == client[r].at \in {"put", "forward"} /\ client[r].id = c
Owing(c) == {r \in Clients : Owes(r, c)}
Share(r, c) == IF Owes(r, c) THEN 1 ELSE 0

(* A request pays the price of its body for a challenge of that price.     *)
PaysItsPrice(call_) ==
  call_.at # "idle" =>
    /\ call_.body \in Bodies /\ call_.id \in Links
    /\ priced[call_.id] = P!Price(call_.body) /\ priced[call_.id] > 0
    /\ Cardinality(call_.coins) = priced[call_.id]

PayTypes ==
  /\ priced \in [Links -> Nat]
  /\ lapsed \subseteq Links
  /\ kept \in Seq(P!Rows)
  /\ seen \subseteq Paid \X Links
  /\ spent \subseteq Paid
  /\ took \in [Links -> Nat] /\ used \in [Links -> Nat]
  /\ client \in [Clients -> PayCall]
  /\ faults \in 0..MaxFaults

Covered == \A c \in Links : used[c] + priced[c] * Cardinality(Owing(c)) <= took[c]

PayInv ==
  /\ PayTypes
  /\ \A r \in Clients : PaysItsPrice(client[r])
  /\ Covered

(* The module counts coins as the theorems on finite sets do.              *)
LEMMA SameCount == \A X : P!Cardinality(X) = Cardinality(X)
BY DEF P!Cardinality, Cardinality

(* The first tier that names a model exists.                               *)
LEMMA Least ==
  ASSUME NEW T \in SUBSET Nat, T # {}
  PROVE  \E i \in T : \A j \in T : i <= j
<1>1. PICK i \in T : \A j \in T : ~(<<j, i>> \in OpToRel(<, Nat))
  BY NatLessThanWellFounded, WFMin
<1>2. \A j \in T : ~(j < i)
  BY <1>1 DEF OpToRel
<1> QED BY <1>2

LEMMA PriceIsWhole == ASSUME NEW b \in Bodies PROVE P!Price(b) \in Int
<1>. DEFINE named == {i \in DOMAIN Tiers : b.model \in Tiers[i].models}
<1>1. named \in SUBSET Nat /\ named # {}
  BY ServicesAssumption
<1>2. PICK i \in named : \A j \in named : i <= j
  BY <1>1, Least
<1>3. i \in DOMAIN Tiers /\ b.model \in Tiers[i].models
      /\ \A j \in DOMAIN Tiers : b.model \in Tiers[j].models => i <= j
  BY <1>2
<1>4. \E k \in DOMAIN Tiers : P!Tier(b) = Tiers[k]
  BY <1>3 DEF P!Tier
<1>5. P!Tier(b).base \in Nat /\ P!Tier(b).per1k \in Nat
  BY <1>4, ServicesAssumption
<1>6. P!Effective(b) \in Int
  BY ServicesAssumption DEF P!Effective, P!Asked
<1>7. P!Micros(b) \in Int
  BY <1>5, <1>6 DEF P!Micros
<1> QED BY <1>7, ServicesAssumption DEF P!Price

LEMMA OwingFinite ==
  ASSUME NEW c
  PROVE  IsFiniteSet(Owing(c)) /\ Cardinality(Owing(c)) \in Nat
<1>1. Owing(c) \in SUBSET Clients
  BY DEF Owing
<1> QED BY <1>1, FS_Subset, FS_CardinalityType, ServicesAssumption

(* What was used was received, whatever is still owed.                     *)
LEMMA PaidSoFar == ASSUME PayInv, NEW c \in Links PROVE used[c] <= took[c]
<1>. DEFINE n == Cardinality(Owing(c))
<1>1. /\ priced[c] \in Nat /\ used[c] \in Nat /\ took[c] \in Nat /\ n \in Nat
      /\ used[c] + priced[c] * n <= took[c]
  BY OwingFinite DEF PayInv, PayTypes, Covered
<1>. HIDE DEF n
<1>2. priced[c] * n \in Nat
  BY <1>1
<1> QED BY <1>1, <1>2

LEMMA PayStarts == ASSUME P!Init PROVE PayInv
<1>1. client = [r \in Clients |-> P!NoRequest] /\ P!NoRequest.at = "idle" /\ P!NoRequest \in PayCall
  BY DEF P!Init, P!NoRequest, PayCall
<1>2. PayTypes
  BY <1>1, ServicesAssumption DEF P!Init, PayTypes
<1>3. \A c \in Links : Owing(c) = {}
  BY <1>1 DEF Owing, Owes
<1>4. Covered
  <2>1. \A c \in Links : Cardinality(Owing(c)) = 0
    BY <1>3, FS_EmptySet
  <2> QED BY <2>1 DEF P!Init, Covered
<1> QED BY <1>1, <1>2, <1>4 DEF PayInv, PaysItsPrice

(* Steps that move no request and take no payment.                         *)
LEMMA PaySame ==
  ASSUME PayInv, PayTypes', UNCHANGED <<took, used, client>>,
         \A r \in Clients : client[r].at # "idle" => priced'[client[r].id] = priced[client[r].id],
         \A c \in Links : priced'[c] = priced[c] \/ priced[c] = 0
  PROVE  PayInv'
<1>1. \A r \in Clients : PaysItsPrice(client[r])'
  BY DEF PayInv, PaysItsPrice
<1>2. \A c \in Links : Owing(c)' = Owing(c)
  BY DEF Owing, Owes
<1>3. ASSUME NEW c \in Links PROVE used'[c] + priced'[c] * Cardinality(Owing(c)') <= took'[c]
  <2>1. CASE priced'[c] = priced[c]
    BY <1>2, <2>1 DEF PayInv, Covered
  <2>2. CASE priced'[c] # priced[c]
    <3>1. Owing(c) = {}
      BY <2>2 DEF Owing, Owes
    <3>2. Cardinality(Owing(c)') = 0 /\ Cardinality(Owing(c)) = 0
      BY <1>2, <3>1, FS_EmptySet
    <3>3. used[c] <= took[c] /\ priced[c] \in Nat
      BY <3>2 DEF PayInv, Covered, PayTypes
    <3>4. priced'[c] \in Nat
      BY DEF PayTypes
    <3> QED BY <3>2, <3>3, <3>4 DEF PayInv, PayTypes
  <2> QED BY <2>1, <2>2
<1> QED BY <1>1, <1>3 DEF PayInv, Covered

LEMMA PayAsks == ASSUME PayInv, NEW b \in Bodies, P!Ask(b) PROVE PayInv'
<1>1. PICK c \in Links : priced[c] = 0 /\ priced' = [priced EXCEPT ![c] = P!Price(b)]
  BY DEF P!Ask
<1>2. P!Price(b) \in Nat /\ P!Price(b) > 0
  BY PriceIsWhole DEF P!Ask
<1>3. PayTypes'
  BY <1>1, <1>2 DEF P!Ask, PayInv, PayTypes
<1>4. \A d \in Links : priced'[d] = priced[d] \/ priced[d] = 0
  BY <1>1 DEF PayInv, PayTypes
<1>5. ASSUME NEW r \in Clients, client[r].at # "idle"
      PROVE  priced'[client[r].id] = priced[client[r].id]
  BY <1>1, <1>4, <1>5 DEF PayInv, PaysItsPrice
<1> QED BY <1>3, <1>4, <1>5, PaySame DEF P!Ask

(* When one request moves, what is owed changes by its share.              *)
LEMMA OneClient ==
  ASSUME PayInv, NEW r \in Clients, NEW new \in PayCall, client' = [client EXCEPT ![r] = new]
  PROVE  /\ client' \in [Clients -> PayCall]
         /\ client'[r] = new
         /\ \A q \in Clients : q # r => client'[q] = client[q]
         /\ \A c : Cardinality(Owing(c)') = Cardinality(Owing(c)) - Share(r, c) + Share(r, c)'
<1>1. /\ client' \in [Clients -> PayCall]
      /\ client'[r] = new
      /\ \A q \in Clients : q # r => client'[q] = client[q]
  BY DEF PayInv, PayTypes
<1>2. ASSUME NEW c
      PROVE  Cardinality(Owing(c)') = Cardinality(Owing(c)) - Share(r, c) + Share(r, c)'
  <2>1. IsFiniteSet(Owing(c)) /\ Cardinality(Owing(c)) \in Nat
    BY OwingFinite
  <2>. DEFINE rest == Owing(c) \ {r}
  <2>5. r \in Owing(c) <=> Owes(r, c)
    BY DEF Owing
  <2>2. IsFiniteSet(rest) /\ Cardinality(rest) = Cardinality(Owing(c)) - Share(r, c)
    <3>1. IsFiniteSet(rest) /\ Cardinality(rest) =
            IF r \in Owing(c) THEN Cardinality(Owing(c)) - 1 ELSE Cardinality(Owing(c))
      BY <2>1, FS_RemoveElement
    <3>. HIDE DEF rest
    <3> QED BY <2>1, <2>5, <3>1 DEF Share
  <2>3. Owing(c)' = IF Owes(r, c)' THEN rest \cup {r} ELSE rest
    BY <1>1 DEF Owing, Owes
  <2>4. Cardinality(rest \cup {r}) = Cardinality(rest) + 1
    BY <2>2, FS_AddElement
  <2>. HIDE DEF rest
  <2> QED BY <2>1, <2>2, <2>3, <2>4 DEF Share
<1> QED BY <1>1, <1>2

LEMMA PayMoves ==
  ASSUME PayInv, PayTypes', NEW r \in Clients, NEW new \in PayCall,
         client' = [client EXCEPT ![r] = new], priced' = priced, PaysItsPrice(new),
         \A c \in Links : used'[c] - took'[c] + priced[c] * Share(r, c)'
                            <= used[c] - took[c] + priced[c] * Share(r, c)
  PROVE  PayInv'
<1>1. /\ client'[r] = new
      /\ \A q \in Clients : q # r => client'[q] = client[q]
      /\ \A c : Cardinality(Owing(c)') = Cardinality(Owing(c)) - Share(r, c) + Share(r, c)'
  BY OneClient
<1>2. \A q \in Clients : PaysItsPrice(client[q])'
  BY <1>1 DEF PayInv, PaysItsPrice
<1>3. ASSUME NEW c \in Links
      PROVE  used'[c] + priced'[c] * Cardinality(Owing(c)') <= took'[c]
  <2>. DEFINE n == Cardinality(Owing(c))
              m == Cardinality(Owing(c)')
              old == Share(r, c)
              own == Share(r, c)'
              p == priced[c]
  <2>1. n \in Nat /\ m = n - old + own /\ old \in {0, 1} /\ own \in {0, 1}
    BY <1>1, OwingFinite DEF Share
  <2>2. p \in Nat /\ used[c] \in Nat /\ used'[c] \in Nat /\ took[c] \in Nat /\ took'[c] \in Nat
    BY DEF PayInv, PayTypes
  <2>3. used[c] + p * n <= took[c]
    BY DEF PayInv, Covered
  <2>4. used'[c] - took'[c] + p * own <= used[c] - took[c] + p * old
    OBVIOUS
  <2>5. p * m = p * n - p * old + p * own
    <3>. HIDE DEF n, m, old, own, p
    <3> QED BY <2>1, <2>2
  <2>. HIDE DEF n, m, old, own
  <2> QED BY <2>1, <2>2, <2>3, <2>4, <2>5 DEF m
<1> QED BY <1>2, <1>3 DEF PayInv, Covered

LEMMA PayPresents ==
  ASSUME PayInv, NEW r \in Clients, NEW b \in Bodies, NEW c \in Links, NEW coins \in SUBSET Paid,
         P!Present(r, b, c, coins)
  PROVE  PayInv'
<1>. DEFINE new == [at |-> "accept", body |-> b, id |-> c, coins |-> coins]
<1>1. /\ new \in PayCall
      /\ new.at = "accept" /\ new.body = b /\ new.id = c /\ new.coins = coins
  BY DEF PayCall
<1>3. /\ client' = [client EXCEPT ![r] = new]
      /\ client[r].at = "idle"
      /\ UNCHANGED <<priced, lapsed, kept, seen, spent, took, used, faults>>
  BY DEF P!Present
<1>. HIDE DEF new
<1>7. priced[c] = P!Price(b) /\ priced[c] > 0 /\ Cardinality(coins) = priced[c]
  BY SameCount DEF P!Present, P!Matches
<1>2. PaysItsPrice(new)
  <2>1. P!Price(new.body) = P!Price(b) /\ Cardinality(new.coins) = Cardinality(coins)
        /\ priced[new.id] = priced[c]
    BY <1>1
  <2> QED BY <1>1, <1>7, <2>1 DEF PaysItsPrice
<1>4. PayTypes'
  BY <1>1, <1>3 DEF PayInv, PayTypes
<1>5. client'[r] = new
  BY <1>1, <1>3, OneClient
<1>6. ASSUME NEW d \in Links
      PROVE  used'[d] - took'[d] + priced[d] * Share(r, d)'
               <= used[d] - took[d] + priced[d] * Share(r, d)
  <2>1. Share(r, d) = 0 /\ Share(r, d)' = 0
    BY <1>1, <1>3, <1>5 DEF Share, Owes
  <2> QED BY <1>3, <2>1 DEF PayInv, PayTypes
<1> QED BY <1>1, <1>2, <1>3, <1>4, <1>6, PayMoves

(* A request goes on with what it has.                                     *)
LEMMA PayGoes ==
  ASSUME PayInv, NEW r \in Clients, client[r].at # "idle", priced' = priced,
         NEW at \in {"accept", "swap", "put", "put_spent", "forward"}, P!Goes(r, at),
         lapsed' = lapsed, kept' \in Seq(P!Rows), seen' \subseteq Paid \X Links,
         spent' \subseteq Paid, took' \in [Links -> Nat], used' \in [Links -> Nat],
         faults' \in 0..MaxFaults,
         \A c \in Links :
           used'[c] - took'[c]
             + priced[c] * (IF at \in {"put", "forward"} /\ client[r].id = c THEN 1 ELSE 0)
               <= used[c] - took[c] + priced[c] * Share(r, c)
  PROVE  PayInv'
<1>. DEFINE new == [client[r] EXCEPT !.at = at]
<1>1. new \in PayCall /\ new.at = at /\ new.id = client[r].id
      /\ new.body = client[r].body /\ new.coins = client[r].coins
  BY DEF PayInv, PayTypes, PayCall
<1>2. client' = [client EXCEPT ![r] = new]
  BY DEF P!Goes
<1>. HIDE DEF new
<1>3. PaysItsPrice(new)
  BY <1>1 DEF PayInv, PaysItsPrice
<1>4. PayTypes'
  BY <1>1, <1>2 DEF PayInv, PayTypes
<1>5. client'[r] = new
  BY <1>1, <1>2, OneClient
<1>6. \A c \in Links :
        Share(r, c)' = IF at \in {"put", "forward"} /\ client[r].id = c THEN 1 ELSE 0
  BY <1>1, <1>5 DEF Share, Owes
<1> QED BY <1>1, <1>2, <1>3, <1>4, <1>6, PayMoves

(* A request ends.                                                         *)
LEMMA PayEnds ==
  ASSUME PayInv, NEW r \in Clients, priced' = priced, P!Ends(r),
         lapsed' = lapsed, kept' \in Seq(P!Rows), seen' \subseteq Paid \X Links,
         spent' \subseteq Paid, took' \in [Links -> Nat], used' \in [Links -> Nat],
         faults' \in 0..MaxFaults,
         \A c \in Links : used'[c] - took'[c] <= used[c] - took[c] + priced[c] * Share(r, c)
  PROVE  PayInv'
<1>1. P!NoRequest \in PayCall /\ P!NoRequest.at = "idle"
  BY DEF PayCall, P!NoRequest
<1>2. client' = [client EXCEPT ![r] = P!NoRequest]
  BY DEF P!Ends
<1>3. PayTypes'
  BY <1>1, <1>2 DEF PayInv, PayTypes
<1>4. client'[r] = P!NoRequest
  BY <1>1, <1>2, OneClient
<1>5. \A c \in Links : Share(r, c)' = 0
  BY <1>1, <1>4 DEF Share, Owes
<1>6. \A c \in Links : used'[c] - took'[c] + priced[c] * Share(r, c)'
                         <= used[c] - took[c] + priced[c] * Share(r, c)
  BY <1>5 DEF PayInv, PayTypes
<1> QED BY <1>1, <1>2, <1>3, <1>6, PayMoves DEF PaysItsPrice

LEMMA Shares ==
  ASSUME PayInv, NEW r \in Clients, NEW c \in Links
  PROVE  /\ priced[c] \in Nat /\ used[c] \in Nat /\ took[c] \in Nat
         /\ Share(r, c) \in {0, 1}
         /\ priced[c] * Share(r, c) \in Nat
BY DEF PayInv, PayTypes, Share

LEMMA PayAccepts == ASSUME PayInv, NEW r \in Clients, P!Accept(r) PROVE PayInv'
<1>. DEFINE c == client[r].id
<1>1. client[r].at = "accept" /\ c \in Links /\ client[r].coins \in SUBSET Paid
  BY DEF P!Accept, PayInv, PayTypes, PayCall, PaysItsPrice
<1>2. PayTypes
  BY DEF PayInv
<1>3. UNCHANGED <<priced, lapsed, spent, took, used, faults>>
  BY DEF P!Accept
<1>4. \A d \in Links : Share(r, d) = 0
  BY <1>1 DEF Share, Owes
<1>5. CASE P!Fresh(c, client[r].coins)
  <2>. DEFINE row == [id |-> c, coins |-> client[r].coins, settlement |-> "pending"]
  <2>1. row \in P!Rows
    BY <1>1 DEF P!Rows
  <2>2. kept' = Append(kept, row) /\ seen' = seen \cup client[r].coins \X {c} /\ P!Goes(r, "swap")
    BY <1>5 DEF P!Accept
  <2>. HIDE DEF row
  <2>3. kept' \in Seq(P!Rows)
    BY <1>2, <2>1, <2>2 DEF PayTypes
  <2>4. seen' \subseteq Paid \X Links
    BY <1>1, <1>2, <2>2 DEF PayTypes
  <2>5. \A d \in Links :
          used'[d] - took'[d]
            + priced[d] * (IF "swap" \in {"put", "forward"} /\ c = d THEN 1 ELSE 0)
              <= used[d] - took[d] + priced[d] * Share(r, d)
    BY <1>3, <1>4, Shares
  <2> QED BY <1>1, <1>2, <1>3, <2>2, <2>3, <2>4, <2>5, PayGoes DEF PayTypes
<1>6. CASE ~P!Fresh(c, client[r].coins)
  <2>1. UNCHANGED <<kept, seen>> /\ P!Ends(r)
    BY <1>6 DEF P!Accept
  <2>2. \A d \in Links : used'[d] - took'[d] <= used[d] - took[d] + priced[d] * Share(r, d)
    BY <1>3, <1>4, Shares
  <2> QED BY <1>2, <1>3, <2>1, <2>2, PayEnds DEF PayTypes
<1> QED BY <1>5, <1>6

(* The swap is where the proxy is paid: as much as the call will cost.     *)
LEMMA PaySwaps ==
  ASSUME PayInv, NEW r \in Clients, P!Swap(r) \/ P!SwapFails(r)
  PROVE  PayInv'
<1>. DEFINE c == client[r].id
            coins == client[r].coins
<1>1. /\ client[r].at = "swap" /\ c \in Links /\ coins \in SUBSET Paid
      /\ Cardinality(coins) = priced[c]
  BY DEF P!Swap, P!SwapFails, PayInv, PayTypes, PayCall, PaysItsPrice
<1>2. PayTypes
  BY DEF PayInv
<1>3. UNCHANGED <<priced, lapsed, kept, seen, used>>
  BY DEF P!Swap, P!SwapFails
<1>4. \A d \in Links : Share(r, d) = 0
  BY <1>1 DEF Share, Owes
<1>5. CASE P!Swap(r) /\ coins \cap spent = {}
  <2>1. /\ spent' = spent \cup coins /\ took' = [took EXCEPT ![c] = @ + Cardinality(coins)]
        /\ P!Goes(r, "put") /\ faults' = faults
    <3>1. P!Cardinality(coins) = Cardinality(coins)
      BY SameCount
    <3> QED BY <1>5, <3>1 DEF P!Swap
  <2>4. Cardinality(coins) \in Nat
    BY <1>1, <1>2 DEF PayTypes
  <2>2. took' \in [Links -> Nat] /\ \A d \in Links :
          took'[d] = IF d = c THEN took[d] + priced[d] ELSE took[d]
    BY <1>1, <1>2, <2>1, <2>4 DEF PayTypes
  <2>3. \A d \in Links :
          used'[d] - took'[d] + priced[d] * (IF c = d THEN 1 ELSE 0)
            <= used[d] - took[d] + priced[d] * Share(r, d)
    BY <1>3, <1>4, <2>2, Shares
  <2> QED BY <1>1, <1>2, <1>3, <2>1, <2>2, <2>3, PayGoes DEF PayTypes
<1>6. CASE P!Swap(r) /\ coins \cap spent # {}
  <2>1. UNCHANGED <<spent, took, faults>> /\ P!Goes(r, "put_spent")
    BY <1>6 DEF P!Swap
  <2>2. \A d \in Links :
          used'[d] - took'[d]
            + priced[d] * (IF "put_spent" \in {"put", "forward"} /\ c = d THEN 1 ELSE 0)
              <= used[d] - took[d] + priced[d] * Share(r, d)
    BY <1>3, <1>4, <2>1, Shares
  <2> QED BY <1>1, <1>2, <1>3, <2>1, <2>2, PayGoes DEF PayTypes
<1>7. CASE P!SwapFails(r)
  <2>1. took' = took /\ spent' \subseteq Paid /\ faults' \in 0..MaxFaults /\ P!Ends(r)
    BY <1>1, <1>2, <1>7, ServicesAssumption DEF P!SwapFails, P!Fault, PayTypes
  <2>2. \A d \in Links : used'[d] - took'[d] <= used[d] - took[d] + priced[d] * Share(r, d)
    BY <1>3, <1>4, <2>1, Shares
  <2> QED BY <1>2, <1>3, <2>1, <2>2, PayEnds DEF PayTypes
<1> QED BY <1>5, <1>6, <1>7

(* What was swept or overwritten in the store changes no account.          *)
LEMMA PutTyped ==
  ASSUME PayInv, NEW row \in P!Rows, P!Put(row)
  PROVE  kept' \in Seq(P!Rows)
<1>1. kept \in Seq(P!Rows) /\ MaxKept \in Nat
  BY ServicesAssumption DEF PayInv, PayTypes
<1>2. P!Swept \in Seq(P!Rows)
  BY <1>1 DEF P!Swept
<1>3. CASE \E i \in DOMAIN P!Swept : P!Swept[i].id = row.id
  BY <1>2, <1>3 DEF P!Put
<1>4. CASE ~\E i \in DOMAIN P!Swept : P!Swept[i].id = row.id
  BY <1>2, <1>4 DEF P!Put
<1> QED BY <1>3, <1>4

LEMMA PayReceipts == ASSUME PayInv, NEW r \in Clients, P!PutReceipt(r) PROVE PayInv'
<1>. DEFINE row == [id |-> client[r].id, coins |-> client[r].coins,
                    settlement |-> IF client[r].at = "put" THEN "settled" ELSE "double-spent"]
<1>1. /\ client[r].at \in {"put", "put_spent"}
      /\ client[r].id \in Links /\ client[r].coins \in SUBSET Paid
  BY DEF P!PutReceipt, PayInv, PayTypes, PayCall, PaysItsPrice
<1>2. row \in P!Rows
  BY <1>1 DEF P!Rows
<1>3. P!Put(row) /\ UNCHANGED <<priced, lapsed, spent, took, used, faults>>
  BY DEF P!PutReceipt
<1>. HIDE DEF row
<1>4. kept' \in Seq(P!Rows)
  BY <1>2, <1>3, PutTyped
<1>5. seen' \subseteq seen
  BY DEF P!PutReceipt
<1>6. PayTypes /\ seen' \subseteq Paid \X Links
  BY <1>5 DEF PayInv, PayTypes
<1>7. CASE client[r].at = "put"
  <2>1. P!Goes(r, "forward")
    BY <1>7 DEF P!PutReceipt
  <2>2. \A d \in Links : Share(r, d) = IF client[r].id = d THEN 1 ELSE 0
    BY <1>7 DEF Share, Owes
  <2>3. \A d \in Links :
          used'[d] - took'[d] + priced[d] * (IF client[r].id = d THEN 1 ELSE 0)
            <= used[d] - took[d] + priced[d] * Share(r, d)
    BY <1>3, <2>2, Shares
  <2> QED BY <1>1, <1>3, <1>4, <1>6, <2>1, <2>3, PayGoes DEF PayTypes
<1>8. CASE client[r].at = "put_spent"
  <2>1. P!Ends(r)
    BY <1>8 DEF P!PutReceipt
  <2>2. \A d \in Links : used'[d] - took'[d] <= used[d] - took[d] + priced[d] * Share(r, d)
    BY <1>3, Shares
  <2> QED BY <1>3, <1>4, <1>6, <2>1, <2>2, PayEnds DEF PayTypes
<1> QED BY <1>1, <1>7, <1>8

(* The call upstream uses up what was received for it.                     *)
LEMMA PayForwards == ASSUME PayInv, NEW r \in Clients, P!Forward(r) PROVE PayInv'
<1>. DEFINE c == client[r].id
<1>1. /\ client[r].at = "forward" /\ c \in Links /\ P!Price(client[r].body) = priced[c]
      /\ P!Ends(r) /\ UNCHANGED <<priced, lapsed, kept, seen, spent, took, faults>>
      /\ PayTypes
  BY DEF P!Forward, PayInv, PaysItsPrice
<1>2. used' = [used EXCEPT ![c] = @ + priced[c]]
  BY <1>1 DEF P!Forward
<1>3. used' \in [Links -> Nat] /\ \A d \in Links :
        used'[d] = IF d = c THEN used[d] + priced[d] ELSE used[d]
  BY <1>1, <1>2 DEF PayTypes
<1>4. \A d \in Links : Share(r, d) = IF c = d THEN 1 ELSE 0
  BY <1>1 DEF Share, Owes
<1>5. \A d \in Links : used'[d] - took'[d] <= used[d] - took[d] + priced[d] * Share(r, d)
  BY <1>1, <1>3, <1>4, Shares
<1> QED BY <1>1, <1>3, <1>5, PayEnds DEF PayTypes

LEMMA PayRestarts == ASSUME PayInv, P!Restart PROVE PayInv'
<1>1. client' = [r \in Clients |-> P!NoRequest] /\ P!NoRequest.at = "idle" /\ P!NoRequest \in PayCall
  BY DEF P!Restart, P!NoRequest, PayCall
<1>2. PayTypes'
  BY <1>1, ServicesAssumption DEF P!Restart, P!Fault, PayInv, PayTypes
<1>3. \A c \in Links : Cardinality(Owing(c)') = 0
  <2>1. \A c \in Links : Owing(c)' = {}
    BY <1>1 DEF Owing, Owes
  <2> QED BY <2>1, FS_EmptySet
<1>5. Covered'
  BY <1>3, PaidSoFar DEF P!Restart, Covered, PayInv, PayTypes
<1> QED BY <1>1, <1>2, <1>5 DEF PayInv, PaysItsPrice

LEMMA PayKeeps == ASSUME PayInv, [P!Next]_payVars PROVE PayInv'
<1>1. CASE UNCHANGED payVars
  <2>1. PayTypes'
    BY <1>1 DEF payVars, PayInv, PayTypes
  <2> QED BY <1>1, <2>1, PaySame DEF payVars
<1>2. ASSUME NEW y \in Paid, P!PayerSpends(y) PROVE PayInv'
  <2>1. PayTypes'
    BY <1>2 DEF P!PayerSpends, PayInv, PayTypes
  <2> QED BY <1>2, <2>1, PaySame DEF P!PayerSpends
<1>3. ASSUME NEW c \in Links, P!Lapse(c) PROVE PayInv'
  <2>1. PayTypes'
    BY <1>3 DEF P!Lapse, PayInv, PayTypes
  <2> QED BY <1>3, <2>1, PaySame DEF P!Lapse
<1>4. CASE P!Next
  BY <1>2, <1>3, <1>4, PayAsks, PayPresents, PayAccepts, PaySwaps, PayReceipts, PayForwards,
     PayRestarts DEF P!Next
<1> QED BY <1>1, <1>4

LEMMA IsPay == AllSpec => P!Init /\ [][P!Next]_payVars
<1>1. AllInit => P!Init
  BY DEF AllInit
<1>2. [AllNext]_all => [P!Next]_payVars
  BY DEF AllNext, all, payVars
<1> QED BY <1>1, <1>2, PTL DEF AllSpec

(* What the proxy forwards for a challenge never exceeds what was paid for *)
(* it at its own price (app.ts:118-140), for any table of prices, bodies   *)
(* and clients.                                                            *)
THEOREM ServedWasPaid == AllSpec => []ServedIsPaid
<1>1. PayInv => ServedIsPaid
  BY PaidSoFar DEF ServedIsPaid, P!ServedIsPaid
<1> QED BY <1>1, PayStarts, PayKeeps, IsPay, PTL
-----------------------------------------------------------------------------
(* A coin locked to keys.  What was built says what was asked for; a       *)
(* signature stands for its signer among the parties the offer names; so a *)
(* judgement on signatures is the judgement on people.                     *)
AnOffer == [data : Parties, refund : SUBSET Parties, pubkeys : SUBSET Parties,
            nSigs : Int, locktime : Nat, npub : BOOLEAN]
Named(o) == {o.data} \cup o.pubkeys \cup o.refund
Stands(o, sigs, signers) == sigs \cap Named(o) = signers \cap Named(o)

LockInv ==
  /\ O!TypeOK
  /\ offer \in AnOffer
  /\ secret = O!Build(offer)
  /\ Stands(offer, token.sigs, token.signers)
  /\ \A p \in Parties : Stands(offer, claim[p].sigs, claim[p].signers)
  /\ OpensAsAsked

LEMMA SameCountO == \A X : O!Cardinality(X) = Cardinality(X)
BY DEF O!Cardinality, Cardinality

(* Reading the tags gives back the conditions they were written from: a    *)
(* tag left out was the default.                                           *)
LEMMA Written ==
  ASSUME NEW o \in AnOffer
  PROVE  /\ O!Build(o).data = O!Key(o.data, o.npub)
         /\ O!Conditions(O!Build(o)).locktime = o.locktime
         /\ O!Conditions(O!Build(o)).nSigs = o.nSigs
         /\ O!Conditions(O!Build(o)).refund = O!Keys(o.refund, o.npub)
         /\ O!Conditions(O!Build(o)).pubkeys = O!Keys(o.pubkeys, o.npub)
<1>. DEFINE wish == [locktime |-> o.locktime, refund |-> O!Keys(o.refund, o.npub),
               pubkeys |-> O!Keys(o.pubkeys, o.npub), nSigs |-> o.nSigs]
            names == {"locktime", "refund", "pubkeys", "nSigs"}
            tags == [name \in {n \in names : wish[n] # O!Default[n]} |-> wish[name]]
<1>1. DOMAIN O!Default = names
  BY DEF O!Default
<1>2. O!Build(o).data = O!Key(o.data, o.npub) /\ O!Build(o).tags = tags
  BY <1>1 DEF O!Build
<1>3. \A name \in names : O!Conditions(O!Build(o))[name] = wish[name]
  BY <1>1, <1>2 DEF O!Conditions
<1> QED BY <1>2, <1>3

LEMMA KeyOwner == \A p, npub : O!Key(p, npub).x = p
BY DEF O!Key

LEMMA KeyMember ==
  ASSUME NEW p, NEW ps, NEW npub
  PROVE  O!Key(p, npub) \in O!Keys(ps, npub) <=> p \in ps
<1>1. ASSUME NEW q \in ps, O!Key(p, npub) = O!Key(q, npub) PROVE p = q
  <2>1. O!Key(p, npub).x = O!Key(q, npub).x
    BY <1>1
  <2> QED BY <2>1, KeyOwner
<1>2. O!Key(p, npub) \in O!Keys(ps, npub) <=> \E q \in ps : O!Key(p, npub) = O!Key(q, npub)
  BY DEF O!Keys
<1> QED BY <1>1, <1>2

(* Parties have as many keys as they are.                                  *)
LEMMA KeysAreParties ==
  ASSUME NEW ps \in SUBSET Parties, NEW npub
  PROVE  /\ O!Cardinality(O!Keys(ps, npub)) = Cardinality(ps)
         /\ Cardinality(ps) \in Nat
<1>. DEFINE ks == O!Keys(ps, npub)
            f == [p \in ps |-> O!Key(p, npub)]
<1>1. IsFiniteSet(ps) /\ Cardinality(ps) \in Nat
  BY ServicesAssumption, FS_Subset, FS_CardinalityType
<1>2. f \in [ps -> ks]
  BY DEF O!Keys
<1>3. \A k \in ks : \E p \in ps : f[p] = k
  BY DEF O!Keys
<1>. HIDE DEF ks
<1>4. \A p, q \in ps : f[p] = f[q] => p = q
  <2>. SUFFICES ASSUME NEW p \in ps, NEW q \in ps, f[p] = f[q] PROVE p = q
    OBVIOUS
  <2>1. O!Key(p, npub).x = O!Key(q, npub).x
    OBVIOUS
  <2> QED BY <2>1, KeyOwner
<1>. HIDE DEF f
<1>5. f \in Bijection(ps, ks)
  BY <1>2, <1>3, <1>4 DEF Bijection, Injection, Surjection, IsInjective
<1>6. IsFiniteSet(ks) /\ Cardinality(ks) = Cardinality(ps)
  BY <1>1, <1>5, FS_Bijection DEF ExistsBijection
<1> QED BY <1>1, <1>6, SameCountO DEF ks

LEMMA FormedAsAsked ==
  ASSUME NEW o \in AnOffer
  PROVE  ~O!Malformed(O!Build(o)) <=> O!Buildable(o)
<1>1. /\ O!Cardinality(O!Conditions(O!Build(o)).pubkeys) = Cardinality(o.pubkeys)
      /\ O!Cardinality(o.pubkeys) = Cardinality(o.pubkeys)
      /\ Cardinality(o.pubkeys) \in Nat /\ o.nSigs \in Int
  BY Written, KeysAreParties, SameCountO DEF AnOffer
<1> QED BY <1>1, Written DEF O!Malformed, O!Buildable

(* The keys that signed are the keys of the signers among those asked.     *)
LEMMA SignedKeys ==
  ASSUME NEW o \in AnOffer, NEW sigs, NEW signers, Stands(o, sigs, signers)
  PROVE  /\ {k \in O!LockKeys(O!Build(o)) : \E sig \in sigs : O!Verifies(sig, k)}
              = O!Keys(signers \cap ({o.data} \cup o.pubkeys), o.npub)
         /\ (\E k \in O!Conditions(O!Build(o)).refund, sig \in sigs : O!Verifies(sig, k))
              <=> signers \cap o.refund # {}
<1>1. O!LockKeys(O!Build(o)) = O!Keys({o.data} \cup o.pubkeys, o.npub)
  BY Written DEF O!LockKeys, O!Keys
<1>2. \A p \in Named(o) : p \in sigs <=> p \in signers
  BY DEF Stands
<1>3. \A p, sig : O!Verifies(sig, O!Key(p, o.npub)) <=> sig = p
  BY KeyOwner DEF O!Verifies
<1>4. {k \in O!Keys({o.data} \cup o.pubkeys, o.npub) : \E sig \in sigs : O!Verifies(sig, k)}
        = O!Keys(signers \cap ({o.data} \cup o.pubkeys), o.npub)
  BY <1>2, <1>3 DEF O!Keys, Named
<1>5. (\E k \in O!Keys(o.refund, o.npub), sig \in sigs : O!Verifies(sig, k))
        <=> signers \cap o.refund # {}
  BY <1>2, <1>3 DEF O!Keys, Named
<1> QED BY <1>1, <1>4, <1>5, Written

LEMMA JudgedAsAsked ==
  ASSUME NEW o \in AnOffer, NEW sigs, NEW signers \in SUBSET Parties, NEW time,
         Stands(o, sigs, signers)
  PROVE  O!Verdict(O!Build(o), sigs, time) <=> O!Opens(o, signers, time)
<1>. DEFINE s == O!Build(o)
            signed == {k \in O!LockKeys(s) : \E sig \in sigs : O!Verifies(sig, k)}
            theirs == signers \cap ({o.data} \cup o.pubkeys)
<1>1. O!Cardinality(signed) = O!Cardinality(theirs)
  <2>1. signed = O!Keys(theirs, o.npub)
    BY SignedKeys
  <2>2. theirs \in SUBSET Parties
    BY DEF AnOffer
  <2> QED BY <2>1, <2>2, KeysAreParties, SameCountO
<1>2. O!Conditions(s).refund # {} <=> o.refund # {}
  BY Written DEF O!Keys
<1>3. (\E k \in O!Conditions(s).refund, sig \in sigs : O!Verifies(sig, k))
        <=> signers \cap o.refund # {}
  BY SignedKeys
<1>4. O!Conditions(s).locktime = o.locktime /\ O!Conditions(s).nSigs = o.nSigs
  BY Written
<1>5. ~O!Malformed(s) <=> O!Buildable(o)
  BY FormedAsAsked
<1>6. O!Verdict(s, sigs, time) <=>
        /\ ~O!Malformed(s)
        /\ IF O!Conditions(s).locktime = 0 \/ time < O!Conditions(s).locktime
           THEN O!Cardinality(signed) >= O!Conditions(s).nSigs
           ELSE O!Conditions(s).refund # {}
                  => \E k \in O!Conditions(s).refund, sig \in sigs : O!Verifies(sig, k)
  BY DEF O!Verdict
<1>7. O!Opens(o, signers, time) <=>
        /\ O!Buildable(o)
        /\ IF o.locktime = 0 \/ time < o.locktime
           THEN O!Cardinality(theirs) >= o.nSigs
           ELSE o.refund = {} \/ signers \cap o.refund # {}
  BY DEF O!Opens
<1>. HIDE DEF s, signed, theirs
<1>8. O!Verdict(s, sigs, time) <=>
        /\ O!Buildable(o)
        /\ IF o.locktime = 0 \/ time < o.locktime
           THEN O!Cardinality(theirs) >= o.nSigs
           ELSE o.refund = {} \/ signers \cap o.refund # {}
  BY <1>1, <1>2, <1>3, <1>4, <1>5, <1>6
<1> QED BY <1>7, <1>8 DEF s

LEMMA LockStarts == ASSUME O!Init PROVE LockInv
<1>1. offer \in AnOffer /\ secret = O!Build(offer)
  BY ServicesAssumption DEF O!Init, AnOffer
<1>2. secret.data \in O!AllKeys
  <2>1. secret.data = O!Key(offer.data, offer.npub) /\ offer.data \in Parties
    BY <1>1, Written DEF AnOffer
  <2>2. (~offer.npub /\ offer.data \in Odd) \in BOOLEAN
    OBVIOUS
  <2> QED BY <2>1, <2>2 DEF O!Key, O!AllKeys
<1>3. O!TypeOK
  <2>1. claim \in [Parties -> [at : {"none", "sent", "refused", "won", "lost"},
                             sigs : SUBSET Parties, signers : SUBSET Parties]]
    BY DEF O!Init, O!NoClaim
  <2>2. token \in [sigs : SUBSET Parties, signers : SUBSET Parties]
    BY DEF O!Init
  <2>3. lockNow \in 0..MaxTime
    BY ServicesAssumption DEF O!Init
  <2>4. opened \in BOOLEAN /\ ruled \in {O!Unruled} /\ offer \in Offers
    BY DEF O!Init
  <2> QED BY <1>2, <2>1, <2>2, <2>3, <2>4 DEF O!TypeOK
<1> QED BY <1>1, <1>3 DEF O!Init, LockInv, Stands, O!NoClaim, O!OpensAsAsked, OpensAsAsked

LEMMA LockTicks == ASSUME LockInv, O!Tick PROVE LockInv'
BY ServicesAssumption DEF LockInv, O!Tick, O!TypeOK, O!AllKeys, Stands, O!OpensAsAsked, OpensAsAsked, O!Unruled

(* The Nostr signer signs when its x is in the lock, so when it is named.  *)
LEMMA RelevantAreNamed ==
  ASSUME NEW o \in AnOffer, NEW p
  PROVE  (\E k \in O!Locks(O!Build(o)) : k.x = p) <=> p \in Named(o)
<1>1. O!Locks(O!Build(o)) = O!Keys(Named(o), o.npub)
  BY Written DEF O!Locks, O!LockKeys, O!Keys, Named
<1> QED BY <1>1, KeyOwner DEF O!Keys

LEMMA LockSigns ==
  ASSUME LockInv, NEW p \in Parties, O!SignAsNostr(p)
  PROVE  LockInv'
<1>1. token \in [sigs : SUBSET Parties, signers : SUBSET Parties]
  BY DEF LockInv, O!TypeOK
<1>2. token' = [sigs |-> token.sigs \cup {q \in {p} : q \in Named(offer)},
                signers |-> token.signers \cup {p}]
  BY RelevantAreNamed DEF LockInv, O!SignAsNostr, O!Relevant
<1>3. UNCHANGED <<lockNow, offer, secret, claim, opened, ruled>>
  BY DEF O!SignAsNostr
<1>4. Stands(offer, token'.sigs, token'.signers)
  BY <1>1, <1>2 DEF LockInv, Stands
<1>5. O!TypeOK'
  BY <1>1, <1>2, <1>3 DEF LockInv, O!TypeOK, O!AllKeys, O!Unruled
<1> QED
  BY <1>3, <1>4, <1>5 DEF LockInv, Stands, O!OpensAsAsked, OpensAsAsked, O!Unruled

(* What a judgement leaves: the claim moved on, and the ruling is the one  *)
(* of the signatures that stand for these signers.                         *)
LEMMA LockRules ==
  ASSUME LockInv, NEW p \in Parties,
         NEW sigs \in SUBSET Parties, NEW signers \in SUBSET Parties,
         NEW at \in {"sent", "refused", "won", "lost"},
         Stands(offer, sigs, signers),
         claim' = [claim EXCEPT ![p] = [at |-> at, sigs |-> sigs, signers |-> signers]],
         O!Rules(signers, O!Verdict(secret, sigs, lockNow)),
         opened' \in BOOLEAN, UNCHANGED <<lockNow, offer, secret, token>>
  PROVE  LockInv'
<1>. DEFINE new == [at |-> at, sigs |-> sigs, signers |-> signers]
            ok == O!Verdict(secret, sigs, lockNow)
<1>1. /\ claim \in [Parties -> [at : {"none", "sent", "refused", "won", "lost"},
                               sigs : SUBSET Parties, signers : SUBSET Parties]]
      /\ lockNow \in Nat
  BY DEF LockInv, O!TypeOK
<1>2. ok <=> O!Opens(offer, signers, lockNow)
  BY JudgedAsAsked DEF LockInv
<1>3. ok \in BOOLEAN
  BY DEF O!Verdict
<1>4. ruled' = [signers |-> signers, at |-> lockNow, ok |-> ok]
  BY DEF O!Rules
<1>5. claim' \in [Parties -> [at : {"none", "sent", "refused", "won", "lost"},
                             sigs : SUBSET Parties, signers : SUBSET Parties]]
  BY <1>1
<1>6. \A q \in Parties : Stands(offer, claim'[q].sigs, claim'[q].signers)
  BY <1>1 DEF LockInv
<1>. HIDE DEF ok
<1>7. O!TypeOK'
  BY <1>1, <1>3, <1>4, <1>5 DEF LockInv, O!TypeOK, O!AllKeys
<1>8. OpensAsAsked'
  BY <1>2, <1>4 DEF O!OpensAsAsked, OpensAsAsked, O!Opens, O!Buildable
<1> QED BY <1>6, <1>7, <1>8 DEF LockInv, Stands

LEMMA LockReceives ==
  ASSUME LockInv, NEW p \in Parties, NEW unlock \in BOOLEAN, O!Receive(p, unlock)
  PROVE  LockInv'
<1>. DEFINE sigs == token.sigs \cup {q \in {p} : unlock /\ O!Key(q, FALSE) \in O!Locks(secret)}
            signers == token.signers \cup {q \in {p} : unlock}
            ok == O!Verdict(secret, sigs, lockNow)
            at == IF ok THEN "sent" ELSE "refused"
<1>1. token.sigs \in SUBSET Parties /\ token.signers \in SUBSET Parties
  BY DEF LockInv, O!TypeOK
<1>2. sigs \in SUBSET Parties /\ signers \in SUBSET Parties /\ at \in {"sent", "refused", "won", "lost"}
  BY <1>1
<1>3. unlock => (O!Key(p, FALSE) \in O!Locks(secret) <=> p \in Named(offer))
  <2>1. O!Locks(secret) = O!Keys(Named(offer), offer.npub)
    BY Written DEF LockInv, O!Locks, O!LockKeys, O!Keys, Named
  <2>2. unlock => offer.npub = FALSE
    BY DEF LockInv, AnOffer, O!Receive
  <2>3. unlock => O!Locks(secret) = O!Keys(Named(offer), FALSE)
    BY <2>1, <2>2
  <2>4. O!Key(p, FALSE) \in O!Keys(Named(offer), FALSE) <=> p \in Named(offer)
    BY KeyMember
  <2> QED BY <2>3, <2>4
<1>4. Stands(offer, sigs, signers)
  BY <1>3 DEF LockInv, Stands
<1>5. /\ claim' = [claim EXCEPT ![p] = [at |-> at, sigs |-> sigs, signers |-> signers]]
      /\ O!Rules(signers, O!Verdict(secret, sigs, lockNow))
      /\ opened' \in BOOLEAN /\ UNCHANGED <<lockNow, offer, secret, token>>
  BY DEF O!Receive, LockInv, O!TypeOK
<1>. HIDE DEF sigs, signers, at
<1> QED BY <1>2, <1>4, <1>5, LockRules

LEMMA LockJudges ==
  ASSUME LockInv, NEW p \in Parties, O!Judge(p)
  PROVE  LockInv'
<1>. DEFINE c == claim[p]
            ok == O!Verdict(secret, c.sigs, lockNow)
            at == IF ~ok THEN "refused" ELSE IF opened THEN "lost" ELSE "won"
<1>1. /\ c \in [at : {"none", "sent", "refused", "won", "lost"},
                sigs : SUBSET Parties, signers : SUBSET Parties]
      /\ opened \in BOOLEAN
  BY DEF LockInv, O!TypeOK
<1>2. c.sigs \in SUBSET Parties /\ c.signers \in SUBSET Parties
      /\ at \in {"sent", "refused", "won", "lost"} /\ Stands(offer, c.sigs, c.signers)
  BY <1>1 DEF LockInv
<1>3. claim' = [claim EXCEPT ![p] = [c EXCEPT !.at = at]]
  BY DEF O!Judge
<1>4. claim' = [claim EXCEPT ![p] = [at |-> at, sigs |-> c.sigs, signers |-> c.signers]]
  <2>. HIDE DEF at, c
  <2>1. [c EXCEPT !.at = at] = [at |-> at, sigs |-> c.sigs, signers |-> c.signers]
    BY <1>1
  <2> QED BY <1>3, <2>1
<1>5. /\ O!Rules(c.signers, O!Verdict(secret, c.sigs, lockNow))
      /\ opened' \in BOOLEAN /\ UNCHANGED <<lockNow, offer, secret, token>>
  BY <1>1 DEF O!Judge, O!Verdict
<1>. HIDE DEF c, at
<1> QED BY <1>2, <1>4, <1>5, LockRules

LEMMA LockKeeps == ASSUME LockInv, [O!Next]_lockVars PROVE LockInv'
<1>1. CASE UNCHANGED lockVars
  BY <1>1 DEF LockInv, lockVars, O!TypeOK, O!AllKeys, Stands, O!OpensAsAsked, OpensAsAsked,
              O!Unruled
<1> QED BY <1>1, LockTicks, LockSigns, LockReceives, LockJudges DEF O!Next

LEMMA IsLock == AllSpec => O!Init /\ [][O!Next]_lockVars
<1>1. AllInit => O!Init
  BY DEF AllInit
<1>2. [AllNext]_all => [O!Next]_lockVars
  BY DEF AllNext, all, lockVars
<1> QED BY <1>1, <1>2, PTL DEF AllSpec

(* Every judgement on a claim is the one the payer asked for, of the       *)
(* people who signed (p2pk.ts:169-197), for any parties, parities of keys, *)
(* conditions and times.                                                   *)
THEOREM LockOpensAsAsked == AllSpec => []OpensAsAsked
<1>1. LockInv => OpensAsAsked
  BY DEF LockInv
<1> QED BY <1>1, LockStarts, LockKeeps, IsLock, PTL
-----------------------------------------------------------------------------
(* The reserves dashboard.  Whatever the sources said, what one refresh    *)
(* shows as ok is backed; so the invariant is that the snapshot on display *)
(* is one of the sources that were read.                                   *)
LookInv == K!TypeOK /\ OkIsBacked

LEMMA LookStarts == ASSUME K!Init PROVE LookInv
BY DEF K!Init, LookInv, K!TypeOK, OkIsBacked, K!OkIsBacked

(* A tracked token that carries its symbol's report is the one holder that *)
(* was picked for the symbol.                                              *)
LEMMA ReportedIsPicked ==
  ASSUME NEW t \in K!Tracked, K!Canonical(t), SymbolOf[t] \in Slugs
  PROVE  t \in K!PickCanonical(SymbolOf[t])
<1>1. "attested" \in K!Reasons(t)
  BY DEF K!Reasons, K!SymbolBound
<1>2. t \in K!Group(SymbolOf[t])
  BY DEF K!Group
<1>3. K!Contested(SymbolOf[t])
  BY <1>1, <1>2 DEF K!Contested, K!SymbolBound
<1> QED BY <1>3 DEF K!Canonical

LEMMA OnePicked ==
  ASSUME NEW s, NEW t \in K!PickCanonical(s), NEW u \in K!PickCanonical(s)
  PROVE  t = u
BY DEF K!PickCanonical

LEMMA IssuerIsReport ==
  ASSUME NEW t, K!Issuer(t) # K!Absent
  PROVE  K!Canonical(t) /\ SymbolOf[t] \in Slugs /\ K!Issuer(t) = reports[SymbolOf[t]]
BY DEF K!Issuer

LEMMA OkIsClean ==
  ASSUME K!TypeOK, NEW t \in K!Tracked, K!Status(t) = "ok"
  PROVE  LET report == reports[SymbolOf[t]]
         IN /\ report # K!Absent
            /\ K!Supply(t) > report.supply => K!Within(K!Supply(t), report.supply, 1)
            /\ K!Covers(report.reserves, K!Supply(t))
            /\ t \in K!PickCanonical(SymbolOf[t])
<1>. DEFINE report == reports[SymbolOf[t]]
<1>1. K!Issuer(t) # K!Absent
  BY DEF K!Status
<1>2. K!Canonical(t) /\ SymbolOf[t] \in Slugs /\ K!Issuer(t) = report
  BY <1>1, IssuerIsReport
<1>3. t \in Holders /\ live[t] \in Figures
  BY DEF K!Tracked, K!Read, K!TypeOK
<1>4. K!Supply(t) \in Nat
  BY <1>3, ServicesAssumption DEF K!Supply
<1>5. report \in Reports /\ report.supply \in Nat /\ report.reserves \in Nat
  BY <1>1, <1>2, ServicesAssumption DEF K!TypeOK, K!Reports0
<1>6. K!Others(t) \in Nat
  BY <1>3, ServicesAssumption DEF K!Others, K!TypeOK, K!Markets0, K!Symbols
<1>7. K!SupplyMatchesChain(t) # "red" /\ K!ReservesCoverChain(t) # "red"
  BY <1>1 DEF K!Status, K!IssuerChecks
<1>8. K!Supply(t) > report.supply => K!Within(K!Supply(t), report.supply, 1)
  BY <1>2, <1>7 DEF K!SupplyMatchesChain
<1>9. \/ K!Supply(t) = 0 /\ ~(K!Others(t) > 0)
      \/ K!Covers(report.reserves, K!Supply(t) + K!Others(t))
      \/ K!Covers(report.reserves, K!Supply(t))
  BY <1>2, <1>7 DEF K!ReservesCoverChain, K!AllChains, K!Verdict
<1>10. K!Covers(report.reserves, K!Supply(t))
  BY <1>4, <1>5, <1>6, <1>9 DEF K!Covers, K!OneCent
<1> QED BY <1>1, <1>2, <1>8, <1>10, ReportedIsPicked

LEMMA LookRefreshes == ASSUME LookInv, K!Refresh PROVE LookInv'
<1>1. shown' = K!Snapshot /\ UNCHANGED <<live, active, reports, markets>>
  BY DEF K!Refresh
<1>2. ASSUME NEW e \in K!Snapshot
      PROVE  e.token \in K!Tracked /\ e.status = K!Status(e.token)
             /\ e = [token |-> e.token, status |-> K!Status(e.token), tracked |-> K!Resolved(e.token)]
  BY DEF K!Snapshot
<1>3. \A t : K!Supply(t)' = K!Supply(t)
  BY <1>1 DEF K!Supply
<1>4. \A e \in K!Snapshot : e.status = "ok" =>
        LET t == e.token
            report == reports[SymbolOf[t]]
        IN /\ report # K!Absent
           /\ K!Supply(t) > report.supply => K!Within(K!Supply(t), report.supply, 1)
           /\ K!Covers(report.reserves, K!Supply(t))
           /\ \A o \in K!Snapshot : o.status = "ok" /\ SymbolOf[o.token] = SymbolOf[t] => o = e
  BY <1>2, OkIsClean, OnePicked DEF LookInv
<1>5. OkIsBacked'
  BY <1>1, <1>3, <1>4 DEF OkIsBacked, K!OkIsBacked
<1>6. \A t : K!Status(t) \in {"ok", "attention", "unattested"}
             /\ K!Resolved(t) \in SUBSET (K!SymbolBound \cup {"active", "collision"})
  BY DEF K!Status, K!Resolved, K!Reasons
<1>7. K!Snapshot \in SUBSET [token : Holders, status : {"ok", "attention", "unattested"},
                       tracked : SUBSET (K!SymbolBound \cup {"active", "collision"})]
  BY <1>6 DEF K!Snapshot, K!Tracked
<1>8. K!TypeOK'
  BY <1>1, <1>7 DEF LookInv, K!TypeOK
<1> QED BY <1>5, <1>8 DEF LookInv

LEMMA LookKeeps == ASSUME LookInv, [K!Next]_lookVars PROVE LookInv'
<1>1. CASE UNCHANGED lookVars
  BY <1>1 DEF LookInv, lookVars, K!TypeOK, OkIsBacked, K!OkIsBacked, K!Supply
<1> QED BY <1>1, LookRefreshes DEF K!Next

LEMMA IsLook == AllSpec => K!Init /\ [][K!Next]_lookVars
<1>1. AllInit => K!Init
  BY DEF AllInit, K!Init, K!Reports0, K!Markets0
<1>2. [AllNext]_all => [K!Next]_lookVars
  BY DEF AllNext, all, lookVars
<1> QED BY <1>1, <1>2, PTL DEF AllSpec

(* A token shown as ok is backed as far as anybody can see, and the only   *)
(* one of its symbol shown so (checks.ts, collisions.ts:58-107), whatever  *)
(* the sources say and whichever of them fail.                             *)
THEOREM ShownOkIsBacked == AllSpec => []OkIsBacked
<1>1. LookInv => OkIsBacked
  BY DEF LookInv
<1> QED BY <1>1, LookStarts, LookKeeps, IsLook, PTL
-----------------------------------------------------------------------------
(* The relay client.  Types, with those of the frames under way; sockets   *)
(* that were never opened carry nothing; what a call waits for it has sent.*)
RelayFrames == {N!Frame(c) : c \in Calls} \cup {N!Hello(s) : s \in N!Socks}
RelayMsgs == {N!Reply(f, ok) : f \in RelayFrames, ok \in BOOLEAN}
               \cup {N!Challenge(s) : s \in N!Socks}

RelayTypes ==
  /\ N!TypeOK
  /\ up \in [N!Socks -> Seq(RelayFrames)]
  /\ down \in [N!Socks -> Seq(RelayMsgs)]
  /\ \A s \in N!Socks : s > ws => sock[s] = "none" /\ up[s] = <<>> /\ down[s] = <<>>
  /\ \A c \in Calls : N!Frame(c) \in pending => request[c].at = "sent"
  /\ \A c \in Calls : request[c].at \in {"idle", "connect"} => ~request[c].again

RelayCall == [at : {"idle", "connect", "ready", "sent", "auth", "done", "failed", "refused"},
              on : 0..MaxSocks, again : BOOLEAN]

LEMMA RelayStarts == ASSUME N!Init PROVE RelayTypes
<1>1. <<>> \in Seq(RelayFrames) /\ <<>> \in Seq(RelayMsgs)
  OBVIOUS
<1>2. MaxSocks \in Nat
  BY ServicesAssumption
<1> QED BY <1>1, <1>2 DEF N!Init, RelayTypes, N!TypeOK, N!Socks

(* Frames differ by kind, and by whose they are.                           *)
LEMMA FramesDiffer ==
  /\ \A c, d : N!Frame(c) = N!Frame(d) => c = d
  /\ \A c, s : N!Frame(c) # N!Hello(s)
  /\ \A c, d, a, b : N!Reply(N!Frame(c), a) = N!Reply(N!Frame(d), b) => c = d /\ a = b
  /\ \A c, s, a, b : N!Reply(N!Frame(c), a) # N!Reply(N!Hello(s), b)
  /\ \A c, s, a : N!Reply(N!Frame(c), a) # N!Challenge(s)
<1>1. \A c : N!Frame(c).of = c /\ N!Frame(c).kind = "call"
  BY DEF N!Frame
<1>2. \A s : N!Hello(s).kind = "AUTH"
  BY DEF N!Hello
<1>3. \A f, a : N!Reply(f, a).kind = f.kind /\ N!Reply(f, a).of = f.of /\ N!Reply(f, a).ok = a
  BY DEF N!Reply
<1>4. \A s : N!Challenge(s).kind = "challenge"
  BY DEF N!Challenge
<1> QED BY <1>1, <1>2, <1>3, <1>4

LEMMA MovedCalls ==
  ASSUME N!TypeOK, NEW cs, NEW at \in {"ready", "sent", "auth", "done", "failed", "refused"},
         N!Move(cs, at)
  PROVE  /\ request' \in [Calls -> RelayCall]
         /\ \A c \in Calls : /\ request'[c].again = request[c].again
                             /\ request'[c].on = request[c].on
                             /\ request'[c].at = IF c \in cs THEN at ELSE request[c].at
<1>1. request \in [Calls -> RelayCall]
  BY DEF N!TypeOK, RelayCall
<1>2. \A c \in Calls : [request[c] EXCEPT !.at = at] \in RelayCall
                       /\ [request[c] EXCEPT !.at = at].at = at
                       /\ [request[c] EXCEPT !.at = at].on = request[c].on
                       /\ [request[c] EXCEPT !.at = at].again = request[c].again
  BY <1>1 DEF RelayCall
<1>3. request' = [c \in Calls |-> IF c \in cs THEN [request[c] EXCEPT !.at = at] ELSE request[c]]
  BY DEF N!Move
<1> QED BY <1>1, <1>2, <1>3

LEMMA RelayConnects ==
  ASSUME RelayTypes, NEW c \in Calls, N!Connect(c)
  PROVE  RelayTypes'
<1>1. CASE N!Open
  <2>1. N!Move({c}, "ready") /\ UNCHANGED <<ws, sock, authed, up, down, auth, pending, waiters>>
    BY <1>1 DEF N!Connect, N!net
  <2>2. request[c].at = "idle"
    BY DEF N!Connect
  <2>3. request' \in [Calls -> RelayCall] /\ N!TypeOK
        /\ \A d \in Calls : /\ request'[d].again = request[d].again
                            /\ request'[d].at = IF d = c THEN "ready" ELSE request[d].at
    BY <2>1, MovedCalls DEF RelayTypes
  <2>4. N!TypeOK'
    BY <2>1, <2>3 DEF N!TypeOK, RelayCall
  <2>5. \A d \in Calls : /\ N!Frame(d) \in pending => request'[d].at = "sent"
                         /\ request'[d].at \in {"idle", "connect"} => ~request'[d].again
    BY <2>2, <2>3 DEF RelayTypes
  <2> QED BY <2>1, <2>4, <2>5 DEF RelayTypes
<1>2. CASE ~N!Open
  <2>1. /\ ws < MaxSocks /\ ws' = ws + 1 /\ request[c].at = "idle"
        /\ sock' = [sock EXCEPT ![ws + 1] = "connecting"]
        /\ request' = [request EXCEPT ![c] = [at |-> "connect", on |-> ws + 1, again |-> FALSE]]
        /\ UNCHANGED <<authed, up, down, auth, pending, waiters>>
    BY <1>2 DEF N!Connect
  <2>0. ws \in 0..MaxSocks /\ MaxSocks \in Nat
    BY ServicesAssumption DEF RelayTypes, N!TypeOK
  <2>2. ws \in Nat /\ MaxSocks \in Nat /\ ws + 1 \in 0..MaxSocks /\ ws + 1 \in N!Socks
    BY <2>0, <2>1 DEF N!Socks
  <2>3. /\ request' \in [Calls -> RelayCall]
        /\ \A d \in Calls : request'[d] = IF d = c THEN [at |-> "connect", on |-> ws + 1, again |-> FALSE]
                                                   ELSE request[d]
    BY <2>1, <2>2 DEF RelayTypes, N!TypeOK, RelayCall
  <2>4. N!TypeOK'
    BY <2>1, <2>2, <2>3 DEF RelayTypes, N!TypeOK, RelayCall
  <2>5. \A s \in N!Socks : s > ws' => sock'[s] = "none" /\ up'[s] = <<>> /\ down'[s] = <<>>
    BY <2>1, <2>2 DEF RelayTypes, N!TypeOK, N!Socks
  <2>6. \A d \in Calls : N!Frame(d) \in pending => request'[d].at = "sent"
    BY <2>1, <2>3 DEF RelayTypes
  <2>7. \A d \in Calls : request'[d].at \in {"idle", "connect"} => ~request'[d].again
    BY <2>3 DEF RelayTypes
  <2> QED BY <2>1, <2>4, <2>5, <2>6, <2>7 DEF RelayTypes
<1> QED BY <1>1, <1>2

LEMMA RelayOpens ==
  ASSUME RelayTypes, NEW s \in N!Socks, NEW asks \in BOOLEAN, N!SocketOpens(s, asks)
  PROVE  RelayTypes'
<1>1. /\ N!Move({c \in N!At("connect") : request[c].on = s}, "ready") /\ sock[s] = "connecting"
      /\ sock' = [sock EXCEPT ![s] = "open"]
      /\ UNCHANGED <<ws, authed, up, auth, pending, waiters>>
  BY DEF N!SocketOpens
<1>2. down' \in [N!Socks -> Seq(RelayMsgs)]
      /\ \A t \in N!Socks : t # s => down'[t] = down[t]
  <2>1. N!Challenge(s) \in RelayMsgs
    BY DEF RelayMsgs
  <2>2. (IF asks THEN <<N!Challenge(s)>> ELSE <<>>) \in Seq(RelayMsgs)
    BY <2>1
  <2> QED BY <2>2 DEF RelayTypes, N!SocketOpens
<1>3. N!TypeOK'
  BY <1>1, MovedCalls DEF RelayTypes, N!TypeOK, RelayCall
<1>4. \A t \in N!Socks : t > ws => t # s
  BY <1>1 DEF RelayTypes
<1>5. \A t \in N!Socks : t > ws' => sock'[t] = "none" /\ up'[t] = <<>> /\ down'[t] = <<>>
  BY <1>1, <1>2, <1>4 DEF RelayTypes, N!TypeOK
<1>6. \A d \in Calls : /\ N!Frame(d) \in pending => request'[d].at = "sent"
                       /\ request'[d].at \in {"idle", "connect"} => ~request'[d].again
  <2>. DEFINE cs == {c \in N!At("connect") : request[c].on = s}
  <2>1. \A c \in cs : request[c].at = "connect"
    BY DEF N!At
  <2>. HIDE DEF cs
  <2>2. \A d \in Calls : /\ request'[d].again = request[d].again
                         /\ request'[d].at = IF d \in cs THEN "ready" ELSE request[d].at
    BY <1>1, MovedCalls DEF RelayTypes, cs
  <2> QED BY <2>1, <2>2 DEF RelayTypes
<1> QED BY <1>1, <1>2, <1>3, <1>5, <1>6 DEF RelayTypes

(* A frame is appended to an open socket, which is one that was opened.    *)
LEMMA OpenIsOpened ==
  ASSUME RelayTypes
  PROVE  /\ N!Open => ws \in N!Socks
         /\ \A s \in N!Socks : sock[s] # "none" => ~(s > ws)
BY ServicesAssumption DEF RelayTypes, N!Open, N!TypeOK, N!Socks

LEMMA SentUp ==
  ASSUME RelayTypes, N!Open, NEW f \in RelayFrames, up' = [up EXCEPT ![ws] = Append(@, f)]
  PROVE  /\ up' \in [N!Socks -> Seq(RelayFrames)]
         /\ \A s \in N!Socks : up'[s] = IF s = ws THEN Append(up[s], f) ELSE up[s]
<1>1. ws \in N!Socks
  BY OpenIsOpened
<1>2. up[ws] \in Seq(RelayFrames)
  BY <1>1 DEF RelayTypes
<1>3. Append(up[ws], f) \in Seq(RelayFrames)
  BY <1>2
<1> QED BY <1>1, <1>3 DEF RelayTypes

LEMMA RelayAttempts ==
  ASSUME RelayTypes, NEW c \in Calls, N!Attempt(c)
  PROVE  RelayTypes'
<1>1. request[c].at = "ready" /\ UNCHANGED <<ws, sock, authed, down, auth, waiters>>
  BY DEF N!Attempt
<1>2. CASE N!Open
  <2>1. /\ up' = [up EXCEPT ![ws] = Append(@, N!Frame(c))]
        /\ pending' = pending \cup {N!Frame(c)} /\ N!Move({c}, "sent")
    BY <1>2 DEF N!Attempt
  <2>2. N!Frame(c) \in RelayFrames
    BY DEF RelayFrames
  <2>3. /\ up' \in [N!Socks -> Seq(RelayFrames)]
        /\ \A s \in N!Socks : up'[s] = IF s = ws THEN Append(up[s], N!Frame(c)) ELSE up[s]
    BY <1>2, <2>1, <2>2, SentUp
  <2>4. /\ request' \in [Calls -> RelayCall]
        /\ \A d \in Calls : /\ request'[d].again = request[d].again
                            /\ request'[d].at = IF d = c THEN "sent" ELSE request[d].at
    BY <2>1, MovedCalls DEF RelayTypes
  <2>5. N!TypeOK'
    BY <1>1, <2>1, <2>2, <2>4 DEF RelayTypes, N!TypeOK, RelayCall, RelayFrames
  <2>6. \A s \in N!Socks : s > ws' => sock'[s] = "none" /\ up'[s] = <<>> /\ down'[s] = <<>>
    BY <1>1, <2>3, ServicesAssumption DEF RelayTypes, N!TypeOK, N!Socks
  <2>7. \A d \in Calls : /\ N!Frame(d) \in pending' => request'[d].at = "sent"
                         /\ request'[d].at \in {"idle", "connect"} => ~request'[d].again
    BY <2>1, <2>4, FramesDiffer DEF RelayTypes
  <2> QED BY <1>1, <2>3, <2>5, <2>6, <2>7 DEF RelayTypes
<1>3. CASE ~N!Open
  <2>1. N!Move({c}, "failed") /\ UNCHANGED <<up, pending>>
    BY <1>3 DEF N!Attempt
  <2>2. /\ request' \in [Calls -> RelayCall]
        /\ \A d \in Calls : /\ request'[d].again = request[d].again
                            /\ request'[d].at = IF d = c THEN "failed" ELSE request[d].at
    BY <2>1, MovedCalls DEF RelayTypes
  <2>3. N!TypeOK'
    BY <1>1, <2>1, <2>2 DEF RelayTypes, N!TypeOK, RelayCall
  <2> QED BY <1>1, <2>1, <2>2, <2>3 DEF RelayTypes
<1> QED BY <1>2, <1>3

LEMMA RelayCloses ==
  ASSUME RelayTypes, NEW s \in N!Socks, N!Closing(s) \/ N!Closed(s)
  PROVE  RelayTypes'
<1>1. CASE N!Closing(s)
  <2>1. /\ sock[s] = "open" /\ sock' = [sock EXCEPT ![s] = "closing"]
        /\ up' = [up EXCEPT ![s] = <<>>] /\ down' = [down EXCEPT ![s] = <<>>]
        /\ UNCHANGED <<ws, authed, auth, pending, waiters, request>>
    BY <1>1 DEF N!Closing
  <2>2. N!TypeOK'
    BY <2>1 DEF RelayTypes, N!TypeOK
  <2>3. up' \in [N!Socks -> Seq(RelayFrames)] /\ down' \in [N!Socks -> Seq(RelayMsgs)]
    <3>1. <<>> \in Seq(RelayFrames) /\ <<>> \in Seq(RelayMsgs)
      OBVIOUS
    <3> QED BY <2>1, <3>1 DEF RelayTypes
  <2>4. \A t \in N!Socks : t > ws => t # s
    BY <2>1 DEF RelayTypes
  <2>5. \A t \in N!Socks : t > ws' => sock'[t] = "none" /\ up'[t] = <<>> /\ down'[t] = <<>>
    BY <2>1, <2>4 DEF RelayTypes, N!TypeOK
  <2> QED BY <2>1, <2>2, <2>3, <2>5 DEF RelayTypes
<1>2. CASE N!Closed(s)
  <2>. DEFINE cs == N!At("sent") \cup {c \in N!At("connect") : request[c].on = s}
  <2>1. /\ sock[s] \in {"connecting", "closing"} /\ sock' = [sock EXCEPT ![s] = "closed"]
        /\ pending' = {} /\ N!Move(cs, "failed")
        /\ UNCHANGED <<ws, authed, up, down, waiters>>
        /\ auth' \in {"none", auth}
    BY <1>2 DEF N!Closed
  <2>2. /\ request' \in [Calls -> RelayCall]
        /\ \A d \in Calls : /\ request'[d].again = request[d].again
                            /\ request'[d].at = IF d \in cs THEN "failed" ELSE request[d].at
    BY <2>1, MovedCalls DEF RelayTypes
  <2>. HIDE DEF cs
  <2>3. N!TypeOK'
    BY <2>1, <2>2 DEF RelayTypes, N!TypeOK, RelayCall
  <2>4. \A t \in N!Socks : t > ws => t # s
    BY <2>1 DEF RelayTypes
  <2>5. \A t \in N!Socks : t > ws' => sock'[t] = "none" /\ up'[t] = <<>> /\ down'[t] = <<>>
    BY <2>1, <2>4 DEF RelayTypes, N!TypeOK
  <2> QED BY <2>1, <2>2, <2>3, <2>5 DEF RelayTypes
<1> QED BY <1>1, <1>2

LEMMA MsgsAre ==
  /\ \A f \in RelayFrames : \A ok \in BOOLEAN : N!Reply(f, ok) \in RelayMsgs
  /\ \A s \in N!Socks : N!Challenge(s) \in RelayMsgs
  /\ \A m \in RelayMsgs : m.ok \in BOOLEAN
<1>1. \A f : \A ok \in BOOLEAN : N!Reply(f, ok).ok \in BOOLEAN
  BY DEF N!Reply
<1>2. \A s : N!Challenge(s).ok \in BOOLEAN
  BY DEF N!Challenge
<1> QED BY <1>1, <1>2 DEF RelayMsgs

(* What the relay sends back for the frame it takes.                       *)
LEMMA RelayReplies ==
  ASSUME RelayTypes, NEW s \in N!Socks, N!RelayTakes(s)
  PROVE  /\ sock[s] = "open" /\ up[s] # <<>> /\ Head(up[s]) \in RelayFrames
         /\ up' = [up EXCEPT ![s] = Tail(@)]
         /\ up' \in [N!Socks -> Seq(RelayFrames)]
         /\ \A t \in N!Socks : up'[t] = IF t = s THEN Tail(up[s]) ELSE up[t]
         /\ UNCHANGED <<ws, sock, auth, pending, waiters, request>>
         /\ authed \subseteq authed' /\ authed' \subseteq N!Socks
         /\ \E ok \in BOOLEAN :
              LET r == N!Reply(Head(up[s]), ok) IN
              /\ ok => s \in authed' \/ Head(up[s]).kind # "AUTH"
              /\ Head(up[s]).kind = "call" => (ok <=> s \in authed)
              /\ \/ down' = [down EXCEPT ![s] = Append(@, r)]
                 \/ down' = [down EXCEPT ![s] = Append(Append(@, r), N!Challenge(s))]
<1>. DEFINE f == Head(up[s])
<1>1. sock[s] = "open" /\ up[s] # <<>> /\ up' = [up EXCEPT ![s] = Tail(@)]
      /\ UNCHANGED <<ws, sock, auth, pending, waiters, request>>
  BY DEF N!RelayTakes
<1>2. up[s] \in Seq(RelayFrames) /\ down[s] \in Seq(RelayMsgs)
  BY DEF RelayTypes
<1>3. f \in RelayFrames /\ Tail(up[s]) \in Seq(RelayFrames)
  BY <1>1, <1>2
<1>4. up' \in [N!Socks -> Seq(RelayFrames)]
      /\ \A t \in N!Socks : up'[t] = IF t = s THEN Tail(up[s]) ELSE up[t]
  BY <1>1, <1>3 DEF RelayTypes
<1>5. f.kind \in {"AUTH", "call"}
  BY <1>3 DEF RelayFrames, N!Frame, N!Hello
<1>6. CASE f.kind = "AUTH"
  <2>1. /\ authed' = IF f.of = s THEN authed \cup {s} ELSE authed
        /\ down' = [down EXCEPT ![s] = Append(@, N!Reply(f, f.of = s))]
    BY <1>6 DEF N!RelayTakes
  <2>2. authed \subseteq authed' /\ authed' \subseteq N!Socks /\ (f.of = s => s \in authed')
    BY <2>1 DEF RelayTypes, N!TypeOK
  <2>3. (f.of = s) \in BOOLEAN
    OBVIOUS
  <2> QED BY <1>1, <1>3, <1>4, <1>6, <2>1, <2>2, <2>3
<1>7. CASE f.kind = "call"
  <2>1. PICK asks \in BOOLEAN :
          down' = [down EXCEPT ![s] = (@ \o <<N!Reply(f, s \in authed)>>)
                                        \o (IF asks THEN <<N!Challenge(s)>> ELSE <<>>)]
    BY <1>7 DEF N!RelayTakes
  <2>2. authed' = authed
    BY <1>7 DEF N!RelayTakes
  <2>. DEFINE r == N!Reply(f, s \in authed)
  <2>3. r \in RelayMsgs /\ N!Challenge(s) \in RelayMsgs
    <3>1. (s \in authed) \in BOOLEAN
      OBVIOUS
    <3> QED BY <1>3, <3>1, MsgsAre
  <2>. HIDE DEF r
  <2>4. down[s] \o <<r>> = Append(down[s], r) /\ Append(down[s], r) \in Seq(RelayMsgs)
    BY <1>2, <2>3
  <2>5. Append(down[s], r) \o <<N!Challenge(s)>> = Append(Append(down[s], r), N!Challenge(s))
        /\ Append(down[s], r) \o <<>> = Append(down[s], r)
    BY <2>3, <2>4
  <2>6. \/ down' = [down EXCEPT ![s] = Append(@, r)]
        \/ down' = [down EXCEPT ![s] = Append(Append(@, r), N!Challenge(s))]
    BY <2>1, <2>4, <2>5 DEF r
  <2>7. (s \in authed) \in BOOLEAN /\ authed' \subseteq N!Socks
    BY <2>2 DEF RelayTypes, N!TypeOK
  <2> QED BY <1>1, <1>3, <1>4, <1>7, <2>2, <2>6, <2>7 DEF r
<1> QED BY <1>5, <1>6, <1>7

LEMMA RelayServes ==
  ASSUME RelayTypes, NEW s \in N!Socks, N!RelayTakes(s)
  PROVE  RelayTypes'
<1>1. /\ sock[s] = "open" /\ Head(up[s]) \in RelayFrames
      /\ up' \in [N!Socks -> Seq(RelayFrames)]
      /\ \A t \in N!Socks : up'[t] = IF t = s THEN Tail(up[s]) ELSE up[t]
      /\ UNCHANGED <<ws, sock, auth, pending, waiters, request>>
      /\ authed' \subseteq N!Socks
  BY RelayReplies
<1>2. PICK ok \in BOOLEAN :
        LET r == N!Reply(Head(up[s]), ok) IN
        \/ down' = [down EXCEPT ![s] = Append(@, r)]
        \/ down' = [down EXCEPT ![s] = Append(Append(@, r), N!Challenge(s))]
  BY RelayReplies
<1>. DEFINE r == N!Reply(Head(up[s]), ok)
<1>3. r \in RelayMsgs /\ N!Challenge(s) \in RelayMsgs /\ down[s] \in Seq(RelayMsgs)
  BY <1>1, MsgsAre DEF RelayTypes
<1>. HIDE DEF r
<1>4. Append(down[s], r) \in Seq(RelayMsgs)
      /\ Append(Append(down[s], r), N!Challenge(s)) \in Seq(RelayMsgs)
  BY <1>3
<1>5. down' \in [N!Socks -> Seq(RelayMsgs)] /\ \A t \in N!Socks : t # s => down'[t] = down[t]
  BY <1>2, <1>4 DEF RelayTypes, r
<1>6. ~(s > ws)
  BY <1>1, OpenIsOpened
<1>7. \A t \in N!Socks : t > ws' => sock'[t] = "none" /\ up'[t] = <<>> /\ down'[t] = <<>>
  BY <1>1, <1>5, <1>6 DEF RelayTypes
<1>8. N!TypeOK'
  BY <1>1 DEF RelayTypes, N!TypeOK
<1> QED BY <1>1, <1>5, <1>7, <1>8 DEF RelayTypes

(* What a message does to the calls, by its kind.                          *)
LEMMA RelayHears ==
  ASSUME RelayTypes, NEW s \in N!Socks, N!OnMessage(s)
  PROVE  LET m == Head(down[s]) IN
         /\ sock[s] = "open" /\ down[s] # <<>> /\ m \in RelayMsgs
         /\ down' \in [N!Socks -> Seq(RelayMsgs)]
         /\ \A t \in N!Socks : down'[t] = IF t = s THEN Tail(down[s]) ELSE down[t]
         /\ UNCHANGED <<ws, sock, authed>>
         /\ \/ UNCHANGED <<up, auth, pending, waiters, request>>
            \/ /\ auth' = "pending" /\ pending' = pending \cup {N!Hello(s)}
               /\ up' = IF N!Open THEN [up EXCEPT ![ws] = Append(@, N!Hello(s))] ELSE up
               /\ UNCHANGED <<waiters, request>>
            \/ \E t \in N!Socks :
                 /\ m = N!Reply(N!Hello(t), m.ok) /\ N!AuthAnswered(m)
            \/ \E c \in Calls :
                 /\ m = N!Reply(N!Frame(c), m.ok) /\ N!Frame(c) \in pending
                 /\ N!CallAnswered(m)
<1>. DEFINE m == Head(down[s])
<1>1. sock[s] = "open" /\ down[s] # <<>> /\ down' = [down EXCEPT ![s] = Tail(@)]
      /\ UNCHANGED <<ws, sock, authed>>
  BY DEF N!OnMessage
<1>2. down[s] \in Seq(RelayMsgs)
  BY DEF RelayTypes
<1>3. m \in RelayMsgs /\ Tail(down[s]) \in Seq(RelayMsgs)
  BY <1>1, <1>2
<1>4. down' \in [N!Socks -> Seq(RelayMsgs)]
      /\ \A t \in N!Socks : down'[t] = IF t = s THEN Tail(down[s]) ELSE down[t]
  BY <1>1, <1>3 DEF RelayTypes
<1>5. \/ N!HandleAuthChallenge(s)
      \/ m.kind = "AUTH" /\ N!AuthAnswered(m)
      \/ m.kind = "call" /\ [kind |-> m.kind, of |-> m.of] \in pending /\ N!CallAnswered(m)
      \/ UNCHANGED <<up, auth, pending, waiters, request>>
  BY DEF N!OnMessage
<1>6. m.kind = "AUTH" => \E t \in N!Socks : m = N!Reply(N!Hello(t), m.ok)
  BY <1>3 DEF RelayMsgs, RelayFrames, N!Reply, N!Hello, N!Frame, N!Challenge
<1>7. m.kind = "call" => \E c \in Calls : m = N!Reply(N!Frame(c), m.ok)
  BY <1>3 DEF RelayMsgs, RelayFrames, N!Reply, N!Hello, N!Frame, N!Challenge
<1>8. \A c : m = N!Reply(N!Frame(c), m.ok) => [kind |-> m.kind, of |-> m.of] = N!Frame(c)
  BY DEF N!Reply, N!Frame
<1>9. N!HandleAuthChallenge(s) =>
        \/ UNCHANGED <<up, auth, pending, waiters, request>>
        \/ /\ auth' = "pending" /\ pending' = pending \cup {N!Hello(s)}
           /\ up' = IF N!Open THEN [up EXCEPT ![ws] = Append(@, N!Hello(s))] ELSE up
           /\ UNCHANGED <<waiters, request>>
  BY DEF N!HandleAuthChallenge
<1>10. CASE m.kind = "AUTH" /\ N!AuthAnswered(m)
  BY <1>1, <1>3, <1>4, <1>6, <1>10
<1>11. CASE m.kind = "call" /\ [kind |-> m.kind, of |-> m.of] \in pending /\ N!CallAnswered(m)
  BY <1>1, <1>3, <1>4, <1>7, <1>8, <1>11
<1>. HIDE DEF m
<1>12. CASE N!HandleAuthChallenge(s) \/ UNCHANGED <<up, auth, pending, waiters, request>>
  BY <1>1, <1>3, <1>4, <1>9, <1>12 DEF m
<1> QED BY <1>5, <1>10, <1>11, <1>12 DEF m

(* What an answer does to its call: it is done, or waits, or is refused.   *)
LEMMA CallHears ==
  ASSUME RelayTypes, NEW c \in Calls, NEW ok \in BOOLEAN,
         N!CallAnswered(N!Reply(N!Frame(c), ok))
  PROVE  /\ pending' = pending \ {N!Frame(c)} /\ UNCHANGED <<up, auth>>
         /\ waiters' \subseteq Calls
         /\ request' \in [Calls -> RelayCall]
         /\ \A d \in Calls : d # c => request'[d] = request[d]
         /\ ok => request'[c].at = "done" /\ request'[c].again = request[c].again
         /\ ~ok /\ request[c].again => request'[c].at = "refused" /\ request'[c].again
         /\ ~ok /\ ~request[c].again =>
              request'[c].again /\ request'[c].at = IF auth = "done" THEN "ready" ELSE "auth"
<1>. DEFINE m == N!Reply(N!Frame(c), ok)
<1>1. m.of = c /\ m.ok = ok
  BY DEF N!Reply, N!Frame
<1>. HIDE DEF m
<1>2. request \in [Calls -> RelayCall] /\ waiters \subseteq Calls
  BY DEF RelayTypes, N!TypeOK, RelayCall
<1>3. pending' = pending \ {N!Frame(c)} /\ UNCHANGED <<up, auth>>
      /\ (IF ok THEN N!Move({c}, "done") /\ UNCHANGED waiters ELSE N!Refused(c))
  BY <1>1 DEF N!CallAnswered, m
<1>4. CASE ok
  <2>1. request' = [d \in Calls |-> IF d \in {c} THEN [request[d] EXCEPT !.at = "done"] ELSE request[d]]
    BY <1>3, <1>4 DEF N!Move
  <2>2. [request[c] EXCEPT !.at = "done"] \in RelayCall
        /\ [request[c] EXCEPT !.at = "done"].at = "done"
        /\ [request[c] EXCEPT !.at = "done"].again = request[c].again
    BY <1>2 DEF RelayCall
  <2> QED BY <1>2, <1>3, <1>4, <2>1, <2>2
<1>5. CASE ~ok /\ request[c].again
  <2>1. request' = [d \in Calls |-> IF d \in {c} THEN [request[d] EXCEPT !.at = "refused"] ELSE request[d]]
        /\ UNCHANGED waiters
    BY <1>3, <1>5 DEF N!Move, N!Refused
  <2>2. [request[c] EXCEPT !.at = "refused"] \in RelayCall
        /\ [request[c] EXCEPT !.at = "refused"].at = "refused"
        /\ [request[c] EXCEPT !.at = "refused"].again = request[c].again
    BY <1>2 DEF RelayCall
  <2> QED BY <1>2, <1>3, <1>5, <2>1, <2>2
<1>6. CASE ~ok /\ ~request[c].again
  <2>. DEFINE at == IF auth = "done" THEN "ready" ELSE "auth"
  <2>1. request' = [request EXCEPT ![c].again = TRUE, ![c].at = at] /\ waiters' \in {waiters, waiters \cup {c}}
    BY <1>3, <1>6 DEF N!Refused
  <2>2. at \in {"ready", "auth"}
    OBVIOUS
  <2>. HIDE DEF at
  <2>3. request' \in [Calls -> RelayCall] /\ \A d \in Calls : d # c => request'[d] = request[d]
    BY <1>2, <2>1, <2>2 DEF RelayCall
  <2>4. request'[c].again = TRUE /\ request'[c].at = at
    BY <1>2, <2>1, <2>2 DEF RelayCall
  <2> QED BY <1>2, <1>3, <1>6, <2>1, <2>3, <2>4 DEF at
<1> QED BY <1>4, <1>5, <1>6

LEMMA AuthHears ==
  ASSUME RelayTypes, NEW t \in N!Socks, NEW ok, N!AuthAnswered(N!Reply(N!Hello(t), ok))
  PROVE  /\ pending' \subseteq pending /\ UNCHANGED up
         /\ \A c \in Calls : N!Frame(c) \in pending => N!Frame(c) \in pending'
         /\ waiters' \subseteq Calls
         /\ auth' = IF ok THEN "done" ELSE "none"
         /\ request' \in [Calls -> RelayCall]
         /\ \A c \in Calls :
              /\ request'[c].again = request[c].again
              /\ \/ request'[c].at = request[c].at
                 \/ ok /\ request[c].at = "auth" /\ request'[c].at = "ready"
<1>. DEFINE m == N!Reply(N!Hello(t), ok)
<1>1. m.of = t /\ m.ok = ok
  BY DEF N!Reply, N!Hello
<1>. HIDE DEF m
<1>2. request \in [Calls -> RelayCall] /\ waiters \subseteq Calls
  BY DEF RelayTypes, N!TypeOK, RelayCall
<1>3. /\ pending' = pending \ {N!Hello(t)} /\ UNCHANGED up
      /\ auth' = IF ok THEN "done" ELSE "none"
      /\ waiters' \in {{}, waiters}
      /\ IF ok THEN N!Move(waiters \cap N!At("auth"), "ready") ELSE UNCHANGED request
  BY <1>1 DEF N!AuthAnswered, m
<1>4. \A c \in Calls : N!Frame(c) \in pending => N!Frame(c) \in pending'
  BY <1>3, FramesDiffer
<1>5. CASE ok
  <2>1. \A c \in waiters \cap N!At("auth") : request[c].at = "auth"
    BY DEF N!At
  <2>2. /\ request' \in [Calls -> RelayCall]
        /\ \A c \in Calls :
             /\ request'[c].again = request[c].again
             /\ request'[c].at = IF c \in waiters \cap N!At("auth") THEN "ready" ELSE request[c].at
    BY <1>3, <1>5, MovedCalls DEF RelayTypes
  <2> QED BY <1>2, <1>3, <1>4, <1>5, <2>1, <2>2
<1>6. CASE ~ok
  BY <1>2, <1>3, <1>4, <1>6
<1> QED BY <1>5, <1>6

LEMMA RelayHandles ==
  ASSUME RelayTypes, NEW s \in N!Socks, N!OnMessage(s)
  PROVE  RelayTypes'
<1>. DEFINE m == Head(down[s])
<1>1. /\ sock[s] = "open" /\ m \in RelayMsgs
      /\ down' \in [N!Socks -> Seq(RelayMsgs)]
      /\ \A t \in N!Socks : down'[t] = IF t = s THEN Tail(down[s]) ELSE down[t]
      /\ UNCHANGED <<ws, sock, authed>>
  BY RelayHears
<1>2. ~(s > ws)
  BY <1>1, OpenIsOpened
<1>3. request \in [Calls -> RelayCall]
  BY DEF RelayTypes, N!TypeOK, RelayCall
<1>4. CASE UNCHANGED <<up, auth, pending, waiters, request>>
  BY <1>1, <1>2, <1>4 DEF RelayTypes, N!TypeOK
<1>5. CASE /\ auth' = "pending" /\ pending' = pending \cup {N!Hello(s)}
           /\ up' = IF N!Open THEN [up EXCEPT ![ws] = Append(@, N!Hello(s))] ELSE up
           /\ UNCHANGED <<waiters, request>>
  <2>1. N!Hello(s) \in RelayFrames
    BY DEF RelayFrames
  <2>2. up' \in [N!Socks -> Seq(RelayFrames)] /\ \A t \in N!Socks : t # ws => up'[t] = up[t]
    BY <1>5, <2>1, SentUp DEF RelayTypes
  <2>3. \A t \in N!Socks : t > ws => t # ws
    BY ServicesAssumption DEF RelayTypes, N!TypeOK, N!Socks
  <2>4. N!TypeOK'
    BY <1>1, <1>5 DEF RelayTypes, N!TypeOK
  <2>5. \A c \in Calls : N!Frame(c) \in pending' => N!Frame(c) \in pending
    BY <1>5, FramesDiffer
  <2>6. \A t \in N!Socks : t > ws' => sock'[t] = "none" /\ up'[t] = <<>> /\ down'[t] = <<>>
    BY <1>1, <1>2, <2>2, <2>3 DEF RelayTypes
  <2> QED BY <1>1, <1>5, <2>2, <2>4, <2>5, <2>6 DEF RelayTypes
<1>6. CASE \E t \in N!Socks : m = N!Reply(N!Hello(t), m.ok) /\ N!AuthAnswered(m)
  <2>1. PICK t \in N!Socks : N!AuthAnswered(N!Reply(N!Hello(t), m.ok))
    BY <1>6
  <2>. DEFINE ok == m.ok
  <2>2. N!AuthAnswered(N!Reply(N!Hello(t), ok))
    BY <2>1
  <2>. HIDE DEF ok, m
  <2>3. /\ pending' \subseteq pending /\ UNCHANGED up
        /\ waiters' \subseteq Calls
        /\ auth' = IF ok THEN "done" ELSE "none"
        /\ request' \in [Calls -> RelayCall]
        /\ \A c \in Calls :
              /\ request'[c].again = request[c].again
              /\ \/ request'[c].at = request[c].at
                 \/ ok /\ request[c].at = "auth" /\ request'[c].at = "ready"
    BY <2>2, AuthHears
  <2>4. N!TypeOK'
    BY <1>1, <2>3 DEF RelayTypes, N!TypeOK, RelayCall
  <2>5. \A c \in Calls : /\ N!Frame(c) \in pending' => request'[c].at = "sent"
                         /\ request'[c].at \in {"idle", "connect"} => ~request'[c].again
    BY <2>3 DEF RelayTypes
  <2> QED BY <1>1, <1>2, <2>3, <2>4, <2>5 DEF RelayTypes
<1>7. CASE \E c \in Calls : /\ m = N!Reply(N!Frame(c), m.ok) /\ N!Frame(c) \in pending
                            /\ N!CallAnswered(m)
  <2>1. PICK c \in Calls : /\ m = N!Reply(N!Frame(c), m.ok) /\ N!Frame(c) \in pending
                           /\ N!CallAnswered(N!Reply(N!Frame(c), m.ok))
    BY <1>7
  <2>2. PICK ok \in BOOLEAN : N!CallAnswered(N!Reply(N!Frame(c), ok))
    <3>1. m.ok \in BOOLEAN
      BY <1>1, MsgsAre
    <3> QED BY <2>1, <3>1
  <2>. HIDE DEF m
  <2>3. /\ pending' = pending \ {N!Frame(c)} /\ UNCHANGED <<up, auth>>
        /\ waiters' \subseteq Calls
        /\ request' \in [Calls -> RelayCall]
        /\ \A d \in Calls : d # c => request'[d] = request[d]
        /\ request'[c].at \in {"done", "refused", "ready", "auth"}
    BY <2>2, CallHears
  <2>4. N!TypeOK'
    BY <1>1, <2>3 DEF RelayTypes, N!TypeOK, RelayCall
  <2>5. \A d \in Calls : /\ N!Frame(d) \in pending' => request'[d].at = "sent"
                         /\ request'[d].at \in {"idle", "connect"} => ~request'[d].again
    BY <2>3 DEF RelayTypes
  <2> QED BY <1>1, <1>2, <2>3, <2>4, <2>5 DEF RelayTypes
<1> QED BY <1>4, <1>5, <1>6, <1>7, RelayHears

LEMMA RelayTimesOut ==
  ASSUME RelayTypes, (\E c \in Calls : N!TimesOut(c)) \/ (\E s \in N!Socks : N!AuthTimesOut(s))
  PROVE  RelayTypes'
<1>1. ASSUME NEW c \in Calls, N!TimesOut(c) PROVE RelayTypes'
  <2>1. /\ pending' = pending \ {N!Frame(c)} /\ N!Move({c}, "failed")
        /\ UNCHANGED <<ws, sock, authed, up, down, auth, waiters>>
    BY <1>1 DEF N!TimesOut, N!net
  <2>2. /\ request' \in [Calls -> RelayCall]
        /\ \A d \in Calls : /\ request'[d].again = request[d].again
                            /\ request'[d].at = IF d = c THEN "failed" ELSE request[d].at
    BY <2>1, MovedCalls DEF RelayTypes
  <2>3. N!TypeOK'
    BY <2>1, <2>2 DEF RelayTypes, N!TypeOK, RelayCall
  <2> QED BY <2>1, <2>2, <2>3 DEF RelayTypes
<1>2. ASSUME NEW s \in N!Socks, N!AuthTimesOut(s) PROVE RelayTypes'
  <2>1. /\ pending' = pending \ {N!Hello(s)} /\ auth' = "none"
        /\ UNCHANGED <<ws, sock, authed, up, down, waiters, request>>
    BY <1>2 DEF N!AuthTimesOut, N!net
  <2>2. N!TypeOK'
    BY <2>1 DEF RelayTypes, N!TypeOK
  <2> QED BY <2>1, <2>2 DEF RelayTypes
<1> QED BY <1>1, <1>2

LEMMA RelayTypesKeep == ASSUME RelayTypes, [N!Next]_nostrVars PROVE RelayTypes'
<1>1. CASE UNCHANGED nostrVars
  BY <1>1 DEF RelayTypes, nostrVars, N!TypeOK
<1> QED
  BY <1>1, RelayConnects, RelayOpens, RelayAttempts, RelayCloses, RelayServes, RelayHandles,
     RelayTimesOut DEF N!Next

(* As long as one socket was opened: what a call has under way is its      *)
(* frame or the answer to it, once; a call that is repeated finds the      *)
(* connection authenticated.                                               *)
Without(q, X) == \A i \in DOMAIN q : q[i] \notin X
AtMostOne(q, X) == \A i, j \in DOMAIN q : q[i] \in X /\ q[j] \in X => i = j
Fewer(new, old, X) == /\ Without(old, X) => Without(new, X)
                      /\ AtMostOne(old, X) => AtMostOne(new, X)

Ask(c) == {N!Frame(c)}
Answers(c) == {N!Reply(N!Frame(c), TRUE), N!Reply(N!Frame(c), FALSE)}
No(c) == {N!Reply(N!Frame(c), FALSE)}
Welcomes == {N!Reply(N!Hello(t), TRUE) : t \in N!Socks}

Silent(c) == \A s \in N!Socks : Without(up[s], Ask(c)) /\ Without(down[s], Answers(c))
Single(c) == \A s \in N!Socks :
  /\ AtMostOne(up[s], Ask(c)) /\ AtMostOne(down[s], Answers(c))
  /\ Without(up[s], Ask(c)) \/ Without(down[s], Answers(c))
Repeats(c) == request[c].again =>
  /\ request[c].at = "ready" => 1 \in authed
  /\ \A s \in N!Socks : /\ Without(down[s], No(c))
                        /\ Without(up[s], Ask(c)) \/ s \in authed

CallInv(c) ==
  /\ Single(c) /\ Repeats(c)
  /\ request[c].at \notin {"sent", "failed"} => Silent(c)
  /\ request[c].at # "refused"

OneSocket ==
  /\ auth = "done" => 1 \in authed
  /\ \A s \in N!Socks : s \in authed \/ Without(down[s], Welcomes)
  /\ \A c \in Calls : CallInv(c)

RelayInv == RelayTypes /\ (ws <= 1 => OneSocket)

LEMMA EmptyQueue == \A X : Without(<<>>, X) /\ AtMostOne(<<>>, X)
BY DEF Without, AtMostOne

LEMMA FewerSame == \A q, X : Fewer(q, q, X) /\ Fewer(<<>>, q, X)
BY EmptyQueue DEF Fewer

LEMMA FewerAppend ==
  ASSUME NEW Frames, NEW q \in Seq(Frames), NEW e \in Frames, NEW X
  PROVE  /\ e \notin X => Fewer(Append(q, e), q, X)
         /\ Without(q, X) => AtMostOne(Append(q, e), X)
<1>1. /\ DOMAIN q = 1..Len(q) /\ DOMAIN Append(q, e) = 1..Len(q) + 1 /\ Len(q) \in Nat
      /\ \A i \in 1..Len(q) : Append(q, e)[i] = q[i]
      /\ Append(q, e)[Len(q) + 1] = e
  OBVIOUS
<1>2. \A i \in 1..Len(q) + 1 : i \in 1..Len(q) \/ i = Len(q) + 1
  BY <1>1
<1> QED BY <1>1, <1>2 DEF Fewer, Without, AtMostOne

LEMMA FewerTail ==
  ASSUME NEW Frames, NEW q \in Seq(Frames), q # <<>>, NEW X
  PROVE  /\ Fewer(Tail(q), q, X)
         /\ Head(q) \in X => ~Without(q, X)
         /\ Head(q) \in X /\ AtMostOne(q, X) => Without(Tail(q), X)
<1>1. /\ DOMAIN q = 1..Len(q) /\ Len(q) \in Nat \ {0} /\ Head(q) = q[1]
      /\ DOMAIN Tail(q) = 1..Len(q) - 1
      /\ \A i \in 1..Len(q) - 1 : Tail(q)[i] = q[i + 1]
  OBVIOUS
<1>2. /\ 1 \in 1..Len(q)
      /\ \A i \in 1..Len(q) - 1 : i + 1 \in 1..Len(q) /\ i + 1 # 1
      /\ \A i, j \in 1..Len(q) - 1 : i + 1 = j + 1 => i = j
  BY <1>1
<1>3. Fewer(Tail(q), q, X)
  BY <1>1, <1>2 DEF Fewer, Without, AtMostOne
<1>4. Head(q) \in X => ~Without(q, X)
  BY <1>1, <1>2 DEF Without
<1>5. Head(q) \in X /\ AtMostOne(q, X) => Without(Tail(q), X)
  BY <1>1, <1>2 DEF Without, AtMostOne
<1> QED BY <1>3, <1>4, <1>5

LEMMA AnswersDiffer ==
  ASSUME NEW c, NEW d
  PROVE  /\ c # d => N!Frame(d) \notin Ask(c)
         /\ c # d => \A ok : N!Reply(N!Frame(d), ok) \notin Answers(c) \cup No(c)
         /\ N!Hello(d) \notin Ask(c)
         /\ \A ok : N!Reply(N!Hello(d), ok) \notin Answers(c) \cup No(c)
         /\ N!Challenge(d) \notin Answers(c) \cup No(c) \cup Welcomes
         /\ \A ok : N!Reply(N!Frame(d), ok) \notin Welcomes
         /\ \A ok \in BOOLEAN : N!Reply(N!Frame(c), ok) \in Answers(c)
         /\ N!Reply(N!Frame(c), TRUE) \notin No(c)
         /\ \A q : Without(q, Answers(c)) => Without(q, No(c))
<1>1. \A s : N!Challenge(d) # N!Reply(N!Hello(s), TRUE)
  BY DEF N!Challenge, N!Reply, N!Hello
<1>2. No(c) \subseteq Answers(c)
  BY DEF No, Answers
<1> QED BY FramesDiffer, <1>1, <1>2 DEF Ask, Answers, No, Welcomes, Without

(* A call whose traffic grows no more, and that moved on or gave up.       *)
LEMMA CallKept ==
  ASSUME NEW c \in Calls, CallInv(c), authed \subseteq authed',
         \A s \in N!Socks : /\ Fewer(up'[s], up[s], Ask(c))
                            /\ Fewer(down'[s], down[s], Answers(c))
                            /\ Fewer(down'[s], down[s], No(c)),
         request'[c].again = request[c].again,
         \/ request'[c].at = request[c].at
         \/ request'[c].at \in {"failed", "done"} /\ request[c].at \in {"connect", "ready", "sent", "auth"}
            /\ (request'[c].at = "done" => Silent(c)')
         \/ /\ request'[c].at = "ready" /\ request[c].at \in {"idle", "connect", "auth"}
            /\ request[c].again => 1 \in authed'
  PROVE  CallInv(c)'
<1>1. Single(c)'
  BY DEF CallInv, Single, Fewer
<1>2. Silent(c) => Silent(c)'
  BY DEF Silent, Fewer
<1>3. Repeats(c)'
  BY DEF CallInv, Repeats, Fewer
<1> QED BY <1>1, <1>2, <1>3 DEF CallInv

LEMMA OneMessage == \A c, s : /\ Without(<<N!Challenge(s)>>, Answers(c))
                              /\ Without(<<N!Challenge(s)>>, No(c))
                              /\ Without(<<N!Challenge(s)>>, Welcomes)
                              /\ \A X : AtMostOne(<<N!Challenge(s)>>, X)
<1>1. \A e : DOMAIN <<e>> = {1} /\ <<e>>[1] = e
  OBVIOUS
<1>2. \A e, X : (e \notin X => Without(<<e>>, X)) /\ AtMostOne(<<e>>, X)
  BY <1>1 DEF Without, AtMostOne
<1>3. \A c, s : /\ N!Challenge(s) \notin Answers(c) /\ N!Challenge(s) \notin No(c)
               /\ N!Challenge(s) \notin Welcomes
  BY AnswersDiffer
<1> QED BY <1>2, <1>3

(* Nothing new is under way but a challenge, and no call is answered.      *)
LEMMA QuietStep ==
  ASSUME OneSocket, UNCHANGED authed, auth' = auth \/ auth' # "done",
         \A s \in N!Socks : /\ up'[s] = up[s] \/ up'[s] = <<>>
                            /\ down'[s] = down[s] \/ down'[s] = <<>>
                               \/ down'[s] = <<N!Challenge(s)>>,
         \A c \in Calls :
           /\ request'[c].again = request[c].again
           /\ \/ request'[c].at = request[c].at
              \/ request'[c].at = "failed" /\ request[c].at \in {"connect", "ready", "sent", "auth"}
              \/ /\ request'[c].at = "ready" /\ request[c].at \in {"idle", "connect"}
                 /\ ~request[c].again
  PROVE  OneSocket'
<1>1. \A s \in N!Socks : \A X : Fewer(up'[s], up[s], X)
  BY FewerSame
<1>2. \A s \in N!Socks : \A c :
        /\ Fewer(down'[s], down[s], Answers(c))
        /\ Fewer(down'[s], down[s], No(c))
        /\ Fewer(down'[s], down[s], Welcomes)
  <2>. SUFFICES ASSUME NEW s \in N!Socks, NEW c
                PROVE  /\ Fewer(down'[s], down[s], Answers(c))
                       /\ Fewer(down'[s], down[s], No(c))
                       /\ Fewer(down'[s], down[s], Welcomes)
    OBVIOUS
  <2>1. CASE down'[s] = down[s] \/ down'[s] = <<>>
    BY <2>1, FewerSame
  <2>2. CASE down'[s] = <<N!Challenge(s)>>
    BY <2>2, OneMessage DEF Fewer
  <2> QED BY <2>1, <2>2
<1>3. \A c \in Calls : CallInv(c)'
  <2>. SUFFICES ASSUME NEW c \in Calls PROVE CallInv(c)'
    OBVIOUS
  <2>1. CallInv(c) /\ authed \subseteq authed'
    BY DEF OneSocket
  <2> QED BY <1>1, <1>2, <2>1, CallKept
<1> QED BY <1>2, <1>3 DEF OneSocket, Fewer

LEMMA OneConnects ==
  ASSUME RelayTypes, OneSocket, NEW c \in Calls, N!Connect(c)
  PROVE  OneSocket'
<1>1. request[c].at = "idle" /\ ~request[c].again /\ UNCHANGED <<authed, up, down, auth>>
  BY DEF N!Connect, N!net, RelayTypes
<1>2. request \in [Calls -> RelayCall]
  BY DEF RelayTypes, N!TypeOK, RelayCall
<1>3. CASE N!Open
  <2>1. N!Move({c}, "ready")
    BY <1>3 DEF N!Connect
  <2>2. \A d \in Calls : /\ request'[d].again = request[d].again
                         /\ request'[d].at = IF d = c THEN "ready" ELSE request[d].at
    BY <2>1, MovedCalls DEF RelayTypes
  <2> QED BY <1>1, <2>2, QuietStep
<1>4. CASE ~N!Open
  <2>1. request' = [request EXCEPT ![c] = [at |-> "connect", on |-> ws + 1, again |-> FALSE]]
    BY <1>4 DEF N!Connect
  <2>2. \A d \in Calls : d # c => request'[d] = request[d]
    BY <1>2, <2>1
  <2>3. request'[c].at = "connect" /\ ~request'[c].again
    BY <1>2, <2>1
  <2>4. CallInv(c)'
    BY <1>1, <2>3 DEF OneSocket, CallInv, Single, Silent, Repeats
  <2>5. \A d \in Calls : d # c => CallInv(d)'
    BY <1>1, <2>2 DEF OneSocket, CallInv, Single, Silent, Repeats
  <2> QED BY <1>1, <2>4, <2>5 DEF OneSocket
<1> QED BY <1>3, <1>4

LEMMA OneOpens ==
  ASSUME RelayTypes, OneSocket, NEW s \in N!Socks, NEW asks \in BOOLEAN, N!SocketOpens(s, asks)
  PROVE  OneSocket'
<1>. DEFINE cs == {c \in N!At("connect") : request[c].on = s}
<1>1. N!Move(cs, "ready") /\ UNCHANGED <<authed, up, auth>>
      /\ down' = [down EXCEPT ![s] = IF asks THEN <<N!Challenge(s)>> ELSE <<>>]
  BY DEF N!SocketOpens
<1>2. \A t \in N!Socks : down'[t] = down[t] \/ down'[t] = <<>> \/ down'[t] = <<N!Challenge(t)>>
  BY <1>1 DEF RelayTypes
<1>3. \A c \in cs : request[c].at = "connect"
  BY DEF N!At
<1>. HIDE DEF cs
<1>4. \A c \in Calls : /\ request'[c].again = request[c].again
                       /\ request'[c].at = IF c \in cs THEN "ready" ELSE request[c].at
  BY <1>1, MovedCalls DEF RelayTypes
<1>5. \A c \in cs \cap Calls : ~request[c].again
  BY <1>3 DEF RelayTypes
<1> QED BY <1>1, <1>2, <1>3, <1>4, <1>5, QuietStep

LEMMA OneCloses ==
  ASSUME RelayTypes, OneSocket, NEW s \in N!Socks, N!Closing(s) \/ N!Closed(s)
  PROVE  OneSocket'
<1>1. CASE N!Closing(s)
  <2>1. /\ up' = [up EXCEPT ![s] = <<>>] /\ down' = [down EXCEPT ![s] = <<>>]
        /\ UNCHANGED <<authed, auth, request>>
    BY <1>1 DEF N!Closing
  <2>2. \A t \in N!Socks : /\ up'[t] = up[t] \/ up'[t] = <<>>
                           /\ down'[t] = down[t] \/ down'[t] = <<>>
    BY <2>1 DEF RelayTypes
  <2> QED BY <2>1, <2>2, QuietStep
<1>2. CASE N!Closed(s)
  <2>. DEFINE cs == N!At("sent") \cup {c \in N!At("connect") : request[c].on = s}
  <2>1. N!Move(cs, "failed") /\ UNCHANGED <<authed, up, down>> /\ (auth' = auth \/ auth' # "done")
    BY <1>2 DEF N!Closed
  <2>2. \A c \in cs : request[c].at \in {"connect", "sent"}
    BY DEF N!At
  <2>. HIDE DEF cs
  <2>3. \A c \in Calls : /\ request'[c].again = request[c].again
                         /\ request'[c].at = IF c \in cs THEN "failed" ELSE request[c].at
    BY <2>1, MovedCalls DEF RelayTypes
  <2> QED BY <2>1, <2>2, <2>3, QuietStep
<1> QED BY <1>1, <1>2

LEMMA OneTimesOut ==
  ASSUME RelayTypes, OneSocket,
         (\E c \in Calls : N!TimesOut(c)) \/ (\E s \in N!Socks : N!AuthTimesOut(s))
  PROVE  OneSocket'
<1>1. ASSUME NEW c \in Calls, N!TimesOut(c) PROVE OneSocket'
  <2>1. request[c].at \in {"connect", "sent", "auth"} /\ N!Move({c}, "failed")
        /\ UNCHANGED <<authed, up, down, auth>>
    BY <1>1 DEF N!TimesOut, N!net
  <2>2. \A d \in Calls : /\ request'[d].again = request[d].again
                         /\ request'[d].at = IF d = c THEN "failed" ELSE request[d].at
    BY <2>1, MovedCalls DEF RelayTypes
  <2> QED BY <2>1, <2>2, QuietStep
<1>2. ASSUME NEW s \in N!Socks, N!AuthTimesOut(s) PROVE OneSocket'
  <2>1. auth' # "done" /\ UNCHANGED <<authed, up, down, request>>
    BY <1>2 DEF N!AuthTimesOut, N!net
  <2> QED BY <2>1, QuietStep
<1> QED BY <1>1, <1>2

LEMMA OneAttempts ==
  ASSUME RelayTypes, OneSocket, ws <= 1, NEW c \in Calls, N!Attempt(c)
  PROVE  OneSocket'
<1>1. request[c].at = "ready" /\ UNCHANGED <<ws, sock, authed, down, auth, waiters>>
  BY DEF N!Attempt
<1>2. CASE N!Open
  <2>1. /\ up' = [up EXCEPT ![ws] = Append(@, N!Frame(c))] /\ N!Move({c}, "sent")
    BY <1>2 DEF N!Attempt
  <2>2. N!Frame(c) \in RelayFrames
    BY DEF RelayFrames
  <2>3. \A s \in N!Socks : up'[s] = IF s = ws THEN Append(up[s], N!Frame(c)) ELSE up[s]
    BY <1>2, <2>1, <2>2, SentUp
  <2>4. ws = 1
    BY <1>2, OpenIsOpened DEF N!Socks
  <2>5. \A d \in Calls : /\ request'[d].again = request[d].again
                         /\ request'[d].at = IF d = c THEN "sent" ELSE request[d].at
    BY <2>1, MovedCalls DEF RelayTypes
  <2>6. \A d \in Calls : d # c => CallInv(d)'
    <3>. SUFFICES ASSUME NEW d \in Calls, d # c PROVE CallInv(d)'
      OBVIOUS
    <3>1. \A s \in N!Socks : Fewer(up'[s], up[s], Ask(d))
      <4>. SUFFICES ASSUME NEW s \in N!Socks PROVE Fewer(up'[s], up[s], Ask(d))
        OBVIOUS
      <4>1. up[s] \in Seq(RelayFrames) /\ N!Frame(c) \notin Ask(d)
        BY AnswersDiffer DEF RelayTypes
      <4>2. Fewer(Append(up[s], N!Frame(c)), up[s], Ask(d))
        BY <2>2, <4>1, FewerAppend
      <4> QED BY <2>3, <4>2, FewerSame
    <3>2. \A s \in N!Socks : Fewer(down'[s], down[s], Answers(d)) /\ Fewer(down'[s], down[s], No(d))
      BY <1>1, FewerSame
    <3>3. CallInv(d) /\ authed \subseteq authed' /\ request'[d].again = request[d].again
          /\ request'[d].at = request[d].at
      BY <1>1, <2>5 DEF OneSocket
    <3> QED BY <3>1, <3>2, <3>3, CallKept
  <2>7. Silent(c) /\ Repeats(c)
    BY <1>1 DEF OneSocket, CallInv
  <2>8. \A s \in N!Socks : AtMostOne(up'[s], Ask(c))
    <3>. SUFFICES ASSUME NEW s \in N!Socks PROVE AtMostOne(up'[s], Ask(c))
      OBVIOUS
    <3>1. up[s] \in Seq(RelayFrames) /\ Without(up[s], Ask(c)) /\ AtMostOne(up[s], Ask(c))
      BY <2>7 DEF RelayTypes, Silent, Without, AtMostOne
    <3>2. AtMostOne(Append(up[s], N!Frame(c)), Ask(c))
      BY <2>2, <3>1, FewerAppend
    <3> QED BY <2>3, <3>1, <3>2
  <2>9. Single(c)'
    BY <1>1, <2>7, <2>8 DEF Silent, Single, AtMostOne, Without
  <2>10. Repeats(c)'
    BY <1>1, <2>3, <2>4, <2>5, <2>7 DEF Repeats, Silent
  <2>11. CallInv(c)'
    BY <2>5, <2>9, <2>10 DEF CallInv
  <2> QED BY <1>1, <2>6, <2>11 DEF OneSocket
<1>3. CASE ~N!Open
  <2>1. N!Move({c}, "failed") /\ UNCHANGED up
    BY <1>3 DEF N!Attempt
  <2>2. \A d \in Calls : /\ request'[d].again = request[d].again
                         /\ request'[d].at = IF d = c THEN "failed" ELSE request[d].at
    BY <2>1, MovedCalls DEF RelayTypes
  <2> QED BY <1>1, <2>1, <2>2, QuietStep
<1> QED BY <1>2, <1>3

(* What an answer adds to a queue, with the challenge that may follow it.  *)
LEMMA FewerReply ==
  ASSUME NEW q \in Seq(RelayMsgs), NEW r \in RelayMsgs, NEW s \in N!Socks, NEW X,
         N!Challenge(s) \notin X, NEW new,
         new = Append(q, r) \/ new = Append(Append(q, r), N!Challenge(s))
  PROVE  /\ r \notin X => Fewer(new, q, X)
         /\ Without(q, X) => AtMostOne(new, X)
<1>1. N!Challenge(s) \in RelayMsgs /\ Append(q, r) \in Seq(RelayMsgs)
  BY MsgsAre
<1>2. /\ r \notin X => Fewer(Append(q, r), q, X)
      /\ Without(q, X) => AtMostOne(Append(q, r), X)
  BY FewerAppend
<1>3. Fewer(Append(Append(q, r), N!Challenge(s)), Append(q, r), X)
  BY <1>1, FewerAppend
<1> QED BY <1>2, <1>3 DEF Fewer

LEMMA OneServes ==
  ASSUME RelayTypes, OneSocket, NEW s \in N!Socks, N!RelayTakes(s)
  PROVE  OneSocket'
<1>. DEFINE f == Head(up[s])
<1>1. /\ up[s] # <<>> /\ f \in RelayFrames
      /\ \A t \in N!Socks : up'[t] = IF t = s THEN Tail(up[s]) ELSE up[t]
      /\ UNCHANGED <<auth, request>> /\ authed \subseteq authed'
  BY RelayReplies
<1>2. PICK ok \in BOOLEAN :
        /\ ok => s \in authed' \/ f.kind # "AUTH"
        /\ f.kind = "call" => (ok <=> s \in authed)
        /\ \/ down' = [down EXCEPT ![s] = Append(@, N!Reply(f, ok))]
           \/ down' = [down EXCEPT ![s] = Append(Append(@, N!Reply(f, ok)), N!Challenge(s))]
  BY RelayReplies
<1>. DEFINE r == N!Reply(f, ok)
<1>3. r \in RelayMsgs /\ up[s] \in Seq(RelayFrames) /\ down[s] \in Seq(RelayMsgs)
  BY <1>1, MsgsAre DEF RelayTypes
<1>4. /\ down'[s] = Append(down[s], r) \/ down'[s] = Append(Append(down[s], r), N!Challenge(s))
      /\ \A t \in N!Socks : t # s => down'[t] = down[t]
  BY <1>2 DEF RelayTypes
<1>5. \A t \in N!Socks : \A X : Fewer(up'[t], up[t], X)
  BY <1>1, <1>3, FewerTail, FewerSame
<1>6. \A X : N!Challenge(s) \notin X =>
        /\ r \notin X => \A t \in N!Socks : Fewer(down'[t], down[t], X)
        /\ Without(down[s], X) => AtMostOne(down'[s], X)
  <2>1. \A X : N!Challenge(s) \notin X =>
          /\ r \notin X => Fewer(down'[s], down[s], X)
          /\ Without(down[s], X) => AtMostOne(down'[s], X)
    BY <1>3, <1>4, FewerReply
  <2> QED BY <1>4, <2>1, FewerSame
<1>7. \A c : r \notin Answers(c) \cup No(c) =>
        \A t \in N!Socks : Fewer(down'[t], down[t], Answers(c)) /\ Fewer(down'[t], down[t], No(c))
  <2>1. \A c : N!Challenge(s) \notin Answers(c) /\ N!Challenge(s) \notin No(c)
    BY AnswersDiffer
  <2> QED BY <1>6, <2>1
<1>8. ASSUME NEW c \in Calls, r \notin Answers(c) \cup No(c) PROVE CallInv(c)'
  <2>1. CallInv(c) /\ request'[c].again = request[c].again /\ request'[c].at = request[c].at
    BY <1>1 DEF OneSocket
  <2> QED BY <1>1, <1>5, <1>7, <1>8, <2>1, CallKept
<1>9. \A t \in N!Socks : t \in authed' \/ Without(down'[t], Welcomes)
  <2>1. r \notin Welcomes => \A t \in N!Socks : Fewer(down'[t], down[t], Welcomes)
    BY <1>6, AnswersDiffer
  <2>2. r \in Welcomes => s \in authed'
    <3>1. r \in Welcomes => ok = TRUE /\ f.kind = "AUTH"
      BY DEF Welcomes, N!Reply, N!Hello
    <3> QED BY <1>2, <3>1
  <2> QED BY <1>1, <1>4, <2>1, <2>2 DEF OneSocket, Fewer
<1>10. CASE \E c \in Calls : f = N!Frame(c)
  <2>1. PICK c \in Calls : f = N!Frame(c)
    BY <1>10
  <2>2. CallInv(c) /\ f \in Ask(c) /\ f.kind = "call"
    BY <2>1 DEF OneSocket, Ask, N!Frame
  <2>3. ~Without(up[s], Ask(c)) /\ AtMostOne(up[s], Ask(c)) /\ Without(down[s], Answers(c))
    BY <1>1, <1>3, <2>2, FewerTail DEF CallInv, Single
  <2>4. request[c].at \in {"sent", "failed"}
    BY <2>2, <2>3 DEF CallInv, Silent
  <2>5. Without(up'[s], Ask(c))
    BY <1>1, <1>3, <2>2, <2>3, FewerTail
  <2>6. AtMostOne(down'[s], Answers(c))
    BY <1>6, <2>3, AnswersDiffer
  <2>7. Single(c)'
    BY <1>4, <1>5, <2>2, <2>5, <2>6 DEF CallInv, Single, Fewer
  <2>8. request[c].again => r \notin No(c)
    <3>1. request[c].again => s \in authed
      BY <2>2, <2>3 DEF CallInv, Repeats
    <3>2. s \in authed => ok = TRUE
      BY <1>2, <2>2
    <3> QED BY <2>1, <3>1, <3>2, AnswersDiffer
  <2>9. request[c].again => \A t \in N!Socks : Fewer(down'[t], down[t], No(c))
    BY <1>6, <2>8, AnswersDiffer
  <2>10. Repeats(c)'
    BY <1>1, <1>5, <2>2, <2>9 DEF CallInv, Repeats, Fewer
  <2>11. CallInv(c)'
    BY <1>1, <2>2, <2>4, <2>7, <2>10 DEF CallInv
  <2>12. \A d \in Calls : d # c => CallInv(d)'
    BY <1>8, <2>1, AnswersDiffer
  <2> QED BY <1>1, <1>9, <2>11, <2>12 DEF OneSocket
<1>11. CASE ~\E c \in Calls : f = N!Frame(c)
  <2>1. PICK t \in N!Socks : f = N!Hello(t)
    BY <1>1, <1>11 DEF RelayFrames
  <2>2. \A c \in Calls : CallInv(c)'
    BY <1>8, <2>1, AnswersDiffer
  <2> QED BY <1>1, <1>9, <2>2 DEF OneSocket
<1> QED BY <1>10, <1>11

LEMMA OneHandles ==
  ASSUME RelayTypes, OneSocket, ws <= 1, NEW s \in N!Socks, N!OnMessage(s)
  PROVE  OneSocket'
<1>. DEFINE m == Head(down[s])
<1>1. /\ sock[s] = "open" /\ down[s] # <<>> /\ m \in RelayMsgs
      /\ \A t \in N!Socks : down'[t] = IF t = s THEN Tail(down[s]) ELSE down[t]
      /\ UNCHANGED authed
  BY RelayHears
<1>2. down[s] \in Seq(RelayMsgs)
  BY DEF RelayTypes
<1>3. \A t \in N!Socks : \A X : Fewer(down'[t], down[t], X)
  BY <1>1, <1>2, FewerTail, FewerSame
<1>4. \A t \in N!Socks : t \in authed' \/ Without(down'[t], Welcomes)
  BY <1>1, <1>3 DEF OneSocket, Fewer
<1>5. s = 1 /\ \A t \in N!Socks : t # s => up[t] = <<>> /\ down[t] = <<>>
  <2>1. ~(s > ws) /\ s \in Nat /\ s >= 1 /\ ws \in Nat
    BY <1>1, OpenIsOpened DEF N!Socks, RelayTypes, N!TypeOK
  <2>2. \A t \in N!Socks : t # 1 => t > ws
    BY <2>1 DEF N!Socks
  <2> QED BY <2>1, <2>2 DEF RelayTypes
<1>6. CASE UNCHANGED <<up, auth, pending, waiters, request>>
  <2>1. \A c \in Calls : CallInv(c)'
    <3>. SUFFICES ASSUME NEW c \in Calls PROVE CallInv(c)'
      OBVIOUS
    <3>1. CallInv(c) /\ authed \subseteq authed' /\ request'[c].again = request[c].again
          /\ request'[c].at = request[c].at
      BY <1>1, <1>6 DEF OneSocket
    <3> QED BY <1>3, <1>6, <3>1, CallKept, FewerSame
  <2> QED BY <1>1, <1>4, <1>6, <2>1 DEF OneSocket
<1>7. CASE /\ auth' = "pending" /\ pending' = pending \cup {N!Hello(s)}
           /\ up' = IF N!Open THEN [up EXCEPT ![ws] = Append(@, N!Hello(s))] ELSE up
           /\ UNCHANGED <<waiters, request>>
  <2>1. N!Hello(s) \in RelayFrames
    BY DEF RelayFrames
  <2>2. \A t \in N!Socks : up'[t] = up[t] \/ up'[t] = Append(up[t], N!Hello(s))
    BY <1>7, <2>1, SentUp
  <2>3. \A c \in Calls : \A t \in N!Socks : Fewer(up'[t], up[t], Ask(c))
    <3>. SUFFICES ASSUME NEW c \in Calls, NEW t \in N!Socks PROVE Fewer(up'[t], up[t], Ask(c))
      OBVIOUS
    <3>1. N!Hello(s) \notin Ask(c) /\ up[t] \in Seq(RelayFrames)
      BY AnswersDiffer DEF RelayTypes
    <3>2. Fewer(Append(up[t], N!Hello(s)), up[t], Ask(c))
      BY <2>1, <3>1, FewerAppend
    <3> QED BY <2>2, <3>2, FewerSame
  <2>4. \A c \in Calls : CallInv(c)'
    <3>. SUFFICES ASSUME NEW c \in Calls PROVE CallInv(c)'
      OBVIOUS
    <3>1. CallInv(c) /\ authed \subseteq authed' /\ request'[c].again = request[c].again
          /\ request'[c].at = request[c].at
      BY <1>1, <1>7 DEF OneSocket
    <3> QED BY <1>3, <2>3, <3>1, CallKept
  <2> QED BY <1>4, <1>7, <2>4 DEF OneSocket
<1>8. CASE \E t \in N!Socks : m = N!Reply(N!Hello(t), m.ok) /\ N!AuthAnswered(m)
  <2>1. PICK t \in N!Socks : m = N!Reply(N!Hello(t), m.ok) /\ N!AuthAnswered(m)
    BY <1>8
  <2>2. PICK ok \in BOOLEAN : m = N!Reply(N!Hello(t), ok)
    BY <1>1, <2>1, MsgsAre
  <2>3. N!AuthAnswered(N!Reply(N!Hello(t), ok))
    BY <2>1, <2>2
  <2>4. ok => 1 \in authed
    <3>1. ok => m \in Welcomes
      BY <2>2 DEF Welcomes
    <3>2. ok => ~Without(down[s], Welcomes)
      BY <1>1, <1>2, <3>1, FewerTail
    <3> QED BY <1>5, <3>2 DEF OneSocket
  <2>. HIDE DEF m
  <2>5. /\ UNCHANGED up /\ auth' = IF ok THEN "done" ELSE "none"
        /\ \A c \in Calls :
              /\ request'[c].again = request[c].again
              /\ \/ request'[c].at = request[c].at
                 \/ ok /\ request[c].at = "auth" /\ request'[c].at = "ready"
    BY <2>3, AuthHears
  <2>6. \A c \in Calls : CallInv(c)'
    <3>. SUFFICES ASSUME NEW c \in Calls PROVE CallInv(c)'
      OBVIOUS
    <3>1. CallInv(c) /\ authed \subseteq authed' /\ request'[c].again = request[c].again
      BY <1>1, <2>5 DEF OneSocket
    <3>2. \A u \in N!Socks : Fewer(up'[u], up[u], Ask(c))
      BY <2>5, FewerSame
    <3> QED BY <1>1, <1>3, <2>4, <2>5, <3>1, <3>2, CallKept
  <2> QED BY <1>1, <1>4, <2>4, <2>5, <2>6 DEF OneSocket
<1>9. CASE \E c \in Calls : /\ m = N!Reply(N!Frame(c), m.ok) /\ N!Frame(c) \in pending
                            /\ N!CallAnswered(m)
  <2>1. PICK c \in Calls : m = N!Reply(N!Frame(c), m.ok) /\ N!CallAnswered(m)
    BY <1>9
  <2>2. PICK ok \in BOOLEAN : m = N!Reply(N!Frame(c), ok)
    BY <1>1, <2>1, MsgsAre
  <2>3. N!CallAnswered(N!Reply(N!Frame(c), ok))
    BY <2>1, <2>2
  <2>4. CallInv(c) /\ m \in Answers(c) /\ (~ok => m \in No(c))
    BY <2>2 DEF OneSocket, Answers, No
  <2>5. /\ ~Without(down[s], Answers(c)) /\ Without(Tail(down[s]), Answers(c))
        /\ ~ok => ~Without(down[s], No(c))
    BY <1>1, <1>2, <2>4, FewerTail DEF CallInv, Single
  <2>6. Without(up[s], Ask(c)) /\ (~ok => ~request[c].again)
    BY <2>4, <2>5 DEF CallInv, Single, Repeats
  <2>. HIDE DEF m
  <2>7. /\ UNCHANGED <<up, auth>>
        /\ \A d \in Calls : d # c => request'[d] = request[d]
        /\ ok => request'[c].at = "done" /\ request'[c].again = request[c].again
        /\ ~ok => request'[c].again /\ request'[c].at = IF auth = "done" THEN "ready" ELSE "auth"
    BY <2>3, <2>6, CallHears
  <2>8. Silent(c)'
    <3>. SUFFICES ASSUME NEW t \in N!Socks
                  PROVE  Without(up'[t], Ask(c)) /\ Without(down'[t], Answers(c))
      BY DEF Silent
    <3>1. CASE t = s
      BY <1>1, <2>5, <2>6, <2>7, <3>1
    <3>2. CASE t # s
      BY <1>1, <1>5, <2>7, <3>2, EmptyQueue
    <3> QED BY <3>1, <3>2
  <2>9. CallInv(c)'
    <3>1. \A t \in N!Socks : Without(down'[t], No(c))
      BY <2>8, AnswersDiffer DEF Silent
    <3>2. Single(c)'
      BY <2>8 DEF Silent, Single, Without, AtMostOne
    <3>3. request'[c].at = "ready" => 1 \in authed'
      BY <1>1, <2>7 DEF OneSocket
    <3>4. Repeats(c)'
      BY <2>8, <3>1, <3>3 DEF Repeats, Silent
    <3>5. request'[c].at # "refused"
      BY <2>7
    <3> QED BY <2>8, <3>2, <3>4, <3>5 DEF CallInv
  <2>10. \A d \in Calls : d # c => CallInv(d)'
    <3>. SUFFICES ASSUME NEW d \in Calls, d # c PROVE CallInv(d)'
      OBVIOUS
    <3>1. CallInv(d) /\ authed \subseteq authed' /\ request'[d].again = request[d].again
          /\ request'[d].at = request[d].at
      BY <1>1, <2>7 DEF OneSocket
    <3>2. \A u \in N!Socks : Fewer(up'[u], up[u], Ask(d))
      BY <2>7, FewerSame
    <3> QED BY <1>3, <3>1, <3>2, CallKept
  <2> QED BY <1>1, <1>4, <2>7, <2>9, <2>10 DEF OneSocket
<1> QED BY <1>6, <1>7, <1>8, <1>9, RelayHears

LEMMA RelayInvStarts == ASSUME N!Init PROVE RelayInv
<1>1. \A s \in N!Socks : up[s] = <<>> /\ down[s] = <<>>
  BY DEF N!Init
<1>2. \A c \in Calls : ~request[c].again /\ request[c].at = "idle"
  BY DEF N!Init
<1>3. auth = "none"
  BY DEF N!Init
<1>4. \A c \in Calls : Single(c) /\ Silent(c) /\ Repeats(c)
  BY <1>1, <1>2, EmptyQueue DEF Single, Silent, Repeats
<1> QED BY <1>1, <1>2, <1>3, <1>4, RelayStarts, EmptyQueue DEF RelayInv, OneSocket, CallInv

LEMMA RelayInvKeeps == ASSUME RelayInv, [N!Next]_nostrVars PROVE RelayInv'
<1>1. RelayTypes'
  BY RelayTypesKeep DEF RelayInv
<1>2. ws' <= 1 => ws <= 1
  <2>1. ws \in Nat
    BY DEF RelayInv, RelayTypes, N!TypeOK
  <2>2. ws' = ws \/ ws' = ws + 1
    BY DEF N!Next, nostrVars, N!Connect, N!Attempt, N!TimesOut, N!SocketOpens, N!Closing,
           N!Closed, N!RelayTakes, N!OnMessage, N!AuthTimesOut
  <2> QED BY <2>1, <2>2
<1>3. CASE UNCHANGED nostrVars
  BY <1>1, <1>3 DEF RelayInv, nostrVars, OneSocket, CallInv, Single, Silent, Repeats
<1>4. CASE N!Next
  BY <1>1, <1>2, <1>4, OneConnects, OneOpens, OneAttempts, OneCloses, OneServes, OneHandles,
     OneTimesOut DEF RelayInv, N!Next
<1> QED BY <1>3, <1>4

LEMMA IsRelay == AllSpec => N!Init /\ [][N!Next]_nostrVars
<1>1. AllInit => N!Init
  BY DEF AllInit
<1>2. [AllNext]_all => [N!Next]_nostrVars
  BY DEF AllNext, all, nostrVars
<1> QED BY <1>1, <1>2, PTL DEF AllSpec

(* On the first connection no call is refused for good: one that is        *)
(* repeated finds the connection authenticated (sdk/relay.ts:6-8,187-194), *)
(* for any number of overlapping calls.                                    *)
THEOREM HandshakeServes == AllSpec => []HandshakeHelps
<1>1. RelayInv => HandshakeHelps
  <2>1. RelayInv => ws \in Nat
    BY DEF RelayInv, RelayTypes, N!TypeOK
  <2>2. RelayInv /\ ws <= 1 => \A c \in Calls : request[c].at # "refused"
    BY DEF RelayInv, OneSocket, CallInv
  <2> QED BY <2>1, <2>2 DEF HandshakeHelps, N!HandshakeHelps, N!At
<1> QED BY <1>1, RelayInvStarts, RelayInvKeeps, IsRelay, PTL
-----------------------------------------------------------------------------
(* All of them together: each keeps its types.                             *)
LEMMA IsReserves == AllSpec => Spec
<1>1. AllInit => Init
  BY DEF AllInit
<1>2. [AllNext]_all => [Next]_vars
  BY DEF AllNext, all, vars
<1> QED BY <1>1, <1>2, PTL DEF AllSpec, Spec

(* The same for the whole: no registry lacks a token below its cursor      *)
(* (refresh.ts:120-135), whichever services run beside the pipeline.       *)
THEOREM NothingIsMissed == AllSpec => []RegistryComplete
BY IsReserves, NothingIsOverlooked, ReservesAssumption, PTL

(* Every service keeps its types, and the histories of the pipeline their  *)
(* gap and their length (store.ts:143-150).                                *)
THEOREM EveryTypeHolds == AllSpec => []TypesOK
<1>1. CreditInv => C!TypeOK
  BY DEF CreditInv
<1>2. LinkInv => L!TypeOK
  BY DEF LinkInv
<1>3. GateInv => G!TypeOK
  BY DEF GateInv
<1>4. BindingInv => B!TypeOK
  BY DEF BindingInv
<1>5. SInv => S!TypeOK
  BY DEF SInv
<1>6. PayInv => P!TypeOK
  BY DEF PayInv, PayTypes, P!TypeOK, PayCall
<1>7. LockInv => O!TypeOK
  BY DEF LockInv
<1>8. LookInv => K!TypeOK
  BY DEF LookInv
<1>9. RelayInv => N!TypeOK
  BY DEF RelayInv, RelayTypes
<1>10. AllSpec => [](which \in {"reserves", "supply", "gate", "binding", "link", "nostr", "look",
                               "credit", "lock", "pay"})
  <2>. DEFINE Known == which \in {"reserves", "supply", "gate", "binding", "link", "nostr", "look",
                                  "credit", "lock", "pay"}
  <2>1. AllInit => Known
    BY DEF AllInit
  <2>2. Known /\ [AllNext]_all => Known'
    BY DEF AllNext, all
  <2> QED BY <2>1, <2>2, PTL DEF AllSpec
<1>11. RInv => TypeOK
  BY DEF RInv, Records, Sound, RunOK, Runs, Pcs, TypeOK
<1>12. AllSpec => [](TypeOK /\ C!TypeOK /\ L!TypeOK /\ G!TypeOK /\ B!TypeOK)
  BY <1>1, <1>2, <1>3, <1>4, <1>11, IsReserves, ReservesInvariant, ReservesAssumption,
     IsCredit, CreditStarts, CreditKeeps, IsLink, LinkStarts, LinkKeeps,
     IsGate, GateStarts, GateKeeps, IsBinding, BindingStarts, BindingKeeps, PTL
<1>13. AllSpec => [](S!TypeOK /\ P!TypeOK /\ O!TypeOK /\ K!TypeOK /\ N!TypeOK)
  BY <1>5, <1>6, <1>7, <1>8, <1>9,
     IsSupply, SInit, SKeeps,
     IsPay, PayStarts, PayKeeps, IsLock, LockStarts, LockKeeps, IsLook, LookStarts, LookKeeps,
     IsRelay, RelayInvStarts, RelayInvKeeps, PTL
<1>. DEFINE Known == which \in {"reserves", "supply", "gate", "binding", "link", "nostr", "look",
                                "credit", "lock", "pay"}
            Typed == /\ TypeOK /\ S!TypeOK /\ G!TypeOK /\ B!TypeOK /\ L!TypeOK
                     /\ N!TypeOK /\ K!TypeOK /\ C!TypeOK /\ O!TypeOK /\ P!TypeOK
<1>14. Known /\ Typed => TypesOK
  BY DEF TypesOK
<1>15. AllSpec => [](Known /\ Typed)
  BY <1>10, <1>12, <1>13, PTL
<1> QED BY <1>14, <1>15, PTL
=============================================================================
