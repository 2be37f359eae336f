---------------------------- MODULE OracleProofs ----------------------------
(***************************************************************************)
(* For every chain that replaces at most its last Confirmations blocks and *)
(* nodes that are at most Confirmations behind: the deposit oracle adds a  *)
(* transfer at most once, only when it settled, and skips none between     *)
(* where it started and its cursor.                                        *)
(*                                                                         *)
(* The argument: keys are added only for logs the chain no longer moves    *)
(* (Final), so no other log ever gets the key of one that was added        *)
(* (Keyed); every block below the next one of a scan is settled (Reach)    *)
(* and was read from a node that has it (Covered).                         *)
(***************************************************************************)
EXTENDS TempoOracle, TLAPS

Added(t) == Key(t) \in seen

(* A log was added at most once, and the keys kept are those of logs.      *)
Keyed ==
  /\ \A t \in Transfers : counted[t] = IF Added(t) THEN 1 ELSE 0
  /\ \A k \in seen : \E t \in Transfers : k = Key(t)

(* What was added is in a block that stays.                                *)
Final == \A t \in Transfers : Added(t) => block[t] # 0 /\ ~Volatile(t)

(* Scans stop short of the blocks that may still be replaced.              *)
Reach ==
  /\ \A t \in Transfers : block[t] <= top
  /\ cursor # None => cursor <= 1 \/ cursor + Confirmations <= top + 1
  /\ scan.at = "logs" =>
       /\ scan.next <= scan.settled
       /\ scan.settled = 0 \/ scan.settled + Confirmations <= top

(* Everything from the start of the first scan was added.                  *)
Covered ==
  \A t \in Transfers : block[t] # 0 /\ block[t] >= first =>
    /\ cursor # None /\ block[t] < cursor => Added(t)
    /\ scan.at = "logs" /\ block[t] < scan.next => Added(t)

OInv ==
  /\ TypeOK
  /\ index \in Placements
  /\ Keyed
  /\ Final
  /\ Reach
  /\ Covered

-----------------------------------------------------------------------------
(* Different logs have different keys.                                     *)
LEMMA KeysDiffer ==
  ASSUME ChainAssumption, index \in Placements, NEW t \in Transfers, NEW u \in Transfers,
         Key(t) = Key(u)
  PROVE  t = u
BY DEF Placements, Key

(* The first block of a first scan is settled or zero.                     *)
LEMMA StartBound ==
  ASSUME ChainAssumption, NEW s \in Nat, cursor = None
  PROVE  Start(s) \in Nat /\ Start(s) <= s
BY DEF ChainAssumption, Start

LEMMA SettledBound ==
  ASSUME ChainAssumption, NEW h \in Nat
  PROVE  Settled(h) \in Nat /\ (Settled(h) = 0 \/ Settled(h) + Confirmations <= h)
BY DEF ChainAssumption, Settled

(* A chunk starts at the next block and stays below the settled one.       *)
LEMMA ChunkBound ==
  ASSUME ChainAssumption, scan \in Scans, scan.next <= scan.settled
  PROVE  ToBlock \in Nat /\ scan.next <= ToBlock /\ ToBlock <= scan.settled
<1>1. scan.next \in Nat /\ scan.settled \in Nat
  BY DEF Scans
<1> QED
  BY <1>1 DEF ChainAssumption, ToBlock

(* The invariant holds at the start.                                       *)
LEMMA OInit ==
  ASSUME ChainAssumption, Init
  PROVE  OInv
<1>1. TypeOK
  BY DEF Init, TypeOK, Idle, Scans, None, Placements
<1>2. Keyed /\ Final /\ Reach /\ Covered
  BY DEF Init, Keyed, Final, Reach, Covered, Added, Key, Idle, None
<1> QED
  BY <1>1, <1>2 DEF OInv, Init

(* A new block touches nothing that was scanned.                           *)
LEMMA OMine ==
  ASSUME ChainAssumption, OInv, NEW included \in SUBSET Txs, Mine(included)
  PROVE  OInv'
<1> USE DEF OInv, Mine, memory
<1>0. top \in Nat /\ top' = top + 1 /\ block \in [Transfers -> Nat] /\ Depth \in Nat
  BY DEF TypeOK, ChainAssumption
<1>1. \A t \in Transfers : block'[t] = block[t] \/ (block[t] = 0 /\ block'[t] = top + 1)
  BY <1>0
<1>2. TypeOK'
  BY DEF TypeOK
<1>3. \A t \in Transfers : Added(t)' <=> Added(t)
  BY DEF Added, Key
<1>4. Keyed'
  BY <1>3 DEF Keyed, Key
<1>5. Final'
  BY <1>0, <1>1, <1>3 DEF Final, Volatile
<1>6. Reach'
  <2>1. \A t \in Transfers : block'[t] <= top'
    BY <1>0, <1>1 DEF Reach
  <2>2. cursor # None => cursor <= 1 \/ cursor + Confirmations <= top' + 1
    BY <1>0 DEF Reach, TypeOK, ChainAssumption, None
  <2>3. scan.at = "logs" => scan.settled = 0 \/ scan.settled + Confirmations <= top'
    BY <1>0 DEF Reach, TypeOK, ChainAssumption, Scans
  <2> QED
    BY <2>1, <2>2, <2>3 DEF Reach
<1>7. Covered'
  <2> SUFFICES ASSUME NEW t \in Transfers, block'[t] # 0, block'[t] >= first
      PROVE /\ cursor # None /\ block'[t] < cursor => Added(t)
            /\ scan.at = "logs" /\ block'[t] < scan.next => Added(t)
    BY <1>3 DEF Covered
  <2>1. CASE block'[t] = block[t]
    BY <2>1 DEF Covered
  <2>2. CASE block'[t] = top + 1
    <3>1. cursor # None => cursor <= top + 1
      BY <1>0 DEF Reach, TypeOK, ChainAssumption, None
    <3>2. scan.at = "logs" => scan.next <= top + 1
      BY <1>0 DEF Reach, TypeOK, ChainAssumption, Scans
    <3> QED
      BY <1>0, <2>2, <3>1, <3>2 DEF TypeOK, Scans, None
  <2> QED
    BY <1>1, <2>1, <2>2
<1> QED
  BY <1>2, <1>4, <1>5, <1>6, <1>7

(* A reorganization moves only what was not added yet, below every cursor. *)
LEMMA OReorg ==
  ASSUME ChainAssumption, OInv,
         NEW moved \in SUBSET {TxOf[t] : t \in {u \in Transfers : block[u] # 0 /\ Volatile(u)}},
         NEW to \in 0..MaxBlocks, NEW ix \in Placements, Reorg(moved, to, ix)
  PROVE  OInv'
<1> USE DEF OInv, Reorg, memory
<1>0. /\ top \in Nat /\ block \in [Transfers -> Nat] /\ Depth \in Nat /\ to \in Int
      /\ Confirmations \in Nat /\ Depth <= Confirmations
  BY DEF TypeOK, ChainAssumption
<1>1. ASSUME NEW t \in Transfers, TxOf[t] \in moved
      PROVE  /\ block[t] # 0 /\ Volatile(t) /\ ~Added(t) /\ counted[t] = 0
             /\ block'[t] = to /\ index' = ix
  BY <1>1 DEF Final, Keyed, TypeOK
<1>2. ASSUME NEW t \in Transfers, TxOf[t] \notin moved
      PROVE  block'[t] = block[t] /\ index'[t] = index[t]
  BY <1>2 DEF TypeOK
<1>3. ASSUME NEW t \in Transfers, TxOf[t] \in moved
      PROVE  ~Added(t)'
  <2> SUFFICES ASSUME <<TxOf[t], ix[t]>> \in seen
      PROVE FALSE
    BY DEF Added, Key
  <2>1. PICK u \in Transfers : <<TxOf[t], ix[t]>> = Key(u)
    BY DEF Keyed
  <2>2. TxOf[u] = TxOf[t] /\ Added(u)
    BY <2>1 DEF Key, Added
  <2> QED
    BY <1>1, <1>3, <2>2
<1>4. \A t \in Transfers : Added(t)' <=> Added(t)
  <2> TAKE t \in Transfers
  <2>1. CASE TxOf[t] \in moved
    BY <2>1, <1>1, <1>3
  <2>2. CASE TxOf[t] \notin moved
    BY <2>2, <1>2 DEF Added, Key
  <2> QED
    BY <2>1, <2>2
<1>5. TypeOK'
  BY <1>0 DEF TypeOK, Placements
<1>6. Keyed'
  <2>1. \A k \in seen : \E t \in Transfers : k = Key(t)'
    <3> TAKE k \in seen
    <3>1. PICK t \in Transfers : k = Key(t)
      BY DEF Keyed
    <3>2. TxOf[t] \notin moved
      BY <1>1, <3>1 DEF Added
    <3> QED
      BY <1>2, <3>1, <3>2 DEF Key
  <2> QED
    BY <2>1, <1>4 DEF Keyed
<1>7. Final'
  <2> SUFFICES ASSUME NEW t \in Transfers, Added(t)'
      PROVE  block'[t] # 0 /\ ~Volatile(t)'
    BY DEF Final
  <2>1. TxOf[t] \notin moved /\ Added(t)
    BY <1>3, <1>4
  <2> QED
    BY <2>1, <1>2 DEF Final, Volatile
<1>8. Reach'
  BY <1>0, <1>1, <1>2 DEF Reach
<1>9. Covered'
  <2> SUFFICES ASSUME NEW t \in Transfers, block'[t] # 0, block'[t] >= first
      PROVE /\ cursor # None /\ block'[t] < cursor => Added(t)
            /\ scan.at = "logs" /\ block'[t] < scan.next => Added(t)
    BY <1>4 DEF Covered
  <2>1. CASE TxOf[t] \notin moved
    BY <2>1, <1>2 DEF Covered
  <2>2. CASE TxOf[t] \in moved
    <3>1. block'[t] > top - Depth /\ block'[t] \in Nat /\ block'[t] >= 1
      BY <1>0, <1>1, <2>2
    <3>2. block'[t] + Confirmations > top
      BY <1>0, <3>1
    <3>3. cursor # None => block'[t] >= cursor
      BY <1>0, <3>1, <3>2 DEF Reach, TypeOK, None
    <3>4. scan.at = "logs" => block'[t] >= scan.next
      <4>1. scan.next \in Nat /\ scan.settled \in Nat
        BY DEF TypeOK, Scans
      <4> QED
        BY <1>0, <3>1, <3>2, <4>1 DEF Reach
    <3> QED
      BY <3>1, <3>3, <3>4 DEF TypeOK, Scans, None
  <2> QED
    BY <2>1, <2>2
<1> QED
  BY <1>5, <1>6, <1>7, <1>8, <1>9

(* A caller starts a scan, a scan fails, the process restarts: nothing is  *)
(* added, and what a new scan claims it claims from its own start.         *)
LEMMA OQuiet ==
  ASSUME ChainAssumption, OInv,
         (\E c \in Callers : GetDeposit(c)) \/ ScanFails \/ Restart \/ UNCHANGED vars
  PROVE  OInv'
<1> USE DEF OInv
<1>1. CASE \E c \in Callers : GetDeposit(c)
  <2> PICK c \in Callers : GetDeposit(c)
    BY <1>1
  <2> USE DEF GetDeposit, chain, memory
  <2>1. scan' \in Scans /\ (scan'.at = "logs" => scan' = scan)
    BY DEF TypeOK, Scans, Idle
  <2>2. TypeOK'
    BY <2>1 DEF TypeOK
  <2>3. (\A t \in Transfers : Added(t)' <=> Added(t)) /\ Keyed' /\ Final'
    BY DEF Added, Keyed, Final, Key, Volatile
  <2>4. Reach' /\ Covered'
    BY <2>1, <2>3 DEF Reach, Covered
  <2> QED
    BY <2>2, <2>3, <2>4
<1>2. CASE ScanFails
  <2> USE <1>2 DEF ScanFails, chain, memory
  <2>1. TypeOK'
    BY DEF TypeOK, Idle, Scans
  <2>2. (\A t \in Transfers : Added(t)' <=> Added(t)) /\ Keyed' /\ Final'
    BY DEF Added, Keyed, Final, Key, Volatile
  <2>3. Reach' /\ Covered'
    BY <2>2 DEF Reach, Covered, Idle
  <2> QED
    BY <2>1, <2>2, <2>3
<1>3. CASE Restart
  <2> USE <1>3 DEF Restart, chain
  <2>1. TypeOK'
    BY DEF TypeOK, Idle, Scans
  <2>2. Keyed' /\ Final' /\ Reach' /\ Covered'
    BY DEF Keyed, Final, Reach, Covered, Added, Idle, None
  <2> QED
    BY <2>1, <2>2
<1>4. CASE UNCHANGED vars
  BY <1>4 DEF vars, TypeOK, Keyed, Final, Reach, Covered, Added, Key, Volatile
<1> QED
  BY <1>1, <1>2, <1>3, <1>4

(* A scan begins where the last one ended, or where the window starts.     *)
LEMMA OReadHead ==
  ASSUME ChainAssumption, OInv, NEW h \in 0..MaxBlocks, ReadHead(h)
  PROVE  OInv'
<1> USE DEF OInv
<1> DEFINE s == Settled(h)
<1>0. /\ h \in Nat /\ h <= top /\ scan.at = "head"
      /\ s \in Nat /\ (s = 0 \/ s + Confirmations <= h)
      /\ Confirmations \in Nat /\ top \in Nat
  BY SettledBound DEF ReadHead, Behind, ChainAssumption, TypeOK
<1>1. /\ UNCHANGED <<top, block, index, counted, seen, faults>>
      /\ first' = IF cursor = None THEN Start(s) ELSE first
      /\ \/ /\ Start(s) <= s
            /\ scan' = [at |-> "logs", next |-> Start(s), settled |-> s]
            /\ UNCHANGED <<cursor, waiting>>
         \/ ~(Start(s) <= s) /\ cursor' = Start(s) /\ scan' = Idle /\ waiting' = {}
  BY DEF ReadHead, chain, Done
<1>2. Start(s) \in Nat /\ (cursor = None => Start(s) <= s) /\ (cursor # None => Start(s) = cursor)
  BY <1>0, StartBound DEF Start, TypeOK, None
<1> HIDE DEF s
<1>3. TypeOK'
  BY <1>0, <1>1, <1>2 DEF TypeOK, Scans, Idle
<1>4. (\A t \in Transfers : Added(t)' <=> Added(t)) /\ Keyed' /\ Final'
  BY <1>1 DEF Added, Keyed, Final, Key, Volatile
<1>5. Reach'
  BY <1>0, <1>1, <1>2 DEF Reach, Idle, TypeOK, None
<1>6. Covered'
  <2> SUFFICES ASSUME NEW t \in Transfers, block[t] # 0, block[t] >= first'
      PROVE /\ cursor' # None /\ block[t] < cursor' => Added(t)
            /\ scan'.at = "logs" /\ block[t] < scan'.next => Added(t)
    BY <1>1, <1>4 DEF Covered
  <2>0. block[t] \in Nat
    BY DEF TypeOK
  <2>1. CASE cursor = None
    BY <1>1, <1>2, <2>0, <2>1
  <2>2. CASE cursor # None
    <3>1. first' = first /\ cursor' = cursor
      BY <1>1, <1>2, <2>2
    <3>2. block[t] < cursor => Added(t)
      BY <2>2, <3>1 DEF Covered
    <3> QED
      BY <1>1, <1>2, <2>2, <3>1, <3>2 DEF Idle
  <2> QED
    BY <2>1, <2>2
<1> QED
  BY <1>1, <1>3, <1>4, <1>5, <1>6

(* A chunk adds every log of its blocks that was not added, and no other.  *)
LEMMA OReadLogs ==
  ASSUME ChainAssumption, OInv, NEW node \in 0..MaxBlocks, ReadLogs(node)
  PROVE  OInv'
<1> USE DEF OInv
<1>0. /\ scan.at = "logs" /\ scan \in Scans /\ scan.next \in Nat /\ scan.settled \in Nat
      /\ scan.next <= scan.settled /\ top \in Nat /\ block \in [Transfers -> Nat]
      /\ Confirmations \in Nat /\ Depth \in Nat /\ Depth <= Confirmations
      /\ scan.settled = 0 \/ scan.settled + Confirmations <= top
      /\ node \in Nat /\ node >= top - Lag /\ Lag \in Nat /\ Lag <= Confirmations
  BY DEF ReadLogs, TypeOK, Scans, Reach, ChainAssumption, Behind
<1>1. ToBlock \in Nat /\ scan.next <= ToBlock /\ ToBlock <= scan.settled
  BY <1>0, ChunkBound
<1> DEFINE new == NewLogs(node)
<1>2. /\ UNCHANGED <<top, block, index, first, faults>>
      /\ counted' = [t \in Transfers |-> counted[t] + (IF t \in new THEN 1 ELSE 0)]
      /\ seen' = seen \cup {Key(t) : t \in new}
      /\ \/ /\ ToBlock + 1 <= scan.settled
            /\ scan' = [scan EXCEPT !.next = ToBlock + 1]
            /\ UNCHANGED <<cursor, waiting>>
         \/ ~(ToBlock + 1 <= scan.settled) /\ cursor' = ToBlock + 1
            /\ scan' = Idle /\ waiting' = {}
  BY DEF ReadLogs, chain, Done
<1>3. ASSUME NEW t \in Transfers
      PROVE  /\ t \in new => ~Added(t) /\ block[t] # 0 /\ block[t] <= ToBlock
             /\ block[t] # 0 /\ block[t] >= scan.next /\ block[t] <= ToBlock
                  => Added(t) \/ t \in new
  <2>1. block[t] \in Nat
    BY <1>0
  <2>2. block[t] # 0 /\ block[t] <= ToBlock => block[t] <= node
    BY <1>0, <1>1, <2>1
  <2> QED
    BY <1>0, <1>1, <2>1, <2>2 DEF NewLogs, Logs, Added
<1>3a. new \subseteq Transfers
  BY DEF NewLogs, Logs
<1> HIDE DEF new
<1>4. \A t \in Transfers : Added(t)' <=> Added(t) \/ t \in new
  <2> TAKE t \in Transfers
  <2>1. Key(t)' = Key(t)
    BY <1>2 DEF Key
  <2>2. Key(t) \in {Key(u) : u \in new} => t \in new
    BY <1>3a, KeysDiffer
  <2> QED
    BY <1>2, <2>1, <2>2 DEF Added
<1>5. TypeOK'
  <2>1. counted' \in [Transfers -> Nat]
    BY <1>2 DEF TypeOK
  <2>2. seen' \subseteq Txs \X Indices
    BY <1>2, <1>3a DEF TypeOK, Key, ChainAssumption
  <2>3. scan' \in Scans /\ cursor' \in Nat \cup {None} /\ waiting' \subseteq Callers
    BY <1>0, <1>1, <1>2 DEF TypeOK, Scans, Idle
  <2> QED
    BY <1>2, <2>1, <2>2, <2>3 DEF TypeOK
<1>6. Keyed'
  <2>1. \A t \in Transfers : counted'[t] = IF Added(t)' THEN 1 ELSE 0
    <3> TAKE t \in Transfers
    <3>1. counted[t] = (IF Added(t) THEN 1 ELSE 0)
      BY DEF Keyed
    <3>2. counted'[t] = counted[t] + (IF t \in new THEN 1 ELSE 0)
      BY <1>2
    <3>3. CASE t \in new
      BY <1>3, <1>4, <3>1, <3>2, <3>3
    <3>4. CASE t \notin new
      BY <1>4, <3>1, <3>2, <3>4
    <3> QED
      BY <3>3, <3>4
  <2>2. \A k \in seen' : \E t \in Transfers : k = Key(t)'
    BY <1>2, <1>3a DEF Keyed, Key
  <2> QED
    BY <2>1, <2>2 DEF Keyed
<1>7. Final'
  <2> SUFFICES ASSUME NEW t \in Transfers, Added(t) \/ t \in new
      PROVE  block[t] # 0 /\ ~(block[t] > top - Depth)
    BY <1>2, <1>4 DEF Final, Volatile
  <2>1. CASE Added(t)
    BY <2>1 DEF Final, Volatile
  <2>2. CASE t \in new
    <3>1. block[t] # 0 /\ block[t] \in Nat /\ block[t] <= scan.settled
      BY <1>0, <1>1, <1>3, <2>2
    <3> QED
      BY <1>0, <3>1
  <2> QED
    BY <2>1, <2>2
<1>8. Reach'
  <2>1. \A t \in Transfers : block'[t] <= top'
    BY <1>2 DEF Reach
  <2>2. cursor' # None => cursor' <= 1 \/ cursor' + Confirmations <= top' + 1
    BY <1>0, <1>1, <1>2 DEF Reach
  <2>3. scan'.at = "logs" =>
          /\ scan'.next <= scan'.settled
          /\ scan'.settled = 0 \/ scan'.settled + Confirmations <= top'
    BY <1>0, <1>1, <1>2 DEF Idle, Scans
  <2> QED
    BY <2>1, <2>2, <2>3 DEF Reach
<1>9. Covered'
  <2> SUFFICES ASSUME NEW t \in Transfers, block[t] # 0, block[t] >= first
      PROVE /\ cursor' # None /\ block[t] < cursor' => Added(t) \/ t \in new
            /\ scan'.at = "logs" /\ block[t] < scan'.next => Added(t) \/ t \in new
    BY <1>2, <1>4 DEF Covered
  <2>0. block[t] \in Nat
    BY <1>0
  <2>1. block[t] < ToBlock + 1 => Added(t) \/ t \in new
    <3>1. block[t] < scan.next => Added(t)
      BY <1>0 DEF Covered
    <3> QED
      BY <1>0, <1>1, <1>3, <2>0, <3>1
  <2>2. cursor # None /\ block[t] < cursor => Added(t)
    BY DEF Covered
  <2> QED
    BY <1>0, <1>2, <2>0, <2>1, <2>2 DEF Idle, Scans
<1> QED
  BY <1>2, <1>5, <1>6, <1>7, <1>8, <1>9

-----------------------------------------------------------------------------
(* The oracle keeps the invariant.                                         *)
THEOREM OracleInvariant ==
  ASSUME ChainAssumption
  PROVE  Spec => []OInv
<1>1. Init => OInv
  BY OInit
<1>2. OInv /\ [Next]_vars => OInv'
  <2> SUFFICES ASSUME OInv, [Next]_vars
      PROVE  OInv'
    OBVIOUS
  <2>1. CASE \E included \in SUBSET Txs : Mine(included)
    BY <2>1, OMine
  <2>2. CASE \E moved \in SUBSET {TxOf[t] : t \in {u \in Transfers : block[u] # 0 /\ Volatile(u)}} :
               \E to \in 0..MaxBlocks, ix \in Placements : Reorg(moved, to, ix)
    BY <2>2, OReorg
  <2>3. CASE (\E c \in Callers : GetDeposit(c)) \/ ScanFails \/ Restart \/ UNCHANGED vars
    BY <2>3, OQuiet
  <2>4. CASE \E h \in 0..MaxBlocks : ReadHead(h)
    BY <2>4, OReadHead
  <2>5. CASE \E h \in 0..MaxBlocks : ReadLogs(h)
    BY <2>5, OReadLogs
  <2> QED
    BY <2>1, <2>2, <2>3, <2>4, <2>5 DEF Next
<1> QED
  BY <1>1, <1>2, PTL DEF Spec

(* Totals never overstate the deposits (vault-tempo.ts:293,310), whatever  *)
(* the chain replaces, whichever scans fail and whenever it restarts.      *)
THEOREM TotalsNeverOverstate ==
  ASSUME ChainAssumption
  PROVE  Spec => []NeverOverstates
<1>1. OInv => NeverOverstates
  BY DEF OInv, NeverOverstates, Keyed, Final
<1> QED
  BY <1>1, OracleInvariant, PTL

(* No deposit is skipped between the window's start and the cursor         *)
(* (vault-tempo.ts:295-322), with nodes that are behind and failing scans. *)
THEOREM ScansSkipNothing ==
  ASSUME ChainAssumption
  PROVE  Spec => []NothingSkipped
<1>1. OInv => NothingSkipped
  BY DEF OInv, NothingSkipped, Keyed, Covered
<1> QED
  BY <1>1, OracleInvariant, PTL
=============================================================================
