---------------------------- MODULE TempoOracle ----------------------------
(***************************************************************************)
(* TempoVault, the deposit oracle of the mint: it scans the token's        *)
(* TransferWithMemo logs from a cursor that lives in memory, a chunk at a  *)
(* time, and adds every log it has not seen to the total of its quote.     *)
(* getDeposit starts a scan, or waits for the one that is running.         *)
(*                                                                         *)
(* The chain and its nodes are the environment: blocks above the last      *)
(* Depth may be replaced, and a node may be up to Lag blocks behind.  A    *)
(* total is kept as how often each transfer was added to it.               *)
(***************************************************************************)
EXTENDS Integers, FiniteSets

CONSTANTS
  Transfers,      \* TransferWithMemo logs to the vault
  Txs, TxOf,      \* the transaction that emits each of them
  Indices,        \* log indices
  Callers,        \* requests that poll a quote
  Chunk,          \* blocks asked for at a time (CHUNK)
  Confirmations,  \* blocks behind the head that count as settled
  Lookback,       \* blocks behind that where the first scan starts
  Depth, Lag,     \* what the chain may replace, how far a node is behind
  MaxBlocks,      \* bound on the chain
  MaxFaults       \* bound on failing calls and restarts

ASSUME ChainAssumption ==
  /\ TxOf \in [Transfers -> Txs]
  /\ Chunk \in Nat \ {0}
  /\ Confirmations \in Nat /\ Lookback \in Nat
  /\ Depth \in Nat /\ Lag \in Nat
  /\ Depth <= Confirmations /\ Lag <= Confirmations

VARIABLES
  top,      \* height of the chain
  block,    \* block[t]: where t is, 0 while it is not on the chain
  index,    \* index[t]: its logIndex
  cursor,   \* first block not scanned yet, None before the first scan ended
  first,    \* where the scans of this process start (for the properties)
  counted,  \* counted[t]: how often t was added to a total
  seen,     \* keys of the logs that were added
  scan,     \* the scan that runs: its await, next block and settled block
  waiting,  \* callers that wait for it
  faults

vars == <<top, block, index, cursor, first, counted, seen, scan, waiting, faults>>
chain == <<top, block, index>>
memory == <<cursor, first, counted, seen>>

None == -1
Idle == [at |-> "idle", next |-> 0, settled |-> 0]
Scans == [at : {"idle", "head", "logs"}, next : Nat, settled : Nat]

Volatile(t) == block[t] > top - Depth
Key(t) == <<TxOf[t], index[t]>>
Behind(h) == h \in Nat /\ h <= top /\ h >= top - Lag

(* The logs of one transaction have different indices.                     *)
Placements ==
  {ix \in [Transfers -> Indices] :
     \A t, u \in Transfers : t # u /\ TxOf[t] = TxOf[u] => ix[t] # ix[u]}

TypeOK ==
  /\ top \in Nat
  /\ block \in [Transfers -> Nat]
  /\ index \in [Transfers -> Indices]
  /\ cursor \in Nat \cup {None}
  /\ first \in Nat
  /\ counted \in [Transfers -> Nat]
  /\ seen \subseteq Txs \X Indices
  /\ scan \in Scans
  /\ waiting \subseteq Callers
  /\ faults \in Nat

Init ==
  /\ top = 0
  /\ block = [t \in Transfers |-> 0]
  /\ index \in Placements
  /\ cursor = None
  /\ first = 0
  /\ counted = [t \in Transfers |-> 0]
  /\ seen = {}
  /\ scan = Idle
  /\ waiting = {}
  /\ faults = 0
-----------------------------------------------------------------------------
(* A block takes pending transactions, each with all its logs.             *)
Mine(included) ==
  /\ top < MaxBlocks
  /\ top' = top + 1
  /\ block' = [t \in Transfers |->
       IF block[t] = 0 /\ TxOf[t] \in included THEN top + 1 ELSE block[t]]
  /\ UNCHANGED <<index, memory, scan, waiting, faults>>

(* Volatile blocks are replaced: transactions return to the pool or move,  *)
(* and their logs may get other indices.                                   *)
Reorg(moved, to, ix) ==
  /\ \A t \in Transfers : IF TxOf[t] \in moved THEN block[t] # 0 /\ Volatile(t)
                                              ELSE ix[t] = index[t]
  /\ to # 0 => to > top - Depth /\ to <= top
  /\ block' = [t \in Transfers |-> IF TxOf[t] \in moved THEN to ELSE block[t]]
  /\ index' = ix
  /\ UNCHANGED <<top, memory, scan, waiting, faults>>

(* Defect: the promise of a scan that ended is kept.                       *)
GetDepositOnce(c) ==
  /\ c \notin waiting /\ cursor = None
  /\ waiting' = waiting \cup {c}
  /\ scan' = IF scan.at = "idle" THEN [Idle EXCEPT !.at = "head"] ELSE scan
  /\ UNCHANGED <<chain, memory, faults>>

(* getDeposit: every caller waits for one scan, the first one starts it.   *)
GetDeposit(c) ==
  /\ c \notin waiting
  /\ waiting' = waiting \cup {c}
  /\ scan' = IF scan.at = "idle" THEN [Idle EXCEPT !.at = "head"] ELSE scan
  /\ UNCHANGED <<chain, memory, faults>>

(* The scan ends: this.cursor moves, refreshing is reset, callers go on.   *)
Done(next) ==
  /\ cursor' = next
  /\ scan' = Idle
  /\ waiting' = {}

Settled(h) == IF h > Confirmations THEN h - Confirmations ELSE 0

Start(settled) ==
  IF cursor # None THEN cursor
  ELSE IF settled > Lookback THEN settled - Lookback ELSE 0

(* eth_blockNumber answers, from a node that may be behind.                *)
ReadHead(h) ==
  /\ scan.at = "head"
  /\ Behind(h)
  /\ first' = IF cursor = None THEN Start(Settled(h)) ELSE first
  /\ IF Start(Settled(h)) <= Settled(h)
     THEN /\ scan' = [at |-> "logs", next |-> Start(Settled(h)), settled |-> Settled(h)]
          /\ UNCHANGED <<cursor, waiting>>
     ELSE Done(Start(Settled(h)))
  /\ UNCHANGED <<chain, counted, seen, faults>>

ToBlock == IF scan.next + Chunk - 1 < scan.settled
           THEN scan.next + Chunk - 1 ELSE scan.settled

Logs(node) == {t \in Transfers : block[t] # 0 /\ block[t] \in scan.next..ToBlock
                                   /\ block[t] <= node}

(* Defect: logs are not deduplicated.                                      *)
AnyLogs(node) == Logs(node)

NewLogs(node) == {t \in Logs(node) : Key(t) \notin seen}

(* eth_getLogs answers for one chunk; what was not seen is added.          *)
ReadLogs(node) ==
  /\ scan.at = "logs"
  /\ Behind(node)
  /\ counted' = [t \in Transfers |-> counted[t] + (IF t \in NewLogs(node) THEN 1 ELSE 0)]
  /\ seen' = seen \cup {Key(t) : t \in NewLogs(node)}
  /\ IF ToBlock + 1 <= scan.settled
     THEN /\ scan' = [scan EXCEPT !.next = ToBlock + 1]
          /\ UNCHANGED <<cursor, waiting>>
     ELSE Done(ToBlock + 1)
  /\ UNCHANGED <<chain, first, faults>>

(* Defect: the cursor moves although the scan failed.                      *)
FailedScanMoves ==
  /\ scan.at # "idle"
  /\ faults < MaxFaults
  /\ faults' = faults + 1
  /\ cursor' = IF scan.at = "logs" THEN scan.settled + 1 ELSE cursor
  /\ scan' = Idle
  /\ waiting' = {}
  /\ UNCHANGED <<chain, first, counted, seen>>

(* A call fails for good: the scan rejects for all its callers, the cursor *)
(* stays where it was, and so does what was added.                         *)
ScanFails ==
  /\ scan.at # "idle"
  /\ faults < MaxFaults
  /\ faults' = faults + 1
  /\ scan' = Idle
  /\ waiting' = {}
  /\ UNCHANGED <<chain, memory>>

(* The process restarts: everything it knew is gone.                       *)
Restart ==
  /\ faults < MaxFaults
  /\ faults' = faults + 1
  /\ cursor' = None
  /\ first' = 0
  /\ counted' = [t \in Transfers |-> 0]
  /\ seen' = {}
  /\ scan' = Idle
  /\ waiting' = {}
  /\ UNCHANGED chain

Next ==
  \/ \E included \in SUBSET Txs : Mine(included)
  \/ \E moved \in SUBSET {TxOf[t] : t \in {u \in Transfers : block[u] # 0 /\ Volatile(u)}} :
       \E to \in 0..MaxBlocks, ix \in Placements : Reorg(moved, to, ix)
  \/ \E c \in Callers : GetDeposit(c)
  \/ \E h \in 0..MaxBlocks : ReadHead(h) \/ ReadLogs(h)
  \/ ScanFails
  \/ Restart

Spec == Init /\ [][Next]_vars

(* A scan that runs goes on, and somebody polls again and again.           *)
Fairness ==
  /\ WF_vars(\E h \in 0..MaxBlocks : ReadHead(h) \/ ReadLogs(h))
  /\ SF_vars(\E c \in Callers : scan.at = "idle" /\ GetDeposit(c))
-----------------------------------------------------------------------------
(* A quote is never credited more than what reached the vault for good:    *)
(* totals grow at most once per transfer, whatever is scanned again after  *)
(* a failure or a restart (vault-tempo.ts:310), and only for blocks that   *)
(* the chain no longer replaces (:293).                                    *)
NeverOverstates ==
  \A t \in Transfers : counted[t] > 0 =>
    counted[t] = 1 /\ block[t] # 0 /\ ~Volatile(t)

(* Nothing is skipped: between the start of the look-back window and the   *)
(* cursor every transfer was added, also when scans failed half way and    *)
(* chunks were asked of nodes that are behind (vault-tempo.ts:295-322).    *)
NothingSkipped ==
  \A t \in Transfers :
    cursor # None /\ block[t] # 0 /\ block[t] >= first /\ block[t] < cursor => counted[t] = 1

(* While quotes are polled, a deposit that settled is credited, unless the *)
(* process started so late that its look-back window begins after it.      *)
DepositIsSeen ==
  \A t \in Transfers :
    (block[t] # 0 /\ block[t] + Confirmations + Lag <= top)
      ~> (counted[t] = 1 \/ block[t] < first)
=============================================================================
