------------------------------- MODULE Stores -------------------------------
(***************************************************************************)
(* Where an agent and a service keep coins, side by side: the wallet file  *)
(* of one process, the wallet service over a store, the wallet on a relay  *)
(* that sessions of one agent share, and the acceptor's KV store that      *)
(* instances of one service share.  They have nothing in common, so        *)
(* `which` names the one that moves, while the others rest in their        *)
(* initial states.                                                         *)
(***************************************************************************)
EXTENDS FileStore

CONSTANTS
  Coin, Purse, Budget, Incoming, Fee, MaxWrites, MaxFaults, \* WalletSpend
  EventIds, MaxNow, Overlap, MaxReaped,                     \* EngramStore
  Jobs, Challenges, Own, Proofs, Locked, Binds, Price, Face, \* Acceptor
  SettleFirst, MaxDeaths

VARIABLES
  which,
  store, issued, spent, given, recorded, claimed, spend, drawn, erred, faults,
  head, last, session, taken, now, reaped,
  record, landed, paid, claims, service, mint, expired, lapsed, deaths

walletVars == <<store, issued, spent, given, recorded, claimed, spend, drawn, erred, faults>>
engramVars == <<head, last, session, taken, now, reaped>>
acceptorVars == <<record, landed, paid, claims, service, mint, expired, lapsed, deaths>>
all == <<which, vars, walletVars, engramVars, acceptorVars>>

W == INSTANCE WalletSpend WITH
       Coins <- Coin, MaxSeq <- MaxWrites, call <- spend, used <- drawn
E == INSTANCE EngramStore WITH
       Sessions <- Callers, MaxFaults <- MaxReaped,
       call <- session, drawn <- taken, faults <- reaped
A == INSTANCE Acceptor WITH
       Requests <- Callers, Coins <- Proofs, MaxFaults <- MaxDeaths,
       call <- service, faults <- deaths

(* No reservation id and no inode is the string that stands for none.      *)
ASSUME StoresAssumption ==
  /\ "none" \notin Ids \cup Inodes
  /\ Purse \cup Budget \cup Incoming \subseteq Coin
  /\ Fee \in Nat
  /\ EventIds \subseteq Nat \ {0} /\ MaxNow \in Nat
  /\ Challenges \cap {A!Free, "nobody", "payer"} = {}
  /\ \A c \in Challenges : A!SumProofs({}) # Price[c]
  /\ MaxDeaths \in Nat

AllInit ==
  /\ which \in {"file", "wallet", "engram", "acceptor"}
  /\ Init /\ W!Init /\ E!Init /\ A!Init

AllNext ==
  \/ which = "file" /\ Next /\ UNCHANGED <<which, walletVars, engramVars, acceptorVars>>
  \/ which = "wallet" /\ W!Next /\ UNCHANGED <<which, vars, engramVars, acceptorVars>>
  \/ which = "engram" /\ E!Next /\ UNCHANGED <<which, vars, walletVars, acceptorVars>>
  \/ which = "acceptor" /\ A!LongNext /\ UNCHANGED <<which, vars, walletVars, engramVars>>

AllSpec == AllInit /\ [][AllNext]_all

-----------------------------------------------------------------------------
(* Whenever the process dies between two system calls (store.ts:190), the  *)
(* file is what the abstract store would hold, and coins are out only when *)
(* it says so.  The types of the wallet's modules hold with it.            *)
WalletTypes ==
  CASE which = "file" -> TypeOK /\ HeldIsRecorded
    [] which = "wallet" -> W!TypeOK
    [] OTHER -> TRUE
FileKeeps == AtomicStore /\ []WalletTypes

(* While the mint answers, the store offers no coin that is spent, however *)
(* a spend dies or fails (store.ts:219-235).                               *)
FreeIsUnspent == W!FreeIsUnspent

(* A coin that is missing shows as a reservation, or somebody was given it *)
(* (wallet-service.ts:149-201).                                            *)
NoSilentLoss == W!NoSilentLoss

(* What was paid or handed over never becomes spendable again, also when   *)
(* the mint fails (wallet-service.ts:171-183, 283-289).                    *)
PaidIsGone == W!PaidIsGone

(* As long as mutations do not overlap, a session is told of a conflict    *)
(* only if there was one: clocks may tie and ids are random, and still its *)
(* event is the head when it looks (engram-store.ts:152-175).              *)
PublishWins == E!PublishWins

(* As long as mutations do not overlap, what a session was told it holds   *)
(* is reserved for it in the record, whichever sessions take turns and die *)
(* (engram-store.ts:136-178).  What engram-store.ts:13-17 says of sessions *)
(* that do overlap is E!NoSilentOverwrite, and does not hold.              *)
SpendsKept == E!HeldIsRecorded

(* As long as mutations do not overlap, the relay's event is one atomic    *)
(* wallet for all sessions (engram-store.ts:136-178).                      *)
Record == INSTANCE ProofStore WITH wallet <- head.snap
AtomicRelay == Record!Spec

(* A request that lost or was refused leaves no claim and no marker behind *)
(* (kv-store.ts:85-104).  The types of the shared stores hold with it.     *)
NothingStranded ==
  CASE which = "engram" -> E!TypeOK
    [] which = "acceptor" -> A!TypeOK /\ A!NothingStranded
    [] OTHER -> TRUE

(* A reported success is money the service holds, whichever settlements    *)
(* are repeated, race, lapse or die (acceptor.ts:246-256).                 *)
SuccessIsPaid == A!SuccessIsPaid
=============================================================================
