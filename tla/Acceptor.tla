------------------------------ MODULE Acceptor ------------------------------
(***************************************************************************)
(* The service side of the payment method: any number of instances verify  *)
(* credentials offline, accept them through KvAcceptorStore, whose store   *)
(* has no transactions, and settle the accepted coins at the mint.         *)
(*                                                                         *)
(* A request is one broadcast of a credential; a job is a settlement the   *)
(* service scheduled, and runs again and again.  call[r].at is the await   *)
(* the handler is at.  The coins of a credential are a set: one that names *)
(* a coin twice is refused before anything is read.                        *)
(***************************************************************************)
EXTENDS Integers, FiniteSets, FiniteSetsExt

CONSTANTS
  Requests, Jobs,
  Challenges,
  Own,          \* challenges this acceptor created; mppx issues the others
  Coins,
  Locked,       \* coins locked to the service's key (PIP-08) until a locktime
  Binds,        \* Binds[c]: coins whose secret commits to c's nonce (PC-BIND)
  Price, Face,  \* amounts of challenges and coins
  SettleFirst,  \* mode 'settle-first'
  MaxFaults

Free == "free"

SumProofs(ys) == MapThenSumSet(LAMBDA y : Face[y], ys)

(* Amounts are positive (acceptor.ts:105), so no coins at all pay nothing. *)
ASSUME AcceptorAssumption ==
  /\ Challenges \cap {Free, "nobody", "payer"} = {}
  /\ \A c \in Challenges : SumProofs({}) # Price[c]
  /\ MaxFaults \in Nat

VARIABLES
  record,    \* chal:<id>: what getChallenge answers
  landed,    \* own challenges whose first put has reached the store
  paid,      \* paid:<id> markers
  claims,    \* y:<y>: the challenge that claimed the coin
  call,
  mint,      \* who swapped a coin: "nobody", the "payer", or the service for a challenge
  expired,   \* challenges past their expiry
  lapsed,    \* locked coins past their locktime
  faults

vars == <<record, landed, paid, claims, call, mint, expired, lapsed, faults>>

Handlers == Requests \cup Jobs
Over == {"idle", "success", "refused", "failed"}
Steps == Over \cup {"dup", "mark", "claim", "undo", "unmark", "put",
                    "read", "swap", "settled", "spent"}
Receipts == {"none", "pending", "settled", "double-spent"}

Absent == [known |-> FALSE, receipt |-> "none", coins |-> {}]
Open == [Absent EXCEPT !.known = TRUE]
Accepted(ys, receipt) == [known |-> TRUE, receipt |-> receipt, coins |-> ys]

TypeOK ==
  /\ record \in [Challenges -> [known : BOOLEAN, receipt : Receipts, coins : SUBSET Coins]]
  /\ landed \subseteq Own
  /\ paid \subseteq Challenges
  /\ claims \in [Coins -> Challenges \cup {Free}]
  /\ DOMAIN call = Handlers
  /\ \A r \in Handlers :
       /\ call[r].at \in Steps
       /\ call[r].left \subseteq call[r].coins
       /\ call[r].coins \subseteq Coins
       /\ call[r].at \in {"dup", "claim", "undo"} => call[r].left # {}
  /\ mint \in [Coins -> {"nobody", "payer"} \cup Challenges]
  /\ expired \subseteq Challenges
  /\ lapsed \subseteq Locked
  /\ faults \in 0..MaxFaults

Init ==
  /\ record = [c \in Challenges |-> Absent]
  /\ landed = {}
  /\ paid = {}
  /\ claims = [y \in Coins |-> Free]
  /\ call = [r \in Handlers |-> [at |-> "idle", chal |-> "none", coins |-> {}, left |-> {}]]
  /\ mint = [y \in Coins |-> "nobody"]
  /\ expired = {}
  /\ lapsed = {}
  /\ faults = 0

At(r, step) == call[r].at = step
Goto(r, step) == call' = [call EXCEPT ![r].at = step]
GotoWith(r, step, left) == call' = [call EXCEPT ![r].at = step, ![r].left = left]

-----------------------------------------------------------------------------
(* The put that createChallenge does not await, when it reaches the store. *)
Lands(c) ==
  /\ c \in Own \ landed
  /\ landed' = landed \cup {c}
  /\ record' = [record EXCEPT ![c] = Open]
  /\ UNCHANGED <<paid, claims, call, mint, expired, lapsed, faults>>

(* An unknown challenge is adopted only if the framework vouches for it.   *)
Known(c) == record[c].known \/ c \notin Own

BoundTo(y, c) == y \in Binds[c] \/ y \in Locked \ lapsed

(* getChallenge and the checks up to the duplicates.                       *)
Present(r, c, ys) ==
  /\ At(r, "idle")
  /\ Known(c)
  /\ record[c].receipt = "none"
  /\ c \notin expired
  /\ \A y \in ys : BoundTo(y, c)
  /\ SumProofs(ys) = Price[c]
  /\ call' = [call EXCEPT ![r] = [at |-> "dup", chal |-> c, coins |-> ys, left |-> ys]]
  /\ UNCHANGED <<record, landed, paid, claims, mint, expired, lapsed, faults>>

(* hasAnyY: one read per coin, in any order.                               *)
LookUp(r, y) ==
  /\ At(r, "dup")
  /\ y \in call[r].left
  /\ LET rest == call[r].left \ {y} IN
     IF claims[y] # Free THEN GotoWith(r, "refused", {})
     ELSE GotoWith(r, IF rest = {} THEN "mark" ELSE "dup", rest)
  /\ UNCHANGED <<record, landed, paid, claims, mint, expired, lapsed, faults>>

(* accept: the paid marker first, ...                                      *)
Mark(r) ==
  /\ At(r, "mark")
  /\ IF call[r].chal \in paid
       THEN /\ Goto(r, "refused")
            /\ UNCHANGED paid
       ELSE /\ GotoWith(r, "claim", call[r].coins)
            /\ paid' = paid \cup {call[r].chal}
  /\ UNCHANGED <<record, landed, claims, mint, expired, lapsed, faults>>

(* Defect: the claim is a plain set, not a set-if-absent.                  *)
Overwrites(r, y) ==
  /\ At(r, "claim")
  /\ y \in call[r].left
  /\ LET rest == call[r].left \ {y} IN
     GotoWith(r, IF rest = {} THEN "put" ELSE "claim", rest)
  /\ claims' = [claims EXCEPT ![y] = call[r].chal]
  /\ UNCHANGED <<record, landed, paid, mint, expired, lapsed, faults>>

(* ... then the coins one by one, ...                                      *)
ClaimY(r, y) ==
  /\ At(r, "claim")
  /\ y \in call[r].left
  /\ claims[y] = Free
  /\ LET rest == call[r].left \ {y} IN
     GotoWith(r, IF rest = {} THEN "put" ELSE "claim", rest)
  /\ claims' = [claims EXCEPT ![y] = call[r].chal]
  /\ UNCHANGED <<record, landed, paid, mint, expired, lapsed, faults>>

(* ... giving back what was claimed when one of them is taken.             *)
Claimed(r) == call[r].coins \ call[r].left

LoseY(r, y) ==
  /\ At(r, "claim")
  /\ y \in call[r].left
  /\ claims[y] # Free
  /\ GotoWith(r, IF Claimed(r) = {} THEN "unmark" ELSE "undo", Claimed(r))
  /\ UNCHANGED <<record, landed, paid, claims, mint, expired, lapsed, faults>>

(* Each deletion may fail, and the failure is ignored.                     *)
Undo(r, y, ok) ==
  /\ At(r, "undo")
  /\ y \in call[r].left
  /\ LET rest == call[r].left \ {y} IN
     GotoWith(r, IF rest = {} THEN "unmark" ELSE "undo", rest)
  /\ claims' = IF ok THEN [claims EXCEPT ![y] = Free] ELSE claims
  /\ faults' = IF ok THEN faults ELSE faults + 1
  /\ UNCHANGED <<record, landed, paid, mint, expired, lapsed>>

(* Defect: the rollback forgets the paid marker.                           *)
KeepsMarker(r, ok) ==
  /\ At(r, "unmark")
  /\ faults' = IF ok THEN faults ELSE faults + 1
  /\ Goto(r, "refused")
  /\ UNCHANGED <<record, landed, paid, claims, mint, expired, lapsed>>

Unmark(r, ok) ==
  /\ At(r, "unmark")
  /\ paid' = IF ok THEN paid \ {call[r].chal} ELSE paid
  /\ faults' = IF ok THEN faults ELSE faults + 1
  /\ Goto(r, "refused")
  /\ UNCHANGED <<record, landed, claims, mint, expired, lapsed>>

PutAccepted(r) ==
  /\ At(r, "put")
  /\ record' = [record EXCEPT ![call[r].chal] = Accepted(call[r].coins, "pending")]
  /\ Goto(r, IF SettleFirst THEN "read" ELSE "success")
  /\ UNCHANGED <<landed, paid, claims, mint, expired, lapsed, faults>>

-----------------------------------------------------------------------------
(* settle, called by the service for a challenge it has accepted.          *)
Settle(j, c) ==
  /\ call[j].at \in Over
  /\ record[c].receipt # "none"
  /\ call' = [call EXCEPT ![j] = [at |-> "read", chal |-> c, coins |-> {}, left |-> {}]]
  /\ UNCHANGED <<record, landed, paid, claims, mint, expired, lapsed, faults>>

(* Defect: broadcast does not look at what settle returned.                *)
ServesAnyway(receipt) == "success"

(* What the caller of settle does with the receipt it returns.             *)
Outcome(receipt) == IF receipt = "double-spent" THEN "refused" ELSE "success"

SettleRead(r) ==
  /\ At(r, "read")
  /\ LET state == record[call[r].chal] IN
     call' = [call EXCEPT ![r].at = IF state.receipt = "pending" THEN "swap"
                                    ELSE Outcome(state.receipt),
                          ![r].coins = state.coins]
  /\ UNCHANGED <<record, landed, paid, claims, mint, expired, lapsed, faults>>

(* Locks with a locktime carry refund keys, and the mint wants one of them *)
(* once the lock has lapsed: an error other than TOKEN_ALREADY_SPENT,      *)
(* which settle rethrows.                                                  *)
SwapFails(r) ==
  /\ At(r, "swap")
  /\ call[r].coins \cap lapsed # {}
  /\ Goto(r, "failed")
  /\ UNCHANGED <<record, landed, paid, claims, mint, expired, lapsed, faults>>

Swap(r) ==
  /\ At(r, "swap")
  /\ call[r].coins \cap lapsed = {}
  /\ \A y \in call[r].coins : mint[y] = "nobody"
  /\ mint' = [y \in Coins |-> IF y \in call[r].coins THEN call[r].chal ELSE mint[y]]
  /\ Goto(r, "settled")
  /\ UNCHANGED <<record, landed, paid, claims, expired, lapsed, faults>>

(* Defect: TOKEN_ALREADY_SPENT is rethrown like any other error.           *)
SpentRethrown(r) ==
  /\ At(r, "swap")
  /\ call[r].coins \cap lapsed = {}
  /\ \E y \in call[r].coins : mint[y] # "nobody"
  /\ Goto(r, "failed")
  /\ UNCHANGED <<record, landed, paid, claims, mint, expired, lapsed, faults>>

SwapSpent(r) ==
  /\ At(r, "swap")
  /\ call[r].coins \cap lapsed = {}
  /\ \E y \in call[r].coins : mint[y] # "nobody"
  /\ Goto(r, "spent")
  /\ UNCHANGED <<record, landed, paid, claims, mint, expired, lapsed, faults>>

(* The whole state read before the swap is written back.                   *)
PutReceipt(r, receipt) ==
  /\ record' = [record EXCEPT ![call[r].chal] = Accepted(call[r].coins, receipt)]
  /\ Goto(r, Outcome(receipt))
  /\ UNCHANGED <<landed, paid, claims, mint, expired, lapsed, faults>>

PutSettled(r) == At(r, "settled") /\ PutReceipt(r, "settled")
PutSpent(r) == At(r, "spent") /\ PutReceipt(r, "double-spent")

-----------------------------------------------------------------------------
(* A handler dies, or an await throws: after its call took effect or not.  *)
Dies(r) ==
  /\ call[r].at \notin Over
  /\ faults < MaxFaults
  /\ GotoWith(r, "failed", {})
  /\ faults' = faults + 1
  /\ UNCHANGED <<record, landed, paid, claims, mint, expired, lapsed>>

(* The payer knows the secrets of PC-BIND coins and holds the refund keys. *)
PayerSwaps(y) ==
  /\ y \in Locked => y \in lapsed
  /\ mint[y] = "nobody"
  /\ mint' = [mint EXCEPT ![y] = "payer"]
  /\ UNCHANGED <<record, landed, paid, claims, call, expired, lapsed, faults>>

Lapse(y) ==
  /\ y \in Locked \ lapsed
  /\ lapsed' = lapsed \cup {y}
  /\ UNCHANGED <<record, landed, paid, claims, call, mint, expired, faults>>

Expire(c) ==
  /\ c \notin expired
  /\ expired' = expired \cup {c}
  /\ UNCHANGED <<record, landed, paid, claims, call, mint, lapsed, faults>>

(* A claim runs out after weeks: no handler works on it any more and, as   *)
(* PIP-05 asks, the challenge is settled by then.                          *)
Stale(c) ==
  /\ record[c].receipt # "pending"
  /\ \A r \in Handlers : call[r].chal = c => call[r].at \in Over

ForgetY(y) ==
  /\ claims[y] # Free
  /\ Stale(claims[y])
  /\ claims' = [claims EXCEPT ![y] = Free]
  /\ UNCHANGED <<record, landed, paid, call, mint, expired, lapsed, faults>>

ForgetPaid(c) ==
  /\ c \in paid \cap expired
  /\ Stale(c)
  /\ paid' = paid \ {c}
  /\ UNCHANGED <<record, landed, claims, call, mint, expired, lapsed, faults>>

-----------------------------------------------------------------------------
Accepting(r) ==
  \/ Mark(r)
  \/ PutAccepted(r)
  \/ \E y \in call[r].left : LookUp(r, y) \/ ClaimY(r, y) \/ LoseY(r, y) \/ Undo(r, y, TRUE)
  \/ Unmark(r, TRUE)

Settling(r) ==
  \/ SettleRead(r) \/ SwapFails(r) \/ Swap(r) \/ SwapSpent(r)
  \/ PutSettled(r) \/ PutSpent(r)

Faulty(r) ==
  \/ Dies(r)
  \/ /\ faults < MaxFaults
     /\ \/ \E y \in call[r].left : Undo(r, y, FALSE)
        \/ Unmark(r, FALSE)

World ==
  \/ \E c \in Challenges : Lands(c) \/ Expire(c)
  \/ \E y \in Coins : PayerSwaps(y) \/ Lapse(y)

Next ==
  \/ \E r \in Requests, c \in Challenges, ys \in SUBSET Coins : Present(r, c, ys)
  \/ \E j \in Jobs, c \in Challenges : Settle(j, c)
  \/ \E r \in Handlers : Accepting(r) \/ Settling(r) \/ Faulty(r)
  \/ World

Spec == Init /\ [][Next]_vars

(* A service that runs so long that claims reach their time-to-live.       *)
LongNext ==
  \/ Next
  \/ \E c \in Challenges : ForgetPaid(c)
  \/ \E y \in Coins : ForgetY(y)

(* A handler that is running goes on; the service schedules a settlement   *)
(* of what is pending (accept-then-settle says it MUST), again if one      *)
(* failed, and its schedule gets round to every challenge.                 *)
FairSpec ==
  /\ Spec
  /\ \A r \in Handlers : WF_vars(Accepting(r) \/ Settling(r))
  /\ \A c \in Challenges :
       SF_vars(record[c].receipt = "pending" /\ \E j \in Jobs : Settle(j, c))

-----------------------------------------------------------------------------
(* The store without transactions still accepts a challenge once, with     *)
(* coins no other challenge has, although two credentials race for the     *)
(* challenge, for coins in opposite orders, or die half way ("A            *)
(* double-paid challenge or a replayed proof cannot slip through").        *)
Contract == INSTANCE AcceptOnce
              WITH accepted <- [c \in Challenges |-> record[c].coins]
AcceptsOnce == Contract!Spec

(* A request that loses gives back what it claimed: when nothing failed    *)
(* and nothing runs, every claim and marker belongs to an acceptance, so   *)
(* neither the coins nor the challenge are stranded.                       *)
NothingStranded ==
  faults = 0 /\ (\A r \in Handlers : call[r].at \in Over) =>
    /\ \A c \in paid : record[c].receipt # "none"
    /\ \A y \in Coins : claims[y] # Free => y \in record[claims[y]].coins

(* In settle-first mode a success is only reported for a challenge whose   *)
(* coins the service has swapped for it, whatever the payer, concurrent    *)
(* settlements, lapsed locks and forgotten claims do in between.           *)
SuccessIsPaid ==
  SettleFirst =>
    \A r \in Requests : At(r, "success") =>
      /\ \A y \in call[r].coins : mint[y] = call[r].chal
      /\ SumProofs(call[r].coins) = Price[call[r].chal]

(* An accepted challenge is settled or known to be double-spent in the     *)
(* end, whatever fails in between, unless a lock lapsed first.             *)
PendingEnds ==
  \A c \in Challenges :
    record[c].receipt = "pending"
      ~> record[c].receipt # "pending" \/ record[c].coins \cap lapsed # {}

(* 'double-spent' blames the payer (service-level recourse): the coins     *)
(* were not swapped for this very challenge.  Expected by settle's         *)
(* "transient mint failure: stay pending, retry later".                    *)
BlameIsDue ==
  \A c \in Challenges : record[c].receipt = "double-spent" =>
    \E y \in record[c].coins : mint[y] # c

=============================================================================
