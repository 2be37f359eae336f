---------------------------- MODULE SupplyReport ----------------------------
(***************************************************************************)
(* Proof of liabilities: the scheduled worker and the operator's script    *)
(* publish the outstanding supply to the vault, and the status page holds  *)
(* it against the vault's balance.  Each of them computes the supply with  *)
(* two statements outside a transaction and reads the balance later, or    *)
(* takes it from a cache, while deposits, issues, swaps and melts go on.   *)
(*                                                                         *)
(* Coins are worth one.  The books count: what was deposited, minted from  *)
(* quotes, swapped, burned by melts, and paid out for what was burned.     *)
(***************************************************************************)
EXTENDS Integers

CONSTANTS Publishers,  \* the worker's schedule, the script
          Pages,       \* requests for the status page
          MaxDeposits, \* bound on deposits
          MaxSwaps     \* bound on swaps

VARIABLES
  deposits, minted, swaps, burned, paid,
  cached,    \* the balance chainStatus remembers, None without one
  stale,     \* the balance changed since it was read, or was not read at all
  job,       \* job[r]: the await of a reader and what it has read
  attested   \* the supply the vault was told last

vars  == <<deposits, minted, swaps, burned, paid, cached, stale, job, attested>>
books == <<deposits, minted, swaps, burned, paid>>

Readers == Publishers \cup Pages
None    == -1

Issued  == minted + swaps   \* sum over blind_signatures
(* Defect: what swaps spend is not counted.                                *)
MeltedOnly == burned

Spent   == burned + swaps   \* sum over spent_secrets
Supply  == minted - burned
Balance == deposits - paid

(* low and moved are for the properties: the supply when the first sum was *)
(* read, or less if it fell until the second; whether the balance changed  *)
(* since the reader began, or could not be read.                           *)
Rest == [at |-> "rest", issued |-> 0, spent |-> 0, low |-> 0, balance |-> None,
         moved |-> FALSE]
Jobs == [at : {"rest", "issued", "spent", "balance", "send", "alarm"},
         issued : Nat, spent : Nat, low : Int, balance : Int, moved : BOOLEAN]

Resting(r) == job[r].at \in {"rest", "alarm"}

TypeOK ==
  /\ deposits \in Nat /\ minted \in Nat /\ swaps \in Nat /\ burned \in Nat /\ paid \in Nat
  /\ paid <= burned /\ burned <= minted /\ minted <= deposits
  /\ cached \in Int /\ attested \in Int
  /\ stale \in BOOLEAN
  /\ job \in [Readers -> Jobs]

Init ==
  /\ deposits = 0 /\ minted = 0 /\ swaps = 0 /\ burned = 0 /\ paid = 0
  /\ cached = None /\ stale = FALSE
  /\ job = [r \in Readers |-> Rest]
  /\ attested = None
-----------------------------------------------------------------------------
(* The mint at work.                                                       *)
BalanceMoves ==
  /\ stale' = TRUE
  /\ job' = [r \in Readers |-> [job[r] EXCEPT !.moved = @ \/ ~Resting(r)]]

Deposit ==
  /\ deposits < MaxDeposits
  /\ deposits' = deposits + 1
  /\ BalanceMoves
  /\ UNCHANGED <<minted, swaps, burned, paid, cached, attested>>

Issue ==
  /\ minted < deposits
  /\ minted' = minted + 1
  /\ UNCHANGED <<deposits, swaps, burned, paid, cached, stale, job, attested>>

Swap ==
  /\ Supply > 0 /\ swaps < MaxSwaps
  /\ swaps' = swaps + 1
  /\ UNCHANGED <<deposits, minted, burned, paid, cached, stale, job, attested>>

Burn ==
  /\ Supply > 0
  /\ burned' = burned + 1
  /\ UNCHANGED <<deposits, minted, swaps, paid, cached, stale, job, attested>>

Pay ==
  /\ paid < burned
  /\ paid' = paid + 1
  /\ BalanceMoves
  /\ UNCHANGED <<deposits, minted, swaps, burned, cached, attested>>
-----------------------------------------------------------------------------
Goes(r, j) == job' = [job EXCEPT ![r] = j]

(* isPublicationDue says yes, or a page is asked for.                      *)
Begin(r) ==
  /\ Resting(r)
  /\ Goes(r, [Rest EXCEPT !.at = "issued"])
  /\ UNCHANGED <<books, cached, stale, attested>>

(* computeOutstanding, statement by statement.                             *)
ReadIssued(r) ==
  /\ job[r].at = "issued"
  /\ Goes(r, [job[r] EXCEPT !.at = "spent", !.issued = Issued, !.low = Supply])
  /\ UNCHANGED <<books, cached, stale, attested>>

ReadSpent(r) ==
  /\ job[r].at = "spent"
  /\ Goes(r, [job[r] EXCEPT !.at = "balance", !.spent = Spent,
                            !.low = IF Supply < @ THEN Supply ELSE @])
  /\ UNCHANGED <<books, cached, stale, attested>>

Alarm(r) == Goes(r, [Rest EXCEPT !.at = "alarm", !.moved = job[r].moved])

Outstanding(j) == j.issued - j.spent

(* A publisher reads the balance after the supply.  Below the supply it    *)
(* reports a violation and publishes nothing.                              *)
Compare(r) ==
  /\ r \in Publishers /\ job[r].at = "balance"
  /\ IF Balance < Outstanding(job[r]) THEN Alarm(r)
     ELSE Goes(r, [job[r] EXCEPT !.at = "send"])
  /\ UNCHANGED <<books, cached, stale, attested>>

(* publishOutstandingSupply takes an unsigned number: a negative supply is *)
(* refused while it is encoded.                                            *)
Publish(r) ==
  /\ job[r].at = "send"
  /\ attested' = IF Outstanding(job[r]) >= 0 THEN Outstanding(job[r]) ELSE attested
  /\ Goes(r, Rest)
  /\ UNCHANGED <<books, cached, stale>>

(* The page reads the chain beside the books, or finds a status of the     *)
(* last seconds.  A balance that could not be read is shown, and           *)
(* remembered, as zero.                                                    *)
ReadsChain(r) == r \in Pages /\ job[r].at \in {"issued", "spent", "balance"}
                   /\ job[r].balance = None

ChainStatus(r, failed) ==
  /\ ReadsChain(r) /\ cached = None
  /\ cached' = IF failed THEN 0 ELSE Balance
  /\ stale' = failed
  /\ Goes(r, [job[r] EXCEPT !.balance = cached', !.moved = @ \/ failed])
  /\ UNCHANGED <<books, attested>>

StatusCached(r) ==
  /\ ReadsChain(r) /\ cached # None
  /\ Goes(r, [job[r] EXCEPT !.balance = cached, !.moved = @ \/ stale])
  /\ UNCHANGED <<books, cached, stale, attested>>

CacheExpires ==
  /\ cached # None
  /\ cached' = None
  /\ UNCHANGED <<books, stale, job, attested>>

(* The check "backing" of the page: balance >= outstanding.                *)
Show(r) ==
  /\ r \in Pages /\ job[r].at = "balance" /\ job[r].balance # None
  /\ IF job[r].balance < Outstanding(job[r]) THEN Alarm(r) ELSE Goes(r, Rest)
  /\ UNCHANGED <<books, cached, stale, attested>>

(* An RPC or database error ends the job.                                  *)
Fails(r) ==
  /\ ~Resting(r)
  /\ Goes(r, Rest)
  /\ UNCHANGED <<books, cached, stale, attested>>

Next ==
  \/ Deposit \/ Issue \/ Swap \/ Burn \/ Pay \/ CacheExpires
  \/ \E r \in Readers :
       \/ Begin(r) \/ ReadIssued(r) \/ ReadSpent(r)
       \/ Compare(r) \/ Publish(r) \/ StatusCached(r) \/ Show(r) \/ Fails(r)
       \/ \E failed \in BOOLEAN : ChainStatus(r, failed)

Spec == Init /\ [][Next]_vars
-----------------------------------------------------------------------------
(* The two sums of computeOutstanding (solvency.ts:13,17) may straddle     *)
(* swaps and melts; what they make of the supply then errs on one side     *)
(* only: it is never more than circulated at the first or at the second.   *)
ReportErrsLow ==
  \A r \in Readers : job[r].at \in {"balance", "send"} => Outstanding(job[r]) <= job[r].low

(* A solvent mint is not called insolvent (worker.ts:121, status.ts:48)    *)
(* because of swaps, issues or burns that ran beside the readings, but     *)
(* only when the balance itself changed while they were taken, or since    *)
(* the remembered one was, or when the page could not read it and took it  *)
(* for zero (vault-tempo.ts:266).                                          *)
AlarmNeedsMove ==
  \A r \in Readers : job[r].at = "alarm" => job[r].moved
=============================================================================
