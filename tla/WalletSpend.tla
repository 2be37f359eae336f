---------------------------- MODULE WalletSpend ----------------------------
(***************************************************************************)
(* The wallet service of an agent: fetchPaid, send, melt and receive over  *)
(* a proof store and the mint, one tool call at a time.  Every coin is     *)
(* worth one, so an amount is a number of coins.  A spend reserves coins,  *)
(* has the mint swap them for fresh ones, and commits what is left; until  *)
(* then the fresh coins are only in the memory of the call.                *)
(***************************************************************************)
EXTENDS Transitions, Integers, FiniteSets

CONSTANTS
  Purse,       \* coins the wallet starts with and can spend anywhere
  Budget,      \* coins locked to a merchant, which the mint swaps for nobody else
  Incoming,    \* coins of tokens others may send to the wallet
  Fee,         \* the mint's melt fee
  MaxSeq,      \* bound on the number of writes
  MaxFaults

VARIABLES
  store,     \* the durable snapshot
  issued,    \* coins the mint has signed
  spent,     \* the mint's spent ledger
  given,     \* coins whose secrets are with somebody else
  recorded,  \* coins the history says were paid
  claimed,   \* coins made by receive
  call,
  used,      \* reservation ids
  erred,     \* whether a request to the mint ever failed or lost its answer
  faults

vars == <<store, issued, spent, given, recorded, claimed, call, used, erred, faults>>

Idle == [at |-> "idle", tool |-> "none", rid |-> "none",
         show |-> {}, want |-> 0, held |-> {}, bundle |-> {}]

Init ==
  /\ store = [EMPTY_SNAPSHOT EXCEPT !.free = Purse \cup (Budget \ Incoming)]
  /\ issued = Purse \cup Budget \cup Incoming
  /\ spent = {}
  /\ given = Incoming
  /\ recorded = {}
  /\ claimed = {}
  /\ call = Idle
  /\ used = {}
  /\ erred = FALSE
  /\ faults = 0

At(step) == call.at = step
Ledger == <<issued, spent>>

spendableOf(proofs) == proofs \ Budget

Ready == At("idle") /\ store.seq < MaxSeq

-----------------------------------------------------------------------------
StartWith(i, tool, at, proofs, want) ==
  /\ Ready
  /\ i \in Ids \ used
  /\ used' = used \cup {i}
  /\ store' = Reserve(store, i, proofs)
  /\ call' = [Idle EXCEPT !.at = at, !.tool = tool, !.rid = i, !.show = proofs,
                          !.want = want, !.held = proofs]
  /\ UNCHANGED <<Ledger, given, recorded, claimed, erred, faults>>

(* fetchPaid reserves everything it might present, budgets included.       *)
StartFetch(i) == StartWith(i, "fetch", "ask", store.free, 0)

StartSend(i, n) ==
  /\ Cardinality(spendableOf(store.free)) >= n
  /\ StartWith(i, "send", "swap", spendableOf(store.free), n)

StartMelt(i, n) ==
  /\ Cardinality(spendableOf(store.free)) >= n + Fee
  /\ StartWith(i, "melt", "swap", spendableOf(store.free), n + Fee)

Moves(at) == call' = [call EXCEPT !.at = at]

(* The resource is free, or the server fails, before any challenge.        *)
Answered ==
  /\ At("ask")
  /\ \E at \in {"commit", "release"} : Moves(at)
  /\ UNCHANGED <<store, Ledger, given, recorded, claimed, used, erred, faults>>

(* A 402 from the merchant of the budget, which can pay exactly.           *)
PayFromBudget(n) ==
  /\ At("ask")
  /\ \E picked \in SUBSET (call.held \cap Budget) :
       /\ Cardinality(picked) = n
       /\ call' = [call EXCEPT !.at = "deliver", !.bundle = picked, !.held = @ \ picked]
  /\ UNCHANGED <<store, Ledger, given, recorded, claimed, used, erred, faults>>

(* Any other 402: the open coins are swapped, or do not suffice.           *)
Challenged(n) ==
  /\ At("ask")
  /\ LET open == spendableOf(call.held) IN
     call' = IF Cardinality(open) < n THEN [call EXCEPT !.at = "release"]
             ELSE [call EXCEPT !.at = "swap", !.show = open, !.want = n]
  /\ UNCHANGED <<store, Ledger, given, recorded, claimed, used, erred, faults>>

-----------------------------------------------------------------------------
Unsigned == Coins \ issued

(* The mint swaps coins for as many fresh ones.                            *)
Mints(ins, outs) ==
  /\ ins \cap spent = {}
  /\ outs \subseteq Unsigned
  /\ Cardinality(outs) = Cardinality(ins)
  /\ spent' = spent \cup ins
  /\ issued' = issued \cup outs

(* Defect: the change is not taken over when the swap is done.             *)
LosesChange(fresh, bundle) == call.held \ call.show

(* What the call still holds: the rest and the change.                     *)
Keeps(fresh, bundle) == (call.held \ call.show) \cup (fresh \ bundle)

Swap(fresh, bundle) ==
  /\ At("swap")
  /\ Mints(call.show, fresh)
  /\ bundle \subseteq fresh
  /\ Cardinality(bundle) = call.want
  /\ call' = [call EXCEPT !.at = CASE call.tool = "fetch" -> "deliver"
                                   [] call.tool = "send" -> "commit"
                                   [] OTHER -> "melt",
                          !.bundle = bundle,
                          !.held = Keeps(fresh, bundle)]
  /\ UNCHANGED <<store, given, recorded, claimed, used, erred, faults>>

(* The credential goes out; the merchant takes it or not, answers or not.  *)
(* An error is caught, and held has changed: it is committed all the same. *)
Deliver(arrives) ==
  /\ At("deliver")
  /\ given' = IF arrives THEN given \cup call.bundle ELSE given
  /\ Moves("commit")
  /\ UNCHANGED <<store, Ledger, recorded, claimed, used, erred, faults>>

(* Quote and melt.                                                         *)
Melt ==
  /\ At("melt")
  /\ call.bundle \cap spent = {}
  /\ spent' = spent \cup call.bundle
  /\ Moves("commit")
  /\ UNCHANGED <<store, issued, given, recorded, claimed, used, erred, faults>>

(* Defect: the inputs go back into the wallet with the change.             *)
CommitsInputs ==
  /\ At("commit")
  /\ store' = Commit(store, call.rid, call.held \cup call.show)
  /\ recorded' = recorded \cup call.bundle
  /\ given' = IF call.tool = "send" THEN given \cup call.bundle ELSE given
  /\ call' = Idle
  /\ UNCHANGED <<Ledger, claimed, used, erred, faults>>

(* Commit what is left, with a history entry; send then returns the token. *)
CommitSpend ==
  /\ At("commit")
  /\ store' = Commit(store, call.rid, call.held)
  /\ recorded' = recorded \cup call.bundle
  /\ given' = IF call.tool = "send" THEN given \cup call.bundle ELSE given
  /\ call' = Idle
  /\ UNCHANGED <<Ledger, claimed, used, erred, faults>>

(* The spend threw, and nothing is held but what was reserved.             *)
ReleaseSpend ==
  /\ At("release")
  /\ store' = Release(store, call.rid)
  /\ call' = Idle
  /\ UNCHANGED <<Ledger, given, recorded, claimed, used, erred, faults>>

-----------------------------------------------------------------------------
(* receive: claim a token at the mint, then add the fresh coins ...        *)
Receive(ins, fresh) ==
  /\ Ready
  /\ ins \subseteq Incoming \ Budget /\ ins # {}
  /\ Mints(ins, fresh)
  /\ claimed' = claimed \cup fresh
  /\ call' = [Idle EXCEPT !.at = "add", !.held = fresh]
  /\ UNCHANGED <<store, given, recorded, used, erred, faults>>

(* ... or hold a budget as it is, once the mint says it is unspent.        *)
HoldBudget(proofs) ==
  /\ Ready
  /\ proofs \subseteq Incoming \cap Budget /\ proofs # {}
  /\ proofs \cap spent = {}
  /\ call' = [Idle EXCEPT !.at = "add", !.held = proofs]
  /\ UNCHANGED <<store, Ledger, given, recorded, claimed, used, erred, faults>>

Add ==
  /\ At("add")
  /\ store' = AddTo(store, call.held)
  /\ call' = Idle
  /\ UNCHANGED <<Ledger, given, recorded, claimed, used, erred, faults>>

-----------------------------------------------------------------------------
Fault == faults < MaxFaults /\ faults' = faults + 1

(* The process dies, or a write of the store throws.                       *)
Crash ==
  /\ call # Idle
  /\ Fault
  /\ call' = Idle
  /\ UNCHANGED <<store, Ledger, given, recorded, claimed, used, erred>>

(* The mint refuses, or its answer is lost after it did the work: wallet   *)
(* throws, and both withSpend and fetchPaid release the reservation.       *)
SwapThrows ==
  /\ At("swap")
  /\ Fault
  /\ \/ UNCHANGED Ledger
     \/ \E fresh \in SUBSET Unsigned : Mints(call.show, fresh)
  /\ erred' = TRUE
  /\ Moves("release")
  /\ UNCHANGED <<store, given, recorded, claimed, used>>

MeltThrows ==
  /\ At("melt")
  /\ Fault
  /\ spent' \in {spent, spent \cup call.bundle}
  /\ erred' = TRUE
  /\ Moves("release")
  /\ UNCHANGED <<store, issued, given, recorded, claimed, used>>

(* Whoever else has a coin may spend it.                                   *)
OthersSpend(y) ==
  /\ y \in given \ spent
  /\ spent' = spent \cup {y}
  /\ UNCHANGED <<store, issued, given, recorded, claimed, call, used, erred, faults>>

Amounts == 1..Cardinality(Coins)

Next ==
  \/ \E i \in Ids : \/ StartFetch(i)
                    \/ \E n \in Amounts : StartSend(i, n) \/ StartMelt(i, n)
  \/ \E n \in Amounts : PayFromBudget(n) \/ Challenged(n)
  \/ Answered
  \/ \E fresh \in SUBSET Unsigned :
       \/ \E bundle \in SUBSET fresh : Swap(fresh, bundle)
       \/ \E ins \in SUBSET Incoming : Receive(ins, fresh)
  \/ \E arrives \in BOOLEAN : Deliver(arrives)
  \/ \E proofs \in SUBSET Incoming : HoldBudget(proofs)
  \/ Melt \/ CommitSpend \/ ReleaseSpend \/ Add
  \/ Crash \/ SwapThrows \/ MeltThrows
  \/ \E y \in Coins : OthersSpend(y)

Spec == Init /\ [][Next]_vars

-----------------------------------------------------------------------------
TypeOK ==
  /\ Partition(store) /\ store.free \subseteq Coins
  /\ spent \subseteq issued /\ issued \subseteq Coins
  /\ {call.held, call.show, call.bundle} \subseteq SUBSET issued
  /\ call.bundle \cap call.held = {}
  /\ call.rid \in used \cup {"none"}

(* What the store calls spendable, the mint has not seen spent: "a spend   *)
(* that reached the mint and then errored should be left reserved".  Only  *)
(* a budget held as it came is also with the sender.                       *)
OffersUnspent == (store.free \ Incoming) \cap spent = {}

(* So it is while the mint answers every request, whenever a call dies.    *)
FreeIsUnspent == ~erred => OffersUnspent

(* What was paid or handed out never becomes spendable again, whichever    *)
(* request fails: the wallet does not offer a coin twice.  A budget token  *)
(* received once more before the merchant settles it is left out: receive  *)
(* asks the mint, not the history, and so takes it back.                   *)
PaidIsGone == store.free \cap ((recorded \cup given) \ Incoming) = {}

(* A coin the wallet owned, or got for one, is in the store, with the call *)
(* that is running, with whom it was given to, or in the history as paid;  *)
(* if not, a call died and left its reservation: "a crash mid-payment      *)
(* leaves a reservation to reconcile, never a silent loss".                *)
NoSilentLoss ==
  ~erred => \A y \in issued \ (spent \cup given \cup recorded \cup claimed) :
    \/ y \in Held(store) \cup call.held \cup call.bundle
    \/ store.live \ {call.rid} # {}
=============================================================================
