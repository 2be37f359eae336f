-------------------------------- MODULE Mint --------------------------------
(***************************************************************************)
(* The mint server (packages/mint): quotes, issuance, swap and melt, as    *)
(* concurrent HTTP handlers over one database and one vault contract.      *)
(*                                                                         *)
(* A handler runs from one await to the next; between two awaits every     *)
(* other handler, the chain, the clock and a restart may run.  A database  *)
(* transaction is one step: that is what PGlite (one connection) and the   *)
(* Durable Object's storage.transaction give.  Module PgLedger opens the    *)
(* transactions up for node-postgres.  A handler that answers with an      *)
(* error before it changed anything is not a step.                         *)
(***************************************************************************)
EXTENDS Money

CONSTANTS
  Handlers,   \* requests in progress at one time
  Cap,        \* config.maxOutstanding, 0 for no cap
  MaxAmount,  \* config.maxMintAmount
  Fee,        \* config.meltFee
  MaxFaults   \* bound on crashes, errors of a statement or an RPC, and lost answers

ASSUME ConfigAssumption ==
  /\ Cap \in Nat /\ Fee \in Nat /\ MaxFaults \in Nat
  /\ MaxAmount \in 1..MaxDeposit

VARIABLES
  quote,     \* mint_quotes: state and amount
  issued,    \* issued[q]: rows of blind_signatures whose quote_id is q
  signed,    \* all rows of blind_signatures
  spent,     \* spent_secrets
  melt,      \* melt_quotes: state, amount and inputs_hash (as the set hashed)
  expired,   \* quotes and melts whose expires_at has passed
  deposit,   \* deposits the oracle sees for a quote's memo
  balance,   \* what the vault contract holds
  paid,      \* the vault's meltPaid flags
  mempool,   \* payouts sent by a handler that no longer waits for them
  held,      \* coins whose signature reached a client
  call,      \* call[h]: where handler h is and its local variables
  faults

tables == <<quote, issued, signed, spent, melt>>
chain  == <<deposit, balance, paid, mempool>>
vars   == <<tables, expired, chain, held, call, faults>>

-----------------------------------------------------------------------------
(* A handler's program counter with the locals it still needs.             *)

Idle == [at |-> "idle"]

QuoteCalls == [at: {"insert"}, quote: Quotes, amount: 1..MaxAmount]
MintCalls  == [at: {"poll", "flip", "sign"}, quote: Quotes, outs: SUBSET Tokens]
MeltCalls  == [at: {"consume", "ask", "settle", "submit", "wait", "landed", "owe"},
               melt: Melts, ins: SUBSET Tokens]
Replies    == [at: {"reply"}, sigs: SUBSET Tokens]

Calls == {Idle} \cup QuoteCalls \cup MintCalls \cup MeltCalls \cup Replies

QuoteRows == [state: {"NONE", "UNPAID", "PAID", "ISSUED"}, amount: 0..MaxAmount]
MeltRows  == [state: {"NONE", "UNPAID", "PENDING", "OWED", "PAID"},
              amount: 0..MaxAmount, inputs: SUBSET Tokens]

(* Handler h stops at the next await with these locals, or is done.         *)
Goto(h, c) == call' = [call EXCEPT ![h] = c]
Done(h)    == Goto(h, Idle)

Move(h, place) == Goto(h, [call[h] EXCEPT !.at = place])

Fault == faults < MaxFaults /\ faults' = faults + 1

-----------------------------------------------------------------------------
(* The ledger's guards (signing.ts, solvency.ts).                          *)

(* signAndRecord: the PRIMARY KEY on b refuses a blinded message that was  *)
(* signed before.                                                          *)
ReusableOutputs(outs) == TRUE
FreshOutputs(outs) == outs \cap signed = {}

(* spendInputs: the PRIMARY KEY on y refuses a secret that was spent.       *)
RespendableInputs(ins) == TRUE
Unspent(ins) == ins \cap spent = {}

(* verifyInputs: a proof verifies when the mint signed it and the answer    *)
(* reached the client that unblinds it.                                    *)
ValidInputs(ins) == ins # {} /\ ins \subseteq held

(* computeOutstanding, computeReserved.                                    *)
Outstanding == Worth[signed] - Worth[spent]
Reserved == Total[[q \in Quotes |->
              IF quote[q].state \in {"UNPAID", "PAID"} /\ q \notin expired
              THEN quote[q].amount ELSE 0]]

CapIgnoresSupply(n) == Cap = 0 \/ n <= Cap
UnderCap(n) == Cap = 0 \/ Outstanding + n <= Cap

-----------------------------------------------------------------------------
(* POST /v1/mint/quote: the cap is checked, then the row is inserted.       *)

QuoteCheck(h, q, n) ==
  /\ call[h] = Idle
  /\ quote[q].state = "NONE"
  /\ \A g \in Handlers : call[g].at = "insert" => call[g].quote # q
  /\ UnderCap(Reserved + n)
  /\ Goto(h, [at |-> "insert", quote |-> q, amount |-> n])
  /\ UNCHANGED <<tables, expired, chain, held, faults>>

QuoteInsert(h) ==
  /\ call[h].at = "insert"
  /\ quote' = [quote EXCEPT ![call[h].quote] =
                 [state |-> "UNPAID", amount |-> call[h].amount]]
  /\ Done(h)
  /\ UNCHANGED <<issued, signed, spent, melt, expired, chain, held, faults>>

(* GET /v1/mint/quote/:id: an unpaid quote polls the oracle, expired or not. *)
GetQuote(h, q) ==
  /\ call[h] = Idle
  /\ quote[q].state = "UNPAID"
  /\ Goto(h, [at |-> "poll", quote |-> q, outs |-> {}])
  /\ UNCHANGED <<tables, expired, chain, held, faults>>

(* loadIssuedSignatures: an issued quote answers its own outputs again.     *)
NeverReplays(q, outs) == FALSE
MayReplay(q, outs) == quote[q].state = "ISSUED" /\ outs = issued[q]

(* POST /v1/mint up to its first await after fetchQuote.                    *)
PostMint(h, q, outs) ==
  /\ call[h] = Idle
  /\ outs # {}
  /\ \/ /\ MayReplay(q, outs)
        /\ Goto(h, [at |-> "reply", sigs |-> outs])
     \/ /\ quote[q].state = "UNPAID"
        /\ q \notin expired
        /\ Goto(h, [at |-> "poll", quote |-> q, outs |-> outs])
     \/ /\ quote[q].state = "PAID"
        /\ Worth[outs] = quote[q].amount
        /\ Goto(h, [at |-> "sign", quote |-> q, outs |-> outs])
  /\ UNCHANGED <<tables, expired, chain, held, faults>>

(* pollDeposit: ask the oracle; a covered quote goes on to be flipped.      *)
AnyDepositCovers(q) == deposit[q] > 0
DepositCovers(q) == deposit[q] >= quote[q].amount

Poll(h) ==
  /\ call[h].at = "poll"
  /\ IF DepositCovers(call[h].quote) THEN Move(h, "flip") ELSE Done(h)
  /\ UNCHANGED <<tables, expired, chain, held, faults>>

(* pollDeposit's UPDATE ... WHERE state = 'UNPAID', then the amount check.   *)
FlipAlways(h) ==
  LET q == call[h].quote IN
  /\ call[h].at = "flip"
  /\ quote' = [quote EXCEPT ![q].state = "PAID"]
  /\ IF call[h].outs # {} /\ Worth[call[h].outs] = quote[q].amount
       THEN Move(h, "sign") ELSE Done(h)
  /\ UNCHANGED <<issued, signed, spent, melt, expired, chain, held, faults>>

Flip(h) ==
  LET q == call[h].quote IN
  /\ call[h].at = "flip"
  /\ quote' = [quote EXCEPT ![q].state = IF @ = "UNPAID" THEN "PAID" ELSE @]
  /\ IF call[h].outs # {} /\ Worth[call[h].outs] = quote[q].amount
       THEN Move(h, "sign") ELSE Done(h)
  /\ UNCHANGED <<issued, signed, spent, melt, expired, chain, held, faults>>

(* The issuing transaction: replay an issued quote, or check the cap, sign  *)
(* every output and mark the quote issued; anything else rolls back.        *)
Issue(h, q, outs) ==
  /\ quote[q].state = "PAID"
  /\ UnderCap(quote[q].amount)
  /\ FreshOutputs(outs)
  /\ signed' = signed \cup outs
  /\ issued' = [issued EXCEPT ![q] = outs]
  /\ quote' = [quote EXCEPT ![q].state = "ISSUED"]
  /\ Goto(h, [at |-> "reply", sigs |-> outs])

Replay(h, q, outs) ==
  /\ quote[q].state = "ISSUED"
  /\ IF MayReplay(q, outs) THEN Goto(h, [at |-> "reply", sigs |-> outs]) ELSE Done(h)
  /\ UNCHANGED <<quote, issued, signed>>

Refuse(h, q, outs) ==
  /\ quote[q].state = "PAID"
  /\ ~(UnderCap(quote[q].amount) /\ FreshOutputs(outs))
  /\ Done(h)
  /\ UNCHANGED <<quote, issued, signed>>

Sign(h) ==
  LET q == call[h].quote
      outs == call[h].outs
  IN
  /\ call[h].at = "sign"
  /\ Issue(h, q, outs) \/ Replay(h, q, outs) \/ Refuse(h, q, outs)
  /\ UNCHANGED <<spent, melt, expired, chain, held, faults>>

(* The response reaches the client, which unblinds the signatures.          *)
Reply(h) ==
  /\ call[h].at = "reply"
  /\ held' = held \cup call[h].sigs
  /\ Done(h)
  /\ UNCHANGED <<tables, expired, chain, faults>>

-----------------------------------------------------------------------------
(* POST /v1/swap: one transaction spends the inputs and signs the outputs.  *)

Swap(h, ins, outs) ==
  /\ call[h] = Idle
  /\ ValidInputs(ins)
  /\ outs # {}
  /\ Worth[ins] = Worth[outs]
  /\ Unspent(ins)
  /\ FreshOutputs(outs)
  /\ spent' = spent \cup ins
  /\ signed' = signed \cup outs
  /\ Goto(h, [at |-> "reply", sigs |-> outs])
  /\ UNCHANGED <<quote, issued, melt, expired, chain, held, faults>>

-----------------------------------------------------------------------------
(* POST /v1/melt/quote.                                                     *)
MeltQuote(m, n) ==
  /\ melt[m].state = "NONE"
  /\ melt' = [melt EXCEPT ![m] = [state |-> "UNPAID", amount |-> n, inputs |-> {}]]
  /\ UNCHANGED <<quote, issued, signed, spent, expired, chain, held, call, faults>>

(* POST /v1/melt up to its first await after fetchMelt.  Only the recorded  *)
(* inputs may retry a melt that is PENDING or OWED.                         *)
OnlyOwedMayRetry(m, ins) == melt[m].state = "OWED" /\ melt[m].inputs = ins
MayRetry(m, ins) ==
  /\ melt[m].state \in {"PENDING", "OWED"}
  /\ melt[m].inputs = ins

FeeNotPaid(m, ins) == Worth[ins] = melt[m].amount
PaysFor(m, ins) == Worth[ins] = melt[m].amount + Fee

PostMelt(h, m, ins) ==
  /\ call[h] = Idle
  /\ ValidInputs(ins)
  /\ PaysFor(m, ins)
  /\ \/ /\ melt[m].state = "UNPAID"
        /\ m \notin expired
        /\ Goto(h, [at |-> "consume", melt |-> m, ins |-> ins])
     \/ /\ MayRetry(m, ins)
        /\ Goto(h, [at |-> "ask", melt |-> m, ins |-> ins])
  /\ UNCHANGED <<tables, expired, chain, held, faults>>

(* Insert-before-pay: the transaction that burns the inputs and records the *)
(* debt.  Its row lock lets one request through, the others answer 409.     *)
AlwaysOpen(m) == TRUE
StillUnpaid(m) == melt[m].state = "UNPAID"

Consume(h) ==
  LET m == call[h].melt
      ins == call[h].ins
  IN
  /\ call[h].at = "consume"
  /\ IF StillUnpaid(m) /\ Unspent(ins)
       THEN /\ spent' = spent \cup ins
            /\ melt' = [melt EXCEPT ![m].state = "PENDING", ![m].inputs = ins]
            /\ Move(h, "submit")
       ELSE Done(h) /\ UNCHANGED <<spent, melt>>
  /\ UNCHANGED <<quote, issued, signed, expired, chain, held, faults>>

(* executor.isPaid: the vault's flag decides between settle and pay; an RPC *)
(* error counts as "not paid".                                             *)
Ask(h) ==
  /\ call[h].at = "ask"
  /\ Move(h, IF call[h].melt \in paid THEN "settle" ELSE "submit")
  /\ UNCHANGED <<tables, expired, chain, held, faults>>

AskFails(h) ==
  /\ call[h].at = "ask"
  /\ Fault
  /\ Move(h, "submit")
  /\ UNCHANGED <<tables, expired, chain, held>>

SetMelt(h, state) ==
  /\ melt' = [melt EXCEPT ![call[h].melt].state = state]
  /\ Done(h)
  /\ UNCHANGED <<quote, issued, signed, spent, expired, chain, held, faults>>

Settle(h) == call[h].at = "settle" /\ SetMelt(h, "PAID")

(* TempoPayout.execute: send the transaction, then wait for its receipt.    *)
Submit(h) ==
  /\ call[h].at = "submit"
  /\ Move(h, "wait")
  /\ UNCHANGED <<tables, expired, chain, held, faults>>

(* writeContract throws; the transaction may have gone out all the same.    *)
SubmitFails(h) ==
  /\ call[h].at = "submit"
  /\ Fault
  /\ mempool' \in {mempool, mempool \cup {call[h].melt}}
  /\ Move(h, "owe")
  /\ UNCHANGED <<tables, expired, deposit, balance, paid, held>>

(* The vault runs ecashMelt: it pays a melt id once and reverts after that. *)
VaultPays(m) ==
  /\ m \notin paid
  /\ paid' = paid \cup {m}
  /\ balance' = balance - melt[m].amount

PayoutRuns(h) ==
  /\ call[h].at = "wait"
  /\ \/ VaultPays(call[h].melt) /\ Move(h, "landed")
     \/ call[h].melt \in paid /\ Move(h, "owe") /\ UNCHANGED <<balance, paid>>
  /\ UNCHANGED <<tables, expired, deposit, mempool, held, faults>>

(* The receipt does not come within 60 s; the transaction is still out.     *)
ReceiptTimesOut(h) ==
  /\ call[h].at = "wait"
  /\ Fault
  /\ mempool' = mempool \cup {call[h].melt}
  /\ Move(h, "owe")
  /\ UNCHANGED <<tables, expired, deposit, balance, paid, held>>

(* A payout nobody waits for runs late, or never.                           *)
LandsLate(m) ==
  /\ m \in mempool
  /\ mempool' = mempool \ {m}
  /\ VaultPays(m) \/ UNCHANGED <<balance, paid>>
  /\ UNCHANGED <<tables, expired, deposit, held, call, faults>>

Record(h) == call[h].at = "landed" /\ SetMelt(h, "PAID")

(* The receipt is lost, or the UPDATE to PAID throws inside the same try.   *)
RecordFails(h) ==
  /\ call[h].at = "landed"
  /\ Fault
  /\ Move(h, "owe")
  /\ UNCHANGED <<tables, expired, chain, held>>

(* The catch clause: UPDATE ... SET state = 'OWED', whatever the state is.   *)
OweAsPaid(h) == call[h].at = "owe" /\ SetMelt(h, "PAID")
Owe(h) == call[h].at = "owe" /\ SetMelt(h, "OWED")

(* A statement or the oracle throws, or the response is lost: the request   *)
(* is over and what it committed stays.                                     *)
Fails(h) ==
  /\ call[h].at \in {"insert", "poll", "flip", "sign", "reply", "consume", "settle", "owe"}
  /\ Fault
  /\ Done(h)
  /\ UNCHANGED <<tables, expired, chain, held>>

-----------------------------------------------------------------------------
(* The environment: deposits on chain, time, and restarts of the server.    *)

Deposit(q, n) ==
  /\ quote[q].state # "NONE"
  /\ deposit[q] + n <= MaxDeposit
  /\ deposit' = [deposit EXCEPT ![q] = @ + n]
  /\ balance' = balance + n
  /\ UNCHANGED <<tables, expired, paid, mempool, held, call, faults>>

Expire(id) ==
  /\ \/ id \in Quotes /\ quote[id].state \in {"UNPAID", "PAID"}
     \/ id \in Melts /\ melt[id].state = "UNPAID"
  /\ id \notin expired
  /\ expired' = expired \cup {id}
  /\ UNCHANGED <<tables, chain, held, call, faults>>

(* The process dies: every handler and every response in progress is gone;  *)
(* the database and the transactions already sent remain.                   *)
Crash ==
  /\ \E h \in Handlers : call[h] # Idle
  /\ Fault
  /\ call' = [h \in Handlers |-> Idle]
  /\ mempool' = mempool \cup {call[h].melt : h \in {g \in Handlers : call[g].at = "wait"}}
  /\ UNCHANGED <<tables, expired, deposit, balance, paid, held>>

-----------------------------------------------------------------------------

Init ==
  /\ quote = [q \in Quotes |-> [state |-> "NONE", amount |-> 0]]
  /\ issued = [q \in Quotes |-> {}]
  /\ signed = {}
  /\ spent = {}
  /\ melt = [m \in Melts |-> [state |-> "NONE", amount |-> 0, inputs |-> {}]]
  /\ expired = {}
  /\ deposit = [q \in Quotes |-> 0]
  /\ balance = 0
  /\ paid = {}
  /\ mempool = {}
  /\ held = {}
  /\ call = [h \in Handlers |-> Idle]
  /\ faults = 0

(* The next await of a handler in progress, and the ways it can go wrong.   *)
Continue(h) ==
  \/ QuoteInsert(h) \/ Poll(h) \/ Flip(h) \/ Sign(h) \/ Reply(h)
  \/ Consume(h) \/ Ask(h) \/ Settle(h) \/ Submit(h) \/ PayoutRuns(h)
  \/ Record(h) \/ Owe(h)

GoesWrong(h) ==
  AskFails(h) \/ SubmitFails(h) \/ ReceiptTimesOut(h) \/ RecordFails(h) \/ Fails(h)

Request(h) ==
  \/ \E q \in Quotes, n \in 1..MaxAmount : QuoteCheck(h, q, n)
  \/ \E q \in Quotes : GetQuote(h, q)
  \/ \E q \in Quotes, outs \in SUBSET Tokens : PostMint(h, q, outs)
  \/ \E ins, outs \in SUBSET Tokens : Swap(h, ins, outs)
  \/ \E m \in Melts, ins \in SUBSET Tokens : PostMelt(h, m, ins)

Environment ==
  \/ \E m \in Melts, n \in 1..MaxAmount : MeltQuote(m, n)
  \/ \E q \in Quotes, n \in 1..MaxDeposit : Deposit(q, n)
  \/ \E id \in Quotes \cup Melts : Expire(id)
  \/ \E m \in Melts : LandsLate(m)
  \/ Crash

Next ==
  \/ \E h \in Handlers : Request(h) \/ Continue(h) \/ GoesWrong(h)
  \/ Environment

Spec == Init /\ [][Next]_vars

-----------------------------------------------------------------------------
(* Fairness.  Node runs every pending continuation and the chain runs a     *)
(* transaction it accepted; requests, deposits and faults are owed to       *)
(* nobody.  The clients whose coins are at stake do what the error texts    *)
(* tell them: repeat a melt with its inputs until it is PAID, repeat a mint *)
(* with its outputs until they hold the signatures.  Their requests find a  *)
(* free handler whenever one is free again and again (strong fairness): the *)
(* server has no limit on handlers, the model has.                          *)
RetryMelt(m) ==
  \E h \in Handlers : MayRetry(m, melt[m].inputs) /\ PostMelt(h, m, melt[m].inputs)

RepeatMint(q) ==
  /\ quote[q].state = "ISSUED" /\ ~(issued[q] \subseteq held)
  /\ \E h \in Handlers : PostMint(h, q, issued[q])

Fairness ==
  /\ \A h \in Handlers : WF_vars(Continue(h))
  /\ \A m \in Melts : SF_vars(RetryMelt(m))
  /\ \A q \in Quotes : SF_vars(RepeatMint(q))

FairSpec == Spec /\ Fairness

-----------------------------------------------------------------------------
TypeOK ==
  /\ quote \in [Quotes -> QuoteRows]
  /\ issued \in [Quotes -> SUBSET Tokens]
  /\ signed \subseteq Tokens
  /\ spent \subseteq Tokens
  /\ melt \in [Melts -> MeltRows]
  /\ expired \subseteq Quotes \cup Melts
  /\ deposit \in PerQuote
  /\ balance \in Int
  /\ paid \subseteq Melts
  /\ mempool \subseteq Melts
  /\ held \subseteq Tokens
  /\ call \in [Handlers -> Calls]
  /\ faults \in 0..MaxFaults

Consumed(m) == melt[m].state \in {"PENDING", "OWED", "PAID"}

(* The mint implements Custody: the chain's word counts for what was paid,  *)
(* the tables' for everything else.                                         *)
C == INSTANCE Custody WITH
       vault <- balance,
       funded <- deposit,
       minted <- {q \in Quotes : quote[q].state = "ISSUED"},
       live <- signed \ spent,
       dead <- spent,
       claim <- [m \in Melts |-> melt[m].inputs],
       settled <- paid

Custodial == C!Spec

(* SECURITY.md:22: token supply, payouts due and deposits not minted from    *)
(* never exceed what the vault holds, whatever handlers race, whatever      *)
(* answer is lost and wherever the server restarts.                         *)
Solvent == C!Solvent

(* melt.ts:95: the proofs are consumed and the debt recorded before any     *)
(* chain call, so a payout in any stage belongs to a melt whose recorded    *)
(* inputs are spent and cover it.                                           *)
PayoutIsOwed ==
  \A m \in Melts :
    \/ m \in paid \cup mempool
    \/ \E h \in Handlers : call[h].at \in {"submit", "wait", "landed"} /\ call[h].melt = m
    => /\ Consumed(m)
       /\ melt[m].inputs # {} /\ melt[m].inputs \subseteq spent
       /\ Worth[melt[m].inputs] = melt[m].amount + Fee

(* payout.ts:10: a melt the mint calls PAID did land on chain.              *)
PaidIsTrue == \A m \in Melts : melt[m].state = "PAID" => m \in paid

(* mint.ts:140: the supply never passes the cap, although quotes are        *)
(* admitted against a check that is out of date when the row is inserted.   *)
CapHolds == Cap = 0 \/ Outstanding <= Cap

(* packages/mint/README.md:7: a quote's signatures are worth its amount, a  *)
(* deposit covers them, and no coin is issued under two quotes.             *)
IssuedIsBacked ==
  \A q \in Quotes :
    issued[q] # {} =>
      /\ Worth[issued[q]] = quote[q].amount
      /\ quote[q].amount <= deposit[q]
      /\ \A r \in Quotes \ {q} : issued[q] \cap issued[r] = {}

(* signing.ts:112: what a quote issued never changes, so a replay returns   *)
(* the signatures of the first answer and the quote makes money once.       *)
KeepsIssued ==
  \A q \in Quotes : issued[q] # {} =>
    issued'[q] = issued[q] /\ quote'[q].state = "ISSUED"

IssuedOnce == [][KeepsIssued]_vars

(* melt.ts:107: once a melt has consumed inputs, no later request replaces  *)
(* them and the melt is never open again.                                   *)
KeepsInputs ==
  \A m \in Melts : Consumed(m) =>
    melt'[m].inputs = melt[m].inputs /\ Consumed(m)'

InputsKept == [][KeepsInputs]_vars

(* melt.ts:16 writes the states as UNPAID -> PENDING -> PAID, with OWED a     *)
(* retryable failure, and melt.test.ts:116 expects PAID after concurrent    *)
(* requests: a melt recorded as PAID stays PAID.                            *)
PaidIsFinal ==
  [][\A m \in Melts : melt[m].state = "PAID" => melt'[m].state = "PAID"]_vars

(* melt.ts:126: the debt is recorded and re-posting the same inputs settles *)
(* it: a consumed melt ends up PAID for good, although a stale handler can  *)
(* write OWED over PAID on the way.                                         *)
DebtIsSettled ==
  \A m \in Melts : Consumed(m) ~> [](melt[m].state = "PAID")

(* signing.ts:113: a client that lost the answer of a mint gets its         *)
(* signatures by repeating the request.                                     *)
IssueIsDelivered ==
  \A q \in Quotes : quote[q].state = "ISSUED" ~> issued[q] \subseteq held
=============================================================================
