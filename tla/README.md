# picocash: TLA+ models, model checking and proofs

picocash is Chaumian ecash for machine payments: a mint signs blinded coins
against deposits in an on-chain vault, swaps coins, and pays coins out of the
vault again (melt).  Clients keep coins in wallets and hand them to services
through an MPP payment method.  This directory models the parts of the
repository whose correctness depends on the order of events, checks them with
TLC and proves the central results with TLAPS.  Paths without a package are
those of `src/packages`, and line numbers those of the commit beside it.

## 1. Inventory

### Mint server (`packages/mint`)

State: the tables `mint_quotes`, `blind_signatures`, `spent_secrets`,
`melt_quotes`, `relay_blobs`, `credit_issuances` (`db-core.ts`), the vault
contract on chain, and what each HTTP handler holds across an await.

| Part | Operations | What is hard | What must hold |
|---|---|---|---|
| quotes and issuance (`routes/mint.ts`, `signing.ts`, `solvency.ts`) | `POST /quote`, `GET /quote/:id`, `POST /mint` | check of the cap, then insert; a row read, then the oracle awaited; lost answers and repeats; two requests on one quote | a quote makes money once, for a deposit that covers it, within the cap; a repeat gets the same signatures |
| swap (`routes/swap.ts`) | `POST /swap` | two requests spending one coin; failure half way | exactly one winner; all or nothing; worth is conserved |
| melt (`routes/melt.ts`, `payout.ts`) | `POST /melt/quote`, `POST /melt` | crash between burning and paying; RPC errors; receipts that time out while the transaction lands; concurrent retries | no payout without burned coins, one payout per melt, a burned melt is paid in the end |
| database (`db.ts`, `cloudflare/db-do.ts`) | `query`, `tx` | READ COMMITTED on node-postgres, one transaction at a time on PGlite and the Durable Object | a transaction takes all its keys or none; every transaction ends |
| deposit oracle (`vault-tempo.ts`) | `getDeposit`, `isPublicationOverdue`, `chainStatus` | log scan with a cursor in memory, restarts, shared scans that fail, nodes that are behind, blocks that are replaced | every settled deposit counts once; quotes stop while the vault is closed |
| credit issuance (`vault-credit.ts`) | `issue`, `getDeposit` | retried issuance with the same reference | a reference funds one quote once; what is funded can be minted |
| solvency publication (`cloudflare/worker.ts`, `scripts/publish-solvency.ts`, `routes/status.ts`) | scheduled publish | supply read in two statements, a balance read later or cached | swaps and issues alone never look like insolvency |
| binding check (`cloudflare/worker.ts`) | `fetch` of the Durable Object | one shared check, retried; an instance that outlives a deploy | what is served is served by a verified vault |
| token link relay (`routes/relay.ts`) | `POST`, `GET` | concurrent readers, expiry | a blob is handed out once, never after its TTL |
| shell (`app.ts`, `config.ts`, `validation.ts`, `keyset.ts`, `errors.ts`) | routing, parsing, keys | – | limits on the inputs of the operations above |

The handlers interact through the tables and the vault and take no locks.  What they
share in memory is read-only or a cache: the oracle's scan, the remembered answers of
`isPublicationOverdue` and `chainStatus`, and the hosted mint's binding check.

### Clients

| Part | State and operations | What is hard | What must hold |
|---|---|---|---|
| wallet stores (`sdk/store.ts`, `sdk/engram-store.ts`) | proofs with states; add, reserve, commit, release | a crash between two system calls; two sessions that replace one event on a relay | a coin is never reserved twice, no update is lost |
| wallet (`sdk/wallet.ts`, `blinding.ts`, `mcp/wallet-service.ts`) | mint, swap, send, receive, melt, fetchPaid | an error after the mint already spent the inputs; change | no silent loss, no spent coin offered again |
| payment method (`mppx-method`) | challenges, accept, settle | concurrent credentials, stores without transactions, settlements out of order | a challenge is fulfilled once, a coin accepted once |
| Nostr transport (`sdk/relay.ts`) | connect, AUTH, publish, query | reconnect with old state, answers that never come | a publish resolves only on its OK |

### Applications and the rest

| Part | State and operations | What is hard | What must hold |
|---|---|---|---|
| dashboard (`apps/reserves`) | KV records; refresh: scan, metadata, snapshot, histories | shares of the work per run, overlapping runs over stale reads, sources that fail | no token of the factory is overlooked; what is shown as ok is backed |
| paid proxy (`apps/paid-llm`) | replay state in memory; price, challenge, accept, settle, forward | a credential of another price, eviction, restart | what is forwarded is paid at its price |
| P2PK locks (`crypto/p2pk.ts`, `nostr.ts`) | lock, sign, verdict | keys with and without parity, locktime and refund, several signers | a coin opens for whom the payer named, when the payer said |

The demos, the operator scripts and the curve arithmetic of `packages/crypto`
have no state that outlives a call.

## 2. Modules

| Module | Contents |
|---|---|
| `Money` | identifiers, sums of coins and of quotes, and the facts about sums that the proofs use |
| `Custody` | abstract specification: what a mint with a vault promises |
| `Mint` | the mint's handlers, the vault, faults; properties; refinement mapping to Custody |
| `MintInv` | the inductive invariant of Mint |
| `MintProofs` | the invariant is inductive; safety and action properties; Mint implements Custody, Custody is solvent and implements AtomicLedger; the cap (TLAPS) |
| `AtomicLedger` | abstract specification: all keys of a request at once, or none |
| `PgLedger` | the three writing transactions on node-postgres, one SQL statement at a time |
| `PgProofs` | PgLedger implements AtomicLedger; one connection keeps the cap (TLAPS) |
| `AcceptOnce` | abstract specification: a challenge is accepted once, a coin for one challenge |
| `Acceptor` | the acceptor's requests and settlement jobs over a store without transactions |
| `AcceptorProofs` | Acceptor implements AcceptOnce; a success is paid, losers give back (TLAPS) |
| `Transitions` | the pure state transitions every wallet store shares |
| `TransitionsProofs` | a transition of a snapshot is a snapshot again (TLAPS) |
| `ProofStore` | abstract specification: an atomic wallet snapshot |
| `FileStore` | the file store of one process, one system call at a time, with crashes |
| `EngramStore` | sessions of one agent over a replaceable event on a relay |
| `StoreProofs` | EngramStore's steps are those of one atomic wallet while mutations do not overlap, and what breaks its claim when they do (TLAPS) |
| `WalletSpend` | the wallet service's tool calls over a store and the mint |
| `Stores` | the file store, the wallet service, the Engram store and the acceptor's store in one specification |
| `WalletProofs` | the properties of `Stores`: FileStore and EngramStore implement ProofStore while calls do not overlap; no coin is lost silently, offered again or offered spent; what the acceptor's store promises (TLAPS) |
| `TempoOracle` | the deposit oracle's scans over a chain that reorganizes and nodes that are behind |
| `OracleProofs` | totals never overstate, scans skip nothing (TLAPS) |
| `QuoteGate` | the publication gate before a quote: two reads of the chain and a cached answer |
| `SupplyReport` | publishers and the status page, reading supply and balance beside the mint at work |
| `Binding` | the hosted mint's lazy verification of its vault, across deploys |
| `CreditQuotes` | credit issuance, the quotes, polls and mints of wallets under the cap, expiry |
| `LinkRelay` | burn-after-read blobs of token links |
| `NostrRelay` | the relay client: sockets, AUTH handshake, refused calls |
| `P2pkLock` | a locked coin from the payer's conditions to the mint's verdict |
| `PaidGateway` | the paid LLM proxy over the memory store |
| `Reserves` | the dashboard's refreshes over KV records |
| `Recognition` | which holder of a symbol is the real one, and what the checks say of it |
| `Services` | ten services around the mint in one specification, see section 3 |
| `ServicesProofs` | what each of the ten promises (TLAPS) |
| `MCMint`, `MCPgLedger`, `MCAcceptor`, `MCWalletSpend`, `MCStores`, `MCServices` | values and symmetry for one specification |
| `MCEnds` | the components whose liveness is checked, in one run |

`Mint` refines `Custody`, `Custody` and `PgLedger` refine `AtomicLedger`, `Acceptor`
refines `AcceptOnce`, `FileStore` and `EngramStore` refine `ProofStore`.  So the
handlers, whose transactions are one step, and the statements of node-postgres are
two views of one ledger: rows taken all at once or not at all.  `FileStore`,
`EngramStore` and `WalletSpend` use one set of transitions, as the stores do.

### Mint

A token stands for one coin over its whole life: its blinded message (the key of
`blind_signatures`), its secret and its `Y` (the key of `spent_secrets`) are in
one-to-one correspondence.  `call[h]` is handler `h`: the await it is at and the
locals it still needs.  Code between two awaits is one action; a transaction is
one action, which is what PGlite (one connection) and the Durable Object give
and what `PgLedger` justifies for node-postgres up to the cap.

| Code | Actions |
|---|---|
| `POST /v1/mint/quote` | `QuoteCheck` (sums and cap), `QuoteInsert` |
| `GET /v1/mint/quote/:id` | `GetQuote`, `Poll`, `Flip` |
| `POST /v1/mint` | `PostMint`, `Poll`, `Flip`, `Sign` (`Issue`, `Replay` or `Refuse`), `Reply` |
| `POST /v1/swap` | `Swap`, `Reply` |
| `POST /v1/melt/quote` | `MeltQuote` |
| `POST /v1/melt` | `PostMelt`, `Consume`, `Ask`/`AskFails`, `Settle`, `Submit`/`SubmitFails`, `PayoutRuns`/`ReceiptTimesOut`, `Record`/`RecordFails`, `Owe` |
| vault contract | `VaultPays`, `LandsLate`, `Deposit` |
| errors, lost responses, restarts, time | `Fails`, `Crash`, `Expire` |

`held` is what clients can spend: coins whose signature reached them.
`verifyInputs` is therefore `ins \subseteq held`.  Requests that are refused
before they change anything are not steps.

### PgLedger

A transaction is a list of statements: holding a key (an `INSERT ... ON
CONFLICT` or a `SELECT ... FOR UPDATE`), the two sums of `computeOutstanding`,
and the commit.  A statement waits while another open transaction holds its
key, and rolls back if the key is committed.  PGlite and the Durable Object run
one transaction at a time, which is what `Mint` has.

### Acceptor

`call[r].at` is the await a request or a job is at; `record`, `paid` and `claims`
are the three kinds of keys of `KvAcceptorStore`.  A credential is a set of coins.

| Code | Actions |
|---|---|
| `createChallenge` and its unawaited put | `Lands` |
| `broadcast`: `getChallenge` and the offline checks | `Present` |
| `hasAnyY` | `LookUp` |
| `KvAcceptorStore.accept` | `Mark`, `ClaimY`, `LoseY`, `Undo`, `Unmark`, `PutAccepted` |
| `settle` | `Settle`, `SettleRead`, `Swap`, `SwapFails`, `SwapSpent`, `PutSettled`, `PutSpent` |
| time-to-live of `y:` and `paid:` keys | `ForgetY`, `ForgetPaid` |
| locktimes, the payer, failures | `Lapse`, `PayerSwaps`, `Expire`, `Dies` |

### FileStore and EngramStore

An operation is a value (`add`, `reserve`, `commit`, `release` with its coins);
`Legal` and `Result` of `Transitions` say when it is allowed and what it makes of a
snapshot.  The file store keeps inodes apart from paths, because `open(tmp, 'w')`
truncates the inode another caller may still be writing: `ReadFile`, `Loaded`,
`Apply`, `Open`, `Write`, `Sync`, `Rename`, `Finish` are the awaits of `load` and
`persist`, and `Crash` loses whatever is not synced.  In the Engram store a mutation
is `Fetch` (with the check of `seq`), `Publish` and `Verify`; the relay keeps the
newest event, and of two equally new ones the one with the lower id.  With `Overlap`
two mutations may be under way at once; `engram-store.ts:13-17` makes its claim for
this case (`NoSilentOverwrite`), where it does not hold (finding 5).  All other
properties of the Engram store are stated for `~Overlap` and say so.

### WalletSpend

One tool call at a time.  Coins are worth one each, so an amount is a number of
coins; `call.held` is the closure variable `held`, which is all that knows the
fresh coins between the mint's answer and the store's commit.

| Code | Actions |
|---|---|
| `withSpend`, `fetchPaid`: reserve | `StartFetch`, `StartSend`, `StartMelt` |
| `onChallenge`, `payChallenge`, `onChange` | `PayFromBudget`, `Challenged`, `Swap` |
| the retried request | `Deliver`, `Answered` |
| `melt` | `Swap`, `Melt` |
| `commit`, `release` | `CommitSpend`, `ReleaseSpend` |
| `receive` | `Receive`, `HoldBudget`, `Add` |
| errors and crashes, other holders | `SwapThrows`, `MeltThrows`, `Crash`, `OthersSpend` |

### TempoOracle, QuoteGate, SupplyReport, Binding

`TempoOracle` is `refresh` of `vault-tempo.ts` one RPC call at a time.  The chain is
the environment: `Mine` includes transactions, whose logs come together; `Reorg`
replaces blocks above the last `Depth`; every call is answered by a node up to
`Lag` blocks behind.  A total is kept as the number of times each transfer was
added to it, which shows double counting that a sum may hide.

| Code | Actions |
|---|---|
| `getDeposit`, the shared promise | `GetDeposit` |
| `refresh`: `eth_blockNumber`, `eth_getLogs` chunk by chunk | `ReadHead`, `ReadLogs` |
| a call that fails for good, a restart | `ScanFails`, `Restart` |
| `isPublicationOverdue` and its cache (`QuoteGate`) | `Ask`, `ReadOverdue`, `ReadEmergency`, `AskFails` |
| `computeOutstanding`, `chainStatus`, publish, page (`SupplyReport`) | `Begin`, `ReadIssued`, `ReadSpent`, `ChainStatus`, `StatusCached`, `Compare`, `Publish`, `Show`, `Fails` |
| `ensureBinding` and `fetch` of the Durable Object (`Binding`) | `Fetch`, `ReadCode`, `ReadToken`, `ReadCeiling`, `CallFails`, `Serve` |

`QuoteGate` counts time in half lives of the 30 s cache, so that an answer can be
fresh, about to expire or old.  In `SupplyReport` the mint is reduced to its books,
the five counters whose differences are supply and balance.

### CreditQuotes, LinkRelay, NostrRelay

`CreditQuotes` has the issuer's `LookUp`, `ReadQuote`, `Insert` and the wallet's
`PostQuote`, `InsertQuote`, `GetQuote`, `PostMint`, `GetDeposit`, `Flip`, `Issue`, each a
statement.  `PostQuote` and `Issue` check the cap: the first counts what is outstanding and
what unexpired quotes reserve, the second what is outstanding only, so a paid quote that
expired can lose its place to others and is then refused (`AMOUNT_LIMIT`); `Melt` is
anybody's melt, which frees supply.  `LinkRelay` has
`Purge` and `Insert` of an upload, and `Take` (one `DELETE ... RETURNING`), `Hand`,
`Decrypt` of a reader.  `NostrRelay` numbers the sockets of one `Relay` object and
keeps the frames of each in order, both ways; `OnMessage` handles one frame.

### P2pkLock, PaidGateway

In `P2pkLock` a key is an x coordinate and a parity; `Build` is `p2pkSecretHex` with
its tags, `SignAsNostr` and `Receive` are the wallet's two ways to sign, `Judge` is the
mint's verdict on the witness as it was when the claim was sent.  `PaidGateway` has
`Ask` (price and challenge), `Present` (underpay guard), `Accept`, `Swap`/`SwapFails`,
`PutReceipt`, `Forward`; `Put` and `Swept` are the memory store's eviction.  Between two
network calls it takes one step, because the memory store answers at once.

### Reserves, Recognition

A KV record is the set of values a read may return: the last one for files, every
one written so far for Workers KV.  A run is `ReadRegistry`, `ReadMeta`, `Discover` (or
`SkipDiscovery`), `ReadTokens`, `PutSnapshot`, `ReadHistory`/`AppendHistory`, `Finish`, and
may fail at every await.  `Recognition` is what one run computes from what its
sources said: `PickCanonical` and `TokenChecks` are translated operator by operator.

## 3. Runs

| Run | Question | Answer |
|---|---|---|
| `mint_issue` | Do two quotes that race under one cap make money once each, for their deposits, within the cap? | yes |
| `mint_melts` | Two melts with a fee compete for the coins of a quote, with one fault and late transactions: do the handlers implement `Custody`, is the vault solvent, is every payout covered by the inputs first recorded, is PAID true, does `IInv` hold? | yes |
| `mint_paid_final` | Does a melt recorded as PAID stay PAID (`melt.ts:16`, `melt.test.ts:116`)? | no: finding 1 |
| `pg_ends` | Statement by statement at READ COMMITTED: is what is committed always one whole request, and does every transaction end although requests lock coins in opposite orders? | yes |
| `pg_cap` | Does the cap hold on node-postgres (`mint.ts:140`)? | no: finding 2 |
| `acc_ends` | Does the store without transactions accept like an atomic one, and is everything accepted settled or known to be double-spent in the end? | yes |
| `stores` | With serialized tool calls and a crash anywhere, is the file an atomic wallet, and are coins out only once reserved on disk (`FileStore`)?  Are offered coins unspent while the mint answers, is nothing lost silently, does what was paid never come back (`WalletSpend`)?  With mutations that do not overlap, is the relay's event an atomic wallet, and does a writer find its own event (`EngramStore`)?  Is a settle-first success money the service has, and does a loser give back what it claimed (`Acceptor`)? | yes |
| `engram_overlap` | Does the loser of two overlapping mutations get a conflict, and never overwrites a spend silently (`engram-store.ts:16-17`)? | no: finding 5 |
| `ends` | Does the oracle count every settled deposit once and in the end (`TempoOracle`)?  Are debts settled and signatures delivered to clients that repeat (`Mint`), is funded credit issued unless the cap stands in the way again and again, also after expiry (`CreditQuotes`), is every token found and read (`Reserves`)? | yes |
| `services` | One safety question for each of ten services, listed below | yes |
| `wallet_released` | Are the coins the wallet offers unspent when the mint fails, too (`store.ts:215-217`)? | no: finding 3 |
| `relay_reauth` | Is a call the relay refuses for want of AUTH repeated after the handshake (`relay.ts:6-8`)? | no: finding 4 |

Three runs hold more than one component (`Stores`, `Services`, `MCEnds`).
Components that do not share state are put side by side: a variable `which`, chosen in the initial state, names the one
that moves, and the others rest in one of their initial states, so that the states
of the run are the sum of those of its components and not the product.  The
properties are those of the components, stated again under their names.

| Property of `services` | Component | What TLC shows |
|---|---|---|
| `RegistryComplete` | `Reserves` | no registry lacks a token below its cursor, with stale reads and overlapping runs |
| `AlarmNeedsMove` | `SupplyReport` | only a balance that moved or was not read makes a solvent mint look insolvent |
| `QuotesStop` | `QuoteGate` | quotes stop soon after the vault closes, with the exceptions the failing read allows |
| `ServesVerified` | `Binding` | nothing is served by an instance whose vault was not verified |
| `LinkReadOnce` | `LinkRelay` | one reader per link, none after expiry, none lost before |
| `HandshakeHelps` | `NostrRelay` | on the first connection no call fails for want of AUTH |
| `OkIsBacked` | `Recognition` | whatever sources fail, ok means backed and canonical |
| `CreditOnce` | `CreditQuotes` | a reference funds one quote, and the issuer was told so |
| `OpensAsAsked` | `P2pkLock` | the verdict is what the payer's conditions say of signers and time |
| `ServedIsPaid` | `PaidGateway` | upstream calls are made for what the proxy received |

`TypesOK` is the type invariant of whichever component moves.

### Bounds

* Two handlers, connections, requests or sessions are enough for every pairwise
  race; a wait cycle of three connections repeats the one of two with one more
  member.  Two requests and one job let a settlement overlap with the settle-first
  request it belongs to while another request fights for its coins.
* Amounts up to 4 and one coin worth 2 (`Heavy`) make swaps between one coin and two
  possible; in `mint_issue` a cap of 2 is used up by one quote; in `mint_melts` a fee
  of 1 makes "covers the amount" and "covers amount and fee" different, and a quote
  of 4 leaves coins for a second melt.
* `MaxFaults` and `MaxCrashes` bound crashes, errors, lost answers and timeouts: with
  1 every single fault at every place is tried; the wallet service has 2, for a fault
  during what follows a fault.  `MaxDeposit` bounds what one quote receives (it may
  be funded in parts).  A quote, melt or reservation id is used once, as in the code.
* `pg_ends`: requests of up to two of three coins in any order.
* The acceptor in `acc_ends` has two challenges of two units, two locked coins that pay
  either and one coin bound to the first challenge that pays it alone; in `stores` two
  locked coins, a challenge that takes either and one that takes both.  So credentials
  overlap in one coin, in both or not at all, and payers swap coins away: bound ones at
  any time, locked ones when the lock has lapsed.
* `stores`: the file store has four writes (`MaxSeq`), enough for a spend with change, a
  crash and another spend.  The wallet has two coins and a budget of one that it
  owns, two that others send, and five writes: two spends and a token received.  The
  relay has three events and two ticks of the clock, so that events tie and ids decide;
  `engram_overlap` needs three events: coins come in, are reserved, and an overlapping
  mutation replaces that.
* `CreditQuotes`: two quotes of one unit; in `ends` the cap is one, so that an expired funded
  quote can find it used up by the other; in `services` it is two, for the races of both.
* The oracle: three transfers, two of them in one transaction, five blocks in chunks of
  two, one block that may be replaced, nodes one behind, a look-back of two, so that a
  restart can begin after a deposit; one failing call or restart.
* `Reserves`: one token without an event and two with, one of them beyond the first
  window of two blocks; one token's metadata per run; histories of two points.  In
  `services` one run at a time over a KV whose reads may return any earlier value, which
  is how runs that overlap see each other's records (the proof is for any number of runs at
  once); in `ends` one run at a time over files.
* `QuoteGate` and `PaidGateway`: two requests; the cache's life is two of five steps; the
  memory store keeps one challenge, so that the second evicts it.  `NostrRelay`: two calls
  and two sockets, a first connection and one that replaces it.  `Binding`: four addresses
  (a good vault, one of another token, one with a low ceiling, an account), two deploys.
* `Recognition`: two holders of one symbol, one of them pinned, and figures on both sides
  of every tolerance.  `P2pkLock`: three parties, of which the merchant's key has an odd y;
  six sets of conditions, listed in `MCServices`.
* Symmetry is used in the safety runs only.  Reservation ids, inodes and the coins a swap
  makes have no identity either; `MCStores` takes new ones in a fixed order (`Canonical`),
  which leaves out renamings of behaviours and nothing else.  Deadlock checking is off: a run that
  used up its ids, deposits and coins stops, as the model has no more requests.

### Fairness

`ends` assumes fairness of the component that moves.  For `Mint` it assumes that Node
runs a pending continuation (`WF Continue`), that the chain runs an accepted transaction
while its handler waits, and that clients do what the error texts tell them: repeat a melt with its inputs until it is
PAID (`melt.ts:127`), repeat a mint with its outputs until the answer arrives
(`signing.ts:113`).  Their requests get strong fairness because the model has
few handlers where the server has no limit.  Nothing is assumed of deposits,
faults or other requests.  For `TempoOracle`: a scan that runs goes on (its calls
return or throw after their retries), and quotes are polled again and again.  For
`CreditQuotes`: a call goes on, and a wallet polls and mints its quotes repeatedly, as
`sdk/wallet.ts` does; nothing is assumed of the issuer.  For `Reserves`: the interval or
the cron fires, and calls do not fail for ever.

`pg_ends` assumes that open connections go on, that PostgreSQL's deadlock detector runs, and that lock waiters are queued.  `acc_ends`
assumes that a running handler goes on (weak fairness), and that the service
schedules the settlement of whatever is pending, as accept-then-settle asks of
it: strong fairness per challenge, because one job works through all of them.

### Findings

1. `melt.ts:125` writes OWED without looking at the state.  Two requests retry
   one melt; one payout lands and is recorded; the vault refuses the other, whose
   catch clause turns PAID into OWED.  No money moves twice, and one more retry
   repairs the row, but the quote's status and the status page are wrong meanwhile.
2. `mint.ts:142-147` calls the cap check inside the issuing transaction binding.
   At READ COMMITTED, which is what `db.ts:18` asks of PostgreSQL, two transactions
   for two quotes both read the supply before either commits.  The comment holds
   on PGlite and the Durable Object (`mint_issue`).
3. `store.ts:230` releases the reservation on every error of a spend.  If the mint
   swapped and its answer was lost, the store offers spent coins again, although
   the comment above it wants them left reserved.  Nothing is paid twice
   (`PaidIsGone`), but the next spend fails and the fresh coins are gone.
4. `relay.ts:123` answers a challenge only while `authState` is not `done`, and nothing
   resets it when the socket closes.  On the connection that replaces the first, the
   challenge is ignored, and a call the relay refuses fails instead of being repeated,
   which is not what `relay.ts:6-8` promises.

5. `engram-store.ts:171-177` publishes unconditionally and then looks once whether its own
   event is the head.  A session that fetched before another one published may
   publish after that one looked: it replaces the event, finds itself the head, and both
   were told that they succeeded.  The first one's reservation is gone from the record and
   its coins are spendable again, where `engram-store.ts:16-17` promises a conflict.  The
   theorem `OverwritesAreStale` says that nothing else breaks the promise: it holds as long
   as each event that becomes the head was made from the head it replaces.

Limits of the code that show when a constant is changed; no run lists them.

* `FileStore` with `Serial = FALSE` violates `ReservedOnce`: two calls of one process
  compute from one cached snapshot.  `wallet-service.ts:124` relies on serialized calls.
* `Acceptor` violates `BlameIsDue`: a settlement repeated after its swap succeeded finds
  the coins spent, by itself, and records the payer's double spend.

What comments and code say differently, or what the models take as given and the
code does not ensure; met while modelling, without a run of their own:

* `refresh.ts:24-27` pins majors "by ADDRESS — never by symbol"; for a symbol without a
  reference the largest supply decides (`collisions.ts`).  The checks' single-chain tolerance is
  10 basis points, where a comment says 0.01 %.
* The published supply may be below the true one (`ReportErrsLow` is one-sided), where
  `solvency.ts:8-9` says "exactly the vault liability".  A balance that could not be
  read counts as 0 (`vault-tempo.ts:266`), and stays so in the cache for 15 s.
* A vault whose `maxMeltFee` could not be read is taken as one without a ceiling.
* A paid quote that expires is no longer reserved by `solvency.ts:31`, so its room under the
  cap can be given to others; `FundedIsMintable` is stated for a supply that leaves room
  from some time on, as the error text of `mint.ts:145` says.
* Overlapping refreshes of the Worker may write an older snapshot over a newer one; a
  token whose metadata never answers keeps its place in the share of every run.
* `relay.ts`: the late close of an old socket rejects the calls of the new one, and
  `connect` called twice at once opens two sockets and keeps the second.
* `p2pk.ts`: `p2pkSecretHex` accepts the same key twice, or one x with both parities, so
  one signature would count twice or `n_sigs` could never be met; `Offers` has no such
  lock.  `signProofs` passes over npub locks of odd keys, as `nostr.ts:11-18` says.
* The proxy: a settlement that throws after the challenge was accepted leaves the
  client paid and refused on its retry; a failure upstream is not refunded.
* `rename` in `store.ts` is not followed by a sync of the directory; `FileStore` takes a
  rename as durable, as journalling file systems make it.

## 4. Proofs

Everything below holds for every value of the constants: any number of handlers,
connections, quotes, melts, challenges, sessions, reservations, requests and coins, every
worth, cap, price and fee, and every bound on faults and time.  TLC evaluates the
assumptions on the values the runs use:

* `Money`, `Mint`: the bounds are naturals, `Worth` and `Total` are the sums they stand for
  (additive over disjoint sets, updated by one entry at a time).
* `PgAssumption`, `AcceptorAssumption`, `StoresAssumption`: the strings for "nobody" and
  "none" name no connection, challenge, reservation or inode.  A price is not met by an
  empty set of coins: amounts are positive (`acceptor.ts:105`).
* `ChainAssumption`: a block that may be replaced and a node's lag are within the
  confirmations.  `ReservesAssumption`, `ServicesAssumption`: types, and finitely many
  parties and clients.  Event ids are positive numbers (`StoresAssumption`).
* Some theorems have a hypothesis of their own.  `FileIsAtomic` asks for one tool call
  at a time (`Serial`, `wallet-service.ts:124`); `RelayIsAtomic` for mutations that do not
  overlap (`~Overlap`), which the properties of `HoldingIsRecorded` and `WriterWins` ask
  for themselves.  TLC shows that they fail without (section 3).  `CapHoldsAlone`
  asks for one connection.

### The mint

* `Inductive`: `Spec => []IInv`.  The safety properties are not inductive: what a
  handler does after an await depends on what it read before it.  `CallOK` states
  for every await what the handler still knows (a quote seen PAID is PAID or
  ISSUED, a melt being paid is consumed, a payout recorded has landed); `QuoteOK`,
  `MeltOK` and `LedgerOK` relate the tables to each other and to the chain.  The
  proof separates the two.  `Growth` lists what no step undoes, `OthersStay` shows
  that growth keeps every waiting handler's knowledge true, and each action is
  then proved for the handler that takes it and for the rows it writes.
* `TypeCorrect`, `PayoutOwed`, `PaidTrue`, `IssueBacked` follow from `IInv`;
  `IssuedForever` and `InputsForever` are action properties over it.
* `MintImplementsCustody`: every step of Mint is a step of Custody or leaves its
  view unchanged.  `CustodySolvent`: Custody is solvent, because a coin is never both
  live and dead and is burned for one melt only (`OneUse`).  `MintSolvent` is the two together.
* `CustodyTakesWhole`, `MintTakesWhole`: the rows that are closed, spent and signed
  (`Committed`) change only by the rows of one whole request, none of them taken before,
  with inputs that were signed and a swap that conserves worth: `AtomicLedger`.
* `CapNeverPassed`: only `Issue` adds to the supply, and it checks in the step that signs.

### node-postgres

* `ExactlyOneWinner`: `PgLedger` implements the same `AtomicLedger`, with statements, locks,
  waits, rollbacks, lost connections and aborted deadlocks.  `PInv`: who has a transaction
  open is in the midst of a request that was legal when it began, and holds exactly the
  keys of the statements it has done, none of them committed; who has none holds no key.
  A request stays legal while it waits, because what is signed stays signed.  The lemmas
  `IssueIs`, `SwapIs` and `MeltIs` say which statement stands where, for requests of any
  width; so the commit, which is the last, finds all keys held.
* `CapHoldsAlone`: on one connection the sum read first is still true when the second is
  read, and both when the transaction commits (`Knows`).  A swap signs as many coins as it
  spends, because a list counts its coins once (`ListCounts`).  With two connections the
  sum is stale, which is finding 2.

### The acceptor

* `AcceptorAcceptsOnce`: the acceptor implements `AcceptOnce`, as long as no claim reaches
  its time-to-live (`Spec`; `LongNext` adds that).  That a challenge is accepted once is
  not inductive: it rests on who holds the marker.
  `AInv` says that between its marker and its record one handler has the challenge
  (`Alone`), which claims each handler has at each await (`CallOK`), and that a record
  keeps its marker and its claims (`ChalOK`).  A rollback then deletes only claims of a
  challenge nobody accepted, and a settlement writes back the coins it read.
* `ReportedIsPaid`, `LosersGiveBack`, also when markers and claims expire.  A marker that
  reaches its time-to-live belongs to a challenge that nobody presents any more or ever
  will (`Retired`).  `PayInv`: what is presented, accepted and settled adds up to the price,
  and a coin swapped for a challenge stays swapped for it.  `LossInv`: while nothing failed,
  each marker and each claim belongs to an acceptance or to the handler that still has the
  challenge and will give it back.

### Wallet stores and the wallet service

* `FileIsAtomic`: `FileInv` says that one call is under way, that the inode it writes is not
  the one the file names until its content is whole and synced, and that the cache is the file except
  between the rename and the assignment after it.  Only a rename changes the file, to what one legal
  operation makes of it; a crash between any two system calls leaves it as it was.
* `RelayIsAtomic`, `HoldingIsRecorded`, `WriterWins`: for mutations that do not overlap only,
  `EInv` says that what a session is about to publish is its operation applied to
  the head there is, stamped above it (`SessionOK`), and that no two sessions work on
  one reservation (`Apart`).  Only a publication changes the head; `OthersKept` shows it
  leaves every other reservation alone, so who holds coins still finds them recorded.
* `OverwritesAreStale`: with mutations that overlap in any way, `NoSilentOverwrite` holds as
  long as each publication that becomes the head was made from the head it replaces
  (`BuiltOnHead`).  `ReadInv`: no two sessions work on one reservation or made the same event
  (`Distinct`), and who finds its own event as the head finds its reservation in it (`ReaderOK`).
* `NothingLostSilently`, `FreeStaysUnspent`, `PaidStaysGone`: `WalletInv` says what the running
  call has in hand: the coins of its reservation until they are swapped, the rest and the change
  after that (`OfSpend`); that nothing that can be offered again was handed out
  (`Unpaid`) or, while the mint answers, spent (`Unspent`); and that when a reservation goes, what
  it held is with the call, back in the store or spent (`Accounted`).  `PaidStaysGone` needs no
  assumption on the mint's answers, the other two hold while it answers, which finding 3 shows.

### Services

A step of `Services` is a step of one service and leaves the others as they are, so an invariant of
a service alone is one of the whole.

* `TotalsNeverOverstate`, `ScansSkipNothing`, from `OracleInvariant` (the oracle has a module of its own): `OInv`
  says that only logs the chain no longer
  moves are added (`Final`), so that no other log ever gets the key of one that was
  (`Keyed`); that scans stop below what may be replaced (`Reach`); and that every block
  below the next one was read from a node that has it (`Covered`).  Both depth and lag
  have to be within the confirmations: with either beyond them TLC finds a violation.
* `NothingIsOverlooked`, `RecordsAreTyped`: a run writes tokens and cursor as one value, so
  every value a read may return was complete when it was written, and later tokens are
  above its cursor (`Sound`); a run appends to points whose age it checked (`Ready`).  Any
  number of runs at once, windows and shares, with files or with stale reads.
* `SupplyErrsLow`, `AlarmsMeanMoves` (`SInv`): both sums only grow, issues and swaps come to the first
  and swaps and burns to the second, so what a reader computes is at most what circulated
  when it read either; a solvent mint holds that, and so does a balance that did not move.
  Any number of publishers and pages.
* `CreditedOnce` (`CreditInv`): the insertion decides once per reference, whatever the look-up
  before it said; a wallet that is about to make a quote payable saw it funded, which no
  later step undoes.
* `LinksReadOnce` (`LinkInv`): a blob in a reader's hands has left the table, so there is one such reader.
* `QuotesAreStopped` (`GateInv`): an answer on its way is at most a step old and one that is
  remembered dates itself; the bound is the sum of the two.
* `ServedIsVerified` (`BindingInv`): each stage of the check holds of the vault it is for, and a
  request waits for the vault it met, or is served by it.
* `ServedWasPaid` (`PayInv`): what was forwarded for a challenge, with what requests that were
  accepted still have to forward, each at the challenge's own price, is within what
  the proxy took for it.
* `LockOpensAsAsked` (`LockInv`): reading the tags of a secret gives back the conditions they were
  written from; among the parties an offer names, keys and people correspond one to one whatever
  the parities, so a judgement on signatures is one on signers.
* `ShownOkIsBacked` (`LookInv`): the canonical holder of a symbol is unique, and a check that fails shows.
* `HandshakeServes` (`RelayInv`): on the first connection each call that is under way has one frame or one
  answer, never both and on no other socket; a call is repeated only after the connection was
  authenticated, so no refusal of a repeated call is on its way.
* `EveryTypeHolds`: the type invariants of all ten, `TypesOK`.

### Only model-checked

Liveness: `DebtIsSettled`, `IssueIsDelivered`, `EveryTxEnds`, `PendingEnds`, `DepositIsSeen`,
`FundedIsMintable`, `EveryTokenRead`, because TLAPS does not reason about fairness and
ENABLED.  Every other property of a passing run is the statement of a theorem, for every value of
the constants and under the hypotheses above.  `CapNeverPassed` needs one transaction at a time; that node-postgres
does not give it is finding 2.

## 5. Not modelled, and what comes next

* Curve arithmetic, DLEQ, hash to curve and encryption are taken as perfect: a key fits
  or it does not.  They are pure functions of large numbers, which test vectors cover.
* Start-up, configuration, parsing, HTML, error texts and key derivation have no state
  that changes; what they enforce is in the inputs the models enumerate.  Operator
  scripts run once; the publishing one is a publisher of `SupplyReport`.
* The back-off of RPC retries, the page and the price feeds of the dashboard.
* Some steps are coarser than the code where no property could tell: `LinkRelay.Purge` uses the
  time of its statement (the code takes the cutoff just before, `routes/relay.ts:45`); a socket
  that is not open drops a frame in `NostrRelay`, where `send` throws (`sdk/src/relay.ts:146`);
  `SupplyReport.ChainStatus` reads the balance and remembers it at once, and `Mint.QuoteCheck` is
  `isPublicationOverdue` and the advisory sums in one; a report without a time
  (`checks.ts:164`, a grey check) is not among the inputs of `Recognition`.
* `decompose` and coin selection: amounts are sets of coins here, so that every split
  with the right worth is possible.

Next: `TempoOracle` implementing the deposit counter of `Mint`; `PaidGateway` over
`AcceptOnce` while nothing is evicted; `WalletSpend` over the swaps of `Custody`, so that
what a wallet calls unspent is live at the mint.
