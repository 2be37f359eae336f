------------------------------ MODULE Services ------------------------------
(* The services around the mint and its wallets, ten of them in one        *)
(* specification: `which` names the one that moves, while the others rest  *)
(* in one of their initial states.  A behaviour is then one of each        *)
(* service's own behaviours, with the safety each of them promises.        *)
EXTENDS Reserves

CONSTANTS
  Publishers, Pages, MaxDeposits, MaxSwaps,                   \* SupplyReport
  Requests, Interval, MaxGate,                                \* QuoteGate
  VaultFacts, UnitToken, MeltFee, MaxDeploys, MaxFailures,    \* Binding
  Links, Fetchers, Life, Nothing, MaxLink,                    \* LinkRelay
  Calls, MaxSocks,                                            \* NostrRelay
  Holders, SymbolOf, Pinned, Slugs, Figures, Reports, Markets, \* Recognition
  Quotes, Refs, Issuers, Wallets, SupplyCap, MaxDeaths,       \* CreditQuotes
  Parties, Odd, Offers,                                       \* P2pkLock
  Clients, Paid, Bodies, Tiers, Unit, MaxKept, MaxFaults      \* PaidGateway

ASSUME ServicesAssumption ==
  /\ MaxTime \in Nat /\ MaxDeposits \in Nat /\ MaxSwaps \in Nat /\ MaxGate \in Nat
  /\ MaxDeploys \in Nat /\ MaxFailures \in Nat /\ MaxLink \in Nat /\ MaxSocks \in Nat
  /\ SupplyCap \in Nat /\ MaxDeaths \in Nat
  /\ Interval \in Nat /\ Life \in Nat
  /\ MeltFee \in Nat
  /\ \A v \in DOMAIN VaultFacts :
       VaultFacts[v].hasCode \in BOOLEAN /\ VaultFacts[v].ceiling \in Int
  /\ Figures \subseteq [supply : Nat, cap : Nat, paused : BOOLEAN]
  /\ Reports \subseteq [supply : Nat, reserves : Nat, composed : BOOLEAN, age : Nat]
  /\ Markets \subseteq [tempo : Nat, other : Nat]
  /\ IsFiniteSet(Parties) /\ Odd \subseteq Parties
  /\ Offers \subseteq [data : Parties, refund : SUBSET Parties, pubkeys : SUBSET Parties,
                       nSigs : Int, locktime : Nat, npub : BOOLEAN]
  /\ IsFiniteSet(Clients)
  /\ Unit \in Nat \ {0} /\ MaxKept \in Nat /\ MaxFaults \in Nat
  /\ DOMAIN Tiers \subseteq Nat
  /\ \A i \in DOMAIN Tiers : Tiers[i].base \in Nat /\ Tiers[i].per1k \in Nat
  /\ \A b \in Bodies :
       /\ b.tokens \in Int \cup {Nothing}
       /\ \E i \in DOMAIN Tiers : b.model \in Tiers[i].models

VARIABLES
  which,
  deposits, minted, swaps, burned, paid, cached, stale, job, attested,
  gateNow, published, tripped, cache, ask, accepted,
  env, config, verified, blind, call, bound, deploys, failures,
  linkNow, stored, due, upload, read, handed,
  ws, sock, authed, up, down, auth, pending, waiters, request,
  live, active, reports, markets, shown,
  state, expired, issuances, issue, poll, told, melted, deaths,
  lockNow, offer, secret, token, claim, opened, ruled,
  priced, lapsed, kept, seen, spent, took, used, client, faults

supplyVars  == <<deposits, minted, swaps, burned, paid, cached, stale, job, attested>>
gateVars    == <<gateNow, published, tripped, cache, ask, accepted>>
bindingVars == <<env, config, verified, blind, call, bound, deploys, failures>>
linkVars    == <<linkNow, stored, due, upload, read, handed>>
nostrVars   == <<ws, sock, authed, up, down, auth, pending, waiters, request>>
lookVars    == <<live, active, reports, markets, shown>>
creditVars  == <<state, expired, issuances, issue, poll, told, melted, deaths>>
lockVars    == <<lockNow, offer, secret, token, claim, opened, ruled>>
payVars     == <<priced, lapsed, kept, seen, spent, took, used, client, faults>>
all == <<which, vars, supplyVars, gateVars, bindingVars, linkVars, nostrVars, lookVars,
         creditVars, lockVars, payVars>>

-----------------------------------------------------------------------------
S == INSTANCE SupplyReport
G == INSTANCE QuoteGate WITH MaxTime <- MaxGate, now <- gateNow, call <- ask
B == INSTANCE Binding WITH
       Vaults <- DOMAIN VaultFacts, Token <- UnitToken,
       MaxFaults <- MaxFailures, faults <- failures
L == INSTANCE LinkRelay WITH
       Readers <- Fetchers, Ttl <- Life, MaxTime <- MaxLink, now <- linkNow
N == INSTANCE NostrRelay WITH call <- request
K == INSTANCE Recognition WITH Tokens <- Holders
C == INSTANCE CreditQuotes WITH Nobody <- Nothing
O == INSTANCE P2pkLock WITH
       now <- lockNow, asked <- offer, spent <- opened
P == INSTANCE PaidGateway WITH
       Requests <- Clients, Unset <- Nothing, Challenges <- Links, Coins <- Paid,
       request <- client

-----------------------------------------------------------------------------
Rest(name, init) == which # name => init

AllInit ==
  /\ which \in {"reserves", "supply", "gate", "binding", "link", "nostr", "look", "credit",
               "lock", "pay"}
  /\ Init /\ S!Init /\ G!Init /\ B!Init /\ L!Init /\ N!Init /\ C!Init /\ O!Init /\ P!Init
  /\ Rest("reserves", block = 0 /\ registry = {Unset})
  /\ Rest("binding", env = CHOOSE v \in DOMAIN VaultFacts : TRUE)
  /\ Rest("lock", offer = CHOOSE o \in Offers : TRUE)
  /\ IF which = "look" THEN K!Init
     ELSE /\ live = [h \in Holders |-> K!Absent] /\ active = {}
          /\ reports = [s \in Slugs |-> K!Absent]
          /\ markets = [s \in K!Symbols |-> K!Absent] /\ shown = {}

AllNext ==
  \/ which = "reserves" /\ Next
     /\ UNCHANGED <<which, supplyVars, gateVars, bindingVars, linkVars, nostrVars, lookVars, creditVars, lockVars, payVars>>
  \/ which = "supply" /\ S!Next
     /\ UNCHANGED <<which, vars, gateVars, bindingVars, linkVars, nostrVars, lookVars, creditVars, lockVars, payVars>>
  \/ which = "gate" /\ G!Next
     /\ UNCHANGED <<which, vars, supplyVars, bindingVars, linkVars, nostrVars, lookVars, creditVars, lockVars, payVars>>
  \/ which = "binding" /\ B!Next
     /\ UNCHANGED <<which, vars, supplyVars, gateVars, linkVars, nostrVars, lookVars, creditVars, lockVars, payVars>>
  \/ which = "link" /\ L!Next
     /\ UNCHANGED <<which, vars, supplyVars, gateVars, bindingVars, nostrVars, lookVars, creditVars, lockVars, payVars>>
  \/ which = "nostr" /\ N!Next
     /\ UNCHANGED <<which, vars, supplyVars, gateVars, bindingVars, linkVars, lookVars, creditVars, lockVars, payVars>>
  \/ which = "look" /\ K!Next
     /\ UNCHANGED <<which, vars, supplyVars, gateVars, bindingVars, linkVars, nostrVars, creditVars, lockVars, payVars>>
  \/ which = "credit" /\ C!Next
     /\ UNCHANGED <<which, vars, supplyVars, gateVars, bindingVars, linkVars, nostrVars, lookVars, lockVars, payVars>>
  \/ which = "lock" /\ O!Next
     /\ UNCHANGED <<which, vars, supplyVars, gateVars, bindingVars, linkVars, nostrVars, lookVars, creditVars, payVars>>
  \/ which = "pay" /\ P!Next
     /\ UNCHANGED <<which, vars, supplyVars, gateVars, bindingVars, linkVars, nostrVars, lookVars, creditVars, lockVars>>

AllSpec == AllInit /\ [][AllNext]_all

-----------------------------------------------------------------------------
(* Every service keeps its types, and the histories their rhythm.          *)
TypesOK ==
  CASE which = "reserves" -> TypeOK
    [] which = "supply" -> S!TypeOK
    [] which = "gate" -> G!TypeOK
    [] which = "binding" -> B!TypeOK
    [] which = "link" -> L!TypeOK
    [] which = "nostr" -> N!TypeOK
    [] which = "look" -> K!TypeOK
    [] which = "credit" -> C!TypeOK
    [] which = "lock" -> O!TypeOK
    [] which = "pay" -> P!TypeOK

(* A solvent mint is called insolvent only when its balance moved under    *)
(* the reader or could not be read (worker.ts:121, status.ts:48).          *)
AlarmNeedsMove == S!AlarmNeedsMove

(* Quotes stop soon after the vault stops taking deposits                  *)
(* (vault-tempo.ts:205-228).                                               *)
QuotesStop == G!QuotesStop

(* What is served is served by a mint whose vault was verified             *)
(* (worker.ts:63-92).                                                      *)
ServesVerified == B!ServesVerified

(* A link is read by one reader, and not after it expired                  *)
(* (routes/relay.ts:45-66).                                                *)
LinkReadOnce == L!LinkReadOnce

(* On the first connection a refused call is served after the handshake    *)
(* (sdk/relay.ts:6-8).                                                     *)
HandshakeHelps == N!HandshakeHelps

(* A token shown as ok is backed as far as anybody can see, and the only   *)
(* one of its symbol (checks.ts, collisions.ts:58-107).                    *)
OkIsBacked == K!OkIsBacked

(* A reference funds one quote, whatever is retried or raced               *)
(* (vault-credit.ts:46-72).                                                *)
CreditOnce == C!CreditOnce

(* A locked coin opens for those the payer named and when the payer said   *)
(* (p2pk.ts:172-200).                                                      *)
OpensAsAsked == O!OpensAsAsked

(* What the proxy forwards was paid at its own price (app.ts:118-140).     *)
ServedIsPaid == P!ServedIsPaid
=============================================================================
