------------------------------- MODULE MCEnds -------------------------------
(* Liveness of four components in one run: a behaviour is one of the       *)
(* component that `which` names, while the others rest in one of their     *)
(* initial states.                                                         *)
EXTENDS TempoOracle, TLC, Functions

CONSTANTS
  q1, q2,
  MintTokens, Handlers, MaxDeposit, MaxAmount, MintCap, Fee,    \* Mint
  Refs, Issuers, Wallets, Nobody, SupplyCap, MaxDeaths,         \* CreditQuotes
  Addresses, Genesis, Watched, Window, MetaPerRun, Runners,     \* Reserves
  Gap, Points, MaxHeight, MaxTime,
  m1, t1, t2, t3, x1, x2

VARIABLES
  which,
  quote, issued, signed, spent, melt, expired, deposit, balance, paid, mempool,
  held, call, mintFaults,
  state, lapsed, issuances, issue, poll, told, melted, deaths,
  height, now, registry, meta, snapshot, history, run

mintVars == <<quote, issued, signed, spent, melt, expired, deposit, balance, paid,
              mempool, held, call, mintFaults>>
creditVars == <<state, lapsed, issuances, issue, poll, told, melted, deaths>>
reservesVars == <<height, now, registry, meta, snapshot, history, run>>
everything == <<which, vars, mintVars, creditVars, reservesVars>>

-----------------------------------------------------------------------------
(* Values of the constants that a .cfg cannot write.                       *)
TwoInOne == [t \in Transfers |-> IF t = t3 THEN x2 ELSE x1]
CoinWorth == [S \in SUBSET MintTokens |-> Cardinality(S)]
QuoteTotal == [f \in [{q1} -> 0..MaxDeposit] |-> SumFunction(f)]
Creation == [a \in Addresses |-> CASE a \in Genesis -> 0 [] a = t1 -> 1 [] OTHER -> MaxHeight]

M == INSTANCE Mint WITH
       Quotes <- {q1}, Melts <- {m1}, Tokens <- MintTokens, Cap <- MintCap,
       Worth <- CoinWorth, Total <- QuoteTotal, faults <- mintFaults
C == INSTANCE CreditQuotes WITH Quotes <- {q1, q2}, expired <- lapsed
R == INSTANCE Reserves WITH
       Tokens <- Addresses, CreatedAt <- Creation, block <- height, MaxBlocks <- MaxHeight,
       SingleFlight <- TRUE, EventualKv <- FALSE

-----------------------------------------------------------------------------
MCInit ==
  /\ which \in {"oracle", "mint", "credit", "reserves"}
  /\ Init /\ M!Init /\ C!Init /\ R!Init
  /\ which # "oracle" => index = CHOOSE ix \in Placements : TRUE
  /\ which # "reserves" => height = 0 /\ registry = {R!Unset}

MCNext ==
  \/ which = "oracle" /\ Next /\ UNCHANGED <<which, mintVars, creditVars, reservesVars>>
  \/ which = "mint" /\ M!Next /\ UNCHANGED <<which, vars, creditVars, reservesVars>>
  \/ which = "credit" /\ C!Next /\ UNCHANGED <<which, vars, mintVars, reservesVars>>
  \/ which = "reserves" /\ R!Next /\ UNCHANGED <<which, vars, mintVars, creditVars>>

OracleFair ==
  /\ WF_vars(which = "oracle" /\ \E h \in 0..MaxBlocks : ReadHead(h) \/ ReadLogs(h))
  /\ SF_vars(which = "oracle" /\ \E c \in Callers : scan.at = "idle" /\ GetDeposit(c))
MintFair ==
  /\ \A h \in Handlers : WF_mintVars(which = "mint" /\ M!Continue(h))
  /\ SF_mintVars(which = "mint" /\ M!RetryMelt(m1))
  /\ SF_mintVars(which = "mint" /\ M!RepeatMint(q1))
CreditFair ==
  /\ WF_creditVars(which = "credit" /\ \E w \in Wallets :
                      C!InsertQuote(w) \/ C!GetDeposit(w) \/ C!Flip(w) \/ C!Issue(w))
  /\ \A q \in {q1,q2} : SF_creditVars(which = "credit" /\ \E w \in Wallets : C!GetQuote(w, q))
                      /\ SF_creditVars(which = "credit" /\ \E w \in Wallets : C!PostMint(w, q))
ReservesFair ==
  /\ WF_reservesVars(which = "reserves" /\ \E r \in Runners : R!Trigger(r))
  /\ \A r \in Runners : WF_reservesVars(which = "reserves" /\ R!Succeeds(r))
  /\ <>[][which = "reserves" => \A r \in Runners : run'[r] # run[r] => R!Trigger(r) \/ R!Succeeds(r)]_reservesVars

MCFairness ==
  \/ <>[](which = "oracle") /\ OracleFair
  \/ <>[](which = "mint") /\ MintFair
  \/ <>[](which = "credit") /\ CreditFair
  \/ <>[](which = "reserves") /\ ReservesFair

MCSpec == MCInit /\ [][MCNext]_everything /\ MCFairness

-----------------------------------------------------------------------------
(* A melt whose inputs were consumed is paid in the end, by clients that   *)
(* repeat their request (routes/melt.ts:106-128).                          *)
DebtIsSettled == M!DebtIsSettled

(* Signatures that were issued reach the client that repeats its request   *)
(* (routes/mint.ts:132-136).                                               *)
IssueIsDelivered == M!IssueIsDelivered

(* A quote the issuer funded is minted, also when it expired before        *)
(* anybody polled it, unless the cap stands in the way again and again     *)
(* (routes/mint.ts:117, 142-147).                                          *)
FundedIsMintable == C!FundedIsMintable

(* Every token of the factory is found and read in the end, a window and a *)
(* share at a time (reserves refresh.ts:120-150).                          *)
EveryTokenRead == which = "reserves" => R!EveryTokenRead
=============================================================================
