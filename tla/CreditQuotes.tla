---------------------------- MODULE CreditQuotes ----------------------------
(***************************************************************************)
(* Closed-loop credit: the issuer funds an open quote once per reference,  *)
(* and the wallet mints from it.  The issuer's calls, the wallet's polls   *)
(* and mints, and the expiry of quotes interleave statement by statement;  *)
(* a call may die at any await or lose its answer, and is then repeated.   *)
(*                                                                         *)
(* The wallet's three routes are those of routes/mint.ts over CreditLedger *)
(* as the oracle, with the cap on outstanding supply that they check when  *)
(* a quote is asked for and again when it is issued.  Quotes are for one   *)
(* unit of credit each.                                                    *)
(***************************************************************************)
EXTENDS Naturals, FiniteSets

CONSTANTS
  Quotes,
  Refs,       \* the issuer's references, e.g. settlement releases
  Issuers,    \* calls of POST /v1/credit/issue
  Wallets,    \* calls of POST /v1/mint/quote, GET /v1/mint/quote/:id, POST /v1/mint
  Nobody,     \* no reference, no quote
  SupplyCap,  \* config.maxOutstanding, 0 for none
  MaxDeaths   \* bound on calls that die

VARIABLES
  state,     \* state[q] of the row in mint_quotes, "NONE" before there is one
  expired,   \* quotes whose expires_at has passed
  issuances, \* rows of credit_issuances: <<ref, quote>>
  issue,     \* issue[i]: a call of the issuer, to fund quote by ref
  poll,      \* poll[w]: a call of a wallet
  told,      \* <<ref, quote>> the issuer was told is funded
  melted,    \* units of the keyset spent by melts
  deaths

vars == <<state, expired, issuances, issue, poll, told, melted, deaths>>

NoIssue == [at |-> "idle", ref |-> Nobody, quote |-> Nobody]
NoPoll  == [at |-> "idle", quote |-> Nobody, mints |-> FALSE]

TypeOK ==
  /\ state \in [Quotes -> {"NONE", "UNPAID", "PAID", "ISSUED"}]
  /\ expired \subseteq Quotes
  /\ issuances \subseteq Refs \X Quotes
  /\ issue \in [Issuers ->
       [at : {"idle", "quote", "insert"}, ref : Refs \cup {Nobody},
        quote : Quotes \cup {Nobody}]]
  /\ poll \in [Wallets ->
       [at : {"idle", "insert", "deposit", "flip", "issue"},
        quote : Quotes \cup {Nobody}, mints : BOOLEAN]]
  /\ told \subseteq Refs \X Quotes
  /\ melted \in Nat
  /\ deaths \in Nat

Init ==
  /\ state = [q \in Quotes |-> "NONE"]
  /\ expired = {}
  /\ issuances = {}
  /\ issue = [i \in Issuers |-> NoIssue]
  /\ poll = [w \in Wallets |-> NoPoll]
  /\ told = {}
  /\ melted = 0
  /\ deaths = 0

Dies == deaths < MaxDeaths /\ deaths' = deaths + 1

Expire(q) ==
  /\ state[q] # "NONE" /\ q \notin expired
  /\ expired' = expired \cup {q}
  /\ UNCHANGED <<state, issuances, issue, poll, told, melted, deaths>>
-----------------------------------------------------------------------------
(* The supply.  What melts spend is anybody's coins, so the supply that is *)
(* issued goes down without a quote of this issuer.                        *)
In(states) == Cardinality({q \in Quotes : state[q] \in states})
Outstanding == In({"ISSUED"}) - melted
Reserved == Cardinality({q \in Quotes \ expired : state[q] \in {"UNPAID", "PAID"}})

Fits(n) == SupplyCap = 0 \/ n + 1 <= SupplyCap
Room == Fits(Outstanding)

Melt ==
  /\ melted < In({"ISSUED"})
  /\ melted' = melted + 1
  /\ UNCHANGED <<state, expired, issuances, issue, poll, told, deaths>>
-----------------------------------------------------------------------------
(* The issuer.                                                             *)
FundedBy(f) == {q \in Quotes : <<f, q>> \in issuances}
Funded(q) == \E f \in Refs : <<f, q>> \in issuances
Ends(i) == issue' = [issue EXCEPT ![i] = NoIssue]

(* The reference is looked up: it replays, or is refused for another quote.*)
(* An issuer repeats its calls, and may reuse a reference by mistake.      *)
LookUp(i, f, q) ==
  /\ issue[i].at = "idle" /\ state[q] # "NONE"
  /\ IF FundedBy(f) = {}
     THEN issue' = [issue EXCEPT ![i] = [at |-> "quote", ref |-> f, quote |-> q]]
          /\ UNCHANGED told
     ELSE told' = told \cup {<<f, p>> : p \in FundedBy(f) \cap {q}} /\ UNCHANGED issue
  /\ UNCHANGED <<state, expired, issuances, poll, melted, deaths>>

(* The quote is read: only an open one goes on.                            *)
ReadQuote(i) ==
  LET q == issue[i].quote IN
  /\ issue[i].at = "quote"
  /\ IF state[q] = "UNPAID" /\ q \notin expired
     THEN issue' = [issue EXCEPT ![i].at = "insert"]
     ELSE Ends(i)
  /\ UNCHANGED <<state, expired, issuances, poll, told, melted, deaths>>

(* The insert fails if the reference or the quote is in the table by now.  *)
(* Defect: the reference is not unique.                                    *)
FreeQuote(f, q) == ~Funded(q)

Free(f, q) == FundedBy(f) = {} /\ ~Funded(q)

Insert(i) ==
  LET f == issue[i].ref
      q == issue[i].quote
  IN
  /\ issue[i].at = "insert"
  /\ IF Free(f, q)
     THEN issuances' = issuances \cup {<<f, q>>} /\ told' = told \cup {<<f, q>>}
     ELSE UNCHANGED <<issuances, told>>
  /\ Ends(i)
  /\ UNCHANGED <<state, expired, poll, melted, deaths>>

(* The answer of an insert that succeeded is lost.                         *)
InsertUnheard(i) ==
  /\ issue[i].at = "insert" /\ Free(issue[i].ref, issue[i].quote)
  /\ issuances' = issuances \cup {<<issue[i].ref, issue[i].quote>>}
  /\ Dies
  /\ Ends(i)
  /\ UNCHANGED <<state, expired, poll, told, melted>>

IssueDies(i) ==
  /\ issue[i].at # "idle"
  /\ Dies
  /\ Ends(i)
  /\ UNCHANGED <<state, expired, issuances, poll, told, melted>>
-----------------------------------------------------------------------------
(* The wallet.                                                             *)
Stops(w) == poll' = [poll EXCEPT ![w] = NoPoll]

Polls(w, q, mints) ==
  poll' = [poll EXCEPT ![w] =
    [at |-> IF state[q] = "UNPAID" THEN "deposit" ELSE "issue", quote |-> q,
     mints |-> mints]]

(* POST /v1/mint/quote: what is outstanding and what unexpired quotes      *)
(* reserve must leave room for one more; the row is inserted later, so two *)
(* requests may both find the last room.  The id is drawn at random: it is *)
(* one that nobody has.                                                    *)
PostQuote(w, q) ==
  /\ poll[w].at = "idle" /\ Fits(Outstanding + Reserved)
  /\ state[q] = "NONE" /\ \A v \in Wallets : poll[v].quote # q
  /\ poll' = [poll EXCEPT ![w] = [at |-> "insert", quote |-> q, mints |-> FALSE]]
  /\ UNCHANGED <<state, expired, issuances, issue, told, melted, deaths>>

InsertQuote(w) ==
  /\ poll[w].at = "insert"
  /\ state' = [state EXCEPT ![poll[w].quote] = "UNPAID"]
  /\ Stops(w)
  /\ UNCHANGED <<expired, issuances, issue, told, melted, deaths>>

(* GET /v1/mint/quote/:id polls the oracle for an unpaid quote.            *)
GetQuote(w, q) ==
  /\ poll[w].at = "idle" /\ state[q] = "UNPAID"
  /\ Polls(w, q, FALSE)
  /\ UNCHANGED <<state, expired, issuances, issue, told, melted, deaths>>

(* POST /v1/mint refuses an unpaid quote that expired, and polls others.   *)
PostMint(w, q) ==
  /\ poll[w].at = "idle" /\ state[q] \in {"UNPAID", "PAID"}
  /\ ~(state[q] = "UNPAID" /\ q \in expired)
  /\ Polls(w, q, TRUE)
  /\ UNCHANGED <<state, expired, issuances, issue, told, melted, deaths>>

(* CreditLedger.getDeposit; a quote without an issuance is not flipped.    *)
GetDeposit(w) ==
  /\ poll[w].at = "deposit"
  /\ IF Funded(poll[w].quote)
     THEN poll' = [poll EXCEPT ![w].at = "flip"]
     ELSE Stops(w)
  /\ UNCHANGED <<state, expired, issuances, issue, told, melted, deaths>>

(* Defect: an expired quote is not flipped.                                *)
FlipInTime(w) ==
  LET q == poll[w].quote IN
  /\ poll[w].at = "flip"
  /\ state' = [state EXCEPT ![q] = IF @ = "UNPAID" /\ q \notin expired THEN "PAID" ELSE @]
  /\ IF poll[w].mints THEN poll' = [poll EXCEPT ![w].at = "issue"]
                      ELSE Stops(w)
  /\ UNCHANGED <<expired, issuances, issue, told, melted, deaths>>

(* UPDATE ... WHERE state = 'UNPAID'.                                      *)
Flip(w) ==
  LET q == poll[w].quote IN
  /\ poll[w].at = "flip"
  /\ state' = [state EXCEPT ![q] = IF @ = "UNPAID" THEN "PAID" ELSE @]
  /\ IF poll[w].mints THEN poll' = [poll EXCEPT ![w].at = "issue"]
                      ELSE Stops(w)
  /\ UNCHANGED <<expired, issuances, issue, told, melted, deaths>>

(* The transaction of POST /v1/mint looks at the row again, and refuses a  *)
(* paid quote that would exceed the cap: the quote then stays paid.        *)
Issue(w) ==
  LET q == poll[w].quote IN
  /\ poll[w].at = "issue"
  /\ state' = [state EXCEPT ![q] = IF @ = "PAID" /\ Room THEN "ISSUED" ELSE @]
  /\ Stops(w)
  /\ UNCHANGED <<expired, issuances, issue, told, melted, deaths>>

PollDies(w) ==
  /\ poll[w].at # "idle"
  /\ Dies
  /\ Stops(w)
  /\ UNCHANGED <<state, expired, issuances, issue, told, melted>>

Next ==
  \/ Melt
  \/ \E q \in Quotes : Expire(q)
  \/ \E i \in Issuers :
       \/ \E f \in Refs, q \in Quotes : LookUp(i, f, q)
       \/ ReadQuote(i) \/ Insert(i) \/ InsertUnheard(i) \/ IssueDies(i)
  \/ \E w \in Wallets :
       \/ \E q \in Quotes : PostQuote(w, q) \/ GetQuote(w, q) \/ PostMint(w, q)
       \/ InsertQuote(w) \/ GetDeposit(w) \/ Flip(w) \/ Issue(w) \/ PollDies(w)

Spec == Init /\ [][Next]_vars
-----------------------------------------------------------------------------
(* A call goes on, and wallets poll and mint every quote again and again.  *)
Fairness ==
  /\ WF_vars(\E w \in Wallets : InsertQuote(w) \/ GetDeposit(w) \/ Flip(w) \/ Issue(w))
  /\ \A q \in Quotes : SF_vars(\E w \in Wallets : GetQuote(w, q))
                      /\ SF_vars(\E w \in Wallets : PostMint(w, q))

(* Credit is created once: a reference funds one quote, what the issuer    *)
(* was told is what the table says, and every quote that is payable or     *)
(* issued is one that a reference funds, whatever is retried or runs       *)
(* concurrently (vault-credit.ts:53-72).                                   *)
CreditOnce ==
  /\ \A f \in Refs : \A p, q \in FundedBy(f) : p = q
  /\ told \subseteq issuances
  /\ \A q \in Quotes : state[q] \in {"PAID", "ISSUED"} => Funded(q)

(* What is funded is minted in the end, or the cap stands in the way again *)
(* and again: a funded quote that expired reserves no room any more, so    *)
(* others may take it, and is refused until melts free the supply; from    *)
(* then on it is issued (routes/mint.ts:145, "retry after supply frees     *)
(* up").  This holds also when the quote expired before anybody polled it: *)
(* POST /v1/mint answers QUOTE_EXPIRED then, and only the poll of GET      *)
(* /v1/mint/quote/:id opens the way (routes/mint.ts:117).                  *)
FundedIsMintable == <>[]Room => \A q \in Quotes : Funded(q) ~> state[q] = "ISSUED"
=============================================================================
