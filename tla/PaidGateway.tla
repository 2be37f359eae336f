---------------------------- MODULE PaidGateway ----------------------------
(***************************************************************************)
(* The paid LLM proxy: a request without a credential is answered with a   *)
(* challenge for its price; one with a credential is compared with the     *)
(* price of its own body, accepted, settled at the mint, and forwarded.    *)
(* Requests race each other; the replay state is in the memory of the      *)
(* process (MemoryAcceptorStore), which evicts and restarts.               *)
(*                                                                         *)
(* The store answers at once, so what a handler does between two network   *)
(* calls is one step.  A coin is worth one base unit and is bound to       *)
(* nothing but the proxy.                                                  *)
(***************************************************************************)
EXTENDS Integers, Sequences, FiniteSets

CONSTANTS
  Requests,    \* handlers of POST /v1/chat/completions
  Bodies,      \* [model, tokens]; tokens is Unset when the body has none
  Tiers,       \* the price table: a sequence of [models, base, per1k]
  Unset,
  Unit,        \* micro-dollars in a base unit of the token
  Challenges,  \* ids that mppx draws
  Coins,
  MaxKept,     \* maxChallenges of the store
  MaxFaults    \* bound on restarts, failing calls and lost answers

VARIABLES
  priced,    \* priced[c]: the amount challenge c was issued for, 0 if it was not
  lapsed,    \* challenges past their expiry
  kept,      \* the store's challenges, the oldest first: [id, coins, settlement]
  seen,      \* coins the store saw: <<coin, challenge>>
  spent,     \* coins spent at the mint
  took,      \* took[c]: what the proxy received for c
  used,      \* used[c]: the price of the upstream calls made for c
  request,   \* request[r]: a handler
  faults

vars == <<priced, lapsed, kept, seen, spent, took, used, request, faults>>

NoRequest == [at |-> "idle", body |-> Unset, id |-> Unset, coins |-> {}]
Rows == [id : Challenges, coins : SUBSET Coins, settlement : {"pending", "settled", "double-spent"}]

TypeOK ==
  /\ priced \in [Challenges -> Nat]
  /\ lapsed \subseteq Challenges
  /\ \A i \in DOMAIN kept : kept[i] \in Rows
  /\ seen \subseteq Coins \X Challenges
  /\ spent \subseteq Coins
  /\ took \in [Challenges -> Nat] /\ used \in [Challenges -> Nat]
  /\ request \in [Requests ->
       [at : {"idle", "accept", "swap", "put", "put_spent", "forward"},
        body : Bodies \cup {Unset}, id : Challenges \cup {Unset}, coins : SUBSET Coins]]
  /\ faults \in 0..MaxFaults
-----------------------------------------------------------------------------
(* The price of a body.  A body without max_tokens counts 1024, more than  *)
(* 32768 count as that, less than 1 is refused; the first tier that names  *)
(* the model applies, and the last names every model.                      *)
Asked(b) == IF b.tokens = Unset THEN 1024 ELSE b.tokens
Effective(b) == IF Asked(b) > 32768 THEN 32768 ELSE Asked(b)

Tier(b) ==
  Tiers[CHOOSE i \in DOMAIN Tiers :
    /\ b.model \in Tiers[i].models
    /\ \A j \in DOMAIN Tiers : b.model \in Tiers[j].models => i <= j]

Micros(b) == Tier(b).base + Tier(b).per1k * ((Effective(b) + 999) \div 1000)

(* toBaseUnits throws at decimals the token does not have.                 *)
Payable(b) == Asked(b) >= 1 /\ Micros(b) % Unit = 0
Price(b) == Micros(b) \div Unit
-----------------------------------------------------------------------------
Init ==
  /\ priced = [c \in Challenges |-> 0]
  /\ lapsed = {}
  /\ kept = <<>>
  /\ seen = {}
  /\ spent = {}
  /\ took = [c \in Challenges |-> 0]
  /\ used = [c \in Challenges |-> 0]
  /\ request = [r \in Requests |-> NoRequest]
  /\ faults = 0

Fault == faults < MaxFaults /\ faults' = faults + 1
Goes(r, at) == request' = [request EXCEPT ![r].at = at]
Ends(r) == request' = [request EXCEPT ![r] = NoRequest]

(* 402: a challenge for the price of this body.                            *)
Ask(b) ==
  /\ Payable(b) /\ Price(b) > 0
  /\ \E c \in Challenges :
       /\ priced[c] = 0
       /\ priced' = [priced EXCEPT ![c] = Price(b)]
  /\ UNCHANGED <<lapsed, kept, seen, spent, took, used, request, faults>>

(* Defect: any challenge of the proxy will do.                             *)
AnyIssued(b, c) == priced[c] > 0

(* A credential for another price is dropped, and the request asks.        *)
Matches(b, c) == priced[c] = Price(b)

Present(r, b, c, coins) ==
  /\ request[r].at = "idle" /\ Payable(b) /\ priced[c] > 0
  /\ Cardinality(coins) = priced[c]
  /\ Matches(b, c)
  /\ request' = [request EXCEPT ![r] = [at |-> "accept", body |-> b, id |-> c, coins |-> coins]]
  /\ UNCHANGED <<priced, lapsed, kept, seen, spent, took, used, faults>>

(* validate, then verifyCredential: single use, expiry, no coin seen.      *)
Kept(c) == {i \in DOMAIN kept : kept[i].id = c}
Fresh(c, coins) ==
  /\ Kept(c) = {} /\ c \notin lapsed
  /\ \A y \in coins, d \in Challenges : <<y, d>> \notin seen

(* Accepted and, in the same breath, read back by settle.                  *)
Accept(r) ==
  LET c == request[r].id
      coins == request[r].coins
  IN
  /\ request[r].at = "accept"
  /\ IF Fresh(c, coins)
     THEN /\ kept' = Append(kept, [id |-> c, coins |-> coins, settlement |-> "pending"])
          /\ seen' = seen \cup coins \X {c}
          /\ Goes(r, "swap")
     ELSE UNCHANGED <<kept, seen>> /\ Ends(r)
  /\ UNCHANGED <<priced, lapsed, spent, took, used, faults>>

(* The mint is the judge of double spending.                               *)
Swap(r) ==
  LET c == request[r].id
      coins == request[r].coins
  IN
  /\ request[r].at = "swap"
  /\ IF coins \cap spent = {}
     THEN /\ spent' = spent \cup coins
          /\ took' = [took EXCEPT ![c] = @ + Cardinality(coins)]
          /\ Goes(r, "put")
     ELSE UNCHANGED <<spent, took>> /\ Goes(r, "put_spent")
  /\ UNCHANGED <<priced, lapsed, kept, seen, used, faults>>

(* The swap throws; whether the mint did it is not known here.             *)
SwapFails(r) ==
  /\ request[r].at = "swap" /\ request[r].coins \cap spent = {}
  /\ Fault
  /\ spent' \in {spent, spent \cup request[r].coins}
  /\ Ends(r)
  /\ UNCHANGED <<priced, lapsed, kept, seen, took, used>>

(* putChallenge sweeps, then writes: the oldest challenges above the limit *)
(* go, and coins seen a day ago, when their challenge is long over.        *)
Swept ==
  LET over == Len(kept) - MaxKept
  IN IF over > 0 THEN SubSeq(kept, over + 1, Len(kept)) ELSE kept

Put(row) ==
  kept' = IF \E i \in DOMAIN Swept : Swept[i].id = row.id
          THEN [i \in DOMAIN Swept |-> IF Swept[i].id = row.id THEN row ELSE Swept[i]]
          ELSE Append(Swept, row)

PutReceipt(r) ==
  /\ request[r].at \in {"put", "put_spent"}
  /\ Put([id |-> request[r].id, coins |-> request[r].coins,
          settlement |-> IF request[r].at = "put" THEN "settled" ELSE "double-spent"])
  /\ \E gone \in SUBSET {y \in seen : y[2] \in lapsed} : seen' = seen \ gone
  /\ IF request[r].at = "put" THEN Goes(r, "forward") ELSE Ends(r)
  /\ UNCHANGED <<priced, lapsed, spent, took, used, faults>>

(* The upstream call, which costs the proxy money whatever it returns.     *)
Forward(r) ==
  /\ request[r].at = "forward"
  /\ used' = [used EXCEPT ![request[r].id] = @ + Price(request[r].body)]
  /\ Ends(r)
  /\ UNCHANGED <<priced, lapsed, kept, seen, spent, took, faults>>

PayerSpends(y) ==
  /\ y \notin spent
  /\ spent' = spent \cup {y}
  /\ UNCHANGED <<priced, lapsed, kept, seen, took, used, request, faults>>

Lapse(c) ==
  /\ priced[c] > 0 /\ c \notin lapsed
  /\ lapsed' = lapsed \cup {c}
  /\ UNCHANGED <<priced, kept, seen, spent, took, used, request, faults>>

(* The process starts again with an empty store.                           *)
Restart ==
  /\ Fault
  /\ kept' = <<>> /\ seen' = {}
  /\ request' = [r \in Requests |-> NoRequest]
  /\ UNCHANGED <<priced, lapsed, spent, took, used>>

Next ==
  \/ Restart
  \/ \E b \in Bodies : Ask(b)
  \/ \E r \in Requests :
       \/ \E b \in Bodies, c \in Challenges, coins \in SUBSET Coins : Present(r, b, c, coins)
       \/ Accept(r) \/ Swap(r) \/ SwapFails(r) \/ PutReceipt(r) \/ Forward(r)
  \/ \E y \in Coins : PayerSpends(y)
  \/ \E c \in Challenges : Lapse(c)

Spec == Init /\ [][Next]_vars
-----------------------------------------------------------------------------
(* What the proxy buys upstream was paid for: for every challenge, the     *)
(* price of the calls made on it never passes what the proxy received for  *)
(* it at the mint, also when credentials are replayed for another body,    *)
(* race each other, are double-spent, or return after the store forgot     *)
(* them (app.ts:8-12, 118-143; mppx.ts:179-188).                           *)
ServedIsPaid == \A c \in Challenges : used[c] <= took[c]
=============================================================================
