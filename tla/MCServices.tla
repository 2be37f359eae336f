----------------------------- MODULE MCServices -----------------------------
(* Values for model checking Services.                                     *)
EXTENDS Services, TLC

(* The factory creates two tokens, one of them above the first window.     *)
Creation == [t \in Tokens |-> CASE t \in Genesis -> 0 [] t = "a" -> 1 [] OTHER -> 3]

(* Deposit addresses: a vault whose ceiling is below the fee, one of       *)
(* another token, a good one, and an account without code.                 *)
Addresses ==
  [low   |-> [hasCode |-> TRUE, token |-> "usd", ceiling |-> 1],
   other |-> [hasCode |-> TRUE, token |-> "eur", ceiling |-> 3],
   good  |-> [hasCode |-> TRUE, token |-> "usd", ceiling |-> 3],
   eoa   |-> [hasCode |-> FALSE, token |-> "usd", ceiling |-> 0]]

(* Two holders of one symbol, of which one is a pinned major; figures      *)
(* around the tolerances of the checks.                                    *)
OneSymbol == [h \in Holders |-> "usdx"]
SomeFigures ==
  {[supply |-> x, cap |-> 0, paused |-> FALSE] : x \in {0, 60000, 100000, 100900, 120000}}
    \cup {[supply |-> 100900, cap |-> 100000, paused |-> FALSE],
          [supply |-> 100000, cap |-> 0, paused |-> TRUE]}
SomeReports ==
  {[supply |-> s, reserves |-> r, composed |-> FALSE, age |-> 60] :
     s \in {0, 100000}, r \in {80000, 91000, 100000}}
    \cup {[supply |-> 100000, reserves |-> 100000, composed |-> TRUE, age |-> 90000]}
SomeMarkets ==
  {[tempo |-> 100000, other |-> 0], [tempo |-> 100000, other |-> 500],
   [tempo |-> 60000, other |-> 40000]}

(* Locks to a merchant whose key has an odd y: from its npub or from its   *)
(* key, refunded to the owner or to nobody, with a second signer, and one  *)
(* that asks for more signatures than it names keys.                       *)
Offer(refund, pubkeys, n, locktime, npub) ==
  [data |-> "merchant", refund |-> refund, pubkeys |-> pubkeys, nSigs |-> n,
   locktime |-> locktime, npub |-> npub]
SomeOffers ==
  {Offer({"owner"}, {}, 1, 1, TRUE), Offer({"owner"}, {}, 1, 1, FALSE),
   Offer({}, {}, 1, 1, TRUE), Offer({"owner"}, {"agent"}, 2, 1, TRUE),
   Offer({"agent", "owner"}, {"agent"}, 1, 0, FALSE), Offer({"owner"}, {}, 2, 1, TRUE)}

(* Bodies of two prices, one without max_tokens at a price that is no      *)
(* multiple of the token's unit, and one that is refused.                  *)
SomeBodies ==
  {[model |-> "haiku", tokens |-> 1000], [model |-> "haiku", tokens |-> 1001],
   [model |-> "opus", tokens |-> Nothing], [model |-> "opus", tokens |-> 0]}
Table ==
  <<[models |-> {"haiku"}, base |-> 0, per1k |-> 100],
    [models |-> {"haiku", "opus"}, base |-> 50, per1k |-> 100]>>
=============================================================================
