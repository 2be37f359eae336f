---------------------------- MODULE Recognition ----------------------------
(***************************************************************************)
(* What one refresh of the reserves dashboard concludes from its sources:  *)
(* which tokens it tracks, which holder of a symbol carries the symbol's   *)
(* recognition, and how the reconciliation checks come out.  Each source   *)
(* may fail, and then says nothing: a token's live reads, the issuer's     *)
(* report of a symbol, the market's list.                                  *)
(*                                                                         *)
(* Amounts are micro-units, as in the code.  Ties between holders, broken  *)
(* by registry order in the code, are broken by CHOOSE.                    *)
(***************************************************************************)
EXTENDS Integers, FiniteSets

CONSTANTS
  Tokens, SymbolOf,   \* registered tokens that have metadata, their symbols
  Pinned,             \* MAJOR_ADDRESSES
  Slugs,              \* symbols for which the issuer publishes a report
  Figures,            \* live figures: [supply, cap, paused]; a cap of 0 was not read
  Reports,            \* issuer reports: [supply, reserves, composed, age]
  Markets             \* market entries with a Tempo leg: [tempo, other]

VARIABLES live, active, reports, markets, shown
vars == <<live, active, reports, markets, shown>>

Symbols == {SymbolOf[t] : t \in Tokens}
Absent == [absent |-> TRUE]
OneCent == 10000
Day == 86400
SymbolBound == {"attested", "listed", "major"}

Reports0 == Reports \cup {Absent}
Markets0 == Markets \cup {Absent}

TypeOK ==
  /\ live \in [Tokens -> Figures \cup {Absent}]
  /\ active \subseteq Tokens
  /\ reports \in [Slugs -> Reports0]
  /\ markets \in [Symbols -> Markets0]
  /\ shown \in SUBSET [token : Tokens, status : {"ok", "attention", "unattested"},
                       tracked : SUBSET (SymbolBound \cup {"active", "collision"})]

Read(t) == live[t] # Absent
Supply(t) == live[t].supply

(* bridgeSlugFor, the listed symbols, the pinned addresses and the log of  *)
(* transfers each give a reason to track a token.                          *)
Reasons(t) ==
  {why \in SymbolBound \cup {"active"} :
     CASE why = "attested" -> SymbolOf[t] \in Slugs
       [] why = "listed"   -> markets[SymbolOf[t]] # Absent
       [] why = "major"    -> t \in Pinned
       [] why = "active"   -> t \in active}

Tracked == {t \in Tokens : Read(t) /\ Reasons(t) # {}}
Group(s) == {t \in Tracked : SymbolOf[t] = s}

(* The figures a symbol is held to, 0 when no source gives one.            *)
IssuerTotal(s) == IF s \in Slugs /\ reports[s] # Absent THEN reports[s].supply ELSE 0
MarketTempo(s) == IF markets[s] # Absent THEN markets[s].tempo ELSE 0
HasReference(s) == IssuerTotal(s) > 0 \/ MarketTempo(s) > 0

Eligible(t) ==
  LET s == SymbolOf[t]
  IN IF IssuerTotal(s) > 0 THEN Supply(t) * 10000 <= IssuerTotal(s) * 10100
     ELSE MarketTempo(s) > 0 => Supply(t) * 10000 <= MarketTempo(s) * 20000

Abs(x) == IF x < 0 THEN -x ELSE x

(* Among the holders a reference allows the one closest to it, none when   *)
(* it allows none; without a reference the largest.                        *)
PickCanonical(s) ==
  LET target == IF MarketTempo(s) > 0 THEN MarketTempo(s) ELSE IssuerTotal(s)
      ok == IF HasReference(s) THEN {t \in Group(s) : Eligible(t)} ELSE Group(s)
      better(t, u) == IF HasReference(s)
                      THEN Abs(Supply(t) - target) <= Abs(Supply(u) - target)
                      ELSE Supply(t) >= Supply(u)
  IN IF ok = {} THEN {} ELSE {CHOOSE t \in ok : \A u \in ok : better(t, u)}

Contested(s) == HasReference(s) \/ \E t \in Group(s) : Reasons(t) \cap SymbolBound # {}

Canonical(t) == Contested(SymbolOf[t]) => t \in PickCanonical(SymbolOf[t])

Resolved(t) == IF Canonical(t) THEN Reasons(t)
               ELSE (Reasons(t) \ SymbolBound) \cup {"collision"}
-----------------------------------------------------------------------------
Within(a, b, bps) == Abs(a - b) * 10000 <= (IF a > b THEN a ELSE b) * bps
Covers(reserves, supply) == supply - reserves <= OneCent
Verdict(ok) == IF ok THEN "green" ELSE "red"

(* The other chains' supply, of the market entry the symbol matches.       *)
Others(t) == LET m == markets[SymbolOf[t]]
             IN IF Canonical(t) /\ m # Absent THEN m.other ELSE 0
AllChains(t) == Supply(t) + Others(t)

(* The report a token is shown with: only the canonical holder has one.    *)
Issuer(t) == IF Canonical(t) /\ SymbolOf[t] \in Slugs THEN reports[SymbolOf[t]] ELSE Absent

(* Defect: more on Tempo than reported is let through as a near match.     *)
NearMatch(t) ==
  LET reported == Issuer(t).supply
      multi == Others(t) > 0
  IN IF Within(AllChains(t), reported, 10) THEN "green"
     ELSE IF multi /\ Within(AllChains(t), reported, 200) THEN "grey"
     ELSE IF AllChains(t) > reported \/ multi THEN "red" ELSE "grey"

SupplyMatchesChain(t) ==
  LET reported == Issuer(t).supply
      multi == Others(t) > 0
  IN IF Supply(t) > reported /\ ~Within(Supply(t), reported, 1) THEN "red"
     ELSE IF Within(AllChains(t), reported, 10) THEN "green"
     ELSE IF multi /\ Within(AllChains(t), reported, 200) THEN "grey"
     ELSE IF AllChains(t) > reported \/ multi THEN "red" ELSE "grey"

ReservesCoverChain(t) ==
  LET reserves == Issuer(t).reserves
      all == Covers(reserves, AllChains(t))
      multi == Others(t) > 0
  IN IF Supply(t) = 0 /\ ~multi THEN "grey"
     ELSE IF /\ ~all /\ multi
             /\ Covers(reserves, Supply(t)) /\ Within(AllChains(t), reserves, 200)
     THEN "grey" ELSE Verdict(all)

(* Everything the issuer's report is asked, and the token itself.          *)
IssuerChecks(t) ==
  IF Issuer(t) = Absent THEN {"grey"}
  ELSE {Verdict(Covers(Issuer(t).reserves, Issuer(t).supply)),
        SupplyMatchesChain(t), ReservesCoverChain(t),
        Verdict(Issuer(t).age <= Day),
        IF Issuer(t).composed THEN "green" ELSE "grey"}

TokenChecks(t) ==
  {IF live[t].cap = 0 THEN "grey" ELSE Verdict(Supply(t) <= live[t].cap),
   Verdict(~live[t].paused), Verdict(Canonical(t))}

Status(t) == IF Issuer(t) = Absent THEN "unattested"
             ELSE IF "red" \in IssuerChecks(t) \cup TokenChecks(t) THEN "attention" ELSE "ok"

(* A look-alike that did not move is dropped, all others are shown.        *)
Snapshot == {[token |-> t, status |-> Status(t), tracked |-> Resolved(t)] :
               t \in {u \in Tracked : Resolved(u) # {"collision"}}}
-----------------------------------------------------------------------------
(* The sources answer, or fail; then the snapshot is assembled.            *)
Init ==
  /\ live \in [Tokens -> Figures \cup {Absent}]
  /\ active \in SUBSET Tokens
  /\ reports \in [Slugs -> Reports0]
  /\ markets \in [Symbols -> Markets0]
  /\ shown = {}

Refresh == shown' = Snapshot /\ UNCHANGED <<live, active, reports, markets>>

Next == Refresh
Spec == Init /\ [][Next]_vars
-----------------------------------------------------------------------------
(* A token shown as ok is backed as far as anybody can see: it is the only *)
(* one of its symbol shown so, the issuer reported, no more is on Tempo    *)
(* than the issuer says exists, and the reserves cover it up to a cent,    *)
(* whichever holders share the symbol and whichever sources failed.        *)
OkIsBacked ==
  \A e \in shown : e.status = "ok" =>
    LET t == e.token
        report == reports[SymbolOf[t]]
    IN /\ report # Absent
       /\ Supply(t) > report.supply => Within(Supply(t), report.supply, 1)
       /\ Covers(report.reserves, Supply(t))
       /\ \A o \in shown : o.status = "ok" /\ SymbolOf[o.token] = SymbolOf[t] => o = e
=============================================================================
