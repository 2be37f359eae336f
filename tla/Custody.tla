------------------------------ MODULE Custody ------------------------------
(***************************************************************************)
(* What a mint with a vault promises, free of requests, retries, crashes   *)
(* and databases.  Every coin is signed once and spent once; new coins     *)
(* appear only against a deposit or in exchange for coins of equal worth;  *)
(* a payout leaves the vault once per melt, and only after coins covering  *)
(* it were burned for that melt.                                           *)
(***************************************************************************)
EXTENDS Money

VARIABLES
  vault,    \* the stablecoin the vault contract holds
  funded,   \* funded[q]: what was deposited under quote q's memo
  minted,   \* quotes whose coins were issued
  live,     \* coins in circulation
  dead,     \* coins spent
  claim,    \* claim[m]: the coins burned for melt m, {} before
  settled   \* melts that the vault has paid out

vars == <<vault, funded, minted, live, dead, claim, settled>>

Fresh(S) == S \cap (live \cup dead) = {}

Init ==
  /\ vault = 0
  /\ funded = [q \in Quotes |-> 0]
  /\ minted = {}
  /\ live = {}
  /\ dead = {}
  /\ claim = [m \in Melts |-> {}]
  /\ settled = {}

Fund(q, n) ==
  /\ funded[q] + n <= MaxDeposit
  /\ funded' = [funded EXCEPT ![q] = @ + n]
  /\ vault' = vault + n
  /\ UNCHANGED <<minted, live, dead, claim, settled>>

Issue(q, S) ==
  /\ q \notin minted
  /\ Fresh(S)
  /\ Worth[S] <= funded[q]
  /\ minted' = minted \cup {q}
  /\ live' = live \cup S
  /\ UNCHANGED <<vault, funded, dead, claim, settled>>

Exchange(S, T) ==
  /\ S \subseteq live
  /\ Fresh(T)
  /\ Worth[S] = Worth[T]
  /\ live' = (live \ S) \cup T
  /\ dead' = dead \cup S
  /\ UNCHANGED <<vault, funded, minted, claim, settled>>

Burn(m, S) ==
  /\ claim[m] = {}
  /\ S \subseteq live
  /\ live' = live \ S
  /\ dead' = dead \cup S
  /\ claim' = [claim EXCEPT ![m] = S]
  /\ UNCHANGED <<vault, funded, minted, settled>>

Pay(m, n) ==
  /\ m \notin settled
  /\ claim[m] # {}
  /\ n <= Worth[claim[m]]
  /\ vault' = vault - n
  /\ settled' = settled \cup {m}
  /\ UNCHANGED <<funded, minted, live, dead, claim>>

Next ==
  \/ \E q \in Quotes, n \in 1..MaxDeposit : Fund(q, n)
  \/ \E q \in Quotes, S \in SUBSET Tokens : Issue(q, S)
  \/ \E S, T \in SUBSET Tokens : Exchange(S, T)
  \/ \E m \in Melts, S \in SUBSET Tokens : Burn(m, S)
  \/ \E m \in Melts, n \in 1..MaxDeposit : Pay(m, n)

Spec == Init /\ [][Next]_vars

-----------------------------------------------------------------------------
(***************************************************************************)
(* What the vault must be able to honour: the coins in circulation, the    *)
(* coins burned for a melt it has not paid yet, and the deposits nobody    *)
(* has minted from.                                                        *)
(***************************************************************************)
Owed == UNION {claim[m] : m \in Melts \ settled}

Unissued == [q \in Quotes |-> IF q \in minted THEN 0 ELSE funded[q]]

(* Solvency (solvency.ts:10, SECURITY.md:20): the vault always covers every *)
(* claim on it, including payouts that are due and not made.               *)
Solvent == vault >= Worth[live] + Worth[Owed] + Total[Unissued]

TypeOK ==
  /\ vault \in Int
  /\ funded \in PerQuote
  /\ minted \subseteq Quotes
  /\ live \subseteq Tokens
  /\ dead \subseteq Tokens
  /\ claim \in [Melts -> SUBSET Tokens]
  /\ settled \subseteq Melts
=============================================================================
