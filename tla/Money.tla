------------------------------- MODULE Money -------------------------------
(***************************************************************************)
(* The identifiers and amounts every module of the mint shares.            *)
(*                                                                         *)
(* A token stands for one ecash coin over its whole life.  The blinded     *)
(* message B_ a client asks the mint to sign, the secret under it and the  *)
(* ledger key Y = hashToCurve(secret) are in one-to-one correspondence, so *)
(* one identifier plays all three parts: it is in blind_signatures.b once  *)
(* signed and in spent_secrets.y once spent.                               *)
(***************************************************************************)
EXTENDS Integers, FiniteSets

CONSTANTS
  Quotes,      \* ids of mint quotes (32 random bytes in the code)
  Melts,       \* ids of melt quotes
  Tokens,      \* coins that clients may ask for and spend
  MaxDeposit,  \* bound on what one quote can receive on chain
  Worth,       \* Worth[S]: the sum of the denominations of the tokens in S
  Total        \* Total[f]: the sum of f[q] over all quotes q

(***************************************************************************)
(* Worth and Total are the sums the code computes with Array.reduce and    *)
(* with SQL's SUM.  They are parameters, so that a proof can rest on the   *)
(* facts about sums stated here; a run gives them their actual values and  *)
(* TLC evaluates these assumptions on them.                                *)
(***************************************************************************)
PerQuote == [Quotes -> 0..MaxDeposit]

ASSUME BoundsAssumption == MaxDeposit \in Nat

ASSUME WorthAssumption ==
  /\ Worth \in [SUBSET Tokens -> Nat]
  /\ Worth[{}] = 0
  /\ \A S, T \in SUBSET Tokens :
       S \cap T = {} => Worth[S \cup T] = Worth[S] + Worth[T]

ASSUME TotalAssumption ==
  /\ Total \in [PerQuote -> Nat]
  /\ Total[[q \in Quotes |-> 0]] = 0
  /\ \A f \in PerQuote, q \in Quotes, n \in 0..MaxDeposit :
       Total[[f EXCEPT ![q] = n]] = Total[f] - f[q] + n
=============================================================================
