------------------------------- MODULE MCMint -------------------------------
(* Values for model checking Mint.                                          *)
EXTENDS MintInv, TLC, Functions

CONSTANT Heavy   \* coins worth two units; the others are worth one

CoinWorth == [S \in SUBSET Tokens |-> Cardinality(S) + Cardinality(S \cap Heavy)]

QuoteTotal == [f \in PerQuote |-> SumFunction(f)]

Symmetry == Permutations(Tokens \ Heavy) \cup Permutations(Heavy)
              \cup Permutations(Handlers) \cup Permutations(Quotes) \cup Permutations(Melts)
=============================================================================
