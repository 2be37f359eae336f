----------------------------- MODULE MCPgLedger -----------------------------
(* Values for model checking PgLedger.                                      *)
EXTENDS PgLedger, TLC

Symmetry == Permutations(Backends) \cup Permutations(Quotes)
              \cup Permutations(Tokens \ Circulating) \cup Permutations(Circulating)
=============================================================================
