---------------------------- MODULE AtomicLedger ----------------------------
(***************************************************************************)
(* The ledger of the mint's database as its transactions are meant to use  *)
(* it: each takes all of its keys at once, or none.  A key is the row of a *)
(* quote or a melt that is closed, of spent_secrets or of blind_signatures.*)
(***************************************************************************)
CONSTANTS
  Quotes, Melts, Tokens,
  Circulating,  \* coins signed before the behaviour starts
  Worth         \* Worth[S]: the sum of the denominations of the coins in S

VARIABLE taken

Rows(table, ids) == [table: {table}, id: ids]

Take(keys) ==
  /\ keys \cap taken = {}
  /\ taken' = taken \cup keys

Supply == {t \in Tokens : Rows("signed", {t}) \subseteq taken}

Issue(q) ==
  \E outs \in SUBSET Tokens : Take(Rows("quote", {q}) \cup Rows("signed", outs))

Swap ==
  \E ins \in SUBSET Supply, outs \in SUBSET (Tokens \ Supply) :
    /\ Worth[ins] = Worth[outs]
    /\ Take(Rows("spent", ins) \cup Rows("signed", outs))

Melt(m) ==
  \E ins \in SUBSET Supply : Take(Rows("melt", {m}) \cup Rows("spent", ins))

Init == taken = Rows("signed", Circulating)

Next ==
  \/ \E q \in Quotes : Issue(q)
  \/ Swap
  \/ \E m \in Melts : Melt(m)

Spec == Init /\ [][Next]_taken
=============================================================================
