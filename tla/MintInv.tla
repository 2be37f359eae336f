------------------------------ MODULE MintInv ------------------------------
(***************************************************************************)
(* The inductive invariant of Mint: what the tables say about each other   *)
(* and about the chain, and what a handler knows at each of its awaits.    *)
(* Everything a handler read before an await and uses after it is in       *)
(* CallOK: it must still be true then, whatever ran in between.            *)
(***************************************************************************)
EXTENDS Mint

LedgerOK ==
  /\ held \subseteq signed
  /\ spent \subseteq signed

QuoteOK(q) ==
  /\ quote[q].state \in {"PAID", "ISSUED"} => quote[q].amount <= deposit[q]
  /\ quote[q].state = "ISSUED" => issued[q] # {} /\ Worth[issued[q]] = quote[q].amount
  /\ quote[q].state # "ISSUED" => issued[q] = {}
  /\ issued[q] \subseteq signed
  /\ \A r \in Quotes \ {q} : issued[q] \cap issued[r] = {}

MeltOK(m) ==
  /\ melt[m].state # "NONE" => melt[m].amount >= 1
  /\ Consumed(m) => /\ melt[m].inputs # {}
                    /\ melt[m].inputs \subseteq spent
                    /\ Worth[melt[m].inputs] = melt[m].amount + Fee
  /\ ~Consumed(m) => melt[m].inputs = {}
  /\ m \in paid \cup mempool => Consumed(m)
  /\ melt[m].state = "PAID" => m \in paid

RowsOK ==
  /\ LedgerOK
  /\ \A q \in Quotes : QuoteOK(q)
  /\ \A m \in Melts : MeltOK(m)

CallOK(c) ==
  /\ c.at = "insert" => quote[c.quote].state = "NONE"
  /\ c.at \in {"poll", "flip", "sign"} => quote[c.quote].state # "NONE"
  /\ c.at = "flip" => quote[c.quote].amount <= deposit[c.quote]
  /\ c.at = "sign" => /\ quote[c.quote].state \in {"PAID", "ISSUED"}
                      /\ c.outs # {}
                      /\ Worth[c.outs] = quote[c.quote].amount
  /\ c.at = "reply" => c.sigs \subseteq signed
  /\ c.at = "consume" => /\ melt[c.melt].state # "NONE"
                         /\ c.ins # {} /\ c.ins \subseteq held
                         /\ Worth[c.ins] = melt[c.melt].amount + Fee
  /\ c.at \in {"ask", "settle", "submit", "wait", "landed", "owe"} => Consumed(c.melt)
  /\ c.at \in {"settle", "landed"} => c.melt \in paid

InsertsApart ==
  \A g, h \in Handlers :
    call[g].at = "insert" /\ call[h].at = "insert" /\ g # h => call[g].quote # call[h].quote

(* Inductive: it holds at the start, every step keeps it, and it implies    *)
(* the safety properties of Mint.                                          *)
IInv ==
  /\ TypeOK
  /\ RowsOK
  /\ \A h \in Handlers : CallOK(call[h])
  /\ InsertsApart
=============================================================================
