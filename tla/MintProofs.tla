----------------------------- MODULE MintProofs -----------------------------
(* Proofs about Mint, for every number of handlers, quotes, melts and coins,*)
(* every worth of the coins and every cap, fee and bound on faults.         *)
EXTENDS MintInv, TLAPS

(* What no step ever undoes.  A handler that waits can rely on it.          *)
Growth ==
  /\ signed \subseteq signed' /\ held \subseteq held' /\ paid \subseteq paid'
  /\ \A q \in Quotes :
       /\ deposit[q] <= deposit'[q]
       /\ quote[q].state # "NONE" =>
            quote'[q].state # "NONE" /\ quote'[q].amount = quote[q].amount
       /\ quote[q].state \in {"PAID", "ISSUED"} => quote'[q].state \in {"PAID", "ISSUED"}
  /\ \A m \in Melts :
       /\ melt[m].state # "NONE" =>
            melt'[m].state # "NONE" /\ melt'[m].amount = melt[m].amount
       /\ Consumed(m) => Consumed(m)'

(* A handler's place tells which locals it has.                             *)
LEMMA CallTypes ==
  ASSUME TypeOK, NEW h \in Handlers
  PROVE  /\ call[h] \in Calls
         /\ call[h].at = "insert" => call[h] \in QuoteCalls
         /\ call[h].at \in {"poll", "flip", "sign"} => call[h] \in MintCalls
         /\ call[h].at \in {"consume", "ask", "settle", "submit", "wait", "landed", "owe"}
              => call[h] \in MeltCalls
         /\ call[h].at = "reply" => call[h] \in Replies
BY DEF TypeOK, Calls, Idle, QuoteCalls, MintCalls, MeltCalls, Replies

LEMMA AmountTypes ==
  ASSUME TypeOK
  PROVE  /\ \A q \in Quotes : quote[q].amount \in Nat /\ deposit[q] \in Nat
         /\ \A m \in Melts : melt[m].amount \in Nat
BY BoundsAssumption, ConfigAssumption DEF TypeOK, QuoteRows, MeltRows, PerQuote

(* Tables that only grew leave what a waiting handler knows true.           *)
LEMMA OthersStay ==
  ASSUME TypeOK, TypeOK', Growth, NEW g \in Handlers, CallOK(call[g]), call'[g] = call[g],
         call[g].at = "insert" => quote'[call[g].quote].state = "NONE"
  PROVE  CallOK(call[g])'
<1>1. CASE call[g].at = "insert"
  BY <1>1 DEF CallOK
<1>2. CASE call[g].at \in {"poll", "flip", "sign"}
  <2>1. call[g].quote \in Quotes
    BY <1>2, CallTypes DEF MintCalls
  <2> QED
    BY <1>2, <2>1, AmountTypes DEF CallOK, Growth, TypeOK, PerQuote
<1>3. CASE call[g].at \in {"consume", "ask", "settle", "submit", "wait", "landed", "owe"}
  <2>1. call[g].melt \in Melts
    BY <1>3, CallTypes DEF MeltCalls
  <2> QED
    BY <1>3, <2>1 DEF CallOK, Growth
<1>4. CASE call[g].at = "reply"
  BY <1>4 DEF CallOK, Growth
<1>5. CASE call[g].at = "idle"
  BY <1>5 DEF CallOK
<1> QED
  BY <1>1, <1>2, <1>3, <1>4, <1>5, CallTypes
     DEF Calls, Idle, QuoteCalls, MintCalls, MeltCalls, Replies

LEMMA Frame ==
  ASSUME IInv, TypeOK', RowsOK', Growth, InsertsApart',
         \A g \in Handlers :
           \/ /\ call'[g] = call[g]
              /\ call[g].at = "insert" => quote'[call[g].quote].state = "NONE"
           \/ CallOK(call[g])'
  PROVE  IInv'
<1>1. ASSUME NEW g \in Handlers PROVE CallOK(call[g])'
  BY OthersStay DEF IInv
<1> QED
  BY <1>1 DEF IInv

LEMMA InitOK == Init => IInv
<1> SUFFICES ASSUME Init PROVE IInv
  OBVIOUS
<1>1. TypeOK
  BY BoundsAssumption, ConfigAssumption
     DEF Init, TypeOK, PerQuote, QuoteRows, MeltRows, Calls, Idle
<1>2. RowsOK
  BY DEF Init, RowsOK, LedgerOK, QuoteOK, MeltOK, Consumed
<1>3. \A h \in Handlers : CallOK(call[h])
  BY DEF Init, CallOK, Idle
<1>4. InsertsApart
  BY DEF Init, InsertsApart, Idle
<1> QED
  BY <1>1, <1>2, <1>3, <1>4 DEF IInv

-----------------------------------------------------------------------------
(* A step that only moves one handler on.                                   *)
LEMMA LocalStep ==
  ASSUME IInv, NEW h \in Handlers, NEW STATE c, c \in Calls, Goto(h, c),
         UNCHANGED <<tables, expired, chain, held>>, faults' \in 0..MaxFaults,
         CallOK(c),
         c.at = "insert" => \A g \in Handlers : call[g].at = "insert" => call[g].quote # c.quote
  PROVE  IInv'
<1> USE DEF IInv, tables, chain
<1>1. call'[h] = c /\ \A g \in Handlers \ {h} : call'[g] = call[g]
  BY DEF Goto, TypeOK
<1>2. TypeOK'
  BY DEF Goto, TypeOK
<1>3. RowsOK'
  BY DEF RowsOK, LedgerOK, QuoteOK, MeltOK, Consumed
<1>4. Growth
  BY AmountTypes DEF Growth, Consumed
<1>5. CallOK(call[h])'
  BY <1>1 DEF CallOK, Consumed
<1>6. InsertsApart'
  BY <1>1 DEF InsertsApart
<1>7. \A g \in Handlers \ {h} : call[g].at = "insert" => quote'[call[g].quote].state = "NONE"
  BY DEF CallOK
<1> QED
  BY <1>1, <1>2, <1>3, <1>4, <1>5, <1>6, <1>7, Frame

LEMMA DoneStep ==
  ASSUME IInv, NEW h \in Handlers, Done(h),
         UNCHANGED <<tables, expired, chain, held>>, faults' \in 0..MaxFaults
  PROVE  IInv'
BY LocalStep DEF Done, Idle, Calls, CallOK

LEMMA FaultBound == ASSUME TypeOK, Fault PROVE faults' \in 0..MaxFaults
BY ConfigAssumption DEF TypeOK, Fault

LEMMA FaultsStay == ASSUME IInv, UNCHANGED faults PROVE faults' \in 0..MaxFaults
BY DEF IInv, TypeOK

LEMMA QuoteCheckOK ==
  ASSUME IInv, NEW h \in Handlers, NEW q \in Quotes, NEW n \in 1..MaxAmount, QuoteCheck(h, q, n)
  PROVE  IInv'
<1> DEFINE c == [at |-> "insert", quote |-> q, amount |-> n]
<1>1. c \in Calls /\ CallOK(c)
  BY DEF QuoteCheck, CallOK, Calls, QuoteCalls
<1> QED
  BY <1>1, LocalStep, FaultsStay DEF QuoteCheck

LEMMA GetQuoteOK ==
  ASSUME IInv, NEW h \in Handlers, NEW q \in Quotes, GetQuote(h, q)
  PROVE  IInv'
<1> DEFINE c == [at |-> "poll", quote |-> q, outs |-> {}]
<1>1. c \in Calls /\ CallOK(c)
  BY DEF GetQuote, CallOK, Calls, MintCalls
<1> QED
  BY <1>1, LocalStep, FaultsStay DEF GetQuote

LEMMA PostMintOK ==
  ASSUME IInv, NEW h \in Handlers, NEW q \in Quotes, NEW outs \in SUBSET Tokens,
         PostMint(h, q, outs)
  PROVE  IInv'
<1>1. CASE MayReplay(q, outs) /\ Goto(h, [at |-> "reply", sigs |-> outs])
  <2> DEFINE c == [at |-> "reply", sigs |-> outs]
  <2>1. c \in Calls /\ CallOK(c)
    BY <1>1 DEF CallOK, Calls, Replies, IInv, RowsOK, QuoteOK, MayReplay
  <2> QED
    BY <1>1, <2>1, LocalStep, FaultsStay DEF PostMint
<1>2. CASE quote[q].state = "UNPAID" /\ Goto(h, [at |-> "poll", quote |-> q, outs |-> outs])
  <2> DEFINE c == [at |-> "poll", quote |-> q, outs |-> outs]
  <2>1. c \in Calls /\ CallOK(c)
    BY <1>2 DEF CallOK, Calls, MintCalls
  <2> QED
    BY <1>2, <2>1, LocalStep, FaultsStay DEF PostMint
<1>3. CASE /\ quote[q].state = "PAID" /\ Worth[outs] = quote[q].amount
           /\ Goto(h, [at |-> "sign", quote |-> q, outs |-> outs])
  <2> DEFINE c == [at |-> "sign", quote |-> q, outs |-> outs]
  <2>1. c \in Calls /\ CallOK(c)
    BY <1>3 DEF CallOK, Calls, MintCalls, PostMint
  <2> QED
    BY <1>3, <2>1, LocalStep, FaultsStay DEF PostMint
<1> QED
  BY <1>1, <1>2, <1>3 DEF PostMint

LEMMA PollOK ==
  ASSUME IInv, NEW h \in Handlers, Poll(h)
  PROVE  IInv'
<1>1. CASE DepositCovers(call[h].quote) /\ Move(h, "flip")
  <2> DEFINE c == [call[h] EXCEPT !.at = "flip"]
  <2>1. call[h] \in MintCalls
    BY CallTypes DEF Poll, IInv
  <2>2. c \in Calls /\ c.at = "flip" /\ c.quote = call[h].quote
    BY <2>1 DEF Calls, MintCalls
  <2>3. quote[call[h].quote].state # "NONE" /\ quote[call[h].quote].amount <= deposit[call[h].quote]
    BY <1>1, <2>1, AmountTypes DEF IInv, CallOK, Poll, DepositCovers, MintCalls
  <2>4. CallOK(c)
    BY <2>2, <2>3 DEF CallOK
  <2> QED
    BY <1>1, <2>2, <2>4, LocalStep, FaultsStay DEF Poll, Move
<1>2. CASE Done(h)
  BY <1>2, DoneStep, FaultsStay DEF Poll
<1> QED
  BY <1>1, <1>2 DEF Poll

(* A melt handler past its transaction that only moves on.                  *)
LEMMA MeltMove ==
  ASSUME IInv, NEW h \in Handlers,
         call[h].at \in {"ask", "settle", "submit", "wait", "landed", "owe"},
         NEW place \in {"ask", "settle", "submit", "wait", "landed", "owe"},
         place \in {"settle", "landed"} => call[h].melt \in paid,
         Move(h, place),
         UNCHANGED <<tables, expired, chain, held>>, faults' \in 0..MaxFaults
  PROVE  IInv'
<1> DEFINE c == [call[h] EXCEPT !.at = place]
<1>1. call[h] \in MeltCalls
  BY CallTypes DEF IInv
<1>2. c \in Calls /\ c.at = place /\ c.melt = call[h].melt
  BY <1>1 DEF Calls, MeltCalls
<1>3. Consumed(call[h].melt)
  BY DEF IInv, CallOK
<1>4. CallOK(c)
  BY <1>2, <1>3 DEF CallOK
<1> QED
  BY <1>2, <1>4, LocalStep DEF Move

LEMMA PostMeltOK ==
  ASSUME IInv, NEW h \in Handlers, NEW m \in Melts, NEW ins \in SUBSET Tokens,
         PostMelt(h, m, ins)
  PROVE  IInv'
<1>1. CASE melt[m].state = "UNPAID" /\ Goto(h, [at |-> "consume", melt |-> m, ins |-> ins])
  <2> DEFINE c == [at |-> "consume", melt |-> m, ins |-> ins]
  <2>1. c \in Calls /\ CallOK(c)
    BY <1>1 DEF CallOK, Calls, MeltCalls, PostMelt, ValidInputs, PaysFor
  <2> QED
    BY <1>1, <2>1, LocalStep, FaultsStay DEF PostMelt
<1>2. CASE MayRetry(m, ins) /\ Goto(h, [at |-> "ask", melt |-> m, ins |-> ins])
  <2> DEFINE c == [at |-> "ask", melt |-> m, ins |-> ins]
  <2>1. c \in Calls /\ CallOK(c)
    BY <1>2 DEF CallOK, Calls, MeltCalls, MayRetry, Consumed
  <2> QED
    BY <1>2, <2>1, LocalStep, FaultsStay DEF PostMelt
<1> QED
  BY <1>1, <1>2 DEF PostMelt

LEMMA AskOK == ASSUME IInv, NEW h \in Handlers, Ask(h) PROVE IInv'
<1>1. CASE call[h].melt \in paid /\ Move(h, "settle")
  BY <1>1, MeltMove, FaultsStay DEF Ask
<1>2. CASE Move(h, "submit")
  BY <1>2, MeltMove, FaultsStay DEF Ask
<1> QED
  BY <1>1, <1>2 DEF Ask

LEMMA AskFailsOK == ASSUME IInv, NEW h \in Handlers, AskFails(h) PROVE IInv'
BY MeltMove, FaultBound DEF AskFails, IInv

LEMMA SubmitOK == ASSUME IInv, NEW h \in Handlers, Submit(h) PROVE IInv'
BY MeltMove, FaultsStay DEF Submit

LEMMA RecordFailsOK == ASSUME IInv, NEW h \in Handlers, RecordFails(h) PROVE IInv'
BY MeltMove, FaultBound DEF RecordFails, IInv

-----------------------------------------------------------------------------
(* Steps that write tables, the chain or what clients hold.                 *)

(* The handler moves to a call that needs nothing of the quotes it inserts. *)
LEMMA Apart ==
  ASSUME TypeOK, InsertsApart, NEW h \in Handlers, NEW STATE c, c.at # "insert", Goto(h, c)
  PROVE  /\ InsertsApart'
         /\ call'[h] = c
         /\ \A g \in Handlers \ {h} : call'[g] = call[g]
BY DEF InsertsApart, Goto, TypeOK

LEMMA QuoteInsertOK == ASSUME IInv, NEW h \in Handlers, QuoteInsert(h) PROVE IInv'
<1> USE DEF IInv, chain
<1> DEFINE q == call[h].quote
<1>1. q \in Quotes /\ call[h].amount \in 1..MaxAmount
  BY CallTypes DEF QuoteInsert, QuoteCalls
<1>2. quote[q].state = "NONE"
  BY DEF CallOK, QuoteInsert
<1>3. InsertsApart' /\ call'[h] = Idle /\ \A g \in Handlers \ {h} : call'[g] = call[g]
  BY Apart DEF QuoteInsert, Done, Idle
<1>4. TypeOK'
  BY <1>1, ConfigAssumption DEF QuoteInsert, TypeOK, QuoteRows, Done, Goto, Calls, Idle
<1>5. RowsOK'
  <2>1. \A r \in Quotes \ {q} : quote'[r] = quote[r]
    BY DEF QuoteInsert, TypeOK
  <2>2. quote'[q].state = "UNPAID"
    BY <1>1 DEF QuoteInsert, TypeOK
  <2>3. \A r \in Quotes : QuoteOK(r)'
    BY <1>2, <2>1, <2>2 DEF QuoteInsert, RowsOK, QuoteOK
  <2> QED
    BY <2>3 DEF QuoteInsert, RowsOK, LedgerOK, MeltOK, Consumed
<1>6. Growth
  BY <1>1, <1>2, AmountTypes DEF Growth, QuoteInsert, TypeOK, QuoteRows, Consumed
<1>7. CallOK(call[h])'
  BY <1>3 DEF CallOK, Idle
<1>8. \A g \in Handlers \ {h} : call[g].at = "insert" => quote'[call[g].quote].state = "NONE"
  <2> SUFFICES ASSUME NEW g \in Handlers \ {h}, call[g].at = "insert"
               PROVE  quote'[call[g].quote].state = "NONE"
    OBVIOUS
  <2>1. call[g].quote \in Quotes /\ call[g].quote # q
    BY CallTypes DEF QuoteCalls, QuoteInsert, InsertsApart
  <2> QED
    BY <2>1 DEF QuoteInsert, TypeOK, CallOK
<1> QED
  BY <1>3, <1>4, <1>5, <1>6, <1>7, <1>8, Frame

LEMMA FlipOK == ASSUME IInv, NEW h \in Handlers, Flip(h) PROVE IInv'
<1> USE DEF IInv, chain
<1> DEFINE q == call[h].quote
<1>1. call[h] \in MintCalls /\ q \in Quotes
  BY CallTypes DEF Flip, MintCalls
<1>2. quote[q].state # "NONE" /\ quote[q].amount <= deposit[q]
  BY DEF CallOK, Flip
<1>3. /\ quote'[q].state \in {"PAID", "ISSUED"} /\ quote'[q].amount = quote[q].amount
      /\ quote[q].state = "ISSUED" <=> quote'[q].state = "ISSUED"
      /\ \A r \in Quotes \ {q} : quote'[r] = quote[r]
      /\ quote' \in [Quotes -> QuoteRows]
  BY <1>1, <1>2 DEF Flip, TypeOK, QuoteRows
<1>4. PICK c \in Calls :
        /\ Goto(h, c)
        /\ \/ c = Idle
           \/ /\ c.at = "sign" /\ c.quote = q /\ c.outs # {}
              /\ Worth[c.outs] = quote[q].amount
  <2>1. CASE call[h].outs # {} /\ Worth[call[h].outs] = quote[q].amount /\ Move(h, "sign")
    <3> DEFINE c == [call[h] EXCEPT !.at = "sign"]
    <3>1. c \in Calls /\ c.at = "sign" /\ c.quote = q /\ c.outs = call[h].outs
      BY <1>1 DEF Calls, MintCalls
    <3> QED
      BY <2>1, <3>1 DEF Move
  <2>2. CASE Done(h)
    BY <2>2 DEF Done, Calls
  <2> QED
    BY <2>1, <2>2 DEF Flip
<1>5. InsertsApart' /\ call'[h] = c /\ \A g \in Handlers \ {h} : call'[g] = call[g]
  BY <1>4, Apart DEF Idle
<1>6. TypeOK'
  BY <1>3, <1>4 DEF Flip, TypeOK, Goto
<1>7. RowsOK'
  <2>1. \A r \in Quotes : QuoteOK(r)'
    BY <1>2, <1>3 DEF Flip, RowsOK, QuoteOK
  <2> QED
    BY <2>1 DEF Flip, RowsOK, LedgerOK, MeltOK, Consumed
<1>8. Growth
  BY <1>3, AmountTypes DEF Growth, Flip, Consumed
<1>9. CallOK(call[h])'
  BY <1>3, <1>4, <1>5 DEF CallOK, Idle
<1>10. \A g \in Handlers \ {h} : call[g].at = "insert" => quote'[call[g].quote].state = "NONE"
  BY <1>2, <1>3, CallTypes DEF CallOK, QuoteCalls
<1> QED
  BY <1>5, <1>6, <1>7, <1>8, <1>9, <1>10, Frame

LEMMA SignOK == ASSUME IInv, NEW h \in Handlers, Sign(h) PROVE IInv'
<1> USE DEF IInv, chain
<1> DEFINE q == call[h].quote
           outs == call[h].outs
<1>1. q \in Quotes /\ outs \in SUBSET Tokens
  BY CallTypes DEF Sign, MintCalls
<1>2. outs # {} /\ Worth[outs] = quote[q].amount
  BY DEF CallOK, Sign
<1>3. CASE Issue(h, q, outs)
  <2> DEFINE c == [at |-> "reply", sigs |-> outs]
  <2>1. InsertsApart' /\ call'[h] = c /\ \A g \in Handlers \ {h} : call'[g] = call[g]
    BY <1>3, Apart DEF Issue
  <2>2. /\ quote'[q].state = "ISSUED" /\ quote'[q].amount = quote[q].amount
        /\ \A r \in Quotes \ {q} : quote'[r] = quote[r] /\ issued'[r] = issued[r]
        /\ issued'[q] = outs /\ signed' = signed \cup outs
    BY <1>1, <1>3 DEF Issue, TypeOK, QuoteRows
  <2>3. TypeOK'
    BY <1>1, <1>3 DEF Sign, Issue, TypeOK, QuoteRows, Goto, Calls, Replies
  <2>4. RowsOK'
    <3>1. \A r \in Quotes : outs \cap issued[r] = {}
      BY <1>3 DEF Issue, FreshOutputs, RowsOK, QuoteOK
    <3>2. ASSUME NEW r \in Quotes, r = q PROVE QuoteOK(r)'
      <4>1. quote[q].amount <= deposit[q] /\ deposit' = deposit
        BY <1>1, <1>3 DEF Sign, Issue, RowsOK, QuoteOK, CallOK
      <4>2. \A p \in Quotes \ {q} : issued'[q] \cap issued'[p] = {}
        BY <2>2, <3>1
      <4> QED
        BY <1>2, <2>2, <3>2, <4>1, <4>2 DEF QuoteOK
    <3>3. ASSUME NEW r \in Quotes \ {q} PROVE QuoteOK(r)'
      BY <2>2, <3>1 DEF Sign, RowsOK, QuoteOK
    <3> QED
      BY <1>3, <2>2, <3>2, <3>3 DEF Sign, RowsOK, LedgerOK, MeltOK, Consumed
  <2>5. Growth
    BY <1>3, <2>2, AmountTypes DEF Growth, Sign, Consumed
  <2>6. CallOK(call[h])'
    BY <2>1, <2>2 DEF CallOK
  <2>7. \A g \in Handlers \ {h} : call[g].at = "insert" => quote'[call[g].quote].state = "NONE"
    BY <1>3, <2>2, CallTypes DEF CallOK, QuoteCalls, Issue
  <2> QED
    BY <2>1, <2>3, <2>4, <2>5, <2>6, <2>7, Frame
<1>4. CASE Replay(h, q, outs)
  <2>1. CASE MayReplay(q, outs) /\ Goto(h, [at |-> "reply", sigs |-> outs])
    <3> DEFINE c == [at |-> "reply", sigs |-> outs]
    <3>1. c \in Calls /\ CallOK(c)
      BY <1>1, <2>1 DEF CallOK, Calls, Replies, RowsOK, QuoteOK, MayReplay
    <3> QED
      BY <1>4, <2>1, <3>1, LocalStep, FaultsStay DEF Sign, Replay, tables
  <2>2. CASE Done(h)
    BY <1>4, <2>2, DoneStep, FaultsStay DEF Sign, Replay, tables
  <2> QED
    BY <1>4, <2>1, <2>2 DEF Replay
<1>5. CASE Refuse(h, q, outs)
  BY <1>5, DoneStep, FaultsStay DEF Sign, Refuse, tables
<1> QED
  BY <1>3, <1>4, <1>5 DEF Sign

LEMMA ReplyOK == ASSUME IInv, NEW h \in Handlers, Reply(h) PROVE IInv'
<1> USE DEF IInv, tables, chain
<1>1. call[h].sigs \in SUBSET signed
  BY DEF CallOK, Reply
<1>2. InsertsApart' /\ call'[h] = Idle /\ \A g \in Handlers \ {h} : call'[g] = call[g]
  BY Apart DEF Reply, Done, Idle
<1>3. TypeOK'
  BY <1>1 DEF Reply, TypeOK, Done, Goto, Calls
<1>4. RowsOK'
  BY <1>1 DEF Reply, RowsOK, LedgerOK, QuoteOK, MeltOK, Consumed
<1>5. Growth
  BY AmountTypes DEF Growth, Reply, Consumed
<1>6. CallOK(call[h])'
  BY <1>2 DEF CallOK, Idle
<1>7. \A g \in Handlers \ {h} : call[g].at = "insert" => quote'[call[g].quote].state = "NONE"
  BY DEF CallOK, Reply
<1> QED
  BY <1>2, <1>3, <1>4, <1>5, <1>6, <1>7, Frame

LEMMA SwapOK ==
  ASSUME IInv, NEW h \in Handlers, NEW ins \in SUBSET Tokens, NEW outs \in SUBSET Tokens,
         Swap(h, ins, outs)
  PROVE  IInv'
<1> USE DEF IInv, chain
<1>1. InsertsApart' /\ call'[h] = [at |-> "reply", sigs |-> outs]
      /\ \A g \in Handlers \ {h} : call'[g] = call[g]
  BY Apart DEF Swap
<1>2. TypeOK'
  BY DEF Swap, TypeOK, Goto, Calls, Replies
<1>3. RowsOK'
  <2>1. LedgerOK'
    BY DEF Swap, ValidInputs, RowsOK, LedgerOK
  <2>2. \A q \in Quotes : QuoteOK(q)'
    BY DEF Swap, RowsOK, QuoteOK
  <2>3. \A m \in Melts : MeltOK(m)'
    BY DEF Swap, RowsOK, MeltOK, Consumed
  <2> QED
    BY <2>1, <2>2, <2>3 DEF RowsOK
<1>4. Growth
  BY AmountTypes DEF Growth, Swap, Consumed
<1>5. CallOK(call[h])'
  BY <1>1 DEF CallOK, Swap
<1>6. \A g \in Handlers \ {h} : call[g].at = "insert" => quote'[call[g].quote].state = "NONE"
  BY DEF CallOK, Swap
<1> QED
  BY <1>1, <1>2, <1>3, <1>4, <1>5, <1>6, Frame

LEMMA MeltQuoteOK ==
  ASSUME IInv, NEW m \in Melts, NEW n \in 1..MaxAmount, MeltQuote(m, n)
  PROVE  IInv'
<1> USE DEF IInv, chain
<1>0. n \in Nat /\ n >= 1 /\ n \in 0..MaxAmount
  BY ConfigAssumption, BoundsAssumption
<1>1. /\ melt'[m] = [state |-> "UNPAID", amount |-> n, inputs |-> {}]
      /\ \A k \in Melts \ {m} : melt'[k] = melt[k]
      /\ ~Consumed(m) /\ ~Consumed(m)'
  BY DEF MeltQuote, TypeOK, Consumed
<1>2. TypeOK'
  BY <1>0 DEF MeltQuote, TypeOK, MeltRows
<1>3. RowsOK'
  <2>1. MeltOK(m)'
    BY <1>0, <1>1 DEF MeltQuote, RowsOK, MeltOK, Consumed
  <2>2. \A k \in Melts \ {m} : MeltOK(k)'
    BY <1>1 DEF MeltQuote, RowsOK, MeltOK, Consumed
  <2> QED
    BY <2>1, <2>2 DEF MeltQuote, RowsOK, LedgerOK, QuoteOK
<1>4. Growth
  BY <1>1, AmountTypes DEF Growth, MeltQuote, Consumed
<1> QED
  BY <1>2, <1>3, <1>4, Frame DEF MeltQuote, InsertsApart, CallOK

LEMMA ConsumeOK == ASSUME IInv, NEW h \in Handlers, Consume(h) PROVE IInv'
<1> USE DEF IInv, chain
<1> DEFINE m == call[h].melt
           ins == call[h].ins
<1>1. call[h] \in MeltCalls /\ m \in Melts /\ ins \in SUBSET Tokens
  BY CallTypes DEF Consume, MeltCalls
<1>2. ins # {} /\ ins \subseteq signed /\ Worth[ins] = melt[m].amount + Fee
  BY DEF CallOK, Consume, RowsOK, LedgerOK
<1>3. CASE StillUnpaid(m) /\ Unspent(ins)
  <2> DEFINE c == [call[h] EXCEPT !.at = "submit"]
  <2>1. c \in Calls /\ c.at = "submit" /\ c.melt = m
    BY <1>1 DEF Calls, MeltCalls
  <2>2. InsertsApart' /\ call'[h] = c /\ \A g \in Handlers \ {h} : call'[g] = call[g]
    BY <1>3, <2>1, Apart DEF Consume, Move
  <2>3. /\ melt'[m].state = "PENDING" /\ melt'[m].amount = melt[m].amount /\ melt'[m].inputs = ins
        /\ \A k \in Melts \ {m} : melt'[k] = melt[k]
        /\ spent' = spent \cup ins
    BY <1>1, <1>3 DEF Consume, TypeOK, MeltRows
  <2>4. TypeOK'
    BY <1>1, <1>3, <2>1 DEF Consume, TypeOK, MeltRows, Move, Goto
  <2>5. RowsOK'
    <3>1. ASSUME NEW k \in Melts, k = m PROVE MeltOK(k)'
      BY <3>1, <1>1, <1>2, <1>3, <2>3 DEF Consume, RowsOK, MeltOK, Consumed, StillUnpaid
    <3>2. \A k \in Melts \ {m} : MeltOK(k)'
      BY <2>3 DEF Consume, RowsOK, MeltOK, Consumed
    <3> QED
      BY <1>2, <2>3, <3>1, <3>2 DEF Consume, RowsOK, LedgerOK, QuoteOK
  <2>6. Growth
    BY <1>3, <2>3, AmountTypes DEF Growth, Consume, Consumed
  <2>7. CallOK(call[h])'
    BY <2>1, <2>2, <2>3 DEF CallOK, Consumed
  <2>8. \A g \in Handlers \ {h} : call[g].at = "insert" => quote'[call[g].quote].state = "NONE"
    BY DEF CallOK, Consume
  <2> QED
    BY <2>2, <2>4, <2>5, <2>6, <2>7, <2>8, Frame
<1>4. CASE Done(h) /\ UNCHANGED <<spent, melt>>
  BY <1>4, DoneStep, FaultsStay DEF Consume, tables
<1> QED
  BY <1>3, <1>4 DEF Consume

(* Settle, Record and Owe write PAID or OWED over whatever is there.         *)
LEMMA SetMeltOK ==
  ASSUME IInv, NEW h \in Handlers, NEW state \in {"PAID", "OWED"}, SetMelt(h, state),
         call[h].at \in {"settle", "landed", "owe"},
         state = "PAID" => call[h].at \in {"settle", "landed"}
  PROVE  IInv'
<1> USE DEF IInv, chain
<1> DEFINE m == call[h].melt
<1>1. m \in Melts /\ Consumed(m) /\ (state = "PAID" => m \in paid)
  BY CallTypes DEF MeltCalls, CallOK
<1>2. InsertsApart' /\ call'[h] = Idle /\ \A g \in Handlers \ {h} : call'[g] = call[g]
  BY Apart DEF SetMelt, Done, Idle
<1>3. /\ melt'[m].state = state /\ melt'[m].amount = melt[m].amount
      /\ melt'[m].inputs = melt[m].inputs
      /\ \A k \in Melts \ {m} : melt'[k] = melt[k]
  BY <1>1 DEF SetMelt, TypeOK, MeltRows
<1>4. TypeOK'
  BY <1>1 DEF SetMelt, TypeOK, MeltRows, Done, Goto, Calls
<1>5. RowsOK'
  <2>1. ASSUME NEW k \in Melts, k = m PROVE MeltOK(k)'
    BY <2>1, <1>1, <1>3 DEF SetMelt, RowsOK, MeltOK, Consumed
  <2>2. \A k \in Melts \ {m} : MeltOK(k)'
    BY <1>3 DEF SetMelt, RowsOK, MeltOK, Consumed
  <2> QED
    BY <2>1, <2>2 DEF SetMelt, RowsOK, LedgerOK, QuoteOK
<1>6. Growth
  BY <1>1, <1>3, AmountTypes DEF Growth, SetMelt, Consumed
<1>7. CallOK(call[h])'
  BY <1>2 DEF CallOK, Idle
<1>8. \A g \in Handlers \ {h} : call[g].at = "insert" => quote'[call[g].quote].state = "NONE"
  BY DEF CallOK, SetMelt
<1> QED
  BY <1>2, <1>4, <1>5, <1>6, <1>7, <1>8, Frame

LEMMA SettleOK == ASSUME IInv, NEW h \in Handlers, Settle(h) PROVE IInv'
BY SetMeltOK DEF Settle

LEMMA RecordOK == ASSUME IInv, NEW h \in Handlers, Record(h) PROVE IInv'
BY SetMeltOK DEF Record

LEMMA OweOK == ASSUME IInv, NEW h \in Handlers, Owe(h) PROVE IInv'
BY SetMeltOK DEF Owe

-----------------------------------------------------------------------------
(* Payouts leave the tables alone: they add to paid and mempool only melts  *)
(* that are consumed.                                                       *)
LEMMA PayoutStep ==
  ASSUME IInv, UNCHANGED <<tables, expired, deposit, held>>, balance' \in Int,
         faults' \in 0..MaxFaults, paid \subseteq paid',
         paid' \cup mempool' \subseteq Melts,
         \A m \in paid' \cup mempool' : Consumed(m),
         call' \in [Handlers -> Calls], InsertsApart',
         \A g \in Handlers : call'[g] = call[g] \/ CallOK(call[g])'
  PROVE  IInv'
<1> USE DEF IInv, tables
<1>1. TypeOK'
  BY DEF TypeOK
<1>2. RowsOK'
  BY DEF RowsOK, LedgerOK, QuoteOK, MeltOK, Consumed
<1>3. Growth
  BY AmountTypes DEF Growth, Consumed
<1>4. \A g \in Handlers : call[g].at = "insert" => quote'[call[g].quote].state = "NONE"
  BY DEF CallOK
<1> QED
  BY <1>1, <1>2, <1>3, <1>4, Frame

LEMMA PaidTypes ==
  ASSUME IInv
  PROVE  /\ balance \in Int /\ paid \cup mempool \subseteq Melts
         /\ \A m \in paid \cup mempool : Consumed(m)
         /\ \A m \in Melts : balance - melt[m].amount \in Int
BY AmountTypes DEF IInv, TypeOK, RowsOK, MeltOK

(* A handler at a later stage of a consumed melt, moved on by PayoutStep.    *)
LEMMA StageMoves ==
  ASSUME IInv, NEW h \in Handlers, NEW place \in {"landed", "owe"}, Move(h, place),
         call[h].at \in {"submit", "wait"}, UNCHANGED tables,
         place = "landed" => call[h].melt \in paid'
  PROVE  /\ call[h].melt \in Melts /\ Consumed(call[h].melt)
         /\ call' \in [Handlers -> Calls] /\ InsertsApart'
         /\ \A g \in Handlers : call'[g] = call[g] \/ CallOK(call[g])'
<1> USE DEF IInv, tables
<1> DEFINE c == [call[h] EXCEPT !.at = place]
<1>1. call[h] \in MeltCalls /\ call[h].melt \in Melts /\ Consumed(call[h].melt)
  BY CallTypes DEF MeltCalls, CallOK
<1>2. c \in Calls /\ c.at = place /\ c.melt = call[h].melt
  BY <1>1 DEF Calls, MeltCalls
<1>3. InsertsApart' /\ call'[h] = c /\ \A g \in Handlers \ {h} : call'[g] = call[g]
  BY <1>2, Apart DEF Move
<1>4. call' \in [Handlers -> Calls]
  BY <1>2 DEF Move, Goto, TypeOK
<1>5. CallOK(call[h])'
  BY <1>1, <1>2, <1>3 DEF CallOK, Consumed
<1> QED
  BY <1>1, <1>3, <1>4, <1>5

LEMMA SubmitFailsOK == ASSUME IInv, NEW h \in Handlers, SubmitFails(h) PROVE IInv'
<1>1. /\ call[h].melt \in Melts /\ Consumed(call[h].melt)
      /\ call' \in [Handlers -> Calls] /\ InsertsApart'
      /\ \A g \in Handlers : call'[g] = call[g] \/ CallOK(call[g])'
  BY StageMoves DEF SubmitFails
<1>2. faults' \in 0..MaxFaults
  BY FaultBound DEF SubmitFails, IInv
<1> QED
  BY <1>1, <1>2, PaidTypes, PayoutStep DEF SubmitFails

LEMMA ReceiptTimesOutOK == ASSUME IInv, NEW h \in Handlers, ReceiptTimesOut(h) PROVE IInv'
<1>1. /\ call[h].melt \in Melts /\ Consumed(call[h].melt)
      /\ call' \in [Handlers -> Calls] /\ InsertsApart'
      /\ \A g \in Handlers : call'[g] = call[g] \/ CallOK(call[g])'
  BY StageMoves DEF ReceiptTimesOut
<1>2. faults' \in 0..MaxFaults
  BY FaultBound DEF ReceiptTimesOut, IInv
<1> QED
  BY <1>1, <1>2, PaidTypes, PayoutStep DEF ReceiptTimesOut

LEMMA PayoutRunsOK == ASSUME IInv, NEW h \in Handlers, PayoutRuns(h) PROVE IInv'
<1>1. PICK place \in {"landed", "owe"} :
        Move(h, place) /\ (place = "landed" => call[h].melt \in paid')
  BY DEF PayoutRuns, VaultPays
<1>2. /\ call[h].melt \in Melts /\ Consumed(call[h].melt)
      /\ call' \in [Handlers -> Calls] /\ InsertsApart'
      /\ \A g \in Handlers : call'[g] = call[g] \/ CallOK(call[g])'
  BY <1>1, StageMoves DEF PayoutRuns
<1>3. balance' \in Int /\ paid \subseteq paid' /\ paid' \subseteq paid \cup {call[h].melt}
  BY <1>2, PaidTypes DEF PayoutRuns, VaultPays
<1> QED
  BY <1>2, <1>3, PaidTypes, PayoutStep, FaultsStay DEF PayoutRuns

LEMMA LandsLateOK == ASSUME IInv, NEW m \in Melts, LandsLate(m) PROVE IInv'
<1>1. balance' \in Int /\ paid \subseteq paid' /\ paid' \subseteq paid \cup mempool
      /\ mempool' \subseteq mempool
  BY PaidTypes DEF LandsLate, VaultPays
<1>2. call' \in [Handlers -> Calls] /\ InsertsApart' /\ \A g \in Handlers : call'[g] = call[g]
  BY DEF LandsLate, IInv, TypeOK, InsertsApart
<1> QED
  BY <1>1, <1>2, PaidTypes, PayoutStep, FaultsStay DEF LandsLate

-----------------------------------------------------------------------------
LEMMA DepositOK ==
  ASSUME IInv, NEW q \in Quotes, NEW n \in 1..MaxDeposit, Deposit(q, n)
  PROVE  IInv'
<1> USE DEF IInv, tables
<1>1. /\ deposit'[q] = deposit[q] + n /\ deposit[q] <= deposit'[q]
      /\ \A r \in Quotes \ {q} : deposit'[r] = deposit[r]
      /\ deposit' \in PerQuote /\ balance' \in Int
  BY BoundsAssumption DEF Deposit, TypeOK, PerQuote
<1>2. TypeOK'
  BY <1>1 DEF Deposit, TypeOK
<1>3. \A r \in Quotes : deposit[r] <= deposit'[r]
  BY <1>1, AmountTypes
<1>4. RowsOK'
  <2>1. ASSUME NEW r \in Quotes PROVE QuoteOK(r)'
    <3>1. deposit[r] \in Nat /\ deposit'[r] \in Nat /\ quote[r].amount \in Nat
      BY <1>1, AmountTypes DEF PerQuote
    <3> QED
      BY <1>3, <3>1 DEF Deposit, RowsOK, QuoteOK
  <2> QED
    BY <2>1 DEF Deposit, RowsOK, LedgerOK, MeltOK, Consumed
<1>5. Growth
  BY <1>3 DEF Growth, Deposit, Consumed
<1>6. InsertsApart' /\ call' = call /\ quote' = quote
  BY DEF Deposit, InsertsApart
<1> QED
  BY <1>2, <1>4, <1>5, <1>6, Frame DEF CallOK

LEMMA ExpireOK == ASSUME IInv, NEW id \in Quotes \cup Melts, Expire(id) PROVE IInv'
<1> USE DEF IInv, tables, chain
<1>1. TypeOK'
  BY DEF Expire, TypeOK
<1>2. RowsOK'
  BY DEF Expire, RowsOK, LedgerOK, QuoteOK, MeltOK, Consumed
<1>3. Growth
  BY AmountTypes DEF Growth, Expire, Consumed
<1>4. InsertsApart' /\ call' = call /\ quote' = quote
  BY DEF Expire, InsertsApart
<1> QED
  BY <1>1, <1>2, <1>3, <1>4, Frame DEF CallOK

LEMMA CrashOK == ASSUME IInv, Crash PROVE IInv'
<1>1. mempool' \subseteq Melts /\ \A m \in mempool' : Consumed(m)
  <2>1. ASSUME NEW h \in Handlers, call[h].at = "wait"
        PROVE  call[h].melt \in Melts /\ Consumed(call[h].melt)
    BY <2>1, CallTypes DEF IInv, CallOK, MeltCalls
  <2> QED
    BY <2>1, PaidTypes DEF Crash
<1>2. /\ call' \in [Handlers -> Calls] /\ InsertsApart'
      /\ \A g \in Handlers : CallOK(call[g])'
  BY DEF Crash, Calls, Idle, InsertsApart, CallOK
<1>3. faults' \in 0..MaxFaults
  BY FaultBound DEF Crash, IInv
<1> QED
  BY <1>1, <1>2, <1>3, PaidTypes, PayoutStep DEF Crash

LEMMA StutterOK == ASSUME IInv, UNCHANGED vars PROVE IInv'
<1> USE DEF IInv, vars, tables, chain
<1>1. TypeOK'
  BY DEF TypeOK
<1>2. RowsOK'
  BY DEF RowsOK, LedgerOK, QuoteOK, MeltOK, Consumed
<1>3. Growth
  BY AmountTypes DEF Growth, Consumed
<1>4. InsertsApart' /\ call' = call /\ quote' = quote
  BY DEF InsertsApart
<1> QED
  BY <1>1, <1>2, <1>3, <1>4, Frame DEF CallOK

-----------------------------------------------------------------------------
LEMMA FailsOK == ASSUME IInv, NEW h \in Handlers, Fails(h) PROVE IInv'
BY DoneStep, FaultBound DEF Fails, IInv

LEMMA RequestOK == ASSUME IInv, NEW h \in Handlers, Request(h) PROVE IInv'
BY QuoteCheckOK, GetQuoteOK, PostMintOK, SwapOK, PostMeltOK DEF Request

LEMMA ContinueOK == ASSUME IInv, NEW h \in Handlers, Continue(h) PROVE IInv'
BY QuoteInsertOK, PollOK, FlipOK, SignOK, ReplyOK, ConsumeOK, AskOK, SettleOK, SubmitOK,
   PayoutRunsOK, RecordOK, OweOK
   DEF Continue

LEMMA GoesWrongOK == ASSUME IInv, NEW h \in Handlers, GoesWrong(h) PROVE IInv'
BY AskFailsOK, SubmitFailsOK, ReceiptTimesOutOK, RecordFailsOK, FailsOK DEF GoesWrong

LEMMA EnvironmentOK == ASSUME IInv, Environment PROVE IInv'
BY MeltQuoteOK, DepositOK, ExpireOK, LandsLateOK, CrashOK DEF Environment

LEMMA StepOK == ASSUME IInv, [Next]_vars PROVE IInv'
BY RequestOK, ContinueOK, GoesWrongOK, EnvironmentOK, StutterOK DEF Next

(* Every reachable state satisfies the inductive invariant.                 *)
THEOREM Inductive == Spec => []IInv
<1>1. Init => IInv
  BY InitOK
<1>2. IInv /\ [Next]_vars => IInv'
  BY StepOK
<1> QED
  BY <1>1, <1>2, PTL DEF Spec

(* Every column and every handler's locals stay in range.                   *)
THEOREM TypeCorrect == Spec => []TypeOK
<1>1. IInv => TypeOK
  BY DEF IInv
<1> QED
  BY <1>1, Inductive, PTL

(* No payout is sent, in flight or landed for a melt whose inputs are not   *)
(* spent and recorded, whatever crashes, timeouts and retries came between. *)
THEOREM PayoutOwed == Spec => []PayoutIsOwed
<1>1. IInv => PayoutIsOwed
  BY CallTypes DEF IInv, PayoutIsOwed, RowsOK, MeltOK, CallOK, MeltCalls
<1> QED
  BY <1>1, Inductive, PTL

(* A melt the mint calls PAID did land on chain.                            *)
THEOREM PaidTrue == Spec => []PaidIsTrue
<1>1. IInv => PaidIsTrue
  BY DEF IInv, PaidIsTrue, RowsOK, MeltOK
<1> QED
  BY <1>1, Inductive, PTL

(* What a quote issued is worth its amount, covered by a deposit, and       *)
(* shared with no other quote.                                              *)
THEOREM IssueBacked == Spec => []IssuedIsBacked
<1>1. IInv => IssuedIsBacked
  <2> SUFFICES ASSUME IInv, NEW q \in Quotes, issued[q] # {}
               PROVE  /\ Worth[issued[q]] = quote[q].amount
                      /\ quote[q].amount <= deposit[q]
                      /\ \A r \in Quotes \ {q} : issued[q] \cap issued[r] = {}
    BY DEF IssuedIsBacked
  <2> QED
    BY DEF IInv, RowsOK, QuoteOK
<1> QED
  BY <1>1, Inductive, PTL

-----------------------------------------------------------------------------
(* What may never be undone.  Only two steps write a row that others read   *)
(* as final: Issue and Consume; Flip, Settle, Record and Owe write states.  *)
LEMMA IssuedStays == ASSUME IInv, [Next]_vars PROVE KeepsIssued
<1> SUFFICES ASSUME NEW q \in Quotes, issued[q] # {}
             PROVE  issued'[q] = issued[q] /\ quote'[q].state = "ISSUED"
  BY DEF KeepsIssued
<1>1. quote[q].state = "ISSUED" /\ quote \in [Quotes -> QuoteRows] /\ issued \in [Quotes -> SUBSET Tokens]
  BY DEF IInv, TypeOK, RowsOK, QuoteOK
<1>2. CASE UNCHANGED <<quote, issued>>
  BY <1>1, <1>2
<1>3. ASSUME NEW h \in Handlers, QuoteInsert(h) PROVE UNCHANGED issued /\ quote'[q] = quote[q]
  BY <1>1, <1>3 DEF QuoteInsert, IInv, CallOK
<1>4. ASSUME NEW h \in Handlers, Flip(h) PROVE UNCHANGED issued /\ quote'[q] = quote[q]
  BY <1>1, <1>4 DEF Flip, QuoteRows
<1>5. ASSUME NEW h \in Handlers, Sign(h)
      PROVE  \/ UNCHANGED <<quote, issued>>
             \/ issued'[q] = issued[q] /\ quote'[q] = quote[q]
  BY <1>1, <1>5 DEF Sign, Issue, Replay, Refuse
<1>6. CASE UNCHANGED vars
  BY <1>2, <1>6 DEF vars, tables
<1>7. ASSUME NEW h \in Handlers, Request(h) PROVE UNCHANGED <<quote, issued>>
  BY <1>7 DEF Request, QuoteCheck, GetQuote, PostMint, Swap, PostMelt, tables
<1>8. ASSUME NEW h \in Handlers,
             \/ Poll(h) \/ Reply(h) \/ Consume(h) \/ Ask(h) \/ Settle(h) \/ Submit(h)
             \/ PayoutRuns(h) \/ Record(h) \/ Owe(h) \/ GoesWrong(h)
      PROVE  UNCHANGED <<quote, issued>>
  BY <1>8 DEF Poll, Reply, Consume, Ask, Settle, Submit, PayoutRuns, Record, Owe, SetMelt,
              GoesWrong, AskFails, SubmitFails, ReceiptTimesOut, RecordFails, Fails, tables
<1>9. ASSUME Environment PROVE UNCHANGED <<quote, issued>>
  BY <1>9 DEF Environment, MeltQuote, Deposit, Expire, LandsLate, Crash, tables
<1> QED
  BY <1>1, <1>2, <1>3, <1>4, <1>5, <1>6, <1>7, <1>8, <1>9 DEF Next, Continue

(* A quote makes money once: what it issued and its ISSUED state stay.      *)
THEOREM IssuedForever == Spec => IssuedOnce
<1>1. IInv /\ [Next]_vars => [KeepsIssued]_vars
  BY IssuedStays
<1> QED
  BY <1>1, Inductive, PTL DEF Spec, IssuedOnce

LEMMA InputsStay == ASSUME IInv, [Next]_vars PROVE KeepsInputs
<1> SUFFICES ASSUME NEW m \in Melts, Consumed(m)
             PROVE  melt'[m].inputs = melt[m].inputs /\ Consumed(m)'
  BY DEF KeepsInputs
<1>1. melt \in [Melts -> MeltRows]
  BY DEF IInv, TypeOK
<1>2. CASE UNCHANGED melt
  BY <1>2 DEF Consumed
<1>3. ASSUME NEW k \in Melts, NEW n \in 1..MaxAmount, MeltQuote(k, n) PROVE melt'[m] = melt[m]
  BY <1>1, <1>3 DEF MeltQuote, Consumed
<1>4. ASSUME NEW h \in Handlers, Consume(h) PROVE melt'[m] = melt[m]
  BY <1>1, <1>4 DEF Consume, StillUnpaid, Consumed
<1>5. ASSUME NEW h \in Handlers, NEW state \in {"PAID", "OWED"}, SetMelt(h, state)
      PROVE  melt'[m].inputs = melt[m].inputs /\ Consumed(m)'
  BY <1>1, <1>5 DEF SetMelt, MeltRows, Consumed
<1>6. CASE UNCHANGED vars
  BY <1>2, <1>6 DEF vars, tables
<1>7. ASSUME NEW h \in Handlers, Request(h) PROVE UNCHANGED melt
  BY <1>7 DEF Request, QuoteCheck, GetQuote, PostMint, Swap, PostMelt, tables
<1>8. ASSUME NEW h \in Handlers,
             \/ QuoteInsert(h) \/ Poll(h) \/ Flip(h) \/ Sign(h) \/ Reply(h) \/ Ask(h)
             \/ Submit(h) \/ PayoutRuns(h) \/ GoesWrong(h)
      PROVE  UNCHANGED melt
  BY <1>8 DEF QuoteInsert, Poll, Flip, Sign, Reply, Ask, Submit, PayoutRuns,
              GoesWrong, AskFails, SubmitFails, ReceiptTimesOut, RecordFails, Fails, tables
<1>9. ASSUME NEW id \in Quotes \cup Melts, Expire(id) PROVE UNCHANGED melt
  BY <1>9 DEF Expire, tables
<1>10. ASSUME NEW q \in Quotes, NEW n \in 1..MaxDeposit, Deposit(q, n) PROVE UNCHANGED melt
  BY <1>10 DEF Deposit, tables
<1>11. ASSUME Crash \/ \E k \in Melts : LandsLate(k) PROVE UNCHANGED melt
  BY <1>11 DEF Crash, LandsLate, tables
<1>12. melt'[m] = melt[m] => melt'[m].inputs = melt[m].inputs /\ Consumed(m)'
  BY DEF Consumed
<1> QED
  BY <1>2, <1>3, <1>4, <1>5, <1>6, <1>7, <1>8, <1>9, <1>10, <1>11, <1>12
     DEF Next, Continue, Environment, Settle, Record, Owe

(* No later request replaces the inputs a melt consumed or reopens it.      *)
THEOREM InputsForever == Spec => InputsKept
<1>1. IInv /\ [Next]_vars => [KeepsInputs]_vars
  BY InputsStay
<1> QED
  BY <1>1, Inductive, PTL DEF Spec, InputsKept
-----------------------------------------------------------------------------
(* Mint implements Custody, and so it is solvent; and where a transaction  *)
(* is one step, the cap is never passed.                                    *)

(* Custody sees which quotes are issued, which coins are live and dead,     *)
(* what each melt burned and what the chain did; it does not see the rest.  *)
LEMMA Hidden ==
  ASSUME UNCHANGED <<deposit, balance, paid, signed, spent>>,
         \A q \in Quotes : quote'[q].state = "ISSUED" <=> quote[q].state = "ISSUED",
         \A m \in Melts : melt'[m].inputs = melt[m].inputs
  PROVE  UNCHANGED C!vars
BY DEF C!vars

LEMMA InitMaps == Init => C!Init
BY DEF Init, C!Init

LEMMA DepositMaps ==
  ASSUME NEW q \in Quotes, NEW n \in 1..MaxDeposit, Deposit(q, n)
  PROVE  C!Fund(q, n)
BY DEF Deposit, C!Fund, tables

LEMMA SignMaps ==
  ASSUME IInv, NEW h \in Handlers, Sign(h)
  PROVE  C!Next \/ UNCHANGED C!vars
<1>1. PICK q \in Quotes, outs \in SUBSET Tokens :
        q = call[h].quote /\ outs = call[h].outs /\ Worth[outs] = quote[q].amount
  BY CallTypes DEF IInv, Sign, MintCalls, CallOK
<1>2. CASE Issue(h, q, outs)
  <2>1. quote[q].amount <= deposit[q] /\ spent \subseteq signed
    BY <1>1, <1>2 DEF IInv, RowsOK, LedgerOK, QuoteOK, Issue
  <2>2. quote' = [quote EXCEPT ![q].state = "ISSUED"] /\ quote[q].state = "PAID"
        /\ signed' = signed \cup outs /\ outs \cap signed = {}
        /\ UNCHANGED <<spent, melt, deposit, balance, paid>>
    BY <1>2 DEF Issue, FreshOutputs, Sign, chain
  <2>3. {r \in Quotes : quote'[r].state = "ISSUED"}
          = {r \in Quotes : quote[r].state = "ISSUED"} \cup {q}
    BY <1>1, <2>2 DEF IInv, TypeOK, QuoteRows
  <2>4. signed' \ spent' = (signed \ spent) \cup outs
    BY <2>1, <2>2
  <2>5. C!Fresh(outs)
    BY <2>1, <2>2 DEF C!Fresh
  <2>6. C!Issue(q, outs)
    BY <1>1, <2>1, <2>2, <2>3, <2>4, <2>5 DEF C!Issue
  <2> QED
    BY <1>1, <2>6 DEF C!Next
<1>3. CASE Replay(h, q, outs) \/ Refuse(h, q, outs)
  BY <1>3, Hidden DEF Sign, Replay, Refuse, chain
<1> QED
  BY <1>1, <1>2, <1>3 DEF Sign

LEMMA SwapMaps ==
  ASSUME IInv, NEW h \in Handlers, NEW ins \in SUBSET Tokens, NEW outs \in SUBSET Tokens,
         Swap(h, ins, outs)
  PROVE  C!Exchange(ins, outs)
<1>1. ins \subseteq signed \ spent /\ spent \subseteq signed /\ outs \cap signed = {}
  BY DEF IInv, RowsOK, LedgerOK, Swap, ValidInputs, Unspent, FreshOutputs
<1>2. C!Fresh(outs) /\ signed' \ spent' = ((signed \ spent) \ ins) \cup outs
  BY <1>1 DEF C!Fresh, Swap
<1> QED
  BY <1>1, <1>2 DEF Swap, C!Exchange, chain

LEMMA ConsumeMaps ==
  ASSUME IInv, NEW h \in Handlers, Consume(h)
  PROVE  C!Next \/ UNCHANGED C!vars
<1>1. PICK m \in Melts, ins \in SUBSET Tokens :
        m = call[h].melt /\ ins = call[h].ins /\ ins \subseteq signed
  BY CallTypes DEF IInv, Consume, MeltCalls, CallOK, RowsOK, LedgerOK
<1>2. CASE StillUnpaid(m) /\ Unspent(ins)
  <2>1. melt[m].inputs = {} /\ ins \subseteq signed \ spent
    <3>1. melt[m].state = "UNPAID" /\ ins \cap spent = {}
      BY <1>2 DEF StillUnpaid, Unspent
    <3>2. MeltOK(m)
      BY DEF IInv, RowsOK
    <3> QED
      BY <1>1, <3>1, <3>2 DEF MeltOK, Consumed
  <2>2. spent' = spent \cup ins /\ melt' = [melt EXCEPT ![m].state = "PENDING", ![m].inputs = ins]
        /\ UNCHANGED <<quote, signed, deposit, balance, paid>>
    BY <1>1, <1>2 DEF Consume, chain
  <2>3. [k \in Melts |-> melt'[k].inputs] = [[k \in Melts |-> melt[k].inputs] EXCEPT ![m] = ins]
    BY <1>1, <2>2 DEF IInv, TypeOK, MeltRows
  <2>4. signed' \ spent' = (signed \ spent) \ ins
    BY <2>2
  <2>5. C!Burn(m, ins)
    BY <1>1, <2>1, <2>2, <2>3, <2>4 DEF C!Burn
  <2> QED
    BY <1>1, <2>5 DEF C!Next
<1>3. CASE UNCHANGED <<spent, melt>>
  BY <1>3, Hidden DEF Consume, chain
<1> QED
  BY <1>1, <1>2, <1>3 DEF Consume

(* The vault pays a melt whose inputs were burned for at least the amount.  *)
LEMMA VaultPaysMaps ==
  ASSUME IInv, NEW m \in Melts, Consumed(m), VaultPays(m),
         UNCHANGED <<tables, deposit>>
  PROVE  C!Next
<1>1. /\ melt[m].amount \in 1..MaxDeposit
      /\ melt[m].inputs # {} /\ melt[m].amount <= Worth[melt[m].inputs]
  BY BoundsAssumption, ConfigAssumption
     DEF IInv, TypeOK, RowsOK, MeltOK, MeltRows, Consumed
<1>2. C!Pay(m, melt[m].amount)
  BY <1>1 DEF VaultPays, C!Pay, tables
<1> QED
  BY <1>1, <1>2 DEF C!Next

LEMMA PayoutMaps ==
  ASSUME IInv, NEW h \in Handlers, PayoutRuns(h)
  PROVE  C!Next \/ UNCHANGED C!vars
<1>1. call[h].melt \in Melts /\ Consumed(call[h].melt)
  BY CallTypes DEF IInv, PayoutRuns, MeltCalls, CallOK
<1>2. UNCHANGED <<tables, deposit>>
  BY DEF PayoutRuns
<1>3. CASE VaultPays(call[h].melt)
  BY <1>1, <1>2, <1>3, VaultPaysMaps
<1>4. CASE UNCHANGED <<balance, paid>>
  BY <1>2, <1>4, Hidden DEF tables
<1> QED
  BY <1>3, <1>4 DEF PayoutRuns

LEMMA LandsLateMaps ==
  ASSUME IInv, NEW m \in Melts, LandsLate(m)
  PROVE  C!Next \/ UNCHANGED C!vars
<1>1. Consumed(m) /\ UNCHANGED <<tables, deposit>>
  BY DEF IInv, LandsLate, RowsOK, MeltOK
<1>2. CASE VaultPays(m)
  BY <1>1, <1>2, VaultPaysMaps
<1>3. CASE UNCHANGED <<balance, paid>>
  BY <1>1, <1>3, Hidden DEF tables
<1> QED
  BY <1>2, <1>3 DEF LandsLate

(* Steps Custody does not see.                                              *)
LEMMA QuoteStepsHidden ==
  ASSUME IInv, NEW h \in Handlers, QuoteInsert(h) \/ Flip(h)
  PROVE  UNCHANGED C!vars
<1>1. \A q \in Quotes : quote'[q].state = "ISSUED" <=> quote[q].state = "ISSUED"
  BY DEF IInv, TypeOK, QuoteRows, QuoteInsert, Flip, CallOK
<1> QED
  BY <1>1, Hidden DEF QuoteInsert, Flip, chain

LEMMA MeltStepsHidden ==
  ASSUME IInv, (\E m \in Melts, n \in 1..MaxAmount : MeltQuote(m, n))
                 \/ \E h \in Handlers : Settle(h) \/ Record(h) \/ Owe(h)
  PROVE  UNCHANGED C!vars
<1>1. CASE \E m \in Melts, n \in 1..MaxAmount : MeltQuote(m, n)
  <2>0. PICK k \in Melts, n \in 1..MaxAmount : MeltQuote(k, n)
    BY <1>1
  <2>1. melt[k].inputs = {} /\ melt'[k].inputs = {}
    BY <2>0 DEF IInv, TypeOK, MeltQuote, RowsOK, MeltOK, Consumed
  <2>2. \A m \in Melts : melt'[m].inputs = melt[m].inputs
    BY <2>0, <2>1 DEF IInv, TypeOK, MeltQuote
  <2> QED
    BY <2>0, <2>2, Hidden DEF MeltQuote, chain
<1>2. CASE \E h \in Handlers, state \in {"PAID", "OWED"} : SetMelt(h, state)
  <2>1. \A m \in Melts : melt'[m].inputs = melt[m].inputs
    BY <1>2 DEF IInv, TypeOK, MeltRows, SetMelt
  <2> QED
    BY <1>2, <2>1, Hidden DEF SetMelt, chain
<1> QED
  BY <1>1, <1>2 DEF Settle, Record, Owe

LEMMA CallStepsHidden ==
  ASSUME UNCHANGED <<tables, deposit, balance, paid>>
  PROVE  UNCHANGED C!vars
BY Hidden DEF tables

LEMMA RequestMaps ==
  ASSUME IInv, NEW h \in Handlers, Request(h)
  PROVE  C!Next \/ UNCHANGED C!vars
<1>1. ASSUME NEW ins \in SUBSET Tokens, NEW outs \in SUBSET Tokens, Swap(h, ins, outs)
      PROVE  C!Next
  BY <1>1, SwapMaps DEF C!Next
<1>2. CASE \E q \in Quotes, n \in 1..MaxAmount : QuoteCheck(h, q, n)
  BY <1>2, CallStepsHidden DEF QuoteCheck, chain
<1>3. CASE \E q \in Quotes : GetQuote(h, q)
  BY <1>3, CallStepsHidden DEF GetQuote, chain
<1>4. CASE \E q \in Quotes, outs \in SUBSET Tokens : PostMint(h, q, outs)
  BY <1>4, CallStepsHidden DEF PostMint, chain
<1>5. CASE \E m \in Melts, ins \in SUBSET Tokens : PostMelt(h, m, ins)
  BY <1>5, CallStepsHidden DEF PostMelt, chain
<1> QED
  BY <1>1, <1>2, <1>3, <1>4, <1>5 DEF Request

LEMMA ContinueMaps ==
  ASSUME IInv, NEW h \in Handlers, Continue(h) \/ GoesWrong(h)
  PROVE  C!Next \/ UNCHANGED C!vars
<1>1. CASE Poll(h) \/ Reply(h) \/ Ask(h) \/ Submit(h)
  BY <1>1, CallStepsHidden DEF Poll, Reply, Ask, Submit, chain
<1>2. CASE GoesWrong(h)
  BY <1>2, CallStepsHidden
     DEF GoesWrong, AskFails, SubmitFails, ReceiptTimesOut, RecordFails, Fails, chain
<1> QED
  BY <1>1, <1>2, SignMaps, ConsumeMaps, PayoutMaps, QuoteStepsHidden, MeltStepsHidden
     DEF Continue

LEMMA EnvironmentMaps ==
  ASSUME IInv, Environment
  PROVE  C!Next \/ UNCHANGED C!vars
<1>1. ASSUME NEW q \in Quotes, NEW n \in 1..MaxDeposit, Deposit(q, n)
      PROVE  C!Next
  BY <1>1, DepositMaps DEF C!Next
<1>2. CASE \E id \in Quotes \cup Melts : Expire(id)
  BY <1>2, CallStepsHidden DEF Expire, chain
<1>3. CASE Crash
  BY <1>3, CallStepsHidden DEF Crash
<1> QED
  BY <1>1, <1>2, <1>3, MeltStepsHidden, LandsLateMaps DEF Environment

LEMMA StepMaps == ASSUME IInv, [Next]_vars PROVE [C!Next]_C!vars
<1>1. CASE UNCHANGED vars
  BY <1>1, CallStepsHidden DEF vars, chain
<1> QED
  BY <1>1, RequestMaps, ContinueMaps, EnvironmentMaps DEF Next

(* Every behaviour of the handlers, with its crashes, lost answers and late *)
(* payouts, is a behaviour of Custody.                                      *)
THEOREM MintImplementsCustody == Spec => Custodial
<1>1. Init => C!Init
  BY InitMaps
<1>2. IInv /\ [Next]_vars => [C!Next]_C!vars
  BY StepMaps
<1> QED
  BY <1>1, <1>2, Inductive, PTL DEF Spec, Custodial, C!Spec

-----------------------------------------------------------------------------
(* Solvency of Custody, for every worth of its coins, under the names Mint  *)
(* gives to Custody's variables.                                           *)
Minted == {q \in Quotes : quote[q].state = "ISSUED"}
Live == signed \ spent
Claims == [m \in Melts |-> melt[m].inputs]

(* A coin is never both live and dead, and it is burned for one melt only:  *)
(* without that a payout could count coins twice.                          *)
OneUse ==
  /\ Live \cap spent = {}
  /\ \A m \in Melts : Claims[m] \subseteq spent
  /\ \A m, k \in Melts : m # k => Claims[m] \cap Claims[k] = {}
  /\ \A m \in paid : Claims[m] # {}

SolvencyInv == C!TypeOK /\ OneUse /\ C!Solvent

(* Splitting a set of coins splits its worth.                               *)
LEMMA WorthSplit ==
  ASSUME NEW S \in SUBSET Tokens, NEW T \in SUBSET S
  PROVE  /\ Worth[S] \in Nat /\ Worth[T] \in Nat
         /\ Worth[S \ T] = Worth[S] - Worth[T]
<1>1. /\ S \in SUBSET Tokens /\ T \in SUBSET Tokens /\ S \ T \in SUBSET Tokens
  OBVIOUS
<1>2. /\ Worth[S] \in Nat /\ Worth[T] \in Nat /\ Worth[S \ T] \in Nat
  BY <1>1, WorthAssumption
<1>3. (S \ T) \cup T = S /\ (S \ T) \cap T = {}
  OBVIOUS
<1>4. Worth[S] = Worth[S \ T] + Worth[T]
  BY <1>1, <1>3, WorthAssumption
<1> QED
  BY <1>2, <1>4

(* Joining disjoint sets of coins adds their worth.                         *)
LEMMA WorthJoin ==
  ASSUME NEW S \in SUBSET Tokens, NEW T \in SUBSET Tokens, S \cap T = {}
  PROVE  /\ Worth[S] \in Nat /\ Worth[T] \in Nat
         /\ S \cup T \in SUBSET Tokens
         /\ Worth[S \cup T] = Worth[S] + Worth[T]
BY WorthAssumption

(* Changing one entry of a per-quote function changes its total by as much. *)
LEMMA TotalUpdate ==
  ASSUME NEW f \in C!PerQuote, NEW q \in Quotes, NEW n \in 0..MaxDeposit
  PROVE  /\ Total[f] \in Nat
         /\ [f EXCEPT ![q] = n] \in C!PerQuote
         /\ Total[[f EXCEPT ![q] = n]] = Total[f] - f[q] + n
BY TotalAssumption DEF PerQuote, C!PerQuote

LEMMA SamePerQuote == C!PerQuote = PerQuote
BY DEF C!PerQuote, PerQuote

LEMMA DerivedTypes ==
  ASSUME C!TypeOK
  PROVE  C!Owed \in SUBSET Tokens /\ C!Unissued \in C!PerQuote
BY BoundsAssumption DEF C!TypeOK, C!Owed, C!Unissued, C!PerQuote

LEMMA InitSolvent == C!Init => SolvencyInv
<1> SUFFICES ASSUME C!Init PROVE SolvencyInv
  OBVIOUS
<1>1. C!TypeOK
  BY BoundsAssumption DEF C!Init, C!TypeOK, C!PerQuote
<1>2. OneUse
  BY DEF C!Init, OneUse, Live, Claims
<1>3. C!Owed = {} /\ C!Unissued = [q \in Quotes |-> 0]
  BY DEF C!Init, C!Owed, C!Unissued
<1>4. C!Solvent
  BY <1>3, WorthAssumption, TotalAssumption DEF C!Solvent, C!Init, PerQuote
<1> QED
  BY <1>1, <1>2, <1>4 DEF SolvencyInv

LEMMA FundSolvent ==
  ASSUME SolvencyInv, NEW q \in Quotes, NEW n \in 1..MaxDeposit, C!Fund(q, n)
  PROVE  SolvencyInv'
<1> USE DEF SolvencyInv, Live, Minted, Claims
<1>0. n \in Nat /\ deposit[q] \in Nat /\ deposit[q] + n \in 0..MaxDeposit
  BY BoundsAssumption DEF C!Fund, C!TypeOK, C!PerQuote
<1>1. C!TypeOK'
  BY <1>0 DEF C!Fund, C!TypeOK, C!PerQuote
<1>2. OneUse'
  BY DEF C!Fund, OneUse
<1>3. Worth[Live] \in Nat /\ Worth[C!Owed] \in Nat /\ Total[C!Unissued] \in Nat /\ C!Unissued \in C!PerQuote
  BY DerivedTypes, SamePerQuote, WorthAssumption, TotalAssumption DEF C!TypeOK
<1>4. C!Owed' = C!Owed
  BY DEF C!Fund, C!Owed
<1>7. balance' = balance + n /\ Live' = Live
  BY DEF C!Fund
<1>8. balance \in Int /\ balance >= Worth[Live] + Worth[C!Owed] + Total[C!Unissued]
  BY DEF C!TypeOK, C!Solvent
<1> HIDE DEF Live, Minted
<1>5. CASE q \in Minted
  <2>1. C!Unissued' = C!Unissued
    BY <1>5 DEF C!Fund, Minted, C!Unissued, C!TypeOK, C!PerQuote
  <2> QED
    <3>1. balance' >= Worth[Live'] + Worth[C!Owed'] + Total[C!Unissued']
      BY <1>0, <1>3, <1>4, <1>7, <1>8, <2>1
    <3>2. C!Solvent'
      BY <3>1 DEF C!Solvent, Live
    <3> QED
      BY <1>1, <1>2, <3>2
<1>6. CASE q \notin Minted
  <2>1. C!Unissued' = [C!Unissued EXCEPT ![q] = deposit[q] + n] /\ C!Unissued[q] = deposit[q]
    BY <1>6 DEF C!Fund, Minted, C!Unissued, C!TypeOK, C!PerQuote
  <2>2. Total[C!Unissued'] = Total[[C!Unissued EXCEPT ![q] = deposit[q] + n]]
    BY <2>1
  <2>3. Total[[C!Unissued EXCEPT ![q] = deposit[q] + n]] = Total[C!Unissued] - C!Unissued[q] + (deposit[q] + n)
    BY <1>0, <1>3, TotalUpdate
  <2>4. Total[C!Unissued'] = Total[C!Unissued] + n
    BY <1>0, <1>3, <2>1, <2>2, <2>3
  <2> QED
    <3>1. balance' >= Worth[Live'] + Worth[C!Owed'] + Total[C!Unissued']
      BY <1>0, <1>3, <1>4, <1>7, <1>8, <2>4
    <3>2. C!Solvent'
      BY <3>1 DEF C!Solvent, Live
    <3> QED
      BY <1>1, <1>2, <3>2
<1> QED
  BY <1>5, <1>6

LEMMA IssueSolvent ==
  ASSUME SolvencyInv, NEW q \in Quotes, NEW S \in SUBSET Tokens, C!Issue(q, S)
  PROVE  SolvencyInv'
<1> USE DEF SolvencyInv, Live, Minted, Claims
<1>1. C!TypeOK'
  BY DEF C!Issue, C!TypeOK
<1>2. OneUse'
  BY DEF C!Issue, OneUse, C!Fresh
<1>3. Worth[C!Owed] \in Nat /\ Total[C!Unissued] \in Nat /\ C!Unissued \in C!PerQuote
  BY DerivedTypes, SamePerQuote, WorthAssumption, TotalAssumption
<1>4. C!Owed' = C!Owed
  BY DEF C!Issue, C!Owed
<1>5. Live \in SUBSET Tokens /\ Live \cap S = {} /\ Live' = Live \cup S
  BY DEF C!Issue, C!TypeOK, C!Fresh
<1>6. Worth[Live'] = Worth[Live] + Worth[S] /\ Worth[Live] \in Nat /\ Worth[S] \in Nat
  BY <1>5, WorthJoin
<1>7. C!Unissued[q] = deposit[q] /\ deposit[q] \in Nat
  BY BoundsAssumption DEF C!Issue, C!Unissued, C!TypeOK, C!PerQuote
<1>8. Total[C!Unissued'] = Total[C!Unissued] - deposit[q]
  <2>1. 0 \in 0..MaxDeposit
    BY BoundsAssumption
  <2>2. C!Unissued' = [C!Unissued EXCEPT ![q] = 0]
    BY DEF C!Issue, C!Unissued, C!TypeOK
  <2>3. Total[[C!Unissued EXCEPT ![q] = 0]] = Total[C!Unissued] - C!Unissued[q] + 0
    BY <1>3, <2>1, TotalUpdate
  <2> QED
    BY <1>3, <1>7, <2>2, <2>3
<1> QED
  BY <1>1, <1>2, <1>3, <1>4, <1>6, <1>7, <1>8 DEF C!Issue, C!Solvent, C!TypeOK

LEMMA ExchangeSolvent ==
  ASSUME SolvencyInv, NEW S \in SUBSET Tokens, NEW T \in SUBSET Tokens, C!Exchange(S, T)
  PROVE  SolvencyInv'
<1> USE DEF SolvencyInv, Live, Minted, Claims
<1>1. C!TypeOK'
  BY DEF C!Exchange, C!TypeOK
<1>2. OneUse'
  BY DEF C!Exchange, OneUse, C!Fresh
<1>3. Worth[C!Owed] \in Nat /\ Total[C!Unissued] \in Nat
  BY DerivedTypes, SamePerQuote, WorthAssumption, TotalAssumption
<1>4. C!Owed' = C!Owed /\ C!Unissued' = C!Unissued
  BY DEF C!Exchange, C!Owed, C!Unissued
<1>5. Live \in SUBSET Tokens /\ S \in SUBSET Live
  BY DEF C!Exchange, C!TypeOK
<1>6. Worth[Live \ S] = Worth[Live] - Worth[S] /\ Worth[Live] \in Nat /\ Worth[S] \in Nat
  BY <1>5, WorthSplit
<1>7. Live \ S \in SUBSET Tokens /\ (Live \ S) \cap T = {} /\ Live' = (Live \ S) \cup T
  BY <1>5 DEF C!Exchange, C!Fresh
<1>8. Worth[Live'] = Worth[Live \ S] + Worth[T]
  BY <1>7, WorthJoin
<1> QED
  BY <1>1, <1>2, <1>3, <1>4, <1>6, <1>8 DEF C!Exchange, C!Solvent, C!TypeOK

LEMMA BurnSolvent ==
  ASSUME SolvencyInv, NEW m \in Melts, NEW S \in SUBSET Tokens, C!Burn(m, S)
  PROVE  SolvencyInv'
<1> USE DEF SolvencyInv, Live, Minted, Claims
<1>0. m \notin paid
  BY DEF C!Burn, OneUse
<1>1. C!TypeOK'
  BY DEF C!Burn, C!TypeOK
<1>2. OneUse'
  BY <1>0 DEF C!Burn, OneUse, C!TypeOK
<1>3. C!Owed \in SUBSET Tokens /\ Total[C!Unissued] \in Nat
  BY DerivedTypes, SamePerQuote, TotalAssumption
<1>4. C!Unissued' = C!Unissued
  BY DEF C!Burn, C!Unissued
<1>5. Live \in SUBSET Tokens /\ S \in SUBSET Live /\ Live' = Live \ S
  BY DEF C!Burn, C!TypeOK
<1>6. Worth[Live'] = Worth[Live] - Worth[S] /\ Worth[Live] \in Nat /\ Worth[S] \in Nat
  BY <1>5, WorthSplit
<1>7. C!Owed' = C!Owed \cup S
  <2>1. /\ Claims' = [Claims EXCEPT ![m] = S] /\ paid' = paid /\ Claims[m] = {}
        /\ Claims \in [Melts -> SUBSET Tokens]
    BY DEF C!Burn, C!TypeOK
  <2> HIDE DEF Claims
  <2>2. C!Owed = UNION {Claims[k] : k \in Melts \ paid}
    BY DEF C!Owed, Claims
  <2>3. C!Owed' = UNION {Claims'[k] : k \in Melts \ paid'}
    BY DEF C!Owed, Claims
  <2> QED
    BY <1>0, <2>1, <2>2, <2>3
<1>8. C!Owed \cap S = {}
  BY <1>5 DEF OneUse, C!Owed
<1>9. Worth[C!Owed'] = Worth[C!Owed] + Worth[S] /\ Worth[C!Owed] \in Nat
  BY <1>3, <1>7, <1>8, WorthJoin
<1> QED
  BY <1>1, <1>2, <1>3, <1>4, <1>6, <1>9 DEF C!Burn, C!Solvent, C!TypeOK

LEMMA PaySolvent ==
  ASSUME SolvencyInv, NEW m \in Melts, NEW n \in 1..MaxDeposit, C!Pay(m, n)
  PROVE  SolvencyInv'
<1> USE DEF SolvencyInv, Live, Minted, Claims
<1>0. n \in Nat /\ n \in Int
  BY BoundsAssumption
<1>1. C!TypeOK'
  BY <1>0 DEF C!Pay, C!TypeOK
<1>2. OneUse'
  BY DEF C!Pay, OneUse
<1>3. C!Owed \in SUBSET Tokens /\ Worth[Live] \in Nat /\ Total[C!Unissued] \in Nat
  BY DerivedTypes, SamePerQuote, WorthAssumption, TotalAssumption DEF C!TypeOK
<1>4. C!Unissued' = C!Unissued
  BY DEF C!Pay, C!Unissued
<1>5. Claims[m] \in SUBSET C!Owed
  BY DEF C!Pay, C!Owed
<1>6. C!Owed' = C!Owed \ Claims[m]
  BY DEF C!Pay, C!Owed, OneUse, C!TypeOK
<1>7. Worth[C!Owed'] = Worth[C!Owed] - Worth[Claims[m]] /\ Worth[C!Owed] \in Nat /\ Worth[Claims[m]] \in Nat
  BY <1>3, <1>5, <1>6, WorthSplit
<1>8. balance' = balance - n /\ Live' = Live /\ n <= Worth[Claims[m]]
  BY DEF C!Pay
<1>9. balance \in Int /\ balance >= Worth[Live] + Worth[C!Owed] + Total[C!Unissued]
  BY DEF C!TypeOK, C!Solvent
<1>10. C!Solvent'
  <2> HIDE DEF Live, Claims
  <2>1. balance' >= Worth[Live'] + Worth[C!Owed'] + Total[C!Unissued']
    BY <1>0, <1>3, <1>4, <1>7, <1>8, <1>9
  <2> QED
    BY <2>1 DEF C!Solvent, Live
<1> QED
  BY <1>1, <1>2, <1>10

LEMMA StepSolvent == SolvencyInv /\ [C!Next]_C!vars => SolvencyInv'
<1> SUFFICES ASSUME SolvencyInv, [C!Next]_C!vars PROVE SolvencyInv'
  OBVIOUS
<1>1. CASE \E q \in Quotes, n \in 1..MaxDeposit : C!Fund(q, n)
  BY <1>1, FundSolvent
<1>2. CASE \E q \in Quotes, S \in SUBSET Tokens : C!Issue(q, S)
  BY <1>2, IssueSolvent
<1>3. CASE \E S, T \in SUBSET Tokens : C!Exchange(S, T)
  BY <1>3, ExchangeSolvent
<1>4. CASE \E m \in Melts, S \in SUBSET Tokens : C!Burn(m, S)
  BY <1>4, BurnSolvent
<1>5. CASE \E m \in Melts, n \in 1..MaxDeposit : C!Pay(m, n)
  BY <1>5, PaySolvent
<1>6. CASE UNCHANGED C!vars
  <2>1. C!TypeOK'
    BY <1>6 DEF C!vars, SolvencyInv, C!TypeOK
  <2>2. OneUse'
    BY <1>6 DEF C!vars, SolvencyInv, OneUse, Live, Claims
  <2>3. C!Owed' = C!Owed /\ C!Unissued' = C!Unissued
    BY <1>6 DEF C!vars, C!Owed, C!Unissued
  <2>4. balance' = balance /\ Live' = Live
    BY <1>6 DEF C!vars, Live
  <2>5. balance' >= Worth[Live'] + Worth[C!Owed'] + Total[C!Unissued']
    BY <2>3, <2>4 DEF SolvencyInv, C!Solvent, Live
  <2>6. C!Solvent'
    BY <2>5 DEF C!Solvent, Live
  <2> QED
    BY <2>1, <2>2, <2>6 DEF SolvencyInv
<1> QED
  BY <1>1, <1>2, <1>3, <1>4, <1>5, <1>6 DEF C!Next

(* The vault covers every claim on it in every behaviour of Custody.        *)
THEOREM CustodySolvent == C!Spec => []C!Solvent
<1>1. SolvencyInv => C!Solvent
  BY DEF SolvencyInv
<1> QED
  BY InitSolvent, StepSolvent, <1>1, PTL DEF C!Spec

(* The vault covers the coins in circulation, the payouts due and the       *)
(* deposits not minted from, in every reachable state.                      *)
THEOREM MintSolvent == Spec => []Solvent
BY MintImplementsCustody, CustodySolvent, PTL DEF Custodial, Solvent

-----------------------------------------------------------------------------
(* The keys that are taken: the rows closed, the inputs spent, the outputs  *)
(* signed.  With them Custody, and so Mint, is the ledger that node-postgres*)
(* keeps statement by statement (PgProofs).                                *)
Committed ==
  [table : {"quote"}, id : Minted] \cup [table : {"melt"}, id : {m \in Melts : Claims[m] # {}}]
    \cup [table : {"spent"}, id : spent] \cup [table : {"signed"}, id : Live \cup spent]

Ledger == INSTANCE AtomicLedger WITH Circulating <- {}, taken <- Committed

LEMMA RowsOfTable ==
  ASSUME NEW table, NEW ids, NEW k
  PROVE  k \in Ledger!Rows(table, ids) <=> \E x \in ids : k = [table |-> table, id |-> x]
BY DEF Ledger!Rows

LEMMA CommittedRows ==
  Committed = Ledger!Rows("quote", Minted) \cup Ledger!Rows("melt", {m \in Melts : Claims[m] # {}})
                \cup Ledger!Rows("spent", spent) \cup Ledger!Rows("signed", Live \cup spent)
BY DEF Committed, Ledger!Rows

LEMMA LedgerSupply ==
  ASSUME C!TypeOK
  PROVE  Ledger!Supply = Live \cup spent
<1>1. Live \cup spent \subseteq Tokens
  BY DEF C!TypeOK, Live
<1>2. ASSUME NEW t \in Tokens
      PROVE  Ledger!Rows("signed", {t}) \subseteq Committed <=> t \in Live \cup spent
  <2>1. [table |-> "signed", id |-> t] \in Committed <=> t \in Live \cup spent
    BY DEF Committed
  <2>2. Ledger!Rows("signed", {t}) = {[table |-> "signed", id |-> t]}
    BY RowsOfTable
  <2> QED
    BY <2>1, <2>2
<1> QED
  BY <1>1, <1>2 DEF Ledger!Supply

LEMMA IssueTakes ==
  ASSUME SolvencyInv, NEW q \in Quotes, NEW S \in SUBSET Tokens, C!Issue(q, S)
  PROVE  Ledger!Next
<1>1. /\ q \notin Minted /\ Minted' = Minted \cup {q} /\ S \cap (Live \cup spent) = {}
      /\ Live' = Live \cup S /\ spent' = spent /\ Claims' = Claims
  BY DEF C!Issue, C!Fresh, Minted, Live, Claims
<1>2. (Ledger!Rows("quote", {q}) \cup Ledger!Rows("signed", S)) \cap Committed = {}
  BY <1>1, RowsOfTable DEF Committed
<1>3. Committed' = Committed \cup (Ledger!Rows("quote", {q}) \cup Ledger!Rows("signed", S))
  BY <1>1 DEF Committed, Ledger!Rows
<1> QED
  BY <1>2, <1>3 DEF Ledger!Next, Ledger!Issue, Ledger!Take

LEMMA ExchangeTakes ==
  ASSUME SolvencyInv, NEW S \in SUBSET Tokens, NEW T \in SUBSET Tokens, C!Exchange(S, T)
  PROVE  Ledger!Next
<1>1. /\ S \subseteq Live /\ T \cap (Live \cup spent) = {} /\ Worth[S] = Worth[T]
      /\ Live' = (Live \ S) \cup T /\ spent' = spent \cup S
      /\ Minted' = Minted /\ Claims' = Claims
  BY DEF C!Exchange, C!Fresh, Minted, Live, Claims
<1>2. Live \cap spent = {} /\ C!TypeOK
  BY DEF SolvencyInv, OneUse
<1>3. (Ledger!Rows("spent", S) \cup Ledger!Rows("signed", T)) \cap Committed = {}
  BY <1>1, <1>2, RowsOfTable DEF Committed
<1>4. Committed' = Committed \cup (Ledger!Rows("spent", S) \cup Ledger!Rows("signed", T))
  <2>1. Live' \cup spent' = (Live \cup spent) \cup T
    BY <1>1
  <2> QED
    BY <1>1, <2>1 DEF Committed, Ledger!Rows
<1>5. S \in SUBSET Ledger!Supply /\ T \in SUBSET (Tokens \ Ledger!Supply)
  BY <1>1, <1>2, LedgerSupply
<1> QED
  BY <1>1, <1>3, <1>4, <1>5 DEF Ledger!Next, Ledger!Swap, Ledger!Take

(* A melt that burns no coins takes no key: it stays open.                  *)
LEMMA BurnTakes ==
  ASSUME SolvencyInv, NEW m \in Melts, NEW S \in SUBSET Tokens, C!Burn(m, S)
  PROVE  Ledger!Next \/ Committed' = Committed
<1>1. /\ Claims[m] = {} /\ S \subseteq Live /\ Live' = Live \ S /\ spent' = spent \cup S
      /\ Claims' = [Claims EXCEPT ![m] = S] /\ Minted' = Minted
  BY DEF C!Burn, Minted, Live, Claims
<1>2. Live \cap spent = {} /\ C!TypeOK
  BY DEF SolvencyInv, OneUse
<1>3. Live' \cup spent' = Live \cup spent
  BY <1>1
<1>4. \A k \in Melts : Claims'[k] = IF k = m THEN S ELSE Claims[k]
  BY <1>1 DEF Claims
<1>5. CASE S = {}
  BY <1>1, <1>3, <1>4, <1>5 DEF Committed
<1>6. CASE S # {}
  <2>1. {k \in Melts : Claims'[k] # {}} = {k \in Melts : Claims[k] # {}} \cup {m}
    BY <1>1, <1>4, <1>6
  <2>2. (Ledger!Rows("melt", {m}) \cup Ledger!Rows("spent", S)) \cap Committed = {}
    BY <1>1, <1>2, RowsOfTable DEF Committed
  <2>3. Committed' = Committed \cup (Ledger!Rows("melt", {m}) \cup Ledger!Rows("spent", S))
    BY <1>1, <1>3, <2>1 DEF Committed, Ledger!Rows
  <2>4. S \in SUBSET Ledger!Supply
    BY <1>1, <1>2, LedgerSupply
  <2> QED
    BY <2>2, <2>3, <2>4 DEF Ledger!Next, Ledger!Melt, Ledger!Take
<1> QED
  BY <1>5, <1>6

(* The abstract custody protocol closes rows, spends inputs and signs       *)
(* outputs as whole requests.                                              *)
THEOREM CustodyTakesWhole == C!Spec => Ledger!Spec
<1>1. C!Init => Ledger!Init
  BY DEF C!Init, Ledger!Init, Ledger!Rows, Committed, Minted, Live, Claims
<1>2. ASSUME SolvencyInv, [C!Next]_C!vars
      PROVE  [Ledger!Next]_Committed
  <2>1. ASSUME NEW q \in Quotes, NEW n \in 1..MaxDeposit, C!Fund(q, n) PROVE Committed' = Committed
    BY <2>1 DEF C!Fund, Committed, Minted, Live, Claims
  <2>2. ASSUME NEW m \in Melts, NEW n \in 1..MaxDeposit, C!Pay(m, n) PROVE Committed' = Committed
    BY <2>2 DEF C!Pay, Committed, Minted, Live, Claims
  <2>3. CASE UNCHANGED C!vars
    BY <2>3 DEF C!vars, Committed, Minted, Live, Claims
  <2> QED
    BY <1>2, <2>1, <2>2, <2>3, IssueTakes, ExchangeTakes, BurnTakes DEF C!Next
<1> QED
  BY <1>1, <1>2, InitSolvent, StepSolvent, PTL DEF C!Spec, Ledger!Spec

(* The handlers' transactions are those of the abstract ledger, which      *)
(* PgLedger implements without taking a transaction for one step.          *)
THEOREM MintTakesWhole == Spec => Ledger!Spec
BY MintImplementsCustody, CustodyTakesWhole, PTL DEF Custodial

-----------------------------------------------------------------------------
(* The cap.  Only Issue adds to the supply, and it checks the cap in the    *)
(* step that signs; a swap signs what it spends, a melt only spends.        *)
LEMMA SumFacts ==
  /\ \A S, T \in SUBSET Tokens : S \cap T = {} => Worth[S \cup T] = Worth[S] + Worth[T]
  /\ \A S \in SUBSET Tokens : Worth[S] \in Nat
BY WorthAssumption

LEMMA CapStays == ASSUME IInv, CapHolds, [Next]_vars PROVE CapHolds'
<1> USE DEF CapHolds, Outstanding
<1>1. signed \in SUBSET Tokens /\ spent \in SUBSET Tokens /\ Cap \in Nat
  BY ConfigAssumption DEF IInv, TypeOK
<1>2. CASE UNCHANGED <<signed, spent>>
  BY <1>2
<1>3. ASSUME NEW h \in Handlers, Sign(h) PROVE CapHolds'
  <2>1. PICK q \in Quotes, outs \in SUBSET Tokens :
          q = call[h].quote /\ outs = call[h].outs /\ Worth[outs] = quote[q].amount
    BY <1>3, CallTypes DEF IInv, Sign, MintCalls, CallOK
  <2>2. CASE Issue(h, q, outs)
    <3>1. Worth[signed'] = Worth[signed] + quote[q].amount
      BY <1>1, <2>1, <2>2, SumFacts DEF Issue, FreshOutputs
    <3>2. spent' = spent /\ UnderCap(quote[q].amount)
      BY <1>3, <2>2 DEF Sign, Issue
    <3>3. Worth[signed] \in Nat /\ Worth[spent] \in Nat /\ quote[q].amount \in Nat
      BY <1>1, <2>1, SumFacts
    <3> QED
      BY <1>1, <3>1, <3>2, <3>3 DEF UnderCap
  <2>3. CASE Replay(h, q, outs) \/ Refuse(h, q, outs)
    BY <1>2, <1>3, <2>3 DEF Sign, Replay, Refuse
  <2> QED
    BY <1>3, <2>1, <2>2, <2>3 DEF Sign
<1>4. ASSUME NEW h \in Handlers, NEW ins \in SUBSET Tokens, NEW outs \in SUBSET Tokens,
             Swap(h, ins, outs)
      PROVE  CapHolds'
  <2>1. /\ Worth[signed'] = Worth[signed] + Worth[outs]
        /\ Worth[spent'] = Worth[spent] + Worth[ins]
        /\ Worth[ins] = Worth[outs]
    BY <1>1, <1>4, SumFacts DEF Swap, FreshOutputs, Unspent
  <2>2. Worth[signed] \in Nat /\ Worth[spent] \in Nat /\ Worth[outs] \in Nat
    BY <1>1, SumFacts
  <2> QED
    BY <1>1, <2>1, <2>2
<1>5. ASSUME NEW h \in Handlers, Consume(h) PROVE CapHolds'
  <2>1. PICK ins \in SUBSET Tokens : ins = call[h].ins
    BY <1>5, CallTypes DEF IInv, Consume, MeltCalls
  <2>2. CASE StillUnpaid(call[h].melt) /\ Unspent(ins)
    <3>1. Worth[spent'] = Worth[spent] + Worth[ins] /\ signed' = signed
      BY <1>1, <1>5, <2>1, <2>2, SumFacts DEF Consume, Unspent
    <3>2. Worth[signed] \in Nat /\ Worth[spent] \in Nat /\ Worth[ins] \in Nat
      BY <1>1, SumFacts
    <3> QED
      BY <1>1, <3>1, <3>2
  <2>3. CASE UNCHANGED <<spent, melt>>
    BY <1>2, <1>5, <2>3 DEF Consume
  <2> QED
    BY <1>5, <2>1, <2>2, <2>3 DEF Consume
<1>6. ASSUME NEW h \in Handlers, Continue(h), ~Sign(h), ~Consume(h) PROVE UNCHANGED <<signed, spent>>
  BY <1>6 DEF Continue, QuoteInsert, Poll, Flip, Reply, Ask, Settle, Submit, PayoutRuns, Record,
              Owe, SetMelt, tables
<1>7. ASSUME NEW h \in Handlers, GoesWrong(h) PROVE UNCHANGED <<signed, spent>>
  BY <1>7 DEF GoesWrong, AskFails, SubmitFails, ReceiptTimesOut, RecordFails, Fails, tables
<1>8. ASSUME NEW h \in Handlers, Request(h),
             ~\E ins, outs \in SUBSET Tokens : Swap(h, ins, outs)
      PROVE  UNCHANGED <<signed, spent>>
  BY <1>8 DEF Request, QuoteCheck, GetQuote, PostMint, PostMelt, tables
<1>9. ASSUME Environment \/ UNCHANGED vars PROVE UNCHANGED <<signed, spent>>
  BY <1>9 DEF Environment, MeltQuote, Deposit, Expire, LandsLate, Crash, tables, vars
<1> QED
  BY <1>2, <1>3, <1>4, <1>5, <1>6, <1>7, <1>8, <1>9 DEF Next

(* The supply never passes the cap where a transaction is one step, however *)
(* stale the check that admitted the quotes.                                *)
THEOREM CapNeverPassed == Spec => []CapHolds
<1>1. Init => CapHolds
  BY ConfigAssumption, WorthAssumption DEF Init, CapHolds, Outstanding
<1>2. IInv /\ CapHolds /\ [Next]_vars => CapHolds'
  BY CapStays
<1> QED
  BY <1>1, <1>2, Inductive, PTL DEF Spec
=============================================================================
