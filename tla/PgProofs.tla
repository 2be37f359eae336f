------------------------------ MODULE PgProofs ------------------------------
(***************************************************************************)
(* On node-postgres, what is committed is the whole of one request whose   *)
(* keys were all free, for any number of connections, quotes, melts and    *)
(* coins, and requests of any width.                                       *)
(***************************************************************************)
EXTENDS PgLedger, FiniteSetTheorems, TLAPS

Statements == [do : {"hold"}, key : Keys] \cup [do : {"issuedSum", "spentSum", "commit"}]

(* The transactions a handler may have under way: their inputs stay        *)
(* presentable, because what is signed stays signed.                       *)
Legal(st) ==
  \/ \E q \in Quotes, outs \in Lists : st = IssueTx(q, outs)
  \/ \E ins \in Presentable, outs \in Lists : Len(ins) = Len(outs) /\ st = SwapTx(ins, outs)
  \/ \E m \in Melts, ins \in Presentable : st = MeltTx(m, ins)

(* The keys the first n statements of st hold.                             *)
KeysUpTo(st, n) == {st[i].key : i \in {j \in 1..n : st[j].do = "hold"}}

HeldBy(b) == {k \in Keys : owner[k] = b}

(* Backend b has done the first n statements of st: it holds their keys,    *)
(* and the rest is what it has left.                                       *)
Doing(b, st, n) ==
  /\ Len(todo[b]) = Len(st) - n
  /\ \A i \in 1..(Len(st) - n) : todo[b][i] = st[n + i]
  /\ HeldBy(b) = KeysUpTo(st, n)

TypeInv ==
  /\ taken \subseteq Keys
  /\ owner \in [Keys -> Backends \cup {Free}]
  /\ todo \in [Backends -> Seq(Statements)]

(* A key that is held is not committed, and who holds keys is in the midst *)
(* of a transaction whose statements so far are these keys.                *)
InMidst(b) ==
  IF Open(b)
    THEN \E st \in Seq(Statements) : Legal(st) /\ \E n \in 0..(Len(st) - 1) : Doing(b, st, n)
    ELSE HeldBy(b) = {}

PInv ==
  /\ TypeInv
  /\ \A k \in Keys : owner[k] # Free => k \notin taken
  /\ \A b \in Backends : InMidst(b)

-----------------------------------------------------------------------------
(* Lists of coins, and how many coins they list.                           *)
LEMMA ListFacts ==
  ASSUME NEW s \in Lists
  PROVE  /\ s \in Seq(Tokens)
         /\ \A i, j \in 1..Len(s) : s[i] = s[j] => i = j
<1>1. PICK S \in SUBSET Tokens : Cardinality(S) \in 1..Width /\ s \in SetToSeqs(S)
  BY DEF Lists
<1>2. Cardinality(S) \in Nat
  BY <1>1, PgAssumption
<1>3. s \in [1..Cardinality(S) -> S] /\ \A i, j \in 1..Cardinality(S) : i # j => s[i] # s[j]
  BY <1>1 DEF SetToSeqs
<1>4. s \in Seq(S) /\ Len(s) = Cardinality(S)
  BY <1>2, <1>3
<1> QED
  BY <1>3, <1>4

LEMMA ListCounts ==
  ASSUME NEW s \in Lists
  PROVE  /\ ToSet(s) \subseteq Tokens
         /\ ToSet(s) = {s[i] : i \in 1..Len(s)}
         /\ Cardinality(ToSet(s)) = Len(s)
<1>1. s \in Seq(Tokens) /\ \A i, j \in 1..Len(s) : s[i] = s[j] => i = j
  BY ListFacts
<1>2. ToSet(s) = {s[i] : i \in 1..Len(s)} /\ Len(s) \in Nat
  BY <1>1 DEF ToSet
<1>3. ToSet(s) \subseteq Tokens
  BY <1>1, <1>2
<1>4. s \in [1..Len(s) -> ToSet(s)]
  BY <1>1, <1>2
<1>5. s \in Bijection(1..Len(s), ToSet(s))
  BY <1>1, <1>2, <1>4 DEF Bijection, Injection, Surjection, IsInjective
<1>6. ExistsBijection(1..Len(s), ToSet(s))
  BY <1>5 DEF ExistsBijection
<1> QED
  BY <1>2, <1>3, <1>6, FS_CountingElements

-----------------------------------------------------------------------------
(* What the three transactions are, statement by statement.                *)
(* A transaction is what it holds first, what it does next, and so on.      *)
LEMMA Parts ==
  ASSUME NEW f \in Seq(Statements), NEW g \in Seq(Statements)
  PROVE  /\ f \o g \in Seq(Statements)
         /\ Len(f \o g) = Len(f) + Len(g)
         /\ \A i \in 1..Len(f) : (f \o g)[i] = f[i]
         /\ \A i \in 1..Len(g) : (f \o g)[i + Len(f)] = g[i]
OBVIOUS

LEMMA HoldIs ==
  ASSUME NEW table, NEW ids, ids \in Seq(Tokens) \/ (\E x : ids = <<x>>),
         \A i \in 1..Len(ids) : Row(table, ids[i]) \in Keys
  PROVE  /\ Hold(table, ids) \in Seq(Statements)
         /\ Len(Hold(table, ids)) = Len(ids)
         /\ \A i \in 1..Len(ids) :
              Hold(table, ids)[i].do = "hold" /\ Hold(table, ids)[i].key = Row(table, ids[i])
<1>1. DOMAIN ids = 1..Len(ids) /\ Len(ids) \in Nat
  OBVIOUS
<1>2. \A i \in 1..Len(ids) : [do |-> "hold", key |-> Row(table, ids[i])] \in Statements
  BY DEF Statements
<1>3. Hold(table, ids) = [i \in 1..Len(ids) |-> [do |-> "hold", key |-> Row(table, ids[i])]]
  BY <1>1 DEF Hold
<1> QED
  BY <1>1, <1>2, <1>3

LEMMA FixedParts ==
  /\ CheckCap \in Seq(Statements) /\ Len(CheckCap) = 2
  /\ CheckCap[1].do = "issuedSum" /\ CheckCap[2].do = "spentSum"
  /\ Finish \in Seq(Statements) /\ Len(Finish) = 1 /\ Finish[1].do = "commit"
BY DEF CheckCap, Finish, Statements

LEMMA IssueIs ==
  ASSUME NEW q \in Quotes, NEW outs \in Lists, NEW st, st = IssueTx(q, outs)
  PROVE  /\ st \in Seq(Statements)
         /\ Len(st) = Len(outs) + 4
         /\ st[1].do = "hold" /\ st[1].key = Row("quote", q)
         /\ st[2].do = "issuedSum" /\ st[3].do = "spentSum"
         /\ \A i \in 1..Len(outs) : st[i + 3].do = "hold" /\ st[i + 3].key = Row("signed", outs[i])
         /\ st[Len(st)].do = "commit"
<1>1. outs \in Seq(Tokens) /\ Len(outs) \in Nat
  BY ListFacts
<1> DEFINE A == Hold("quote", <<q>>)
           B == Hold("signed", outs)
           AC == A \o CheckCap
           ACB == AC \o B
<1>2. /\ A \in Seq(Statements) /\ Len(A) = 1
      /\ A[1].do = "hold" /\ A[1].key = Row("quote", q)
  <2>1. Row("quote", q) \in Keys
    BY DEF Keys, LockRows
  <2>2. Len(<<q>>) = 1 /\ <<q>>[1] = q
    OBVIOUS
  <2> QED
    BY <2>1, <2>2, HoldIs
<1>3. /\ B \in Seq(Statements) /\ Len(B) = Len(outs)
      /\ \A i \in 1..Len(outs) : B[i].do = "hold" /\ B[i].key = Row("signed", outs[i])
  <2>1. \A i \in 1..Len(outs) : Row("signed", outs[i]) \in Keys
    BY <1>1 DEF Keys
  <2> QED
    BY <1>1, <2>1, HoldIs
<1>4. st = ACB \o Finish
  BY DEF IssueTx
<1> HIDE DEF A, B
<1>5. /\ AC \in Seq(Statements) /\ Len(AC) = 3 /\ AC[1] = A[1]
      /\ AC[2] = CheckCap[1] /\ AC[3] = CheckCap[2]
  <2>1. /\ AC \in Seq(Statements) /\ Len(AC) = Len(A) + Len(CheckCap)
        /\ \A i \in 1..Len(A) : (AC)[i] = A[i]
        /\ \A i \in 1..Len(CheckCap) : (AC)[i + Len(A)] = CheckCap[i]
    BY <1>2, FixedParts, Parts
  <2>2. AC[1 + 1] = CheckCap[1] /\ AC[2 + 1] = CheckCap[2] /\ AC[1] = A[1]
    BY <1>2, <2>1, FixedParts
  <2> QED
    BY <1>2, <2>1, <2>2, FixedParts
<1> HIDE DEF AC
<1>6. /\ ACB \in Seq(Statements) /\ Len(ACB) = Len(outs) + 3
      /\ \A i \in 1..3 : ACB[i] = AC[i]
      /\ \A i \in 1..Len(outs) : ACB[i + 3] = B[i]
  <2>1. /\ ACB \in Seq(Statements) /\ Len(ACB) = Len(AC) + Len(B)
        /\ \A i \in 1..Len(AC) : (ACB)[i] = AC[i]
        /\ \A i \in 1..Len(B) : (ACB)[i + Len(AC)] = B[i]
    BY <1>3, <1>5, Parts
  <2> QED
    BY <1>1, <1>3, <1>5, <2>1
<1> HIDE DEF ACB
<1>7. /\ ACB \o Finish \in Seq(Statements) /\ Len(ACB \o Finish) = Len(outs) + 4
      /\ \A i \in 1..(Len(outs) + 3) : (ACB \o Finish)[i] = ACB[i]
      /\ (ACB \o Finish)[Len(outs) + 4] = Finish[1]
  <2>1. /\ ACB \o Finish \in Seq(Statements) /\ Len(ACB \o Finish) = Len(ACB) + Len(Finish)
        /\ \A i \in 1..Len(ACB) : (ACB \o Finish)[i] = ACB[i]
        /\ \A i \in 1..Len(Finish) : (ACB \o Finish)[i + Len(ACB)] = Finish[i]
    BY <1>6, FixedParts, Parts
  <2>2. (ACB \o Finish)[1 + Len(ACB)] = Finish[1]
    BY <2>1, FixedParts
  <2> QED
    BY <1>1, <1>6, <2>1, <2>2, FixedParts
<1>8. \A i \in 1..Len(outs) : st[i + 3].do = "hold" /\ st[i + 3].key = Row("signed", outs[i])
  <2>1. \A i \in 1..Len(outs) : i + 3 \in 1..(Len(outs) + 3)
    BY <1>1
  <2> QED
    <3>1. \A i \in 1..Len(outs) : st[i + 3] = B[i]
      BY <1>4, <1>6, <1>7, <2>1
    <3> QED
      BY <1>3, <3>1
<1>9. st[1] = A[1] /\ st[2] = CheckCap[1] /\ st[3] = CheckCap[2]
  <2>1. \A i \in 1..3 : i \in 1..(Len(outs) + 3)
    BY <1>1
  <2>2. \A i \in 1..3 : st[i] = AC[i]
    BY <1>4, <1>6, <1>7, <2>1
  <2> QED
    BY <1>5, <2>2
<1> QED
  BY <1>2, <1>4, <1>7, <1>8, <1>9, FixedParts

LEMMA SwapIs ==
  ASSUME NEW ins \in Lists, NEW outs \in Lists, NEW st, st = SwapTx(ins, outs)
  PROVE  /\ st \in Seq(Statements)
         /\ Len(st) = Len(ins) + Len(outs) + 1
         /\ \A i \in 1..Len(ins) : st[i].do = "hold" /\ st[i].key = Row("spent", ins[i])
         /\ \A i \in 1..Len(outs) :
              st[i + Len(ins)].do = "hold" /\ st[i + Len(ins)].key = Row("signed", outs[i])
         /\ st[Len(st)].do = "commit"
<1>1. /\ outs \in Seq(Tokens) /\ Len(outs) \in Nat
      /\ ins \in Seq(Tokens) /\ Len(ins) \in Nat
  BY ListFacts
<1> DEFINE A == Hold("spent", ins)
           B == Hold("signed", outs)
           AB == A \o B
<1>2. /\ A \in Seq(Statements) /\ Len(A) = Len(ins)
      /\ \A i \in 1..Len(ins) : A[i].do = "hold" /\ A[i].key = Row("spent", ins[i])
  <2>1. \A i \in 1..Len(ins) : Row("spent", ins[i]) \in Keys
    BY <1>1 DEF Keys
  <2> QED
    BY <1>1, <2>1, HoldIs
<1>3. /\ B \in Seq(Statements) /\ Len(B) = Len(outs)
      /\ \A i \in 1..Len(outs) : B[i].do = "hold" /\ B[i].key = Row("signed", outs[i])
  <2>1. \A i \in 1..Len(outs) : Row("signed", outs[i]) \in Keys
    BY <1>1 DEF Keys
  <2> QED
    BY <1>1, <2>1, HoldIs
<1>4. st = AB \o Finish
  BY DEF SwapTx
<1> HIDE DEF A, B
<1>5. /\ AB \in Seq(Statements) /\ Len(AB) = Len(ins) + Len(outs)
      /\ \A i \in 1..Len(ins) : AB[i] = A[i]
      /\ \A i \in 1..Len(outs) : AB[i + Len(ins)] = B[i]
  <2>1. /\ AB \in Seq(Statements) /\ Len(AB) = Len(A) + Len(B)
        /\ \A i \in 1..Len(A) : (AB)[i] = A[i]
        /\ \A i \in 1..Len(B) : (AB)[i + Len(A)] = B[i]
    BY <1>2, <1>3, Parts
  <2> QED
    BY <1>1, <1>2, <1>3, <2>1
<1> HIDE DEF AB
<1>6. /\ AB \o Finish \in Seq(Statements) /\ Len(AB \o Finish) = Len(ins) + Len(outs) + 1
      /\ \A i \in 1..(Len(ins) + Len(outs)) : (AB \o Finish)[i] = AB[i]
      /\ (AB \o Finish)[Len(ins) + Len(outs) + 1] = Finish[1]
  <2>1. /\ AB \o Finish \in Seq(Statements) /\ Len(AB \o Finish) = Len(AB) + Len(Finish)
        /\ \A i \in 1..Len(AB) : (AB \o Finish)[i] = AB[i]
        /\ \A i \in 1..Len(Finish) : (AB \o Finish)[i + Len(AB)] = Finish[i]
    BY <1>5, FixedParts, Parts
  <2>2. (AB \o Finish)[1 + Len(AB)] = Finish[1]
    BY <2>1, FixedParts
  <2> QED
    BY <1>1, <1>5, <2>1, <2>2, FixedParts
<1> QED
  <2>1. \A i \in 1..Len(outs) : i + Len(ins) \in 1..(Len(ins) + Len(outs))
    BY <1>1
  <2>2. \A i \in 1..Len(ins) : i \in 1..(Len(ins) + Len(outs))
    BY <1>1
  <2>3. \A i \in 1..Len(outs) :
          (AB \o Finish)[i + Len(ins)].do = "hold" /\ (AB \o Finish)[i + Len(ins)].key = Row("signed", outs[i])
    BY <1>3, <1>5, <1>6, <2>1
  <2>4. \A i \in 1..Len(ins) :
          (AB \o Finish)[i].do = "hold" /\ (AB \o Finish)[i].key = Row("spent", ins[i])
    BY <1>2, <1>5, <1>6, <2>2
  <2> QED
    BY <1>4, <1>6, <2>3, <2>4, FixedParts

LEMMA MeltIs ==
  ASSUME NEW m \in Melts, NEW ins \in Lists, NEW st, st = MeltTx(m, ins)
  PROVE  /\ st \in Seq(Statements)
         /\ Len(st) = Len(ins) + 2
         /\ st[1].do = "hold" /\ st[1].key = Row("melt", m)
         /\ \A i \in 1..Len(ins) : st[i + 1].do = "hold" /\ st[i + 1].key = Row("spent", ins[i])
         /\ st[Len(st)].do = "commit"
<1>1. ins \in Seq(Tokens) /\ Len(ins) \in Nat
  BY ListFacts
<1> DEFINE A == Hold("melt", <<m>>)
           B == Hold("spent", ins)
           AB == A \o B
<1>2. /\ A \in Seq(Statements) /\ Len(A) = 1
      /\ A[1].do = "hold" /\ A[1].key = Row("melt", m)
  <2>1. Row("melt", m) \in Keys
    BY DEF Keys, LockRows
  <2>2. Len(<<m>>) = 1 /\ <<m>>[1] = m
    OBVIOUS
  <2> QED
    BY <2>1, <2>2, HoldIs
<1>3. /\ B \in Seq(Statements) /\ Len(B) = Len(ins)
      /\ \A i \in 1..Len(ins) : B[i].do = "hold" /\ B[i].key = Row("spent", ins[i])
  <2>1. \A i \in 1..Len(ins) : Row("spent", ins[i]) \in Keys
    BY <1>1 DEF Keys
  <2> QED
    BY <1>1, <2>1, HoldIs
<1>4. st = AB \o Finish
  BY DEF MeltTx
<1> HIDE DEF A, B
<1>5. /\ AB \in Seq(Statements) /\ Len(AB) = 1 + Len(ins)
      /\ AB[1] = A[1]
      /\ \A i \in 1..Len(ins) : AB[i + 1] = B[i]
  <2>1. /\ AB \in Seq(Statements) /\ Len(AB) = Len(A) + Len(B)
        /\ \A i \in 1..Len(A) : (AB)[i] = A[i]
        /\ \A i \in 1..Len(B) : (AB)[i + Len(A)] = B[i]
    BY <1>2, <1>3, Parts
  <2> QED
    BY <1>1, <1>2, <1>3, <2>1
<1> HIDE DEF AB
<1>6. /\ AB \o Finish \in Seq(Statements) /\ Len(AB \o Finish) = Len(ins) + 2
      /\ \A i \in 1..(Len(ins) + 1) : (AB \o Finish)[i] = AB[i]
      /\ (AB \o Finish)[Len(ins) + 2] = Finish[1]
  <2>1. /\ AB \o Finish \in Seq(Statements) /\ Len(AB \o Finish) = Len(AB) + Len(Finish)
        /\ \A i \in 1..Len(AB) : (AB \o Finish)[i] = AB[i]
        /\ \A i \in 1..Len(Finish) : (AB \o Finish)[i + Len(AB)] = Finish[i]
    BY <1>5, FixedParts, Parts
  <2>2. (AB \o Finish)[1 + Len(AB)] = Finish[1]
    BY <2>1, FixedParts
  <2> QED
    BY <1>1, <1>5, <2>1, <2>2, FixedParts
<1>7. st[1] = A[1]
  BY <1>1, <1>4, <1>5, <1>6
<1>8. \A i \in 1..Len(ins) : st[i + 1].do = "hold" /\ st[i + 1].key = Row("spent", ins[i])
  <2>1. \A i \in 1..Len(ins) : i + 1 \in 1..(Len(ins) + 1)
    BY <1>1
  <2> QED
    BY <1>3, <1>4, <1>5, <1>6, <2>1
<1> QED
  BY <1>2, <1>4, <1>6, <1>7, <1>8, FixedParts

(* A transaction commits with its last statement, and not before.          *)
LEMMA CommitIsLast ==
  ASSUME NEW st, Legal(st)
  PROVE  /\ st \in Seq(Statements) /\ Len(st) \in Nat \ {0}
         /\ st[Len(st)].do = "commit"
         /\ \A i \in 1..(Len(st) - 1) : st[i].do # "commit"
<1>0. \A ins \in Presentable : ins \in Lists
  BY DEF Presentable
<1>1. CASE \E q \in Quotes, outs \in Lists : st = IssueTx(q, outs)
  <2>1. PICK q \in Quotes, outs \in Lists : st = IssueTx(q, outs)
    BY <1>1
  <2>2. Len(outs) \in Nat
    BY ListFacts
  <2>3. \A i \in 1..(Len(outs) + 3) : i \in {1, 2, 3} \/ (i - 3 \in 1..Len(outs) /\ i = (i - 3) + 3)
    BY <2>2
  <2>4. /\ st \in Seq(Statements) /\ Len(st) = Len(outs) + 4 /\ st[Len(st)].do = "commit"
        /\ st[1].do # "commit" /\ st[2].do # "commit" /\ st[3].do # "commit"
        /\ \A i \in 1..Len(outs) : st[i + 3].do # "commit"
    BY <2>1, IssueIs
  <2>5. \A i \in 1..(Len(outs) + 3) : st[i].do # "commit"
    BY <2>3, <2>4
  <2> QED
    BY <2>2, <2>4, <2>5
<1>2. CASE \E ins \in Presentable, outs \in Lists : st = SwapTx(ins, outs)
  <2>1. PICK ins \in Lists, outs \in Lists : st = SwapTx(ins, outs)
    BY <1>0, <1>2
  <2>2. Len(outs) \in Nat /\ Len(ins) \in Nat
    BY ListFacts
  <2>3. \A i \in 1..(Len(ins) + Len(outs)) :
          i \in 1..Len(ins) \/ (i - Len(ins) \in 1..Len(outs) /\ i = (i - Len(ins)) + Len(ins))
    BY <2>2
  <2>4. /\ st \in Seq(Statements) /\ Len(st) = Len(ins) + Len(outs) + 1 /\ st[Len(st)].do = "commit"
        /\ \A i \in 1..Len(ins) : st[i].do # "commit"
        /\ \A i \in 1..Len(outs) : st[i + Len(ins)].do # "commit"
    BY <2>1, SwapIs
  <2>5. ASSUME NEW i \in 1..(Len(ins) + Len(outs)) PROVE st[i].do # "commit"
    <3>1. CASE i \in 1..Len(ins)
      BY <2>4, <3>1
    <3>2. CASE i - Len(ins) \in 1..Len(outs) /\ i = (i - Len(ins)) + Len(ins)
      <4>1. st[(i - Len(ins)) + Len(ins)].do # "commit"
        BY <2>4, <3>2, Zenon
      <4> QED
        BY <3>2, <4>1
    <3> QED
      BY <2>3, <3>1, <3>2
  <2> QED
    BY <2>2, <2>4, <2>5
<1>3. CASE \E m \in Melts, ins \in Presentable : st = MeltTx(m, ins)
  <2>1. PICK m \in Melts, ins \in Lists : st = MeltTx(m, ins)
    BY <1>0, <1>3
  <2>2. Len(ins) \in Nat
    BY ListFacts
  <2>3. \A i \in 1..(Len(ins) + 1) : i = 1 \/ (i - 1 \in 1..Len(ins) /\ i = (i - 1) + 1)
    BY <2>2
  <2>4. \A i \in 1..(Len(ins) + 1) : st[i].do # "commit"
    BY <2>1, <2>3, MeltIs
  <2> QED
    BY <2>1, <2>2, <2>4, MeltIs
<1> QED
  BY <1>1, <1>2, <1>3 DEF Legal

-----------------------------------------------------------------------------
(* The keys of a whole transaction are those the abstract ledger takes.    *)
LEMMA RowsAre == \A table, ids : Atomic!Rows(table, ids) = {Row(table, x) : x \in ids}
<1> TAKE table, ids
<1>1. ASSUME NEW r \in Atomic!Rows(table, ids) PROVE r.id \in ids /\ r = Row(table, r.id)
  BY DEF Atomic!Rows, Row
<1>2. ASSUME NEW x \in ids PROVE Row(table, x) \in Atomic!Rows(table, ids)
  BY DEF Atomic!Rows, Row
<1> QED
  BY <1>1, <1>2

LEMMA IssueKeys ==
  ASSUME NEW q \in Quotes, NEW outs \in Lists, NEW st, st = IssueTx(q, outs)
  PROVE  KeysUpTo(st, Len(st) - 1) = Atomic!Rows("quote", {q}) \cup Atomic!Rows("signed", ToSet(outs))
<1>1. Len(outs) \in Nat /\ Len(st) - 1 = Len(outs) + 3
  BY ListFacts, IssueIs
<1>2. /\ st[1].do = "hold" /\ st[1].key = Row("quote", q)
      /\ st[2].do # "hold" /\ st[3].do # "hold"
      /\ \A i \in 1..Len(outs) : st[i + 3].do = "hold" /\ st[i + 3].key = Row("signed", outs[i])
  BY IssueIs
<1>3. \A i \in 1..(Len(outs) + 3) : i \in {1, 2, 3} \/ (i - 3 \in 1..Len(outs) /\ i = (i - 3) + 3)
  BY <1>1
<1>4. \A i \in 1..Len(outs) : i + 3 \in 1..(Len(outs) + 3)
  BY <1>1
<1>5. 1 \in 1..(Len(outs) + 3)
  BY <1>1
<1>6. KeysUpTo(st, Len(outs) + 3) = {Row("quote", q)} \cup {Row("signed", outs[i]) : i \in 1..Len(outs)}
  <2>1. ASSUME NEW k \in KeysUpTo(st, Len(outs) + 3)
        PROVE  k = Row("quote", q) \/ \E i \in 1..Len(outs) : k = Row("signed", outs[i])
    BY <1>2, <1>3 DEF KeysUpTo
  <2>2. Row("quote", q) \in KeysUpTo(st, Len(outs) + 3)
    BY <1>2, <1>5 DEF KeysUpTo
  <2>3. ASSUME NEW i \in 1..Len(outs) PROVE Row("signed", outs[i]) \in KeysUpTo(st, Len(outs) + 3)
    BY <1>2, <1>4 DEF KeysUpTo
  <2> QED
    BY <2>1, <2>2, <2>3
<1>7. {Row("signed", outs[i]) : i \in 1..Len(outs)} = {Row("signed", x) : x \in ToSet(outs)}
  BY ListCounts
<1> QED
  BY <1>1, <1>6, <1>7, RowsAre

LEMMA SwapKeys ==
  ASSUME NEW ins \in Lists, NEW outs \in Lists, NEW st, st = SwapTx(ins, outs)
  PROVE  KeysUpTo(st, Len(st) - 1)
           = Atomic!Rows("spent", ToSet(ins)) \cup Atomic!Rows("signed", ToSet(outs))
<1> DEFINE n == Len(ins) + Len(outs)
<1>1. Len(outs) \in Nat /\ Len(ins) \in Nat /\ Len(st) - 1 = n
  BY ListFacts, SwapIs
<1>2. /\ \A i \in 1..Len(ins) : st[i].do = "hold" /\ st[i].key = Row("spent", ins[i])
      /\ \A i \in 1..Len(outs) :
           st[i + Len(ins)].do = "hold" /\ st[i + Len(ins)].key = Row("signed", outs[i])
  <2>1. ASSUME NEW i \in 1..Len(outs)
        PROVE  st[i + Len(ins)].do = "hold" /\ st[i + Len(ins)].key = Row("signed", outs[i])
    BY SwapIs
  <2>2. ASSUME NEW i \in 1..Len(ins) PROVE st[i].do = "hold" /\ st[i].key = Row("spent", ins[i])
    BY SwapIs
  <2> QED
    BY <2>1, <2>2
<1>3. \A i \in 1..n :
        i \in 1..Len(ins) \/ (i - Len(ins) \in 1..Len(outs) /\ i = (i - Len(ins)) + Len(ins))
  BY <1>1
<1>4. \A i \in 1..Len(outs) : i + Len(ins) \in 1..n
  BY <1>1
<1>5. \A i \in 1..Len(ins) : i \in 1..n
  BY <1>1
<1> HIDE DEF n
<1>6. KeysUpTo(st, n) = {Row("spent", ins[i]) : i \in 1..Len(ins)}
                          \cup {Row("signed", outs[i]) : i \in 1..Len(outs)}
  <2>1. ASSUME NEW k \in KeysUpTo(st, n)
        PROVE  (\E i \in 1..Len(ins) : k = Row("spent", ins[i]))
                 \/ \E i \in 1..Len(outs) : k = Row("signed", outs[i])
    <3>1. PICK i \in 1..n : k = st[i].key
      BY DEF KeysUpTo
    <3>2. CASE i \in 1..Len(ins)
      BY <1>2, <3>1, <3>2
    <3>3. CASE i - Len(ins) \in 1..Len(outs) /\ i = (i - Len(ins)) + Len(ins)
      BY <1>2, <3>1, <3>3
    <3> QED
      BY <1>3, <3>2, <3>3
  <2>2. ASSUME NEW i \in 1..Len(ins) PROVE Row("spent", ins[i]) \in KeysUpTo(st, n)
    BY <1>2, <1>5 DEF KeysUpTo
  <2>3. ASSUME NEW i \in 1..Len(outs) PROVE Row("signed", outs[i]) \in KeysUpTo(st, n)
    BY <1>2, <1>4 DEF KeysUpTo
  <2> QED
    BY <2>1, <2>2, <2>3
<1>7. {Row("signed", outs[i]) : i \in 1..Len(outs)} = {Row("signed", x) : x \in ToSet(outs)}
  BY ListCounts
<1>8. {Row("spent", ins[i]) : i \in 1..Len(ins)} = {Row("spent", x) : x \in ToSet(ins)}
  BY ListCounts
<1> QED
  BY <1>1, <1>6, <1>7, <1>8, RowsAre

LEMMA MeltKeys ==
  ASSUME NEW m \in Melts, NEW ins \in Lists, NEW st, st = MeltTx(m, ins)
  PROVE  KeysUpTo(st, Len(st) - 1) = Atomic!Rows("melt", {m}) \cup Atomic!Rows("spent", ToSet(ins))
<1>1. Len(ins) \in Nat /\ Len(st) - 1 = Len(ins) + 1
  BY ListFacts, MeltIs
<1>2. /\ st[1].do = "hold" /\ st[1].key = Row("melt", m)
      /\ \A i \in 1..Len(ins) : st[i + 1].do = "hold" /\ st[i + 1].key = Row("spent", ins[i])
  BY MeltIs
<1>3. \A i \in 1..(Len(ins) + 1) : i = 1 \/ (i - 1 \in 1..Len(ins) /\ i = (i - 1) + 1)
  BY <1>1
<1>4. \A i \in 1..Len(ins) : i + 1 \in 1..(Len(ins) + 1)
  BY <1>1
<1>5. 1 \in 1..(Len(ins) + 1)
  BY <1>1
<1>6. KeysUpTo(st, Len(ins) + 1) = {Row("melt", m)} \cup {Row("spent", ins[i]) : i \in 1..Len(ins)}
  <2>1. ASSUME NEW k \in KeysUpTo(st, Len(ins) + 1)
        PROVE  k = Row("melt", m) \/ \E i \in 1..Len(ins) : k = Row("spent", ins[i])
    BY <1>2, <1>3 DEF KeysUpTo
  <2>2. Row("melt", m) \in KeysUpTo(st, Len(ins) + 1)
    BY <1>2, <1>5 DEF KeysUpTo
  <2>3. ASSUME NEW i \in 1..Len(ins) PROVE Row("spent", ins[i]) \in KeysUpTo(st, Len(ins) + 1)
    BY <1>2, <1>4 DEF KeysUpTo
  <2> QED
    BY <2>1, <2>2, <2>3
<1>7. {Row("spent", ins[i]) : i \in 1..Len(ins)} = {Row("spent", x) : x \in ToSet(ins)}
  BY ListCounts
<1> QED
  BY <1>1, <1>6, <1>7, RowsAre

LEMMA SupplyIsSigned == Atomic!Supply = Signed
BY RowsAre DEF Atomic!Supply, Signed

(* A transaction whose keys were all free is one step of the abstract      *)
(* ledger when they are committed together.                                *)
LEMMA LegalTakes ==
  ASSUME NEW st, Legal(st),
         KeysUpTo(st, Len(st) - 1) \cap taken = {},
         taken' = taken \cup KeysUpTo(st, Len(st) - 1)
  PROVE  Atomic!Next
<1>0. \A ins \in Presentable : ins \in Lists /\ ToSet(ins) \in SUBSET Atomic!Supply
  BY SupplyIsSigned DEF Presentable
<1>1. CASE \E q \in Quotes, outs \in Lists : st = IssueTx(q, outs)
  <2>1. PICK q \in Quotes, outs \in Lists : st = IssueTx(q, outs)
    BY <1>1
  <2>2. ToSet(outs) \in SUBSET Tokens
    BY ListCounts
  <2>3. Atomic!Take(Atomic!Rows("quote", {q}) \cup Atomic!Rows("signed", ToSet(outs)))
    BY <2>1, IssueKeys DEF Atomic!Take
  <2> QED
    BY <2>2, <2>3 DEF Atomic!Next, Atomic!Issue
<1>2. CASE \E ins \in Presentable, outs \in Lists : Len(ins) = Len(outs) /\ st = SwapTx(ins, outs)
  <2>1. PICK ins \in Presentable, outs \in Lists : Len(ins) = Len(outs) /\ st = SwapTx(ins, outs)
    BY <1>2
  <2>2. ins \in Lists /\ ToSet(ins) \in SUBSET Atomic!Supply
    BY <1>0, <2>1
  <2>3. Cardinality(ToSet(ins)) = Cardinality(ToSet(outs)) /\ ToSet(outs) \in SUBSET Tokens
    BY <2>1, <2>2, ListCounts
  <2>4. KeysUpTo(st, Len(st) - 1)
          = Atomic!Rows("spent", ToSet(ins)) \cup Atomic!Rows("signed", ToSet(outs))
    BY <2>1, <2>2, SwapKeys
  <2>5. ToSet(outs) \in SUBSET (Tokens \ Atomic!Supply)
    BY <2>3, <2>4, SupplyIsSigned, RowsAre DEF Signed
  <2>6. Atomic!Take(Atomic!Rows("spent", ToSet(ins)) \cup Atomic!Rows("signed", ToSet(outs)))
    BY <2>4 DEF Atomic!Take
  <2>7. /\ ToSet(ins) \in SUBSET Tokens
        /\ [S \in SUBSET Tokens |-> Cardinality(S)][ToSet(ins)]
             = [S \in SUBSET Tokens |-> Cardinality(S)][ToSet(outs)]
    BY <2>2, <2>3, ListCounts
  <2>8. Atomic!Swap
    BY <2>2, <2>5, <2>6, <2>7, Zenon DEF Atomic!Swap
  <2> QED
    BY <2>8 DEF Atomic!Next
<1>3. CASE \E m \in Melts, ins \in Presentable : st = MeltTx(m, ins)
  <2>1. PICK m \in Melts, ins \in Presentable : st = MeltTx(m, ins)
    BY <1>3
  <2>2. ins \in Lists /\ ToSet(ins) \in SUBSET Atomic!Supply
    BY <1>0, <2>1
  <2>3. Atomic!Take(Atomic!Rows("melt", {m}) \cup Atomic!Rows("spent", ToSet(ins)))
    BY <2>1, <2>2, MeltKeys DEF Atomic!Take
  <2> QED
    BY <2>2, <2>3 DEF Atomic!Next, Atomic!Melt
<1> QED
  BY <1>1, <1>2, <1>3 DEF Legal
-----------------------------------------------------------------------------
(* The invariant, step by step.                                            *)
LEMMA LegalStays ==
  ASSUME NEW st, Legal(st), taken \subseteq taken'
  PROVE  Legal(st)'
<1>1. Presentable \subseteq Presentable'
  BY DEF Presentable, Signed
<1> QED
  BY <1>1 DEF Legal

(* A backend that did not move goes on where it was.                       *)
LEMMA OthersGoOn ==
  ASSUME NEW c \in Backends, InMidst(c), todo'[c] = todo[c], HeldBy(c)' = HeldBy(c),
         taken \subseteq taken'
  PROVE  InMidst(c)'
<1>1. CASE Open(c)
  <2>1. PICK st \in Seq(Statements) : Legal(st) /\ \E n \in 0..(Len(st) - 1) : Doing(c, st, n)
    BY <1>1 DEF InMidst
  <2>2. PICK n \in 0..(Len(st) - 1) : Doing(c, st, n)
    BY <2>1
  <2>3. Doing(c, st, n)'
    BY <2>2 DEF Doing
  <2>4. Legal(st)'
    BY <2>1, LegalStays
  <2> QED
    BY <1>1, <2>3, <2>4 DEF InMidst, Open
<1>2. CASE ~Open(c)
  BY <1>2 DEF InMidst, Open
<1> QED
  BY <1>1, <1>2

LEMMA NextIs ==
  ASSUME TypeInv, NEW b \in Backends, NEW st \in Seq(Statements),
         NEW n \in 0..(Len(st) - 1), Doing(b, st, n)
  PROVE  /\ Next1(b) = st[n + 1]
         /\ todo[b] \in Seq(Statements) /\ Len(todo[b]) = Len(st) - n /\ Open(b)
<1>1. todo[b] \in Seq(Statements) /\ Len(st) \in Nat /\ n \in Nat
  BY DEF TypeInv
<1>2. Len(todo[b]) = Len(st) - n /\ 1 \in 1..(Len(st) - n)
  BY <1>1 DEF Doing
<1>3. todo[b] # <<>>
  BY <1>1, <1>2
<1>4. todo[b][1] = st[n + 1]
  BY <1>2 DEF Doing
<1> QED
  BY <1>1, <1>2, <1>3, <1>4 DEF Next1, Open

(* What a backend has left after one more statement.                       *)
LEMMA AdvanceDoes ==
  ASSUME TypeInv, NEW b \in Backends, NEW st \in Seq(Statements),
         NEW n \in 0..(Len(st) - 1), Doing(b, st, n), n + 1 < Len(st), Advance(b),
         HeldBy(b)' = KeysUpTo(st, n + 1)
  PROVE  Doing(b, st, n + 1)' /\ Open(b)'
<1>1. /\ todo[b] \in Seq(Statements) /\ Len(todo[b]) = Len(st) - n /\ todo[b] # <<>>
      /\ Len(st) \in Nat /\ n \in Nat
  BY NextIs DEF Open
<1>2. todo'[b] = Tail(todo[b])
  BY DEF Advance, TypeInv
<1>3. Len(todo'[b]) = Len(st) - (n + 1)
  BY <1>1, <1>2
<1>4. \A i \in 1..(Len(st) - (n + 1)) : todo'[b][i] = todo[b][i + 1]
  BY <1>1, <1>2
<1>5. \A i \in 1..(Len(st) - (n + 1)) : i + 1 \in 1..(Len(st) - n) /\ n + (i + 1) = (n + 1) + i
  BY <1>1
<1>6. \A i \in 1..(Len(st) - (n + 1)) : todo'[b][i] = st[(n + 1) + i]
  BY <1>4, <1>5 DEF Doing
<1>7. todo'[b] # <<>>
  BY <1>1, <1>3
<1> QED
  BY <1>3, <1>6, <1>7 DEF Doing, Open

LEMMA AdvanceTypes ==
  ASSUME TypeInv, NEW b \in Backends, Open(b), Advance(b)
  PROVE  todo' \in [Backends -> Seq(Statements)]
<1>1. todo[b] \in Seq(Statements) /\ todo[b] # <<>>
  BY DEF TypeInv, Open
<1>2. Tail(todo[b]) \in Seq(Statements)
  BY <1>1
<1> QED
  BY <1>2 DEF Advance, TypeInv

LEMMA BeginDoes ==
  ASSUME PInv, NEW b \in Backends, NEW st, Legal(st), Begin(b, st)
  PROVE  Doing(b, st, 0)' /\ Open(b)' /\ 0 \in 0..(Len(st) - 1)
<1>1. st \in Seq(Statements) /\ Len(st) \in Nat \ {0}
  BY CommitIsLast
<1>2. HeldBy(b)' = HeldBy(b)
  BY DEF Begin, HeldBy
<1>3. HeldBy(b) = {} /\ todo'[b] = st
  BY DEF PInv, InMidst, Begin, TypeInv
<1>4. KeysUpTo(st, 0) = {}
  BY DEF KeysUpTo
<1>5. HeldBy(b)' = KeysUpTo(st, 0)
  BY <1>2, <1>3, <1>4
<1>6. Len(st) - 0 = Len(st) /\ \A i \in 1..Len(st) : st[0 + i] = st[i]
  BY <1>1
<1> QED
  BY <1>1, <1>3, <1>5, <1>6 DEF Doing, Open

LEMMA BeginKeeps ==
  ASSUME PInv, NEW b \in Backends, NEW st, Legal(st), Begin(b, st)
  PROVE  PInv'
<1>1. st \in Seq(Statements)
  BY CommitIsLast
<1>2. TypeInv'
  BY <1>1 DEF PInv, TypeInv, Begin
<1>3. \A c \in Backends : HeldBy(c)' = HeldBy(c)
  BY DEF Begin, HeldBy
<1>4. Legal(st)'
  BY LegalStays DEF Begin
<1>5. InMidst(b)'
  BY <1>1, <1>4, BeginDoes DEF InMidst
<1>6. ASSUME NEW c \in Backends, c # b PROVE InMidst(c)'
  BY <1>3, <1>6, OthersGoOn DEF PInv, Begin, TypeInv
<1>7. \A k \in Keys : owner'[k] # Free => k \notin taken'
  BY DEF PInv, Begin
<1> QED
  BY <1>2, <1>5, <1>6, <1>7 DEF PInv

(* Releasing the keys of one leaves the others theirs.                     *)
LEMMA ReleaseDoes ==
  ASSUME TypeInv, NEW b \in Backends, Release(b)
  PROVE  /\ owner' \in [Keys -> Backends \cup {Free}]
         /\ HeldBy(b)' = {}
         /\ \A c \in Backends : c # b => HeldBy(c)' = HeldBy(c)
         /\ \A k \in Keys : owner'[k] # Free => owner[k] # Free /\ owner[k] # b
BY PgAssumption DEF TypeInv, Release, HeldBy

LEMMA EndKeeps ==
  ASSUME PInv, NEW b \in Backends, Release(b), todo' = [todo EXCEPT ![b] = <<>>],
         taken \subseteq taken', taken' \subseteq taken \cup HeldBy(b)
  PROVE  PInv'
<1>1. TypeInv
  BY DEF PInv
<1>2. TypeInv'
  <2>1. <<>> \in Seq(Statements)
    OBVIOUS
  <2>2. todo' \in [Backends -> Seq(Statements)]
    BY <1>1, <2>1 DEF TypeInv
  <2>3. taken' \subseteq Keys
    BY <1>1 DEF TypeInv, HeldBy
  <2> QED
    BY <1>1, <2>2, <2>3, ReleaseDoes DEF TypeInv
<1>3. InMidst(b)'
  BY <1>1, ReleaseDoes DEF InMidst, Open, TypeInv
<1>4. ASSUME NEW c \in Backends, c # b PROVE InMidst(c)'
  BY <1>1, <1>4, ReleaseDoes, OthersGoOn DEF PInv, TypeInv
<1>5. ASSUME NEW k \in Keys, owner'[k] # Free PROVE k \notin taken'
  BY <1>1, <1>5, ReleaseDoes DEF PInv, HeldBy
<1> QED
  BY <1>2, <1>3, <1>4, <1>5 DEF PInv

LEMMA RollbackKeeps ==
  ASSUME PInv, NEW b \in Backends, Rollback(b)
  PROVE  PInv'
BY EndKeeps DEF Rollback

(* The sums read, and hold nothing.                                        *)
LEMMA SumDoes ==
  ASSUME PInv, NEW b \in Backends, NEW st \in Seq(Statements), Legal(st),
         NEW n \in 0..(Len(st) - 1), Doing(b, st, n),
         Next1(b).do \in {"issuedSum", "spentSum"}, Advance(b), UNCHANGED owner
  PROVE  Doing(b, st, n + 1)' /\ Open(b)' /\ n + 1 \in 0..(Len(st) - 1)
<1>1. TypeInv
  BY DEF PInv
<1>2. st[n + 1].do \in {"issuedSum", "spentSum"} /\ n \in Nat /\ Len(st) \in Nat
  BY <1>1, NextIs
<1>3. n + 1 < Len(st)
  BY <1>2, CommitIsLast
<1>4. KeysUpTo(st, n + 1) = KeysUpTo(st, n)
  BY <1>2 DEF KeysUpTo
<1>5. HeldBy(b)' = KeysUpTo(st, n + 1)
  BY <1>4 DEF HeldBy, Doing
<1> QED
  BY <1>1, <1>2, <1>3, <1>5, AdvanceDoes

LEMMA SumKeeps ==
  ASSUME PInv, NEW b \in Backends, Open(b), Next1(b).do \in {"issuedSum", "spentSum"},
         Advance(b), UNCHANGED <<taken, owner>>
  PROVE  PInv'
<1>1. TypeInv
  BY DEF PInv
<1>2. PICK st \in Seq(Statements) : Legal(st) /\ \E n \in 0..(Len(st) - 1) : Doing(b, st, n)
  BY DEF PInv, InMidst
<1>3. PICK n \in 0..(Len(st) - 1) : Doing(b, st, n)
  BY <1>2
<1>4. Legal(st)'
  BY <1>2, LegalStays
<1>5. InMidst(b)'
  BY <1>2, <1>3, <1>4, SumDoes DEF InMidst
<1>6. ASSUME NEW c \in Backends, c # b PROVE InMidst(c)'
  BY <1>1, <1>6, OthersGoOn DEF PInv, Advance, TypeInv, HeldBy
<1>7. TypeInv'
  BY <1>1, AdvanceTypes DEF TypeInv
<1> QED
  BY <1>5, <1>6, <1>7 DEF PInv

LEMMA HoldDoes ==
  ASSUME PInv, NEW b \in Backends, NEW st \in Seq(Statements), Legal(st),
         NEW n \in 0..(Len(st) - 1), Doing(b, st, n),
         HoldKey(b), Next1(b).key \notin taken
  PROVE  Doing(b, st, n + 1)' /\ Open(b)' /\ n + 1 \in 0..(Len(st) - 1)
<1> DEFINE k == Next1(b).key
<1>1. TypeInv /\ Next1(b).do = "hold" /\ owner[k] = Free
  BY DEF PInv, HoldKey, Waiting, KeyIsFree
<1>2. owner' = [owner EXCEPT ![k] = b] /\ Advance(b)
  BY DEF HoldKey
<1>3. /\ st[n + 1].do = "hold" /\ k = st[n + 1].key
      /\ n \in Nat /\ Len(st) \in Nat /\ st[n + 1] \in Statements
  BY <1>1, NextIs
<1>4. n + 1 < Len(st)
  BY <1>3, CommitIsLast
<1>5. k \in Keys
  BY <1>3 DEF Statements
<1> HIDE DEF k
<1>6. KeysUpTo(st, n + 1) = KeysUpTo(st, n) \cup {k}
  <2>1. 1..(n + 1) = (1..n) \cup {n + 1}
    BY <1>3
  <2> QED
    BY <1>3, <2>1 DEF KeysUpTo
<1>7. HeldBy(b)' = HeldBy(b) \cup {k}
  BY <1>1, <1>2, <1>5 DEF HeldBy, TypeInv
<1>8. HeldBy(b)' = KeysUpTo(st, n + 1)
  BY <1>6, <1>7 DEF Doing
<1> QED
  BY <1>1, <1>2, <1>3, <1>4, <1>8, AdvanceDoes

LEMMA HoldKeeps ==
  ASSUME PInv, NEW b \in Backends, HoldKey(b)
  PROVE  PInv'
<1> DEFINE k == Next1(b).key
<1>1. TypeInv /\ Open(b) /\ owner[k] = Free
  BY DEF PInv, HoldKey, Waiting, KeyIsFree
<1>2. CASE k \in taken
  BY <1>2, RollbackKeeps DEF HoldKey
<1>3. CASE k \notin taken
  <2>1. owner' = [owner EXCEPT ![k] = b] /\ Advance(b) /\ taken' = taken
    BY <1>3 DEF HoldKey
  <2>2. PICK st \in Seq(Statements) : Legal(st) /\ \E n \in 0..(Len(st) - 1) : Doing(b, st, n)
    BY <1>1 DEF PInv, InMidst
  <2>3. PICK n \in 0..(Len(st) - 1) : Doing(b, st, n)
    BY <2>2
  <2>4. Legal(st)'
    BY <2>1, <2>2, LegalStays
  <2>5. InMidst(b)'
    BY <1>3, <2>2, <2>3, <2>4, HoldDoes DEF InMidst
  <2>6. k \in Keys
    BY <1>1, <2>3, NextIs DEF Statements, HoldKey, Waiting
  <2> HIDE DEF k
  <2>7. \A c \in Backends : c # b => HeldBy(c)' = HeldBy(c)
    BY <1>1, <2>1, <2>6, PgAssumption DEF HeldBy, TypeInv
  <2>8. ASSUME NEW c \in Backends, c # b PROVE InMidst(c)'
    BY <1>1, <2>1, <2>7, <2>8, OthersGoOn DEF PInv, Advance, TypeInv
  <2>9. TypeInv'
    BY <1>1, <2>1, <2>6, AdvanceTypes DEF TypeInv
  <2>10. \A x \in Keys : owner'[x] # Free => x \notin taken'
    BY <1>1, <1>3, <2>1, <2>6 DEF PInv, TypeInv
  <2> QED
    BY <2>5, <2>8, <2>9, <2>10 DEF PInv
<1> QED
  BY <1>2, <1>3

(* The commit is a step of the abstract ledger.                            *)
LEMMA CommitTakes ==
  ASSUME PInv, NEW b \in Backends, Commit(b)
  PROVE  Atomic!Next
<1>1. TypeInv /\ Open(b) /\ Next1(b).do = "commit" /\ taken' = taken \cup HeldBy(b)
  BY DEF PInv, Commit, HeldBy
<1>2. PICK st \in Seq(Statements) : Legal(st) /\ \E n \in 0..(Len(st) - 1) : Doing(b, st, n)
  BY <1>1 DEF PInv, InMidst
<1>3. PICK n \in 0..(Len(st) - 1) : Doing(b, st, n)
  BY <1>2
<1>4. st[n + 1].do = "commit" /\ n \in Nat /\ Len(st) \in Nat
  BY <1>1, <1>3, NextIs
<1>5. n = Len(st) - 1
  BY <1>2, <1>4, CommitIsLast
<1>6. HeldBy(b) = KeysUpTo(st, Len(st) - 1)
  BY <1>3, <1>5 DEF Doing
<1>7. HeldBy(b) \cap taken = {}
  BY PgAssumption DEF PInv, HeldBy
<1> QED
  BY <1>1, <1>2, <1>6, <1>7, LegalTakes

LEMMA CommitKeeps ==
  ASSUME PInv, NEW b \in Backends, Commit(b)
  PROVE  PInv'
BY EndKeeps DEF Commit, HeldBy

LEMMA StepKeeps ==
  ASSUME PInv, [Next]_vars
  PROVE  PInv' /\ [Atomic!Next]_taken
<1>1. CASE UNCHANGED vars
  <2>1. \A c \in Backends : HeldBy(c)' = HeldBy(c)
    BY <1>1 DEF vars, HeldBy
  <2>2. \A c \in Backends : InMidst(c)'
    BY <1>1, <2>1, OthersGoOn DEF vars, PInv
  <2>3. TypeInv' /\ \A k \in Keys : owner'[k] # Free => k \notin taken'
    BY <1>1 DEF vars, PInv, TypeInv
  <2> QED
    BY <1>1, <2>2, <2>3 DEF PInv, vars
<1>2. ASSUME NEW b \in Backends, Begins(b) PROVE PInv' /\ taken' = taken
  <2>1. PICK st : Legal(st) /\ Begin(b, st)
    BY <1>2 DEF Begins, BeginIssue, BeginSwap, BeginMelt, Legal
  <2> QED
    BY <2>1, BeginKeeps DEF Begin
<1>3. ASSUME NEW b \in Backends, Rollback(b) PROVE PInv' /\ taken' = taken
  BY <1>3, RollbackKeeps DEF Rollback
<1>4. ASSUME NEW b \in Backends, HoldKey(b) PROVE PInv' /\ taken' = taken
  BY <1>4, HoldKeeps DEF HoldKey, Rollback
<1>5. ASSUME NEW b \in Backends, SumIssued(b) PROVE PInv' /\ taken' = taken
  BY <1>5, SumKeeps DEF SumIssued
<1>6. ASSUME NEW b \in Backends, SumSpent(b) PROVE PInv' /\ taken' = taken
  BY <1>3, <1>6, SumKeeps DEF SumSpent
<1>7. ASSUME NEW b \in Backends, Commit(b) PROVE PInv' /\ Atomic!Next
  BY <1>7, CommitKeeps, CommitTakes
<1>8. ASSUME NEW b \in Backends, Statement(b) \/ Abandon(b) PROVE PInv' /\ [Atomic!Next]_taken
  BY <1>3, <1>4, <1>5, <1>6, <1>7, <1>8 DEF Statement, Abandon, BreakDeadlock
<1> QED
  BY <1>1, <1>2, <1>8 DEF Next

LEMMA InitKeeps == Init => PInv /\ Atomic!Init
<1> SUFFICES ASSUME Init PROVE PInv /\ Atomic!Init
  OBVIOUS
<1>1. Atomic!Init
  BY RowsAre DEF Init, Atomic!Init
<1>2. TypeInv
  <2>1. taken \subseteq Keys
    BY PgAssumption DEF Init, Keys
  <2>2. <<>> \in Seq(Statements)
    OBVIOUS
  <2> QED
    BY <2>1, <2>2 DEF Init, TypeInv
<1>3. ASSUME NEW b \in Backends PROVE InMidst(b)
  BY PgAssumption DEF Init, InMidst, Open, HeldBy
<1>4. \A k \in Keys : owner[k] = Free
  BY DEF Init
<1> QED
  BY <1>1, <1>2, <1>3, <1>4 DEF PInv

(* On node-postgres the committed state changes only by the whole of one   *)
(* request whose keys were all free (README.md:7), statement by statement, *)
(* with locks, waits, rollbacks, lost connections and aborted deadlocks.   *)
THEOREM ExactlyOneWinner == Spec => OneWinner
<1>1. Init => PInv /\ Atomic!Init
  BY InitKeeps
<1>2. PInv /\ [Next]_vars => PInv' /\ [Atomic!Next]_taken
  BY StepKeeps
<1> QED
  BY <1>1, <1>2, PTL DEF Spec, OneWinner, Atomic!Spec
-----------------------------------------------------------------------------
(* The cap on one connection.  MCPgLedger shows two of them passing it; on  *)
(* one, as PGlite and the Durable Object have it, no sum goes stale between *)
(* the check and the commit.                                               *)
Paying(st) ==
  \/ \E ins \in Presentable, outs \in Lists : Len(ins) = Len(outs) /\ st = SwapTx(ins, outs)
  \/ \E m \in Melts, ins \in Presentable : st = MeltTx(m, ins)

(* What an issuing transaction knows: after its first sum what is signed,   *)
(* after its second that its outputs fit under the cap.                    *)
Knows(b, st, n) ==
  \/ Paying(st)
  \/ \E q \in Quotes, outs \in Lists :
       /\ st = IssueTx(q, outs)
       /\ n = 2 => seen[b] = Cardinality(Signed)
       /\ n >= 3 /\ Cap # 0 => Outstanding + Len(outs) <= Cap

CapInv ==
  /\ PInv
  /\ CapHolds
  /\ DOMAIN seen = Backends
  /\ \A b \in Backends : Open(b) =>
       \E st \in Seq(Statements) : \E n \in 0..(Len(st) - 1) :
         Legal(st) /\ Doing(b, st, n) /\ Knows(b, st, n)

LEMMA Counts ==
  ASSUME IsFiniteSet(Tokens)
  PROVE  /\ IsFiniteSet(Signed) /\ IsFiniteSet(Spent)
         /\ Cardinality(Signed) \in Nat /\ Cardinality(Spent) \in Nat
         /\ Outstanding \in Int
<1>1. Signed \in SUBSET Tokens /\ Spent \in SUBSET Tokens
  BY DEF Signed, Spent
<1>2. IsFiniteSet(Signed) /\ IsFiniteSet(Spent)
  BY <1>1, FS_Subset
<1> QED
  BY <1>2, FS_CardinalityType DEF Outstanding

LEMMA CountUnion ==
  ASSUME IsFiniteSet(Tokens), NEW X \in SUBSET Tokens, NEW Y \in SUBSET Tokens
  PROVE  /\ Cardinality(X) \in Nat /\ Cardinality(Y) \in Nat /\ Cardinality(X \cup Y) \in Nat
         /\ Cardinality(X) <= Cardinality(X \cup Y)
         /\ Cardinality(X \cup Y) <= Cardinality(X) + Cardinality(Y)
         /\ X \cap Y = {} => Cardinality(X \cup Y) = Cardinality(X) + Cardinality(Y)
<1>1. IsFiniteSet(X) /\ IsFiniteSet(Y) /\ IsFiniteSet(X \cap Y) /\ IsFiniteSet(X \cup Y)
  BY FS_Subset
<1>2. /\ Cardinality(X) \in Nat /\ Cardinality(Y) \in Nat
      /\ Cardinality(X \cap Y) \in Nat /\ Cardinality(X \cup Y) \in Nat
  BY <1>1, FS_CardinalityType
<1>3. Cardinality(X \cup Y) = Cardinality(X) + Cardinality(Y) - Cardinality(X \cap Y)
  BY <1>1, FS_Union
<1>4. Cardinality(X) <= Cardinality(X \cup Y)
  BY <1>1, FS_Subset
<1>5. X \cap Y = {} => Cardinality(X \cap Y) = 0
  BY FS_EmptySet
<1> QED
  BY <1>2, <1>3, <1>4, <1>5

(* What the commit of each transaction adds to the two tables.             *)
LEMMA RowOf == \A t, x, u, y : Row(t, x) = Row(u, y) <=> t = u /\ x = y
BY DEF Row

LEMMA InRows == \A t, x, u, ids : Row(t, x) \in Atomic!Rows(u, ids) <=> t = u /\ x \in ids
BY RowsAre, RowOf

LEMMA CommitCap ==
  ASSUME IsFiniteSet(Tokens), CapInv, NEW b \in Backends, Commit(b)
  PROVE  CapHolds'
<1>1. TypeInv /\ Open(b) /\ Next1(b).do = "commit" /\ taken' = taken \cup HeldBy(b) /\ PInv
  BY DEF CapInv, PInv, Commit, HeldBy
<1>2. PICK st \in Seq(Statements) : \E n \in 0..(Len(st) - 1) :
        Legal(st) /\ Doing(b, st, n) /\ Knows(b, st, n)
  BY <1>1 DEF CapInv
<1>3. PICK n \in 0..(Len(st) - 1) : Legal(st) /\ Doing(b, st, n) /\ Knows(b, st, n)
  BY <1>2
<1>4. st[n + 1].do = "commit" /\ n \in Nat /\ Len(st) \in Nat
  BY <1>1, <1>3, NextIs
<1>5. n = Len(st) - 1
  BY <1>3, <1>4, CommitIsLast
<1>6. HeldBy(b) = KeysUpTo(st, Len(st) - 1) /\ HeldBy(b) \cap taken = {}
  BY <1>1, <1>3, <1>5, PgAssumption DEF Doing, PInv, HeldBy
<1>7. Signed \in SUBSET Tokens /\ Spent \in SUBSET Tokens
  BY DEF Signed, Spent
<1>8. SUFFICES ASSUME Cap # 0 PROVE Cardinality(Signed') - Cardinality(Spent') <= Cap
  BY DEF CapHolds, Outstanding
<1>9. Cap \in Nat /\ Cardinality(Signed) - Cardinality(Spent) <= Cap
  BY <1>8, PgAssumption DEF CapInv, CapHolds, Outstanding
<1>10. \A ins \in Presentable : ins \in Lists
  BY DEF Presentable
<1>11. CASE \E q \in Quotes, outs \in Lists :
              st = IssueTx(q, outs) /\ (n >= 3 /\ Cap # 0 => Outstanding + Len(outs) <= Cap)
  <2>1. PICK q \in Quotes, outs \in Lists :
          st = IssueTx(q, outs) /\ (n >= 3 /\ Cap # 0 => Outstanding + Len(outs) <= Cap)
    BY <1>11
  <2>2. Len(outs) \in Nat /\ Len(st) = Len(outs) + 4
    BY <2>1, ListFacts, IssueIs
  <2>3. ToSet(outs) \in SUBSET Tokens /\ Cardinality(ToSet(outs)) = Len(outs)
    BY ListCounts
  <2>4. taken' = taken \cup (Atomic!Rows("quote", {q}) \cup Atomic!Rows("signed", ToSet(outs)))
    BY <1>1, <1>6, <2>1, IssueKeys
  <2>5. Signed' = Signed \cup ToSet(outs) /\ Spent' = Spent
    BY <2>3, <2>4, InRows DEF Signed, Spent
  <2>6. Cardinality(Signed') <= Cardinality(Signed) + Len(outs)
    BY <1>7, <2>3, <2>5, CountUnion
  <2>7. Cardinality(Signed) - Cardinality(Spent) + Len(outs) <= Cap
    BY <1>4, <1>5, <1>8, <2>1, <2>2 DEF Outstanding
  <2>8. Cardinality(Signed) \in Nat /\ Cardinality(Spent) \in Nat /\ Cardinality(Signed') \in Nat
    BY <1>7, <2>3, <2>5, CountUnion
  <2> QED
    BY <1>9, <2>2, <2>5, <2>6, <2>7, <2>8
<1>12. CASE \E ins \in Presentable, outs \in Lists : Len(ins) = Len(outs) /\ st = SwapTx(ins, outs)
  <2>1. PICK ins \in Lists, outs \in Lists : Len(ins) = Len(outs) /\ st = SwapTx(ins, outs)
    BY <1>10, <1>12
  <2>2. Len(ins) \in Nat
    BY ListFacts
  <2>3. /\ ToSet(outs) \in SUBSET Tokens /\ Cardinality(ToSet(outs)) = Len(ins)
        /\ ToSet(ins) \in SUBSET Tokens /\ Cardinality(ToSet(ins)) = Len(ins)
    BY <2>1, ListCounts
  <2>4. HeldBy(b) = Atomic!Rows("spent", ToSet(ins)) \cup Atomic!Rows("signed", ToSet(outs))
    BY <1>6, <2>1, SwapKeys
  <2>5. Signed' = Signed \cup ToSet(outs) /\ Spent' = Spent \cup ToSet(ins)
    BY <1>1, <2>3, <2>4, InRows DEF Signed, Spent
  <2>6. Spent \cap ToSet(ins) = {}
    BY <1>6, <2>4, InRows DEF Spent
  <2>7. Cardinality(Signed') <= Cardinality(Signed) + Len(ins)
    BY <1>7, <2>3, <2>5, CountUnion
  <2>8. Cardinality(Spent') = Cardinality(Spent) + Len(ins)
    BY <1>7, <2>3, <2>5, <2>6, CountUnion
  <2>9. Cardinality(Signed) \in Nat /\ Cardinality(Spent) \in Nat /\ Cardinality(Signed') \in Nat
    BY <1>7, <2>3, <2>5, CountUnion
  <2> QED
    BY <1>9, <2>2, <2>7, <2>8, <2>9
<1>13. CASE \E m \in Melts, ins \in Presentable : st = MeltTx(m, ins)
  <2>1. PICK m \in Melts, ins \in Lists : st = MeltTx(m, ins)
    BY <1>10, <1>13
  <2>2. ToSet(ins) \in SUBSET Tokens
    BY ListCounts
  <2>3. HeldBy(b) = Atomic!Rows("melt", {m}) \cup Atomic!Rows("spent", ToSet(ins))
    BY <1>6, <2>1, MeltKeys
  <2>4. Signed' = Signed /\ Spent' = Spent \cup ToSet(ins)
    BY <1>1, <2>2, <2>3, InRows DEF Signed, Spent
  <2>5. /\ Cardinality(Spent) <= Cardinality(Spent')
        /\ Cardinality(Signed) \in Nat /\ Cardinality(Spent) \in Nat /\ Cardinality(Spent') \in Nat
    BY <1>7, <2>2, <2>4, CountUnion
  <2> QED
    BY <1>9, <2>4, <2>5
<1> QED
  BY <1>3, <1>11, <1>12, <1>13 DEF Knows, Paying

(* A backend that goes on knows what it knew, and what it just read.       *)
LEMMA KnowsOn ==
  ASSUME IsFiniteSet(Tokens), PInv, NEW b \in Backends, NEW st \in Seq(Statements),
         NEW n \in 0..(Len(st) - 1), Doing(b, st, n), Knows(b, st, n), taken' = taken,
         \/ Next1(b).do = "hold"
         \/ Next1(b).do = "issuedSum" /\ seen' = [seen EXCEPT ![b] = Cardinality(Signed)]
         \/ Next1(b).do = "spentSum" /\ UnderCap(b),
         b \in DOMAIN seen
  PROVE  Knows(b, st, n + 1)'
<1>1. Signed' = Signed /\ Outstanding' = Outstanding /\ Presentable' = Presentable
  BY DEF Signed, Spent, Outstanding, Presentable
<1>2. Next1(b) = st[n + 1] /\ Len(todo[b]) = Len(st) - n /\ n \in Nat
  BY NextIs DEF PInv
<1>3. CASE Paying(st)
  BY <1>1, <1>3 DEF Knows, Paying
<1>4. ASSUME NEW q \in Quotes, NEW outs \in Lists, st = IssueTx(q, outs),
             n = 2 => seen[b] = Cardinality(Signed),
             n >= 3 /\ Cap # 0 => Outstanding + Len(outs) <= Cap
      PROVE  Knows(b, st, n + 1)'
  <2>1. Len(outs) \in Nat /\ Len(st) = Len(outs) + 4 /\ st[2].do = "issuedSum" /\ st[3].do = "spentSum"
    BY <1>4, ListFacts, IssueIs
  <2>2. ASSUME n + 1 = 2 PROVE seen'[b] = Cardinality(Signed)
    <3>1. n = 1 /\ Next1(b).do = "issuedSum"
      BY <1>2, <2>1, <2>2
    <3> QED
      BY <3>1
  <2>3. ASSUME n + 1 >= 3, Cap # 0 PROVE Outstanding + Len(outs) <= Cap
    <3>1. CASE n >= 3
      BY <1>4, <2>3, <3>1
    <3>2. CASE n = 2
      <4>1. UnderCap(b) /\ seen[b] = Cardinality(Signed)
        BY <1>2, <1>4, <2>1, <3>2
      <4>2. Len(todo[b]) - 2 = Len(outs)
        BY <1>2, <2>1, <3>2
      <4>3. Cardinality(Signed) - Cardinality(Spent) + Len(todo[b]) - 2 <= Cap
        BY <2>3, <4>1 DEF UnderCap
      <4> QED
        BY <1>2, <2>1, <3>2, <4>3, Counts DEF Outstanding
    <3> QED
      BY <1>2, <2>3, <3>1, <3>2
  <2> QED
    BY <1>1, <1>4, <2>2, <2>3 DEF Knows
<1> QED
  BY <1>3, <1>4 DEF Knows
(* A step that commits nothing leaves the one connection closed, or knowing *)
(* what the rest of its transaction relies on.                             *)
LEMMA CapKept ==
  ASSUME \A b, c \in Backends : b = c, CapInv, PInv', taken' = taken, DOMAIN seen' = Backends,
         NEW b \in Backends,
         \/ ~Open(b)'
         \/ \E st \in Seq(Statements) : \E n \in 0..(Len(st) - 1) :
              Legal(st)' /\ Doing(b, st, n)' /\ Knows(b, st, n)'
  PROVE  CapInv'
<1>1. CapHolds'
  BY DEF CapInv, CapHolds, Outstanding, Signed, Spent
<1>2. \A c \in Backends : c = b
  OBVIOUS
<1>3. \A c \in Backends : Open(c)' =>
        \E st \in Seq(Statements) : \E n \in 0..(Len(st) - 1) :
          Legal(st)' /\ Doing(c, st, n)' /\ Knows(c, st, n)'
  BY <1>2
<1> QED
  BY <1>1, <1>3 DEF CapInv

LEMMA CapGoesOn ==
  ASSUME IsFiniteSet(Tokens), \A b, c \in Backends : b = c, CapInv, PInv',
         NEW b \in Backends, HoldKey(b) \/ SumIssued(b) \/ SumSpent(b), ~Rollback(b)
  PROVE  CapInv'
<1>1. PInv /\ Open(b) /\ DOMAIN seen = Backends
  BY DEF CapInv, HoldKey, Waiting, SumIssued, SumSpent
<1>2. PICK st \in Seq(Statements) : \E n \in 0..(Len(st) - 1) :
        Legal(st) /\ Doing(b, st, n) /\ Knows(b, st, n)
  BY <1>1 DEF CapInv
<1>3. PICK n \in 0..(Len(st) - 1) : Legal(st) /\ Doing(b, st, n) /\ Knows(b, st, n)
  BY <1>2
<1>4. /\ taken' = taken /\ DOMAIN seen' = Backends
      /\ \/ Next1(b).do = "hold"
         \/ Next1(b).do = "issuedSum" /\ seen' = [seen EXCEPT ![b] = Cardinality(Signed)]
         \/ Next1(b).do = "spentSum" /\ UnderCap(b)
  BY <1>1 DEF HoldKey, Waiting, SumIssued, SumSpent
<1>5. Knows(b, st, n + 1)'
  BY <1>1, <1>3, <1>4, KnowsOn
<1>6. Doing(b, st, n + 1)' /\ n + 1 \in 0..(Len(st) - 1)
  <2>1. CASE HoldKey(b)
    BY <1>1, <1>3, <2>1, HoldDoes DEF HoldKey
  <2>2. CASE SumIssued(b) \/ SumSpent(b)
    BY <1>1, <1>3, <2>2, SumDoes DEF SumIssued, SumSpent
  <2> QED
    BY <2>1, <2>2
<1>7. Legal(st)'
  BY <1>3, <1>4, LegalStays
<1> QED
  BY <1>4, <1>5, <1>6, <1>7, CapKept

LEMMA CapStep ==
  ASSUME IsFiniteSet(Tokens), \A b, c \in Backends : b = c, CapInv, [Next]_vars
  PROVE  CapInv'
<1>1. PInv /\ PInv' /\ DOMAIN seen = Backends
  BY StepKeeps DEF CapInv
<1>2. CASE UNCHANGED vars
  <2>1. CapHolds' /\ DOMAIN seen' = Backends
    BY <1>1, <1>2 DEF vars, CapInv, CapHolds, Outstanding, Signed, Spent
  <2>2. \A b \in Backends, st \in Seq(Statements) : \A n \in 0..(Len(st) - 1) :
          /\ Legal(st) => Legal(st)'
          /\ Doing(b, st, n) => Doing(b, st, n)'
          /\ Knows(b, st, n) => Knows(b, st, n)'
    <3>1. taken' = taken /\ seen' = seen /\ todo' = todo /\ \A b \in Backends : HeldBy(b)' = HeldBy(b)
      BY <1>2 DEF vars, HeldBy
    <3>2. Presentable' = Presentable /\ Signed' = Signed /\ Outstanding' = Outstanding
      BY <3>1 DEF Presentable, Signed, Spent, Outstanding
    <3>3. \A st : Legal(st)' <=> Legal(st)
      BY <3>2 DEF Legal
    <3>4. \A st : Paying(st)' <=> Paying(st)
      BY <3>2 DEF Paying
    <3>5. \A b \in Backends, st \in Seq(Statements) : \A n \in 0..(Len(st) - 1) :
            Knows(b, st, n) => Knows(b, st, n)'
      BY <3>1, <3>2, <3>4 DEF Knows
    <3>6. \A b \in Backends, st \in Seq(Statements) : \A n \in 0..(Len(st) - 1) :
            Doing(b, st, n) => Doing(b, st, n)'
      BY <3>1 DEF Doing
    <3> QED
      BY <3>3, <3>5, <3>6
  <2>3. \A b \in Backends : Open(b)' <=> Open(b)
    BY <1>2 DEF vars, Open
  <2>4. \A b \in Backends : Open(b)' =>
          \E st \in Seq(Statements) : \E n \in 0..(Len(st) - 1) :
            Legal(st)' /\ Doing(b, st, n)' /\ Knows(b, st, n)'
    BY <2>2, <2>3 DEF CapInv
  <2> QED
    BY <1>1, <2>1, <2>4 DEF CapInv
<1>3. ASSUME NEW b \in Backends, Begins(b) PROVE CapInv'
  <2>1. PICK st : Legal(st) /\ Begin(b, st)
    BY <1>3 DEF Begins, BeginIssue, BeginSwap, BeginMelt, Legal
  <2>2. Doing(b, st, 0)' /\ 0 \in 0..(Len(st) - 1) /\ st \in Seq(Statements)
    BY <1>1, <2>1, BeginDoes, CommitIsLast
  <2>3. taken' = taken /\ seen' = seen
    BY <2>1 DEF Begin
  <2>4. Legal(st)'
    BY <2>1, <2>3, LegalStays
  <2>5. Knows(b, st, 0)'
    BY <2>4 DEF Legal, Knows, Paying
  <2> QED
    BY <1>1, <2>2, <2>3, <2>4, <2>5, CapKept
<1>4. ASSUME NEW b \in Backends, Rollback(b) PROVE CapInv'
  <2>1. ~Open(b)' /\ taken' = taken /\ DOMAIN seen' = Backends
    BY <1>1, <1>4 DEF Rollback, Open, PInv, TypeInv
  <2> QED
    BY <1>1, <2>1, CapKept
<1>5. ASSUME NEW b \in Backends, HoldKey(b) \/ SumIssued(b) \/ SumSpent(b) PROVE CapInv'
  BY <1>1, <1>4, <1>5, CapGoesOn
<1>6. ASSUME NEW b \in Backends, Commit(b) PROVE CapInv'
  <2>1. ~Open(b)' /\ DOMAIN seen' = Backends
    BY <1>1, <1>6 DEF Commit, Open, PInv, TypeInv
  <2>2. CapHolds'
    BY <1>6, CommitCap
  <2>3. \A c \in Backends : ~Open(c)'
    BY <2>1
  <2> QED
    BY <1>1, <2>1, <2>2, <2>3 DEF CapInv
<1> QED
  BY <1>2, <1>3, <1>4, <1>5, <1>6 DEF Next, Statement, Abandon, BreakDeadlock

(* mint.ts:140 (maxOutstanding) on one connection: the outstanding supply   *)
(* never passes the cap.                                                   *)
THEOREM CapHoldsAlone ==
  ASSUME \A b, c \in Backends : b = c, IsFiniteSet(Tokens),
         Cap = 0 \/ Cardinality(Circulating) <= Cap
  PROVE  Spec => []CapHolds
<1>1. Init => CapInv
  <2> SUFFICES ASSUME Init PROVE CapInv
    OBVIOUS
  <2>1. \A b \in Backends : ~Open(b)
    BY DEF Init, Open
  <2>2. Signed = Circulating /\ Spent = {}
    BY PgAssumption, RowOf DEF Init, Signed, Spent
  <2>3. Cardinality(Spent) = 0 /\ Cardinality(Signed) \in Nat
    BY <2>2, FS_EmptySet, Counts
  <2>4. CapHolds
    BY <2>2, <2>3 DEF CapHolds, Outstanding
  <2>5. DOMAIN seen = Backends
    BY DEF Init
  <2> QED
    BY <2>1, <2>4, <2>5, InitKeeps DEF CapInv
<1>2. CapInv /\ [Next]_vars => CapInv'
  BY CapStep
<1>3. CapInv => CapHolds
  BY DEF CapInv
<1> QED
  BY <1>1, <1>2, <1>3, PTL DEF Spec
=============================================================================
