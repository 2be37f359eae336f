------------------------------ MODULE PgLedger ------------------------------
(***************************************************************************)
(* The mint's three writing transactions on node-postgres (db.ts), one SQL *)
(* statement at a time.  db.tx sends a plain BEGIN, so they run at READ    *)
(* COMMITTED: a statement sees what was committed when it started, a SELECT *)
(* ... FOR UPDATE or an INSERT on a key another open transaction holds     *)
(* waits for that transaction, and PostgreSQL ends a cycle of waits by     *)
(* aborting one of its members.                                            *)
(*                                                                         *)
(* What a transaction writes is a set of keys: the quote or melt row it    *)
(* closes, a row of spent_secrets per input, a row of blind_signatures per *)
(* output.  A key that is taken stays taken: the row has left PAID or      *)
(* UNPAID, the primary key exists.                                         *)
(***************************************************************************)
EXTENDS Integers, Sequences, FiniteSets, SequencesExt

CONSTANTS
  Backends,    \* connections of the pool
  Quotes,      \* paid mint quotes
  Melts,       \* open melt quotes
  Tokens,      \* coins, as in Mint, all of worth 1
  Circulating, \* coins signed and released before the model starts
  Width,       \* bound on the inputs, and on the outputs, of a request
  Cap          \* config.maxOutstanding, 0 for no cap

Free == "free"  \* nobody holds the key

ASSUME PgAssumption ==
  /\ Circulating \subseteq Tokens
  /\ Width \in Nat /\ Cap \in Nat
  /\ Free \notin Backends

Row(table, id) == [table |-> table, id |-> id]

LockRows == {Row("quote", q) : q \in Quotes} \cup {Row("melt", m) : m \in Melts}
Keys == LockRows \cup {Row(t, x) : t \in {"spent", "signed"}, x \in Tokens}

VARIABLES
  taken,  \* keys committed
  owner,  \* owner[k]: the open transaction that holds key k
  todo,   \* todo[b]: the statements backend b's transaction has left
  seen    \* seen[b]: the sum over blind_signatures that b has read

vars == <<taken, owner, todo, seen>>

-----------------------------------------------------------------------------
(* Statements.  SELECT ... FOR UPDATE and INSERT ... ON CONFLICT both hold  *)
(* a key; computeOutstanding is the two sums, the second compared with Cap. *)
Hold(table, ids) == [i \in DOMAIN ids |-> [do |-> "hold", key |-> Row(table, ids[i])]]
CheckCap == << [do |-> "issuedSum"], [do |-> "spentSum"] >>
Finish   == << [do |-> "commit"] >>

IssueTx(q, outs) == Hold("quote", <<q>>) \o CheckCap \o Hold("signed", outs) \o Finish
SwapTx(ins, outs) == Hold("spent", ins) \o Hold("signed", outs) \o Finish
MeltTx(m, ins) == Hold("melt", <<m>>) \o Hold("spent", ins) \o Finish

(* Requests list coins in any order, each once.                             *)
Lists == UNION {SetToSeqs(S) : S \in {T \in SUBSET Tokens : Cardinality(T) \in 1..Width}}

Signed == {t \in Tokens : Row("signed", t) \in taken}
Spent  == {t \in Tokens : Row("spent", t) \in taken}
Outstanding == Cardinality(Signed) - Cardinality(Spent)

(* A client can present coins whose signatures were committed.              *)
Presentable == LET known == Signed IN {ins \in Lists : ToSet(ins) \subseteq known}

Open(b) == todo[b] # <<>>
Next1(b) == Head(todo[b])
Waiting(b) == Open(b) /\ Next1(b).do = "hold"

Begin(b, statements) ==
  /\ ~Open(b)
  /\ todo' = [todo EXCEPT ![b] = statements]
  /\ UNCHANGED <<taken, owner, seen>>

BeginIssue(b) ==
  /\ \E q \in Quotes, outs \in Lists : Begin(b, IssueTx(q, outs))

BeginSwap(b) ==
  /\ \E ins \in Presentable : \E outs \in Lists :
       Len(ins) = Len(outs) /\ Begin(b, SwapTx(ins, outs))

BeginMelt(b) ==
  /\ \E m \in Melts, ins \in Presentable : Begin(b, MeltTx(m, ins))

-----------------------------------------------------------------------------
Release(b) == owner' = [k \in Keys |-> IF owner[k] = b THEN Free ELSE owner[k]]

KeepWrites(b) ==
  /\ todo' = [todo EXCEPT ![b] = <<>>]
  /\ taken' = taken \cup {k \in Keys \ LockRows : owner[k] = b}
  /\ Release(b)
  /\ seen' = [seen EXCEPT ![b] = 0]
Rollback(b) ==
  /\ todo' = [todo EXCEPT ![b] = <<>>]
  /\ Release(b)
  /\ seen' = [seen EXCEPT ![b] = 0]
  /\ UNCHANGED taken

Advance(b) == todo' = [todo EXCEPT ![b] = Tail(@)]

(* Wait until no open transaction holds the key.  A committed key ends the  *)
(* request: the quote is ISSUED or the melt not UNPAID, the token is spent, *)
(* the output is signed.                                                   *)
KeyIsFree(b, k) == owner[k] = Free

HoldKey(b) ==
  /\ Waiting(b)
  /\ LET k == Next1(b).key IN
       /\ KeyIsFree(b, k)
       /\ IF k \in taken
            THEN Rollback(b)
            ELSE /\ owner' = [owner EXCEPT ![k] = b]
                 /\ Advance(b)
                 /\ UNCHANGED <<taken, seen>>

SumIssued(b) ==
  /\ Open(b) /\ Next1(b).do = "issuedSum"
  /\ seen' = [seen EXCEPT ![b] = Cardinality(Signed)]
  /\ Advance(b)
  /\ UNCHANGED <<taken, owner>>

(* What follows the cap check is an INSERT per output and the commit.       *)
UnderCap(b) == Cap = 0 \/ seen[b] - Cardinality(Spent) + Len(todo[b]) - 2 <= Cap

SumSpent(b) ==
  /\ Open(b) /\ Next1(b).do = "spentSum"
  /\ IF UnderCap(b)
       THEN Advance(b) /\ seen' = [seen EXCEPT ![b] = 0] /\ UNCHANGED <<taken, owner>>
       ELSE Rollback(b)

Commit(b) ==
  /\ Open(b) /\ Next1(b).do = "commit"
  /\ taken' = taken \cup {k \in Keys : owner[k] = b}
  /\ todo' = [todo EXCEPT ![b] = <<>>]
  /\ Release(b)
  /\ UNCHANGED seen

(* The process or its connection dies: the server rolls back.               *)
Abandon(b) == Open(b) /\ Rollback(b)

(* PostgreSQL's deadlock detector aborts one member of a cycle of waits.    *)
WaitsFor(b, c) == Waiting(b) /\ b # c /\ owner[Next1(b).key] = c

InCycle(b) ==
  \E S \in SUBSET Backends :
    /\ b \in S
    /\ \A c \in S : \E d \in S : WaitsFor(c, d)
    /\ \A d \in S : \E c \in S : WaitsFor(c, d)

NeverBreaks(b) == FALSE /\ Rollback(b)
BreakDeadlock(b) == InCycle(b) /\ Rollback(b)

-----------------------------------------------------------------------------
Init ==
  /\ taken = {Row("signed", t) : t \in Circulating}
  /\ owner = [k \in Keys |-> Free]
  /\ todo = [b \in Backends |-> <<>>]
  /\ seen = [b \in Backends |-> 0]

Begins(b) == BeginIssue(b) \/ BeginSwap(b) \/ BeginMelt(b)

Statement(b) ==
  HoldKey(b) \/ SumIssued(b) \/ SumSpent(b) \/ Commit(b) \/ BreakDeadlock(b)

Next == \E b \in Backends : Begins(b) \/ Statement(b) \/ Abandon(b)

Spec == Init /\ [][Next]_vars

(* Every open connection goes on, the detector runs, and a transaction that *)
(* waits for a key gets its turn: PostgreSQL queues the waiters of a lock.  *)
FairSpec ==
  /\ Spec
  /\ \A b \in Backends : WF_vars(Statement(b)) /\ SF_vars(HoldKey(b))

-----------------------------------------------------------------------------
(* README.md:7 "exactly one winner", "a conflict rolls the whole thing      *)
(* back": committed state changes only by the whole of one request whose    *)
(* keys were all free.  AtomicLedger says so without statements or locks.   *)
Atomic == INSTANCE AtomicLedger WITH Worth <- [S \in SUBSET Tokens |-> Cardinality(S)]
OneWinner == Atomic!Spec

(* mint.ts:140: the outstanding supply never passes the cap.                *)
CapHolds == Cap = 0 \/ Outstanding <= Cap

(* Two requests may list the same coins in opposite orders; still every     *)
(* transaction that began ends.                                             *)
EveryTxEnds == \A b \in Backends : Open(b) ~> ~Open(b)
=============================================================================
