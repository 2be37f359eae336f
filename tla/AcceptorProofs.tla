--------------------------- MODULE AcceptorProofs ---------------------------
(***************************************************************************)
(* The acceptor over a store without transactions accepts as one that has  *)
(* them: AInv is inductive, and Acceptor implements AcceptOnce, for any    *)
(* number of instances, challenges and coins.                              *)
(***************************************************************************)
EXTENDS Acceptor, TLAPS

Presenting == {"dup", "mark", "claim", "undo", "unmark", "put"}
Holding(r) == call[r].at \in {"claim", "undo", "unmark", "put"}

TypeInv ==
  /\ record \in [Challenges -> [known : BOOLEAN, receipt : Receipts, coins : SUBSET Coins]]
  /\ paid \subseteq Challenges
  /\ claims \in [Coins -> Challenges \cup {Free}]
  /\ call \in [Handlers -> [at : Steps, chal : Challenges \cup {"none"},
                            coins : SUBSET Coins, left : SUBSET Coins]]

(* Between its marker and its record, one handler has the challenge.       *)
Alone ==
  \A r, s \in Handlers :
    Holding(r) /\ Holding(s) /\ call[r].chal = call[s].chal => r = s

(* What a handler knows at the await it is at.                             *)
CallOK(r) ==
  LET c == call[r].chal IN
  /\ call[r].at \notin Over => c \in Challenges
  /\ call[r].at \in Presenting => c \notin Own \ landed
  /\ At(r, "dup") => call[r].left \subseteq call[r].coins
  /\ call[r].at \in {"mark", "claim", "put", "swap", "settled", "spent"} => call[r].coins # {}
  /\ Holding(r) => c \in paid /\ record[c].coins = {}
  /\ At(r, "claim") => \A y \in call[r].coins \ call[r].left : claims[y] = c
  /\ At(r, "put") => \A y \in call[r].coins : claims[y] = c
  /\ At(r, "undo") => \A y \in call[r].left : claims[y] = c
  /\ call[r].at \in {"swap", "settled", "spent"} => record[c].coins = call[r].coins

(* Nobody presents anything for the challenge, now or later.               *)
Retired(c) ==
  /\ c \in expired
  /\ \A r \in Handlers : call[r].chal = c => call[r].at \notin Presenting

(* An acceptance is marked as long as somebody could repeat it.            *)
ChalOK(c) ==
  /\ record[c].coins # {} => c \in paid \/ Retired(c)
  /\ record[c].receipt # "none" => record[c].coins # {}
  /\ c \in Own \ landed => record[c] = Absent

(* What holds however long the service runs.                               *)
LInv ==
  /\ TypeInv
  /\ Alone
  /\ \A r \in Handlers : CallOK(r)
  /\ \A c \in Challenges : ChalOK(c)

(* Before anything reaches its time-to-live, an acceptance keeps its       *)
(* marker and its claims, too.                                             *)
KeptOK(c) ==
  record[c].coins # {} => c \in paid /\ \A y \in record[c].coins : claims[y] = c
Kept == \A c \in Challenges : KeptOK(c)

AInv == LInv /\ Kept

(* The mapping to AcceptOnce, and its one action.                          *)
accepted == [c \in Challenges |-> record[c].coins]

AcceptsNow(c, ys) == Contract!Accept(c, ys)

(* Nobody has presented anything.                                          *)
LEMMA InitInv == Init => AInv
  BY AcceptorAssumption DEF Init, AInv, LInv, Kept, KeptOK, TypeInv, Alone, CallOK, ChalOK, Holding, At, Presenting,
     Steps, Over, Receipts, Absent

(* Handler r takes the step.                                               *)
Others(r) == \A s \in Handlers \ {r} : call'[s] = call[s]

(* A handler that presents a challenge did so before, or it has not        *)
(* expired.                                                                *)
PresentsInTime(r) ==
  call'[r].at \in Presenting =>
    \/ call[r].at \in Presenting /\ call'[r].chal = call[r].chal
    \/ call'[r].chal \notin expired'

LEMMA RetiredStays ==
  ASSUME NEW r \in Handlers, Others(r), PresentsInTime(r), expired \subseteq expired',
         NEW c \in Challenges, Retired(c)
  PROVE  Retired(c)'
BY DEF Others, PresentsInTime, Retired

(* A step that only moves handler r, and leaves the tables as they are.    *)
LEMMA OneMoves ==
  ASSUME LInv, NEW r \in Handlers,
         UNCHANGED <<record, landed, paid, claims, expired>>,
         TypeInv', Others(r), CallOK(r)', PresentsInTime(r),
         Holding(r)' => Holding(r) /\ call'[r].chal = call[r].chal
  PROVE  LInv' /\ (Kept => Kept')
<1>1. \A s \in Handlers : CallOK(s)'
  BY DEF LInv, CallOK, Holding, At, Others
<1>2. Alone'
  BY DEF LInv, Alone, Holding, Others
<1>3. \A c \in Challenges : ChalOK(c)'
  BY RetiredStays DEF LInv, ChalOK
<1>4. Kept => Kept'
  BY DEF Kept, KeptOK
<1> QED  BY <1>1, <1>2, <1>3, <1>4 DEF LInv

USE DEF At, Goto, GotoWith, Over, Presenting, Handlers

(* The steps of a handler that only read.                                  *)
LEMMA Reading ==
  ASSUME LInv, NEW r \in Handlers,
         \/ r \in Requests /\ \E c \in Challenges, ys \in SUBSET Coins : Present(r, c, ys)
         \/ r \in Jobs /\ \E c \in Challenges : Settle(r, c)
         \/ \E y \in call[r].left : LookUp(r, y) \/ LoseY(r, y)
         \/ SettleRead(r) \/ SwapFails(r) \/ Swap(r) \/ SwapSpent(r) \/ Dies(r)
  PROVE  LInv' /\ (Kept => Kept')
<1>1. ASSUME NEW c \in Challenges, NEW ys \in SUBSET Coins, Present(r, c, ys) PROVE LInv' /\ (Kept => Kept')
  <2>1. TypeInv' /\ Others(r) /\ CallOK(r)' /\ ~Holding(r)' /\ PresentsInTime(r)
    BY <1>1 DEF Others, PresentsInTime, Present, LInv, TypeInv, CallOK, ChalOK, Holding, Steps, Known, Absent
  <2> QED  BY <1>1, <2>1, OneMoves DEF Present
<1>2. ASSUME NEW c \in Challenges, Settle(r, c) PROVE LInv' /\ (Kept => Kept')
  <2>1. TypeInv' /\ Others(r) /\ CallOK(r)' /\ ~Holding(r)' /\ PresentsInTime(r)
    BY <1>2 DEF Others, PresentsInTime, Settle, LInv, TypeInv, CallOK, Holding, Steps
  <2> QED  BY <1>2, <2>1, OneMoves DEF Settle
<1>3. ASSUME NEW y \in call[r].left, LookUp(r, y) PROVE LInv' /\ (Kept => Kept')
  <2>1. TypeInv' /\ Others(r) /\ CallOK(r)' /\ ~Holding(r)' /\ PresentsInTime(r)
    BY <1>3 DEF Others, PresentsInTime, LookUp, LInv, TypeInv, CallOK, Holding, Steps
  <2> QED  BY <1>3, <2>1, OneMoves DEF LookUp
<1>4. ASSUME NEW y \in call[r].left, LoseY(r, y) PROVE LInv' /\ (Kept => Kept')
  <2>1. TypeInv' /\ Others(r)
    BY <1>4 DEF Others, PresentsInTime, LoseY, LInv, TypeInv, Steps, Claimed
  <2>2. /\ call'[r].at \in {"undo", "unmark"} /\ call'[r].chal = call[r].chal
        /\ call'[r].left = Claimed(r) /\ call'[r].coins = call[r].coins
    BY <1>4 DEF LoseY, LInv, TypeInv
  <2>3. CallOK(r) /\ Holding(r) /\ UNCHANGED <<record, landed, paid, claims>>
    BY <1>4 DEF LoseY, LInv, Holding
  <2>4. CallOK(r)' /\ PresentsInTime(r)
    BY <1>4, <2>2, <2>3 DEF LoseY, CallOK, Holding, Claimed, PresentsInTime
  <2>5. UNCHANGED expired
    BY <1>4 DEF LoseY
  <2> QED  BY <2>1, <2>2, <2>3, <2>4, <2>5, OneMoves
<1>5. ASSUME SettleRead(r) PROVE LInv' /\ (Kept => Kept')
  <2> DEFINE c == call[r].chal
  <2>0. c \in Challenges /\ UNCHANGED <<record, landed, paid, claims, expired>>
    BY <1>5 DEF SettleRead, LInv, CallOK
  <2>1. TypeInv' /\ Others(r)
    <3>1. record[c].coins \in SUBSET Coins
      BY <2>0 DEF LInv, TypeInv
    <3>2. \E at \in {"swap", "success", "refused"} :
            call' = [call EXCEPT ![r].at = at, ![r].coins = record[c].coins]
      BY <1>5 DEF SettleRead, Outcome
    <3> QED
      BY <2>0, <3>1, <3>2 DEF Others, PresentsInTime, LInv, TypeInv, Steps
  <2>2. /\ call'[r].at \in {"swap", "success", "refused"} /\ call'[r].chal = c
        /\ call'[r].at = "swap" => record[c].receipt = "pending"
        /\ call'[r].coins = record[c].coins
    BY <1>5 DEF SettleRead, Outcome, LInv, TypeInv
  <2>3. ChalOK(c)
    BY <2>0 DEF LInv
  <2>4. CallOK(r)' /\ ~Holding(r)' /\ PresentsInTime(r)
    BY <2>0, <2>2, <2>3 DEF CallOK, ChalOK, Holding, PresentsInTime
  <2> QED  BY <2>0, <2>1, <2>4, OneMoves
<1>6. ASSUME SwapFails(r) \/ Swap(r) \/ SwapSpent(r) PROVE LInv' /\ (Kept => Kept')
  <2>1. TypeInv' /\ Others(r) /\ CallOK(r)' /\ ~Holding(r)' /\ PresentsInTime(r)
    BY <1>6 DEF Others, PresentsInTime, SwapFails, Swap, SwapSpent, LInv, TypeInv, CallOK, Holding, Steps
  <2> QED  BY <1>6, <2>1, OneMoves DEF SwapFails, Swap, SwapSpent
<1>7. ASSUME Dies(r) PROVE LInv' /\ (Kept => Kept')
  <2>1. TypeInv' /\ Others(r)
    BY <1>7 DEF Others, PresentsInTime, Dies, LInv, TypeInv, Steps
  <2>2. call'[r].at = "failed" /\ UNCHANGED <<record, landed, paid, claims, expired>>
    BY <1>7 DEF Dies, LInv, TypeInv
  <2>3. CallOK(r)' /\ ~Holding(r)' /\ PresentsInTime(r)
    BY <2>2 DEF CallOK, Holding, PresentsInTime
  <2> QED  BY <2>1, <2>2, <2>3, OneMoves
<1> QED  BY <1>1, <1>2, <1>3, <1>4, <1>5, <1>6, <1>7

(* The marker gives the challenge to one handler, if nobody has it.        *)
LEMMA Marking ==
  ASSUME LInv, NEW r \in Handlers, Mark(r)
  PROVE  LInv' /\ (Kept => Kept')
<1>1. TypeInv' /\ Others(r) /\ PresentsInTime(r) /\ UNCHANGED expired
  BY DEF Others, PresentsInTime, Mark, LInv, TypeInv, CallOK, Steps
<1>2. CASE call[r].chal \in paid
  <2>1. CallOK(r)' /\ ~Holding(r)'
    BY <1>1, <1>2 DEF Mark, LInv, TypeInv, CallOK, Holding
  <2> QED  BY <1>1, <1>2, <2>1, OneMoves DEF Mark
<1>3. CASE call[r].chal \notin paid
  <2>1. record[call[r].chal].coins = {}
    BY <1>3 DEF Mark, LInv, ChalOK, CallOK, Retired
  <2>2. CallOK(r)'
    BY <1>1, <1>3, <2>1 DEF Mark, LInv, TypeInv, CallOK, Holding
  <2>3. \A s \in Handlers : CallOK(s)'
    BY <1>1, <1>3, <2>2 DEF Others, Mark, LInv, CallOK, Holding
  <2>4. Alone'
    BY <1>1, <1>3 DEF Others, Mark, LInv, TypeInv, Alone, CallOK, Holding
  <2>5. \A c \in Challenges : ChalOK(c)'
    BY <1>1, <1>3, RetiredStays DEF Mark, LInv, ChalOK
  <2>6. Kept => Kept'
    BY <1>3 DEF Mark, Kept, KeptOK
  <2> QED  BY <1>1, <2>3, <2>4, <2>5, <2>6 DEF LInv
<1> QED  BY <1>2, <1>3

(* A claim is set only if nobody has it, so it takes nothing from others.  *)
LEMMA Claiming ==
  ASSUME LInv, NEW r \in Handlers, NEW y \in call[r].left, ClaimY(r, y)
  PROVE  LInv' /\ (Kept => Kept')
<1>1. TypeInv' /\ Others(r) /\ PresentsInTime(r) /\ UNCHANGED expired
  BY DEF Others, PresentsInTime, ClaimY, LInv, TypeInv, CallOK, Steps
<1>2. call[r].chal \in Challenges /\ y \in Coins
  BY DEF ClaimY, LInv, TypeInv, CallOK
<1>3. \A z \in Coins, c \in Challenges : claims[z] = c => claims'[z] = c
  BY <1>2, AcceptorAssumption DEF ClaimY, LInv, TypeInv
<1>4. CallOK(r)'
  <2>1. /\ call'[r].at \in {"claim", "put"} /\ call'[r].chal = call[r].chal
        /\ call'[r].coins = call[r].coins /\ call'[r].left = call[r].left \ {y}
        /\ call'[r].at = "put" => call'[r].left = {}
    BY DEF ClaimY, LInv, TypeInv
  <2>2. CallOK(r) /\ call[r].coins \subseteq Coins /\ UNCHANGED <<record, landed, paid>>
    BY DEF ClaimY, LInv, TypeInv
  <2>3. claims'[y] = call[r].chal
    BY <1>2 DEF ClaimY, LInv, TypeInv
  <2>4. \A z \in call'[r].coins \ call'[r].left : claims'[z] = call[r].chal
    <3>1. \A z \in call[r].coins \ call[r].left : claims[z] = call[r].chal
      BY DEF ClaimY, LInv, CallOK
    <3>2. \A z \in call[r].coins \ call[r].left : claims'[z] = call[r].chal
      BY <1>2, <1>3, <2>2, <3>1
    <3> QED
      BY <2>1, <2>3, <3>2
  <2> QED
    BY <1>2, <2>1, <2>2, <2>4 DEF ClaimY, CallOK, Holding
<1>5. ASSUME NEW s \in Handlers \ {r} PROVE CallOK(s)'
  <2>1. /\ CallOK(s) /\ call'[s] = call[s] /\ UNCHANGED <<record, landed, paid>>
        /\ call[s].coins \subseteq Coins /\ call[s].left \subseteq Coins
    BY <1>1 DEF Others, ClaimY, LInv, TypeInv
  <2> QED
    BY <1>3, <2>1 DEF CallOK, Holding
<1>6. Alone'
  BY <1>1 DEF Others, ClaimY, LInv, TypeInv, Alone, Holding
<1>7. \A c \in Challenges : ChalOK(c)'
  BY <1>1, RetiredStays DEF ClaimY, LInv, ChalOK
<1>8. Kept => Kept'
  BY <1>3 DEF ClaimY, LInv, TypeInv, Kept, KeptOK
<1> QED  BY <1>1, <1>4, <1>5, <1>6, <1>7, <1>8 DEF LInv

(* A rollback deletes only claims of its own challenge, which nobody else  *)
(* holds and which has no acceptance.                                      *)
LEMMA Undoing ==
  ASSUME LInv, NEW r \in Handlers, NEW y \in call[r].left, NEW ok \in BOOLEAN, Undo(r, y, ok)
  PROVE  LInv' /\ (Kept => Kept')
<1>1. TypeInv' /\ Others(r) /\ PresentsInTime(r) /\ UNCHANGED expired
  BY DEF Others, PresentsInTime, Undo, LInv, TypeInv, CallOK, Steps
<1>2. call[r].chal \in Challenges /\ y \in Coins /\ claims[y] = call[r].chal
  BY DEF Undo, LInv, TypeInv, CallOK
<1>3. \A z \in Coins, c \in Challenges \ {call[r].chal} : claims[z] = c => claims'[z] = c
  BY <1>2, AcceptorAssumption DEF Undo, LInv, TypeInv
<1>4. CallOK(r)'
  BY <1>1, <1>2 DEF Undo, LInv, TypeInv, CallOK, Holding
<1>5. ASSUME NEW s \in Handlers \ {r} PROVE CallOK(s)'
  <2>1. /\ CallOK(s) /\ call'[s] = call[s] /\ UNCHANGED <<record, landed, paid>>
        /\ call[s].coins \subseteq Coins /\ call[s].left \subseteq Coins
    BY <1>1 DEF Others, Undo, LInv, TypeInv
  <2>2. Holding(s) => call[s].chal # call[r].chal
    BY DEF Undo, LInv, Alone, Holding
  <2> QED
    BY <1>3, <2>1, <2>2 DEF CallOK, Holding
<1>6. Alone'
  BY <1>1 DEF Others, Undo, LInv, TypeInv, Alone, Holding
<1>7. \A c \in Challenges : ChalOK(c)'
  BY <1>1, RetiredStays DEF Undo, LInv, ChalOK
<1>8. Kept => Kept'
  BY <1>3 DEF Undo, LInv, TypeInv, Kept, KeptOK, CallOK, Holding
<1> QED  BY <1>1, <1>4, <1>5, <1>6, <1>7, <1>8 DEF LInv

(* The marker of a lost race is given back by the one who set it.          *)
LEMMA Unmarking ==
  ASSUME LInv, NEW r \in Handlers, NEW ok \in BOOLEAN, Unmark(r, ok)
  PROVE  LInv' /\ (Kept => Kept')
<1>1. TypeInv' /\ Others(r) /\ PresentsInTime(r) /\ UNCHANGED expired
  BY DEF Others, PresentsInTime, Unmark, LInv, TypeInv, CallOK, Steps
<1>2. CallOK(r)'
  BY <1>1 DEF Unmark, LInv, TypeInv, CallOK, Holding
<1>3. \A s \in Handlers \ {r} : CallOK(s)'
  BY <1>1 DEF Others, Unmark, LInv, TypeInv, Alone, CallOK, Holding
<1>4. Alone'
  BY <1>1 DEF Others, Unmark, LInv, TypeInv, Alone, Holding
<1>5. record[call[r].chal].coins = {} /\ UNCHANGED <<record, landed, claims>>
  BY DEF Unmark, LInv, CallOK, Holding
<1>6. \A c \in Challenges : ChalOK(c)'
  BY <1>1, <1>5, RetiredStays DEF Unmark, LInv, ChalOK
<1>7. Kept => Kept'
  BY <1>5 DEF Unmark, Kept, KeptOK
<1> QED  BY <1>1, <1>2, <1>3, <1>4, <1>6, <1>7 DEF LInv

(* The record is written by the one handler that has the challenge, and    *)
(* every coin in it is claimed.                                            *)
LEMMA Recording ==
  ASSUME LInv, NEW r \in Handlers, PutAccepted(r)
  PROVE  LInv' /\ (Kept => Kept' /\ AcceptsNow(call[r].chal, call[r].coins))
<1>1. TypeInv' /\ Others(r) /\ PresentsInTime(r) /\ UNCHANGED expired
  BY DEF Others, PresentsInTime, PutAccepted, Accepted, LInv, TypeInv, CallOK, Steps, Receipts
<1>2. /\ call[r].chal \in Challenges /\ call[r].chal \in paid
      /\ record[call[r].chal].coins = {}
      /\ record' = [record EXCEPT ![call[r].chal] = Accepted(call[r].coins, "pending")]
      /\ \A y \in call[r].coins : claims[y] = call[r].chal
  BY DEF PutAccepted, LInv, CallOK, Holding
<1>3. CallOK(r)'
  BY <1>1, <1>2 DEF PutAccepted, LInv, TypeInv, CallOK, Holding
<1>4. \A s \in Handlers \ {r} : CallOK(s)'
  BY <1>1, <1>2 DEF Others, PutAccepted, LInv, TypeInv, Alone, CallOK, Holding
<1>5. Alone'
  BY <1>1 DEF Others, PutAccepted, LInv, TypeInv, Alone, Holding
<1>6. ASSUME NEW c \in Challenges PROVE ChalOK(c)'
  <2>1. CASE c = call[r].chal
    BY <1>2, <2>1 DEF PutAccepted, Accepted, LInv, TypeInv, ChalOK, CallOK
  <2>2. CASE c # call[r].chal
    <3>1. ChalOK(c) /\ record'[c] = record[c] /\ UNCHANGED <<paid, landed>>
      BY <1>2, <2>2 DEF PutAccepted, LInv, TypeInv
    <3> QED  BY <1>1, <3>1, RetiredStays DEF ChalOK
  <2> QED  BY <2>1, <2>2
<1>7. ASSUME Kept PROVE Kept' /\ AcceptsNow(call[r].chal, call[r].coins)
  <2>1. Kept'
    BY <1>2, <1>7 DEF PutAccepted, Accepted, LInv, TypeInv, Kept, KeptOK
  <2>2. \A d \in Challenges : call[r].coins \cap record[d].coins = {}
    BY <1>2, <1>7 DEF Kept, KeptOK
  <2>3. AcceptsNow(call[r].chal, call[r].coins)
    BY <1>2, <2>2 DEF AcceptsNow, Contract!Accept, Accepted, LInv, TypeInv
  <2> QED  BY <2>1, <2>3
<1> QED  BY <1>1, <1>3, <1>4, <1>5, <1>6, <1>7 DEF LInv

(* A settlement writes back the coins it read: they cannot have changed.   *)
LEMMA Receipting ==
  ASSUME LInv, NEW r \in Handlers, NEW receipt \in Receipts \ {"none"},
         call[r].at \in {"settled", "spent"}, PutReceipt(r, receipt)
  PROVE  LInv' /\ (Kept => Kept') /\ UNCHANGED accepted
<1>1. TypeInv' /\ Others(r) /\ PresentsInTime(r) /\ UNCHANGED expired
  BY DEF Others, PresentsInTime, PutReceipt, Accepted, Outcome, LInv, TypeInv, CallOK, Steps
<1>2. /\ call[r].chal \in Challenges
      /\ record[call[r].chal].coins = call[r].coins
      /\ call[r].coins # {}
      /\ record' = [record EXCEPT ![call[r].chal] = Accepted(call[r].coins, receipt)]
  BY DEF PutReceipt, LInv, CallOK
<1>3. \A c \in Challenges : record'[c].coins = record[c].coins
  BY <1>2 DEF Accepted, LInv, TypeInv
<1>4. CallOK(r)' /\ ~Holding(r)'
  BY <1>1 DEF PutReceipt, Outcome, LInv, TypeInv, CallOK, Holding
<1>5. \A s \in Handlers \ {r} : CallOK(s)'
  BY <1>1, <1>3 DEF Others, PutReceipt, LInv, TypeInv, CallOK, Holding
<1>6. Alone'
  BY <1>1, <1>4 DEF Others, LInv, Alone, Holding
<1>7. ASSUME NEW c \in Challenges PROVE ChalOK(c)'
  <2>1. ChalOK(c) /\ UNCHANGED <<paid, landed>>
    BY DEF PutReceipt, LInv
  <2>2. c = call[r].chal => c \notin Own \ landed /\ record'[c].coins # {}
    BY <1>2, <1>3, <2>1 DEF ChalOK, Absent
  <2>3. c # call[r].chal => record'[c] = record[c]
    BY <1>2 DEF LInv, TypeInv
  <2> QED  BY <1>1, <1>3, <2>1, <2>2, <2>3, RetiredStays DEF ChalOK
<1>8. Kept => Kept'
  BY <1>3 DEF PutReceipt, Kept, KeptOK
<1> QED  BY <1>1, <1>3, <1>4, <1>5, <1>6, <1>7, <1>8 DEF LInv, accepted

(* A challenge the service issued becomes known late: nobody has paid it.  *)
LEMMA Landing ==
  ASSUME LInv, NEW c \in Challenges, Lands(c)
  PROVE  LInv' /\ (Kept => Kept') /\ UNCHANGED accepted
<1>1. TypeInv'
  BY DEF Lands, Open, Absent, Receipts, LInv, TypeInv
<1>2. \A d \in Challenges : record'[d].coins = record[d].coins
  BY DEF Lands, Open, Absent, LInv, TypeInv, ChalOK
<1>3. \A s \in Handlers : CallOK(s)'
  BY <1>2 DEF Lands, LInv, CallOK, Holding
<1>4. Alone'
  BY DEF Lands, LInv, Alone, Holding
<1>5. \A d \in Challenges : ChalOK(d)'
  BY <1>2 DEF Lands, Open, Absent, LInv, TypeInv, ChalOK, Retired
<1>6. Kept => Kept'
  BY <1>2 DEF Lands, Kept, KeptOK
<1> QED  BY <1>1, <1>2, <1>3, <1>4, <1>5, <1>6 DEF LInv, accepted

(* Every step keeps the invariant and is an acceptance or leaves the       *)
(* acceptances alone.                                                      *)
Keeps == LInv' /\ (Kept => Kept' /\ [Contract!Next]_accepted)

LEMMA Step ==
  ASSUME LInv, [Next]_vars
  PROVE  Keeps
<1> USE DEF Keeps
<1>1. ASSUME NEW r \in Handlers, PutAccepted(r) PROVE Keeps
  <2>1. call[r].chal \in Challenges /\ call[r].coins \in SUBSET Coins
    BY <1>1 DEF PutAccepted, LInv, TypeInv, CallOK
  <2>2. LInv' /\ (Kept => Kept' /\ AcceptsNow(call[r].chal, call[r].coins))
    BY <1>1, Recording
  <2>3. Kept => Contract!Next
    BY <2>1, <2>2 DEF AcceptsNow, Contract!Next, Contract!Accept
  <2> QED  BY <2>2, <2>3
<1>2. ASSUME NEW r \in Handlers, PutSettled(r) \/ PutSpent(r) PROVE Keeps
  BY <1>2, Receipting DEF PutSettled, PutSpent, Receipts
<1>3. ASSUME NEW c \in Challenges, Lands(c) PROVE Keeps
  BY <1>3, Landing
<1>4. ASSUME NEW r \in Handlers, Mark(r) PROVE Keeps
  BY <1>4, Marking DEF Mark, accepted
<1>5. ASSUME NEW r \in Handlers, NEW y \in call[r].left, ClaimY(r, y) PROVE Keeps
  BY <1>5, Claiming DEF ClaimY, accepted
<1>6. ASSUME NEW r \in Handlers, NEW y \in call[r].left, NEW ok \in BOOLEAN, Undo(r, y, ok)
      PROVE  Keeps
  BY <1>6, Undoing DEF Undo, accepted
<1>7. ASSUME NEW r \in Handlers, NEW ok \in BOOLEAN, Unmark(r, ok) PROVE Keeps
  BY <1>7, Unmarking DEF Unmark, accepted
<1>8. ASSUME NEW r \in Handlers,
             \/ r \in Requests /\ \E c \in Challenges, ys \in SUBSET Coins : Present(r, c, ys)
             \/ r \in Jobs /\ \E c \in Challenges : Settle(r, c)
             \/ \E y \in call[r].left : LookUp(r, y) \/ LoseY(r, y)
             \/ SettleRead(r) \/ SwapFails(r) \/ Swap(r) \/ SwapSpent(r) \/ Dies(r)
      PROVE  Keeps
  <2>1. UNCHANGED record
    BY <1>8 DEF Present, Settle, LookUp, LoseY, SettleRead, SwapFails, Swap, SwapSpent, Dies
  <2> QED  BY <1>8, <2>1, Reading DEF accepted
<1>9. ASSUME UNCHANGED <<record, landed, paid, claims, call>>, expired \subseteq expired' PROVE Keeps
  BY <1>9 DEF LInv, TypeInv, Alone, CallOK, ChalOK, Retired, Holding, Kept, KeptOK, accepted
<1>10. ASSUME World PROVE Keeps
  <2>1. ASSUME NEW c \in Challenges, Expire(c) PROVE Keeps
    BY <2>1, <1>9 DEF Expire
  <2>2. ASSUME NEW y \in Coins, PayerSwaps(y) \/ Lapse(y) PROVE Keeps
    BY <2>2, <1>9 DEF PayerSwaps, Lapse
  <2> QED  BY <1>10, <2>1, <2>2, <1>3 DEF World
<1>11. ASSUME NEW r \in Handlers, Accepting(r) \/ Settling(r) \/ Faulty(r) PROVE Keeps
  <2>1. CASE Accepting(r)
    BY <2>1, <1>1, <1>4, <1>5, <1>6, <1>7, <1>8 DEF Accepting
  <2>2. CASE Settling(r)
    BY <2>2, <1>2, <1>8 DEF Settling
  <2>3. CASE Faulty(r)
    BY <2>3, <1>6, <1>7, <1>8 DEF Faulty
  <2> QED  BY <1>11, <2>1, <2>2, <2>3
<1>12. CASE Next
  <2>1. ASSUME NEW r \in Requests, NEW c \in Challenges, NEW ys \in SUBSET Coins, Present(r, c, ys)
        PROVE  Keeps
    BY <2>1, <1>8
  <2>2. ASSUME NEW j \in Jobs, NEW c \in Challenges, Settle(j, c) PROVE Keeps
    BY <2>2, <1>8
  <2> QED  BY <1>12, <2>1, <2>2, <1>10, <1>11 DEF Next
<1>13. CASE UNCHANGED vars
  BY <1>13, <1>9 DEF vars
<1> QED  BY <1>12, <1>13

(* The acceptor over the store without transactions implements AcceptOnce, *)
(* for any number of instances that race, lose, roll back and die.         *)
THEOREM AcceptorAcceptsOnce == Spec => AcceptsOnce
<1>1. Init => Contract!Init
  BY DEF Init, Contract!Init, Absent
<1>2. AInv /\ [Next]_vars => AInv' /\ [Contract!Next]_accepted
  BY Step DEF AInv, Keeps
<1> QED  BY InitInv, <1>1, <1>2, PTL DEF Spec, AcceptsOnce, Contract!Spec, accepted

-----------------------------------------------------------------------------
(* What reaches its time-to-live belongs to a challenge nobody works on.   *)
LEMMA Forgetting ==
  ASSUME LInv,
         \/ \E y \in Coins : ForgetY(y)
         \/ \E c \in Challenges : ForgetPaid(c)
  PROVE  LInv'
<1>1. ASSUME NEW y \in Coins, ForgetY(y) PROVE LInv'
  <2>1. TypeInv' /\ Alone' /\ \A c \in Challenges : ChalOK(c)'
    BY <1>1 DEF ForgetY, LInv, TypeInv, Alone, Holding, ChalOK, Retired
  <2>2. ASSUME NEW r \in Handlers PROVE CallOK(r)'
    <3>1. CallOK(r) /\ UNCHANGED <<record, landed, paid, call>>
      BY <1>1 DEF ForgetY, LInv
    <3>2. call[r].at \notin Over => claims[y] # call[r].chal
      BY <1>1 DEF ForgetY, Stale
    <3>3. \A z \in Coins : z # y => claims'[z] = claims[z]
      BY <1>1 DEF ForgetY, LInv, TypeInv
    <3>4. call[r].coins \subseteq Coins /\ call[r].left \subseteq Coins
      BY DEF LInv, TypeInv
    <3> QED  BY <3>1, <3>2, <3>3, <3>4 DEF CallOK, Holding
  <2> QED  BY <2>1, <2>2 DEF LInv
<1>2. ASSUME NEW c \in Challenges, ForgetPaid(c) PROVE LInv'
  <2>1. Retired(c) /\ UNCHANGED <<record, landed, claims, call, expired>> /\ paid' = paid \ {c}
    BY <1>2 DEF ForgetPaid, Stale, Retired
  <2>2. TypeInv' /\ Alone' /\ \A d \in Challenges : ChalOK(d)'
    BY <2>1 DEF LInv, TypeInv, Alone, Holding, ChalOK, Retired
  <2>3. \A r \in Handlers : CallOK(r)'
    BY <2>1 DEF LInv, CallOK, Holding, Retired
  <2> QED  BY <2>2, <2>3 DEF LInv
<1> QED  BY <1>1, <1>2
-----------------------------------------------------------------------------
(* The types.  What is left to do is part of the coins at hand.            *)
Shape(r) ==
  /\ call[r].left \subseteq call[r].coins
  /\ call[r].at \in {"dup", "claim", "undo"} => call[r].left # {}
  /\ call[r].at \in {"put", "read"} => call[r].left = {}

TypesInv ==
  /\ \A r \in Handlers : Shape(r)
  /\ landed \subseteq Own
  /\ mint \in [Coins -> {"nobody", "payer"} \cup Challenges]
  /\ expired \subseteq Challenges
  /\ lapsed \subseteq Locked
  /\ faults \in 0..MaxFaults

LEMMA TypesStart == Init => TypesInv
  BY AcceptorAssumption DEF Init, TypesInv, Shape

LEMMA TypesFollow == LInv /\ TypesInv => TypeOK
  BY DEF LInv, TypesInv, TypeInv, TypeOK, Shape

(* A step of one handler that gives it a record of the right shape.        *)
LEMMA ShapeStays ==
  ASSUME TypesInv, NEW r \in Handlers, Others(r), Shape(r)',
         UNCHANGED <<landed, mint, expired, lapsed, faults>>
  PROVE  TypesInv'
BY DEF TypesInv, Shape, Others

LEMMA TypesStep ==
  ASSUME LInv, TypesInv, [LongNext]_vars
  PROVE  TypesInv'
<1>1. ASSUME NEW r \in Handlers, NEW c \in Challenges, NEW ys \in SUBSET Coins, Present(r, c, ys)
      PROVE  TypesInv'
  <2>1. ys # {}
    BY <1>1, AcceptorAssumption DEF Present
  <2> QED  BY <1>1, <2>1, ShapeStays DEF Present, LInv, TypeInv, Shape, Others
<1>2. ASSUME NEW r \in Handlers, NEW c \in Challenges, Settle(r, c) PROVE TypesInv'
  BY <1>2, ShapeStays DEF Settle, LInv, TypeInv, Shape, Others
<1>3. ASSUME NEW r \in Handlers, NEW y \in call[r].left, LookUp(r, y) \/ ClaimY(r, y) \/ LoseY(r, y)
      PROVE  TypesInv'
  <2>1. Shape(r)
    BY DEF TypesInv
  <2>2. Shape(r)' /\ Others(r)
    BY <1>3, <2>1 DEF LookUp, ClaimY, LoseY, Claimed, LInv, TypeInv, Shape, Others
  <2> QED  BY <1>3, <2>2, ShapeStays DEF LookUp, ClaimY, LoseY
<1>4. ASSUME NEW r \in Handlers, Mark(r) \/ PutAccepted(r) PROVE TypesInv'
  <2>1. Shape(r) /\ CallOK(r)
    BY DEF TypesInv, LInv
  <2>2. Shape(r)' /\ Others(r)
    BY <1>4, <2>1 DEF Mark, PutAccepted, CallOK, LInv, TypeInv, Shape, Others
  <2> QED  BY <1>4, <2>2, ShapeStays DEF Mark, PutAccepted
<1>5. ASSUME NEW r \in Handlers, SettleRead(r) \/ SwapFails(r) \/ SwapSpent(r) \/ PutSettled(r) \/ PutSpent(r)
      PROVE  TypesInv'
  <2>1. Shape(r)
    BY DEF TypesInv
  <2>2. Shape(r)' /\ Others(r)
    BY <1>5, <2>1 DEF SettleRead, SwapFails, SwapSpent, PutSettled, PutSpent, PutReceipt, Outcome,
       LInv, TypeInv, Shape, Others
  <2> QED  BY <1>5, <2>2, ShapeStays DEF SettleRead, SwapFails, SwapSpent, PutSettled, PutSpent, PutReceipt
<1>6. ASSUME NEW r \in Handlers, Swap(r) PROVE TypesInv'
  <2>1. Shape(r) /\ CallOK(r)
    BY DEF TypesInv, LInv
  <2>2. Shape(r)' /\ Others(r)
    BY <1>6, <2>1 DEF Swap, LInv, TypeInv, Shape, Others
  <2>3. mint' \in [Coins -> {"nobody", "payer"} \cup Challenges]
    BY <1>6, <2>1 DEF Swap, CallOK, TypesInv
  <2> QED  BY <1>6, <2>2, <2>3 DEF Swap, TypesInv, Shape, Others
<1>7. ASSUME NEW r \in Handlers, NEW y \in call[r].left, NEW ok \in BOOLEAN, Undo(r, y, ok),
             ok \/ faults < MaxFaults
      PROVE  TypesInv'
  <2>1. Shape(r)
    BY DEF TypesInv
  <2>2. Shape(r)' /\ Others(r)
    BY <1>7, <2>1 DEF Undo, LInv, TypeInv, Shape, Others
  <2>3. faults' \in 0..MaxFaults
    BY <1>7, AcceptorAssumption DEF Undo, TypesInv
  <2> QED  BY <1>7, <2>2, <2>3 DEF Undo, TypesInv, Shape, Others
<1>8. ASSUME NEW r \in Handlers, NEW ok \in BOOLEAN, Unmark(r, ok), ok \/ faults < MaxFaults
      PROVE  TypesInv'
  <2>1. Shape(r)
    BY DEF TypesInv
  <2>2. Shape(r)' /\ Others(r)
    BY <1>8, <2>1 DEF Unmark, LInv, TypeInv, Shape, Others
  <2>3. faults' \in 0..MaxFaults
    BY <1>8, AcceptorAssumption DEF Unmark, TypesInv
  <2> QED  BY <1>8, <2>2, <2>3 DEF Unmark, TypesInv, Shape, Others
<1>9. ASSUME NEW r \in Handlers, Dies(r) PROVE TypesInv'
  <2>1. Shape(r)' /\ Others(r)
    BY <1>9 DEF Dies, LInv, TypeInv, Shape, Others
  <2>2. faults' \in 0..MaxFaults
    BY <1>9, AcceptorAssumption DEF Dies, TypesInv
  <2> QED  BY <1>9, <2>1, <2>2 DEF Dies, TypesInv, Shape, Others
<1>10. ASSUME NEW c \in Challenges, Lands(c) \/ Expire(c) \/ ForgetPaid(c) PROVE TypesInv'
  BY <1>10 DEF Lands, Expire, ForgetPaid, TypesInv, Shape
<1>11. ASSUME NEW y \in Coins, PayerSwaps(y) \/ Lapse(y) \/ ForgetY(y) PROVE TypesInv'
  BY <1>11 DEF PayerSwaps, Lapse, ForgetY, TypesInv, Shape
<1>12. ASSUME UNCHANGED vars PROVE TypesInv'
  BY <1>12 DEF vars, TypesInv, Shape
<1>13. ASSUME NEW r \in Handlers, Accepting(r) \/ Settling(r) \/ Faulty(r) PROVE TypesInv'
  BY <1>13, <1>3, <1>4, <1>5, <1>6, <1>7, <1>8, <1>9 DEF Accepting, Settling, Faulty
<1>14. ASSUME Next PROVE TypesInv'
  BY <1>14, <1>1, <1>2, <1>10, <1>11, <1>13 DEF Next, World
<1> QED  BY <1>10, <1>11, <1>12, <1>14 DEF LongNext

-----------------------------------------------------------------------------
(* The money.  A coin swapped for a challenge stays swapped for it, and    *)
(* what is presented, accepted and settled adds up to the price.           *)
Adds(ys, c) == SumProofs(ys) = Price[c]
Swapped(ys, c) == \A y \in ys : mint[y] = c

PayCallOK(r) ==
  LET c == call[r].chal IN
  /\ call[r].at \in Presenting \cup {"swap", "settled", "spent"} => Adds(call[r].coins, c)
  /\ At(r, "read") => record[c].receipt # "none"
  /\ At(r, "settled") => Swapped(call[r].coins, c)
  /\ SettleFirst /\ At(r, "success") => Adds(call[r].coins, c) /\ Swapped(call[r].coins, c)

PayOK(c) ==
  /\ record[c].receipt # "none" => Adds(record[c].coins, c)
  /\ record[c].receipt = "settled" => Swapped(record[c].coins, c)

PayInv ==
  /\ \A r \in Handlers : PayCallOK(r) /\ (At(r, "success") => call[r].chal \in Challenges)
  /\ \A c \in Challenges : PayOK(c)

LEMMA PayStart == Init => PayInv
  BY DEF Init, PayInv, PayCallOK, PayOK, Absent

LEMMA SuccessFollows == LInv /\ PayInv => SuccessIsPaid
  BY DEF PayInv, PayCallOK, SuccessIsPaid, Adds, Swapped

(* Who swapped a coin never changes.                                       *)
MintGrows == \A y \in Coins : mint[y] # "nobody" => mint'[y] = mint[y]

LEMMA SwappedStays ==
  ASSUME MintGrows, NEW ys \in SUBSET Coins, NEW c \in Challenges, Swapped(ys, c)
  PROVE  \A y \in ys : mint'[y] = c
BY AcceptorAssumption DEF MintGrows, Swapped

(* The others know what they knew, if no receipt goes away and what is     *)
(* settled is swapped.                                                     *)
LEMMA PayStays ==
  ASSUME LInv, PayInv, NEW r \in Handlers, Others(r), MintGrows, TypeInv',
         PayCallOK(r)', At(r, "success")' => call'[r].chal \in Challenges,
         \A c \in Challenges :
           \/ record'[c].receipt = record[c].receipt /\ record'[c].coins = record[c].coins
           \/ PayOK(c)' /\ record'[c].receipt # "none"
  PROVE  PayInv'
<1>1. ASSUME NEW s \in Handlers, s # r
      PROVE  PayCallOK(s)' /\ (At(s, "success")' => call'[s].chal \in Challenges)
  <2>1. /\ call'[s] = call[s] /\ PayCallOK(s) /\ call[s].coins \in SUBSET Coins
        /\ call[s].at \in Steps
        /\ At(s, "success") => call[s].chal \in Challenges
        /\ call[s].at \notin Over => call[s].chal \in Challenges
    BY <1>1 DEF Others, PayInv, LInv, TypeInv, CallOK
  <2>2. Swapped(call[s].coins, call[s].chal) /\ call[s].chal \in Challenges
          => \A y \in call[s].coins : mint'[y] = call[s].chal
    BY <2>1, SwappedStays DEF Swapped
  <2>3. At(s, "read") => record'[call[s].chal].receipt # "none"
    BY <2>1 DEF PayCallOK
  <2> QED  BY <2>1, <2>2, <2>3 DEF PayCallOK, Adds, Swapped
<1>2. ASSUME NEW c \in Challenges PROVE PayOK(c)'
  <2>1. PayOK(c) /\ record[c].coins \in SUBSET Coins
    BY DEF PayInv, LInv, TypeInv
  <2>2. Swapped(record[c].coins, c) => \A y \in record[c].coins : mint'[y] = c
    BY <2>1, SwappedStays
  <2> QED  BY <2>1, <2>2 DEF PayOK, Adds, Swapped
<1> QED  BY <1>1, <1>2 DEF PayInv

LEMMA PayStep ==
  ASSUME LInv, LInv', TypesInv, PayInv, [LongNext]_vars
  PROVE  PayInv'
<1>0. TypeInv' /\ (UNCHANGED mint => MintGrows)
  BY DEF LInv, MintGrows
<1>1. ASSUME NEW r \in Handlers, NEW c \in Challenges, NEW ys \in SUBSET Coins, Present(r, c, ys)
      PROVE  PayInv'
  <2>1. PayCallOK(r)' /\ Others(r) /\ call'[r].at = "dup"
    BY <1>1 DEF Present, LInv, TypeInv, PayCallOK, Adds, Others
  <2> QED  BY <1>0, <1>1, <2>1, PayStays DEF Present
<1>2. ASSUME NEW r \in Handlers, NEW c \in Challenges, Settle(r, c) PROVE PayInv'
  <2>1. PayCallOK(r)' /\ Others(r) /\ call'[r].at = "read"
    BY <1>2 DEF Settle, LInv, TypeInv, PayCallOK, Others
  <2> QED  BY <1>0, <1>2, <2>1, PayStays DEF Settle
<1>3. ASSUME NEW r \in Handlers,
             \/ \E y \in call[r].left : LookUp(r, y) \/ ClaimY(r, y) \/ LoseY(r, y)
             \/ \E y \in call[r].left, ok \in BOOLEAN : Undo(r, y, ok)
             \/ \E ok \in BOOLEAN : Unmark(r, ok)
             \/ Mark(r) \/ SwapFails(r) \/ SwapSpent(r) \/ Dies(r)
      PROVE  PayInv'
  <2>1. PayCallOK(r)
    BY DEF PayInv
  <2>2. /\ Others(r) /\ call'[r].coins = call[r].coins /\ call'[r].chal = call[r].chal
        /\ call'[r].at \in {"dup", "mark", "claim", "undo", "unmark", "put"}
             => call[r].at \in {"dup", "mark", "claim", "undo", "unmark", "put"}
        /\ call'[r].at = "spent" => call[r].at = "swap"
        /\ call'[r].at \in {"dup", "mark", "claim", "undo", "unmark", "put", "spent", "refused", "failed"}
        /\ UNCHANGED <<record, mint>>
    BY <1>3 DEF LookUp, ClaimY, LoseY, Undo, Unmark, Mark, SwapFails, SwapSpent, Dies,
       LInv, TypeInv, Others
  <2>3. PayCallOK(r)' /\ call'[r].at # "success"
    BY <2>1, <2>2 DEF PayCallOK, Adds
  <2> QED  BY <1>0, <2>2, <2>3, PayStays
<1>4. ASSUME NEW r \in Handlers, PutAccepted(r) PROVE PayInv'
  <2> DEFINE c == call[r].chal  ys == call[r].coins
  <2>1. PayCallOK(r) /\ c \in Challenges /\ Adds(ys, c)
    BY <1>4 DEF PutAccepted, PayInv, PayCallOK, LInv, CallOK
  <2>2. /\ Others(r) /\ call'[r].chal = c /\ call'[r].coins = ys
        /\ call'[r].at = IF SettleFirst THEN "read" ELSE "success"
    BY <1>4 DEF PutAccepted, LInv, TypeInv, Others
  <2>3. /\ \A d \in Challenges \ {c} : record'[d] = record[d]
        /\ record'[c].receipt = "pending" /\ record'[c].coins = ys
        /\ UNCHANGED mint
    BY <1>4, <2>1 DEF PutAccepted, Accepted, LInv, TypeInv
  <2>4. PayOK(c)' /\ PayCallOK(r)'
    BY <2>1, <2>2, <2>3 DEF PayOK, PayCallOK, Adds
  <2> QED  BY <1>0, <2>1, <2>2, <2>3, <2>4, PayStays
<1>5. ASSUME NEW r \in Handlers, SettleRead(r) PROVE PayInv'
  <2> DEFINE c == call[r].chal
  <2>1. /\ c \in Challenges /\ PayOK(c) /\ record[c].receipt \in Receipts
        /\ record[c].receipt # "none"
    <3>1. PayCallOK(r) /\ CallOK(r) /\ At(r, "read")
      BY <1>5 DEF SettleRead, PayInv, LInv
    <3>2. c \in Challenges /\ record[c].receipt # "none"
      BY <3>1 DEF PayCallOK, CallOK
    <3> QED  BY <3>2 DEF PayInv, LInv, TypeInv
  <2>2. /\ Others(r) /\ call'[r].chal = c /\ call'[r].coins = record[c].coins
        /\ call'[r].at = IF record[c].receipt = "pending" THEN "swap"
                         ELSE IF record[c].receipt = "double-spent" THEN "refused" ELSE "success"
        /\ UNCHANGED <<record, mint>>
    BY <1>5 DEF SettleRead, Outcome, LInv, TypeInv, Others
  <2>3. PayCallOK(r)'
    BY <2>1, <2>2 DEF PayOK, PayCallOK, Adds, Swapped, Receipts
  <2> QED  BY <1>0, <2>1, <2>2, <2>3, PayStays
<1>6. ASSUME NEW r \in Handlers, Swap(r) PROVE PayInv'
  <2>1. PayCallOK(r) /\ call[r].coins \in SUBSET Coins
    BY DEF PayInv, LInv, TypeInv
  <2>2. /\ Others(r) /\ call'[r].chal = call[r].chal /\ call'[r].coins = call[r].coins
        /\ call'[r].at = "settled" /\ UNCHANGED record
    BY <1>6 DEF Swap, LInv, TypeInv, Others
  <2>3. Swapped(call[r].coins, call[r].chal)' /\ MintGrows
    BY <1>6, <2>1, <2>2 DEF Swap, Swapped, MintGrows
  <2>4. PayCallOK(r)'
    BY <1>6, <2>1, <2>2, <2>3 DEF Swap, PayCallOK, Adds, Swapped
  <2> QED  BY <1>0, <2>2, <2>3, <2>4, PayStays
<1>7. ASSUME NEW r \in Handlers, PutSettled(r) \/ PutSpent(r) PROVE PayInv'
  <2> DEFINE c == call[r].chal  ys == call[r].coins
  <2>1. PayCallOK(r) /\ c \in Challenges /\ Adds(ys, c)
    BY <1>7 DEF PutSettled, PutSpent, PayInv, PayCallOK, LInv, CallOK
  <2>2. /\ Others(r) /\ call'[r].chal = c /\ call'[r].coins = ys
        /\ \/ call[r].at = "settled" /\ call'[r].at = "success" /\ record'[c].receipt = "settled"
           \/ call'[r].at = "refused" /\ record'[c].receipt = "double-spent"
        /\ \A d \in Challenges \ {c} : record'[d] = record[d]
        /\ record'[c].coins = ys
        /\ UNCHANGED mint
    BY <1>7, <2>1 DEF PutSettled, PutSpent, PutReceipt, Outcome, Accepted, LInv, TypeInv, Others
  <2>3. PayOK(c)' /\ PayCallOK(r)'
    BY <2>1, <2>2 DEF PayOK, PayCallOK, Adds, Swapped
  <2> QED  BY <1>0, <2>1, <2>2, <2>3, PayStays
<1>8. ASSUME NEW c \in Challenges, Lands(c) PROVE PayInv'
  <2>1. record[c].receipt = "none" /\ record'[c].receipt = "none" /\ record'[c].coins = {}
    BY <1>8 DEF Lands, Open, Absent, LInv, TypeInv, ChalOK
  <2>2. \A d \in Challenges \ {c} : record'[d] = record[d]
    BY <1>8 DEF Lands, LInv, TypeInv
  <2>3. \A d \in Challenges : PayOK(d)'
    BY <1>8, <2>1, <2>2 DEF Lands, PayInv, PayOK, Adds, Swapped
  <2>4. ASSUME NEW s \in Handlers
        PROVE  PayCallOK(s)' /\ (At(s, "success")' => call'[s].chal \in Challenges)
    <3>1. PayCallOK(s) /\ UNCHANGED <<call, mint>> /\ (At(s, "read") => call[s].chal \in Challenges)
      BY <1>8 DEF Lands, PayInv, LInv, CallOK
    <3>2. At(s, "read") => record'[call[s].chal].receipt # "none"
      BY <2>1, <2>2, <3>1 DEF PayCallOK
    <3> QED  BY <1>8, <3>1, <3>2 DEF Lands, PayInv, PayCallOK, Adds, Swapped
  <2> QED  BY <2>3, <2>4 DEF PayInv
<1>9. ASSUME UNCHANGED <<record, call>>, MintGrows PROVE PayInv'
  <2>1. ASSUME NEW s \in Handlers PROVE PayCallOK(s)'
    <3>1. PayCallOK(s) /\ call[s].coins \in SUBSET Coins
      BY DEF PayInv, LInv, TypeInv
    <3>2. call[s].at \in {"settled", "success"} => call[s].chal \in Challenges
      BY DEF PayInv, LInv, CallOK
    <3>3. call[s].at \in {"settled", "success"} /\ Swapped(call[s].coins, call[s].chal)
            => \A y \in call[s].coins : mint'[y] = call[s].chal
      BY <1>9, <3>1, <3>2, SwappedStays
    <3> QED  BY <1>9, <3>1, <3>3 DEF PayCallOK, Adds, Swapped
  <2>2. ASSUME NEW c \in Challenges PROVE PayOK(c)'
    <3>1. PayOK(c) /\ record[c].coins \in SUBSET Coins
      BY DEF PayInv, LInv, TypeInv
    <3>2. Swapped(record[c].coins, c) => \A y \in record[c].coins : mint'[y] = c
      BY <1>9, <3>1, SwappedStays
    <3> QED  BY <1>9, <3>1, <3>2 DEF PayOK, Adds, Swapped
  <2>3. \A s \in Handlers : At(s, "success")' => call'[s].chal \in Challenges
    BY <1>9 DEF PayInv
  <2> QED  BY <2>1, <2>2, <2>3 DEF PayInv
<1>10. ASSUME NEW c \in Challenges, Expire(c) \/ ForgetPaid(c) PROVE PayInv'
  BY <1>0, <1>9, <1>10 DEF Expire, ForgetPaid
<1>11. ASSUME NEW y \in Coins, PayerSwaps(y) \/ Lapse(y) \/ ForgetY(y) PROVE PayInv'
  <2>1. MintGrows
    BY <1>11 DEF PayerSwaps, Lapse, ForgetY, MintGrows, TypesInv
  <2> QED  BY <1>9, <1>11, <2>1 DEF PayerSwaps, Lapse, ForgetY
<1>12. ASSUME UNCHANGED vars PROVE PayInv'
  BY <1>0, <1>9, <1>12 DEF vars
<1>13. ASSUME NEW r \in Handlers, Accepting(r) \/ Settling(r) \/ Faulty(r) PROVE PayInv'
  BY <1>13, <1>3, <1>4, <1>5, <1>6, <1>7 DEF Accepting, Settling, Faulty
<1>14. ASSUME Next PROVE PayInv'
  BY <1>14, <1>1, <1>2, <1>8, <1>10, <1>11, <1>13 DEF Next, World
<1> QED  BY <1>10, <1>11, <1>12, <1>14 DEF LongNext

-----------------------------------------------------------------------------
(* What a handler still has to give back or to record.                     *)
Returns(r, y) ==
  \/ At(r, "claim") /\ y \in call[r].coins \ call[r].left
  \/ At(r, "put") /\ y \in call[r].coins
  \/ At(r, "undo") /\ y \in call[r].left

(* Unless something failed, each marker and each claim belongs to an       *)
(* acceptance or to a handler that has the challenge.                      *)
MarksMinded ==
  \A c \in paid : record[c].receipt # "none" \/ \E r \in Handlers : Holding(r) /\ call[r].chal = c
ClaimsMinded ==
  \A y \in Coins : claims[y] # Free =>
    \/ y \in record[claims[y]].coins
    \/ \E r \in Handlers : call[r].chal = claims[y] /\ Returns(r, y)

LossInv == faults = 0 => MarksMinded /\ ClaimsMinded

LEMMA LossStart == Init => LossInv
  BY DEF Init, LossInv, MarksMinded, ClaimsMinded

LEMMA StrandedFollows == LossInv => NothingStranded
  BY DEF LossInv, MarksMinded, ClaimsMinded, Holding, Returns, NothingStranded

(* A handler hands on what it had: to the record, or to nobody.            *)
HandsOn(r) ==
  /\ \A c \in Challenges :
       /\ record[c].coins \subseteq record'[c].coins
       /\ record[c].receipt # "none" => record'[c].receipt # "none"
  /\ \A c \in paid' : c \in paid \/ (Holding(r)' /\ call'[r].chal = c)
  /\ Holding(r) =>
       \/ Holding(r)' /\ call'[r].chal = call[r].chal
       \/ record'[call[r].chal].receipt # "none"
       \/ call[r].chal \notin paid'
  /\ \A y \in Coins : claims'[y] # Free =>
       \/ claims'[y] = claims[y]
       \/ call'[r].chal = claims'[y] /\ Returns(r, y)'
  /\ \A y \in Coins : Returns(r, y) /\ claims'[y] = call[r].chal =>
       \/ call'[r].chal = call[r].chal /\ Returns(r, y)'
       \/ y \in record'[call[r].chal].coins

LEMMA LossStays ==
  ASSUME LInv, LInv', LossInv, NEW r \in Handlers, Others(r), faults' = faults, HandsOn(r)
  PROVE  LossInv'
<1> SUFFICES ASSUME faults = 0 PROVE MarksMinded' /\ ClaimsMinded'
  BY DEF LossInv
<1>0. MarksMinded /\ ClaimsMinded
  BY DEF LossInv
<1>1. ASSUME NEW c \in paid'
      PROVE  record'[c].receipt # "none" \/ \E s \in Handlers : Holding(s)' /\ call'[s].chal = c
  <2>1. c \in Challenges
    BY DEF LInv, TypeInv
  <2>2. CASE c \in paid
    <3>1. CASE record[c].receipt # "none"
      BY <2>1, <3>1 DEF HandsOn
    <3>2. ASSUME NEW s \in Handlers, Holding(s), call[s].chal = c
          PROVE  record'[c].receipt # "none" \/ \E t \in Handlers : Holding(t)' /\ call'[t].chal = c
      BY <3>2 DEF HandsOn, Others, Holding
    <3> QED  BY <1>0, <2>2, <3>1, <3>2 DEF MarksMinded
  <2>3. CASE c \notin paid
    BY <2>3 DEF HandsOn
  <2> QED  BY <2>2, <2>3
<1>2. ASSUME NEW y \in Coins, claims'[y] # Free
      PROVE  \/ y \in record'[claims'[y]].coins
             \/ \E s \in Handlers : call'[s].chal = claims'[y] /\ Returns(s, y)'
  <2>1. claims'[y] \in Challenges
    BY <1>2 DEF LInv, TypeInv
  <2>2. CASE claims'[y] = claims[y]
    <3>1. CASE y \in record[claims[y]].coins
      BY <2>1, <2>2, <3>1 DEF HandsOn
    <3>2. ASSUME NEW s \in Handlers, call[s].chal = claims[y], Returns(s, y)
          PROVE  \/ y \in record'[claims'[y]].coins
                 \/ \E t \in Handlers : call'[t].chal = claims'[y] /\ Returns(t, y)'
      <4>1. CASE s = r
        BY <2>2, <3>2, <4>1 DEF HandsOn
      <4>2. CASE s # r
        BY <2>2, <3>2, <4>2 DEF Others, Returns
      <4> QED  BY <4>1, <4>2
    <3> QED  BY <1>0, <1>2, <2>2, <3>1, <3>2 DEF ClaimsMinded
  <2>3. CASE claims'[y] # claims[y]
    BY <1>2, <2>3 DEF HandsOn
  <2> QED  BY <2>2, <2>3
<1> QED  BY <1>1, <1>2 DEF MarksMinded, ClaimsMinded

LEMMA LossStep ==
  ASSUME LInv, LInv', TypesInv, LossInv, [LongNext]_vars
  PROVE  LossInv'
<1>1. ASSUME NEW r \in Handlers,
             \/ \E c \in Challenges, ys \in SUBSET Coins : Present(r, c, ys)
             \/ \E c \in Challenges : Settle(r, c)
             \/ \E y \in call[r].left : LookUp(r, y)
             \/ SettleRead(r) \/ SwapFails(r) \/ Swap(r) \/ SwapSpent(r)
      PROVE  LossInv'
  <2>1. Others(r) /\ ~Holding(r) /\ UNCHANGED <<record, paid, claims, faults>>
    BY <1>1 DEF Present, Settle, LookUp, SettleRead, SwapFails, Swap, SwapSpent,
       Holding, LInv, TypeInv, Others
  <2>2. HandsOn(r)
    BY <2>1 DEF HandsOn, Holding, Returns
  <2> QED  BY <2>1, <2>2, LossStays
<1>2. ASSUME NEW r \in Handlers, Mark(r) PROVE LossInv'
  <2>1. /\ Others(r) /\ UNCHANGED <<record, claims, faults>> /\ call'[r].chal = call[r].chal
        /\ call[r].at = "mark"
        /\ paid' = paid \/ (call'[r].at = "claim" /\ paid' = paid \cup {call[r].chal})
    BY <1>2 DEF Mark, LInv, TypeInv, Others
  <2>2. HandsOn(r)
    BY <2>1 DEF HandsOn, Holding, Returns
  <2> QED  BY <2>1, <2>2, LossStays
<1>3. ASSUME NEW r \in Handlers, NEW y \in call[r].left, ClaimY(r, y) PROVE LossInv'
  <2>1. /\ Others(r) /\ UNCHANGED <<record, paid, faults>> /\ call'[r].chal = call[r].chal
        /\ call[r].at = "claim" /\ call'[r].coins = call[r].coins
        /\ call'[r].left = call[r].left \ {y}
        /\ call'[r].at = IF call'[r].left = {} THEN "put" ELSE "claim"
        /\ y \in call[r].coins /\ y \in Coins
        /\ \A z \in Coins : claims'[z] = IF z = y THEN call[r].chal ELSE claims[z]
    <3>1. y \in call[r].coins /\ y \in Coins
      BY DEF TypesInv, Shape, LInv, TypeInv
    <3>2. \A z \in Coins : claims'[z] = IF z = y THEN call[r].chal ELSE claims[z]
      BY <1>3, <3>1 DEF ClaimY, LInv, TypeInv
    <3>3. /\ Others(r) /\ call'[r].chal = call[r].chal /\ call'[r].coins = call[r].coins
          /\ call'[r].left = call[r].left \ {y}
          /\ call'[r].at = IF call[r].left \ {y} = {} THEN "put" ELSE "claim"
      BY <1>3 DEF ClaimY, LInv, TypeInv, Others
    <3> QED  BY <1>3, <3>1, <3>2, <3>3 DEF ClaimY
  <2>2. \A z \in Coins : Returns(r, z)' <=> Returns(r, z) \/ z = y
    BY <2>1 DEF Returns
  <2>3. HandsOn(r)
    BY <2>1, <2>2 DEF HandsOn, Holding
  <2> QED  BY <2>1, <2>3, LossStays
<1>4. ASSUME NEW r \in Handlers, NEW y \in call[r].left, LoseY(r, y) PROVE LossInv'
  <2>1. /\ Others(r) /\ UNCHANGED <<record, paid, claims, faults>> /\ call'[r].chal = call[r].chal
        /\ call[r].at = "claim" /\ call'[r].left = call[r].coins \ call[r].left
        /\ call'[r].at = IF call'[r].left = {} THEN "unmark" ELSE "undo"
    BY <1>4 DEF LoseY, Claimed, LInv, TypeInv, Others
  <2>2. \A z \in Coins : Returns(r, z) => Returns(r, z)'
    BY <2>1 DEF Returns
  <2>3. HandsOn(r)
    BY <2>1, <2>2 DEF HandsOn, Holding
  <2> QED  BY <2>1, <2>3, LossStays
<1>5. ASSUME NEW r \in Handlers, NEW y \in call[r].left, Undo(r, y, TRUE) PROVE LossInv'
  <2>1. /\ Others(r) /\ UNCHANGED <<record, paid, faults>> /\ call'[r].chal = call[r].chal
        /\ call[r].at = "undo" /\ call'[r].left = call[r].left \ {y}
        /\ call'[r].at = IF call'[r].left = {} THEN "unmark" ELSE "undo"
        /\ call[r].chal # Free
        /\ \A z \in Coins : claims'[z] = IF z = y THEN Free ELSE claims[z]
    <3>1. call[r].chal # Free
      BY <1>5, AcceptorAssumption DEF Undo, LInv, CallOK
    <3>2. \A z \in Coins : claims'[z] = IF z = y THEN Free ELSE claims[z]
      BY <1>5 DEF Undo, LInv, TypeInv
    <3>3. /\ Others(r) /\ call'[r].chal = call[r].chal /\ call'[r].left = call[r].left \ {y}
          /\ call'[r].at = IF call[r].left \ {y} = {} THEN "unmark" ELSE "undo"
      BY <1>5 DEF Undo, LInv, TypeInv, Others
    <3> QED  BY <1>5, <3>1, <3>2, <3>3 DEF Undo
  <2>2. \A z \in Coins \ {y} : Returns(r, z) => Returns(r, z)'
    BY <2>1 DEF Returns
  <2>3. HandsOn(r)
    BY <2>1, <2>2 DEF HandsOn, Holding
  <2> QED  BY <2>1, <2>3, LossStays
<1>6. ASSUME NEW r \in Handlers, Unmark(r, TRUE) PROVE LossInv'
  <2>1. /\ Others(r) /\ UNCHANGED <<record, claims, faults>> /\ call[r].at = "unmark"
        /\ paid' = paid \ {call[r].chal}
    BY <1>6 DEF Unmark, LInv, TypeInv, Others
  <2>2. HandsOn(r)
    BY <2>1 DEF HandsOn, Holding, Returns
  <2> QED  BY <2>1, <2>2, LossStays
<1>7. ASSUME NEW r \in Handlers, PutAccepted(r) PROVE LossInv'
  <2>1. /\ Others(r) /\ UNCHANGED <<paid, claims, faults>> /\ call[r].at = "put"
        /\ call'[r].chal = call[r].chal /\ call[r].chal \in Challenges
        /\ record[call[r].chal].coins = {}
        /\ record' = [record EXCEPT ![call[r].chal] = Accepted(call[r].coins, "pending")]
    BY <1>7 DEF PutAccepted, LInv, TypeInv, CallOK, Holding, Others
  <2>2. /\ record'[call[r].chal].coins = call[r].coins /\ record'[call[r].chal].receipt = "pending"
        /\ \A c \in Challenges \ {call[r].chal} : record'[c] = record[c]
    BY <2>1 DEF Accepted, LInv, TypeInv
  <2>3. HandsOn(r)
    BY <2>1, <2>2 DEF HandsOn, Holding, Returns
  <2> QED  BY <2>1, <2>3, LossStays
<1>8. ASSUME NEW r \in Handlers, PutSettled(r) \/ PutSpent(r) PROVE LossInv'
  <2>1. /\ Others(r) /\ UNCHANGED <<paid, claims, faults>> /\ call[r].at \in {"settled", "spent"}
        /\ call[r].chal \in Challenges
        /\ record[call[r].chal].coins = call[r].coins
        /\ record' \in {[record EXCEPT ![call[r].chal] = Accepted(call[r].coins, p)] :
                          p \in {"settled", "double-spent"}}
    BY <1>8 DEF PutSettled, PutSpent, PutReceipt, LInv, TypeInv, CallOK, Others
  <2>2. /\ record'[call[r].chal].coins = call[r].coins /\ record'[call[r].chal].receipt # "none"
        /\ \A c \in Challenges \ {call[r].chal} : record'[c] = record[c]
    BY <2>1 DEF Accepted, LInv, TypeInv
  <2>3. HandsOn(r)
    BY <2>1, <2>2 DEF HandsOn, Holding, Returns
  <2> QED  BY <2>1, <2>3, LossStays
<1>9. ASSUME NEW r \in Handlers, Faulty(r) PROVE LossInv'
  BY <1>9 DEF Faulty, Dies, Undo, Unmark, TypesInv, LossInv
<1>10. ASSUME UNCHANGED call, faults' = faults,
              \A c \in Challenges : record'[c].coins = record[c].coins
                                    /\ record'[c].receipt = record[c].receipt,
              paid' \subseteq paid, \A y \in Coins : claims'[y] \in {Free, claims[y]}
       PROVE  LossInv'
  <2>1. faults = 0 /\ MarksMinded => MarksMinded'
    BY <1>10 DEF MarksMinded, Holding, LInv, TypeInv
  <2>2. ASSUME ClaimsMinded, NEW y \in Coins, claims'[y] # Free
        PROVE  \/ y \in record'[claims'[y]].coins
               \/ \E r \in Handlers : call'[r].chal = claims'[y] /\ Returns(r, y)'
    <3>1. claims'[y] = claims[y] /\ claims[y] \in Challenges
      BY <1>10, <2>2 DEF LInv, TypeInv
    <3> QED  BY <1>10, <2>2, <3>1 DEF ClaimsMinded, Returns
  <2> QED  BY <1>10, <2>1, <2>2 DEF LossInv, ClaimsMinded
<1>11. ASSUME NEW c \in Challenges, Lands(c) PROVE LossInv'
  <2>1. \A d \in Challenges : record'[d].coins = record[d].coins
                              /\ record'[d].receipt = record[d].receipt
    BY <1>11 DEF Lands, Open, Absent, LInv, TypeInv, ChalOK
  <2> QED  BY <1>10, <1>11, <2>1 DEF Lands
<1>12. ASSUME NEW c \in Challenges, Expire(c) \/ ForgetPaid(c) PROVE LossInv'
  BY <1>10, <1>12 DEF Expire, ForgetPaid
<1>13. ASSUME NEW y \in Coins, PayerSwaps(y) \/ Lapse(y) \/ ForgetY(y) PROVE LossInv'
  BY <1>10, <1>13 DEF PayerSwaps, Lapse, ForgetY, LInv, TypeInv
<1>14. ASSUME UNCHANGED vars PROVE LossInv'
  BY <1>10, <1>14 DEF vars
<1>15. ASSUME NEW r \in Handlers, Accepting(r) \/ Settling(r) \/ Faulty(r) PROVE LossInv'
  BY <1>15, <1>1, <1>2, <1>3, <1>4, <1>5, <1>6, <1>7, <1>8, <1>9 DEF Accepting, Settling
<1>16. ASSUME Next PROVE LossInv'
  BY <1>16, <1>1, <1>11, <1>12, <1>13, <1>15 DEF Next, World
<1> QED  BY <1>12, <1>13, <1>14, <1>16 DEF LongNext

(* All of it, over any number of steps.                                    *)
LongInv == LInv /\ TypesInv /\ PayInv /\ LossInv

LEMMA LongStart == Init => LongInv
  BY InitInv, TypesStart, PayStart, LossStart DEF LongInv, AInv

LEMMA LongStep == LongInv /\ [LongNext]_vars => LongInv'
<1> SUFFICES ASSUME LongInv, [LongNext]_vars PROVE LongInv'
  OBVIOUS
<1>1. LInv'
  BY Step, Forgetting DEF LongInv, LongNext, Keeps
<1> QED  BY <1>1, TypesStep, PayStep, LossStep DEF LongInv

LEMMA LongFollows == LongInv => TypeOK /\ NothingStranded /\ SuccessIsPaid
  BY TypesFollow, StrandedFollows, SuccessFollows DEF LongInv
=============================================================================
