------------------------------ MODULE P2pkLock ------------------------------
(***************************************************************************)
(* A coin locked to keys (PIP-08).  The payer's conditions become tags in  *)
(* the coin's secret; the token goes from hand to hand, each signer adding *)
(* to its witness; a claim takes the witness as it is then and is judged   *)
(* first by the claimant's wallet and then, later, by the mint.            *)
(*                                                                         *)
(* A compressed key is an x coordinate, here the party that owns it, and   *)
(* the parity of y.  A lock made from an npub has x only and is written    *)
(* with even parity.  Signatures are verified against x alone.             *)
(***************************************************************************)
EXTENDS Integers, FiniteSets

CONSTANTS
  Parties,
  Odd,       \* parties whose public key has an odd y
  Offers,    \* conditions a payer may ask for:
             \* [data, pubkeys, refund, nSigs, locktime, npub]; locktime 0 is none
  MaxTime    \* bound on the clock

VARIABLES
  now,
  asked,     \* the conditions the payer asked for
  secret,    \* the coin's secret: its lock key and its tags
  token,     \* its witness: the signatures, and who meant to sign
  claim,     \* claim[p]: p's claim and the signatures it was sent with
  spent,
  ruled      \* the last judgement: who had signed, when, with what outcome

vars == <<now, asked, secret, token, claim, spent, ruled>>

Key(p, npub) == [x |-> p, odd |-> ~npub /\ p \in Odd]
Keys(ps, npub) == {Key(p, npub) : p \in ps}
AllKeys == [x : Parties, odd : BOOLEAN]
NoClaim == [at |-> "none", sigs |-> {}, signers |-> {}]
Unruled == [at |-> 0]

TypeOK ==
  /\ now \in 0..MaxTime
  /\ asked \in Offers
  /\ secret.data \in AllKeys
  /\ token \in [sigs : SUBSET Parties, signers : SUBSET Parties]
  /\ claim \in [Parties -> [at : {"none", "sent", "refused", "won", "lost"},
                          sigs : SUBSET Parties, signers : SUBSET Parties]]
  /\ spent \in BOOLEAN
  /\ ruled \in [signers : SUBSET Parties, at : Nat, ok : BOOLEAN] \cup {Unruled}
-----------------------------------------------------------------------------
(* p2pkSecretHex: a tag is written when its value is not the default, and  *)
(* more signatures than keys are not written at all.                       *)
Default == [locktime |-> 0, refund |-> {}, pubkeys |-> {}, nSigs |-> 1]

Buildable(o) == o.nSigs \in 1..(1 + Cardinality(o.pubkeys))

Build(o) ==
  LET wish == [locktime |-> o.locktime, refund |-> Keys(o.refund, o.npub),
               pubkeys |-> Keys(o.pubkeys, o.npub), nSigs |-> o.nSigs]
  IN [data |-> Key(o.data, o.npub),
      tags |-> [name \in {n \in DOMAIN Default : wish[n] # Default[n]} |-> wish[name]]]

(* parseP2pkSecret: an absent tag leaves the default.                      *)
Conditions(s) ==
  [name \in DOMAIN Default |-> IF name \in DOMAIN s.tags THEN s.tags[name] ELSE Default[name]]

Malformed(s) ==
  Conditions(s).nSigs < 1 \/ Conditions(s).nSigs > 1 + Cardinality(Conditions(s).pubkeys)

LockKeys(s) == {s.data} \cup Conditions(s).pubkeys
Locks(s) == LockKeys(s) \cup Conditions(s).refund

(* verifyP2pkSpend: the lock keys until the locktime, the refund keys from *)
(* then on, anybody when there are none.                                   *)
Verifies(sig, key) == sig = key.x

Verdict(s, sigs, time) ==
  LET c == Conditions(s)
      signed == {k \in LockKeys(s) : \E sig \in sigs : Verifies(sig, k)}
  IN /\ ~Malformed(s)
     /\ IF c.locktime = 0 \/ time < c.locktime
        THEN Cardinality(signed) >= c.nSigs
        ELSE c.refund # {} => \E k \in c.refund, sig \in sigs : Verifies(sig, k)
-----------------------------------------------------------------------------
(* The SDK does not write what it would not read; another wallet may.      *)
Init ==
  /\ now = 0
  /\ asked \in Offers
  /\ secret = Build(asked)
  /\ token = [sigs |-> {}, signers |-> {}]
  /\ claim = [p \in Parties |-> NoClaim]
  /\ spent = FALSE
  /\ ruled = Unruled

Tick ==
  /\ now < MaxTime
  /\ now' = now + 1
  /\ UNCHANGED <<asked, secret, token, claim, spent, ruled>>

(* Defect: the signer compares whole keys.                                 *)
WholeKey(p) == Key(p, FALSE) \in Locks(secret)

(* signerFromNsec compares x only.                                         *)
Relevant(p) == \E k \in Locks(secret) : k.x = p

SignAsNostr(p) ==
  /\ p \notin token.signers
  /\ token' = [sigs |-> token.sigs \cup {q \in {p} : Relevant(q)},
                signers |-> token.signers \cup {p}]
  /\ UNCHANGED <<now, asked, secret, claim, spent, ruled>>

Rules(signers, ok) == ruled' = [signers |-> signers, at |-> now, ok |-> ok]

(* receive signs with signProofs when it is given a key, which compares    *)
(* whole keys and is for locks made from such; what the wallet itself      *)
(* judges locked is not sent to the mint.                                  *)
Receive(p, unlock) ==
  LET sigs == token.sigs \cup {q \in {p} : unlock /\ Key(q, FALSE) \in Locks(secret)}
      signers == token.signers \cup {q \in {p} : unlock}
      ok == Verdict(secret, sigs, now)
  IN
  /\ claim[p].at \in {"none", "refused"}
  /\ unlock => ~asked.npub
  /\ claim' = [claim EXCEPT ![p] = [at |-> IF ok THEN "sent" ELSE "refused",
                                   sigs |-> sigs, signers |-> signers]]
  /\ Rules(signers, ok)
  /\ UNCHANGED <<now, asked, secret, token, spent>>

(* Defect: the mint takes the wallet's word.                               *)
BelievesWallet(p) ==
  /\ claim[p].at = "sent"
  /\ claim' = [claim EXCEPT ![p].at = IF spent THEN "lost" ELSE "won"]
  /\ Rules(claim[p].signers, TRUE)
  /\ spent' = TRUE
  /\ UNCHANGED <<now, asked, secret, token>>

(* verifyInputs judges again when the request arrives; then the coin is    *)
(* spent, once.                                                            *)
Judge(p) ==
  LET ok == Verdict(secret, claim[p].sigs, now) IN
  /\ claim[p].at = "sent"
  /\ claim' = [claim EXCEPT ![p].at = IF ~ok THEN "refused" ELSE IF spent THEN "lost" ELSE "won"]
  /\ spent' = (spent \/ ok)
  /\ Rules(claim[p].signers, ok)
  /\ UNCHANGED <<now, asked, secret, token>>

Next ==
  \/ Tick
  \/ \E p \in Parties :
       \/ SignAsNostr(p) \/ Judge(p)
       \/ \E unlock \in BOOLEAN : Receive(p, unlock)

Spec == Init /\ [][Next]_vars
-----------------------------------------------------------------------------
(* The payer's conditions as people, not keys: before the locktime so many *)
(* of the named parties, afterwards one of those to refund, or anybody.    *)
Opens(o, signers, time) ==
  /\ Buildable(o)
  /\ IF o.locktime = 0 \/ time < o.locktime
     THEN Cardinality(signers \cap ({o.data} \cup o.pubkeys)) >= o.nSigs
     ELSE o.refund = {} \/ signers \cap o.refund # {}

(* Every judgement on a claim, the wallet's and the mint's, is the one the *)
(* payer asked for, of the parties who signed and at the time it is made:  *)
(* however the token travelled, whichever parity the keys have, and        *)
(* wherever the locktime falls between signing, claiming and swapping      *)
(* (p2pk.ts:169-197, nostr.ts:11-18, signing.ts:30).                       *)
OpensAsAsked ==
  ruled # Unruled => (ruled.ok <=> Opens(asked, ruled.signers, ruled.at))
=============================================================================
