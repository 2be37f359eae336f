----------------------------- MODULE QuoteGate -----------------------------
(***************************************************************************)
(* The vault closes deposits while its attestation is overdue or it is in  *)
(* emergency mode, but cannot intercept plain transfers, so the mint has   *)
(* to refuse quotes meanwhile.  TempoVault.isPublicationOverdue answers    *)
(* from two reads of the chain and keeps the answer for a while.           *)
(*                                                                         *)
(* Time is in steps of half the cache's 30 s; a call of the chain takes    *)
(* less than one step.                                                     *)
(***************************************************************************)
EXTENDS Integers

CONSTANTS Requests,   \* quote requests
          Interval,   \* steps after which an attestation is overdue
          MaxTime     \* bound on the clock

VARIABLES
  now,
  published,  \* when the vault was attested last
  tripped,    \* when emergency mode began, Never before
  cache,      \* overdueCache: value, time, and whether the second read failed
  call,       \* call[r]: the await of a request, what it read and when
  accepted    \* the requests that got a quote in this step

vars == <<now, published, tripped, cache, call, accepted>>

Never == -1
Ttl   == 2
Quiet == [at |-> "idle", overdue |-> FALSE, since |-> 0]
Empty == [value |-> FALSE, at |-> Never, blind |-> FALSE]

Overdue   == now - published > Interval
Emergency == tripped # Never
(* Defect: an answer is remembered for ever.                               *)
FreshForever == cache.at # Never

Fresh     == cache.at # Never /\ now - cache.at < Ttl

TypeOK ==
  /\ now \in Nat /\ published \in Nat /\ tripped \in Nat \cup {Never}
  /\ cache \in [value : BOOLEAN, at : Nat \cup {Never}, blind : BOOLEAN]
  /\ call \in [Requests -> [at : {"idle", "overdue", "emergency"}, overdue : BOOLEAN, since : Nat]]
  /\ accepted \subseteq Requests

Init ==
  /\ now = 0 /\ published = 0 /\ tripped = Never
  /\ cache = Empty
  /\ call = [r \in Requests |-> Quiet]
  /\ accepted = {}

(* A call that has begun is answered within a step of the clock.           *)
Tick ==
  /\ now < MaxTime
  /\ \A r \in Requests : call[r].at # "idle" => call[r].since = now
  /\ now' = now + 1
  /\ accepted' = {}
  /\ UNCHANGED <<published, tripped, cache, call>>

Attest ==
  /\ published' = now
  /\ accepted' = {}
  /\ UNCHANGED <<now, tripped, cache, call>>

Trip ==
  /\ tripped = Never
  /\ tripped' = now
  /\ accepted' = {}
  /\ UNCHANGED <<now, published, cache, call>>

Answer(r, overdue) == accepted' = IF overdue THEN {} ELSE {r}

(* POST /v1/mint/quote asks: a fresh answer is used again.                 *)
Ask(r) ==
  /\ call[r].at = "idle"
  /\ IF Fresh
     THEN /\ Answer(r, cache.value)
          /\ UNCHANGED call
     ELSE /\ call' = [call EXCEPT ![r] = [Quiet EXCEPT !.at = "overdue", !.since = now]]
          /\ accepted' = {}
  /\ UNCHANGED <<now, published, tripped, cache>>

(* The vault's isPublicationOverdue.                                       *)
ReadOverdue(r) ==
  /\ call[r].at = "overdue"
  /\ call' = [call EXCEPT ![r].at = "emergency", ![r].overdue = Overdue]
  /\ accepted' = {}
  /\ UNCHANGED <<now, published, tripped, cache>>

(* Its emergencyMode; an error counts as "no", as a v1 vault has no view.  *)
(* The answer is stored with the time at which both reads are done.        *)
ReadEmergency(r, failed) ==
  /\ call[r].at = "emergency"
  /\ LET value == call[r].overdue \/ (Emergency /\ ~failed) IN
       /\ cache' = [value |-> value, at |-> now, blind |-> failed]
       /\ Answer(r, value)
  /\ call' = [call EXCEPT ![r] = Quiet]
  /\ UNCHANGED <<now, published, tripped>>

(* The first read fails: the request is answered with an error.            *)
AskFails(r) ==
  /\ call[r].at = "overdue"
  /\ call' = [call EXCEPT ![r] = Quiet]
  /\ accepted' = {}
  /\ UNCHANGED <<now, published, tripped, cache>>

Next ==
  \/ Tick \/ Attest \/ Trip
  \/ \E r \in Requests :
       \/ Ask(r) \/ ReadOverdue(r) \/ AskFails(r)
       \/ \E failed \in BOOLEAN : ReadEmergency(r, failed)

Spec == Init /\ [][Next]_vars

(* No quote is handed out once the vault has been overdue for longer than  *)
(* an answer is remembered and a read takes; the same holds in emergency   *)
(* mode, unless the read of that mode failed, which counts as "no"         *)
(* (vault-tempo.ts:213-234, routes/mint.ts:82).                            *)
QuotesStop ==
  accepted # {} =>
    /\ now - published <= Interval + Ttl
    /\ Emergency => now - tripped < Ttl + 1 \/ cache.blind
=============================================================================
