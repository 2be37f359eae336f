----------------------------- MODULE NostrRelay -----------------------------
(***************************************************************************)
(* The relay client under the Engram store: one Relay object, used by      *)
(* concurrent publishes and queries, that opens a new socket when the one  *)
(* it has is not open, answers the relay's AUTH challenge, and repeats a   *)
(* refused call once after the handshake.  Sockets are numbered; frames    *)
(* travel in order on each of them.  The relay serves authenticated        *)
(* connections only and accepts the key.                                   *)
(***************************************************************************)
EXTENDS Naturals, Sequences

CONSTANTS
  Calls,     \* publish and query calls, each made once
  MaxSocks   \* bound on the sockets that are opened

VARIABLES
  ws,       \* this.ws: the newest socket, 0 for none
  sock,     \* sock[s]: its state, with whether the relay has asked for AUTH
  authed,   \* the sockets the relay takes as authenticated
  up, down, \* frames on their way to the relay, to the client
  auth,     \* authState
  pending,  \* pendingOk and subs: calls and AUTH events that await an answer
  waiters,  \* authWaiters
  call      \* call[c]: its await, the socket it connects, whether it was repeated

vars == <<ws, sock, authed, up, down, auth, pending, waiters, call>>
net  == <<sock, authed, up, down>>

Socks    == 1..MaxSocks
Hello(s) == [kind |-> "AUTH", of |-> s]      \* a challenge, the answer to one
Frame(c) == [kind |-> "call", of |-> c]
Reply(f, ok) == [kind |-> f.kind, of |-> f.of, ok |-> ok]
Challenge(s) == [kind |-> "challenge", of |-> s, ok |-> TRUE]

TypeOK ==
  /\ ws \in 0..MaxSocks
  /\ sock \in [Socks -> {"none", "connecting", "open", "closing", "closed"}]
  /\ authed \subseteq Socks
  /\ auth \in {"none", "pending", "done"}
  /\ pending \subseteq {Frame(c) : c \in Calls} \cup {Hello(s) : s \in Socks}
  /\ waiters \subseteq Calls
  /\ call \in [Calls -> [at : {"idle", "connect", "ready", "sent", "auth", "done", "failed", "refused"},
                         on : 0..MaxSocks, again : BOOLEAN]]

Init ==
  /\ ws = 0
  /\ sock = [s \in Socks |-> "none"]
  /\ authed = {}
  /\ up = [s \in Socks |-> <<>>] /\ down = [s \in Socks |-> <<>>]
  /\ auth = "none"
  /\ pending = {} /\ waiters = {}
  /\ call = [c \in Calls |-> [at |-> "idle", on |-> 0, again |-> FALSE]]

Open == ws # 0 /\ sock[ws] = "open"
Move(cs, at) == call' = [c \in Calls |-> IF c \in cs THEN [call[c] EXCEPT !.at = at] ELSE call[c]]
At(at) == {c \in Calls : call[c].at = at}
-----------------------------------------------------------------------------
(* connect(): another socket unless the newest is open.                    *)
Connect(c) ==
  /\ call[c].at = "idle"
  /\ IF Open
     THEN Move({c}, "ready") /\ UNCHANGED <<ws, net>>
     ELSE /\ ws < MaxSocks
          /\ ws' = ws + 1
          /\ sock' = [sock EXCEPT ![ws + 1] = "connecting"]
          /\ call' = [call EXCEPT ![c] = [at |-> "connect", on |-> ws + 1, again |-> FALSE]]
          /\ UNCHANGED <<authed, up, down>>
  /\ UNCHANGED <<auth, pending, waiters>>

(* The relay may send its challenge at once, or only when it refuses.      *)
SocketOpens(s, asks) ==
  /\ sock[s] = "connecting"
  /\ sock' = [sock EXCEPT ![s] = "open"]
  /\ down' = [down EXCEPT ![s] = IF asks THEN <<Challenge(s)>> ELSE <<>>]
  /\ Move({c \in At("connect") : call[c].on = s}, "ready")
  /\ UNCHANGED <<ws, authed, up, auth, pending, waiters>>

(* attempt and run: register the answer's handler, send the frame.         *)
Attempt(c) ==
  /\ call[c].at = "ready"
  /\ IF Open
     THEN /\ up' = [up EXCEPT ![ws] = Append(@, Frame(c))]
          /\ pending' = pending \cup {Frame(c)}
          /\ Move({c}, "sent")
     ELSE /\ Move({c}, "failed")
          /\ UNCHANGED <<up, pending>>
  /\ UNCHANGED <<ws, sock, authed, down, auth, waiters>>

(* A socket leaves the open state some time before its close event, which  *)
(* ends whatever is pending, on any socket.                                *)
Closing(s) ==
  /\ sock[s] = "open"
  /\ sock' = [sock EXCEPT ![s] = "closing"]
  /\ up' = [up EXCEPT ![s] = <<>>] /\ down' = [down EXCEPT ![s] = <<>>]
  /\ UNCHANGED <<ws, authed, auth, pending, waiters, call>>

Closed(s) ==
  /\ sock[s] \in {"connecting", "closing"}
  /\ sock' = [sock EXCEPT ![s] = "closed"]
  /\ pending' = {}
  /\ auth' = IF \E t \in Socks : Hello(t) \in pending THEN "none" ELSE auth
  /\ Move(At("sent") \cup {c \in At("connect") : call[c].on = s}, "failed")
  /\ UNCHANGED <<ws, authed, up, down, waiters>>

(* The relay: it takes an AUTH event for its own challenge of that socket. *)
RelayTakes(s) ==
  LET f == Head(up[s]) IN
  /\ sock[s] = "open" /\ up[s] # <<>>
  /\ up' = [up EXCEPT ![s] = Tail(@)]
  /\ IF f.kind = "AUTH"
     THEN /\ authed' = IF f.of = s THEN authed \cup {s} ELSE authed
          /\ down' = [down EXCEPT ![s] = Append(@, Reply(f, f.of = s))]
     ELSE /\ UNCHANGED authed
          /\ \E asks \in BOOLEAN :
               /\ asks => s \notin authed
               /\ down' = [down EXCEPT ![s] = (@ \o <<Reply(f, s \in authed)>>)
                                                 \o (IF asks THEN <<Challenge(s)>> ELSE <<>>)]
  /\ UNCHANGED <<ws, sock, auth, pending, waiters, call>>

(* handleAuthChallenge: not again once the state is done.                  *)
AnswersChallenge == auth # "done"

HandleAuthChallenge(s) ==
  IF AnswersChallenge
  THEN /\ auth' = "pending"
       /\ pending' = pending \cup {Hello(s)}
       /\ up' = IF Open THEN [up EXCEPT ![ws] = Append(@, Hello(s))] ELSE up
       /\ UNCHANGED <<waiters, call>>
  ELSE UNCHANGED <<auth, pending, up, waiters, call>>

(* The handshake's answer: those that wait for it repeat their call.       *)
AuthAnswered(m) ==
  /\ pending' = pending \ {Hello(m.of)}
  /\ auth' = IF m.ok THEN "done" ELSE "none"
  /\ waiters' = IF m.ok THEN {} ELSE waiters
  /\ IF m.ok THEN Move(waiters \cap At("auth"), "ready") ELSE UNCHANGED call
  /\ UNCHANGED up

(* Defect: the call is repeated without waiting for the handshake.         *)
RetriesAtOnce(c) ==
  /\ IF call[c].again THEN Move({c}, "refused")
     ELSE call' = [call EXCEPT ![c].again = TRUE, ![c].at = "ready"]
  /\ UNCHANGED waiters

(* waitForAuth after the first refusal; the second is final.               *)
Refused(c) ==
  IF call[c].again
  THEN Move({c}, "refused") /\ UNCHANGED waiters
  ELSE /\ call' = [call EXCEPT ![c].again = TRUE,
                               ![c].at = IF auth = "done" THEN "ready" ELSE "auth"]
       /\ waiters' = IF auth = "done" THEN waiters ELSE waiters \cup {c}

CallAnswered(m) ==
  /\ pending' = pending \ {Frame(m.of)}
  /\ IF m.ok THEN Move({m.of}, "done") /\ UNCHANGED waiters ELSE Refused(m.of)
  /\ UNCHANGED <<up, auth>>

OnMessage(s) ==
  LET m == Head(down[s])
      f == [kind |-> m.kind, of |-> m.of]
  IN
  /\ sock[s] = "open" /\ down[s] # <<>>
  /\ down' = [down EXCEPT ![s] = Tail(@)]
  /\ CASE m.kind = "challenge" -> HandleAuthChallenge(s)
       [] m.kind = "AUTH" /\ f \in pending -> AuthAnswered(m)
       [] m.kind = "call" /\ f \in pending -> CallAnswered(m)
       [] OTHER -> UNCHANGED <<up, auth, pending, waiters, call>>
  /\ UNCHANGED <<ws, sock, authed>>

(* The timers of connect, awaitOk, waitForAuth and query.                  *)
TimesOut(c) ==
  /\ call[c].at \in {"connect", "sent", "auth"}
  /\ pending' = pending \ {Frame(c)}
  /\ Move({c}, "failed")
  /\ UNCHANGED <<ws, net, auth, waiters>>

AuthTimesOut(s) ==
  /\ Hello(s) \in pending
  /\ pending' = pending \ {Hello(s)}
  /\ auth' = "none"
  /\ UNCHANGED <<ws, net, waiters, call>>

Next ==
  \/ \E c \in Calls : Connect(c) \/ Attempt(c) \/ TimesOut(c)
  \/ \E s \in Socks :
       \/ \E asks \in BOOLEAN : SocketOpens(s, asks)
       \/ Closing(s) \/ Closed(s) \/ RelayTakes(s) \/ OnMessage(s) \/ AuthTimesOut(s)

Spec == Init /\ [][Next]_vars

(* A call the relay refuses is repeated after the handshake and then       *)
(* served (relay.ts:6-8, 187-194), whatever overlaps: calls that are       *)
(* refused before the challenge arrives, lost answers, late timers.  As    *)
(* long as the client has opened one socket, nothing is refused twice.     *)
HandshakeHelps == At("refused") # {} => ws > 1

(* The same with a connection that was lost and opened again.              *)
RetriedAfterHandshake == At("refused") = {}
=============================================================================
