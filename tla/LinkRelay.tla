----------------------------- MODULE LinkRelay -----------------------------
(***************************************************************************)
(* Token links: the sender encrypts a token and uploads it to the mint's   *)
(* relay, which hands the blob to whoever fetches it first and forgets it. *)
(* An upload purges what expired before it inserts.  A link carries the    *)
(* blob's id and, in its fragment, the key, which a reader may mistype.    *)
(* Ids are random; a token is named by the id of its link.                 *)
(***************************************************************************)
EXTENDS Integers

CONSTANTS
  Links,    \* ids
  Readers,  \* calls of resolveTokenLink
  Nothing,
  Ttl,      \* life of a blob (relay.ttlSeconds)
  MaxTime   \* bound on the clock

VARIABLES
  now,
  stored,   \* rows of relay_blobs
  due,      \* due[l]: its expires_at
  upload,   \* upload[l]: the await of the upload that drew l
  read,     \* read[r]: the await of a reader, its link, whether its key is right
  handed    \* handed[l]: how many answers carried the blob

vars == <<now, stored, due, upload, read, handed>>

Unread == [at |-> "idle", link |-> Nothing, right |-> TRUE]

TypeOK ==
  /\ now \in Nat
  /\ stored \subseteq Links
  /\ due \in [Links -> Nat]
  /\ upload \in [Links -> {"new", "purge", "insert", "shared", "failed"}]
  /\ read \in [Readers -> [at : {"idle", "take", "check", "decrypt", "has", "lost", "refused"},
                           link : Links \cup {Nothing}, right : BOOLEAN]]
  /\ handed \in [Links -> Nat]

Init ==
  /\ now = 0
  /\ stored = {}
  /\ due = [l \in Links |-> 0]
  /\ upload = [l \in Links |-> "new"]
  /\ read = [r \in Readers |-> Unread]
  /\ handed = [l \in Links |-> 0]

Tick ==
  /\ now < MaxTime
  /\ now' = now + 1
  /\ UNCHANGED <<stored, due, upload, read, handed>>

(* createTokenLink posts the ciphertext; the relay draws the id and takes  *)
(* the time before it touches the table.                                   *)
Post(l) ==
  /\ upload[l] = "new"
  /\ upload' = [upload EXCEPT ![l] = "purge"]
  /\ due' = [due EXCEPT ![l] = now + Ttl]
  /\ UNCHANGED <<now, stored, read, handed>>

(* DELETE ... WHERE expires_at < now: whatever expired, of any upload.     *)
Expired(l) == due[l] < now

Purge(l) ==
  /\ upload[l] = "purge"
  /\ upload' = [upload EXCEPT ![l] = "insert"]
  /\ stored' = {k \in stored : ~Expired(k)}
  /\ UNCHANGED <<now, due, read, handed>>

Insert(l) ==
  /\ upload[l] = "insert"
  /\ upload' = [upload EXCEPT ![l] = "shared"]
  /\ stored' = stored \cup {l}
  /\ UNCHANGED <<now, due, read, handed>>

UploadFails(l) ==
  /\ upload[l] \in {"purge", "insert"}
  /\ upload' = [upload EXCEPT ![l] = "failed"]
  /\ UNCHANGED <<now, stored, due, read, handed>>

Reaches(r, at) == read' = [read EXCEPT ![r].at = at]

(* parseTokenLink and the request; several readers may have one link.      *)
Open(r, l, right) ==
  /\ read[r].at = "idle" /\ upload[l] = "shared"
  /\ read' = [read EXCEPT ![r] = [at |-> "take", link |-> l, right |-> right]]
  /\ UNCHANGED <<now, stored, due, upload, handed>>

(* Defect: the blob is read and not burned.                                *)
TakeAndLeave(r) ==
  /\ read[r].at = "take"
  /\ Reaches(r, IF read[r].link \in stored THEN "check" ELSE "refused")
  /\ UNCHANGED <<now, stored, due, upload, handed>>

(* DELETE ... RETURNING: one statement reads and burns the blob.           *)
Take(r) ==
  LET l == read[r].link IN
  /\ read[r].at = "take"
  /\ stored' = stored \ {l}
  /\ Reaches(r, IF l \in stored THEN "check" ELSE "refused")
  /\ UNCHANGED <<now, due, upload, handed>>

(* What expired in the meantime is burned but not handed out.              *)
Hand(r) ==
  LET l == read[r].link IN
  /\ read[r].at = "check"
  /\ IF Expired(l)
     THEN Reaches(r, "lost") /\ UNCHANGED handed
     ELSE Reaches(r, "decrypt") /\ handed' = [handed EXCEPT ![l] = @ + 1]
  /\ UNCHANGED <<now, stored, due, upload>>

(* The answer does not arrive.                                             *)
HandFails(r) ==
  /\ read[r].at = "check"
  /\ Reaches(r, "lost")
  /\ UNCHANGED <<now, stored, due, upload, handed>>

(* decryptToken: a wrong key fails authentication.                         *)
Decrypt(r) ==
  /\ read[r].at = "decrypt"
  /\ Reaches(r, IF read[r].right THEN "has" ELSE "lost")
  /\ UNCHANGED <<now, stored, due, upload, handed>>

Next ==
  \/ Tick
  \/ \E l \in Links : Post(l) \/ Purge(l) \/ Insert(l) \/ UploadFails(l)
  \/ \E r \in Readers :
       \/ \E l \in Links, right \in BOOLEAN : Open(r, l, right)
       \/ Take(r) \/ Hand(r) \/ HandFails(r) \/ Decrypt(r)

Spec == Init /\ [][Next]_vars

(* The readers that took the blob of a link.                               *)
Took(l) == {r \in Readers : read[r].link = l /\ read[r].at \in {"check", "decrypt", "has", "lost"}}

(* A blob is handed out at most once and not after its time, and it does   *)
(* not disappear earlier for any other reason: before it expires, a link   *)
(* that was shared is there or was taken by one reader, also when readers  *)
(* race each other, the clock and the purge of an upload                   *)
(* (routes/relay.ts:45-66).                                                *)
LinkReadOnce ==
  [][\A l \in Links :
       /\ handed'[l] # handed[l] => handed[l] = 0 /\ ~Expired(l)
       /\ upload'[l] = "shared" /\ l \notin stored' => Expired(l)' \/ Took(l)' # {}
       /\ \A q, r \in Took(l)' : q = r]_vars
=============================================================================
