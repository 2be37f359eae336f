----------------------------- MODULE FileStore -----------------------------
(***************************************************************************)
(* FileProofStore in one process: a cached snapshot, and a JSON file that  *)
(* is replaced by writing a temporary file, syncing it and renaming it.    *)
(* Each caller runs a spend, reserve then commit or release, as withSpend  *)
(* and fetchPaid do, or adds coins.  call[c].at is the await it is at.     *)
(*                                                                         *)
(* The temporary file has one name per process, so two callers may have    *)
(* the same inode open; content is kept per inode.                         *)
(***************************************************************************)
EXTENDS Transitions, FiniteSets

CONSTANTS
  Callers,
  Inodes,
  Serial,     \* whether the agent runs one tool call at a time
  MaxSeq,     \* bound on the number of writes
  MaxCrashes

ASSUME EnoughInodes == Cardinality(Inodes) > Cardinality(Callers) + 1

VARIABLES
  cache, loaded,   \* this.snapshot, this.loaded
  file, tmp,       \* the inodes the two paths name, or "none"
  content,         \* content[i]: a snapshot, nothing yet, or a broken text
  synced,          \* inodes whose content is on the disk
  call,
  used,            \* reservation ids already drawn
  crashes

vars == <<cache, loaded, file, tmp, content, synced, call, used, crashes>>
disk == <<file, tmp, content, synced>>
memory == <<cache, loaded, used, crashes>>

Json(s) == [form |-> "json", snap |-> s]
Blank == [form |-> "blank", snap |-> EMPTY_SNAPSHOT]
Torn == [form |-> "torn", snap |-> EMPTY_SNAPSHOT]

Noop == [kind |-> "add", id |-> "none", coins |-> {}]
Idle == [at |-> "idle", op |-> Noop, next |-> EMPTY_SNAPSHOT, fd |-> "none"]

Init ==
  /\ cache = EMPTY_SNAPSHOT
  /\ loaded = FALSE
  /\ file = "none"
  /\ tmp = "none"
  /\ content = [i \in Inodes |-> Blank]
  /\ synced = {}
  /\ call = [c \in Callers |-> Idle]
  /\ used = {}
  /\ crashes = 0

(* What a read of the file gives; a missing file is an empty wallet.       *)
Stored == IF file = "none" THEN Json(EMPTY_SNAPSHOT) ELSE content[file]

At(c, step) == call[c].at = step
Goto(c, step) == call' = [call EXCEPT ![c].at = step]
Ends(c) == call' = [call EXCEPT ![c] = Idle]

-----------------------------------------------------------------------------
(* A tool call holds the agent from its reservation to its commit.         *)
MayStart(c) == Serial => \A d \in Callers \ {c} : At(d, "idle")

Begin(c, op) ==
  /\ cache.seq < MaxSeq
  /\ call' = [call EXCEPT ![c] = [Idle EXCEPT !.at = IF loaded THEN "apply" ELSE "read",
                                              !.op = op]]
  /\ UNCHANGED <<disk, cache, loaded, crashes>>

BeginAdd(c, ys) ==
  /\ At(c, "idle")
  /\ MayStart(c)
  /\ Begin(c, [Noop EXCEPT !.coins = ys])
  /\ UNCHANGED used

BeginReserve(c, i, ys) ==
  /\ At(c, "idle")
  /\ MayStart(c)
  /\ i \notin used
  /\ used' = used \cup {i}
  /\ Begin(c, [kind |-> "reserve", id |-> i, coins |-> ys])

BeginEnd(c, kind, change) ==
  /\ At(c, "holding")
  /\ Begin(c, [kind |-> kind, id |-> call[c].op.id, coins |-> change])
  /\ UNCHANGED used

(* load, the first time: read and parse, which throws on a broken file.    *)
ReadFile(c) ==
  /\ At(c, "read")
  /\ IF Stored.form = "json"
       THEN call' = [call EXCEPT ![c].at = "loaded", ![c].next = Stored.snap]
       ELSE Ends(c)
  /\ UNCHANGED <<disk, memory>>

Loaded(c) ==
  /\ At(c, "loaded")
  /\ cache' = call[c].next
  /\ loaded' = TRUE
  /\ Goto(c, "apply")
  /\ UNCHANGED <<disk, used, crashes>>

(* The transition, on the cached snapshot; an illegal one throws.          *)
Apply(c) ==
  /\ At(c, "apply")
  /\ IF Legal(cache, call[c].op)
       THEN call' = [call EXCEPT ![c].at = "open", ![c].next = Result(cache, call[c].op)]
       ELSE Ends(c)
  /\ UNCHANGED <<disk, memory>>

-----------------------------------------------------------------------------
(* open(tmp, 'w') truncates the file another caller may be writing.        *)
Open(c) ==
  /\ At(c, "open")
  /\ \E i \in Inodes :
       /\ IF tmp = "none" THEN i # file /\ \A d \in Callers : call[d].fd # i ELSE i = tmp
       /\ tmp' = i
       /\ content' = [content EXCEPT ![i] = Blank]
       /\ synced' = synced \ {i}
       /\ call' = [call EXCEPT ![c].at = "write", ![c].fd = i]
  /\ UNCHANGED <<file, memory>>

(* Writing over a longer text leaves its tail behind.                      *)
Write(c) ==
  /\ At(c, "write")
  /\ \E v \in {Json(call[c].next), Torn} :
       /\ content[call[c].fd] = Blank => v # Torn
       /\ content' = [content EXCEPT ![call[c].fd] = v]
  /\ synced' = synced \ {call[c].fd}
  /\ Goto(c, "sync")
  /\ UNCHANGED <<file, tmp, memory>>

(* Defect: no fsync before the rename.                                     *)
SkipsSync(c) ==
  /\ At(c, "sync")
  /\ Goto(c, "rename")
  /\ UNCHANGED <<disk, memory>>

Sync(c) ==
  /\ At(c, "sync")
  /\ synced' = synced \cup {call[c].fd}
  /\ Goto(c, "rename")
  /\ UNCHANGED <<file, tmp, content, memory>>

(* Renames whatever the temporary path names now; throws if it is gone.    *)
Rename(c) ==
  /\ At(c, "rename")
  /\ IF tmp = "none"
       THEN Ends(c) /\ UNCHANGED file
       ELSE Goto(c, "assign") /\ file' = tmp
  /\ tmp' = "none"
  /\ UNCHANGED <<content, synced, memory>>

Finish(c) ==
  /\ At(c, "assign")
  /\ cache' = call[c].next
  /\ IF call[c].op.kind = "reserve"
       THEN call' = [call EXCEPT ![c] = [Idle EXCEPT !.at = "holding", !.op = call[c].op]]
       ELSE Ends(c)
  /\ UNCHANGED <<disk, loaded, used, crashes>>

(* The process or the machine dies; unsynced content may be lost.  The     *)
(* next process has another pid and so another temporary path.             *)
Crash ==
  /\ crashes < MaxCrashes
  /\ crashes' = crashes + 1
  /\ \E lost \in SUBSET {i \in Inodes \ synced : i = file} :
       content' = [i \in Inodes |-> IF i \in lost THEN Torn ELSE content[i]]
  /\ cache' = EMPTY_SNAPSHOT
  /\ loaded' = FALSE
  /\ tmp' = "none"
  /\ call' = [c \in Callers |-> Idle]
  /\ UNCHANGED <<file, synced, used>>

Next ==
  \/ \E c \in Callers :
       \/ \E ys \in SUBSET Coins :
            \/ BeginAdd(c, ys)
            \/ \E i \in Ids : BeginReserve(c, i, ys)
            \/ BeginEnd(c, "commit", ys)
       \/ BeginEnd(c, "release", {})
       \/ ReadFile(c) \/ Loaded(c) \/ Apply(c)
       \/ Open(c) \/ Write(c) \/ Sync(c) \/ Rename(c) \/ Finish(c)
  \/ Crash

Spec == Init /\ [][Next]_vars

-----------------------------------------------------------------------------
(* Every snapshot in the process and on the disk is one in which a coin is *)
(* spendable or in one reservation, never both.                            *)
IsWallet(s) == s.seq \in Nat /\ s.free \subseteq Coins /\ s.live \subseteq Ids /\ Partition(s)

TypeOK ==
  /\ IsWallet(cache)
  /\ {file, tmp} \subseteq Inodes \cup {"none"}
  /\ \A i \in Inodes : content[i].form \in {"json", "blank", "torn"} /\ IsWallet(content[i].snap)
  /\ synced \subseteq Inodes
  /\ \A c \in Callers :
       /\ call[c].op \in Operations
       /\ IsWallet(call[c].next)
       /\ call[c].at \in {"write", "sync", "rename"} => call[c].fd \in Inodes

(* With one tool call at a time, the file behaves as one atomic snapshot,  *)
(* through crashes between any two system calls: a crash leaves the        *)
(* previous snapshot or the next one, never a broken file.                 *)
Store == INSTANCE ProofStore WITH wallet <- Stored.snap
AtomicStore == Store!Spec /\ [](Stored.form = "json")

(* Coins are handed to a mint or a merchant only while the file records    *)
(* them as reserved ("persist that BEFORE the caller hands them to a mint  *)
(* or merchant"), so a crash cannot make them look spendable.              *)
HeldIsRecorded ==
  \A c \in Callers : At(c, "holding") =>
    /\ call[c].op.id \in Stored.snap.live
    /\ Stored.snap.held[call[c].op.id] = call[c].op.coins

(* reserve "throws if any proof is not currently spendable": two spends    *)
(* never hold the same coin.                                               *)
ReservedOnce ==
  \A c, d \in Callers :
    c # d /\ At(c, "holding") /\ At(d, "holding") =>
      call[c].op.coins \cap call[d].op.coins = {}
=============================================================================
