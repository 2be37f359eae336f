---------------------------- MODULE WalletProofs ----------------------------
(***************************************************************************)
(* For every number of coins, reservations, inodes and tool calls: the     *)
(* file store of an agent that runs one tool call at a time is an atomic   *)
(* wallet through crashes between any two system calls, and the wallet     *)
(* service over a store neither loses a coin silently nor offers one it    *)
(* paid with, however a spend fails or dies.                               *)
(*                                                                         *)
(* The argument about the file (FileInv): only one call is under way, so   *)
(* what it applies its operation to is what the file holds, and the inode  *)
(* it writes is not the one the file names until it is whole and synced.   *)
(* The argument about the service (WalletInv): the coins of the running    *)
(* call are its reservation's until the mint swapped them, then the rest   *)
(* and the change it holds, and none of either was handed out.             *)
(* At the end, what StoreProofs shows of the store on a relay and          *)
(* AcceptorProofs of the acceptor, as theorems about the four together.    *)
(***************************************************************************)
EXTENDS Stores, TransitionsProofs

Steps == {"idle", "holding", "read", "loaded", "apply", "open", "write", "sync",
          "rename", "assign"}
Texts == [form : {"json", "blank", "torn"}, snap : Snapshots]
Calls == [at : Steps, op : Operations, next : Snapshots, fd : Inodes \cup {"none"}]

FileTypes ==
  /\ cache \in Snapshots /\ loaded \in BOOLEAN
  /\ file \in Inodes \cup {"none"} /\ tmp \in Inodes \cup {"none"}
  /\ content \in [Inodes -> Texts]
  /\ synced \subseteq Inodes
  /\ call \in [Callers -> Calls]

Partitions ==
  /\ Partition(cache)
  /\ \A i \in Inodes : Partition(content[i].snap)
  /\ \A c \in Callers : Partition(call[c].next)

(* One tool call is under way, from its first operation to its last.       *)
OneCall == \A c, d \in Callers : c # d => At(c, "idle") \/ At(d, "idle")

(* What the file names is whole and on the disk.                           *)
OnDisk == file # "none" => content[file].form = "json" /\ file \in synced /\ tmp # file

(* The cache is the file, but for the moment after a rename.               *)
Cached == loaded => cache = Stored.snap \/ \E c \in Callers : At(c, "assign")

Recorded(op) == op.id \in Stored.snap.live /\ Stored.snap.held[op.id] = op.coins

CallOK(c) ==
  /\ At(c, "loaded") => call[c].next = Stored.snap
  /\ call[c].at \in Steps \ {"idle", "read", "loaded"} => loaded
  /\ call[c].at \in {"open", "write", "sync", "rename"} =>
       /\ Legal(Stored.snap, call[c].op)
       /\ call[c].next = Result(Stored.snap, call[c].op)
  /\ call[c].at \in {"write", "sync", "rename"} => call[c].fd = tmp /\ tmp # "none"
  /\ At(c, "write") => content[tmp] = Blank
  /\ call[c].at \in {"sync", "rename"} => content[tmp] = Json(call[c].next)
  /\ At(c, "rename") => tmp \in synced
  /\ At(c, "assign") =>
       /\ call[c].next = Stored.snap
       /\ call[c].op.kind = "reserve" => Recorded(call[c].op)
  /\ At(c, "holding") => call[c].op.kind = "reserve" /\ Recorded(call[c].op)

FileInv ==
  FileTypes /\ Partitions /\ OneCall /\ OnDisk /\ Cached /\ \A c \in Callers : CallOK(c)

-----------------------------------------------------------------------------
(* The constants of the file store.                                        *)
LEMMA FileConstants ==
  /\ Blank \in Texts /\ Torn \in Texts
  /\ Partition(Blank.snap) /\ Partition(Torn.snap)
  /\ Torn # Blank
  /\ Noop \in Operations
  /\ Idle \in Calls /\ Idle.at = "idle" /\ Idle.op = Noop /\ Partition(Idle.next)
  /\ \A s \in Snapshots : Json(s) \in Texts /\ Json(s).snap = s /\ Json(s).form = "json"
<1>1. Noop \in Operations
  BY DEF Noop, Operations
<1>2. Idle \in Calls
  BY <1>1, EmptyTyped DEF Idle, Calls, Steps
<1> QED
  BY <1>1, <1>2, EmptyTyped DEF Blank, Torn, Texts, Idle, Json

(* What the file holds is a snapshot in which no coin is in two places.    *)
LEMMA StoredTyped ==
  ASSUME FileTypes, Partitions
  PROVE  Stored.snap \in Snapshots /\ Partition(Stored.snap)
<1>1. CASE file = "none"
  BY <1>1, EmptyTyped DEF Stored, Json
<1>2. CASE file # "none"
  <2>1. file \in Inodes /\ content[file] \in Texts /\ Partition(content[file].snap)
    BY <1>2 DEF FileTypes, Partitions
  <2> QED
    BY <1>2, <2>1 DEF Stored, Texts
<1> QED
  BY <1>1, <1>2

(* The file is the same snapshot when its inode and content are.           *)
LEMMA StoredStays ==
  ASSUME file' = file, file # "none" => content'[file] = content[file]
  PROVE  Stored' = Stored
BY DEF Stored

(* Whoever is not idle is alone.                                           *)
LEMMA Alone ==
  ASSUME OneCall, NEW c \in Callers, ~At(c, "idle")
  PROVE  \A d \in Callers \ {c} : At(d, "idle")
BY DEF OneCall

(* Where nobody just renamed, the cache is the file.                       *)
LEMMA CacheIsFile ==
  ASSUME FileInv, NEW c \in Callers, ~At(c, "assign"), loaded,
         \A d \in Callers \ {c} : At(d, "idle")
  PROVE  cache = Stored.snap
BY DEF FileInv, Cached, At

(* A caller moves alone: the others are idle and know nothing.             *)
LEMMA SoloMove ==
  ASSUME FileTypes, NEW c \in Callers, NEW k \in Calls,
         call' = [call EXCEPT ![c] = k],
         \A d \in Callers \ {c} : At(d, "idle")
  PROVE  /\ call' \in [Callers -> Calls] /\ call'[c] = k
         /\ OneCall'
         /\ \A d \in Callers \ {c} : call'[d] = call[d] /\ CallOK(d)'
         /\ \A d \in Callers : At(d, "assign")' => d = c
<1>1. /\ call' \in [Callers -> Calls] /\ call'[c] = k
      /\ \A d \in Callers \ {c} : call'[d] = call[d] /\ call'[d].at = "idle"
  BY DEF FileTypes, At
<1>2. OneCall' /\ \A d \in Callers : At(d, "assign")' => d = c
  BY <1>1 DEF OneCall, At
<1>3. \A d \in Callers \ {c} : CallOK(d)'
  BY <1>1 DEF CallOK, At, Steps
<1> QED
  BY <1>1, <1>2, <1>3

(* A caller moves alone and leaves the disk and the cache as they are.     *)
LEMMA QuietMove ==
  ASSUME FileInv, NEW c \in Callers, NEW k \in Calls, Partition(k.next),
         call' = [call EXCEPT ![c] = k],
         \A d \in Callers \ {c} : At(d, "idle"),
         ~At(c, "assign"),
         UNCHANGED <<disk, cache, loaded>>,
         call'[c] = k => CallOK(c)'
  PROVE  FileInv'
<1>1. /\ call' \in [Callers -> Calls] /\ call'[c] = k /\ OneCall'
      /\ \A d \in Callers \ {c} : call'[d] = call[d] /\ CallOK(d)'
  BY SoloMove DEF FileInv
<1>2. FileTypes' /\ OnDisk'
  BY <1>1 DEF FileInv, FileTypes, OnDisk, disk
<1>3. Partitions'
  BY <1>1 DEF FileInv, Partitions, disk
<1>4. Stored' = Stored
  BY StoredStays DEF disk
<1>5. Cached'
  BY <1>4, CacheIsFile DEF Cached
<1> QED
  BY <1>1, <1>2, <1>3, <1>5 DEF FileInv

-----------------------------------------------------------------------------
(* An operation begins on the file as the cache has it.                    *)
LEMMA BeginKeeps ==
  ASSUME FileInv, NEW c \in Callers, NEW op \in Operations, Begin(c, op),
         At(c, "idle") \/ At(c, "holding"),
         \A d \in Callers \ {c} : At(d, "idle")
  PROVE  FileInv'
<1> DEFINE k == [Idle EXCEPT !.at = IF loaded THEN "apply" ELSE "read", !.op = op]
<1>1. /\ k \in Calls /\ k.op = op /\ Partition(k.next)
      /\ k.at = IF loaded THEN "apply" ELSE "read"
  BY FileConstants DEF Calls, Steps
<1>2. call' = [call EXCEPT ![c] = k] /\ UNCHANGED <<disk, cache, loaded>>
  BY DEF Begin
<1> HIDE DEF k
<1>3. call'[c] = k => CallOK(c)'
  BY <1>1, <1>2 DEF CallOK, At, Steps
<1> QED
  BY <1>1, <1>2, <1>3, QuietMove DEF At

(* A call that ends leaves the file as it is.                              *)
LEMMA EndsKeeps ==
  ASSUME FileInv, NEW c \in Callers, Ends(c), UNCHANGED <<disk, cache, loaded>>,
         ~At(c, "idle"), ~At(c, "assign")
  PROVE  FileInv'
<1>1. \A d \in Callers \ {c} : At(d, "idle")
  BY Alone DEF FileInv
<1>2. Idle \in Calls /\ Idle.at = "idle" /\ Partition(Idle.next)
  BY FileConstants
<1>3. call'[c] = Idle => CallOK(c)'
  BY <1>2 DEF CallOK, At, Steps
<1> QED
  BY <1>1, <1>2, <1>3, QuietMove DEF Ends

(* What was read is what the file holds.                                   *)
LEMMA ReadKeeps ==
  ASSUME FileInv, NEW c \in Callers, ReadFile(c)
  PROVE  FileInv'
<1>0. ~At(c, "idle") /\ ~At(c, "assign") /\ UNCHANGED <<disk, cache, loaded>>
  BY DEF ReadFile, At, memory
<1>1. CASE Stored.form = "json"
  <2> DEFINE k == [call[c] EXCEPT !.at = "loaded", !.next = Stored.snap]
  <2>1. Stored.snap \in Snapshots /\ Partition(Stored.snap) /\ call[c] \in Calls
    BY StoredTyped DEF FileInv, FileTypes
  <2>2. k \in Calls /\ k.at = "loaded" /\ k.next = Stored.snap
    BY <2>1 DEF Calls, Steps
  <2>3. call' = [call EXCEPT ![c] = k]
    BY <1>1 DEF ReadFile, FileInv, FileTypes
  <2> HIDE DEF k
  <2>4. Stored' = Stored
    BY <1>0, StoredStays DEF disk
  <2>5. call'[c] = k => CallOK(c)'
    BY <2>2, <2>4 DEF CallOK, At, Steps
  <2>6. \A d \in Callers \ {c} : At(d, "idle")
    BY <1>0, Alone DEF FileInv
  <2> QED
    BY <1>0, <2>1, <2>2, <2>3, <2>5, <2>6, QuietMove
<1>2. CASE Stored.form # "json"
  BY <1>0, <1>2, EndsKeeps DEF ReadFile
<1> QED
  BY <1>1, <1>2

(* The cache takes over what was read, which is still what the file holds. *)
LEMMA LoadedKeeps ==
  ASSUME FileInv, NEW c \in Callers, Loaded(c)
  PROVE  FileInv'
<1> DEFINE k == [call[c] EXCEPT !.at = "apply"]
<1>1. call[c] \in Calls /\ Partition(call[c].next) /\ call[c].next = Stored.snap
  BY DEF FileInv, FileTypes, Partitions, Loaded, CallOK
<1>2. k \in Calls /\ k.at = "apply" /\ k.next = call[c].next
  BY <1>1 DEF Calls, Steps
<1>3. call' = [call EXCEPT ![c] = k]
  BY DEF Loaded, Goto, FileInv, FileTypes
<1> HIDE DEF k
<1>4. \A d \in Callers \ {c} : At(d, "idle")
  BY Alone DEF FileInv, Loaded, At
<1>5. /\ call' \in [Callers -> Calls] /\ call'[c] = k /\ OneCall'
      /\ \A d \in Callers \ {c} : call'[d] = call[d] /\ CallOK(d)'
  BY <1>2, <1>3, <1>4, SoloMove DEF FileInv
<1>6. cache' = call[c].next /\ loaded' = TRUE /\ UNCHANGED disk
  BY DEF Loaded
<1>7. Stored' = Stored
  BY <1>6, StoredStays DEF disk
<1>8. FileTypes' /\ OnDisk'
  BY <1>1, <1>5, <1>6 DEF FileInv, FileTypes, OnDisk, disk, Calls
<1>9. Partitions' /\ Cached'
  BY <1>1, <1>2, <1>5, <1>6, <1>7 DEF FileInv, Partitions, Cached, disk
<1>10. CallOK(c)'
  BY <1>2, <1>5, <1>6 DEF CallOK, At, Steps
<1> QED
  BY <1>5, <1>8, <1>9, <1>10 DEF FileInv

(* The operation is applied to what the file holds.                        *)
LEMMA ApplyKeeps ==
  ASSUME FileInv, NEW c \in Callers, Apply(c)
  PROVE  FileInv'
<1>0. ~At(c, "idle") /\ ~At(c, "assign") /\ UNCHANGED <<disk, cache, loaded>>
  BY DEF Apply, At, memory
<1>1. CASE Legal(cache, call[c].op)
  <2> DEFINE k == [call[c] EXCEPT !.at = "open", !.next = Result(cache, call[c].op)]
  <2>1. call[c] \in Calls /\ cache \in Snapshots /\ Partition(cache) /\ loaded
    BY DEF FileInv, FileTypes, Partitions, CallOK, Apply, At, Steps
  <2>2. /\ Result(cache, call[c].op) \in Snapshots
        /\ Partition(Result(cache, call[c].op))
    BY <1>1, <2>1, ResultTyped, ResultPartition DEF Calls
  <2>3. /\ k \in Calls /\ k.at = "open" /\ k.op = call[c].op
        /\ k.next = Result(cache, call[c].op)
    BY <2>1, <2>2 DEF Calls, Steps
  <2>4. call' = [call EXCEPT ![c] = k]
    BY <1>1 DEF Apply, FileInv, FileTypes
  <2> HIDE DEF k
  <2>5. \A d \in Callers \ {c} : At(d, "idle")
    BY <1>0, Alone DEF FileInv
  <2>6. Stored' = Stored /\ cache = Stored.snap
    BY <1>0, <2>1, <2>5, StoredStays, CacheIsFile DEF disk
  <2>7. call'[c] = k => CallOK(c)'
    BY <1>0, <1>1, <2>1, <2>3, <2>6 DEF CallOK, At, Steps
  <2> QED
    BY <1>0, <2>2, <2>3, <2>4, <2>5, <2>7, QuietMove
<1>2. CASE ~Legal(cache, call[c].op)
  BY <1>0, <1>2, EndsKeeps DEF Apply
<1> QED
  BY <1>1, <1>2

-----------------------------------------------------------------------------
(* A caller works on an inode the file does not name.                      *)
LEMMA TempMove ==
  ASSUME FileInv, NEW c \in Callers, NEW k \in Calls, Partition(k.next),
         call' = [call EXCEPT ![c] = k],
         ~At(c, "idle"), ~At(c, "assign"),
         UNCHANGED <<file, cache, loaded>>,
         tmp' \in Inodes, tmp' # file,
         content' \in [Inodes -> Texts], \A i \in Inodes : Partition(content'[i].snap),
         file # "none" => content'[file] = content[file] /\ file \in synced',
         synced' \subseteq Inodes,
         Stored' = Stored /\ call'[c] = k => CallOK(c)'
  PROVE  FileInv'
<1>0. \A d \in Callers \ {c} : At(d, "idle")
  BY Alone DEF FileInv
<1>1. /\ call' \in [Callers -> Calls] /\ call'[c] = k /\ OneCall'
      /\ \A d \in Callers \ {c} : call'[d] = call[d] /\ CallOK(d)'
  BY <1>0, SoloMove DEF FileInv
<1>2. Stored' = Stored
  BY StoredStays
<1>3. FileTypes' /\ OnDisk'
  BY <1>1 DEF FileInv, FileTypes, OnDisk
<1>4. Partitions'
  BY <1>1 DEF FileInv, Partitions
<1>5. Cached'
  BY <1>0, <1>2, CacheIsFile DEF Cached
<1> QED
  BY <1>1, <1>2, <1>3, <1>4, <1>5 DEF FileInv

(* Opening the temporary file truncates no inode the file names.           *)
LEMMA OpenKeeps ==
  ASSUME FileInv, NEW c \in Callers, Open(c)
  PROVE  FileInv'
<1>1. PICK i \in Inodes :
        /\ IF tmp = "none" THEN i # file /\ \A d \in Callers : call[d].fd # i ELSE i = tmp
        /\ tmp' = i
        /\ content' = [content EXCEPT ![i] = Blank]
        /\ synced' = synced \ {i}
        /\ call' = [call EXCEPT ![c].at = "write", ![c].fd = i]
  BY DEF Open
<1> DEFINE k == [call[c] EXCEPT !.at = "write", !.fd = i]
<1>2. call[c] \in Calls /\ Partition(call[c].next) /\ loaded
  BY DEF FileInv, FileTypes, Partitions, CallOK, Open, At, Steps
<1>3. /\ k \in Calls /\ k.at = "write" /\ k.fd = i /\ k.op = call[c].op
      /\ k.next = call[c].next
  BY <1>2 DEF Calls, Steps
<1>4. call' = [call EXCEPT ![c] = k]
  BY <1>1 DEF FileInv, FileTypes
<1> HIDE DEF k
<1>5. UNCHANGED <<file, cache, loaded>> /\ i # file /\ i # "none"
  <2>1. i # file
    BY <1>1 DEF FileInv, OnDisk, FileTypes
  <2> QED
    BY <2>1, StoresAssumption DEF Open, memory
<1>6. /\ content' \in [Inodes -> Texts] /\ content'[i] = Blank
      /\ \A j \in Inodes \ {i} : content'[j] = content[j]
  BY <1>1, FileConstants DEF FileInv, FileTypes
<1>7. \A j \in Inodes : Partition(content'[j].snap)
  BY <1>6, FileConstants DEF FileInv, Partitions
<1>8. file # "none" => content'[file] = content[file] /\ file \in synced'
  BY <1>1, <1>5, <1>6 DEF FileInv, FileTypes, OnDisk
<1>9. ~At(c, "idle") /\ ~At(c, "assign") /\ synced' \subseteq Inodes
  BY <1>1 DEF Open, At, FileInv, FileTypes
<1>10. /\ Legal(Stored.snap, call[c].op)
       /\ call[c].next = Result(Stored.snap, call[c].op)
  BY DEF FileInv, CallOK, Open, At
<1>11. Stored' = Stored /\ call'[c] = k => CallOK(c)'
  BY <1>1, <1>2, <1>3, <1>5, <1>6, <1>10 DEF CallOK, At, Steps
<1> QED
  BY <1>1, <1>2, <1>3, <1>4, <1>5, <1>6, <1>7, <1>8, <1>9, <1>11, TempMove

(* An empty inode takes the whole text: nothing of a longer one is left.   *)
LEMMA WriteKeeps ==
  ASSUME FileInv, NEW c \in Callers, Write(c)
  PROVE  FileInv'
<1> DEFINE k == [call[c] EXCEPT !.at = "sync"]
<1>1. /\ call[c] \in Calls /\ Partition(call[c].next) /\ loaded
      /\ call[c].fd = tmp /\ tmp # "none" /\ content[tmp] = Blank
      /\ Legal(Stored.snap, call[c].op)
      /\ call[c].next = Result(Stored.snap, call[c].op)
  BY DEF FileInv, FileTypes, Partitions, CallOK, Write, At, Steps
<1>2. tmp \in Inodes /\ tmp # file
  BY <1>1 DEF FileInv, FileTypes, OnDisk
<1>3. k \in Calls /\ k.at = "sync" /\ k.fd = tmp /\ k.op = call[c].op /\ k.next = call[c].next
  BY <1>1 DEF Calls, Steps
<1>4. call' = [call EXCEPT ![c] = k]
  BY DEF Write, Goto, FileInv, FileTypes
<1> HIDE DEF k
<1>5. content' = [content EXCEPT ![tmp] = Json(call[c].next)]
  BY <1>1, FileConstants DEF Write
<1>6. UNCHANGED <<file, tmp, cache, loaded>> /\ synced' = synced \ {tmp}
  BY <1>1 DEF Write, memory
<1>7. call[c].next \in Snapshots
  BY <1>1 DEF Calls
<1>8. /\ content' \in [Inodes -> Texts] /\ content'[tmp] = Json(call[c].next)
      /\ \A j \in Inodes \ {tmp} : content'[j] = content[j]
  BY <1>2, <1>5, <1>7, FileConstants DEF FileInv, FileTypes
<1>9. \A j \in Inodes : Partition(content'[j].snap)
  BY <1>1, <1>7, <1>8, FileConstants DEF FileInv, Partitions
<1>10. file # "none" => content'[file] = content[file] /\ file \in synced'
  BY <1>2, <1>6, <1>8 DEF FileInv, FileTypes, OnDisk
<1>11. ~At(c, "idle") /\ ~At(c, "assign") /\ synced' \subseteq Inodes
  BY <1>6 DEF Write, At, FileInv, FileTypes
<1>12. Stored' = Stored /\ call'[c] = k => CallOK(c)'
  BY <1>1, <1>3, <1>6, <1>8 DEF CallOK, At, Steps
<1> QED
  BY <1>1, <1>2, <1>3, <1>4, <1>6, <1>8, <1>9, <1>10, <1>11, <1>12, TempMove

(* The text is on the disk before anything names it.                       *)
LEMMA SyncKeeps ==
  ASSUME FileInv, NEW c \in Callers, Sync(c)
  PROVE  FileInv'
<1> DEFINE k == [call[c] EXCEPT !.at = "rename"]
<1>1. /\ call[c] \in Calls /\ Partition(call[c].next) /\ loaded
      /\ call[c].fd = tmp /\ tmp # "none" /\ content[tmp] = Json(call[c].next)
      /\ Legal(Stored.snap, call[c].op)
      /\ call[c].next = Result(Stored.snap, call[c].op)
  BY DEF FileInv, FileTypes, Partitions, CallOK, Sync, At, Steps
<1>2. tmp \in Inodes /\ tmp # file
  BY <1>1 DEF FileInv, FileTypes, OnDisk
<1>3. k \in Calls /\ k.at = "rename" /\ k.fd = tmp /\ k.op = call[c].op /\ k.next = call[c].next
  BY <1>1 DEF Calls, Steps
<1>4. call' = [call EXCEPT ![c] = k]
  BY DEF Sync, Goto, FileInv, FileTypes
<1> HIDE DEF k
<1>5. UNCHANGED <<file, tmp, content, cache, loaded>> /\ synced' = synced \cup {tmp}
  BY <1>1 DEF Sync, memory
<1>6. /\ content' \in [Inodes -> Texts] /\ \A j \in Inodes : Partition(content'[j].snap)
      /\ synced' \subseteq Inodes
      /\ file # "none" => content'[file] = content[file] /\ file \in synced'
  BY <1>2, <1>5 DEF FileInv, FileTypes, Partitions, OnDisk
<1>7. ~At(c, "idle") /\ ~At(c, "assign")
  BY DEF Sync, At
<1>8. Stored' = Stored /\ call'[c] = k => CallOK(c)'
  BY <1>1, <1>3, <1>5 DEF CallOK, At, Steps
<1> QED
  BY <1>1, <1>2, <1>3, <1>4, <1>5, <1>6, <1>7, <1>8, TempMove

-----------------------------------------------------------------------------
(* A rename is where the file changes: to what the operation makes of it.  *)
LEMMA RenameIs ==
  ASSUME FileInv, NEW c \in Callers, Rename(c)
  PROVE  /\ call[c] \in Calls
         /\ tmp \in Inodes /\ tmp # "none" /\ file' = tmp /\ tmp' = "none"
         /\ tmp \in synced /\ content[tmp] = Json(call[c].next)
         /\ Stored'.form = "json" /\ Stored'.snap = call[c].next
         /\ Legal(Stored.snap, call[c].op)
         /\ call[c].next = Result(Stored.snap, call[c].op)
         /\ call' = [call EXCEPT ![c].at = "assign"]
         /\ UNCHANGED <<content, synced, cache, loaded>>
<1>1. /\ call[c] \in Calls /\ tmp # "none" /\ tmp \in synced
      /\ content[tmp] = Json(call[c].next)
      /\ Legal(Stored.snap, call[c].op)
      /\ call[c].next = Result(Stored.snap, call[c].op)
  BY DEF FileInv, FileTypes, CallOK, Rename, At
<1>2. /\ file' = tmp /\ tmp' = "none" /\ UNCHANGED <<content, synced, cache, loaded>>
      /\ call' = [call EXCEPT ![c].at = "assign"]
  BY <1>1 DEF Rename, Goto, memory
<1>3. Stored' = content[tmp]
  BY <1>1, <1>2 DEF Stored
<1>4. call[c].next \in Snapshots
  BY <1>1 DEF Calls
<1>5. Stored'.form = "json" /\ Stored'.snap = call[c].next
  BY <1>1, <1>3, <1>4, FileConstants
<1> QED
  BY <1>1, <1>2, <1>5 DEF FileInv, FileTypes

LEMMA RenameKeeps ==
  ASSUME FileInv, NEW c \in Callers, Rename(c)
  PROVE  FileInv'
<1> DEFINE k == [call[c] EXCEPT !.at = "assign"]
<1>1. /\ call[c] \in Calls
      /\ tmp \in Inodes /\ tmp # "none" /\ file' = tmp /\ tmp' = "none"
      /\ tmp \in synced /\ content[tmp] = Json(call[c].next)
      /\ Stored'.snap = call[c].next
      /\ Legal(Stored.snap, call[c].op)
      /\ call[c].next = Result(Stored.snap, call[c].op)
      /\ call' = [call EXCEPT ![c].at = "assign"]
      /\ UNCHANGED <<content, synced, cache, loaded>>
  BY RenameIs
<1>2. k \in Calls /\ k.at = "assign" /\ k.op = call[c].op /\ k.next = call[c].next
  BY <1>1 DEF Calls, Steps
<1>3. call' = [call EXCEPT ![c] = k]
  BY <1>1 DEF FileInv, FileTypes
<1> HIDE DEF k
<1>4. \A d \in Callers \ {c} : At(d, "idle")
  BY Alone DEF FileInv, Rename, At
<1>5. /\ call' \in [Callers -> Calls] /\ call'[c] = k /\ OneCall'
      /\ \A d \in Callers \ {c} : call'[d] = call[d] /\ CallOK(d)'
  BY <1>2, <1>3, <1>4, SoloMove DEF FileInv
<1>6. FileTypes'
  BY <1>1, <1>5 DEF FileInv, FileTypes
<1>7. OnDisk'
  <2>1. call[c].next \in Snapshots
    BY <1>1 DEF Calls
  <2> QED
    BY <1>1, <2>1, FileConstants DEF OnDisk
<1>8. Partitions'
  BY <1>1, <1>2, <1>5 DEF FileInv, Partitions
<1>9. Cached' /\ At(c, "assign")'
  BY <1>2, <1>5 DEF Cached, At
<1>10. CallOK(c)'
  <2>1. Stored.snap \in Snapshots /\ call[c].op \in Operations /\ loaded
    BY <1>1, StoredTyped DEF FileInv, Calls, CallOK, Rename, At, Steps
  <2>2. call[c].op.kind = "reserve" =>
          /\ call[c].op.id \in Stored'.snap.live
          /\ Stored'.snap.held[call[c].op.id] = call[c].op.coins
    BY <1>1, <2>1, ReserveRecords
  <2> QED
    BY <1>1, <1>2, <1>5, <2>1, <2>2 DEF CallOK, Recorded, At, Steps
<1> QED
  BY <1>5, <1>6, <1>7, <1>8, <1>9, <1>10 DEF FileInv

(* The cache follows the file.                                             *)
LEMMA FinishKeeps ==
  ASSUME FileInv, NEW c \in Callers, Finish(c)
  PROVE  FileInv'
<1> DEFINE k == IF call[c].op.kind = "reserve"
                  THEN [Idle EXCEPT !.at = "holding", !.op = call[c].op] ELSE Idle
<1>1. /\ call[c] \in Calls /\ Partition(call[c].next) /\ call[c].next = Stored.snap
      /\ loaded
      /\ call[c].op.kind = "reserve" => Recorded(call[c].op)
  BY DEF FileInv, FileTypes, Partitions, CallOK, Finish, At, Steps
<1>2. /\ k \in Calls /\ Partition(k.next) /\ k.at \in {"idle", "holding"}
      /\ k.at = "holding" => call[c].op.kind = "reserve" /\ k.op = call[c].op
  BY <1>1, FileConstants DEF Calls, Steps
<1>3. call' = [call EXCEPT ![c] = k]
  BY DEF Finish, Ends
<1> HIDE DEF k
<1>4. \A d \in Callers \ {c} : At(d, "idle")
  BY Alone DEF FileInv, Finish, At
<1>5. /\ call' \in [Callers -> Calls] /\ call'[c] = k /\ OneCall'
      /\ \A d \in Callers \ {c} : call'[d] = call[d] /\ CallOK(d)'
  BY <1>2, <1>3, <1>4, SoloMove DEF FileInv
<1>6. cache' = call[c].next /\ UNCHANGED <<disk, loaded>>
  BY DEF Finish
<1>7. Stored' = Stored
  BY <1>6, StoredStays DEF disk
<1>8. FileTypes' /\ OnDisk'
  BY <1>1, <1>5, <1>6 DEF FileInv, FileTypes, OnDisk, disk, Calls
<1>9. Partitions' /\ Cached'
  BY <1>1, <1>2, <1>5, <1>6, <1>7 DEF FileInv, Partitions, Cached, disk
<1>10. CallOK(c)'
  BY <1>1, <1>2, <1>5, <1>6, <1>7 DEF CallOK, Recorded, At, Steps
<1> QED
  BY <1>5, <1>8, <1>9, <1>10 DEF FileInv

(* What dies with the process is not what the file names.                  *)
LEMMA CrashKeeps ==
  ASSUME FileInv, Crash
  PROVE  FileInv' /\ Stored' = Stored
<1>1. PICK lost \in SUBSET {i \in Inodes \ synced : i = file} :
        content' = [i \in Inodes |-> IF i \in lost THEN Torn ELSE content[i]]
  BY DEF Crash
<1>2. lost = {}
  <2>1. \A i \in Inodes : i = file => i \in synced
    BY StoresAssumption DEF FileInv, OnDisk
  <2> QED
    BY <2>1
<1>3. content' = content
  BY <1>1, <1>2 DEF FileInv, FileTypes
<1>4. /\ cache' = EMPTY_SNAPSHOT /\ loaded' = FALSE /\ tmp' = "none"
      /\ call' = [c \in Callers |-> Idle] /\ UNCHANGED <<file, synced>>
  BY DEF Crash
<1>5. Stored' = Stored
  BY <1>3, <1>4, StoredStays
<1>6. /\ call' \in [Callers -> Calls]
      /\ \A c \in Callers : call'[c] = Idle /\ call'[c].at = "idle" /\ Partition(call'[c].next)
  BY <1>4, FileConstants
<1>7. FileTypes' /\ OnDisk'
  BY <1>3, <1>4, <1>6, EmptyTyped DEF FileInv, FileTypes, OnDisk
<1>8. Partitions' /\ Cached'
  BY <1>3, <1>4, <1>6, EmptyTyped DEF FileInv, Partitions, Cached
<1>9. OneCall' /\ \A c \in Callers : CallOK(c)'
  BY <1>6 DEF OneCall, CallOK, At, Steps
<1> QED
  BY <1>5, <1>7, <1>8, <1>9 DEF FileInv

-----------------------------------------------------------------------------
LEMMA FileInitInv == Init => FileInv
<1> SUFFICES ASSUME Init PROVE FileInv
  OBVIOUS
<1>1. /\ cache = EMPTY_SNAPSHOT /\ loaded = FALSE /\ file = "none" /\ tmp = "none"
      /\ content = [i \in Inodes |-> Blank] /\ synced = {}
      /\ call = [c \in Callers |-> Idle]
  BY DEF Init
<1>2. \A c \in Callers : call[c] = Idle /\ call[c].at = "idle" /\ Partition(call[c].next)
  BY <1>1, FileConstants
<1>3. \A i \in Inodes : Partition(content[i].snap)
  BY <1>1, FileConstants
<1>4. FileTypes /\ OnDisk
  BY <1>1, FileConstants, EmptyTyped DEF FileTypes, OnDisk
<1>5. Partitions /\ OneCall /\ Cached
  BY <1>1, <1>2, <1>3, EmptyTyped DEF Partitions, OneCall, Cached, At
<1>6. \A c \in Callers : CallOK(c)
  BY <1>2 DEF CallOK, At, Steps
<1> QED
  BY <1>4, <1>5, <1>6 DEF FileInv

(* Every step keeps the invariant, and changes what the file holds in one  *)
(* legal operation, or not at all.                                         *)
LEMMA FileStep ==
  ASSUME Serial, FileInv, Next
  PROVE  FileInv' /\ (Store!Next \/ Stored.snap' = Stored.snap)
<1>1. ASSUME NEW c \in Callers, NEW ys \in SUBSET Coins, BeginAdd(c, ys)
      PROVE  FileInv' /\ Stored' = Stored
  <2> DEFINE op == [Noop EXCEPT !.coins = ys]
  <2>1. op \in Operations
    BY DEF Noop, Operations
  <2>2. /\ Begin(c, op) /\ At(c, "idle") /\ UNCHANGED disk
        /\ \A d \in Callers \ {c} : At(d, "idle")
    BY <1>1 DEF BeginAdd, MayStart, Begin
  <2> HIDE DEF op
  <2> QED
    BY <2>1, <2>2, BeginKeeps, StoredStays DEF disk
<1>2. ASSUME NEW c \in Callers, NEW i \in Ids, NEW ys \in SUBSET Coins, BeginReserve(c, i, ys)
      PROVE  FileInv' /\ Stored' = Stored
  <2> DEFINE op == [kind |-> "reserve", id |-> i, coins |-> ys]
  <2>1. op \in Operations
    BY DEF Operations
  <2>2. /\ Begin(c, op) /\ At(c, "idle") /\ UNCHANGED disk
        /\ \A d \in Callers \ {c} : At(d, "idle")
    BY <1>2 DEF BeginReserve, MayStart, Begin
  <2> HIDE DEF op
  <2> QED
    BY <2>1, <2>2, BeginKeeps, StoredStays DEF disk
<1>3. ASSUME NEW c \in Callers, NEW ys \in SUBSET Coins, NEW kind \in {"commit", "release"},
             BeginEnd(c, kind, ys)
      PROVE  FileInv' /\ Stored' = Stored
  <2> DEFINE op == [kind |-> kind, id |-> call[c].op.id, coins |-> ys]
  <2>1. At(c, "holding") /\ call[c].op.kind = "reserve" /\ call[c].op \in Operations
    BY <1>3 DEF BeginEnd, FileInv, CallOK, FileTypes, Calls
  <2>2. op \in Operations
    BY <2>1 DEF Operations
  <2>3. /\ Begin(c, op) /\ UNCHANGED disk
        /\ \A d \in Callers \ {c} : At(d, "idle")
    BY <1>3, <2>1, Alone DEF BeginEnd, Begin, FileInv, At
  <2> HIDE DEF op
  <2> QED
    BY <2>1, <2>2, <2>3, BeginKeeps, StoredStays DEF disk
<1>4. ASSUME NEW c \in Callers, ReadFile(c) \/ Loaded(c) \/ Apply(c) \/ Finish(c)
      PROVE  FileInv' /\ Stored' = Stored
  <2>1. UNCHANGED disk
    BY <1>4 DEF ReadFile, Loaded, Apply, Finish
  <2> QED
    BY <1>4, <2>1, StoredStays, ReadKeeps, LoadedKeeps, ApplyKeeps, FinishKeeps DEF disk
<1>5. ASSUME NEW c \in Callers, Open(c)
      PROVE  FileInv' /\ Stored' = Stored
  <2>1. PICK i \in Inodes :
          /\ IF tmp = "none" THEN i # file /\ \A d \in Callers : call[d].fd # i ELSE i = tmp
          /\ content' = [content EXCEPT ![i] = Blank]
    BY <1>5 DEF Open
  <2>2. i # file /\ file' = file
    BY <1>5, <2>1 DEF Open, FileInv, OnDisk, FileTypes
  <2> QED
    BY <1>5, <2>1, <2>2, OpenKeeps, StoredStays DEF FileInv, FileTypes
<1>6. ASSUME NEW c \in Callers, Write(c) \/ Sync(c)
      PROVE  FileInv' /\ Stored' = Stored
  <2>1. call[c].fd = tmp /\ tmp # "none" /\ tmp # file /\ file' = file
    BY <1>6 DEF Write, Sync, At, FileInv, CallOK, OnDisk
  <2>2. file # "none" => content'[file] = content[file]
    BY <1>6, <2>1 DEF Write, Sync, FileInv, FileTypes
  <2> QED
    BY <1>6, <2>1, <2>2, WriteKeeps, SyncKeeps, StoredStays
<1>7. ASSUME NEW c \in Callers, Rename(c)
      PROVE  FileInv' /\ Store!Next
  <2>1. /\ call[c].op \in Operations /\ Legal(Stored.snap, call[c].op)
        /\ Stored.snap' = Result(Stored.snap, call[c].op)
    BY <1>7, RenameIs DEF Calls
  <2>2. Store!Step(call[c].op)
    BY <2>1 DEF Store!Step, Store!Legal, Store!Result, Store!AddTo, Store!Reserve,
                Store!Commit, Store!Release, Store!Drop, Store!Advance, Store!Held,
                Legal, Result, AddTo, Reserve, Commit, Release, Drop, Advance, Held
  <2>3. call[c].op \in Store!Operations
    BY <2>1 DEF Operations, Store!Operations
  <2> QED
    BY <1>7, <2>2, <2>3, RenameKeeps DEF Store!Next
<1>8. CASE Crash
  BY <1>8, CrashKeeps
<1> QED
  BY <1>1, <1>2, <1>3, <1>4, <1>5, <1>6, <1>7, <1>8 DEF Next

(* The invariant speaks of the store's state only.                         *)
LEMMA FileRests ==
  ASSUME FileInv, UNCHANGED vars
  PROVE  FileInv' /\ Stored' = Stored
<1>1. UNCHANGED <<cache, loaded, file, tmp, content, synced, call>>
  BY DEF vars
<1>2. Stored' = Stored
  BY <1>1, StoredStays
<1>3. FileTypes' /\ Partitions' /\ OneCall' /\ OnDisk'
  BY <1>1 DEF FileInv, FileTypes, Partitions, OneCall, OnDisk, At
<1>4. Cached' /\ \A c \in Callers : CallOK(c)'
  BY <1>1, <1>2 DEF FileInv, Cached, CallOK, Recorded, At
<1> QED
  BY <1>2, <1>3, <1>4 DEF FileInv

-----------------------------------------------------------------------------
SpendSteps == {"idle", "add", "ask", "swap", "deliver", "melt", "commit", "release"}
Spends == [at : SpendSteps, tool : {"none", "fetch", "send", "melt"},
           rid : Ids \cup {"none"}, want : Nat,
           show : SUBSET Coin, held : SUBSET Coin, bundle : SUBSET Coin]

SpendTypes ==
  /\ store \in W!Snapshots /\ W!Partition(store)
  /\ spend \in Spends
  /\ issued \subseteq Coin /\ spent \subseteq issued /\ recorded \subseteq issued
  /\ given \subseteq issued /\ Incoming \subseteq given
  /\ store.live \subseteq drawn
  /\ W!Held(store) \subseteq issued
  /\ {spend.held, spend.show, spend.bundle} \subseteq SUBSET issued
  /\ spend.bundle \cap spend.held = {}

(* The coins of the reservation of the running call.                       *)
Mine == store.held[spend.rid]

Gone == (recorded \cup given) \ Incoming
Stale == spent \ Incoming

(* What the running call has of its reservation, step by step.             *)
OfSpend ==
  /\ W!At("idle") => spend.rid = "none" /\ spend.held = {} /\ spend.bundle = {}
  /\ W!At("add") =>
       spend.rid = "none" /\ spend.bundle = {} /\ spend.held \subseteq claimed \cup given
  /\ spend.at \notin {"idle", "add"} => spend.rid \in store.live
  /\ spend.at \in {"ask", "swap"} => spend.held = Mine /\ spend.bundle = {}
  /\ W!At("swap") => spend.show \subseteq Mine

(* Nothing that can become spendable again was handed out.                 *)
Unpaid ==
  /\ store.free \cap Gone = {}
  /\ spend.held \cap Gone = {}
  /\ spend.bundle \cap store.free = {}
  /\ spend.at \in {"ask", "swap", "melt", "release"} => Mine \cap Gone = {}

(* Nothing that can become spendable again is spent.                       *)
Unspent ==
  ~erred =>
    /\ store.free \cap Stale = {}
    /\ spend.held \cap Stale = {}
    /\ spend.at \in {"ask", "swap", "release"} => Mine \cap Stale = {}

(* When the reservation goes, what it held is with the call, and back.     *)
Accounted ==
  ~erred =>
    /\ spend.at \in {"deliver", "melt", "commit"} =>
         Mine \subseteq spend.held \cup spend.bundle \cup spent
    /\ W!At("release") => spend.held \cup spend.bundle \subseteq Mine

WalletInv == SpendTypes /\ OfSpend /\ Unpaid /\ Unspent /\ Accounted /\ NoSilentLoss

-----------------------------------------------------------------------------
T == INSTANCE TransitionsProofs WITH Coins <- Coin

(* The service's store and the lemmas speak of the same transitions.       *)
LEMMA SameTransitions ==
  /\ W!Snapshots = T!Snapshots
  /\ \A s : W!Partition(s) <=> T!Partition(s)
  /\ \A s : W!Held(s) = T!Held(s)
  /\ \A s, ys : W!AddTo(s, ys) = T!AddTo(s, ys)
  /\ \A s, i, ys : W!Reserve(s, i, ys) = T!Reserve(s, i, ys)
  /\ \A s, i, ys : W!Commit(s, i, ys) = T!Commit(s, i, ys)
  /\ \A s, i : W!Release(s, i) = T!Release(s, i)
<1>1. W!Snapshots = T!Snapshots
  BY DEF W!Snapshots, T!Snapshots
<1>2. /\ \A s : W!Partition(s) <=> T!Partition(s)
      /\ \A s : W!Held(s) = T!Held(s)
  BY DEF W!Partition, T!Partition, W!Held, T!Held
<1>3. \A x, ys : W!AddTo(x, ys) = T!AddTo(x, ys)
  BY <1>2, Zenon DEF W!AddTo, T!AddTo, W!Advance, T!Advance
<1>4. \A x, i : W!Drop(x, i) = T!Drop(x, i)
  BY Zenon DEF W!Drop, T!Drop
<1>5. \A x, i, ys : W!Reserve(x, i, ys) = T!Reserve(x, i, ys)
  BY Zenon DEF W!Reserve, T!Reserve, W!Advance, T!Advance
<1>6. \A x, i, ys : W!Commit(x, i, ys) = T!Commit(x, i, ys)
  BY <1>3, <1>4, Zenon DEF W!Commit, T!Commit
<1>7. \A x, i : W!Release(x, i) = T!Release(x, i)
  BY <1>4, Zenon DEF W!Release, T!Release, W!Advance, T!Advance
<1> QED
  BY <1>1, <1>2, <1>3, <1>5, <1>6, <1>7

(* The store's reservation i is the only one that changed.                 *)
OnlyOf(i) == \A j \in Ids \ {i} : store'.held[j] = store.held[j]

LEMMA Reserving ==
  ASSUME SpendTypes, NEW i \in Ids, i \notin store.live, NEW ys \in SUBSET store.free,
         store' = W!Reserve(store, i, ys)
  PROVE  /\ store' \in W!Snapshots /\ W!Partition(store')
         /\ store'.free = store.free \ ys
         /\ store'.live = store.live \cup {i}
         /\ store'.held[i] = ys /\ OnlyOf(i)
         /\ W!Held(store') = W!Held(store)
<1>1. /\ store' \in W!Snapshots /\ W!Partition(store')
      /\ store'.free = store.free \ ys
      /\ store'.live = store.live \cup {i}
      /\ store'.held[i] = ys /\ OnlyOf(i)
  BY T!ReserveFacts, SameTransitions DEF SpendTypes, OnlyOf
<1>2. store.held[i] = {}
  BY DEF SpendTypes, W!Partition
<1>3. W!Held(store') = W!Held(store)
  BY <1>1, <1>2 DEF W!Held, OnlyOf
<1> QED
  BY <1>1, <1>3

LEMMA Committing ==
  ASSUME SpendTypes, NEW i \in Ids, NEW change \in SUBSET Coin,
         store' = W!Commit(store, i, change)
  PROVE  /\ store' \in W!Snapshots /\ W!Partition(store')
         /\ store.free \subseteq store'.free /\ store'.free \subseteq store.free \cup change
         /\ store'.live = store.live \ {i}
         /\ store'.held[i] = {} /\ OnlyOf(i)
         /\ W!Held(store') \subseteq W!Held(store) \cup change
         /\ (W!Held(store) \ store.held[i]) \cup change \subseteq W!Held(store')
<1>1. /\ store' \in W!Snapshots /\ W!Partition(store')
      /\ store.free \subseteq store'.free /\ store'.free \subseteq store.free \cup change
      /\ change \subseteq W!Held(store')
      /\ store'.live = store.live \ {i}
      /\ store'.held[i] = {} /\ OnlyOf(i)
  BY T!CommitFacts, SameTransitions DEF SpendTypes, OnlyOf
<1>2. /\ W!Held(store') \subseteq W!Held(store) \cup change
      /\ W!Held(store) \ store.held[i] \subseteq W!Held(store')
  BY <1>1 DEF W!Held, OnlyOf
<1> QED
  BY <1>1, <1>2

LEMMA Releasing ==
  ASSUME SpendTypes, NEW i \in Ids, store' = W!Release(store, i)
  PROVE  /\ store' \in W!Snapshots /\ W!Partition(store')
         /\ store'.free = store.free \cup store.held[i]
         /\ store'.live = store.live \ {i}
         /\ W!Held(store') = W!Held(store)
<1>1. /\ store' \in W!Snapshots /\ W!Partition(store')
      /\ store'.free = store.free \cup store.held[i]
      /\ store'.live = store.live \ {i}
      /\ store'.held[i] = {} /\ OnlyOf(i)
  BY T!ReleaseFacts, SameTransitions DEF SpendTypes, OnlyOf
<1>2. W!Held(store') = W!Held(store)
  BY <1>1 DEF W!Held, OnlyOf
<1> QED
  BY <1>1, <1>2

LEMMA Adding ==
  ASSUME SpendTypes, NEW ys \in SUBSET Coin, store' = W!AddTo(store, ys)
  PROVE  /\ store' \in W!Snapshots /\ W!Partition(store')
         /\ store'.free \subseteq store.free \cup ys
         /\ store'.live = store.live
         /\ W!Held(store') = W!Held(store) \cup ys
<1>1. /\ store' \in W!Snapshots /\ W!Partition(store')
      /\ store'.free = store.free \cup (ys \ W!Held(store))
      /\ store'.live = store.live /\ store'.held = store.held
  BY T!AddToFacts, SameTransitions DEF SpendTypes
<1>2. W!Held(store') = W!Held(store) \cup ys
  BY <1>1 DEF W!Held
<1> QED
  BY <1>1, <1>2

(* Coins of a live reservation are held, and not free.                     *)
LEMMA MineIsHeld ==
  ASSUME SpendTypes, spend.rid \in Ids
  PROVE  /\ Mine \subseteq W!Held(store) /\ Mine \cap store.free = {}
         /\ Mine \subseteq issued /\ Mine \subseteq Coin
         /\ store.free \subseteq W!Held(store)
<1>1. Mine \subseteq W!Held(store) /\ store.free \subseteq W!Held(store)
  BY DEF Mine, W!Held
<1>2. Mine \cap store.free = {}
  BY DEF Mine, SpendTypes, W!Partition
<1> QED
  BY <1>1, <1>2 DEF SpendTypes

(* A call under way has a reservation in the store.                        *)
LEMMA HasReservation ==
  ASSUME SpendTypes, OfSpend, spend.at \notin {"idle", "add"}
  PROVE  spend.rid \in Ids /\ spend.rid \in store.live /\ spend.rid # "none"
<1>1. spend.rid \in store.live /\ store.live \subseteq Ids
  BY DEF OfSpend, SpendTypes, W!Snapshots
<1> QED
  BY <1>1, StoresAssumption

-----------------------------------------------------------------------------
LEMMA WalletInitInv == W!Init => WalletInv
<1> SUFFICES ASSUME W!Init PROVE WalletInv
  OBVIOUS
<1>1. /\ store = [W!EMPTY_SNAPSHOT EXCEPT !.free = Purse \cup (Budget \ Incoming)]
      /\ issued = Purse \cup Budget \cup Incoming
      /\ spent = {} /\ given = Incoming /\ recorded = {} /\ claimed = {}
      /\ spend = W!Idle /\ drawn = {}
  BY DEF W!Init
<1>2. /\ store \in W!Snapshots
      /\ store.free = Purse \cup (Budget \ Incoming) /\ store.live = {}
      /\ \A i \in Ids : store.held[i] = {}
  BY <1>1, StoresAssumption DEF W!EMPTY_SNAPSHOT, W!Snapshots
<1>3. W!Partition(store) /\ W!Held(store) = store.free
  BY <1>2 DEF W!Partition, W!Held
<1>4. /\ spend \in Spends /\ spend.at = "idle" /\ spend.rid = "none"
      /\ spend.held = {} /\ spend.show = {} /\ spend.bundle = {}
  BY <1>1 DEF W!Idle, Spends, SpendSteps
<1>5. SpendTypes
  <2>1. Purse \cup Budget \cup Incoming \subseteq Coin
    BY StoresAssumption
  <2> QED
    BY <1>1, <1>2, <1>3, <1>4, <2>1 DEF SpendTypes
<1>6. OfSpend /\ Unpaid /\ Unspent /\ Accounted
  BY <1>1, <1>2, <1>4 DEF OfSpend, Unpaid, Unspent, Accounted, Gone, Stale, W!At
<1>7. NoSilentLoss
  BY <1>1, <1>2, <1>3 DEF NoSilentLoss, W!NoSilentLoss
<1> QED
  BY <1>5, <1>6, <1>7 DEF WalletInv

(* A spend begins by reserving spendable coins under a new id.             *)
LEMMA StartKeeps ==
  ASSUME WalletInv, NEW i \in Ids, NEW tool \in {"fetch", "send", "melt"},
         NEW at \in {"ask", "swap"}, NEW proofs \in SUBSET store.free, NEW want \in Nat,
         W!StartWith(i, tool, at, proofs, want)
  PROVE  WalletInv'
<1>1. /\ i \notin drawn /\ drawn' = drawn \cup {i}
      /\ store' = W!Reserve(store, i, proofs)
      /\ spend.at = "idle"
      /\ spend' = [W!Idle EXCEPT !.at = at, !.tool = tool, !.rid = i, !.show = proofs,
                                 !.want = want, !.held = proofs]
      /\ UNCHANGED <<issued, spent, given, recorded, claimed, erred>>
  BY DEF W!StartWith, W!Ready, W!At, W!Ledger
<1>2. SpendTypes /\ i \notin store.live /\ proofs \subseteq Coin
      /\ spend.rid = "none" /\ spend.held = {} /\ spend.bundle = {}
  BY <1>1 DEF WalletInv, SpendTypes, OfSpend, W!At, W!Snapshots
<1>3. /\ store' \in W!Snapshots /\ W!Partition(store')
      /\ store'.free = store.free \ proofs
      /\ store'.live = store.live \cup {i}
      /\ store'.held[i] = proofs
      /\ W!Held(store') = W!Held(store)
  BY <1>1, <1>2, Reserving
<1>4. /\ spend' \in Spends /\ spend'.at = at /\ spend'.rid = i
      /\ spend'.show = proofs /\ spend'.held = proofs /\ spend'.bundle = {}
  BY <1>1, <1>2 DEF W!Idle, Spends, SpendSteps
<1>5. proofs \subseteq issued
  BY <1>2 DEF SpendTypes, W!Held
<1>6. SpendTypes'
  BY <1>1, <1>2, <1>3, <1>4, <1>5 DEF SpendTypes
<1>7. OfSpend' /\ Accounted'
  BY <1>1, <1>3, <1>4 DEF OfSpend, Accounted, Mine, W!At
<1>8. Unpaid' /\ Unspent'
  BY <1>1, <1>3, <1>4 DEF WalletInv, Unpaid, Unspent, Mine, Gone, Stale
<1>9. NoSilentLoss'
  BY <1>1, <1>2, <1>3, <1>4 DEF WalletInv, NoSilentLoss, W!NoSilentLoss
<1> QED
  BY <1>6, <1>7, <1>8, <1>9 DEF WalletInv

(* The running call goes on with what it has, in part for the bundle; the  *)
(* store and the mint stay as they are.                                    *)
LEMMA CallMoves ==
  ASSUME WalletInv, UNCHANGED <<store, issued, spent, recorded, claimed, drawn, erred>>,
         spend' \in Spends, spend'.rid = spend.rid,
         spend'.show \subseteq issued,
         spend'.held \cup spend'.bundle = spend.held \cup spend.bundle,
         spend'.bundle \cap spend'.held = {},
         spend.at \notin {"idle", "add"}, spend'.at \notin {"idle", "add"},
         given \subseteq given', given' \subseteq given \cup spend.bundle,
         spend'.held \subseteq spend.held
  PROVE  SpendTypes' /\ NoSilentLoss'
<1>1. SpendTypes /\ NoSilentLoss
  BY DEF WalletInv
<1>2. SpendTypes'
  BY <1>1 DEF SpendTypes
<1>3. NoSilentLoss'
  <2>1. W!Held(store') = W!Held(store)
    BY DEF W!Held
  <2> QED
    BY <1>1, <2>1 DEF NoSilentLoss, W!NoSilentLoss
<1> QED
  BY <1>2, <1>3

LEMMA AnsweredKeeps == WalletInv /\ W!Answered => WalletInv'
<1> SUFFICES ASSUME WalletInv, W!Answered PROVE WalletInv'
  OBVIOUS
<1>1. PICK at \in {"commit", "release"} : spend' = [spend EXCEPT !.at = at]
  BY DEF W!Answered, W!Moves
<1>2. /\ spend.at = "ask"
      /\ UNCHANGED <<store, issued, spent, given, recorded, claimed, drawn, erred>>
  BY DEF W!Answered, W!At, W!Ledger
<1>3. /\ spend' \in Spends /\ spend'.at = at /\ spend'.rid = spend.rid
      /\ spend'.show = spend.show /\ spend'.held = spend.held /\ spend'.bundle = spend.bundle
  BY <1>1 DEF WalletInv, SpendTypes, Spends, SpendSteps
<1>4. SpendTypes' /\ NoSilentLoss'
  BY <1>2, <1>3, CallMoves DEF WalletInv, SpendTypes
<1>5. Mine' = Mine
  BY <1>2, <1>3 DEF Mine
<1>6. OfSpend' /\ Accounted'
  BY <1>2, <1>3, <1>5 DEF WalletInv, OfSpend, Accounted, W!At
<1>7. Unpaid' /\ Unspent'
  BY <1>2, <1>3, <1>5 DEF WalletInv, Unpaid, Unspent, Gone, Stale
<1> QED
  BY <1>4, <1>6, <1>7 DEF WalletInv

(* A budget pays exactly, with coins the store keeps as reserved.          *)
LEMMA PayFromBudgetKeeps ==
  ASSUME WalletInv, NEW n, W!PayFromBudget(n)
  PROVE  WalletInv'
<1>1. PICK picked \in SUBSET (spend.held \cap Budget) :
        spend' = [spend EXCEPT !.at = "deliver", !.bundle = picked, !.held = @ \ picked]
  BY DEF W!PayFromBudget
<1>2. /\ spend.at = "ask"
      /\ UNCHANGED <<store, issued, spent, given, recorded, claimed, drawn, erred>>
  BY DEF W!PayFromBudget, W!At, W!Ledger
<1>3. spend \in Spends /\ spend.held = Mine /\ spend.bundle = {}
  BY <1>2 DEF WalletInv, SpendTypes, OfSpend
<1>4. /\ spend' \in Spends /\ spend'.at = "deliver" /\ spend'.rid = spend.rid
      /\ spend'.show = spend.show /\ spend'.held = spend.held \ picked
      /\ spend'.bundle = picked
  BY <1>1, <1>3 DEF Spends, SpendSteps
<1>5. SpendTypes' /\ NoSilentLoss'
  BY <1>2, <1>3, <1>4, CallMoves DEF WalletInv, SpendTypes
<1>6. Mine' = Mine /\ Mine \cap store.free = {}
  BY <1>2, <1>4, HasReservation, MineIsHeld DEF Mine, WalletInv
<1>7. OfSpend' /\ Accounted'
  BY <1>2, <1>3, <1>4, <1>6 DEF WalletInv, OfSpend, Accounted, W!At
<1>8. Unpaid' /\ Unspent'
  BY <1>2, <1>3, <1>4, <1>6 DEF WalletInv, Unpaid, Unspent, Gone, Stale
<1> QED
  BY <1>5, <1>7, <1>8 DEF WalletInv

LEMMA ChallengedKeeps ==
  ASSUME WalletInv, NEW n \in Nat, W!Challenged(n)
  PROVE  WalletInv'
<1>1. /\ spend.at = "ask"
      /\ UNCHANGED <<store, issued, spent, given, recorded, claimed, drawn, erred>>
  BY DEF W!Challenged, W!At, W!Ledger
<1>2. spend \in Spends /\ spend.held = Mine /\ spend.bundle = {}
  BY <1>1 DEF WalletInv, SpendTypes, OfSpend
<1>3. /\ spend' \in Spends /\ spend'.at \in {"release", "swap"} /\ spend'.rid = spend.rid
      /\ spend'.held = spend.held /\ spend'.bundle = spend.bundle
      /\ spend'.show = spend.show \/ spend'.show \subseteq spend.held
      /\ spend'.at = "swap" => spend'.show \subseteq spend.held
  <2> DEFINE open == W!spendableOf(spend.held)
  <2>1. open \subseteq spend.held
    BY DEF W!spendableOf
  <2>2. \/ spend' = [spend EXCEPT !.at = "release"]
        \/ spend' = [spend EXCEPT !.at = "swap", !.show = open, !.want = n]
    BY DEF W!Challenged
  <2> HIDE DEF open
  <2> QED
    BY <1>2, <2>1, <2>2 DEF Spends, SpendSteps
<1>4. SpendTypes' /\ NoSilentLoss'
  <2>1. spend'.show \subseteq issued
    BY <1>3 DEF WalletInv, SpendTypes
  <2> QED
    BY <1>1, <1>2, <1>3, <2>1, CallMoves DEF WalletInv, SpendTypes
<1>5. Mine' = Mine
  BY <1>1, <1>3 DEF Mine
<1>6. OfSpend' /\ Accounted'
  BY <1>1, <1>2, <1>3, <1>5 DEF WalletInv, OfSpend, Accounted, W!At
<1>7. Unpaid' /\ Unspent'
  BY <1>1, <1>2, <1>3, <1>5 DEF WalletInv, Unpaid, Unspent, Gone, Stale
<1> QED
  BY <1>4, <1>6, <1>7 DEF WalletInv

(* The mint swaps what was shown; the fresh coins are nobody else's.       *)
LEMMA SwapKeeps ==
  ASSUME WalletInv, NEW fresh \in SUBSET W!Unsigned, NEW bundle \in SUBSET fresh,
         W!Swap(fresh, bundle)
  PROVE  WalletInv'
<1>1. /\ spend.at = "swap"
      /\ spent' = spent \cup spend.show /\ issued' = issued \cup fresh
      /\ fresh \subseteq Coin /\ fresh \cap issued = {} /\ bundle \subseteq fresh
      /\ UNCHANGED <<store, given, recorded, claimed, drawn, erred>>
  BY DEF W!Swap, W!Mints, W!At, W!Unsigned
<1>2. /\ spend \in Spends /\ spend.held = Mine /\ spend.bundle = {}
      /\ spend.show \subseteq Mine
  BY <1>1 DEF WalletInv, SpendTypes, OfSpend, W!At
<1>3. /\ spend' \in Spends /\ spend'.at \in {"deliver", "commit", "melt"}
      /\ spend'.rid = spend.rid /\ spend'.show = spend.show /\ spend'.bundle = bundle
      /\ spend'.held = (spend.held \ spend.show) \cup (fresh \ bundle)
  <2> DEFINE at == CASE spend.tool = "fetch" -> "deliver"
                     [] spend.tool = "send" -> "commit"
                     [] OTHER -> "melt"
             held == W!Keeps(fresh, bundle)
  <2>1. at \in {"deliver", "commit", "melt"}
    OBVIOUS
  <2>2. held = (spend.held \ spend.show) \cup (fresh \ bundle)
    BY DEF W!Keeps
  <2>3. spend' = [spend EXCEPT !.at = at, !.bundle = bundle, !.held = held]
    BY DEF W!Swap
  <2>4. held \subseteq Coin /\ bundle \subseteq Coin
    BY <1>1, <1>2, <2>2 DEF Spends
  <2> HIDE DEF at, held
  <2> QED
    BY <1>2, <2>1, <2>2, <2>3, <2>4 DEF Spends, SpendSteps
<1>4. /\ Mine' = Mine /\ Mine \cap store.free = {}
      /\ Mine \subseteq issued /\ store.free \subseteq issued
      /\ W!Held(store') = W!Held(store)
  <2>1. spend.rid \in Ids
    BY <1>1, HasReservation DEF WalletInv
  <2>2. Mine \cap store.free = {} /\ Mine \subseteq issued /\ store.free \subseteq issued
    BY <2>1, MineIsHeld DEF WalletInv, SpendTypes
  <2> QED
    BY <1>1, <1>3, <2>2 DEF Mine, W!Held
<1>5. SpendTypes'
  BY <1>1, <1>2, <1>3, <1>4 DEF WalletInv, SpendTypes
<1>6. OfSpend'
  BY <1>1, <1>2, <1>3, <1>4 DEF WalletInv, OfSpend, W!At
<1>7. Accounted'
  BY <1>1, <1>2, <1>3, <1>4 DEF Accounted, W!At
<1>8. recorded \subseteq issued /\ given \subseteq issued /\ spent \subseteq issued
  BY DEF WalletInv, SpendTypes
<1>9. Unpaid'
  <2>1. store.free \cap Gone' = {} /\ Mine \cap Gone' = {} /\ spend.held \cap Gone' = {}
    BY <1>1 DEF WalletInv, Unpaid, Gone
  <2>2. fresh \cap Gone' = {}
    BY <1>1, <1>8 DEF Gone
  <2> QED
    BY <1>1, <1>3, <1>4, <2>1, <2>2 DEF Unpaid
<1>10. Unspent'
  <2>1. ~erred => store.free \cap Stale = {} /\ spend.held \cap Stale = {}
    BY DEF WalletInv, Unspent
  <2>2. Stale' = Stale \cup (spend.show \ Incoming) /\ fresh \cap Stale' = {}
    BY <1>1, <1>2, <1>4, <1>8 DEF Stale
  <2> QED
    BY <1>1, <1>2, <1>3, <1>4, <2>1, <2>2 DEF Unspent
<1>11. NoSilentLoss'
  BY <1>1, <1>2, <1>3, <1>4 DEF WalletInv, NoSilentLoss, W!NoSilentLoss
<1> QED
  BY <1>5, <1>6, <1>7, <1>9, <1>10, <1>11 DEF WalletInv

LEMMA DeliverKeeps ==
  ASSUME WalletInv, NEW arrives \in BOOLEAN, W!Deliver(arrives)
  PROVE  WalletInv'
<1>1. /\ spend.at = "deliver" /\ spend' = [spend EXCEPT !.at = "commit"]
      /\ given \subseteq given' /\ given' \subseteq given \cup spend.bundle
      /\ UNCHANGED <<store, issued, spent, recorded, claimed, drawn, erred>>
  BY DEF W!Deliver, W!Moves, W!At, W!Ledger
<1>2. /\ spend' \in Spends /\ spend'.at = "commit" /\ spend'.rid = spend.rid
      /\ spend'.show = spend.show /\ spend'.held = spend.held /\ spend'.bundle = spend.bundle
  BY <1>1 DEF WalletInv, SpendTypes, Spends, SpendSteps
<1>3. SpendTypes' /\ NoSilentLoss'
  BY <1>1, <1>2, CallMoves DEF WalletInv, SpendTypes
<1>4. Mine' = Mine
  BY <1>1, <1>2 DEF Mine
<1>5. OfSpend' /\ Accounted'
  BY <1>1, <1>2, <1>4 DEF WalletInv, OfSpend, Accounted, W!At
<1>6. Unpaid'
  <2>1. spend.bundle \cap spend.held = {}
    BY DEF WalletInv, SpendTypes
  <2> QED
    BY <1>1, <1>2, <2>1 DEF WalletInv, Unpaid, Gone
<1>7. Unspent'
  BY <1>1, <1>2 DEF WalletInv, Unspent, Stale
<1> QED
  BY <1>3, <1>5, <1>6, <1>7 DEF WalletInv

(* Coins that only others, or the call to pay with, have are spent.        *)
LEMMA OnlySpends ==
  ASSUME WalletInv, NEW ys \in SUBSET issued, spent' = spent \cup ys,
         UNCHANGED <<store, issued, given, recorded, claimed, drawn>>,
         spend' \in Spends, spend'.rid = spend.rid, spend'.show = spend.show,
         spend'.held = spend.held, spend'.bundle = spend.bundle,
         erred => erred'
  PROVE  SpendTypes' /\ NoSilentLoss'
<1>1. SpendTypes /\ NoSilentLoss
  BY DEF WalletInv
<1>2. SpendTypes'
  BY <1>1 DEF SpendTypes
<1>3. NoSilentLoss'
  BY <1>1 DEF NoSilentLoss, W!NoSilentLoss
<1> QED
  BY <1>2, <1>3

LEMMA MeltKeeps ==
  ASSUME WalletInv, W!Melt
  PROVE  WalletInv'
<1>1. /\ spend.at = "melt" /\ spend' = [spend EXCEPT !.at = "commit"]
      /\ spent' = spent \cup spend.bundle
      /\ UNCHANGED <<store, issued, given, recorded, claimed, drawn, erred>>
  BY DEF W!Melt, W!Moves, W!At, W!Ledger
<1>2. /\ spend' \in Spends /\ spend'.at = "commit" /\ spend'.rid = spend.rid
      /\ spend'.show = spend.show /\ spend'.held = spend.held /\ spend'.bundle = spend.bundle
  BY <1>1 DEF WalletInv, SpendTypes, Spends, SpendSteps
<1>3. spend.bundle \subseteq issued /\ spend.bundle \cap spend.held = {}
  BY DEF WalletInv, SpendTypes
<1>4. SpendTypes' /\ NoSilentLoss'
  BY <1>1, <1>2, <1>3, OnlySpends
<1>5. Mine' = Mine
  BY <1>1, <1>2 DEF Mine
<1>6. OfSpend' /\ Accounted'
  BY <1>1, <1>2, <1>5 DEF WalletInv, OfSpend, Accounted, W!At
<1>7. Unpaid' /\ Unspent'
  BY <1>1, <1>2, <1>3 DEF WalletInv, Unpaid, Unspent, Gone, Stale
<1> QED
  BY <1>4, <1>6, <1>7 DEF WalletInv

LEMMA OthersSpendKeeps ==
  ASSUME WalletInv, NEW y \in Coin, W!OthersSpend(y)
  PROVE  WalletInv'
<1>1. /\ y \in given /\ spent' = spent \cup {y}
      /\ UNCHANGED <<store, issued, given, recorded, claimed, spend, drawn, erred>>
  BY DEF W!OthersSpend
<1>2. spend \in Spends /\ {y} \subseteq issued
  BY <1>1 DEF WalletInv, SpendTypes
<1>3. SpendTypes' /\ NoSilentLoss'
  BY <1>1, <1>2, OnlySpends
<1>4. Mine' = Mine
  BY <1>1 DEF Mine
<1>5. OfSpend' /\ Accounted'
  BY <1>1, <1>4 DEF WalletInv, OfSpend, Accounted, W!At
<1>6. Unpaid'
  BY <1>1, <1>4 DEF WalletInv, Unpaid, Gone
<1>7. Unspent'
  <2>1. y \notin Incoming => y \in Gone
    BY <1>1 DEF Gone
  <2>2. spend.at \in {"ask", "swap", "release"} => Mine \cap Gone = {}
    BY DEF WalletInv, Unpaid
  <2> QED
    BY <1>1, <1>4, <2>1, <2>2 DEF WalletInv, Unpaid, Unspent, Stale
<1> QED
  BY <1>3, <1>5, <1>6, <1>7 DEF WalletInv

(* A melt that fails or whose answer is lost: the reservation is released. *)
LEMMA MeltThrowsKeeps ==
  ASSUME WalletInv, W!MeltThrows
  PROVE  WalletInv'
<1>1. /\ spend.at = "melt" /\ spend' = [spend EXCEPT !.at = "release"]
      /\ spent' = spent \/ spent' = spent \cup spend.bundle
      /\ erred' = TRUE
      /\ UNCHANGED <<store, issued, given, recorded, claimed, drawn>>
  BY DEF W!MeltThrows, W!Moves, W!At
<1>2. /\ spend' \in Spends /\ spend'.at = "release" /\ spend'.rid = spend.rid
      /\ spend'.show = spend.show /\ spend'.held = spend.held /\ spend'.bundle = spend.bundle
  BY <1>1 DEF WalletInv, SpendTypes, Spends, SpendSteps
<1>3. PICK ys \in {{}, spend.bundle} : spent' = spent \cup ys
  BY <1>1
<1>4. ys \subseteq issued
  BY <1>3 DEF WalletInv, SpendTypes
<1>5. SpendTypes' /\ NoSilentLoss'
  BY <1>1, <1>2, <1>3, <1>4, OnlySpends
<1>6. Mine' = Mine
  BY <1>1, <1>2 DEF Mine
<1>7. OfSpend' /\ Accounted' /\ Unspent'
  BY <1>1, <1>2, <1>6 DEF WalletInv, OfSpend, Accounted, Unspent, W!At
<1>8. Unpaid'
  BY <1>1, <1>2, <1>6 DEF WalletInv, Unpaid, Gone
<1> QED
  BY <1>5, <1>7, <1>8 DEF WalletInv

(* A swap that fails, or that the mint did although its answer is lost.    *)
LEMMA SwapThrowsKeeps ==
  ASSUME WalletInv, W!SwapThrows
  PROVE  WalletInv'
<1>1. /\ spend.at = "swap" /\ spend' = [spend EXCEPT !.at = "release"]
      /\ erred' = TRUE
      /\ UNCHANGED <<store, given, recorded, claimed, drawn>>
  BY DEF W!SwapThrows, W!Moves, W!At
<1>2. /\ issued \subseteq issued' /\ issued' \subseteq Coin
      /\ spent' \subseteq issued'
  <2>1. \/ spent' = spent /\ issued' = issued
        \/ \E fresh \in SUBSET W!Unsigned : W!Mints(spend.show, fresh)
    BY DEF W!SwapThrows, W!Ledger
  <2>2. spent \subseteq issued /\ spend.show \subseteq issued /\ issued \subseteq Coin
    BY DEF WalletInv, SpendTypes
  <2> QED
    BY <2>1, <2>2 DEF W!Mints, W!Unsigned
<1>3. /\ spend' \in Spends /\ spend'.at = "release" /\ spend'.rid = spend.rid
      /\ spend'.show = spend.show /\ spend'.held = spend.held /\ spend'.bundle = spend.bundle
  BY <1>1 DEF WalletInv, SpendTypes, Spends, SpendSteps
<1>4. SpendTypes'
  BY <1>1, <1>2, <1>3 DEF WalletInv, SpendTypes
<1>5. Mine' = Mine
  BY <1>1, <1>3 DEF Mine
<1>6. OfSpend' /\ Accounted' /\ Unspent'
  BY <1>1, <1>3, <1>5 DEF WalletInv, OfSpend, Accounted, Unspent, W!At
<1>7. Unpaid'
  BY <1>1, <1>3, <1>5 DEF WalletInv, Unpaid, Gone
<1>8. NoSilentLoss'
  BY <1>1 DEF NoSilentLoss, W!NoSilentLoss
<1> QED
  BY <1>4, <1>6, <1>7, <1>8 DEF WalletInv

-----------------------------------------------------------------------------
LEMMA NoCall ==
  /\ W!Idle \in Spends /\ W!Idle.at = "idle" /\ W!Idle.rid = "none"
  /\ W!Idle.held = {} /\ W!Idle.show = {} /\ W!Idle.bundle = {}
BY DEF W!Idle, Spends, SpendSteps

(* What a call keeps goes back, what it paid with is in the history.       *)
LEMMA CommitKeeps ==
  ASSUME WalletInv, W!CommitSpend
  PROVE  WalletInv'
<1>1. /\ spend.at = "commit" /\ spend' = W!Idle
      /\ store' = W!Commit(store, spend.rid, spend.held)
      /\ recorded' = recorded \cup spend.bundle
      /\ given \subseteq given' /\ given' \subseteq given \cup spend.bundle
      /\ UNCHANGED <<issued, spent, claimed, drawn, erred>>
  BY DEF W!CommitSpend, W!At, W!Ledger
<1>2. /\ SpendTypes /\ spend.rid \in Ids /\ spend.rid \in store.live /\ spend.rid # "none"
      /\ spend.held \in SUBSET Coin
  BY <1>1, HasReservation DEF WalletInv, SpendTypes, Spends
<1>3. /\ store' \in W!Snapshots /\ W!Partition(store')
      /\ store'.free \subseteq store.free \cup spend.held
      /\ store'.live = store.live \ {spend.rid}
      /\ W!Held(store') \subseteq W!Held(store) \cup spend.held
      /\ (W!Held(store) \ Mine) \cup spend.held \subseteq W!Held(store')
  BY <1>1, <1>2, Committing DEF Mine
<1>4. /\ spend' \in Spends /\ spend'.at = "idle" /\ spend'.rid = "none"
      /\ spend'.held = {} /\ spend'.show = {} /\ spend'.bundle = {}
  BY <1>1, NoCall
<1>5. /\ {spend.held, spend.bundle} \subseteq SUBSET issued
      /\ spend.bundle \cap spend.held = {}
  BY <1>2 DEF SpendTypes
<1>6. SpendTypes'
  BY <1>1, <1>2, <1>3, <1>4, <1>5 DEF SpendTypes
<1>7. OfSpend' /\ Accounted'
  BY <1>4 DEF OfSpend, Accounted, W!At
<1>8. Unpaid'
  BY <1>1, <1>3, <1>4, <1>5 DEF WalletInv, Unpaid, Gone
<1>9. Unspent'
  BY <1>1, <1>3, <1>4 DEF WalletInv, Unspent, Stale
<1>10. NoSilentLoss'
  <2> SUFFICES ASSUME ~erred, NEW y \in issued, y \notin spent \cup given' \cup recorded' \cup claimed,
                      store'.live \ {"none"} = {}
               PROVE  y \in W!Held(store')
    BY <1>1, <1>4 DEF NoSilentLoss, W!NoSilentLoss
  <2>1. store.live \ {spend.rid} = {}
    BY <1>3, StoresAssumption, <1>2 DEF SpendTypes, W!Snapshots
  <2>2. y \in W!Held(store) \cup spend.held \cup spend.bundle
    BY <1>1, <2>1 DEF WalletInv, NoSilentLoss, W!NoSilentLoss
  <2>3. y \in Mine => y \in spend.held
    BY <1>1 DEF WalletInv, Accounted
  <2> QED
    BY <1>1, <1>3, <2>2, <2>3
<1> QED
  BY <1>6, <1>7, <1>8, <1>9, <1>10 DEF WalletInv

(* A spend that threw gives back what it had reserved.                     *)
LEMMA ReleaseKeeps ==
  ASSUME WalletInv, W!ReleaseSpend
  PROVE  WalletInv'
<1>1. /\ spend.at = "release" /\ spend' = W!Idle
      /\ store' = W!Release(store, spend.rid)
      /\ UNCHANGED <<issued, spent, given, recorded, claimed, drawn, erred>>
  BY DEF W!ReleaseSpend, W!At, W!Ledger
<1>2. SpendTypes /\ spend.rid \in Ids /\ spend.rid \in store.live /\ spend.rid # "none"
  BY <1>1, HasReservation DEF WalletInv
<1>3. /\ store' \in W!Snapshots /\ W!Partition(store')
      /\ store'.free = store.free \cup Mine
      /\ store'.live = store.live \ {spend.rid}
      /\ W!Held(store') = W!Held(store)
  BY <1>1, <1>2, Releasing DEF Mine
<1>4. /\ spend' \in Spends /\ spend'.at = "idle" /\ spend'.rid = "none"
      /\ spend'.held = {} /\ spend'.show = {} /\ spend'.bundle = {}
  BY <1>1, NoCall
<1>5. SpendTypes'
  BY <1>1, <1>2, <1>3, <1>4 DEF SpendTypes
<1>6. OfSpend' /\ Accounted'
  BY <1>4 DEF OfSpend, Accounted, W!At
<1>7. Unpaid' /\ Unspent'
  BY <1>1, <1>3, <1>4 DEF WalletInv, Unpaid, Unspent, Gone, Stale
<1>8. NoSilentLoss'
  <2> SUFFICES ASSUME ~erred, NEW y \in issued, y \notin spent \cup given \cup recorded \cup claimed,
                      store'.live \ {"none"} = {}
               PROVE  y \in W!Held(store')
    BY <1>1, <1>4 DEF NoSilentLoss, W!NoSilentLoss
  <2>1. store.live \ {spend.rid} = {}
    BY <1>3, StoresAssumption, <1>2 DEF SpendTypes, W!Snapshots
  <2>2. y \in W!Held(store) \cup spend.held \cup spend.bundle
    BY <2>1 DEF WalletInv, NoSilentLoss, W!NoSilentLoss
  <2>3. spend.held \cup spend.bundle \subseteq Mine /\ Mine \subseteq W!Held(store)
    BY <1>1, <1>2, MineIsHeld DEF WalletInv, Accounted, W!At
  <2> QED
    BY <1>3, <2>2, <2>3
<1> QED
  BY <1>5, <1>6, <1>7, <1>8 DEF WalletInv

-----------------------------------------------------------------------------
(* A token is claimed: the fresh coins are in the call until they are in   *)
(* the store.                                                              *)
LEMMA ReceiveKeeps ==
  ASSUME WalletInv, NEW ins \in SUBSET Incoming, NEW fresh \in SUBSET W!Unsigned,
         W!Receive(ins, fresh)
  PROVE  WalletInv'
<1>1. /\ spend.at = "idle" /\ spend' = [W!Idle EXCEPT !.at = "add", !.held = fresh]
      /\ spent' = spent \cup ins /\ issued' = issued \cup fresh
      /\ fresh \subseteq Coin /\ fresh \cap issued = {}
      /\ claimed' = claimed \cup fresh
      /\ UNCHANGED <<store, given, recorded, drawn, erred>>
  BY DEF W!Receive, W!Ready, W!Mints, W!At, W!Unsigned
<1>2. /\ spend' \in Spends /\ spend'.at = "add" /\ spend'.rid = "none"
      /\ spend'.held = fresh /\ spend'.show = {} /\ spend'.bundle = {}
  BY <1>1 DEF W!Idle, Spends, SpendSteps
<1>3. /\ SpendTypes /\ spend.rid = "none" /\ spend.held = {} /\ spend.bundle = {}
      /\ store.free \subseteq issued
  BY <1>1 DEF WalletInv, SpendTypes, OfSpend, W!At, W!Held
<1>4. W!Held(store') = W!Held(store)
  BY <1>1 DEF W!Held
<1>5. SpendTypes'
  BY <1>1, <1>2, <1>3, <1>4 DEF SpendTypes
<1>6. OfSpend' /\ Accounted'
  BY <1>1, <1>2 DEF OfSpend, Accounted, W!At
<1>7. recorded \subseteq issued /\ given \subseteq issued /\ spent \subseteq issued
  BY <1>3 DEF SpendTypes
<1>8. Unpaid'
  BY <1>1, <1>2, <1>3, <1>7 DEF WalletInv, Unpaid, Gone
<1>9. Unspent'
  <2>1. Stale' = Stale
    BY <1>1 DEF Stale
  <2> QED
    BY <1>1, <1>2, <1>7, <2>1 DEF WalletInv, Unspent, Stale
<1>10. NoSilentLoss'
  BY <1>1, <1>2, <1>3, <1>4 DEF WalletInv, NoSilentLoss, W!NoSilentLoss
<1> QED
  BY <1>5, <1>6, <1>8, <1>9, <1>10 DEF WalletInv

LEMMA HoldBudgetKeeps ==
  ASSUME WalletInv, NEW proofs \in SUBSET Incoming, W!HoldBudget(proofs)
  PROVE  WalletInv'
<1>1. /\ spend.at = "idle" /\ spend' = [W!Idle EXCEPT !.at = "add", !.held = proofs]
      /\ UNCHANGED <<store, issued, spent, given, recorded, claimed, drawn, erred>>
  BY DEF W!HoldBudget, W!Ready, W!At, W!Ledger
<1>2. /\ SpendTypes /\ spend.rid = "none" /\ spend.held = {} /\ spend.bundle = {}
      /\ proofs \subseteq given /\ proofs \subseteq issued
  BY <1>1 DEF WalletInv, SpendTypes, OfSpend, W!At
<1>3. /\ spend' \in Spends /\ spend'.at = "add" /\ spend'.rid = "none"
      /\ spend'.held = proofs /\ spend'.show = {} /\ spend'.bundle = {}
  BY <1>1, StoresAssumption DEF W!Idle, Spends, SpendSteps
<1>4. W!Held(store') = W!Held(store)
  BY <1>1 DEF W!Held
<1>5. SpendTypes'
  BY <1>1, <1>2, <1>3, <1>4 DEF SpendTypes
<1>6. OfSpend' /\ Accounted'
  BY <1>1, <1>2, <1>3 DEF OfSpend, Accounted, W!At
<1>7. Unpaid' /\ Unspent'
  BY <1>1, <1>3 DEF WalletInv, Unpaid, Unspent, Gone, Stale
<1>8. NoSilentLoss'
  BY <1>1, <1>2, <1>3, <1>4 DEF WalletInv, NoSilentLoss, W!NoSilentLoss
<1> QED
  BY <1>5, <1>6, <1>7, <1>8 DEF WalletInv

LEMMA AddKeeps ==
  ASSUME WalletInv, W!Add
  PROVE  WalletInv'
<1>1. /\ spend.at = "add" /\ spend' = W!Idle
      /\ store' = W!AddTo(store, spend.held)
      /\ UNCHANGED <<issued, spent, given, recorded, claimed, drawn, erred>>
  BY DEF W!Add, W!At, W!Ledger
<1>2. /\ SpendTypes /\ spend.rid = "none" /\ spend.bundle = {}
      /\ spend.held \in SUBSET Coin /\ spend.held \subseteq issued
  BY <1>1 DEF WalletInv, SpendTypes, OfSpend, W!At, Spends
<1>3. /\ store' \in W!Snapshots /\ W!Partition(store')
      /\ store'.free \subseteq store.free \cup spend.held
      /\ store'.live = store.live
      /\ W!Held(store') = W!Held(store) \cup spend.held
  BY <1>1, <1>2, Adding
<1>4. /\ spend' \in Spends /\ spend'.at = "idle" /\ spend'.rid = "none"
      /\ spend'.held = {} /\ spend'.show = {} /\ spend'.bundle = {}
  BY <1>1, NoCall
<1>5. SpendTypes'
  BY <1>1, <1>2, <1>3, <1>4 DEF SpendTypes
<1>6. OfSpend' /\ Accounted'
  BY <1>4 DEF OfSpend, Accounted, W!At
<1>7. Unpaid' /\ Unspent'
  BY <1>1, <1>3, <1>4 DEF WalletInv, Unpaid, Unspent, Gone, Stale
<1>8. NoSilentLoss'
  BY <1>1, <1>2, <1>3, <1>4 DEF WalletInv, NoSilentLoss, W!NoSilentLoss
<1> QED
  BY <1>5, <1>6, <1>7, <1>8 DEF WalletInv

(* What was in memory is gone: a spend leaves its reservation behind, and  *)
(* what a receive held is with whoever sent it, or was claimed.            *)
LEMMA WalletCrashKeeps ==
  ASSUME WalletInv, W!Crash
  PROVE  WalletInv'
<1>1. /\ spend' = W!Idle
      /\ UNCHANGED <<store, issued, spent, given, recorded, claimed, drawn, erred>>
  BY DEF W!Crash, W!Ledger
<1>2. /\ spend' \in Spends /\ spend'.at = "idle" /\ spend'.rid = "none"
      /\ spend'.held = {} /\ spend'.show = {} /\ spend'.bundle = {}
  BY <1>1, NoCall
<1>3. SpendTypes /\ W!Held(store') = W!Held(store)
  BY <1>1 DEF WalletInv, W!Held
<1>4. SpendTypes'
  BY <1>1, <1>2, <1>3 DEF SpendTypes
<1>5. OfSpend' /\ Accounted'
  BY <1>2 DEF OfSpend, Accounted, W!At
<1>6. Unpaid' /\ Unspent'
  BY <1>1, <1>2 DEF WalletInv, Unpaid, Unspent, Gone, Stale
<1>7. NoSilentLoss'
  <2> SUFFICES ASSUME ~erred, NEW y \in issued, y \notin spent \cup given \cup recorded \cup claimed,
                      store.live \ {"none"} = {}
               PROVE  y \in W!Held(store)
    BY <1>1, <1>2, <1>3 DEF NoSilentLoss, W!NoSilentLoss
  <2>1. store.live \subseteq Ids
    BY <1>3 DEF SpendTypes, W!Snapshots
  <2>2. store.live = {}
    BY <2>1, StoresAssumption
  <2>3. spend.at \in {"idle", "add"}
    BY <2>2 DEF WalletInv, OfSpend
  <2>4. spend.bundle = {} /\ spend.held \subseteq claimed \cup given
    BY <2>3 DEF WalletInv, OfSpend, W!At
  <2> QED
    BY <2>2, <2>4 DEF WalletInv, NoSilentLoss, W!NoSilentLoss
<1> QED
  BY <1>4, <1>5, <1>6, <1>7 DEF WalletInv

LEMMA WalletRests ==
  ASSUME WalletInv, UNCHANGED walletVars
  PROVE  WalletInv'
<1>1. UNCHANGED <<store, issued, spent, given, recorded, claimed, spend, drawn, erred>>
  BY DEF walletVars
<1>2. Mine' = Mine /\ W!Held(store') = W!Held(store)
  BY <1>1 DEF Mine, W!Held
<1>3. SpendTypes' /\ OfSpend'
  BY <1>1, <1>2 DEF WalletInv, SpendTypes, OfSpend, W!At
<1>4. Unpaid' /\ Unspent' /\ Accounted'
  BY <1>1, <1>2 DEF WalletInv, Unpaid, Unspent, Accounted, Gone, Stale, W!At
<1>5. NoSilentLoss'
  BY <1>1, <1>2 DEF WalletInv, NoSilentLoss, W!NoSilentLoss
<1> QED
  BY <1>3, <1>4, <1>5 DEF WalletInv

LEMMA WalletStep ==
  ASSUME WalletInv, W!Next
  PROVE  WalletInv'
<1>1. ASSUME NEW i \in Ids, W!StartFetch(i)
      PROVE  WalletInv'
  BY <1>1, StartKeeps DEF W!StartFetch
<1>2. ASSUME NEW i \in Ids, NEW n \in W!Amounts, W!StartSend(i, n) \/ W!StartMelt(i, n)
      PROVE  WalletInv'
  <2>1. n \in Nat /\ n + Fee \in Nat
    BY StoresAssumption DEF W!Amounts
  <2>2. W!spendableOf(store.free) \subseteq store.free
    BY DEF W!spendableOf
  <2> QED
    BY <1>2, <2>1, <2>2, StartKeeps DEF W!StartSend, W!StartMelt
<1>3. ASSUME NEW n \in W!Amounts, W!PayFromBudget(n) \/ W!Challenged(n)
      PROVE  WalletInv'
  <2>1. n \in Nat
    BY DEF W!Amounts
  <2> QED
    BY <1>3, <2>1, PayFromBudgetKeeps, ChallengedKeeps
<1>4. ASSUME NEW fresh \in SUBSET W!Unsigned, NEW bundle \in SUBSET fresh, W!Swap(fresh, bundle)
      PROVE  WalletInv'
  BY <1>4, SwapKeeps
<1>5. ASSUME NEW fresh \in SUBSET W!Unsigned, NEW ins \in SUBSET Incoming, W!Receive(ins, fresh)
      PROVE  WalletInv'
  BY <1>5, ReceiveKeeps
<1>6. ASSUME NEW arrives \in BOOLEAN, W!Deliver(arrives)
      PROVE  WalletInv'
  BY <1>6, DeliverKeeps
<1>7. ASSUME NEW proofs \in SUBSET Incoming, W!HoldBudget(proofs)
      PROVE  WalletInv'
  BY <1>7, HoldBudgetKeeps
<1>8. ASSUME NEW y \in Coin, W!OthersSpend(y)
      PROVE  WalletInv'
  BY <1>8, OthersSpendKeeps
<1>9. CASE W!Answered \/ W!Melt \/ W!CommitSpend \/ W!ReleaseSpend \/ W!Add
  BY <1>9, AnsweredKeeps, MeltKeeps, CommitKeeps, ReleaseKeeps, AddKeeps
<1>10. CASE W!Crash \/ W!SwapThrows \/ W!MeltThrows
  BY <1>10, WalletCrashKeeps, SwapThrowsKeeps, MeltThrowsKeeps
<1> QED
  BY <1>1, <1>2, <1>3, <1>4, <1>5, <1>6, <1>7, <1>8, <1>9, <1>10 DEF W!Next

-----------------------------------------------------------------------------
(* The invariant of the wallet service: what a running call has of its     *)
(* reservation, and that nothing spendable was handed out or spent.        *)
THEOREM ServiceInvariant == AllSpec => []WalletInv
<1>1. AllInit => WalletInv
  BY WalletInitInv DEF AllInit
<1>2. WalletInv /\ [AllNext]_all => WalletInv'
  BY WalletStep, WalletRests DEF AllNext, all
<1> QED
  BY <1>1, <1>2, PTL DEF AllSpec

(* What was paid or handed over never becomes spendable again, also when   *)
(* the mint fails (wallet-service.ts:171-183, 283-289).                    *)
THEOREM PaidStaysGone == AllSpec => []PaidIsGone
<1>1. WalletInv => PaidIsGone
  BY DEF WalletInv, Unpaid, Gone, PaidIsGone, W!PaidIsGone
<1> QED
  BY <1>1, ServiceInvariant, PTL

(* While the mint answers, the store offers no coin that is spent, however *)
(* a spend dies or fails (store.ts:219-235).                               *)
THEOREM FreeStaysUnspent == AllSpec => []FreeIsUnspent
<1>1. WalletInv => FreeIsUnspent
  BY DEF WalletInv, Unspent, Stale, FreeIsUnspent, W!FreeIsUnspent, W!OffersUnspent
<1> QED
  BY <1>1, ServiceInvariant, PTL

(* A coin that is missing shows as a reservation, or somebody was given it *)
(* (wallet-service.ts:149-201).                                            *)
THEOREM NothingLostSilently == AllSpec => []NoSilentLoss
<1>1. WalletInv => NoSilentLoss
  BY DEF WalletInv
<1> QED
  BY <1>1, ServiceInvariant, PTL

(* The types of the wallet service.                                        *)
LEMMA ServiceTyped == WalletInv => W!TypeOK
<1> SUFFICES ASSUME WalletInv PROVE W!TypeOK
  OBVIOUS
<1>1. W!Partition(store) /\ store.free \subseteq Coin /\ spent \subseteq issued /\ issued \subseteq Coin
  BY DEF WalletInv, SpendTypes, W!Snapshots
<1>2. {spend.held, spend.show, spend.bundle} \subseteq SUBSET issued
      /\ spend.bundle \cap spend.held = {}
  BY DEF WalletInv, SpendTypes
<1>3. spend.rid \in drawn \cup {"none"}
  <2>1. spend.at \in {"idle", "add"} => spend.rid = "none"
    BY DEF WalletInv, OfSpend, W!At
  <2>2. spend.at \notin {"idle", "add"} => spend.rid \in drawn
    BY DEF WalletInv, OfSpend, SpendTypes
  <2> QED
    BY <2>1, <2>2
<1> QED
  BY <1>1, <1>2, <1>3 DEF W!TypeOK

(* The types of the file store, and what a holder of coins can rely on.    *)
LEMMA FileTyped == FileInv => TypeOK /\ HeldIsRecorded
<1> SUFFICES ASSUME FileInv PROVE TypeOK /\ HeldIsRecorded
  OBVIOUS
<1>1. \A s \in Snapshots : Partition(s) => IsWallet(s)
  BY DEF IsWallet, Snapshots
<1>2. IsWallet(cache)
  BY <1>1 DEF FileInv, FileTypes, Partitions
<1>3. ASSUME NEW i \in Inodes
      PROVE  content[i].form \in {"json", "blank", "torn"} /\ IsWallet(content[i].snap)
  <2>1. content[i] \in Texts /\ Partition(content[i].snap)
    BY DEF FileInv, FileTypes, Partitions
  <2> QED
    BY <1>1, <2>1 DEF Texts
<1>4. ASSUME NEW c \in Callers
      PROVE  /\ call[c].op \in Operations
             /\ IsWallet(call[c].next)
             /\ call[c].at \in {"write", "sync", "rename"} => call[c].fd \in Inodes
  <2>1. call[c] \in Calls /\ Partition(call[c].next) /\ CallOK(c)
    BY DEF FileInv, FileTypes, Partitions
  <2>2. IsWallet(call[c].next)
    BY <1>1, <2>1 DEF Calls
  <2>3. call[c].at \in {"write", "sync", "rename"} => call[c].fd \in Inodes
    BY <2>1 DEF CallOK, FileInv, FileTypes
  <2> QED
    BY <2>1, <2>2, <2>3 DEF Calls
<1>5. TypeOK
  BY <1>2, <1>3, <1>4 DEF TypeOK, FileInv, FileTypes
<1>6. HeldIsRecorded
  BY DEF HeldIsRecorded, FileInv, CallOK, Recorded
<1> QED
  BY <1>5, <1>6

(* With one tool call at a time the file behaves as one atomic snapshot,   *)
(* whatever dies between two system calls (store.ts:190): only a rename    *)
(* changes it, to what one legal operation makes of it.                    *)
THEOREM FileIsAtomic == ASSUME Serial PROVE AllSpec => FileKeeps
<1>1. AllInit => FileInv /\ Store!Init
  <2>1. Init => Store!Init
    BY DEF Init, Store!Init, Stored, Json, EMPTY_SNAPSHOT, Store!EMPTY_SNAPSHOT
  <2> QED
    BY <2>1, FileInitInv DEF AllInit
<1>2. FileInv /\ [AllNext]_all => FileInv' /\ [Store!Next]_(Stored.snap)
  <2> SUFFICES ASSUME FileInv, [AllNext]_all
               PROVE  FileInv' /\ (Store!Next \/ Stored.snap' = Stored.snap)
    BY DEF AllNext
  <2>1. Next \/ UNCHANGED vars
    BY DEF AllNext, all
  <2> QED
    BY <2>1, FileStep, FileRests
<1>3. FileInv => Stored.form = "json"
  BY DEF FileInv, OnDisk, Stored, Json
<1>4. FileInv /\ WalletInv => WalletTypes
  BY FileTyped, ServiceTyped DEF WalletTypes
<1> QED
  BY <1>1, <1>2, <1>3, <1>4, ServiceInvariant, PTL
     DEF AllSpec, FileKeeps, AtomicStore, Store!Spec

-----------------------------------------------------------------------------
(* The store on a relay, as its proofs know it.                            *)
EP == INSTANCE StoreProofs WITH
        Sessions <- Callers, MaxFaults <- MaxReaped,
        call <- session, drawn <- taken, faults <- reaped

(* Both speak of the same transitions.                                     *)
LEMMA RelayTransitions ==
  /\ E!EMPTY_SNAPSHOT = EP!EMPTY_SNAPSHOT
  /\ \A snap, op : E!Legal(snap, op) <=> EP!Legal(snap, op)
  /\ \A snap, op : E!Result(snap, op) = EP!Result(snap, op)
<1>1. E!EMPTY_SNAPSHOT = EP!EMPTY_SNAPSHOT
  BY DEF E!EMPTY_SNAPSHOT, EP!EMPTY_SNAPSHOT
<1>2. \A snap, op : E!Legal(snap, op) <=> EP!Legal(snap, op)
  BY DEF E!Legal, EP!Legal
<1>3. \A x, ys : E!AddTo(x, ys) = EP!AddTo(x, ys)
  BY Zenon DEF E!AddTo, EP!AddTo, E!Advance, EP!Advance, E!Held, EP!Held
<1>4. \A x, i : E!Drop(x, i) = EP!Drop(x, i)
  BY Zenon DEF E!Drop, EP!Drop
<1>5. \A x, i, ys : E!Reserve(x, i, ys) = EP!Reserve(x, i, ys)
  BY Zenon DEF E!Reserve, EP!Reserve, E!Advance, EP!Advance
<1>6. \A x, i, ys : E!Commit(x, i, ys) = EP!Commit(x, i, ys)
  BY <1>3, <1>4, Zenon DEF E!Commit, EP!Commit
<1>7. \A x, i : E!Release(x, i) = EP!Release(x, i)
  BY <1>4, Zenon DEF E!Release, EP!Release, E!Advance, EP!Advance
<1>8. \A snap, op : E!Result(snap, op) = EP!Result(snap, op)
  BY <1>3, <1>5, <1>6, <1>7, Zenon DEF E!Result, EP!Result
<1> QED  BY <1>1, <1>2, <1>8

LEMMA RelayConstants ==
  E!NoEvent = EP!NoEvent /\ E!NoSeq = EP!NoSeq /\ E!Noop = EP!Noop /\ E!Idle = EP!Idle
<1>1. E!NoEvent = EP!NoEvent /\ E!NoSeq = EP!NoSeq /\ E!Noop = EP!Noop
  BY RelayTransitions DEF E!NoEvent, EP!NoEvent, E!NoSeq, EP!NoSeq, E!Noop, EP!Noop
<1> QED  BY <1>1 DEF E!Idle, EP!Idle

LEMMA RelayStart == E!Init => EP!Init
  BY RelayConstants, Zenon DEF E!Init, EP!Init

(* The actions are the same.                                               *)
LEMMA RelayActions ==
  /\ \A s, op : E!Begin(s, op) => EP!Begin(s, op)
  /\ \A s, ys : E!BeginAdd(s, ys) => EP!BeginAdd(s, ys)
  /\ \A s, i, ys : E!BeginReserve(s, i, ys) => EP!BeginReserve(s, i, ys)
  /\ \A s, kind, ys : E!BeginEnd(s, kind, ys) => EP!BeginEnd(s, kind, ys)
  /\ \A s, i : E!Fetch(s, i) => EP!Fetch(s, i)
  /\ \A s : E!Load(s) => EP!Load(s)
  /\ \A s : E!FetchRefuses(s) => EP!FetchRefuses(s)
  /\ \A s : E!Publish(s) => EP!Publish(s)
  /\ \A s : E!Verify(s) => EP!Verify(s)
  /\ \A s : E!Dies(s) => EP!Dies(s)
  /\ E!Tick => EP!Tick
<1>1. \A s, op : E!Begin(s, op) => EP!Begin(s, op)
  BY RelayConstants, Zenon DEF E!Begin, EP!Begin, E!MayStart, EP!MayStart, E!Mutating, EP!Mutating
<1>2. \A s, ys : E!BeginAdd(s, ys) => EP!BeginAdd(s, ys)
  BY <1>1, RelayConstants, Zenon DEF E!BeginAdd, EP!BeginAdd, E!At, EP!At
<1>3. \A s, i, ys : E!BeginReserve(s, i, ys) => EP!BeginReserve(s, i, ys)
  BY <1>1, Zenon DEF E!BeginReserve, EP!BeginReserve, E!At, EP!At
<1>4. \A s, kind, ys : E!BeginEnd(s, kind, ys) => EP!BeginEnd(s, kind, ys)
  BY <1>1, Zenon DEF E!BeginEnd, EP!BeginEnd, E!At, EP!At
<1>5. \A h : E!Stamp(h) = EP!Stamp(h)
  BY DEF E!Stamp, EP!Stamp, E!Larger, EP!Larger
<1>6. \A s, e : E!GoesOn(s, e) => EP!GoesOn(s, e)
  BY RelayTransitions, RelayConstants, Zenon DEF E!GoesOn, EP!GoesOn
<1>7. \A s, i : E!Fetch(s, i) => EP!Fetch(s, i)
  BY <1>5, <1>6, RelayTransitions, Zenon DEF E!Fetch, EP!Fetch, E!At, EP!At
<1>8. \A s : E!Load(s) => EP!Load(s)
  BY Zenon DEF E!Load, EP!Load, E!Mutating, EP!Mutating
<1>9. \A s : E!Ends(s) => EP!Ends(s)
  BY RelayConstants, Zenon DEF E!Ends, EP!Ends
<1>10. \A s : E!FetchRefuses(s) => EP!FetchRefuses(s)
  BY <1>9, Zenon DEF E!FetchRefuses, EP!FetchRefuses, E!At, EP!At
<1>11. \A e, f : E!Newer(e, f) <=> EP!Newer(e, f)
  BY DEF E!Newer, EP!Newer
<1>12. \A s : E!Publish(s) => EP!Publish(s)
  BY <1>11, Zenon DEF E!Publish, EP!Publish, E!At, EP!At
<1>13. \A s : E!Verify(s) => EP!Verify(s)
  BY <1>9, RelayConstants, Zenon DEF E!Verify, EP!Verify, E!At, EP!At
<1>14. \A s : E!Dies(s) => EP!Dies(s)
  BY <1>9, RelayConstants, Zenon DEF E!Dies, EP!Dies
<1>15. E!Tick => EP!Tick
  BY Zenon DEF E!Tick, EP!Tick
<1> QED
  BY <1>1, <1>2, <1>3, <1>4, <1>7, <1>8, <1>10, <1>12, <1>13, <1>14, <1>15

LEMMA RelayStep == [E!Next]_engramVars => [EP!Next]_(EP!vars)
<1>1. E!Next => EP!Next
  BY RelayActions, Zenon DEF E!Next, EP!Next
<1> QED  BY <1>1 DEF engramVars, EP!vars

LEMMA RelayClaims ==
  /\ EP!TypeOK => E!TypeOK
  /\ EP!PublishWins => E!PublishWins
  /\ EP!NoSilentOverwrite => E!HeldIsRecorded
<1>1. \A snap : EP!Partition(snap) => E!Partition(snap)
  BY DEF E!Partition, EP!Partition, E!Held, EP!Held
<1>2. EP!TypeOK => E!TypeOK
  BY <1>1, Zenon DEF E!TypeOK, EP!TypeOK, E!Operations, EP!Operations
<1>3. EP!PublishWins => E!PublishWins
  BY Zenon DEF E!PublishWins, EP!PublishWins, E!At, EP!At
<1>4. EP!NoSilentOverwrite => E!HeldIsRecorded
  BY Zenon DEF E!HeldIsRecorded, E!NoSilentOverwrite, EP!NoSilentOverwrite, E!At, EP!At
<1> QED  BY <1>2, <1>3, <1>4

(* In every step of the four, the relay's store makes one of its own or    *)
(* rests.                                                                  *)
LEMMA RelayMoves == [AllNext]_all => [EP!Next]_(EP!vars)
<1>1. [AllNext]_all => [E!Next]_engramVars
  BY DEF AllNext, all
<1> QED  BY <1>1, RelayStep

LEMMA RelayTypesHold == AllSpec => []EP!EngramTypes
<1>1. AllInit => EP!EngramTypes
  BY RelayStart, EP!TypesStart DEF AllInit
<1>2. EP!EngramTypes /\ [AllNext]_all => EP!EngramTypes'
  BY RelayMoves, EP!TypesStep
<1> QED  BY <1>1, <1>2, PTL DEF AllSpec

LEMMA RelayInvariant == ASSUME ~Overlap PROVE AllSpec => []EP!EInv
<1>1. AllInit => EP!EInv
  BY RelayStart, EP!InitInv DEF AllInit
<1>2. EP!EInv /\ [AllNext]_all => EP!EInv'
  BY RelayMoves, EP!StepKeeps
<1> QED  BY <1>1, <1>2, PTL DEF AllSpec

(* As long as mutations do not overlap, which the property says itself,    *)
(* the verifying fetch never sees another's event: created_at is above the *)
(* head's even if clocks stand still or disagree (engram-store.ts:155).    *)
THEOREM WriterWins == AllSpec => []PublishWins
<1>1. CASE Overlap
  <2>1. PublishWins
    BY <1>1 DEF PublishWins, E!PublishWins
  <2> QED  BY <2>1, PTL
<1>2. CASE ~Overlap
  <2>1. EP!EInv => PublishWins
    BY EP!InvFollows, RelayClaims DEF PublishWins
  <2> QED  BY <1>2, <2>1, RelayInvariant, PTL
<1> QED  BY <1>1, <1>2

(* As long as mutations do not overlap, which the property says itself,    *)
(* what a session was told it holds is in the record: mutate's check of    *)
(* its own event is then enough for reserve (engram-store.ts:173-177).     *)
THEOREM HoldingIsRecorded == AllSpec => []SpendsKept
<1>1. CASE Overlap
  <2>1. SpendsKept
    BY <1>1 DEF SpendsKept, E!HeldIsRecorded
  <2> QED  BY <2>1, PTL
<1>2. CASE ~Overlap
  <2>1. EP!EInv => SpendsKept
    BY EP!InvFollows, RelayClaims DEF SpendsKept
  <2> QED  BY <1>2, <2>1, RelayInvariant, PTL
<1> QED  BY <1>1, <1>2

(* As long as mutations do not overlap, the relay implements one atomic    *)
(* ProofStore: only a publication changes the wallet, and it is the        *)
(* mutation's transition applied to the wallet there was                   *)
(* (engram-store.ts:136-178).                                              *)
THEOREM RelayIsAtomic == ASSUME ~Overlap PROVE AllSpec => AtomicRelay
<1>1. AllInit => Record!Init
  BY DEF AllInit, E!Init, E!NoEvent, E!EMPTY_SNAPSHOT, Record!Init, Record!EMPTY_SNAPSHOT
<1>2. ASSUME EP!EInv, [AllNext]_all
      PROVE  [Record!Next]_(head.snap)
  <2>1. [EP!Next]_(EP!vars)
    BY <1>2, RelayMoves
  <2>2. \/ head' = head
        \/ \E op \in EP!Operations : EP!Legal(head.snap, op) /\ head'.snap = EP!Result(head.snap, op)
    BY <1>2, <2>1, EP!StepIsOperation
  <2>3. EP!Operations = Record!Operations
    BY DEF EP!Operations, Record!Operations
  <2>4. \A op : EP!Legal(head.snap, op) /\ head'.snap = EP!Result(head.snap, op) => Record!Step(op)
    BY DEF Record!Step, Record!Legal, Record!Result, Record!AddTo, Record!Reserve,
           Record!Commit, Record!Release, Record!Drop, Record!Advance, Record!Held,
           EP!Legal, EP!Result, EP!AddTo, EP!Reserve, EP!Commit, EP!Release, EP!Drop,
           EP!Advance, EP!Held
  <2> QED  BY <2>2, <2>3, <2>4 DEF Record!Next
<1> QED
  BY <1>1, <1>2, RelayInvariant, PTL DEF AllSpec, AtomicRelay, Record!Spec

-----------------------------------------------------------------------------
(* The acceptor, as its proofs know it.                                    *)
AP == INSTANCE AcceptorProofs WITH
        Requests <- Callers, Coins <- Proofs, MaxFaults <- MaxDeaths,
        call <- service, faults <- deaths

LEMMA SameStart == A!Init => AP!Init
BY Zenon DEF A!Init, AP!Init, A!Absent, AP!Absent, A!Handlers, AP!Handlers, A!Free, AP!Free

LEMMA SameSum == \A ys : AP!SumProofs(ys) = A!SumProofs(ys)
BY Zenon DEF A!SumProofs, AP!SumProofs, A!MapThenSumSet, AP!MapThenSumSet,
   A!MapThenFoldSet, AP!MapThenFoldSet

LEMMA SameClaims ==
  /\ AP!TypeOK => A!TypeOK
  /\ AP!NothingStranded => A!NothingStranded
  /\ AP!SuccessIsPaid => A!SuccessIsPaid
<1>1. AP!TypeOK => A!TypeOK
  BY Zenon DEF A!TypeOK, AP!TypeOK, A!Receipts, AP!Receipts, A!Handlers, AP!Handlers, A!Steps, AP!Steps,
     A!Over, AP!Over, A!Free, AP!Free
<1>2. AP!NothingStranded => A!NothingStranded
  BY Zenon DEF A!NothingStranded, AP!NothingStranded, A!Handlers, AP!Handlers, A!Over, AP!Over, A!Free, AP!Free
<1>3. AP!SuccessIsPaid => A!SuccessIsPaid
  BY SameSum, Zenon DEF A!SuccessIsPaid, AP!SuccessIsPaid, A!At, AP!At
<1> QED  BY <1>1, <1>2, <1>3

(* The actions are the same.                                               *)
LEMMA SameActions ==
  /\ \A c : A!Lands(c) => AP!Lands(c)
  /\ \A r, c, ys : A!Present(r, c, ys) => AP!Present(r, c, ys)
  /\ \A r, y : A!LookUp(r, y) => AP!LookUp(r, y)
  /\ \A r : A!Mark(r) => AP!Mark(r)
  /\ \A r, y : A!ClaimY(r, y) => AP!ClaimY(r, y)
  /\ \A r, y : A!LoseY(r, y) => AP!LoseY(r, y)
  /\ \A r, y, ok : A!Undo(r, y, ok) => AP!Undo(r, y, ok)
  /\ \A r, ok : A!Unmark(r, ok) => AP!Unmark(r, ok)
  /\ \A r : A!PutAccepted(r) => AP!PutAccepted(r)
  /\ \A j, c : A!Settle(j, c) => AP!Settle(j, c)
  /\ \A r : A!SettleRead(r) => AP!SettleRead(r)
  /\ \A r : A!SwapFails(r) => AP!SwapFails(r)
  /\ \A r : A!Swap(r) => AP!Swap(r)
  /\ \A r : A!SwapSpent(r) => AP!SwapSpent(r)
  /\ \A r : A!PutSettled(r) => AP!PutSettled(r)
  /\ \A r : A!PutSpent(r) => AP!PutSpent(r)
  /\ \A r : A!Dies(r) => AP!Dies(r)
  /\ \A y : A!PayerSwaps(y) => AP!PayerSwaps(y)
  /\ \A y : A!Lapse(y) => AP!Lapse(y)
  /\ \A c : A!Expire(c) => AP!Expire(c)
  /\ \A y : A!ForgetY(y) => AP!ForgetY(y)
  /\ \A c : A!ForgetPaid(c) => AP!ForgetPaid(c)
<1>1. \A c : A!Lands(c) => AP!Lands(c)
  BY Zenon DEF A!Lands, AP!Lands, A!Open, AP!Open, A!Absent, AP!Absent
<1>2. \A r, c, ys : A!Present(r, c, ys) => AP!Present(r, c, ys)
  BY SameSum, Zenon DEF A!Present, AP!Present, A!At, AP!At, A!Known, AP!Known, A!BoundTo,
     AP!BoundTo
<1>3. \A r, y : A!LookUp(r, y) => AP!LookUp(r, y)
  BY Zenon DEF A!LookUp, AP!LookUp, A!At, AP!At, A!GotoWith, AP!GotoWith, A!Free, AP!Free
<1>4. \A r : A!Mark(r) => AP!Mark(r)
  BY Zenon DEF A!Mark, AP!Mark, A!At, AP!At, A!Goto, AP!Goto, A!GotoWith, AP!GotoWith
<1>5. \A r, y : A!ClaimY(r, y) => AP!ClaimY(r, y)
  BY Zenon DEF A!ClaimY, AP!ClaimY, A!At, AP!At, A!GotoWith, AP!GotoWith, A!Free, AP!Free
<1>6. \A r, y : A!LoseY(r, y) => AP!LoseY(r, y)
  BY Zenon DEF A!LoseY, AP!LoseY, A!At, AP!At, A!GotoWith, AP!GotoWith, A!Free, AP!Free,
     A!Claimed, AP!Claimed
<1>7. \A r, y, ok : A!Undo(r, y, ok) => AP!Undo(r, y, ok)
  BY Zenon DEF A!Undo, AP!Undo, A!At, AP!At, A!GotoWith, AP!GotoWith, A!Free, AP!Free
<1>8. \A r, ok : A!Unmark(r, ok) => AP!Unmark(r, ok)
  BY Zenon DEF A!Unmark, AP!Unmark, A!At, AP!At, A!Goto, AP!Goto
<1>9. \A r : A!PutAccepted(r) => AP!PutAccepted(r)
  BY Zenon DEF A!PutAccepted, AP!PutAccepted, A!At, AP!At, A!Goto, AP!Goto, A!Accepted,
     AP!Accepted
<1>10. \A j, c : A!Settle(j, c) => AP!Settle(j, c)
  BY Zenon DEF A!Settle, AP!Settle, A!Over, AP!Over
<1>11. \A r : A!SettleRead(r) => AP!SettleRead(r)
  BY Zenon DEF A!SettleRead, AP!SettleRead, A!At, AP!At, A!Outcome, AP!Outcome
<1>12. \A r : A!SwapFails(r) => AP!SwapFails(r)
  BY Zenon DEF A!SwapFails, AP!SwapFails, A!At, AP!At, A!Goto, AP!Goto
<1>13. \A r : A!Swap(r) => AP!Swap(r)
  BY Zenon DEF A!Swap, AP!Swap, A!At, AP!At, A!Goto, AP!Goto
<1>14. \A r : A!SwapSpent(r) => AP!SwapSpent(r)
  BY Zenon DEF A!SwapSpent, AP!SwapSpent, A!At, AP!At, A!Goto, AP!Goto
<1>15. \A r : A!PutSettled(r) => AP!PutSettled(r)
  BY Zenon DEF A!PutSettled, AP!PutSettled, A!At, AP!At, A!PutReceipt, AP!PutReceipt,
     A!Goto, AP!Goto, A!Accepted, AP!Accepted, A!Outcome, AP!Outcome
<1>16. \A r : A!PutSpent(r) => AP!PutSpent(r)
  BY Zenon DEF A!PutSpent, AP!PutSpent, A!At, AP!At, A!PutReceipt, AP!PutReceipt, A!Goto,
     AP!Goto, A!Accepted, AP!Accepted, A!Outcome, AP!Outcome
<1>17. \A r : A!Dies(r) => AP!Dies(r)
  BY Zenon DEF A!Dies, AP!Dies, A!Over, AP!Over, A!GotoWith, AP!GotoWith
<1>18. \A y : A!PayerSwaps(y) => AP!PayerSwaps(y)
  BY Zenon DEF A!PayerSwaps, AP!PayerSwaps
<1>19. \A y : A!Lapse(y) => AP!Lapse(y)
  BY Zenon DEF A!Lapse, AP!Lapse
<1>20. \A c : A!Expire(c) => AP!Expire(c)
  BY Zenon DEF A!Expire, AP!Expire
<1>21. \A y : A!ForgetY(y) => AP!ForgetY(y)
  BY Zenon DEF A!ForgetY, AP!ForgetY, A!Free, AP!Free, A!Stale, AP!Stale, A!Handlers,
     AP!Handlers, A!Over, AP!Over
<1>22. \A c : A!ForgetPaid(c) => AP!ForgetPaid(c)
  BY Zenon DEF A!ForgetPaid, AP!ForgetPaid, A!Stale, AP!Stale, A!Handlers, AP!Handlers,
     A!Over, AP!Over
<1> QED  BY <1>1, <1>2, <1>3, <1>4, <1>5, <1>6, <1>7, <1>8, <1>9, <1>10, <1>11, <1>12,
            <1>13, <1>14, <1>15, <1>16, <1>17, <1>18, <1>19, <1>20, <1>21, <1>22

LEMMA SameStep == A!LongNext => AP!LongNext
<1>1. ASSUME NEW r \in A!Handlers, A!Accepting(r) PROVE AP!Accepting(r)
  BY <1>1, SameActions, Zenon DEF A!Accepting, AP!Accepting
<1>2. ASSUME NEW r \in A!Handlers, A!Settling(r) PROVE AP!Settling(r)
  BY <1>2, SameActions, Zenon DEF A!Settling, AP!Settling
<1>3. ASSUME NEW r \in A!Handlers, A!Faulty(r) PROVE AP!Faulty(r)
  BY <1>3, SameActions, Zenon DEF A!Faulty, AP!Faulty
<1>4. ASSUME A!World PROVE AP!World
  BY <1>4, SameActions, Zenon DEF A!World, AP!World
<1>5. A!Handlers = AP!Handlers
  BY DEF A!Handlers, AP!Handlers
<1>6. ASSUME A!Next PROVE AP!Next
  BY <1>1, <1>2, <1>3, <1>4, <1>5, <1>6, SameActions, Zenon DEF A!Next, AP!Next
<1> QED  BY <1>6, SameActions, Zenon DEF A!LongNext, AP!LongNext

(* What Acceptor assumes of its constants.                                 *)
LEMMA AcceptorAssumed ==
  /\ Challenges \cap {AP!Free, "nobody", "payer"} = {}
  /\ \A c \in Challenges : AP!SumProofs({}) # Price[c]
  /\ MaxDeaths \in Nat
BY StoresAssumption, SameSum DEF A!Free, AP!Free

LEMMA AcceptorMoves == AP!LongInv /\ [A!LongNext]_acceptorVars => AP!LongInv'
<1>1. [A!LongNext]_acceptorVars => [AP!LongNext]_AP!vars
  BY SameStep DEF acceptorVars, AP!vars
<1>2. AP!LongInv /\ [AP!LongNext]_AP!vars => AP!LongInv'
  BY AP!LongStep, AcceptorAssumed
<1> QED  BY <1>1, <1>2

LEMMA AcceptorInvariant == AllSpec => []AP!LongInv
<1>1. AllInit => AP!LongInv
  BY SameStart, AP!LongStart, AcceptorAssumed DEF AllInit
<1>2. AP!LongInv /\ [AllNext]_all => AP!LongInv'
  BY AcceptorMoves DEF AllNext, all
<1> QED  BY <1>1, <1>2, PTL DEF AllSpec

(* Nobody's loss strands a coin or a challenge, and the types hold, for    *)
(* any number of instances, challenges, coins and failures.                *)
THEOREM LosersGiveBack == AllSpec => []NothingStranded
<1>1. EP!EngramTypes /\ AP!LongInv => NothingStranded
  BY EP!TypesFollow, RelayClaims, AP!LongFollows, SameClaims, AcceptorAssumed DEF NothingStranded
<1> QED  BY <1>1, RelayTypesHold, AcceptorInvariant, PTL

(* In settle-first mode a success is money the service has, for any prices *)
(* and coins, also when claims and markers reach their time-to-live.       *)
THEOREM ReportedIsPaid == AllSpec => []SuccessIsPaid
<1>1. AP!LongInv => SuccessIsPaid
  BY AP!LongFollows, SameClaims, AcceptorAssumed DEF SuccessIsPaid
<1> QED  BY <1>1, AcceptorInvariant, PTL
=============================================================================
