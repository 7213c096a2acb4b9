---------------------------- MODULE ObjectStore ----------------------------
(***************************************************************************)
(* PutObject and DeleteObject (src/src/s3/put_object.rs, delete_object.rs) *)
(* over the metadata table and the IPFS node.                              *)
(*                                                                         *)
(* The handlers run as concurrent tasks that share nothing but those two   *)
(* stores; a step is what happens between two awaits, that is one call to  *)
(* a store and what the handler does with its result.  A request slot runs *)
(* the handler, answers, then runs the background task the handler spawned *)
(* (the unpinning of an overwritten CID, the trimming of empty folders).   *)
(***************************************************************************)
EXTENDS Database, IpfsNode

CONSTANTS
  Requests,          \* request slots
  Targets,           \* slot -> the objects its requests may name
  Contents,          \* slot -> the CIDs of the contents it may put
  TrimEmptyFolders,  \* config.experimental.trim_empty_folders
  OneAtATime,        \* a request is sent only when none is unanswered
  Faulty,            \* the calls that may fail, of CallNames
  MayDisconnect,     \* a client may close its connection
  MayCrash           \* the process may be killed and restarted

CallNames == {"get", "add", "cp", "store", "count", "unpin", "unlink",
              "delete", "like", "trim"}

ASSUME RequestsAssumption ==
  /\ Targets \in [Requests -> SUBSET Objects]
  /\ Contents \in [Requests -> SUBSET Cids]
  /\ Faulty \subseteq CallNames
  /\ TrimEmptyFolders \in BOOLEAN

VARIABLES
  task,      \* [Requests -> what the slot runs and where it awaits]
  answer     \* [Requests -> the last answer its client got]

stores == <<rows, node>>
vars == <<rows, node, task, answer>>

(***************************************************************************)
(* Labels: the call a task awaits.                                         *)
(***************************************************************************)
PutLabels == {"put_get", "put_add", "put_cp", "put_store"}
DeleteLabels == {"del_get", "del_unlink", "del_row", "del_count", "del_unpin"}
BackgroundLabels == {"put_count", "put_unpin", "trim_find", "trim_unlink"}
Handler == PutLabels \cup DeleteLabels
Labels == {"idle"} \cup Handler \cup BackgroundLabels

CallAt ==
  [put_get |-> "get", put_add |-> "add", put_cp |-> "cp", put_store |-> "store",
   put_count |-> "count", put_unpin |-> "unpin",
   del_get |-> "get", del_unlink |-> "unlink", del_row |-> "delete",
   del_count |-> "count", del_unpin |-> "unpin",
   trim_find |-> "like", trim_unlink |-> "trim"]

Answers == {"none", "ok", "not_found", "bad_request", "error"}

Task == [at : Labels,
         obj : Objects \cup {NoObject},
         new : Cids \cup {NoCid},       \* the CID a PUT stores
         old : Cids \cup {NoCid},       \* the CID of the row it read
         depth : Nat,                   \* the ancestor trimming asks about
         shallow : Nat]                 \* the shallowest removable one, or 0

NoTask == [at |-> "idle", obj |-> NoObject, new |-> NoCid, old |-> NoCid,
           depth |-> 0, shallow |-> 0]

At(p, label) == task[p].at = label
Running(p) == task[p].at # "idle"
InHandler(p) == task[p].at \in Handler

Become(p, t) == task' = [task EXCEPT ![p] = t]
Goto(p, label) == task' = [task EXCEPT ![p].at = label]
Reply(p, a) == answer' = [answer EXCEPT ![p] = a]

(***************************************************************************)
(* The calls that change a store.                                          *)
(***************************************************************************)
AddCall(p) ==
  At(p, "put_add") /\ Add(task[p].new) /\ UNCHANGED rows

\* Mutant: the key is not normalized.
CpCallRaw(p) ==
  /\ At(p, "put_cp")
  /\ FilesCp(task[p].new, task[p].obj)
  /\ UNCHANGED rows

CpCall(p) ==
  /\ At(p, "put_cp")
  /\ FilesCp(task[p].new, NormalizedPath(task[p].obj))
  /\ UNCHANGED rows

StoreCall(p) ==
  /\ At(p, "put_store")
  /\ StoreObjectMetadata(task[p].obj, task[p].new)
  /\ UNCHANGED node

UnlinkCall(p) ==
  /\ At(p, "del_unlink")
  /\ FilesRm(NormalizedPath(task[p].obj))
  /\ UNCHANGED rows

DeleteCall(p) ==
  At(p, "del_row") /\ DeleteObjectRow(task[p].obj) /\ UNCHANGED node

UnpinCall(p) ==
  /\ task[p].at \in {"put_unpin", "del_unpin"}
  /\ PinRm(task[p].old)
  /\ UNCHANGED rows

TrimmedPath(p) == NormalizedPath(SubSeq(task[p].obj, 1, task[p].shallow))

TrimCall(p) ==
  At(p, "trim_unlink") /\ FilesRm(TrimmedPath(p)) /\ UNCHANGED rows

StoreEffect(p) ==
  \/ AddCall(p) \/ CpCall(p) \/ StoreCall(p)
  \/ UnlinkCall(p) \/ DeleteCall(p) \/ UnpinCall(p) \/ TrimCall(p)

\* The node refuses the call: no such path, no such pin, a path in the way.
Refused(p) ==
  \/ At(p, "put_cp") /\ ~CanLink(NormalizedPath(task[p].obj))
  \/ At(p, "del_unlink") /\ ~Exists(NormalizedPath(task[p].obj))
  \/ At(p, "trim_unlink") /\ ~Exists(TrimmedPath(p))
  \/ task[p].at \in {"put_unpin", "del_unpin"} /\ task[p].old \notin pins

RpcLabels == {"put_add", "put_cp", "del_unlink", "put_unpin", "del_unpin",
              "trim_unlink"}

\* The awaited call returns an error.  A call over HTTP to the node may have
\* had its effect all the same, a failed SQL statement has none.
CallFails(p) ==
  \/ Refused(p) /\ UNCHANGED stores
  \/ CallAt[task[p].at] \in Faulty /\ UNCHANGED stores
  \/ /\ CallAt[task[p].at] \in Faulty
     /\ task[p].at \in RpcLabels
     /\ StoreEffect(p)

-----------------------------------------------------------------------------
(***************************************************************************)
(* PutObject.                                                              *)
(***************************************************************************)
MayAsk(p) ==
  /\ ~Running(p)
  /\ OneAtATime => \A q \in Requests : ~InHandler(q)

PutObject(p) ==
  /\ MayAsk(p)
  /\ \E o \in Targets[p], c \in Contents[p] :
       Become(p, [NoTask EXCEPT !.at = "put_get", !.obj = o, !.new = c])
  /\ Reply(p, "none")
  /\ UNCHANGED stores

PutGetMetadata(p) ==
  /\ At(p, "put_get")
  /\ IsValidKey(task[p].obj)
  /\ Become(p, [task[p] EXCEPT !.at = "put_add",
                               !.old = GetObjectMetadata(task[p].obj)])
  /\ UNCHANGED <<stores, answer>>

PutInvalidKey(p) ==
  /\ At(p, "put_get")
  /\ ~IsValidKey(task[p].obj)
  /\ Become(p, NoTask)
  /\ Reply(p, "bad_request")
  /\ UNCHANGED stores

PutAdd(p) ==
  /\ AddCall(p)
  /\ Goto(p, "put_cp")
  /\ UNCHANGED answer

PutCp(p) ==
  /\ CpCall(p)
  /\ Goto(p, "put_store")
  /\ UNCHANGED answer

\* Mutant: the overwritten CID is never looked at.
UnpinOverwrittenNever(old, new) == NoTask

\* The spawned task has something to do when the row held another CID.
UnpinOverwritten(old, new) ==
  IF old \notin {NoCid, new}
  THEN [NoTask EXCEPT !.at = "put_count", !.old = old]
  ELSE NoTask

PutStore(p) ==
  /\ StoreCall(p)
  /\ Become(p, UnpinOverwritten(task[p].old, task[p].new))
  /\ Reply(p, "ok")

\* Mutant: the errors of the calls are ignored.
PutFailsIgnored(p) ==
  /\ task[p].at \in PutLabels
  /\ CallFails(p)
  /\ Become(p, NoTask)
  /\ Reply(p, "ok")

PutFails(p) ==
  /\ task[p].at \in PutLabels
  /\ CallFails(p)
  /\ Become(p, NoTask)
  /\ Reply(p, "error")

\* Mutant: the references are not counted.
PutCountOldNever(p) ==
  /\ At(p, "put_count")
  /\ Goto(p, "put_unpin")
  /\ UNCHANGED <<stores, answer>>

\* unpin_if_orphan, in the background: its errors end the task silently.
PutCountOld(p) ==
  /\ At(p, "put_count")
  /\ IF Referencing(task[p].old) = {} THEN Goto(p, "put_unpin") ELSE Become(p, NoTask)
  /\ UNCHANGED <<stores, answer>>

PutUnpinOld(p) ==
  /\ At(p, "put_unpin")
  /\ UnpinCall(p)
  /\ Become(p, NoTask)
  /\ UNCHANGED answer

-----------------------------------------------------------------------------
(***************************************************************************)
(* DeleteObject.  A row exists for valid keys only, so that its path never *)
(* fails to normalize.                                                     *)
(***************************************************************************)
DeleteObject(p) ==
  /\ MayAsk(p)
  /\ \E o \in Targets[p] :
       Become(p, [NoTask EXCEPT !.at = "del_get", !.obj = o])
  /\ Reply(p, "none")
  /\ UNCHANGED stores

\* Mutant: the file is not unlinked.
DeleteGetMetadataOnly(p) ==
  /\ At(p, "del_get")
  /\ GetObjectMetadata(task[p].obj) # NoCid
  /\ Become(p, [task[p] EXCEPT !.at = "del_row",
                               !.old = GetObjectMetadata(task[p].obj)])
  /\ UNCHANGED <<stores, answer>>

DeleteGetMetadata(p) ==
  /\ At(p, "del_get")
  /\ GetObjectMetadata(task[p].obj) # NoCid
  /\ Become(p, [task[p] EXCEPT !.at = "del_unlink",
                               !.old = GetObjectMetadata(task[p].obj)])
  /\ UNCHANGED <<stores, answer>>

DeleteNotFound(p) ==
  /\ At(p, "del_get")
  /\ GetObjectMetadata(task[p].obj) = NoCid
  /\ Become(p, NoTask)
  /\ Reply(p, "not_found")
  /\ UNCHANGED stores

DeleteUnlink(p) ==
  /\ UnlinkCall(p)
  /\ Goto(p, "del_row")
  /\ UNCHANGED answer

DeleteRow(p) ==
  /\ DeleteCall(p)
  /\ Goto(p, "del_count")
  /\ UNCHANGED answer

\* Mutant: the flag is read the wrong way round.
TrimTaskInverted(o) ==
  IF TrimEmptyFolders
  THEN NoTask
  ELSE [NoTask EXCEPT !.at = "trim_find", !.obj = o, !.depth = Len(o)]

\* What the handler spawns before it answers.
TrimTask(o) ==
  IF TrimEmptyFolders
  THEN [NoTask EXCEPT !.at = "trim_find", !.obj = o, !.depth = Len(o)]
  ELSE NoTask

DeleteAnswer(p) ==
  /\ Become(p, TrimTask(task[p].obj))
  /\ Reply(p, "ok")

\* Mutant: the last reference counts as one that remains.
DeleteCountRemainingOff(p) ==
  /\ At(p, "del_count")
  /\ DeleteAnswer(p)
  /\ UNCHANGED stores

\* unpin_if_orphan, awaited by the handler.
DeleteCountRemaining(p) ==
  /\ At(p, "del_count")
  /\ IF Referencing(task[p].old) = {}
     THEN Goto(p, "del_unpin") /\ UNCHANGED answer
     ELSE DeleteAnswer(p)
  /\ UNCHANGED stores

DeleteUnpin(p) ==
  /\ At(p, "del_unpin")
  /\ UnpinCall(p)
  /\ DeleteAnswer(p)

DeleteFails(p) ==
  /\ task[p].at \in DeleteLabels
  /\ CallFails(p)
  /\ Become(p, NoTask)
  /\ Reply(p, "error")

-----------------------------------------------------------------------------
(***************************************************************************)
(* The trimming of empty folders: find_shallowest_removable_directory asks *)
(* one query per ancestor, from the deleted key itself to the outermost    *)
(* folder, until an ancestor has entries.                                  *)
(***************************************************************************)
NothingUnder(p) == NoEntriesUnder(SubSeq(task[p].obj, 1, task[p].depth))

TrimNextAncestor(p) ==
  /\ At(p, "trim_find")
  /\ NothingUnder(p)
  /\ \E d \in Shallower(task[p].obj, task[p].depth) :
       /\ \A n \in Shallower(task[p].obj, task[p].depth) : n <= d
       /\ Become(p, [task[p] EXCEPT !.depth = d, !.shallow = task[p].depth])
  /\ UNCHANGED <<stores, answer>>

\* Mutant: the outermost ancestor is left out.
TrimLastAncestorOff(p) ==
  /\ At(p, "trim_find")
  /\ NothingUnder(p)
  /\ Shallower(task[p].obj, task[p].depth) = {}
  /\ Become(p, [task[p] EXCEPT !.at = "trim_unlink", !.depth = 0])
  /\ UNCHANGED <<stores, answer>>

TrimLastAncestor(p) ==
  /\ At(p, "trim_find")
  /\ NothingUnder(p)
  /\ Shallower(task[p].obj, task[p].depth) = {}
  /\ Become(p, [task[p] EXCEPT !.at = "trim_unlink", !.depth = 0,
                               !.shallow = task[p].depth])
  /\ UNCHANGED <<stores, answer>>

\* Mutant: the search ends one ancestor late.
TrimAncestorInUseLate(p) ==
  /\ At(p, "trim_find")
  /\ ~NothingUnder(p)
  /\ Become(p, [task[p] EXCEPT !.at = "trim_unlink", !.depth = 0,
                               !.shallow = task[p].depth])
  /\ UNCHANGED <<stores, answer>>

TrimAncestorInUse(p) ==
  /\ At(p, "trim_find")
  /\ ~NothingUnder(p)
  /\ Become(p, IF task[p].shallow = 0
               THEN NoTask
               ELSE [task[p] EXCEPT !.at = "trim_unlink", !.depth = 0])
  /\ UNCHANGED <<stores, answer>>

TrimUnlink(p) ==
  /\ TrimCall(p)
  /\ Become(p, NoTask)
  /\ UNCHANGED answer

\* Nobody hears of an error of a background task.
BackgroundFails(p) ==
  /\ task[p].at \in BackgroundLabels
  /\ CallFails(p)
  /\ Become(p, NoTask)
  /\ UNCHANGED answer

-----------------------------------------------------------------------------
(***************************************************************************)
(* The server drops the handler of a closed connection where it awaits;    *)
(* the call it awaits may reach the store.  A background task goes on.     *)
(***************************************************************************)
Disconnect(p) ==
  /\ MayDisconnect
  /\ InHandler(p)
  /\ \/ UNCHANGED stores
     \/ StoreEffect(p)
  /\ Become(p, NoTask)
  /\ UNCHANGED answer

\* The stores persist, every task is lost.  A call that reached its store
\* right before is a step before the crash.
Crash ==
  /\ MayCrash
  /\ \E p \in Requests : Running(p)
  /\ task' = [p \in Requests |-> NoTask]
  /\ answer' = [p \in Requests |-> "none"]
  /\ UNCHANGED stores

-----------------------------------------------------------------------------
Init ==
  /\ InitDatabase
  /\ InitNode
  /\ task = [p \in Requests |-> NoTask]
  /\ answer = [p \in Requests |-> "none"]

Ask(p) == PutObject(p) \/ DeleteObject(p)

Step(p) ==
  \/ PutGetMetadata(p) \/ PutInvalidKey(p)
  \/ PutAdd(p) \/ PutCp(p) \/ PutStore(p) \/ PutFails(p)
  \/ PutCountOld(p) \/ PutUnpinOld(p)
  \/ DeleteGetMetadata(p) \/ DeleteNotFound(p)
  \/ DeleteUnlink(p) \/ DeleteRow(p)
  \/ DeleteCountRemaining(p) \/ DeleteUnpin(p) \/ DeleteFails(p)
  \/ TrimNextAncestor(p) \/ TrimLastAncestor(p) \/ TrimAncestorInUse(p)
  \/ TrimUnlink(p) \/ BackgroundFails(p)

Next ==
  \/ \E p \in Requests : Ask(p) \/ Step(p) \/ Disconnect(p)
  \/ Crash

Spec == Init /\ [][Next]_vars

(***************************************************************************)
(* The server at work, while nobody leaves and nothing crashes: what it    *)
(* has begun it ends, since every call to a store returns and the runtime  *)
(* polls a task that can go on.  Nothing makes a client send.              *)
(***************************************************************************)
CalmNext == \E p \in Requests : Ask(p) \/ Step(p)

FairSpec ==
  /\ Init /\ [][CalmNext]_vars
  /\ \A p \in Requests : WF_vars(Step(p))

-----------------------------------------------------------------------------
(***************************************************************************)
(* Properties.  First the circumstances some of them need; each run and    *)
(* each theorem says which it assumes.                                     *)
(***************************************************************************)
\* No object is named by two slots: a client is done with an object, its
\* background task included, before another names it.
Exclusive ==
  \A p, q \in Requests : p # q => Targets[p] \cap Targets[q] = {}

OwnContents ==
  \A p, q \in Requests : p # q => Contents[p] \cap Contents[q] = {}

\* No key is a folder of another, as "a" is of "a/x".
NoFileInTheWay == Paths \cap Folders = {}

Undisturbed == ~MayCrash /\ ~MayDisconnect

\* The failures after which the code leaves a pin behind: every one between
\* the add and the upsert of a PUT, and those of unpin_if_orphan.
NoLeakingFault == Faulty \cap {"add", "cp", "store", "count", "unpin"} = {}

\* Type correctness of the table, the node, the tasks and the answers.
TypeOK ==
  /\ rows \in Rows
  /\ NodeTypeOK
  /\ task \in [Requests -> Task]
  /\ answer \in [Requests -> Answers]

\* A task that will store the CID or look at whether it is orphaned.
Accounts(p, c) ==
  \/ task[p].at \in {"put_cp", "put_store"} /\ task[p].new = c
  \/ task[p].at \in {"put_count", "put_unpin", "del_count", "del_unpin"} /\ task[p].old = c

\* No pin leaks: a pinned CID is referenced by a row of the table, or a task
\* is on its way to store it or to unpin it (unpin_if_orphan after a PUT that
\* overwrites and after a DELETE).
PinsAccounted ==
  \A c \in pins : Referencing(c) # {} \/ \E p \in Requests : Accounts(p, c)

\* No link leaks: a file in the MFS is the content of a row with that path,
\* or of a PUT between "files cp" and the upsert.
LinksAccounted ==
  \A path \in Paths : links[path] # NoCid =>
    \E o \in Objects :
      /\ NormalizedPath(o) = path
      /\ \/ rows[o] = links[path]
         \/ \E p \in Requests : /\ At(p, "put_store")
                                /\ task[p].obj = o
                                /\ task[p].new = links[path]

\* The content of every row is pinned, at all times: unpin_if_orphan never
\* takes the pin of a content that is in the table.
RowsPinned == \A o \in Objects : rows[o] # NoCid => rows[o] \in pins

\* The MFS shows what the table says, except between the call to the node and
\* the SQL statement of a PUT or DELETE of the object.  A row without a link
\* cannot be deleted any more: the "files rm" of delete_object fails for ever.
RowsLinked ==
  \A o \in Objects : rows[o] # NoCid =>
    \/ links[NormalizedPath(o)] = rows[o]
    \/ \E p \in Requests : /\ task[p].at \in {"put_store", "del_row"}
                           /\ task[p].obj = o

\* The folder that a trim removes is empty: no object of the table has its
\* file in it.
TrimSparesLive ==
  [][\A p \in Requests : TrimCall(p) =>
       \A o \in Objects :
         rows[o] # NoCid => ~IsPrefix(TrimmedPath(p), NormalizedPath(o))]_vars

\* When nothing runs, every folder below a bucket leads to an object.
Tidy(dir) ==
  Len(dir) > 1 =>
    \E o \in Objects : rows[o] # NoCid /\ IsPrefix(dir, NormalizedPath(o))

TidyWhenIdle ==
  (\A p \in Requests : ~Running(p)) => \A dir \in dirs : Tidy(dir)

\* What a client sees of a slot: its request until the answer, whatever goes
\* on in the background.
View(t, a) ==
  [state |-> IF t.at \in {"del_count", "del_unpin"} THEN "effective"
             ELSE IF t.at \in Handler THEN "pending" ELSE "idle",
   op |-> IF t.at \in PutLabels THEN "put"
          ELSE IF t.at \in DeleteLabels THEN "delete" ELSE "none",
   obj |-> IF t.at \in Handler THEN t.obj ELSE NoObject,
   cid |-> IF t.at \in PutLabels THEN t.new ELSE NoCid,
   answer |-> a]

AbstractCall == [p \in Requests |-> View(task[p], answer[p])]

S3 == INSTANCE S3Store WITH call <- AbstractCall

\* Requests are atomic to their clients: a PUT takes effect on the table in one
\* step and is then acknowledged, one that fails has had no effect on it.
ImplementsS3Store == S3!Spec

\* Every pin whose last row is gone is removed in the end, or the content is
\* stored again.
OrphansUnpinned ==
  \A c \in Cids :
    (c \in pins /\ Referencing(c) = {}) ~> (c \notin pins \/ Referencing(c) # {})

\* A folder without objects is removed in the end, or used again.
FoldersTrimmed ==
  \A dir \in Folders :
    (dir \in dirs /\ ~Tidy(dir)) ~> (dir \notin dirs \/ Tidy(dir))

=============================================================================
