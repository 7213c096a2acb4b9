------------------------- MODULE ObjectStoreProofs -------------------------
(***************************************************************************)
(* Type correctness of ObjectStore, for every set of objects, contents and *)
(* request slots and every choice of failures; and ObjectStore implements  *)
(* S3Store: whatever runs concurrently, fails, disconnects or crashes, a   *)
(* PUT takes effect on the table in one step before it is acknowledged,    *)
(* and not at all when it fails.                                           *)
(***************************************************************************)
EXTENDS ObjectStore, SequenceProofs

(***************************************************************************)
(* What a label says of the record: TypeOK alone is not inductive, the     *)
(* calls need an object or a CID and not the absence of one.               *)
(***************************************************************************)
NamesObject == Handler \cup {"trim_find", "trim_unlink"}
HoldsOld == {"put_count", "put_unpin",
             "del_unlink", "del_row", "del_count", "del_unpin"}

TaskOK(p, t) ==
  /\ t \in Task
  /\ t.at \in NamesObject => t.obj \in Targets[p]
  /\ t.at \in PutLabels => t.new \in Contents[p]
  /\ t.at \in HoldsOld => t.old \in Cids

TypeInv ==
  /\ TypeOK
  /\ \A p \in Requests : TaskOK(p, task[p])

-----------------------------------------------------------------------------
\* A slot that names an object names one of Objects, whose path is a path and
\* whose length is that of a sequence.
LEMMA TargetsAreObjects ==
  ASSUME NEW p \in Requests, NEW o \in Targets[p]
  PROVE  /\ o \in Objects
         /\ Len(o) \in Nat
         /\ NormalizedPath(o) \in Paths
         /\ FoldersOf(NormalizedPath(o)) \subseteq Folders
<1>1. o \in Objects
  BY RequestsAssumption
<1>2. Len(o) \in Nat
  <2>1. o \in Seq(STRING)
    BY <1>1, ObjectsAssumption
  <2> QED BY <2>1
<1>3. NormalizedPath(o) \in Paths
  BY <1>1 DEF Paths
<1>4. FoldersOf(NormalizedPath(o)) \subseteq Folders
  BY <1>3 DEF Folders
<1> QED BY <1>1, <1>2, <1>3, <1>4

\* A path is a sequence of segments; removing it removes its own file.
LEMMA PathsAreSequences ==
  ASSUME NEW o \in Objects
  PROVE  /\ NormalizedPath(o) \in Seq(STRING)
         /\ Len(NormalizedPath(o)) \in Nat
         /\ IsPrefix(NormalizedPath(o), NormalizedPath(o))
<1> DEFINE named == Kept(o)
<1>1. o \in Seq(STRING)
  BY ObjectsAssumption
<1>2. /\ DOMAIN o = 1..Len(o) /\ Len(o) \in Nat
      /\ \A i \in DOMAIN o : o[i] \in STRING
  BY <1>1
<1>3. IsFiniteSet(DOMAIN o)
  BY <1>2, FS_Interval
<1>4. IsFiniteSet(named)
  <2>1. named \subseteq DOMAIN o
    BY DEF Kept
  <2> QED BY <1>3, <2>1, FS_Subset
<1>5. named \subseteq Int /\ \A i \in named : o[i] \in STRING
  <2>1. named \subseteq DOMAIN o
    BY DEF Kept
  <2>2. DOMAIN o \subseteq Int
    BY <1>2
  <2> QED BY <1>2, <2>1, <2>2
<1>6. NormalizedPath(o) \in Seq(STRING)
  BY <1>4, <1>5, SubsequenceSeq DEF NormalizedPath
<1>7. Len(NormalizedPath(o)) \in Nat
  BY <1>6
<1> QED BY <1>6, <1>7 DEF IsPrefix

\* The depths that trimming goes through are numbers.
LEMMA ShallowerAreDepths ==
  ASSUME NEW o, Len(o) \in Nat, NEW depth
  PROVE  Shallower(o, depth) \subseteq Nat
<1> DEFINE n == Len(o)
<1>1. \A m \in AncestorDepths(o) : m = n \/ m \in 2..(n - 1)
  BY DEF AncestorDepths
<1>2. n \in Nat
  OBVIOUS
<1> HIDE DEF n
<1>3. \A m \in AncestorDepths(o) : m \in Nat
  BY <1>1, <1>2
<1> QED BY <1>3 DEF Shallower

\* The idle record, and the records a handler leaves to the background.
LEMMA NoTaskOK == ASSUME NEW p \in Requests PROVE TaskOK(p, NoTask)
BY DEF TaskOK, NoTask, Task, Labels, NamesObject, Handler, PutLabels,
       DeleteLabels, HoldsOld

LEMMA UnpinOverwrittenOK ==
  ASSUME NEW p \in Requests, NEW old \in Cids \cup {NoCid}, NEW new
  PROVE  TaskOK(p, UnpinOverwritten(old, new))
<1>1. CASE old \notin {NoCid, new}
  BY <1>1 DEF UnpinOverwritten, TaskOK, NoTask, Task, Labels, NamesObject,
     Handler, BackgroundLabels, PutLabels, DeleteLabels, HoldsOld
<1>2. CASE old \in {NoCid, new}
  BY <1>2, NoTaskOK DEF UnpinOverwritten
<1> QED BY <1>1, <1>2

LEMMA TrimTaskOK ==
  ASSUME NEW p \in Requests, NEW o \in Targets[p]
  PROVE  TaskOK(p, TrimTask(o))
<1>1. o \in Objects /\ Len(o) \in Nat
  BY TargetsAreObjects
<1>2. CASE TrimEmptyFolders
  BY <1>1, <1>2 DEF TrimTask, TaskOK, NoTask, Task, Labels, NamesObject,
     Handler, BackgroundLabels, PutLabels, DeleteLabels, HoldsOld
<1>3. CASE ~TrimEmptyFolders
  BY <1>3, NoTaskOK DEF TrimTask
<1> QED BY <1>2, <1>3

\* A step that gives one slot a good record keeps all the records good.
LEMMA BecomeOK ==
  ASSUME TypeInv, NEW p \in Requests, NEW t, TaskOK(p, t), Become(p, t)
  PROVE  /\ task' \in [Requests -> Task]
         /\ \A q \in Requests : TaskOK(q, task'[q])
BY DEF TypeInv, TypeOK, TaskOK, Become

\* The calls keep the types of the stores.
LEMMA StoreEffectTypeOK ==
  ASSUME TypeInv, NEW p \in Requests, StoreEffect(p)
  PROVE  rows' \in Rows /\ NodeTypeOK'
<1> DEFINE t == task[p]
<1>1. TaskOK(p, t) /\ rows \in Rows /\ NodeTypeOK
  BY DEF TypeInv, TypeOK
<1>2. CASE AddCall(p)
  <2>1. t.new \in Cids
    BY <1>1, <1>2, RequestsAssumption DEF AddCall, At, TaskOK, PutLabels
  <2> QED BY <1>1, <1>2, <2>1 DEF AddCall, Add, Rows, NodeTypeOK
<1>3. CASE CpCall(p)
  <2>1. t.new \in Cids /\ t.obj \in Targets[p]
    BY <1>1, <1>3, RequestsAssumption
    DEF CpCall, At, TaskOK, PutLabels, NamesObject, Handler
  <2>2. FoldersOf(NormalizedPath(t.obj)) \subseteq Folders
    BY <2>1, TargetsAreObjects
  <2> QED BY <1>1, <1>3, <2>1, <2>2 DEF CpCall, FilesCp, Rows, NodeTypeOK
<1>4. CASE StoreCall(p)
  <2>1. t.new \in Cids
    BY <1>1, <1>4, RequestsAssumption DEF StoreCall, At, TaskOK, PutLabels
  <2> QED BY <1>1, <1>4, <2>1
          DEF StoreCall, StoreObjectMetadata, Rows, NodeTypeOK, node
<1>5. CASE UnlinkCall(p)
  BY <1>1, <1>5 DEF UnlinkCall, FilesRm, Rows, NodeTypeOK
<1>6. CASE DeleteCall(p)
  BY <1>1, <1>6 DEF DeleteCall, DeleteObjectRow, Rows, NodeTypeOK, node
<1>7. CASE UnpinCall(p)
  BY <1>1, <1>7 DEF UnpinCall, PinRm, Rows, NodeTypeOK
<1>8. CASE TrimCall(p)
  BY <1>1, <1>8 DEF TrimCall, FilesRm, Rows, NodeTypeOK
<1> QED BY <1>2, <1>3, <1>4, <1>5, <1>6, <1>7, <1>8 DEF StoreEffect

\* A call that fails keeps the types of the stores, whether it had its effect
\* or not.
LEMMA CallFailsTypeOK ==
  ASSUME TypeInv, NEW p \in Requests, CallFails(p)
  PROVE  rows' \in Rows /\ NodeTypeOK'
<1>1. CASE UNCHANGED stores
  BY <1>1 DEF TypeInv, TypeOK, stores, node, Rows, NodeTypeOK
<1>2. CASE StoreEffect(p)
  BY <1>2, StoreEffectTypeOK
<1> QED BY <1>1, <1>2 DEF CallFails

\* The slot continues with a good record, the answer is one of Answers.
LEMMA StepTypeOK ==
  ASSUME TypeInv, NEW p \in Requests, NEW t, NEW ans \in Answers,
         rows' \in Rows /\ NodeTypeOK',
         TaskOK(p, t), Become(p, t), UNCHANGED answer \/ Reply(p, ans)
  PROVE  TypeInv'
<1>1. task' \in [Requests -> Task] /\ \A q \in Requests : TaskOK(q, task'[q])
  BY BecomeOK
<1>2. answer' \in [Requests -> Answers]
  BY DEF TypeInv, TypeOK, Reply
<1>3. TypeOK'
  BY <1>1, <1>2 DEF TypeOK
<1> QED BY <1>1, <1>3 DEF TypeInv, TaskOK

LEMMA PutTypeOK ==
  ASSUME TypeInv, NEW p \in Requests,
         \/ PutObject(p) \/ PutGetMetadata(p) \/ PutInvalidKey(p)
         \/ PutAdd(p) \/ PutCp(p) \/ PutStore(p) \/ PutFails(p)
         \/ PutCountOld(p) \/ PutUnpinOld(p)
  PROVE  TypeInv'
<1> DEFINE t == task[p]
<1>0. /\ TaskOK(p, t) /\ TaskOK(p, NoTask)
      /\ t \in Task /\ task \in [Requests -> Task]
      /\ rows \in Rows /\ NodeTypeOK
      /\ {"none", "ok", "bad_request", "error"} \subseteq Answers
  BY NoTaskOK DEF TypeInv, TypeOK, Answers
<1> USE DEF NamesObject, HoldsOld, Handler, PutLabels, DeleteLabels,
            BackgroundLabels, Labels
<1>1. CASE PutObject(p)
  <2>1. PICK o \in Targets[p], c \in Contents[p] :
          Become(p, [NoTask EXCEPT !.at = "put_get", !.obj = o, !.new = c])
    BY <1>1 DEF PutObject
  <2>2. o \in Objects /\ c \in Cids
    BY <2>1, RequestsAssumption
  <2>3. TaskOK(p, [NoTask EXCEPT !.at = "put_get", !.obj = o, !.new = c])
    BY <2>1, <2>2 DEF TaskOK, NoTask, Task
  <2>4. rows' \in Rows /\ NodeTypeOK' /\ Reply(p, "none")
    BY <1>0, <1>1 DEF PutObject, stores, node, Rows, NodeTypeOK
  <2> QED BY <1>0, <2>1, <2>3, <2>4, StepTypeOK
<1>2. CASE PutGetMetadata(p)
  <2> DEFINE s == [t EXCEPT !.at = "put_add", !.old = rows[t.obj]]
  <2>1. Become(p, s) /\ UNCHANGED answer /\ UNCHANGED stores
    BY <1>2 DEF PutGetMetadata, GetObjectMetadata
  <2>2. t.at = "put_get" /\ t.obj \in Objects
    BY <1>0, <1>2, RequestsAssumption DEF PutGetMetadata, At, TaskOK
  <2>3. rows[t.obj] \in Cids \cup {NoCid}
    BY <1>0, <2>2 DEF Rows
  <2>4. TaskOK(p, s)
    BY <1>0, <2>2, <2>3 DEF TaskOK, Task
  <2>5. rows' \in Rows /\ NodeTypeOK'
    BY <1>0, <2>1 DEF stores, node, Rows, NodeTypeOK
  <2> QED BY <1>0, <2>1, <2>4, <2>5, StepTypeOK
<1>3. CASE PutInvalidKey(p)
  <2>1. rows' \in Rows /\ NodeTypeOK'
    BY <1>0, <1>3 DEF PutInvalidKey, stores, node, Rows, NodeTypeOK
  <2> QED BY <1>0, <1>3, <2>1, StepTypeOK DEF PutInvalidKey
<1>4. CASE PutAdd(p)
  <2>1. rows' \in Rows /\ NodeTypeOK'
    BY <1>4, StoreEffectTypeOK DEF PutAdd, StoreEffect
  <2>2. Become(p, [t EXCEPT !.at = "put_cp"]) /\ t.at = "put_add"
    BY <1>0, <1>4 DEF PutAdd, AddCall, At, Goto, Become
  <2>3. TaskOK(p, [t EXCEPT !.at = "put_cp"])
    BY <1>0, <2>2 DEF TaskOK, Task
  <2> QED BY <1>0, <1>4, <2>1, <2>2, <2>3, StepTypeOK DEF PutAdd
<1>5. CASE PutCp(p)
  <2>1. rows' \in Rows /\ NodeTypeOK'
    BY <1>5, StoreEffectTypeOK DEF PutCp, StoreEffect
  <2>2. Become(p, [t EXCEPT !.at = "put_store"]) /\ t.at = "put_cp"
    BY <1>0, <1>5 DEF PutCp, CpCall, At, Goto, Become
  <2>3. TaskOK(p, [t EXCEPT !.at = "put_store"])
    BY <1>0, <2>2 DEF TaskOK, Task
  <2> QED BY <1>0, <1>5, <2>1, <2>2, <2>3, StepTypeOK DEF PutCp
<1>6. CASE PutStore(p)
  <2>1. rows' \in Rows /\ NodeTypeOK'
    BY <1>6, StoreEffectTypeOK DEF PutStore, StoreEffect
  <2>2. TaskOK(p, UnpinOverwritten(t.old, t.new))
    BY <1>0, UnpinOverwrittenOK DEF Task
  <2> QED BY <1>0, <1>6, <2>1, <2>2, StepTypeOK DEF PutStore
<1>7. CASE PutFails(p)
  <2>1. rows' \in Rows /\ NodeTypeOK'
    BY <1>7, CallFailsTypeOK DEF PutFails
  <2> QED BY <1>0, <1>7, <2>1, StepTypeOK DEF PutFails
<1>8. CASE PutCountOld(p)
  <2>1. rows' \in Rows /\ NodeTypeOK'
    BY <1>0, <1>8 DEF PutCountOld, stores, node, Rows, NodeTypeOK
  <2>2. CASE Goto(p, "put_unpin")
    <3>1. Become(p, [t EXCEPT !.at = "put_unpin"]) /\ t.at = "put_count"
      BY <1>0, <1>8, <2>2 DEF PutCountOld, At, Goto, Become
    <3>2. TaskOK(p, [t EXCEPT !.at = "put_unpin"])
      BY <1>0, <3>1 DEF TaskOK, Task
    <3> QED BY <1>0, <1>8, <2>1, <3>1, <3>2, StepTypeOK DEF PutCountOld
  <2>3. CASE Become(p, NoTask)
    BY <1>0, <1>8, <2>1, <2>3, StepTypeOK DEF PutCountOld
  <2> QED BY <1>8, <2>2, <2>3 DEF PutCountOld
<1>9. CASE PutUnpinOld(p)
  <2>1. rows' \in Rows /\ NodeTypeOK'
    BY <1>9, StoreEffectTypeOK DEF PutUnpinOld, StoreEffect
  <2> QED BY <1>0, <1>9, <2>1, StepTypeOK DEF PutUnpinOld
<1> QED BY <1>1, <1>2, <1>3, <1>4, <1>5, <1>6, <1>7, <1>8, <1>9

LEMMA DeleteTypeOK ==
  ASSUME TypeInv, NEW p \in Requests,
         \/ DeleteObject(p) \/ DeleteGetMetadata(p) \/ DeleteNotFound(p)
         \/ DeleteUnlink(p) \/ DeleteRow(p)
         \/ DeleteCountRemaining(p) \/ DeleteUnpin(p) \/ DeleteFails(p)
  PROVE  TypeInv'
<1> DEFINE t == task[p]
<1>0. /\ TaskOK(p, t) /\ TaskOK(p, NoTask)
      /\ t \in Task /\ task \in [Requests -> Task]
      /\ rows \in Rows /\ NodeTypeOK
      /\ {"none", "ok", "not_found", "error"} \subseteq Answers
  BY NoTaskOK DEF TypeInv, TypeOK, Answers
<1> USE DEF NamesObject, HoldsOld, Handler, PutLabels, DeleteLabels,
            BackgroundLabels, Labels
<1>1. CASE DeleteObject(p)
  <2>1. PICK o \in Targets[p] :
          Become(p, [NoTask EXCEPT !.at = "del_get", !.obj = o])
    BY <1>1 DEF DeleteObject
  <2>2. o \in Objects
    BY <2>1, RequestsAssumption
  <2>3. TaskOK(p, [NoTask EXCEPT !.at = "del_get", !.obj = o])
    BY <2>1, <2>2 DEF TaskOK, NoTask, Task
  <2>4. rows' \in Rows /\ NodeTypeOK' /\ Reply(p, "none")
    BY <1>0, <1>1 DEF DeleteObject, stores, node, Rows, NodeTypeOK
  <2> QED BY <1>0, <2>1, <2>3, <2>4, StepTypeOK
<1>2. CASE DeleteGetMetadata(p)
  <2> DEFINE s == [t EXCEPT !.at = "del_unlink", !.old = rows[t.obj]]
  <2>1. /\ Become(p, s) /\ UNCHANGED answer /\ UNCHANGED stores
        /\ rows[t.obj] # NoCid
    BY <1>2 DEF DeleteGetMetadata, GetObjectMetadata
  <2>2. t.at = "del_get" /\ t.obj \in Objects
    BY <1>0, <1>2, RequestsAssumption DEF DeleteGetMetadata, At, TaskOK
  <2>3. rows[t.obj] \in Cids
    BY <1>0, <2>1, <2>2 DEF Rows
  <2>4. TaskOK(p, s)
    BY <1>0, <2>2, <2>3 DEF TaskOK, Task
  <2>5. rows' \in Rows /\ NodeTypeOK'
    BY <1>0, <2>1 DEF stores, node, Rows, NodeTypeOK
  <2> QED BY <1>0, <2>1, <2>4, <2>5, StepTypeOK
<1>3. CASE DeleteNotFound(p)
  <2>1. rows' \in Rows /\ NodeTypeOK'
    BY <1>0, <1>3 DEF DeleteNotFound, stores, node, Rows, NodeTypeOK
  <2> QED BY <1>0, <1>3, <2>1, StepTypeOK DEF DeleteNotFound
<1>4. CASE DeleteUnlink(p)
  <2>1. rows' \in Rows /\ NodeTypeOK'
    BY <1>4, StoreEffectTypeOK DEF DeleteUnlink, StoreEffect
  <2>2. Become(p, [t EXCEPT !.at = "del_row"]) /\ t.at = "del_unlink"
    BY <1>0, <1>4 DEF DeleteUnlink, UnlinkCall, At, Goto, Become
  <2>3. TaskOK(p, [t EXCEPT !.at = "del_row"])
    BY <1>0, <2>2 DEF TaskOK, Task
  <2> QED BY <1>0, <1>4, <2>1, <2>2, <2>3, StepTypeOK DEF DeleteUnlink
<1>5. CASE DeleteRow(p)
  <2>1. rows' \in Rows /\ NodeTypeOK'
    BY <1>5, StoreEffectTypeOK DEF DeleteRow, StoreEffect
  <2>2. Become(p, [t EXCEPT !.at = "del_count"]) /\ t.at = "del_row"
    BY <1>0, <1>5 DEF DeleteRow, DeleteCall, At, Goto, Become
  <2>3. TaskOK(p, [t EXCEPT !.at = "del_count"])
    BY <1>0, <2>2 DEF TaskOK, Task
  <2> QED BY <1>0, <1>5, <2>1, <2>2, <2>3, StepTypeOK DEF DeleteRow
<1>6. CASE DeleteCountRemaining(p)
  <2>1. rows' \in Rows /\ NodeTypeOK' /\ t.at = "del_count"
    BY <1>0, <1>6
    DEF DeleteCountRemaining, At, stores, node, Rows, NodeTypeOK
  <2>2. CASE Goto(p, "del_unpin") /\ UNCHANGED answer
    <3>1. Become(p, [t EXCEPT !.at = "del_unpin"])
      BY <1>0, <2>2 DEF Goto, Become
    <3>2. TaskOK(p, [t EXCEPT !.at = "del_unpin"])
      BY <1>0, <2>1 DEF TaskOK, Task
    <3> QED BY <1>0, <2>1, <2>2, <3>1, <3>2, StepTypeOK
  <2>3. CASE DeleteAnswer(p)
    <3>1. TaskOK(p, TrimTask(t.obj))
      BY <1>0, <2>1, TrimTaskOK DEF TaskOK
    <3> QED BY <1>0, <2>1, <2>3, <3>1, StepTypeOK DEF DeleteAnswer
  <2> QED BY <1>6, <2>2, <2>3 DEF DeleteCountRemaining
<1>7. CASE DeleteUnpin(p)
  <2>1. rows' \in Rows /\ NodeTypeOK'
    BY <1>7, StoreEffectTypeOK DEF DeleteUnpin, StoreEffect
  <2>2. TaskOK(p, TrimTask(t.obj))
    BY <1>0, <1>7, TrimTaskOK DEF DeleteUnpin, At, TaskOK
  <2> QED BY <1>0, <1>7, <2>1, <2>2, StepTypeOK DEF DeleteUnpin, DeleteAnswer
<1>8. CASE DeleteFails(p)
  <2>1. rows' \in Rows /\ NodeTypeOK'
    BY <1>8, CallFailsTypeOK DEF DeleteFails
  <2> QED BY <1>0, <1>8, <2>1, StepTypeOK DEF DeleteFails
<1> QED BY <1>1, <1>2, <1>3, <1>4, <1>5, <1>6, <1>7, <1>8

LEMMA BackgroundTypeOK ==
  ASSUME TypeInv, NEW p \in Requests,
         \/ TrimNextAncestor(p) \/ TrimLastAncestor(p) \/ TrimAncestorInUse(p)
         \/ TrimUnlink(p) \/ BackgroundFails(p)
  PROVE  TypeInv'
<1> DEFINE t == task[p]
<1>0. /\ TaskOK(p, t) /\ TaskOK(p, NoTask)
      /\ t \in Task /\ task \in [Requests -> Task]
      /\ rows \in Rows /\ NodeTypeOK /\ "none" \in Answers
  BY NoTaskOK DEF TypeInv, TypeOK, Answers
<1> USE DEF NamesObject, HoldsOld, Handler, PutLabels, DeleteLabels,
            BackgroundLabels, Labels
<1>1. CASE TrimNextAncestor(p)
  <2>1. PICK d \in Shallower(t.obj, t.depth) :
          Become(p, [t EXCEPT !.depth = d, !.shallow = t.depth])
    BY <1>1 DEF TrimNextAncestor
  <2>2. t.at = "trim_find" /\ t.obj \in Targets[p]
    BY <1>0, <1>1 DEF TrimNextAncestor, At, TaskOK
  <2>3. d \in Nat
    <3>1. Len(t.obj) \in Nat
      BY <2>2, TargetsAreObjects
    <3> QED BY <2>1, <3>1, ShallowerAreDepths
  <2>4. TaskOK(p, [t EXCEPT !.depth = d, !.shallow = t.depth])
    <3> DEFINE u == [t EXCEPT !.depth = d, !.shallow = t.depth]
    <3>1. u \in Task /\ u.at = t.at /\ u.obj = t.obj
      BY <1>0, <2>3 DEF Task
    <3> HIDE DEF u
    <3>2. TaskOK(p, u)
      BY <2>2, <3>1 DEF TaskOK
    <3> QED BY <3>2 DEF u
  <2>5. rows' \in Rows /\ NodeTypeOK'
    BY <1>0, <1>1 DEF TrimNextAncestor, stores, node, Rows, NodeTypeOK
  <2>6. UNCHANGED answer
    BY <1>1 DEF TrimNextAncestor
  <2> QED BY <1>0, <2>1, <2>4, <2>5, <2>6, StepTypeOK
<1>2. CASE TrimLastAncestor(p)
  <2> DEFINE s == [t EXCEPT !.at = "trim_unlink", !.depth = 0,
                            !.shallow = t.depth]
  <2>1. t.at = "trim_find" /\ t.obj \in Targets[p]
    BY <1>0, <1>2 DEF TrimLastAncestor, At, TaskOK
  <2>2. t.depth \in Nat /\ s \in Task
    BY <1>0 DEF Task
  <2>3. s.at = "trim_unlink" /\ s.obj = t.obj
    BY <1>0 DEF Task
  <2>4. TaskOK(p, s)
    BY <2>1, <2>2, <2>3 DEF TaskOK
  <2>5. rows' \in Rows /\ NodeTypeOK'
    BY <1>0, <1>2 DEF TrimLastAncestor, stores, node, Rows, NodeTypeOK
  <2> QED BY <1>0, <1>2, <2>4, <2>5, StepTypeOK DEF TrimLastAncestor
<1>3. CASE TrimAncestorInUse(p)
  <2> DEFINE s == [t EXCEPT !.at = "trim_unlink", !.depth = 0]
  <2>1. t.at = "trim_find" /\ t.obj \in Targets[p]
    BY <1>0, <1>3 DEF TrimAncestorInUse, At, TaskOK
  <2>2. t.depth \in Nat /\ s \in Task
    BY <1>0 DEF Task
  <2>3. s.at = "trim_unlink" /\ s.obj = t.obj
    BY <1>0 DEF Task
  <2>4. TaskOK(p, s)
    BY <2>1, <2>2, <2>3 DEF TaskOK
  <2>5. rows' \in Rows /\ NodeTypeOK'
    BY <1>0, <1>3 DEF TrimAncestorInUse, stores, node, Rows, NodeTypeOK
  <2>6. Become(p, NoTask) \/ Become(p, s)
    BY <1>3 DEF TrimAncestorInUse
  <2> QED BY <1>0, <1>3, <2>4, <2>5, <2>6, StepTypeOK DEF TrimAncestorInUse
<1>4. CASE TrimUnlink(p)
  <2>1. rows' \in Rows /\ NodeTypeOK'
    BY <1>4, StoreEffectTypeOK DEF TrimUnlink, StoreEffect
  <2> QED BY <1>0, <1>4, <2>1, StepTypeOK DEF TrimUnlink
<1>5. CASE BackgroundFails(p)
  <2>1. rows' \in Rows /\ NodeTypeOK'
    BY <1>5, CallFailsTypeOK DEF BackgroundFails
  <2> QED BY <1>0, <1>5, <2>1, StepTypeOK DEF BackgroundFails
<1> QED BY <1>1, <1>2, <1>3, <1>4, <1>5

LEMMA DisconnectTypeOK ==
  ASSUME TypeInv, NEW p \in Requests, Disconnect(p)
  PROVE  TypeInv'
<1>1. rows' \in Rows /\ NodeTypeOK'
  <2>1. CASE UNCHANGED stores
    BY <2>1 DEF TypeInv, TypeOK, stores, node, Rows, NodeTypeOK
  <2>2. CASE StoreEffect(p)
    BY <2>2, StoreEffectTypeOK
  <2> QED BY <2>1, <2>2 DEF Disconnect
<1>2. "none" \in Answers
  BY DEF Answers
<1> QED BY <1>1, <1>2, NoTaskOK, StepTypeOK DEF Disconnect

LEMMA CrashTypeOK ==
  ASSUME TypeInv, Crash
  PROVE  TypeInv'
<1>1. \A p \in Requests : TaskOK(p, NoTask)
  BY NoTaskOK
<1>2. \A p \in Requests : TaskOK(p, task'[p])
  BY <1>1 DEF Crash
<1>3. TypeOK'
  BY <1>1 DEF Crash, TypeInv, TypeOK, TaskOK, Answers, stores, node, Rows,
              NodeTypeOK
<1> QED BY <1>2, <1>3 DEF TypeInv, TaskOK

-----------------------------------------------------------------------------
LEMMA TypeInvInit == Init => TypeInv
<1> SUFFICES ASSUME Init PROVE TypeInv
  OBVIOUS
<1>1. \A p \in Requests : TaskOK(p, NoTask)
  BY NoTaskOK
<1>2. rows \in Rows /\ NodeTypeOK
  BY DEF Init, InitDatabase, InitNode, Rows, NodeTypeOK
<1> QED BY <1>1, <1>2 DEF Init, TypeInv, TypeOK, TaskOK, Answers

LEMMA TypeInvNext == TypeInv /\ [Next]_vars => TypeInv'
<1> SUFFICES ASSUME TypeInv, [Next]_vars PROVE TypeInv'
  OBVIOUS
<1>1. ASSUME NEW p \in Requests, Ask(p) PROVE TypeInv'
  BY <1>1, PutTypeOK, DeleteTypeOK DEF Ask
<1>2. ASSUME NEW p \in Requests, Step(p) PROVE TypeInv'
  BY <1>2, PutTypeOK, DeleteTypeOK, BackgroundTypeOK DEF Step
<1>3. ASSUME NEW p \in Requests, Disconnect(p) PROVE TypeInv'
  BY <1>3, DisconnectTypeOK
<1>4. CASE Crash
  BY <1>4, CrashTypeOK
<1>5. CASE UNCHANGED vars
  BY <1>5 DEF vars, node, TypeInv, TypeOK, TaskOK, Rows, NodeTypeOK
<1> QED BY <1>1, <1>2, <1>3, <1>4, <1>5 DEF Next

LEMMA TypeInvariant == Spec => []TypeInv
BY TypeInvInit, TypeInvNext, PTL DEF Spec

\* The table, the node, the tasks and the answers have their types in every
\* reachable state, under every failure, disconnection and crash.
THEOREM TypeCorrect == Spec => []TypeOK
<1>1. TypeInv => TypeOK
  BY DEF TypeInv
<1> QED BY <1>1, TypeInvariant, PTL

-----------------------------------------------------------------------------
(***************************************************************************)
(* What a step of a slot does to its own record, and to those of others.   *)
(***************************************************************************)
LEMMA BecomeIs ==
  ASSUME TypeInv, NEW p \in Requests, NEW t, Become(p, t)
  PROVE  task'[p] = t /\ \A q \in Requests \ {p} : task'[q] = task[q]
BY DEF TypeInv, TypeOK, Become

LEMMA GotoIs ==
  ASSUME TypeInv, NEW p \in Requests, NEW label, Goto(p, label)
  PROVE  /\ task'[p].at = label /\ task'[p].obj = task[p].obj
         /\ \A q \in Requests \ {p} : task'[q] = task[q]
BY DEF TypeInv, TypeOK, Task, Goto

LEMMA ReplyIs ==
  ASSUME TypeInv, NEW p \in Requests, NEW a, Reply(p, a)
  PROVE  answer'[p] = a
BY DEF TypeInv, TypeOK, Reply

LEMMA NoTaskLabel == NoTask.at = "idle"
BY DEF NoTask

\* A slot leaves the records of the others alone.
LEMMA StepIsOwn ==
  ASSUME TypeInv, NEW p \in Requests, Step(p)
  PROVE  \A q \in Requests \ {p} : task'[q] = task[q]
<1>1. CASE \E label \in Labels : Goto(p, label)
  BY <1>1, GotoIs
<1>2. CASE \E t : Become(p, t)
  BY <1>2, BecomeIs
<1>3. CASE \/ PutAdd(p) \/ PutCp(p) \/ DeleteUnlink(p) \/ DeleteRow(p)
  BY <1>1, <1>3 DEF PutAdd, PutCp, DeleteUnlink, DeleteRow,
                    Labels, Handler, PutLabels, DeleteLabels
<1>4. CASE PutCountOld(p) \/ DeleteCountRemaining(p) \/ DeleteUnpin(p)
  BY <1>1, <1>2, <1>4 DEF PutCountOld, DeleteCountRemaining, DeleteUnpin, DeleteAnswer,
                          Labels, Handler, DeleteLabels, BackgroundLabels
<1>5. CASE \/ PutGetMetadata(p) \/ PutInvalidKey(p) \/ PutStore(p) \/ PutFails(p)
           \/ PutUnpinOld(p) \/ DeleteGetMetadata(p) \/ DeleteNotFound(p)
           \/ DeleteFails(p)
  BY <1>2, <1>5 DEF PutGetMetadata, PutInvalidKey, PutStore, PutFails, PutUnpinOld,
                    DeleteGetMetadata, DeleteNotFound, DeleteFails
<1>6. CASE \/ TrimNextAncestor(p) \/ TrimLastAncestor(p) \/ TrimAncestorInUse(p)
           \/ TrimUnlink(p) \/ BackgroundFails(p)
  BY <1>2, <1>6 DEF TrimNextAncestor, TrimLastAncestor, TrimAncestorInUse,
                    TrimUnlink, BackgroundFails
<1> QED BY <1>3, <1>4, <1>5, <1>6 DEF Step

LEMMA DeletionStepIs ==
  ASSUME NEW p \in Requests, Step(p), task[p].at \in DeleteLabels
  PROVE  \/ DeleteGetMetadata(p) \/ DeleteNotFound(p)
         \/ DeleteUnlink(p) \/ DeleteRow(p)
         \/ DeleteCountRemaining(p) \/ DeleteUnpin(p) \/ DeleteFails(p)
<1>1. ~(\/ PutGetMetadata(p) \/ PutInvalidKey(p)
        \/ PutAdd(p) \/ PutCp(p) \/ PutStore(p) \/ PutFails(p)
        \/ PutCountOld(p) \/ PutUnpinOld(p))
  BY DEF PutGetMetadata, PutInvalidKey, PutAdd, AddCall, PutCp, CpCall, PutStore,
         StoreCall, PutFails, PutLabels, PutCountOld, PutUnpinOld, DeleteLabels, At
<1>2. ~(\/ TrimNextAncestor(p) \/ TrimLastAncestor(p) \/ TrimAncestorInUse(p)
        \/ TrimUnlink(p) \/ BackgroundFails(p))
  BY DEF TrimNextAncestor, TrimLastAncestor, TrimAncestorInUse, TrimUnlink,
         TrimCall, BackgroundFails, BackgroundLabels, DeleteLabels, At
<1> QED BY <1>1, <1>2 DEF Step

-----------------------------------------------------------------------------
(***************************************************************************)
(* The steps of a slot, for proofs about the rows and the files: four of   *)
(* them decide about a row or a file, one is a failure, and the others are *)
(* quiet: they change neither, but for the trim.                           *)
(***************************************************************************)
Quiet(p, t) ==
  /\ Become(p, t)
  /\ task[p].at \notin {"put_store", "del_row"}
  /\ t.at \notin {"put_store", "del_row"}
  /\ rows' = rows
  /\ UNCHANGED <<links, dirs>> \/ TrimCall(p)

LEMMA StepIs ==
  ASSUME TypeInv, NEW p \in Requests, Ask(p) \/ Step(p)
  PROVE  \/ PutCp(p) \/ PutStore(p) \/ DeleteUnlink(p) \/ DeleteRow(p)
         \/ CallFails(p) /\ Running(p) /\ Become(p, NoTask)
         \/ \E t : Quiet(p, t)
<1> DEFINE t == task[p]
<1>0. /\ t \in Task /\ task \in [Requests -> Task] /\ NoTask.at = "idle"
      /\ \A o : TrimTask(o).at \in {"idle", "trim_find"}
  BY DEF TypeInv, TypeOK, NoTask, TrimTask
<1>2. CASE PutObject(p)
  <2>1. PICK o \in Targets[p], c \in Contents[p] :
          Become(p, [NoTask EXCEPT !.at = "put_get", !.obj = o, !.new = c])
    BY <1>2 DEF PutObject
  <2>2. Quiet(p, [NoTask EXCEPT !.at = "put_get", !.obj = o, !.new = c])
    BY <1>2, <2>1 DEF PutObject, MayAsk, Running, NoTask, stores, node, Quiet
  <2> QED BY <2>2
<1>3. CASE DeleteObject(p)
  <2>1. PICK o \in Targets[p] :
          Become(p, [NoTask EXCEPT !.at = "del_get", !.obj = o])
    BY <1>3 DEF DeleteObject
  <2>2. Quiet(p, [NoTask EXCEPT !.at = "del_get", !.obj = o])
    BY <1>3, <2>1 DEF DeleteObject, MayAsk, Running, NoTask, stores, node, Quiet
  <2> QED BY <2>2
<1>4. CASE PutGetMetadata(p)
  <2>1. Quiet(p, [t EXCEPT !.at = "put_add", !.old = GetObjectMetadata(t.obj)])
    BY <1>0, <1>4 DEF PutGetMetadata, At, Task, stores, node, Quiet
  <2> QED BY <2>1
<1>5. CASE DeleteGetMetadata(p)
  <2>1. Quiet(p, [t EXCEPT !.at = "del_unlink", !.old = GetObjectMetadata(t.obj)])
    BY <1>0, <1>5 DEF DeleteGetMetadata, At, Task, stores, node, Quiet
  <2> QED BY <2>1
<1>6. CASE PutInvalidKey(p) \/ DeleteNotFound(p) \/ PutUnpinOld(p) \/ TrimUnlink(p)
  <2>1. Quiet(p, NoTask)
    BY <1>0, <1>6
    DEF PutInvalidKey, DeleteNotFound, PutUnpinOld, TrimUnlink, UnpinCall,
        TrimCall, PinRm, At, stores, node, Quiet
  <2> QED BY <2>1
<1>7. CASE PutAdd(p)
  <2>1. Quiet(p, [t EXCEPT !.at = "put_cp"])
    BY <1>0, <1>7 DEF PutAdd, AddCall, Add, At, Goto, Become, Task, Quiet
  <2> QED BY <2>1
<1>8. CASE PutFails(p) \/ DeleteFails(p) \/ BackgroundFails(p)
  BY <1>8
  DEF PutFails, DeleteFails, BackgroundFails, Running, PutLabels, DeleteLabels,
      BackgroundLabels
<1>9. CASE PutCountOld(p)
  <2>1. Quiet(p, [t EXCEPT !.at = "put_unpin"]) \/ Quiet(p, NoTask)
    BY <1>0, <1>9 DEF PutCountOld, At, Goto, Become, Task, stores, node, Quiet
  <2> QED BY <2>1
<1>10. CASE DeleteCountRemaining(p)
  <2>1. Quiet(p, [t EXCEPT !.at = "del_unpin"]) \/ Quiet(p, TrimTask(t.obj))
    <3>1. Become(p, [t EXCEPT !.at = "del_unpin"]) \/ Become(p, TrimTask(t.obj))
      BY <1>0, <1>10 DEF DeleteCountRemaining, DeleteAnswer, Goto, Become
    <3>2. t.at = "del_count" /\ rows' = rows /\ UNCHANGED <<links, dirs>>
      BY <1>10 DEF DeleteCountRemaining, At, stores, node
    <3>3. TrimTask(t.obj).at \in {"idle", "trim_find"}
      BY <1>0
    <3> QED BY <1>0, <3>1, <3>2, <3>3 DEF Task, Quiet
  <2> QED BY <2>1
<1>11. CASE DeleteUnpin(p)
  <2>1. TrimTask(t.obj).at \in {"idle", "trim_find"}
    BY <1>0
  <2>2. Quiet(p, TrimTask(t.obj))
    BY <1>11, <2>1 DEF DeleteUnpin, DeleteAnswer, UnpinCall, PinRm, At, Quiet
  <2> QED BY <2>2
<1>12. CASE TrimNextAncestor(p)
  <2>1. PICK d \in Shallower(t.obj, t.depth) :
          Become(p, [t EXCEPT !.depth = d, !.shallow = t.depth])
    BY <1>12 DEF TrimNextAncestor
  <2>2. Quiet(p, [t EXCEPT !.depth = d, !.shallow = t.depth])
    BY <1>0, <1>12, <2>1 DEF TrimNextAncestor, At, Task, stores, node, Quiet
  <2> QED BY <2>2
<1>13. CASE TrimLastAncestor(p)
  <2>1. Quiet(p, [t EXCEPT !.at = "trim_unlink", !.depth = 0, !.shallow = t.depth])
    BY <1>0, <1>13 DEF TrimLastAncestor, At, Task, stores, node, Quiet
  <2> QED BY <2>1
<1>14. CASE TrimAncestorInUse(p)
  <2>1. Quiet(p, [t EXCEPT !.at = "trim_unlink", !.depth = 0]) \/ Quiet(p, NoTask)
    BY <1>0, <1>14 DEF TrimAncestorInUse, At, Task, stores, node, Quiet
  <2> QED BY <2>1
<1> QED BY <1>2, <1>3, <1>4, <1>5, <1>6, <1>7, <1>8, <1>9, <1>10, <1>11, <1>12,
           <1>13, <1>14 DEF Ask, Step

-----------------------------------------------------------------------------
(***************************************************************************)
(* A request that is being handled is unanswered, and a PUT beyond its     *)
(* first call has a valid key.                                             *)
(***************************************************************************)
CallOK(t, a) ==
  /\ t.at \in Handler => a = "none"
  /\ t.at \in {"put_add", "put_cp", "put_store"} => IsValidKey(t.obj)

CallInv == \A p \in Requests : CallOK(task[p], answer[p])

-----------------------------------------------------------------------------
(***************************************************************************)
(* The views of the records.                                               *)
(***************************************************************************)
LEMMA ViewIdle ==
  ASSUME NEW t, NEW a, t.at \notin Handler
  PROVE  View(t, a) = S3!Idle(a)
BY DEF View, S3!Idle, NoObject, S3!NoObject, Handler, PutLabels, DeleteLabels

LEMMA ViewNoTask == ASSUME NEW a PROVE View(NoTask, a) = S3!Idle(a)
<1>1. NoTask.at \notin Handler
  BY DEF NoTask, Handler, PutLabels, DeleteLabels
<1> QED BY <1>1, ViewIdle

LEMMA ViewPut ==
  ASSUME NEW t, t.at \in PutLabels
  PROVE  View(t, "none") = S3!Pending("put", t.obj, t.new)
BY DEF View, S3!Pending, Handler, PutLabels, DeleteLabels

LEMMA ViewDelete ==
  ASSUME NEW t, t.at \in {"del_get", "del_unlink", "del_row"}
  PROVE  View(t, "none") = S3!Pending("delete", t.obj, NoCid)
BY DEF View, S3!Pending, Handler, PutLabels, DeleteLabels

LEMMA ViewEffective ==
  ASSUME NEW t, t.at \in {"del_count", "del_unpin"}
  PROVE  View(t, "none") = S3!Effective(t.obj)
BY DEF View, S3!Effective, Handler, PutLabels, DeleteLabels

\* Both modules refuse the same keys.
LEMMA SameKeysAreValid == ASSUME NEW o PROVE S3!IsValidKey(o) <=> IsValidKey(o)
<1>1. ASSUME NEW i, NEW j PROVE S3!Ups(o, i, j) = Ups(o, i, j)
  BY DEF S3!Ups, Ups, S3!Cardinality, Cardinality
<1>2. ASSUME NEW i, NEW j PROVE S3!Downs(o, i, j) = Downs(o, i, j)
  BY DEF S3!Downs, Downs, S3!Normal, Normal, S3!Cardinality, Cardinality
<1> QED BY <1>1, <1>2 DEF S3!IsValidKey, IsValidKey

\* A step of a slot changes the view of that slot only.
LEMMA StepChangesView ==
  ASSUME TypeInv, NEW p \in Requests, NEW t, NEW a, Become(p, t),
         \/ Reply(p, a)
         \/ UNCHANGED answer /\ a = answer[p]
  PROVE  /\ AbstractCall' = [AbstractCall EXCEPT ![p] = View(t, a)]
         /\ \A q \in Requests : AbstractCall[q] = View(task[q], answer[q])
         /\ AbstractCall[p] = View(task[p], answer[p])
         /\ \A q \in Requests \ {p} : task'[q] = task[q] /\ answer'[q] = answer[q]
         /\ task'[p] = t /\ answer'[p] = a
<1>1. /\ task' = [task EXCEPT ![p] = t]
      /\ answer' = [answer EXCEPT ![p] = a]
      /\ task \in [Requests -> Task] /\ answer \in [Requests -> Answers]
  BY DEF Become, Reply, TypeInv, TypeOK
<1>2. AbstractCall' = [q \in Requests |-> View(task'[q], answer'[q])]
  BY DEF AbstractCall
<1>3. /\ \A q \in Requests \ {p} : task'[q] = task[q] /\ answer'[q] = answer[q]
      /\ task'[p] = t /\ answer'[p] = a
  BY <1>1
<1>4. AbstractCall = [q \in Requests |-> View(task[q], answer[q])]
  BY DEF AbstractCall
<1> HIDE DEF AbstractCall
<1>5. AbstractCall' = [AbstractCall EXCEPT ![p] = View(t, a)]
  BY <1>2, <1>3, <1>4
<1> QED BY <1>3, <1>4, <1>5

\* The step that answers a pending request.
LEMMA RepliedIs ==
  ASSUME TypeInv, NEW p \in Requests, NEW t, NEW a, Become(p, t), Reply(p, a),
         View(t, a) = S3!Idle(a),
         NEW op, NEW o, NEW c,
         View(task[p], answer[p]) = S3!Pending(op, o, c)
  PROVE  /\ AbstractCall' = [AbstractCall EXCEPT ![p] = S3!Idle(a)]
         /\ AbstractCall[p].state = "pending" /\ AbstractCall[p].op = op
         /\ AbstractCall[p].obj = o /\ AbstractCall[p].cid = c
<1>1. /\ AbstractCall' = [AbstractCall EXCEPT ![p] = View(t, a)]
      /\ AbstractCall[p] = View(task[p], answer[p])
  BY StepChangesView
<1>2. AbstractCall[p] = S3!Pending(op, o, c)
  BY <1>1
<1> QED BY <1>1, <1>2 DEF S3!Pending

\* A step of a slot that keeps the table and the view of the slot stutters.
LEMMA SameViewStutters ==
  ASSUME TypeInv, NEW p \in Requests, NEW t, NEW a, Become(p, t),
         \/ Reply(p, a)
         \/ UNCHANGED answer /\ a = answer[p],
         UNCHANGED rows, View(t, a) = View(task[p], answer[p])
  PROVE  UNCHANGED <<rows, AbstractCall>>
<1>1. /\ AbstractCall' = [AbstractCall EXCEPT ![p] = View(t, a)]
      /\ AbstractCall[p] = View(task[p], answer[p])
  BY StepChangesView
<1>2. AbstractCall = [q \in Requests |-> AbstractCall[q]]
  BY DEF AbstractCall
<1> QED BY <1>1, <1>2

\* A step of a slot keeps CallInv when the new record of the slot satisfies it.
LEMMA StepKeepsCallInv ==
  ASSUME TypeInv, CallInv, NEW p \in Requests, NEW t, NEW a, Become(p, t),
         \/ Reply(p, a)
         \/ UNCHANGED answer /\ a = answer[p],
         CallOK(t, a)
  PROVE  CallInv'
<1>1. /\ \A q \in Requests \ {p} : task'[q] = task[q] /\ answer'[q] = answer[q]
      /\ task'[p] = t /\ answer'[p] = a
  BY StepChangesView
<1>2. ASSUME NEW q \in Requests
      PROVE  /\ task'[q].at \in Handler => answer'[q] = "none"
             /\ task'[q].at \in {"put_add", "put_cp", "put_store"} =>
                  IsValidKey(task'[q].obj)
  <2>1. CASE q = p
    BY <1>1, <2>1 DEF CallOK
  <2>2. CASE q # p
    BY <1>1, <2>2 DEF CallInv, CallOK
  <2> QED BY <2>1, <2>2
<1> QED BY <1>2 DEF CallInv, CallOK

-----------------------------------------------------------------------------
(***************************************************************************)
(* Every step is a step of S3Store or a stutter.                           *)
(***************************************************************************)
Simulates == S3!Next \/ UNCHANGED <<rows, AbstractCall>>

LEMMA SlotSimulates ==
  ASSUME NEW p \in Requests,
         \/ S3!Ask(p) \/ S3!Put(p) \/ S3!RefusePut(p)
         \/ S3!Delete(p) \/ S3!FinishDelete(p) \/ S3!NotFound(p)
         \/ S3!Fail(p) \/ S3!Vanish(p)
  PROVE  Simulates
BY DEF Simulates, S3!Next

\* A failed call keeps the table.
LEMMA FailureKeepsRows ==
  ASSUME NEW p \in Requests, CallFails(p)
  PROVE  rows' = rows
<1>1. CASE UNCHANGED stores
  BY <1>1 DEF stores
<1>2. CASE task[p].at \in RpcLabels /\ StoreEffect(p)
  <2>1. ~StoreCall(p) /\ ~DeleteCall(p)
    BY <1>2 DEF RpcLabels, StoreCall, DeleteCall, At
  <2> QED BY <1>2, <2>1 DEF StoreEffect, AddCall, CpCall, UnlinkCall,
                            UnpinCall, TrimCall
<1> QED BY <1>1, <1>2 DEF CallFails

LEMMA PutSimulates ==
  ASSUME TypeInv, CallInv, NEW p \in Requests,
         \/ PutObject(p) \/ PutGetMetadata(p) \/ PutInvalidKey(p)
         \/ PutAdd(p) \/ PutCp(p) \/ PutStore(p) \/ PutFails(p)
         \/ PutCountOld(p) \/ PutUnpinOld(p)
  PROVE  Simulates /\ CallInv'
<1> DEFINE t == task[p]
           a == answer[p]
<1>0. /\ TaskOK(p, t) /\ CallOK(t, a) /\ t \in Task
      /\ task \in [Requests -> Task]
      /\ \A q \in Requests : CallOK(task[q], answer[q])
  BY DEF TypeInv, TypeOK, CallInv
<1>1. CASE PutObject(p)
  <2>1. PICK o \in Targets[p], c \in Contents[p] :
          Become(p, [NoTask EXCEPT !.at = "put_get", !.obj = o, !.new = c])
    BY <1>1 DEF PutObject
  <2> DEFINE s == [NoTask EXCEPT !.at = "put_get", !.obj = o, !.new = c]
  <2>2. /\ Become(p, s) /\ Reply(p, "none") /\ rows' = rows
        /\ t.at = "idle"
    BY <1>1, <2>1 DEF PutObject, MayAsk, Running, stores
  <2>3. s.at = "put_get" /\ s.obj = o /\ s.new = c
    BY DEF NoTask
  <2> HIDE DEF s
  <2>4. View(t, a) = S3!Idle(a)
    BY <2>2, ViewIdle DEF Handler, PutLabels, DeleteLabels
  <2>5. View(s, "none") = S3!Pending("put", o, c)
    BY <2>3, ViewPut DEF PutLabels
  <2>6. S3!Ask(p)
    BY <2>2, <2>4, <2>5, StepChangesView DEF S3!Ask, S3!Idle
  <2>7. CallOK(s, "none")
    BY <2>3 DEF CallOK
  <2> QED BY StepKeepsCallInv, <2>2, <2>6, <2>7, SlotSimulates
<1>2. CASE PutGetMetadata(p)
  <2> DEFINE s == [t EXCEPT !.at = "put_add", !.old = rows[t.obj]]
  <2>1. /\ Become(p, s) /\ UNCHANGED answer /\ rows' = rows
        /\ t.at = "put_get" /\ IsValidKey(t.obj)
    BY <1>2 DEF PutGetMetadata, GetObjectMetadata, At, stores
  <2>2. s.at = "put_add" /\ s.obj = t.obj /\ s.new = t.new
    BY <1>0 DEF Task
  <2> HIDE DEF s
  <2>3. a = "none"
    BY <1>0, <2>1 DEF CallOK, Handler, PutLabels
  <2>4. View(s, a) = View(t, a)
    BY <2>1, <2>2, <2>3, ViewPut DEF PutLabels
  <2>5. CallOK(s, a)
    BY <2>1, <2>2, <2>3 DEF CallOK
  <2> QED BY StepKeepsCallInv, <2>1, <2>4, <2>5, SameViewStutters DEF Simulates
<1>3. CASE PutInvalidKey(p)
  <2>1. /\ Become(p, NoTask) /\ Reply(p, "bad_request") /\ rows' = rows
        /\ t.at = "put_get" /\ ~IsValidKey(t.obj)
    BY <1>3 DEF PutInvalidKey, At, stores
  <2>2. View(t, a) = S3!Pending("put", t.obj, t.new)
    BY <1>0, <2>1, ViewPut DEF CallOK, Handler, PutLabels
  <2>3. S3!RefusePut(p)
    <3>1. /\ AbstractCall' = [AbstractCall EXCEPT ![p] = S3!Idle("bad_request")]
          /\ AbstractCall[p].state = "pending" /\ AbstractCall[p].op = "put"
          /\ AbstractCall[p].obj = t.obj /\ AbstractCall[p].cid = t.new
      BY <2>1, <2>2, ViewNoTask, RepliedIs
    <3> QED BY <3>1, <2>1, SameKeysAreValid DEF S3!RefusePut, S3!Answer
  <2>4. CallOK(NoTask, "bad_request")
    BY DEF CallOK, NoTask, Handler, PutLabels, DeleteLabels
  <2> QED BY StepKeepsCallInv, <2>1, <2>3, <2>4, SlotSimulates
<1>4. CASE PutAdd(p)
  <2> DEFINE s == [t EXCEPT !.at = "put_cp"]
  <2>1. /\ Become(p, s) /\ UNCHANGED answer /\ rows' = rows
        /\ t.at = "put_add"
    BY <1>0, <1>4 DEF PutAdd, AddCall, At, Goto, Become
  <2>2. s.at = "put_cp" /\ s.obj = t.obj /\ s.new = t.new
    BY <1>0 DEF Task
  <2> HIDE DEF s
  <2>3. a = "none" /\ IsValidKey(t.obj)
    BY <1>0, <2>1 DEF CallOK, Handler, PutLabels
  <2>4. View(s, a) = View(t, a)
    BY <2>1, <2>2, <2>3, ViewPut DEF PutLabels
  <2>5. CallOK(s, a)
    BY <2>2, <2>3 DEF CallOK
  <2> QED BY StepKeepsCallInv, <2>1, <2>4, <2>5, SameViewStutters DEF Simulates
<1>5. CASE PutCp(p)
  <2> DEFINE s == [t EXCEPT !.at = "put_store"]
  <2>1. /\ Become(p, s) /\ UNCHANGED answer /\ rows' = rows
        /\ t.at = "put_cp"
    BY <1>0, <1>5 DEF PutCp, CpCall, At, Goto, Become
  <2>2. s.at = "put_store" /\ s.obj = t.obj /\ s.new = t.new
    BY <1>0 DEF Task
  <2> HIDE DEF s
  <2>3. a = "none" /\ IsValidKey(t.obj)
    BY <1>0, <2>1 DEF CallOK, Handler, PutLabels
  <2>4. View(s, a) = View(t, a)
    BY <2>1, <2>2, <2>3, ViewPut DEF PutLabels
  <2>5. CallOK(s, a)
    BY <2>2, <2>3 DEF CallOK
  <2> QED BY StepKeepsCallInv, <2>1, <2>4, <2>5, SameViewStutters DEF Simulates
<1>6. CASE PutStore(p)
  <2> DEFINE s == UnpinOverwritten(t.old, t.new)
  <2>1. /\ Become(p, s) /\ Reply(p, "ok") /\ t.at = "put_store"
        /\ rows' = [rows EXCEPT ![t.obj] = t.new]
    BY <1>6 DEF PutStore, StoreCall, StoreObjectMetadata, At
  <2>2. s.at \notin Handler
    BY DEF UnpinOverwritten, NoTask, Handler, PutLabels, DeleteLabels
  <2> HIDE DEF s
  <2>3. View(t, a) = S3!Pending("put", t.obj, t.new) /\ IsValidKey(t.obj)
    BY <1>0, <2>1, ViewPut DEF CallOK, Handler, PutLabels
  <2>4. View(s, "ok") = S3!Idle("ok")
    BY <2>2, ViewIdle
  <2>5. S3!Put(p)
    <3>1. /\ AbstractCall' = [AbstractCall EXCEPT ![p] = S3!Idle("ok")]
          /\ AbstractCall[p].state = "pending" /\ AbstractCall[p].op = "put"
          /\ AbstractCall[p].obj = t.obj /\ AbstractCall[p].cid = t.new
      BY <2>1, <2>3, <2>4, RepliedIs
    <3> QED BY <3>1, <2>1, <2>3, SameKeysAreValid DEF S3!Put, S3!Answer, S3!StoreObjectMetadata
  <2>6. CallOK(s, "ok")
    BY <2>2 DEF CallOK, Handler, PutLabels
  <2> QED BY StepKeepsCallInv, <2>1, <2>5, <2>6, SlotSimulates
<1>7. CASE PutFails(p)
  <2>1. /\ Become(p, NoTask) /\ Reply(p, "error") /\ rows' = rows
        /\ t.at \in PutLabels
    BY <1>7, FailureKeepsRows DEF PutFails
  <2>2. View(t, a) = S3!Pending("put", t.obj, t.new)
    BY <1>0, <2>1, ViewPut DEF CallOK, Handler
  <2>3. S3!Fail(p)
    <3>1. /\ AbstractCall' = [AbstractCall EXCEPT ![p] = S3!Idle("error")]
          /\ AbstractCall[p].state = "pending"
      BY <2>1, <2>2, ViewNoTask, RepliedIs
    <3> QED BY <3>1, <2>1 DEF S3!Fail, S3!Answer
  <2>4. CallOK(NoTask, "error")
    BY DEF CallOK, NoTask, Handler, PutLabels, DeleteLabels
  <2> QED BY StepKeepsCallInv, <2>1, <2>3, <2>4, SlotSimulates
<1>8. CASE PutCountOld(p)
  <2> DEFINE s == [t EXCEPT !.at = "put_unpin"]
  <2>1. /\ Become(p, s) \/ Become(p, NoTask)
        /\ UNCHANGED answer /\ rows' = rows /\ t.at = "put_count"
    BY <1>0, <1>8 DEF PutCountOld, At, Goto, Become, stores
  <2>2. s.at = "put_unpin" /\ NoTask.at = "idle"
    BY <1>0 DEF Task, NoTask
  <2> HIDE DEF s
  <2>3. /\ View(s, a) = View(t, a) /\ View(NoTask, a) = View(t, a)
        /\ CallOK(s, a) /\ CallOK(NoTask, a)
    BY <2>1, <2>2, ViewIdle DEF Handler, PutLabels, DeleteLabels, CallOK
  <2> QED BY StepKeepsCallInv, <2>1, <2>3, SameViewStutters DEF Simulates
<1>9. CASE PutUnpinOld(p)
  <2>1. /\ Become(p, NoTask) /\ UNCHANGED answer /\ rows' = rows
        /\ t.at = "put_unpin"
    BY <1>9 DEF PutUnpinOld, UnpinCall, At
  <2>2. NoTask.at = "idle"
    BY DEF NoTask
  <2>3. View(NoTask, a) = View(t, a) /\ CallOK(NoTask, a)
    BY <2>1, <2>2, ViewIdle DEF Handler, PutLabels, DeleteLabels, CallOK
  <2> QED BY StepKeepsCallInv, <2>1, <2>3, SameViewStutters DEF Simulates
<1> QED BY <1>1, <1>2, <1>3, <1>4, <1>5, <1>6, <1>7, <1>8, <1>9

LEMMA DeleteSimulates ==
  ASSUME TypeInv, CallInv, NEW p \in Requests,
         \/ DeleteObject(p) \/ DeleteGetMetadata(p) \/ DeleteNotFound(p)
         \/ DeleteUnlink(p) \/ DeleteRow(p)
         \/ DeleteCountRemaining(p) \/ DeleteUnpin(p) \/ DeleteFails(p)
  PROVE  Simulates /\ CallInv'
<1> DEFINE t == task[p]
           a == answer[p]
<1>0. /\ CallOK(t, a) /\ t \in Task
      /\ task \in [Requests -> Task]
  BY DEF TypeInv, TypeOK, CallInv
<1>00. t.at \in Handler => a = "none"
  BY <1>0 DEF CallOK
<1>1. CASE DeleteObject(p)
  <2>1. PICK o \in Targets[p] :
          Become(p, [NoTask EXCEPT !.at = "del_get", !.obj = o])
    BY <1>1 DEF DeleteObject
  <2> DEFINE s == [NoTask EXCEPT !.at = "del_get", !.obj = o]
  <2>2. /\ Become(p, s) /\ Reply(p, "none") /\ rows' = rows
        /\ t.at = "idle"
    BY <1>1, <2>1 DEF DeleteObject, MayAsk, Running, stores
  <2>3. s.at = "del_get" /\ s.obj = o
    BY DEF NoTask
  <2> HIDE DEF s
  <2>4. View(t, a) = S3!Idle(a)
    BY <2>2, ViewIdle DEF Handler, PutLabels, DeleteLabels
  <2>5. View(s, "none") = S3!Pending("delete", o, NoCid)
    BY <2>3, ViewDelete
  <2>6. S3!Ask(p)
    BY <2>2, <2>4, <2>5, StepChangesView DEF S3!Ask, S3!Idle
  <2>7. CallOK(s, "none")
    BY <2>3 DEF CallOK
  <2> QED BY StepKeepsCallInv, <2>2, <2>6, <2>7, SlotSimulates
<1>2. CASE DeleteGetMetadata(p)
  <2> DEFINE s == [t EXCEPT !.at = "del_unlink", !.old = rows[t.obj]]
  <2>1. /\ Become(p, s) /\ UNCHANGED answer /\ rows' = rows
        /\ t.at = "del_get"
    BY <1>2 DEF DeleteGetMetadata, GetObjectMetadata, At, stores
  <2>2. s.at = "del_unlink" /\ s.obj = t.obj
    BY <1>0 DEF Task
  <2> HIDE DEF s
  <2>3. a = "none"
    BY <1>00, <2>1 DEF Handler, DeleteLabels
  <2>4. View(s, a) = View(t, a) /\ CallOK(s, a)
    BY <2>1, <2>2, <2>3, ViewDelete DEF CallOK
  <2> QED BY StepKeepsCallInv, <2>1, <2>4, SameViewStutters DEF Simulates
<1>3. CASE DeleteNotFound(p)
  <2>1. /\ Become(p, NoTask) /\ Reply(p, "not_found") /\ rows' = rows
        /\ t.at = "del_get" /\ rows[t.obj] = NoCid
    BY <1>3 DEF DeleteNotFound, GetObjectMetadata, At, stores
  <2>2. View(t, a) = S3!Pending("delete", t.obj, NoCid)
    BY <1>00, <2>1, ViewDelete DEF Handler, DeleteLabels
  <2>3. S3!NotFound(p)
    <3>1. /\ AbstractCall' = [AbstractCall EXCEPT ![p] = S3!Idle("not_found")]
          /\ AbstractCall[p].state = "pending"
          /\ AbstractCall[p].op = "delete" /\ AbstractCall[p].obj = t.obj
      BY <2>1, <2>2, ViewNoTask, RepliedIs
    <3> QED BY <3>1, <2>1 DEF S3!NotFound, S3!Answer, S3!GetObjectMetadata
  <2>4. CallOK(NoTask, "not_found")
    BY DEF CallOK, NoTask, Handler, PutLabels, DeleteLabels
  <2> QED BY StepKeepsCallInv, <2>1, <2>3, <2>4, SlotSimulates
<1>4. CASE DeleteUnlink(p)
  <2> DEFINE s == [t EXCEPT !.at = "del_row"]
  <2>1. /\ Become(p, s) /\ UNCHANGED answer /\ rows' = rows
        /\ t.at = "del_unlink"
    BY <1>0, <1>4 DEF DeleteUnlink, UnlinkCall, At, Goto, Become
  <2>2. s.at = "del_row" /\ s.obj = t.obj
    BY <1>0 DEF Task
  <2> HIDE DEF s
  <2>3. a = "none"
    BY <1>00, <2>1 DEF Handler, DeleteLabels
  <2>4. View(s, a) = View(t, a) /\ CallOK(s, a)
    BY <2>1, <2>2, <2>3, ViewDelete DEF CallOK
  <2> QED BY StepKeepsCallInv, <2>1, <2>4, SameViewStutters DEF Simulates
<1>5. CASE DeleteRow(p)
  <2> DEFINE s == [t EXCEPT !.at = "del_count"]
  <2>1. /\ Become(p, s) /\ UNCHANGED answer /\ t.at = "del_row"
        /\ rows' = [rows EXCEPT ![t.obj] = NoCid]
    BY <1>0, <1>5 DEF DeleteRow, DeleteCall, DeleteObjectRow, At, Goto, Become
  <2>2. s.at = "del_count" /\ s.obj = t.obj
    BY <1>0 DEF Task
  <2> HIDE DEF s
  <2>3. a = "none"
    BY <1>00, <2>1 DEF Handler, DeleteLabels
  <2>4. View(t, a) = S3!Pending("delete", t.obj, NoCid)
    BY <2>1, <2>3, ViewDelete
  <2>5. View(s, a) = S3!Effective(t.obj) /\ CallOK(s, a)
    BY <2>2, <2>3, ViewEffective DEF CallOK
  <2>6. S3!Delete(p)
    <3>1. /\ AbstractCall' = [AbstractCall EXCEPT ![p] = S3!Effective(t.obj)]
          /\ AbstractCall[p] = S3!Pending("delete", t.obj, NoCid)
      BY <2>1, <2>4, <2>5, StepChangesView
    <3>2. /\ AbstractCall[p].state = "pending"
          /\ AbstractCall[p].op = "delete" /\ AbstractCall[p].obj = t.obj
      BY <3>1 DEF S3!Pending
    <3> QED BY <3>1, <3>2, <2>1 DEF S3!Delete, S3!DeleteObjectRow
  <2> QED BY StepKeepsCallInv, <2>1, <2>5, <2>6, SlotSimulates
\* An answer once the row is gone.
<1>6. ASSUME NEW s, NEW b \in {"ok", "error"}, Become(p, s), Reply(p, b),
             s.at \notin Handler, rows' = rows, t.at \in {"del_count", "del_unpin"}
      PROVE  Simulates /\ CallInv'
  <2>1. View(t, a) = S3!Effective(t.obj)
    BY <1>00, <1>6, ViewEffective DEF Handler, DeleteLabels
  <2>2. View(s, b) = S3!Idle(b)
    BY <1>6, ViewIdle
  <2>3. S3!FinishDelete(p)
    <3>1. /\ AbstractCall' = [AbstractCall EXCEPT ![p] = S3!Idle(b)]
          /\ AbstractCall[p] = S3!Effective(t.obj)
      BY <1>6, <2>1, <2>2, StepChangesView
    <3>2. AbstractCall[p].state = "effective"
      BY <3>1 DEF S3!Effective
    <3> QED BY <3>1, <3>2, <1>6 DEF S3!FinishDelete, S3!Answer
  <2>4. CallOK(s, b)
    BY <1>6 DEF CallOK, Handler, PutLabels
  <2> QED BY StepKeepsCallInv, <1>6, <2>3, <2>4, SlotSimulates
<1>7. TrimTask(t.obj).at \notin Handler /\ NoTask.at \notin Handler
  BY DEF TrimTask, NoTask, Handler, PutLabels, DeleteLabels
<1>8. CASE DeleteCountRemaining(p)
  <2>1. t.at = "del_count" /\ rows' = rows
    BY <1>8 DEF DeleteCountRemaining, At, stores
  <2>2. CASE Goto(p, "del_unpin") /\ UNCHANGED answer
    <3> DEFINE s == [t EXCEPT !.at = "del_unpin"]
    <3>1. Become(p, s)
      BY <1>0, <2>2 DEF Goto, Become
    <3>2. s.at = "del_unpin" /\ s.obj = t.obj
      BY <1>0 DEF Task
    <3> HIDE DEF s
    <3>3. a = "none"
      BY <1>00, <2>1 DEF Handler, DeleteLabels
    <3>4. View(s, a) = View(t, a) /\ CallOK(s, a)
      BY <2>1, <3>2, <3>3, ViewEffective DEF CallOK
    <3> QED BY StepKeepsCallInv, <2>1, <2>2, <3>1, <3>4, SameViewStutters
            DEF Simulates
  <2>3. CASE DeleteAnswer(p)
    BY <1>6, <1>7, <2>1, <2>3 DEF DeleteAnswer
  <2> QED BY <1>8, <2>2, <2>3 DEF DeleteCountRemaining
<1>9. CASE DeleteUnpin(p)
  BY <1>6, <1>7, <1>9 DEF DeleteUnpin, DeleteAnswer, UnpinCall, At
<1>10. CASE DeleteFails(p)
  <2>1. /\ Become(p, NoTask) /\ Reply(p, "error") /\ rows' = rows
        /\ t.at \in DeleteLabels
    BY <1>10, FailureKeepsRows DEF DeleteFails
  <2>2. CASE t.at \in {"del_count", "del_unpin"}
    BY <1>6, <1>7, <2>1, <2>2
  <2>3. CASE t.at \in {"del_get", "del_unlink", "del_row"}
    <3>1. View(t, a) = S3!Pending("delete", t.obj, NoCid)
      BY <1>00, <2>1, <2>3, ViewDelete DEF Handler
    <3>2. S3!Fail(p)
      <4>1. /\ AbstractCall' = [AbstractCall EXCEPT ![p] = S3!Idle("error")]
            /\ AbstractCall[p].state = "pending"
        BY <2>1, <3>1, ViewNoTask, RepliedIs
      <4> QED BY <4>1, <2>1 DEF S3!Fail, S3!Answer
    <3>3. CallOK(NoTask, "error")
      BY DEF CallOK, NoTask, Handler, PutLabels, DeleteLabels
    <3> QED BY StepKeepsCallInv, <2>1, <3>2, <3>3, SlotSimulates
  <2> QED BY <2>1, <2>2, <2>3 DEF DeleteLabels
<1> QED BY <1>1, <1>2, <1>3, <1>4, <1>5, <1>8, <1>9, <1>10

LEMMA BackgroundSimulates ==
  ASSUME TypeInv, CallInv, NEW p \in Requests,
         \/ TrimNextAncestor(p) \/ TrimLastAncestor(p) \/ TrimAncestorInUse(p)
         \/ TrimUnlink(p) \/ BackgroundFails(p)
  PROVE  Simulates /\ CallInv'
<1> DEFINE t == task[p]
           a == answer[p]
<1>1. t \in Task
  BY DEF TypeInv, TypeOK
<1>2. PICK s : /\ Become(p, s) /\ UNCHANGED answer /\ rows' = rows
               /\ t.at \in BackgroundLabels
               /\ s.at \in {"idle", "trim_find", "trim_unlink"}
  <2>1. CASE TrimNextAncestor(p)
    <3>1. PICK d \in Shallower(t.obj, t.depth) :
            Become(p, [t EXCEPT !.depth = d, !.shallow = t.depth])
      BY <2>1 DEF TrimNextAncestor
    <3>2. [t EXCEPT !.depth = d, !.shallow = t.depth].at = t.at
      BY <1>1 DEF Task
    <3> QED BY <2>1, <3>1, <3>2
            DEF TrimNextAncestor, At, stores, BackgroundLabels
  <2>2. CASE TrimLastAncestor(p)
    <3>1. [t EXCEPT !.at = "trim_unlink", !.depth = 0,
                    !.shallow = t.depth].at = "trim_unlink"
      BY <1>1 DEF Task
    <3> QED BY <2>2, <3>1 DEF TrimLastAncestor, At, stores, BackgroundLabels
  <2>3. CASE TrimAncestorInUse(p)
    <3>1. /\ [t EXCEPT !.at = "trim_unlink", !.depth = 0].at = "trim_unlink"
          /\ NoTask.at = "idle"
      BY <1>1 DEF Task, NoTask
    <3> QED BY <2>3, <3>1 DEF TrimAncestorInUse, At, stores, BackgroundLabels
  <2>4. CASE TrimUnlink(p)
    BY <2>4 DEF TrimUnlink, TrimCall, At, NoTask, BackgroundLabels
  <2>5. CASE BackgroundFails(p)
    BY <2>5, FailureKeepsRows DEF BackgroundFails, NoTask
  <2> QED BY <2>1, <2>2, <2>3, <2>4, <2>5
<1>3. View(s, a) = View(t, a) /\ CallOK(s, a)
  BY <1>2, ViewIdle DEF BackgroundLabels, Handler, PutLabels, DeleteLabels, CallOK
<1> QED BY StepKeepsCallInv, <1>2, <1>3, SameViewStutters DEF Simulates

LEMMA DisconnectSimulates ==
  ASSUME TypeInv, CallInv, NEW p \in Requests, Disconnect(p)
  PROVE  Simulates /\ CallInv'
<1> DEFINE t == task[p]
           a == answer[p]
<1>1. /\ Become(p, NoTask) /\ UNCHANGED answer /\ t.at \in Handler /\ a = "none"
      /\ t.at \in {"put_add", "put_cp", "put_store"} => IsValidKey(t.obj)
  <2>1. CallOK(t, a)
    BY DEF CallInv
  <2>2. Become(p, NoTask) /\ UNCHANGED answer /\ t.at \in Handler
    BY DEF Disconnect, InHandler
  <2> QED BY <2>1, <2>2 DEF CallOK
<1>2. /\ AbstractCall' = [AbstractCall EXCEPT ![p] = S3!Idle("none")]
      /\ AbstractCall[p] = View(t, a)
  <2>1. View(NoTask, a) = S3!Idle("none")
    BY <1>1, ViewNoTask
  <2>2. /\ AbstractCall' = [AbstractCall EXCEPT ![p] = View(NoTask, a)]
        /\ AbstractCall[p] = View(t, a)
    BY <1>1, StepChangesView
  <2> QED BY <2>1, <2>2
<1>3. /\ t.at \in PutLabels => AbstractCall[p] = S3!Pending("put", t.obj, t.new)
      /\ t.at \in {"del_get", "del_unlink", "del_row"} =>
           AbstractCall[p] = S3!Pending("delete", t.obj, NoCid)
      /\ t.at \in {"del_count", "del_unpin"} =>
           AbstractCall[p] = S3!Effective(t.obj)
  BY <1>1, <1>2, ViewPut, ViewDelete, ViewEffective
<1>4. AbstractCall[p].state # "idle"
  <2>1. /\ S3!Pending("put", t.obj, t.new).state = "pending"
        /\ S3!Pending("delete", t.obj, NoCid).state = "pending"
        /\ S3!Effective(t.obj).state = "effective"
    BY DEF S3!Pending, S3!Effective
  <2>2. \/ t.at \in PutLabels
        \/ t.at \in {"del_get", "del_unlink", "del_row"}
        \/ t.at \in {"del_count", "del_unpin"}
    BY <1>1 DEF Handler, DeleteLabels
  <2> QED BY <1>3, <2>1, <2>2
<1>5. ASSUME rows' = rows PROVE Simulates
  <2>1. S3!Vanish(p)
    BY <1>2, <1>4, <1>5 DEF S3!Vanish, S3!Answer
  <2> QED BY <2>1, SlotSimulates
<1>6. ASSUME StoreCall(p) PROVE Simulates
  <2>1. t.at = "put_store" /\ rows' = [rows EXCEPT ![t.obj] = t.new]
    BY <1>6 DEF StoreCall, StoreObjectMetadata, At
  <2>2. /\ AbstractCall[p].state = "pending" /\ AbstractCall[p].op = "put"
        /\ AbstractCall[p].obj = t.obj /\ AbstractCall[p].cid = t.new
    <3>1. AbstractCall[p] = S3!Pending("put", t.obj, t.new)
      <4>1. t.at \in PutLabels
        BY <2>1 DEF PutLabels
      <4> QED BY <1>3, <4>1
    <3> QED BY <3>1 DEF S3!Pending
  <2>3. S3!Vanish(p)
    BY <1>2, <1>4, <2>1, <2>2 DEF S3!Vanish, S3!Answer, S3!StoreObjectMetadata
  <2> QED BY <2>3, SlotSimulates
<1>7. ASSUME DeleteCall(p) PROVE Simulates
  <2>1. t.at = "del_row" /\ rows' = [rows EXCEPT ![t.obj] = NoCid]
    BY <1>7 DEF DeleteCall, DeleteObjectRow, At
  <2>2. /\ AbstractCall[p].state = "pending" /\ AbstractCall[p].op = "delete"
        /\ AbstractCall[p].obj = t.obj
    <3>1. AbstractCall[p] = S3!Pending("delete", t.obj, NoCid)
      <4>1. t.at \in {"del_get", "del_unlink", "del_row"}
        BY <2>1
      <4> QED BY <1>3, <4>1
    <3> QED BY <3>1 DEF S3!Pending
  <2>3. S3!Vanish(p)
    BY <1>2, <1>4, <2>1, <2>2 DEF S3!Vanish, S3!Answer, S3!DeleteObjectRow
  <2> QED BY <2>3, SlotSimulates
<1>8. rows' = rows \/ StoreCall(p) \/ DeleteCall(p)
  BY DEF Disconnect, stores, StoreEffect, AddCall, CpCall, UnlinkCall,
         UnpinCall, TrimCall
<1>9. CallOK(NoTask, a)
  BY DEF CallOK, NoTask, Handler, PutLabels, DeleteLabels
<1> QED BY <1>1, <1>5, <1>6, <1>7, <1>8, <1>9, StepKeepsCallInv

LEMMA CrashSimulates ==
  ASSUME Crash
  PROVE  Simulates /\ CallInv'
<1>1. /\ task' = [p \in Requests |-> NoTask]
      /\ answer' = [p \in Requests |-> "none"]
      /\ rows' = rows
  BY DEF Crash, stores
<1>2. AbstractCall' = [p \in Requests |-> View(task'[p], answer'[p])]
  BY DEF AbstractCall
<1>3. AbstractCall' = [p \in Requests |-> S3!Idle("none")]
  <2> HIDE DEF AbstractCall
  <2> QED BY <1>1, <1>2, ViewNoTask
<1>4. CallInv'
  <2>1. NoTask.at = "idle"
    BY DEF NoTask
  <2> QED BY <1>1, <2>1 DEF CallInv, CallOK, Handler, PutLabels, DeleteLabels
<1> QED BY <1>1, <1>3, <1>4 DEF Simulates, S3!Next, S3!Crash

LEMMA NextSimulates ==
  ASSUME TypeInv, CallInv, [Next]_vars
  PROVE  Simulates /\ CallInv'
<1>1. CASE Next
  <2>1. ASSUME NEW p \in Requests, Ask(p) \/ Step(p)
        PROVE  Simulates /\ CallInv'
    BY <2>1, PutSimulates, DeleteSimulates, BackgroundSimulates DEF Ask, Step
  <2> QED BY <1>1, <2>1, DisconnectSimulates, CrashSimulates DEF Next
<1>2. CASE UNCHANGED vars
  <2>1. AbstractCall' = AbstractCall
    BY <1>2 DEF AbstractCall, vars, View
  <2> QED BY <1>2, <2>1 DEF vars, Simulates, CallInv, CallOK
<1> QED BY <1>1, <1>2

LEMMA InitSimulates ==
  ASSUME Init
  PROVE  S3!Init /\ CallInv
<1>1. /\ task = [p \in Requests |-> NoTask]
      /\ answer = [p \in Requests |-> "none"]
  BY DEF Init
<1>2. AbstractCall = [p \in Requests |-> S3!Idle("none")]
  <2>1. AbstractCall = [p \in Requests |-> View(task[p], answer[p])]
    BY DEF AbstractCall
  <2> QED BY <1>1, <2>1, ViewNoTask
<1>3. CallInv
  BY <1>1 DEF CallInv, CallOK, NoTask, Handler, PutLabels, DeleteLabels
<1> QED BY <1>2, <1>3 DEF Init, InitDatabase, S3!Init, S3!InitDatabase

(***************************************************************************)
(* PutObject and DeleteObject implement S3Store for every set of slots,    *)
(* objects and contents: whatever overlaps, fails, disconnects or crashes, *)
(* a client sees each request take effect on the table in one step.        *)
(***************************************************************************)
THEOREM RequestsAreAtomic == Spec => ImplementsS3Store
<1>1. Init => S3!Init /\ CallInv
  BY InitSimulates
<1>2. TypeInv /\ CallInv /\ [Next]_vars =>
        CallInv' /\ [S3!Next]_<<rows, AbstractCall>>
  BY NextSimulates DEF Simulates
<1> QED BY <1>1, <1>2, TypeInvariant, PTL DEF Spec, ImplementsS3Store, S3!Spec

=============================================================================
