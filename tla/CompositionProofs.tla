------------------------- MODULE CompositionProofs -------------------------
(***************************************************************************)
(* Lifecycle, DeleteObjects and ReadPath take the steps of ObjectStore and *)
(* keep its theorems.                                                      *)
(*                                                                         *)
(* Starts, signals and shutdowns keep the promise of S3Store: to the       *)
(* requests, a closed pool is a call that fails, the end a crash.          *)
(*                                                                         *)
(* A batch is a sequence of deletions, the trims of which may run beside   *)
(* it.  What it reports is true, it deletes what it finds, and it leaves   *)
(* the MFS as the table says.                                              *)
(*                                                                         *)
(* A client that reads finds what the answers to those who write have      *)
(* told.                                                                   *)
(***************************************************************************)
EXTENDS ReadPath, Lifecycle, DeleteObjects, NodeProofs, FolderProofs

-----------------------------------------------------------------------------
LEMMA RefusalIsStep ==
  ASSUME NEW p \in Requests, PoolRefuses(p)
  PROVE  Step(p)
BY DEF PoolRefuses, Step

LEMMA LifeNextIsNext ==
  ASSUME [LifeNext]_lifeVars
  PROVE  [Next]_vars
<1>1. CASE Signal \/ PoolCloses \/ Start
  BY <1>1 DEF Signal, PoolCloses, Start
<1>2. CASE Exit \/ Kill
  BY <1>2 DEF Exit, Kill, ProcessEnds, Next
<1>3. ASSUME NEW p \in Requests, Accept(p)
      PROVE  Next
  BY <1>3 DEF Accept, Next
<1>4. ASSUME NEW p \in Requests, Proceed(p)
      PROVE  Next
  BY <1>4, RefusalIsStep DEF Proceed, Next
<1>5. ASSUME NEW p \in Requests, Hangup(p)
      PROVE  Next
  BY <1>5 DEF Hangup, Next
<1>6. ASSUME NEW p \in Requests, Connect(p) \/ Close(p)
      PROVE  UNCHANGED vars
  BY <1>6 DEF Connect, Close
<1>7. CASE UNCHANGED lifeVars
  BY <1>7 DEF lifeVars
<1> QED BY <1>1, <1>2, <1>3, <1>4, <1>5, <1>6, <1>7 DEF LifeNext

LEMMA LifeSpecIsSpec == LifeSpec => Spec
<1>1. LifeInit => Init
  BY DEF LifeInit
<1>2. [LifeNext]_lifeVars => [Next]_vars
  BY LifeNextIsNext
<1> QED BY <1>1, <1>2, PTL DEF LifeSpec, Spec

\* However often the server is started, signalled, shut down with requests in
\* flight or killed, each request takes effect on the table in one step before
\* it is acknowledged, and a PUT answered with an error has none.
THEOREM AtomicThroughShutdown == LifeSpec => ImplementsS3Store
BY LifeSpecIsSpec, RequestsAreAtomic

\* Nor does a shutdown cost a stored content its pin, when the clients have
\* objects and contents of their own: neither a count that the closed pool
\* refuses nor a background task that ends with the process takes it.
THEOREM PinnedThroughShutdown ==
  ASSUME Exclusive, OwnContents
  PROVE  LifeSpec => []RowsPinned
BY LifeSpecIsSpec, RowsStayPinned

\* Nor a stored object its file, when the clients have folders of their own: a
\* trim that was under way at the signal removes nothing after the handler or
\* the query that it follows has failed, and nothing that is stored again.
THEOREM TrimsSpareThroughShutdown ==
  ASSUME PlainObjects, NoFileInTheWay, OwnFolders
  PROVE  LifeSpec => TrimSparesLive
BY LifeSpecIsSpec, TrimsSpareLive

-----------------------------------------------------------------------------
\* The keys of the batch client are its own.
BatchAlone == \A p \in Requests \ BatchSlots : Targets[p] \cap BatchKeys = {}

Batch == [left : Seq(BatchKeys), slot : BatchSlots \cup {NoSlot},
          deleted : SUBSET BatchKeys, failed : SUBSET BatchKeys,
          found : SUBSET Objects]

\* The labels of a PUT and of the unpinning after it.
Putting == PutLabels \cup {"put_count", "put_unpin"}

\* The labels of a deletion whose row is gone.
RowGone == {"del_count", "del_unpin"}

(***************************************************************************)
(* While a batch runs its client stores nothing, so that a row once gone   *)
(* stays gone; the slot of the batch deletes its first key; and of all the *)
(* slots of its client one handler runs at a time, that of the batch or    *)
(* that of a PUT which waited for all the trims.                           *)
(***************************************************************************)
SlotDeletes(b, t, R) ==
  /\ b.left # <<>>
  /\ t.at \in DeleteLabels
  /\ t.obj = Head(b.left)
  /\ t.at \in RowGone => R[t.obj] = NoCid

OneHandler ==
  \A p \in BatchSlots : InHandler(p) =>
    IF InBatch THEN p = batch.slot ELSE \A q \in BatchSlots \ {p} : ~Running(q)

BatchInv ==
  /\ batch \in Batch
  /\ InBatch => \A p \in BatchSlots : task[p].at \notin Putting
  /\ OneHandler
  /\ batch.slot # NoSlot => SlotDeletes(batch, task[batch.slot], rows)
  /\ DeletedIsGone

-----------------------------------------------------------------------------
LEMMA BatchNextIsNext ==
  ASSUME [BatchNext]_batchVars
  PROVE  [Next]_vars
<1>1. CASE AskOther
  BY <1>1 DEF AskOther, Next
<1>2. CASE PutOwn
  BY <1>2, BatchAssumption DEF PutOwn, Ask, Next
<1>3. CASE ModifyBucket \/ AnswerBatch \/ CrashBatch
  BY <1>3 DEF ModifyBucket, AnswerBatch, CrashBatch, Next
<1>4. ASSUME NEW p \in BatchSlots, DeleteNext(p)
      PROVE  Next
  BY <1>4, BatchAssumption DEF DeleteNext, Ask, Next
<1>5. ASSUME NEW p \in Requests, Work(p) \/ Leave(p)
      PROVE  Next
  BY <1>5 DEF Work, Leave, Next
<1>6. CASE UNCHANGED batchVars
  BY <1>6 DEF batchVars
<1> QED BY <1>1, <1>2, <1>3, <1>4, <1>5, <1>6 DEF BatchNext

-----------------------------------------------------------------------------
(***************************************************************************)
(* What a step of a slot does to its own record and to the table.          *)
(***************************************************************************)
\* A handler of DELETE goes on, having deleted the row when it counts; or it
\* ends, with "ok" only after that.
DeletionGoesOn(p) ==
  \/ /\ task'[p].at \in DeleteLabels
     /\ task'[p].obj = task[p].obj
     /\ task'[p].at \in RowGone =>
          task[p].at \in RowGone \/ rows'[task[p].obj] = NoCid
  \/ /\ task'[p].at \in {"idle", "trim_find"}
     /\ answer'[p] = "ok" => task[p].at \in RowGone

LEMMA DeleteAnswerEnds ==
  ASSUME TypeInv, NEW p \in Requests, DeleteAnswer(p), task[p].at \in RowGone
  PROVE  DeletionGoesOn(p)
<1>1. TrimTask(task[p].obj).at \in {"idle", "trim_find"}
  BY DEF TrimTask, NoTask
<1> QED BY <1>1, BecomeIs
        DEF DeleteAnswer, DeletionGoesOn, Handler, PutLabels, DeleteLabels

LEMMA DeletionSteps ==
  ASSUME TypeInv, NEW p \in Requests, Step(p), task[p].at \in DeleteLabels
  PROVE  DeletionGoesOn(p)
<1> USE DEF DeleteLabels, RowGone
<1>1. CASE DeleteGetMetadata(p)
  <2> DEFINE s == [task[p] EXCEPT !.at = "del_unlink",
                                  !.old = GetObjectMetadata(task[p].obj)]
  <2>1. Become(p, s)
    BY <1>1 DEF DeleteGetMetadata
  <2>2. s.at = "del_unlink" /\ s.obj = task[p].obj
    BY DEF TypeInv, TypeOK, Task
  <2> HIDE DEF s
  <2> QED BY <2>1, <2>2, BecomeIs DEF DeletionGoesOn
<1>2. CASE DeleteNotFound(p) \/ DeleteFails(p)
  <2>1. Become(p, NoTask) /\ (Reply(p, "not_found") \/ Reply(p, "error"))
    BY <1>2 DEF DeleteNotFound, DeleteFails
  <2> QED BY <2>1, BecomeIs, ReplyIs, NoTaskLabel
          DEF DeletionGoesOn, Handler, PutLabels
<1>3. CASE DeleteUnlink(p)
  BY <1>3, GotoIs DEF DeleteUnlink, DeletionGoesOn
<1>4. CASE DeleteRow(p)
  <2>1. rows'[task[p].obj] = NoCid
    <3>1. task[p].obj \in Objects
      BY RequestsAssumption DEF TypeInv, TaskOK, NamesObject, Handler
    <3> QED BY <1>4, <3>1
            DEF DeleteRow, DeleteCall, DeleteObjectRow, TypeInv, TypeOK, Rows
  <2> QED BY <1>4, <2>1, GotoIs DEF DeleteRow, DeletionGoesOn
<1>5. CASE DeleteCountRemaining(p)
  <2>1. task[p].at \in RowGone
    BY <1>5 DEF DeleteCountRemaining, At
  <2>2. CASE Goto(p, "del_unpin")
    BY <2>1, <2>2, GotoIs DEF DeletionGoesOn
  <2>3. CASE DeleteAnswer(p)
    BY <2>1, <2>3, DeleteAnswerEnds
  <2> QED BY <1>5, <2>2, <2>3 DEF DeleteCountRemaining
<1>6. CASE DeleteUnpin(p)
  BY <1>6, DeleteAnswerEnds DEF DeleteUnpin, At
<1> QED BY <1>1, <1>2, <1>3, <1>4, <1>5, <1>6, DeletionStepIs

\* A slot keeps to its kind of work: nothing but a request makes it store, and
\* only a handler is one.
LEMMA StepKeepsKind ==
  ASSUME TypeInv, NEW p \in Requests, Step(p)
  PROVE  /\ Running(p)
         /\ task[p].at \notin Putting => task'[p].at \notin Putting
         /\ ~InHandler(p) => task'[p].at \notin Handler
<1> USE DEF Putting, Handler, InHandler
<1>1. Running(p)
  <2>1. CASE PutFails(p) \/ DeleteFails(p) \/ BackgroundFails(p)
    BY <2>1 DEF PutFails, DeleteFails, BackgroundFails, PutLabels, DeleteLabels,
                BackgroundLabels, Running
  <2>2. CASE ~(PutFails(p) \/ DeleteFails(p) \/ BackgroundFails(p))
    BY <2>2 DEF Step, PutGetMetadata, PutInvalidKey, PutAdd, AddCall, PutCp, CpCall,
           PutStore, StoreCall, PutCountOld, PutUnpinOld, DeleteGetMetadata,
           DeleteNotFound, DeleteUnlink, UnlinkCall, DeleteRow, DeleteCall,
           DeleteCountRemaining, DeleteUnpin, TrimNextAncestor, TrimLastAncestor,
           TrimAncestorInUse, TrimUnlink, TrimCall, At, Running
  <2> QED BY <2>1, <2>2
<1>2. CASE task[p].at \in DeleteLabels
  BY <1>1, <1>2, DeletionSteps DEF DeletionGoesOn, PutLabels, DeleteLabels
<1>3. CASE task[p].at \in PutLabels
  BY <1>1, <1>3
<1>4. CASE ~InHandler(p)
  <2>1. ~(\/ PutGetMetadata(p) \/ PutInvalidKey(p)
          \/ PutAdd(p) \/ PutCp(p) \/ PutStore(p) \/ PutFails(p))
    BY <1>4 DEF PutGetMetadata, PutInvalidKey, PutAdd, AddCall, PutCp, CpCall, PutStore,
           StoreCall, PutFails, PutLabels, At
  <2>2. ~(\/ DeleteGetMetadata(p) \/ DeleteNotFound(p)
          \/ DeleteUnlink(p) \/ DeleteRow(p)
          \/ DeleteCountRemaining(p) \/ DeleteUnpin(p) \/ DeleteFails(p))
    BY <1>4 DEF DeleteGetMetadata, DeleteNotFound, DeleteUnlink, UnlinkCall,
           DeleteRow, DeleteCall, DeleteCountRemaining, DeleteUnpin, DeleteFails,
           DeleteLabels, At
  <2>3. CASE PutCountOld(p)
    BY <1>1, <2>3, BecomeIs, GotoIs, NoTaskLabel DEF PutCountOld, PutLabels, DeleteLabels, At
  <2>4. CASE PutUnpinOld(p) \/ TrimUnlink(p) \/ BackgroundFails(p)
    BY <1>1, <2>4, BecomeIs, NoTaskLabel
    DEF PutUnpinOld, TrimUnlink, BackgroundFails, PutLabels, DeleteLabels
  <2>5. CASE TrimNextAncestor(p)
    <3>1. PICK d : Become(p, [task[p] EXCEPT !.depth = d, !.shallow = task[p].depth])
      BY <2>5 DEF TrimNextAncestor
    <3> DEFINE s == [task[p] EXCEPT !.depth = d, !.shallow = task[p].depth]
    <3>2. s.at = task[p].at
      BY DEF TypeInv, TypeOK, Task
    <3> HIDE DEF s
    <3>3. Become(p, s)
      BY <3>1 DEF s
    <3> QED BY <1>1, <1>4, <3>2, <3>3, BecomeIs
  <2>6. CASE TrimLastAncestor(p)
    <3> DEFINE s == [task[p] EXCEPT !.at = "trim_unlink", !.depth = 0,
                                    !.shallow = task[p].depth]
    <3>1. s.at = "trim_unlink"
      BY DEF TypeInv, TypeOK, Task
    <3>2. Become(p, s)
      BY <2>6 DEF TrimLastAncestor
    <3> HIDE DEF s
    <3> QED BY <1>1, <3>1, <3>2, BecomeIs DEF PutLabels, DeleteLabels
  <2>7. CASE TrimAncestorInUse(p)
    <3> DEFINE s == [task[p] EXCEPT !.at = "trim_unlink", !.depth = 0]
    <3>1. s.at = "trim_unlink"
      BY DEF TypeInv, TypeOK, Task
    <3>2. Become(p, NoTask) \/ Become(p, s)
      BY <2>7 DEF TrimAncestorInUse
    <3> HIDE DEF s
    <3> QED BY <1>1, <3>1, <3>2, BecomeIs, NoTaskLabel DEF PutLabels, DeleteLabels
  <2> QED BY <1>1, <2>1, <2>2, <2>3, <2>4, <2>5, <2>6, <2>7 DEF Step
<1> QED BY <1>1, <1>2, <1>3, <1>4

\* Only the upsert of a PUT brings a row.
LEMMA EffectOnRows ==
  ASSUME NEW p \in Requests, StoreEffect(p)
  PROVE  UNCHANGED rows \/ StoreCall(p) \/ DeleteCall(p)
BY DEF StoreEffect, AddCall, CpCall, UnlinkCall, UnpinCall, TrimCall

LEMMA StepOnRows ==
  ASSUME NEW p \in Requests, Step(p)
  PROVE  UNCHANGED rows \/ StoreCall(p) \/ DeleteCall(p)
<1>1. CASE PutFails(p) \/ DeleteFails(p) \/ BackgroundFails(p)
  BY <1>1, FailureKeepsRows DEF PutFails, DeleteFails, BackgroundFails
<1>2. CASE \/ PutGetMetadata(p) \/ PutInvalidKey(p) \/ PutAdd(p) \/ PutCp(p)
           \/ PutStore(p) \/ PutCountOld(p) \/ PutUnpinOld(p)
  BY <1>2 DEF PutGetMetadata, PutInvalidKey, PutAdd, AddCall, PutCp, CpCall,
              PutStore, PutCountOld, PutUnpinOld, UnpinCall, stores
<1>3. CASE \/ DeleteGetMetadata(p) \/ DeleteNotFound(p) \/ DeleteUnlink(p)
           \/ DeleteRow(p) \/ DeleteCountRemaining(p) \/ DeleteUnpin(p)
  BY <1>3 DEF DeleteGetMetadata, DeleteNotFound, DeleteUnlink, UnlinkCall,
              DeleteRow, DeleteCountRemaining, DeleteUnpin, UnpinCall, stores
<1>4. CASE \/ TrimNextAncestor(p) \/ TrimLastAncestor(p) \/ TrimAncestorInUse(p)
           \/ TrimUnlink(p)
  BY <1>4 DEF TrimNextAncestor, TrimLastAncestor, TrimAncestorInUse, TrimUnlink,
              TrimCall, stores
<1> QED BY <1>1, <1>2, <1>3, <1>4 DEF Step

LEMMA GoneStaysGone ==
  ASSUME BatchAlone, TypeInv, BatchInv, InBatch, NEW p \in Requests,
         Step(p) \/ Disconnect(p), NEW o \in BatchKeys, rows[o] = NoCid
  PROVE  rows'[o] = NoCid
<1>1. UNCHANGED rows \/ StoreCall(p) \/ DeleteCall(p)
  BY StepOnRows, EffectOnRows DEF Disconnect, stores
<1>2. o \in Objects /\ rows \in [Objects -> Cids \cup {NoCid}]
  BY BatchAssumption DEF TypeInv, TypeOK, Rows
<1>3. CASE StoreCall(p)
  <2>1. task[p].at = "put_store" /\ rows' = [rows EXCEPT ![task[p].obj] = task[p].new]
    BY <1>3 DEF StoreCall, StoreObjectMetadata, At
  <2>2. p \notin BatchSlots
    BY <2>1 DEF BatchInv, Putting, PutLabels
  <2>3. task[p].obj \in Targets[p]
    BY <2>1 DEF TypeInv, TaskOK, NamesObject, Handler, PutLabels
  <2>4. task[p].obj # o
    BY <2>2, <2>3 DEF BatchAlone
  <2> QED BY <1>2, <2>1, <2>4
<1>4. CASE DeleteCall(p)
  BY <1>2, <1>4 DEF DeleteCall, DeleteObjectRow
<1> QED BY <1>1, <1>3, <1>4

-----------------------------------------------------------------------------
LEMMA NoBatchOK ==
  /\ NoBatch \in Batch /\ NoBatch.slot = NoSlot /\ NoBatch.deleted = {}
BY DEF NoBatch, Batch

\* The batch ends, and nothing of it goes on.
LEMMA NoBatchKeepsInv ==
  ASSUME batch' = NoBatch, \A p \in BatchSlots : task'[p].at \notin Handler
  PROVE  BatchInv'
BY NoBatchOK DEF BatchInv, OneHandler, InBatch, InHandler, DeletedIsGone

LEMMA SlotIsInBatch ==
  ASSUME batch.slot # NoSlot
  PROVE  InBatch
BY NoBatchOK DEF InBatch

\* The report on the first key.
LEMMA ReportedOK ==
  ASSUME NEW a, batch \in Batch, batch.left # <<>>
  PROVE  /\ Reported(a) \in Batch
         /\ Reported(a).slot = NoSlot
         /\ Reported(a).deleted \subseteq batch.deleted \cup {Head(batch.left)}
         /\ a # "ok" => Reported(a).deleted = batch.deleted
<1> DEFINE rest == Tail(batch.left)
           deleted == batch.deleted \cup {Head(batch.left)}
           failed == batch.failed \cup {Head(batch.left)}
<1>1. Head(batch.left) \in BatchKeys /\ rest \in Seq(BatchKeys)
  BY DEF Batch
<1>2. CASE a = "ok"
  <2>1. Reported(a) = [batch EXCEPT !.slot = NoSlot, !.left = rest, !.deleted = deleted]
    BY <1>2 DEF Reported
  <2>2. deleted \subseteq BatchKeys
    BY <1>1 DEF Batch
  <2>3. deleted = batch.deleted \cup {Head(batch.left)}
    OBVIOUS
  <2> HIDE DEF rest, deleted, failed
  <2> QED BY <1>1, <1>2, <2>1, <2>2, <2>3 DEF Batch
<1>3. CASE a # "ok"
  <2>1. Reported(a) = [batch EXCEPT !.slot = NoSlot, !.left = rest, !.failed = failed]
    BY <1>3 DEF Reported
  <2>2. failed \subseteq BatchKeys
    BY <1>1 DEF Batch
  <2>3. failed = batch.failed \cup {Head(batch.left)}
    OBVIOUS
  <2> HIDE DEF rest, deleted, failed
  <2> QED BY <1>1, <1>3, <2>1, <2>2, <2>3 DEF Batch
<1> QED BY <1>2, <1>3

\* A step of another slot, or of no slot of a batch.
LEMMA OtherStepKeepsInv ==
  ASSUME BatchAlone, TypeInv, BatchInv, NEW p \in Requests, p # batch.slot,
         Step(p) \/ Disconnect(p), UNCHANGED batch
  PROVE  BatchInv'
<1>1. /\ \A q \in Requests \ {p} : task'[q] = task[q]
      /\ task[p].at \notin Putting => task'[p].at \notin Putting
      /\ Running(p)
      /\ ~InHandler(p) => task'[p].at \notin Handler
  <2>1. CASE Disconnect(p)
    <3>1. Become(p, NoTask)
      BY <2>1 DEF Disconnect
    <3>2. InHandler(p) /\ Running(p)
      BY <2>1 DEF Disconnect, InHandler, Handler, PutLabels, DeleteLabels, Running
    <3> QED BY <3>1, <3>2, BecomeIs, NoTaskLabel DEF Putting, PutLabels
  <2>2. CASE Step(p)
    BY <2>2, StepKeepsKind, StepIsOwn
  <2> QED BY <2>1, <2>2
<1>2. InBatch' => InBatch
  BY DEF InBatch
<1>3. InBatch => \A q \in BatchSlots : task'[q].at \notin Putting
  <2>1. InBatch => \A q \in BatchSlots : task[q].at \notin Putting
    BY DEF BatchInv
  <2>2. \A q \in BatchSlots : q = p \/ q \in Requests \ {p}
    BY BatchAssumption
  <2> QED BY <1>1, <2>1, <2>2
<1>4. batch.slot # NoSlot => SlotDeletes(batch, task'[batch.slot], rows')
  <2> SUFFICES ASSUME batch.slot # NoSlot
               PROVE  SlotDeletes(batch, task'[batch.slot], rows')
    OBVIOUS
  <2>1. /\ InBatch /\ batch.slot \in Requests \ {p}
        /\ batch.left \in Seq(BatchKeys)
        /\ SlotDeletes(batch, task[batch.slot], rows)
    BY SlotIsInBatch, BatchAssumption DEF BatchInv, Batch
  <2>2. Head(batch.left) \in BatchKeys
    BY <2>1 DEF SlotDeletes
  <2>3. rows[Head(batch.left)] = NoCid => rows'[Head(batch.left)] = NoCid
    BY <2>1, <2>2, GoneStaysGone
  <2>4. task'[batch.slot] = task[batch.slot]
    BY <1>1, <2>1
  <2> QED BY <2>1, <2>3, <2>4 DEF SlotDeletes
<1>5. DeletedIsGone'
  <2>1. batch.deleted # {} => InBatch
    BY NoBatchOK DEF InBatch
  <2>2. batch.deleted \subseteq BatchKeys
    BY DEF BatchInv, Batch
  <2> QED BY <2>1, <2>2, GoneStaysGone DEF BatchInv, DeletedIsGone
<1>6. OneHandler'
  <2> SUFFICES ASSUME NEW q \in BatchSlots, task'[q].at \in Handler
               PROVE  IF InBatch THEN q = batch.slot
                      ELSE \A r \in BatchSlots \ {q} : task'[r].at = "idle"
    BY DEF OneHandler, InHandler, InBatch, Running
  <2>1. InHandler(q)
    BY <1>1, BatchAssumption DEF InHandler
  <2>2. IF InBatch THEN q = batch.slot ELSE \A r \in BatchSlots \ {q} : ~Running(r)
    BY <2>1 DEF BatchInv, OneHandler
  <2>3. CASE ~InBatch
    BY <1>1, <2>2, <2>3, BatchAssumption DEF Running
  <2> QED BY <2>2, <2>3
<1> QED BY <1>2, <1>3, <1>4, <1>5, <1>6 DEF BatchInv

LEMMA BatchInvInit == BatchInit => BatchInv
<1> SUFFICES ASSUME BatchInit PROVE BatchInv
  OBVIOUS
<1>1. \A p \in BatchSlots : ~InHandler(p)
  BY NoTaskLabel, BatchAssumption
  DEF BatchInit, Init, InHandler, Handler, PutLabels, DeleteLabels
<1> QED BY <1>1, NoBatchOK DEF BatchInit, BatchInv, OneHandler, InBatch, DeletedIsGone

\* The deletion of the first key: a step of the slot of the batch.
LEMMA DeletionKeepsInv ==
  ASSUME BatchAlone, TypeInv, BatchInv, NEW p \in Requests, p = batch.slot, Work(p)
  PROVE  BatchInv'
<1>1. /\ p # NoSlot /\ p \in BatchSlots
      /\ InBatch /\ batch \in Batch
      /\ SlotDeletes(batch, task[p], rows)
      /\ Head(batch.left) \in BatchKeys
  BY BatchAssumption, SlotIsInBatch DEF BatchInv, Batch, SlotDeletes
<1>2. Step(p)
  BY DEF Work
<1>3. /\ DeletionGoesOn(p)
      /\ \A q \in Requests \ {p} : task'[q] = task[q]
  BY <1>1, <1>2, DeletionSteps, StepIsOwn DEF SlotDeletes
<1>4. \A q \in BatchSlots : task'[q].at \notin Putting
  <2>1. task'[p].at \notin Putting
    BY <1>3 DEF DeletionGoesOn, Putting, Handler, PutLabels, DeleteLabels
  <2> QED BY <1>1, <1>3, <2>1, BatchAssumption DEF BatchInv
<1>9. \A q \in BatchSlots \ {p} : task'[q].at \notin Handler
  BY <1>1, <1>3, BatchAssumption DEF BatchInv, OneHandler, InHandler
<1>5. \A o \in BatchKeys : rows[o] = NoCid => rows'[o] = NoCid
  BY <1>1, <1>2, GoneStaysGone
<1>6. batch.deleted \subseteq BatchKeys /\ \A o \in batch.deleted : rows[o] = NoCid
  BY <1>1 DEF Batch, BatchInv, DeletedIsGone
<1>7. CASE task'[p].at \in Handler
  <2>1. batch' = batch
    BY <1>7 DEF Work
  <2>2. SlotDeletes(batch, task'[p], rows')
    BY <1>1, <1>3, <1>5, <1>7
    DEF SlotDeletes, DeletionGoesOn, Handler, PutLabels, DeleteLabels
  <2>3. OneHandler'
    BY <1>1, <1>9, <2>1 DEF OneHandler, InHandler, InBatch
  <2> QED BY <1>1, <1>4, <1>5, <1>6, <2>1, <2>2, <2>3 DEF BatchInv, DeletedIsGone
<1>8. CASE task'[p].at \notin Handler
  <2>1. batch' = Reported(answer'[p])
    BY <1>8 DEF Work
  <2>2. answer'[p] = "ok" => rows[Head(batch.left)] = NoCid
    BY <1>1, <1>3, <1>8 DEF SlotDeletes, DeletionGoesOn, Handler
  <2>3. /\ batch' \in Batch /\ batch'.slot = NoSlot
        /\ \A o \in batch'.deleted :
             o \in batch.deleted \/ (o = Head(batch.left) /\ answer'[p] = "ok")
    BY <1>1, <2>1, ReportedOK DEF SlotDeletes
  <2>4. DeletedIsGone'
    BY <1>1, <1>5, <1>6, <2>2, <2>3 DEF DeletedIsGone
  <2>5. OneHandler'
    BY <1>8, <1>9 DEF OneHandler, InHandler
  <2> QED BY <1>4, <2>3, <2>4, <2>5 DEF BatchInv
<1> QED BY <1>7, <1>8

LEMMA BatchInvNext ==
  ASSUME BatchAlone, TypeInv, BatchInv, [BatchNext]_batchVars
  PROVE  BatchInv'
<1>1. CASE AskOther
  <2>1. PICK p \in Requests \ BatchSlots : Ask(p)
    BY <1>1 DEF AskOther
  <2>2. PICK t : Become(p, t)
    BY <2>1 DEF Ask, PutObject, DeleteObject
  <2>3. \A q \in BatchSlots : task'[q] = task[q]
    BY <2>1, <2>2, BecomeIs, BatchAssumption
  <2>4. rows' = rows /\ batch' = batch
    BY <1>1, <2>1 DEF AskOther, Ask, PutObject, DeleteObject, stores
  <2>5. batch.slot \in BatchSlots \cup {NoSlot}
    BY DEF BatchInv, Batch
  <2>6. OneHandler'
    BY <2>3, <2>4 DEF BatchInv, OneHandler, InBatch, InHandler, Running
  <2> QED BY <2>3, <2>4, <2>5, <2>6 DEF BatchInv, InBatch, DeletedIsGone
<1>2. CASE PutOwn
  <2>1. PICK p \in BatchSlots : PutObject(p)
    BY <1>2 DEF PutOwn
  <2>2. PICK t : Become(p, t)
    BY <2>1 DEF PutObject
  <2>3. \A q \in BatchSlots \ {p} : task'[q].at = "idle"
    BY <1>2, <2>1, <2>2, BecomeIs, BatchAssumption DEF PutOwn, Settled, Running
  <2>4. batch' = NoBatch
    BY <1>2 DEF PutOwn, Settled, InBatch
  <2>5. OneHandler'
    <3>1. \A q \in BatchSlots \ {p} : task'[q].at \notin Handler
      BY <2>3 DEF Handler, PutLabels, DeleteLabels
    <3> QED BY <2>3, <2>4, <3>1 DEF OneHandler, InHandler, InBatch, Running
  <2> QED BY <2>4, <2>5, NoBatchOK DEF BatchInv, InBatch, DeletedIsGone
<1>8. CASE AnswerBatch
  <2>1. batch.slot = NoSlot /\ InBatch /\ task' = task
    BY <1>8 DEF AnswerBatch, BatchInv, SlotDeletes, vars
  <2>2. \A p \in BatchSlots : task'[p].at \notin Handler
    BY <2>1, BatchAssumption DEF BatchInv, OneHandler, InHandler
  <2> QED BY <1>8, <2>2, NoBatchKeepsInv DEF AnswerBatch
<1>9. CASE CrashBatch
  <2>1. \A p \in BatchSlots : task'[p].at \notin Handler
    BY <1>9, NoTaskLabel, BatchAssumption
    DEF CrashBatch, Crash, Handler, PutLabels, DeleteLabels
  <2> QED BY <1>9, <2>1, NoBatchKeepsInv DEF CrashBatch
<1>3. CASE ModifyBucket
  <2>1. PICK keys \in SeqOf(BatchKeys, MaxBatch) \ {<<>>} :
          batch' = [NoBatch EXCEPT !.left = keys,
                                   !.found = {o \in Objects : rows[o] # NoCid}]
    BY <1>3 DEF ModifyBucket
  <2>2. keys \in Seq(BatchKeys)
    <3>1. PICK n \in 0..MaxBatch : keys \in [1..n -> BatchKeys]
      BY <2>1 DEF SeqOf
    <3>2. n \in Nat
      BY <3>1, BatchAssumption
    <3> QED BY <3>1, <3>2, SeqDef
  <2>3. /\ batch'.left = keys /\ batch'.slot = NoSlot /\ batch'.deleted = {}
        /\ batch' \in Batch
    BY <2>1, <2>2 DEF NoBatch, Batch
  <2>4. \A p \in BatchSlots : task'[p].at \notin Putting
    BY <1>3 DEF ModifyBucket, vars, Settled, Running, Putting, PutLabels
  <2>5. OneHandler'
    BY <1>3 DEF ModifyBucket, vars, Settled, Running, OneHandler, InHandler, Handler,
                PutLabels, DeleteLabels
  <2> QED BY <2>3, <2>4, <2>5 DEF BatchInv, DeletedIsGone
<1>4. ASSUME NEW p \in BatchSlots, DeleteNext(p)
      PROVE  BatchInv'
  <2>1. p \in Requests /\ p # NoSlot /\ batch \in Batch
    BY BatchAssumption DEF BatchInv
  <2>2. PICK o \in Targets[p] :
          Become(p, [NoTask EXCEPT !.at = "del_get", !.obj = o])
    BY <1>4 DEF DeleteNext, DeleteObject
  <2> DEFINE t == [NoTask EXCEPT !.at = "del_get", !.obj = o]
  <2>3. t.at = "del_get"
    BY DEF NoTask
  <2> HIDE DEF t
  <2>4. task'[p].at = "del_get" /\ \A q \in Requests \ {p} : task'[q] = task[q]
    BY <2>1, <2>2, <2>3, BecomeIs DEF t
  <2>5. /\ batch'.left = batch.left /\ batch'.slot = p
        /\ batch'.deleted = batch.deleted /\ batch' \in Batch
    BY <1>4, <2>1 DEF DeleteNext, Batch
  <2>6. InBatch
    BY <1>4 DEF DeleteNext, InBatch, NoBatch
  <2>7. SlotDeletes(batch', task'[batch'.slot], rows')
    BY <1>4, <2>4, <2>5 DEF DeleteNext, SlotDeletes, DeleteLabels, RowGone
  <2>8. \A q \in BatchSlots : task'[q].at \notin Putting
    BY <2>4, <2>6, BatchAssumption DEF BatchInv, Putting, PutLabels
  <2>9. rows' = rows
    BY <1>4 DEF DeleteNext, DeleteObject, stores
  <2>10. OneHandler'
    <3>1. \A q \in BatchSlots \ {p} : task'[q].at \notin Handler
      BY <1>4, <2>4, <2>6, BatchAssumption DEF DeleteNext, BatchInv, OneHandler, InHandler
    <3>2. InBatch'
      BY <2>1, <2>5, NoBatchOK DEF InBatch
    <3> QED BY <2>5, <3>1, <3>2 DEF OneHandler, InHandler
  <2> QED BY <2>5, <2>7, <2>8, <2>9, <2>10 DEF BatchInv, DeletedIsGone
<1>5. ASSUME NEW p \in Requests, Work(p)
      PROVE  BatchInv'
  BY <1>5, DeletionKeepsInv, OtherStepKeepsInv DEF Work
<1>6. ASSUME NEW p \in Requests, Leave(p)
      PROVE  BatchInv'
  <2>1. CASE p # batch.slot
    BY <1>6, <2>1, OtherStepKeepsInv DEF Leave
  <2>2. CASE p = batch.slot
    <3>1. InBatch
      BY <2>2, SlotIsInBatch, BatchAssumption
    <3>2. Become(p, NoTask) /\ batch' = NoBatch
      BY <1>6, <2>2 DEF Leave, Disconnect
    <3>3. \A q \in BatchSlots \ {p} : task'[q].at \notin Handler
      BY <2>2, <3>1, <3>2, BecomeIs, BatchAssumption DEF BatchInv, OneHandler, InHandler
    <3>4. task'[p].at \notin Handler
      BY <3>2, BecomeIs, NoTaskLabel DEF Handler, PutLabels, DeleteLabels
    <3> QED BY <3>2, <3>3, <3>4, NoBatchKeepsInv
  <2> QED BY <2>1, <2>2
<1>7. CASE UNCHANGED batchVars
  BY <1>7 DEF batchVars, vars, BatchInv, OneHandler, InHandler, Running, InBatch,
              DeletedIsGone
<1> QED BY <1>1, <1>2, <1>3, <1>4, <1>5, <1>6, <1>7, <1>8, <1>9 DEF BatchNext

-----------------------------------------------------------------------------
LEMMA BatchSpecIsSpec == BatchSpec => Spec
<1>1. BatchInit => Init
  BY DEF BatchInit
<1>2. [BatchNext]_batchVars => [Next]_vars
  BY BatchNextIsNext
<1> QED BY <1>1, <1>2, PTL DEF BatchSpec, Spec

LEMMA BatchInvariant ==
  ASSUME BatchAlone
  PROVE  BatchSpec => []BatchInv
<1>1. BatchInit => BatchInv
  BY BatchInvInit
<1>2. TypeInv /\ BatchInv /\ [BatchNext]_batchVars => BatchInv'
  BY BatchInvNext
<1>3. BatchSpec => []TypeInv
  BY BatchSpecIsSpec, TypeInvariant
<1> QED BY <1>1, <1>2, <1>3, PTL DEF BatchSpec

\* What the answer of a batch reports as deleted has no row until the batch
\* ends, however its deletions fail, whoever leaves and whenever the process
\* dies, when the keys of its client are its own.
THEOREM ReportIsTrue ==
  ASSUME BatchAlone
  PROVE  BatchSpec => []DeletedIsGone
<1>1. BatchInv => DeletedIsGone
  BY DEF BatchInv
<1> QED BY <1>1, BatchInvariant, PTL

\* To the table a batch is a sequence of deletions, each of them atomic.
THEOREM BatchIsDeletions == BatchSpec => ImplementsS3Store
BY BatchSpecIsSpec, RequestsAreAtomic

-----------------------------------------------------------------------------
(***************************************************************************)
(* The trims that the deletions of the first keys have spawned run while   *)
(* the later keys are deleted, in the same folders.                        *)
(***************************************************************************)
\* The folders of the batch client are its own; every other slot has its own.
OwnBatchFolders ==
  \A p \in Requests \ BatchSlots :
    /\ \A q \in Requests \ {p} : ~Meets(p, q)
    /\ \A o \in Targets[p], key \in BatchKeys : ~SameFolder(o, key)

LEMMA OwnFoldersAlone == OwnBatchFolders => BatchAlone
BY DEF OwnBatchFolders, BatchAlone, SameFolder

LEMMA BatchFoldersApart ==
  ASSUME OwnBatchFolders, BatchInv
  PROVE  FoldersApart
<1> SUFFICES ASSUME NEW p \in Requests, NEW q \in Requests, p # q, Meets(p, q)
             PROVE  /\ task[p].at \in PutLabels => ~Running(q)
                    /\ ~(InHandler(p) /\ InHandler(q))
  BY DEF FoldersApart
<1>1. p \in BatchSlots /\ q \in BatchSlots
  BY DEF OwnBatchFolders, Meets, SameFolder
<1>2. CASE InBatch
  BY <1>1, <1>2 DEF BatchInv, OneHandler, Putting
<1>3. CASE ~InBatch
  <2>1. InHandler(p) => ~Running(q)
    BY <1>1, <1>3 DEF BatchInv, OneHandler
  <2>2. InHandler(q) => Running(q)
    BY DEF InHandler, Running, Handler, PutLabels, DeleteLabels
  <2>3. task[p].at \in PutLabels => InHandler(p)
    BY DEF InHandler, Handler
  <2> QED BY <2>1, <2>2, <2>3
<1> QED BY <1>2, <1>3

LEMMA BatchTrimInvariant ==
  ASSUME PlainObjects, NoFileInTheWay, OwnBatchFolders
  PROVE  BatchSpec => []TrimInv
<1>1. BatchInit => TrimInv
  BY TrimInvInit DEF BatchInit
<1>2. BatchInv => FoldersApart
  BY BatchFoldersApart
<1>3. TypeInv /\ BatchInv /\ TrimInv /\ [BatchNext]_batchVars => TrimInv'
  BY <1>2, BatchNextIsNext, TrimInvNext
<1>4. BatchSpec => []TypeInv
  BY BatchSpecIsSpec, TypeInvariant
<1>5. BatchSpec => []BatchInv
  BY BatchInvariant, OwnFoldersAlone
<1> QED BY <1>1, <1>3, <1>4, <1>5, PTL DEF BatchSpec

\* The trims of a batch remove no file of an object that is in the table, for
\* any length of a batch and any number of slots, whatever fails, disconnects
\* or crashes: a client may send a batch before those of its last are done.
THEOREM BatchTrimsSpareLive ==
  ASSUME PlainObjects, NoFileInTheWay, OwnBatchFolders
  PROVE  BatchSpec => TrimSparesLive
<1>1. TypeInv /\ TrimInv =>
        \A p \in Requests : TrimCall(p) =>
          \A o \in Objects :
            rows[o] # NoCid => ~IsPrefix(TrimmedPath(p), NormalizedPath(o))
  BY TrimSpares DEF TrimCall
<1>2. BatchSpec => []TypeInv
  BY BatchSpecIsSpec, TypeInvariant
<1> QED BY <1>1, <1>2, BatchTrimInvariant, PTL DEF TrimSparesLive

LEMMA BatchLinkedInvariant ==
  ASSUME LinkedWhole, OwnBatchFolders
  PROVE  BatchSpec => []LinkedInv
<1>1. BatchInit => LinkedInv
  BY LinkedInvInit DEF BatchInit
<1>2. BatchInv => FoldersApart
  BY BatchFoldersApart
<1>3. TypeInv /\ BatchInv /\ TrimInv /\ LinkedInv /\ [BatchNext]_batchVars
        => LinkedInv'
  BY <1>2, BatchNextIsNext, LinkedInvNext
<1>4. BatchSpec => []TypeInv
  BY BatchSpecIsSpec, TypeInvariant
<1>5. BatchSpec => []BatchInv
  BY BatchInvariant, OwnFoldersAlone
<1>6. BatchSpec => []TrimInv
  BY BatchTrimInvariant DEF LinkedWhole
<1> QED BY <1>1, <1>3, <1>4, <1>5, <1>6, PTL DEF BatchSpec

\* No trim of a batch takes the link of a key that it has yet to delete, nor of
\* one that another client stores: without failures of the calls that change
\* the one store after the other, the MFS shows what the table says.
THEOREM BatchKeepsLinks ==
  ASSUME PlainObjects, NoFileInTheWay, OwnBatchFolders,
         Undisturbed, {"cp", "store", "unlink", "delete"} \cap Faulty = {}
  PROVE  BatchSpec => []RowsLinked
<1>1. LinkedInv => RowsLinked
  BY DEF LinkedInv
<1>2. LinkedWhole
  BY DEF LinkedWhole
<1> QED BY <1>1, <1>2, BatchLinkedInvariant, PTL

-----------------------------------------------------------------------------
(***************************************************************************)
(* A batch deletes what it finds.  A deletion fails when the node refuses  *)
(* a call: when the link of the key is gone, which a trim of an earlier    *)
(* deletion might have taken, or the pin of its content, which another     *)
(* unpin_if_orphan might have.                                             *)
(***************************************************************************)
\* The contents of the batch client are its own, whichever slot stores them.
OwnBatchContents ==
  /\ \A p, q \in BatchSlots : Contents[p] = Contents[q]
  /\ \A p \in Requests \ BatchSlots : \A q \in Requests \ {p} :
       Contents[p] \cap Contents[q] = {}

BatchWhole ==
  /\ LinkedWhole
  /\ OwnBatchFolders /\ OwnBatchContents
  /\ {"get", "count", "unpin"} \cap Faulty = {}

\* What the deletion of a key knows: the row is there until it deletes it, and
\* the content is pinned until it unpins it.
SlotFinds(t, P, R) ==
  /\ t.at \in {"del_unlink", "del_row"} => R[t.obj] # NoCid
  /\ t.at \in {"del_unlink", "del_row", "del_count", "del_unpin"} => t.old \in P

\* A key that was there is there, or reported, or about to be.
FoundKept ==
  \A o \in batch.found \cap BatchKeys :
    \/ o \in batch.deleted
    \/ rows[o] # NoCid
    \/ batch.slot # NoSlot /\ o = Head(batch.left) /\ task[batch.slot].at \in RowGone

SuccessInv ==
  /\ batch.slot # NoSlot => SlotFinds(task[batch.slot], pins, rows)
  /\ FoundKept
  /\ BatchSucceeds

LEMMA BatchPinsApart ==
  ASSUME OwnBatchContents, BatchInv
  PROVE  PinsApart
<1> SUFFICES ASSUME NEW p \in Requests, NEW q \in Requests, p # q,
                    Contents[p] \cap Contents[q] # {},
                    task[p].at \in Adding, task[q].at \in Unpinning
             PROVE  FALSE
  BY DEF PinsApart
<1>1. p \in BatchSlots /\ q \in BatchSlots
  BY DEF OwnBatchContents
<1>2. task[p].at \in PutLabels /\ InHandler(p) /\ Running(q)
  BY DEF Adding, Unpinning, InHandler, Running, Handler, PutLabels
<1>3. ~InBatch
  BY <1>1, <1>2 DEF BatchInv, Putting
<1> QED BY <1>1, <1>2, <1>3 DEF BatchInv, OneHandler

LEMMA BatchOneOwner ==
  ASSUME OwnBatchFolders, OwnBatchContents
  PROVE  OneOwner
<1> SUFFICES ASSUME NEW p \in Requests, NEW q \in Requests, p # q,
                    Targets[p] \cap Targets[q] # {}
             PROVE  Contents[p] = Contents[q]
  BY DEF OneOwner
<1>1. Meets(p, q) /\ Meets(q, p)
  BY DEF Meets, SameFolder
<1>2. p \in BatchSlots /\ q \in BatchSlots
  BY <1>1 DEF OwnBatchFolders
<1> QED BY <1>2 DEF OwnBatchContents

LEMMA BatchPinInvariant ==
  ASSUME OwnBatchFolders, OwnBatchContents
  PROVE  BatchSpec => []PinInv
<1>1. BatchInit => PinInv
  BY PinInvInit DEF BatchInit
<1>2. BatchInv => PinsApart
  BY BatchPinsApart
<1>3. TypeInv /\ BatchInv /\ PinInv /\ [BatchNext]_batchVars => PinInv'
  BY <1>2, BatchOneOwner, BatchNextIsNext, PinInvNext
<1>4. BatchSpec => []TypeInv
  BY BatchSpecIsSpec, TypeInvariant
<1>5. BatchSpec => []BatchInv
  BY BatchInvariant, OwnFoldersAlone
<1> QED BY <1>1, <1>3, <1>4, <1>5, PTL DEF BatchSpec

\* A batch takes the pin of no content that is in the table, of its own client
\* or of another, for any length of a batch, whatever fails or crashes: what it
\* unpins beside a later deletion, no PUT of the client is storing again.
THEOREM BatchKeepsPins ==
  ASSUME OwnBatchFolders, OwnBatchContents
  PROVE  BatchSpec => []RowsPinned
<1>1. PinInv => RowsPinned
  BY DEF PinInv
<1> QED BY <1>1, BatchPinInvariant, PTL

LEMMA NoBatchSucceeds ==
  ASSUME batch' = NoBatch
  PROVE  SuccessInv'
BY DEF NoBatch, SuccessInv, FoundKept, BatchSucceeds

\* The other slots leave the keys and the contents of the batch alone.
LEMMA OthersKeepSuccess ==
  ASSUME BatchWhole, TypeInv, BatchInv, PinInv, SuccessInv,
         NEW p \in Requests, p # batch.slot, Step(p), UNCHANGED batch
  PROVE  SuccessInv'
<1>1. CASE ~InBatch
  BY <1>1, NoBatchSucceeds DEF InBatch
<1>2. CASE InBatch
  <2>1. p \in BatchSlots => task[p].at \notin Putting /\ ~InHandler(p)
    BY <1>2 DEF BatchInv, OneHandler
  <2>2. \A o \in BatchKeys : rows'[o] = rows[o]
    <3>1. rows \in [Objects -> Cids \cup {NoCid}]
      BY DEF TypeInv, TypeOK, Rows
    <3>2. CASE StoreCall(p) \/ DeleteCall(p)
      <4>1. /\ InHandler(p)
            /\ \E c : rows' = [rows EXCEPT ![task[p].obj] = c]
        BY <3>2 DEF StoreCall, StoreObjectMetadata, DeleteCall, DeleteObjectRow, At,
                    InHandler, Handler, PutLabels, DeleteLabels
      <4>2. p \notin BatchSlots /\ task[p].obj \in Targets[p]
        BY <2>1, <4>1 DEF TypeInv, TaskOK, NamesObject, InHandler
      <4>3. \A o \in BatchKeys : o # task[p].obj
        BY <4>2 DEF BatchWhole, OwnBatchFolders, SameFolder
      <4> QED BY <3>1, <4>1, <4>3, BatchAssumption
    <3> QED BY <3>2, StepOnRows
  <2>3. \A q \in Requests \ {p} : task'[q] = task[q]
    BY StepIsOwn
  <2>4. batch.slot # NoSlot =>
          /\ batch.slot \in BatchSlots /\ batch.slot \in Requests \ {p}
          /\ task[batch.slot].obj \in BatchKeys
          /\ task[batch.slot].at \in DeleteLabels
    BY BatchAssumption DEF BatchInv, Batch, SlotDeletes
  <2>5. ASSUME batch.slot # NoSlot
        PROVE  SlotFinds(task[batch.slot], pins', rows')
    <3> DEFINE q == batch.slot
    <3>1. SlotFinds(task[q], pins, rows) /\ rows'[task[q].obj] = rows[task[q].obj]
      BY <2>2, <2>4, <2>5 DEF SuccessInv
    <3>2. CASE pins \subseteq pins'
      BY <3>1, <3>2 DEF SlotFinds
    <3>3. CASE UnpinCall(p)
      <4>1. /\ task[p].at \in Unpinning /\ pins' = pins \ {task[p].old}
        BY <3>3 DEF UnpinCall, PinRm, Unpinning
      <4>2. p \notin BatchSlots
        BY <2>1, <4>1 DEF Unpinning, Putting, InHandler, Handler, DeleteLabels
      <4>3. task[p].old \in Contents[p]
        BY <4>1, NoCidAssumption
        DEF PinInv, Holds, TypeInv, TaskOK, Unpinning, KeepsOld, HoldsOld
      <4>4. task[q].at \in HoldsOld => task[q].old \in Contents[q]
        BY <2>4, <2>5, NoCidAssumption DEF PinInv, Holds, TypeInv, TaskOK, KeepsOld
      <4>5. task[q].at \in HoldsOld => task[q].old # task[p].old
        BY <2>4, <2>5, <4>2, <4>3, <4>4 DEF BatchWhole, OwnBatchContents
      <4> QED BY <3>1, <4>1, <4>5 DEF SlotFinds, HoldsOld
    <3> QED BY <3>2, <3>3, StepOnPins
  <2>6. FoundKept'
    <3>1. batch.slot # NoSlot => task'[batch.slot] = task[batch.slot]
      BY <2>3, <2>4
    <3> QED BY <2>2, <3>1 DEF SuccessInv, FoundKept
  <2> QED BY <2>3, <2>4, <2>5, <2>6 DEF SuccessInv, BatchSucceeds
<1> QED BY <1>1, <1>2

\* Nothing makes the deletion of a key fail that was there.
LEMMA SlotNeverFails ==
  ASSUME BatchWhole, TypeInv, BatchInv, TrimInv, LinkedInv, SuccessInv,
         NEW p \in Requests, p = batch.slot, DeleteFails(p)
  PROVE  FALSE
<1> DEFINE t == task[p]
<1>1. /\ p # NoSlot
      /\ SlotFinds(t, pins, rows)
      /\ t.at \in DeleteLabels
  BY BatchAssumption DEF SuccessInv, BatchInv, SlotDeletes
<1>2. CallAt[t.at] \notin Faulty
  BY <1>1 DEF CallAt, DeleteLabels, BatchWhole, LinkedWhole
<1>3. Refused(p)
  BY <1>2 DEF DeleteFails, CallFails
<1>4. CASE At(p, "del_unlink") /\ ~Exists(NormalizedPath(t.obj))
  <2>1. t.obj \in Targets[p] /\ t.obj \in Objects /\ rows[t.obj] # NoCid
    BY <1>1, <1>4, RequestsAssumption
    DEF At, SlotFinds, TypeInv, TaskOK, NamesObject, Handler
  <2>2. NormalizedPath(t.obj) \in Paths
    BY <2>1 DEF Paths
  <2>3. links[NormalizedPath(t.obj)] # rows[t.obj]
    BY <1>4, <2>1, <2>2 DEF Exists
  <2>4. PICK q \in Requests : /\ task[q].at \in {"put_store", "del_row"}
                              /\ task[q].obj = t.obj
    BY <2>1, <2>3 DEF LinkedInv, RowsLinked
  <2>5. q # p /\ InHandler(q) /\ InHandler(p)
    BY <1>4, <2>4 DEF At, InHandler, Handler, PutLabels, DeleteLabels
  <2>6. t.obj \in Targets[q]
    BY <2>4, <2>5 DEF TypeInv, TaskOK, NamesObject, InHandler
  <2>7. FoldersApart
    BY BatchFoldersApart DEF BatchWhole
  <2> QED BY <2>1, <2>5, <2>6, <2>7 DEF FoldersApart, Meets, SameFolder
<1>5. CASE t.at = "del_unpin" /\ t.old \notin pins
  BY <1>1, <1>5 DEF SlotFinds
<1> QED BY <1>1, <1>3, <1>4, <1>5 DEF Refused, At, DeleteLabels

\* The deletion of a key goes on, or ends with "ok", or finds no row.
LEMMA SlotKeepsSuccess ==
  ASSUME BatchWhole, TypeInv, BatchInv, TrimInv, LinkedInv, PinInv, SuccessInv,
         NEW p \in Requests, p = batch.slot, Work(p)
  PROVE  SuccessInv'
<1> DEFINE t == task[p]
<1>1. /\ p # NoSlot /\ p \in BatchSlots /\ batch \in Batch
      /\ SlotDeletes(batch, t, rows) /\ SlotFinds(t, pins, rows)
      /\ t.obj = Head(batch.left) /\ t.at \in DeleteLabels
      /\ FoundKept /\ BatchSucceeds
      /\ t.obj \in Objects /\ t \in Task
      /\ rows \in [Objects -> Cids \cup {NoCid}]
  <2>1. p # NoSlot /\ batch \in Batch /\ SlotDeletes(batch, t, rows)
    BY BatchAssumption DEF BatchInv
  <2>2. p \in BatchSlots
    BY <2>1 DEF Batch
  <2>3. t.obj \in Targets[p] /\ t \in Task
    BY <2>1 DEF SlotDeletes, TypeInv, TypeOK, TaskOK, NamesObject, Handler
  <2> QED BY <2>1, <2>2, <2>3, RequestsAssumption
          DEF SuccessInv, SlotDeletes, TypeInv, TypeOK, Rows
<1> DEFINE GoesOn == /\ batch' = batch
                     /\ SlotFinds(task'[p], pins', rows')
                     /\ \A o \in Objects :
                          \/ rows'[o] = rows[o]
                          \/ o = t.obj /\ task'[p].at \in RowGone
                     /\ t.at \in RowGone => task'[p].at \in RowGone
           Ends(a) == /\ batch' = Reported(a)
                      /\ rows' = rows
                      /\ a # "ok" => rows[t.obj] = NoCid /\ t.at \notin RowGone
<1>2. ASSUME GoesOn PROVE SuccessInv'
  <2>1. FoundKept'
    <3> SUFFICES ASSUME NEW o \in batch.found \cap BatchKeys, o \notin batch.deleted,
                        rows'[o] = NoCid
                 PROVE  o = Head(batch.left) /\ task'[p].at \in RowGone
      BY <1>1, <1>2 DEF FoundKept
    <3>1. o \in Objects
      BY BatchAssumption
    <3>2. rows[o] # NoCid \/ (o = Head(batch.left) /\ t.at \in RowGone)
      BY <1>1 DEF FoundKept
    <3> QED BY <1>1, <1>2, <3>1, <3>2
  <2> QED BY <1>1, <1>2, <2>1 DEF SuccessInv, BatchSucceeds
<1>3. ASSUME NEW a, Ends(a) PROVE SuccessInv'
  <2> DEFINE key == Head(batch.left)
  <2>1. /\ batch'.slot = NoSlot /\ batch'.found = batch.found
        /\ a = "ok" => /\ batch'.deleted = batch.deleted \cup {key}
                       /\ batch'.failed = batch.failed
        /\ a # "ok" => /\ batch'.deleted = batch.deleted
                       /\ batch'.failed = batch.failed \cup {key}
    <3>1. CASE a = "ok"
      BY <1>1, <1>3, <3>1 DEF Reported, Batch
    <3>2. CASE a # "ok"
      BY <1>1, <1>3, <3>2 DEF Reported, Batch
    <3> QED BY <3>1, <3>2
  <2> HIDE DEF key
  <2>2. a # "ok" /\ key \in batch.found => key \in batch.deleted
    <3>1. key \in BatchKeys
      BY <1>1 DEF SlotDeletes, Batch, key
    <3> QED BY <1>1, <1>3, <3>1 DEF FoundKept, key
  <2>3. batch.deleted \subseteq batch'.deleted
    BY <2>1
  <2>4. FoundKept'
    <3> SUFFICES ASSUME NEW o \in batch.found \cap BatchKeys, o \notin batch'.deleted
                 PROVE  rows[o] # NoCid
      BY <1>3, <2>1 DEF FoundKept
    <3>1. o \notin batch.deleted
      BY <2>3
    <3>2. o = key /\ t.at \in RowGone => a = "ok"
      BY <1>3
    <3> QED BY <1>1, <2>1, <3>1, <3>2 DEF FoundKept, key
  <2>5. BatchSucceeds'
    BY <1>1, <2>1, <2>2, <2>3 DEF BatchSucceeds
  <2> QED BY <2>1, <2>4, <2>5 DEF SuccessInv
<1> HIDE DEF GoesOn, Ends
<1>4. /\ task'[p].at \in Handler => batch' = batch
      /\ task'[p].at \notin Handler => batch' = Reported(answer'[p])
  BY DEF Work
<1> USE DEF Handler, PutLabels, DeleteLabels, RowGone
<1>5. CASE DeleteGetMetadata(p)
  <2> DEFINE s == [t EXCEPT !.at = "del_unlink", !.old = rows[t.obj]]
  <2>1. /\ Become(p, s) /\ rows[t.obj] # NoCid /\ t.at = "del_get"
        /\ UNCHANGED <<rows, pins>>
    BY <1>5 DEF DeleteGetMetadata, GetObjectMetadata, At, stores, node
  <2>2. s.at = "del_unlink" /\ s.obj = t.obj /\ s.old = rows[t.obj]
    BY <1>1 DEF Task
  <2>3. rows[t.obj] \in pins
    BY <1>1, <2>1 DEF PinInv, RowsPinned
  <2> HIDE DEF s
  <2>4. task'[p] = s
    BY <2>1, BecomeIs
  <2>5. GoesOn
    BY <1>4, <2>1, <2>2, <2>3, <2>4 DEF GoesOn, SlotFinds
  <2> QED BY <1>2, <2>5
<1>6. CASE DeleteNotFound(p)
  <2>1. /\ task'[p] = NoTask /\ rows' = rows /\ rows[t.obj] = NoCid /\ t.at = "del_get"
    BY <1>6, BecomeIs DEF DeleteNotFound, GetObjectMetadata, At, stores
  <2>2. Ends(answer'[p])
    BY <1>4, <2>1, NoTaskLabel DEF Ends
  <2> QED BY <1>3, <2>2
<1>7. CASE DeleteUnlink(p)
  <2>1. /\ task'[p].at = "del_row" /\ task'[p].obj = t.obj /\ task'[p].old = t.old
        /\ t.at = "del_unlink" /\ UNCHANGED <<rows, pins>>
    BY <1>1, <1>7 DEF DeleteUnlink, UnlinkCall, FilesRm, At, Goto, TypeInv, TypeOK, Task
  <2>2. GoesOn
    BY <1>1, <1>4, <2>1 DEF GoesOn, SlotFinds
  <2> QED BY <1>2, <2>2
<1>8. CASE DeleteRow(p)
  <2>1. /\ task'[p].at = "del_count" /\ task'[p].obj = t.obj /\ task'[p].old = t.old
        /\ t.at = "del_row" /\ pins' = pins
        /\ \A o \in Objects : o # t.obj => rows'[o] = rows[o]
    BY <1>1, <1>8 DEF DeleteRow, DeleteCall, DeleteObjectRow, At, Goto, node, TypeInv,
                      TypeOK, Task
  <2>2. GoesOn
    BY <1>1, <1>4, <2>1 DEF GoesOn, SlotFinds
  <2> QED BY <1>2, <2>2
<1>9. CASE DeleteAnswer(p) /\ rows' = rows
  <2>1. task'[p] = TrimTask(t.obj) /\ answer'[p] = "ok"
    BY <1>9, BecomeIs, ReplyIs DEF DeleteAnswer
  <2>2. TrimTask(t.obj).at \in {"idle", "trim_find"}
    BY DEF TrimTask, NoTask
  <2>3. Ends(answer'[p])
    BY <1>4, <1>9, <2>1, <2>2 DEF Ends
  <2> QED BY <1>3, <2>3
<1>10. CASE DeleteCountRemaining(p) /\ ~DeleteAnswer(p)
  <2>1. /\ task'[p].at = "del_unpin" /\ task'[p].obj = t.obj /\ task'[p].old = t.old
        /\ t.at = "del_count" /\ UNCHANGED <<rows, pins>>
    BY <1>1, <1>10 DEF DeleteCountRemaining, At, Goto, TypeInv, TypeOK, Task, stores, node
  <2>2. GoesOn
    BY <1>1, <1>4, <2>1 DEF GoesOn, SlotFinds
  <2> QED BY <1>2, <2>2
<1>11. DeleteCountRemaining(p) \/ DeleteUnpin(p) => rows' = rows
  BY DEF DeleteCountRemaining, DeleteUnpin, UnpinCall, stores
<1>12. DeleteUnpin(p) => DeleteAnswer(p)
  BY DEF DeleteUnpin
<1>13. ~DeleteFails(p)
  BY SlotNeverFails
<1>14. Step(p)
  BY DEF Work
<1> QED BY <1>1, <1>5, <1>6, <1>7, <1>8, <1>9, <1>10, <1>11, <1>12, <1>13, <1>14,
           DeletionStepIs

LEMMA SuccessInvInit == BatchInit => SuccessInv
BY DEF BatchInit, NoBatch, SuccessInv, FoundKept, BatchSucceeds

LEMMA SuccessInvNext ==
  ASSUME BatchWhole, TypeInv, BatchInv, TrimInv, LinkedInv, PinInv, SuccessInv,
         [BatchNext]_batchVars
  PROVE  SuccessInv'
<1>1. CASE AskOther
  <2>1. PICK p \in Requests \ BatchSlots : Ask(p)
    BY <1>1 DEF AskOther
  <2>2. PICK t : Become(p, t)
    BY <2>1 DEF Ask, PutObject, DeleteObject
  <2>3. batch.slot # NoSlot => task'[batch.slot] = task[batch.slot]
    BY <2>1, <2>2, BecomeIs, BatchAssumption DEF BatchInv, Batch
  <2>4. UNCHANGED <<rows, pins, batch>>
    BY <1>1, <2>1 DEF AskOther, Ask, PutObject, DeleteObject, stores, node
  <2> QED BY <2>3, <2>4 DEF SuccessInv, FoundKept, BatchSucceeds
<1>2. CASE PutOwn \/ AnswerBatch \/ CrashBatch
  BY <1>2, NoBatchSucceeds DEF PutOwn, Settled, InBatch, AnswerBatch, CrashBatch
<1>3. CASE ModifyBucket
  <2>1. /\ batch'.slot = NoSlot /\ batch'.failed = {}
        /\ batch'.found = {o \in Objects : rows[o] # NoCid}
        /\ rows' = rows
    BY <1>3 DEF ModifyBucket, NoBatch, vars
  <2> QED BY <2>1 DEF SuccessInv, FoundKept, BatchSucceeds
<1>4. ASSUME NEW p \in BatchSlots, DeleteNext(p)
      PROVE  SuccessInv'
  <2>1. p \in Requests /\ batch \in Batch
    BY BatchAssumption DEF BatchInv
  <2>2. PICK o \in Targets[p] :
          Become(p, [NoTask EXCEPT !.at = "del_get", !.obj = o])
    BY <1>4 DEF DeleteNext, DeleteObject
  <2> DEFINE t == [NoTask EXCEPT !.at = "del_get", !.obj = o]
  <2>6. t.at = "del_get"
    BY DEF NoTask
  <2> HIDE DEF t
  <2>3. task'[p].at = "del_get"
    BY <2>1, <2>2, <2>6, BecomeIs DEF t
  <2>4. /\ batch'.left = batch.left /\ batch'.slot = p
        /\ batch'.deleted = batch.deleted /\ batch'.failed = batch.failed
        /\ batch'.found = batch.found /\ batch.slot = NoSlot
    BY <1>4, <2>1 DEF DeleteNext, Batch
  <2>5. rows' = rows
    BY <1>4 DEF DeleteNext, DeleteObject, stores
  <2> QED BY <2>3, <2>4, <2>5 DEF SuccessInv, FoundKept, BatchSucceeds, SlotFinds
<1>5. ASSUME NEW p \in Requests, Work(p)
      PROVE  SuccessInv'
  BY <1>5, SlotKeepsSuccess, OthersKeepSuccess DEF Work
<1>6. ASSUME NEW p \in Requests PROVE ~Leave(p)
  BY DEF Leave, Disconnect, BatchWhole, LinkedWhole, Undisturbed
<1>7. CASE UNCHANGED batchVars
  BY <1>7 DEF batchVars, vars, node, SuccessInv, FoundKept, BatchSucceeds
<1> QED BY <1>1, <1>2, <1>3, <1>4, <1>5, <1>6, <1>7 DEF BatchNext

\* Every object that was there when a batch began is reported as deleted when
\* it is reported at all: no trim of an earlier deletion, no unpinning and no
\* other client makes its deletion fail, for any number of clients and slots.
THEOREM BatchesSucceed ==
  ASSUME PlainObjects, NoFileInTheWay, OwnBatchFolders, OwnBatchContents, Undisturbed,
         {"get", "cp", "store", "unlink", "delete", "count", "unpin"} \cap Faulty = {}
  PROVE  BatchSpec => []BatchSucceeds
<1>1. BatchWhole /\ LinkedWhole
  BY DEF BatchWhole, LinkedWhole
<1>2. BatchInit => SuccessInv
  BY SuccessInvInit
<1>3. TypeInv /\ BatchInv /\ TrimInv /\ LinkedInv /\ PinInv /\ SuccessInv
        /\ [BatchNext]_batchVars => SuccessInv'
  BY <1>1, SuccessInvNext
<1>4. SuccessInv => BatchSucceeds
  BY DEF SuccessInv
<1>5. BatchSpec => []TypeInv
  BY BatchSpecIsSpec, TypeInvariant
<1>6. BatchSpec => []BatchInv
  BY BatchInvariant, OwnFoldersAlone
<1>7. BatchSpec => []TrimInv
  BY BatchTrimInvariant
<1>8. BatchSpec => []LinkedInv
  BY <1>1, BatchLinkedInvariant
<1>9. BatchSpec => []PinInv
  BY BatchPinInvariant
<1> QED BY <1>2, <1>3, <1>4, <1>5, <1>6, <1>7, <1>8, <1>9, PTL DEF BatchSpec

-----------------------------------------------------------------------------
(***************************************************************************)
(* What a batch leaves behind: no folder, since of all the slots of its    *)
(* client one deletes at a time, and the trims may run beside it.          *)
(***************************************************************************)
LEMMA BatchDeletionsApart ==
  ASSUME OwnBatchContents, BatchInv
  PROVE  DeletionsApart
<1> SUFFICES ASSUME NEW p \in Requests, NEW q \in Requests, p # q,
                    Contents[p] \cap Contents[q] # {},
                    task[p].at \in Deleting, task[q].at \in Unpinning
             PROVE  FALSE
  BY DEF DeletionsApart
<1>1. p \in BatchSlots /\ q \in BatchSlots
  BY DEF OwnBatchContents
<1>2. InHandler(p) /\ Running(q)
  BY DEF Deleting, Unpinning, InHandler, Running, Handler, DeleteLabels
<1>3. InBatch /\ p = batch.slot
  BY <1>1, <1>2 DEF BatchInv, OneHandler
<1>4. InHandler(q)
  BY <1>1, <1>3 DEF BatchInv, Putting, Unpinning, InHandler, Handler, DeleteLabels
<1> QED BY <1>1, <1>3, <1>4 DEF BatchInv, OneHandler

LEMMA BatchKeptInvariant ==
  ASSUME OwnBatchFolders, OwnBatchContents
  PROVE  BatchSpec => []KeptInv
<1>1. BatchInit => KeptInv
  BY DEF BatchInit, Init, KeptInv, NoTask, Deleting
<1>2. BatchInv => DeletionsApart
  BY BatchDeletionsApart
<1>3. TypeInv /\ BatchInv /\ PinInv /\ KeptInv /\ [BatchNext]_batchVars => KeptInv'
  BY <1>2, BatchNextIsNext, KeptInvNext
<1>4. BatchSpec => []TypeInv
  BY BatchSpecIsSpec, TypeInvariant
<1>5. BatchSpec => []BatchInv
  BY BatchInvariant, OwnFoldersAlone
<1> QED BY <1>1, <1>3, <1>4, <1>5, BatchPinInvariant, PTL DEF BatchSpec

\* When nothing runs, every folder below a bucket leads to an object: the trims
\* of a batch, which run while later keys are deleted, leave none between them,
\* for any number of clients and slots and any length of a batch.
THEOREM BatchesLeaveTidy ==
  ASSUME PlainObjects, NoFileInTheWay, NoStrayMatch, TrimEmptyFolders,
         OwnBatchFolders, OwnBatchContents, Undisturbed,
         {"cp", "store", "count", "unpin", "like", "trim"} \cap Faulty = {}
  PROVE  BatchSpec => []TidyWhenIdle
<1>1. TidyWhole
  BY DEF TidyWhole
<1>2. BatchInit => TidyInv
  BY TidyInvInit DEF BatchInit
<1>3. TypeInv /\ TrimInv /\ KeptInv /\ TidyInv /\ [BatchNext]_batchVars => TidyInv'
  BY <1>1, BatchNextIsNext, TidyInvNext
<1>4. BatchSpec => []TypeInv
  BY BatchSpecIsSpec, TypeInvariant
<1> QED BY <1>2, <1>3, <1>4, BatchTrimInvariant, BatchKeptInvariant, TidyInvIdle,
           PTL DEF BatchSpec

-----------------------------------------------------------------------------
(***************************************************************************)
(* What a client was told, a reader finds.  Nobody touches an object that  *)
(* the answers tell of; while one request on it is unanswered, that        *)
(* request alone changes its row; so the answer tells what the row is.     *)
(***************************************************************************)
Told == Cids \cup {NoCid}
Known == Told \cup {Asked, Overlapping}

Reader == [at : {"idle", "get", "head", "not_found", "error", "described",
                 "streaming", "redirected"},
           obj : Objects \cup {NoObject}, was : Known, cid : Told]

On(p, o) == InHandler(p) /\ task[p].obj = o

\* A deletion stores nothing, and counts and unpins when its row is gone.
DeletionOK(t, R) ==
  /\ t.at \in DeleteLabels => t.new = NoCid
  /\ t.at \in RowGone => R[t.obj] = NoCid

KnownOK(o) ==
  /\ known[o] \in Told =>
       rows[o] = known[o] /\ \A p \in Requests : ~On(p, o)
  /\ known[o] = Asked =>
       \A p, q \in Requests : On(p, o) /\ On(q, o) => p = q

AskedOK(o) ==
  known[o] = Asked => \A p \in Requests : On(p, o) => DeletionOK(task[p], rows)

ReaderOK(v) ==
  /\ v.at \in {"get", "head"} =>
       /\ v.obj \in Objects /\ v.cid = NoCid
       /\ v.was \in Told => known[v.obj] = v.was
  /\ v.was \in Told =>
       /\ v.at = "not_found" => v.was = NoCid
       /\ v.cid # NoCid => v.cid = v.was

ReadInv ==
  /\ known \in [Objects -> Known]
  /\ reader \in [Readers -> Reader]
  /\ \A o \in Objects : KnownOK(o) /\ AskedOK(o)
  /\ \A r \in Readers : ReaderOK(reader[r])

LEMMA HistoryApart ==
  /\ Asked \notin Told /\ Overlapping \notin Told /\ Overlapping # Asked
  /\ Asked \in Known /\ Overlapping \in Known /\ Told \subseteq Known
BY ReadersAssumption DEF Told, Known, Asked, Overlapping

LEMMA NoReadIsReader == NoRead \in Reader /\ ReaderOK(NoRead)
<1>1. NoRead \in Reader
  BY HistoryApart DEF NoRead, Reader, Told
<1>2. NoRead.at = "idle" /\ NoRead.was = Asked
  BY DEF NoRead
<1> QED BY <1>1, <1>2, HistoryApart DEF ReaderOK

LEMMA ReadInvInit == ReadInit => ReadInv
<1> SUFFICES ASSUME ReadInit PROVE ReadInv
  OBVIOUS
<1>1. known \in [Objects -> Known] /\ \A o \in Objects : known[o] = NoCid
  BY HistoryApart DEF ReadInit, Told
<1>2. \A p \in Requests : ~InHandler(p)
  BY NoTaskLabel DEF ReadInit, Init, InHandler, Handler, PutLabels, DeleteLabels
<1>3. \A o \in Objects : KnownOK(o) /\ AskedOK(o)
  BY <1>1, <1>2, HistoryApart
  DEF KnownOK, AskedOK, On, ReadInit, Init, InitDatabase, Told
<1>4. reader \in [Readers -> Reader] /\ \A r \in Readers : ReaderOK(reader[r])
  BY NoReadIsReader DEF ReadInit
<1> QED BY <1>1, <1>3, <1>4 DEF ReadInv

-----------------------------------------------------------------------------
\* A handler goes on with its object, or ends with an answer: if that tells of
\* the object, the row is what the request says.
GoesOn(p) ==
  /\ task'[p].at \in Handler
  /\ task'[p].obj = task[p].obj
  /\ DeletionOK(task'[p], rows')

Ends(p) ==
  /\ task'[p].at \notin Handler
  /\ answer'[p] \in {"ok", "not_found"} => rows'[task[p].obj] = task[p].new

LEMMA GotoKeepsNew ==
  ASSUME TypeInv, NEW p \in Requests, NEW label, Goto(p, label)
  PROVE  task'[p].new = task[p].new
BY DEF TypeInv, TypeOK, Task, Goto

LEMMA PutGoesOn ==
  ASSUME NEW p \in Requests, task'[p].at \in PutLabels, task'[p].obj = task[p].obj
  PROVE  GoesOn(p)
BY DEF GoesOn, DeletionOK, Handler, PutLabels, DeleteLabels, RowGone

LEMMA PutStepIs ==
  ASSUME NEW p \in Requests, Step(p), task[p].at \in PutLabels
  PROVE  \/ PutGetMetadata(p) \/ PutInvalidKey(p) \/ PutAdd(p) \/ PutCp(p)
         \/ PutStore(p) \/ PutFails(p)
<1>1. ~(PutCountOld(p) \/ PutUnpinOld(p))
  BY DEF PutCountOld, PutUnpinOld, PutLabels, At
<1>2. ~(\/ DeleteGetMetadata(p) \/ DeleteNotFound(p)
        \/ DeleteUnlink(p) \/ DeleteRow(p)
        \/ DeleteCountRemaining(p) \/ DeleteUnpin(p) \/ DeleteFails(p))
  BY DEF DeleteGetMetadata, DeleteNotFound, DeleteUnlink, UnlinkCall, DeleteRow,
         DeleteCall, DeleteCountRemaining, DeleteUnpin, DeleteFails, PutLabels,
         DeleteLabels, At
<1>3. ~(\/ TrimNextAncestor(p) \/ TrimLastAncestor(p) \/ TrimAncestorInUse(p)
        \/ TrimUnlink(p) \/ BackgroundFails(p))
  BY DEF TrimNextAncestor, TrimLastAncestor, TrimAncestorInUse, TrimUnlink, TrimCall,
         BackgroundFails, BackgroundLabels, PutLabels, At
<1> QED BY <1>1, <1>2, <1>3 DEF Step

LEMMA PutTells ==
  ASSUME TypeInv, NEW p \in Requests, Step(p), task[p].at \in PutLabels
  PROVE  GoesOn(p) \/ Ends(p)
<1>1. CASE PutGetMetadata(p)
  <2> DEFINE s == [task[p] EXCEPT !.at = "put_add",
                                  !.old = GetObjectMetadata(task[p].obj)]
  <2>1. Become(p, s)
    BY <1>1 DEF PutGetMetadata
  <2>2. s.at = "put_add" /\ s.obj = task[p].obj
    BY DEF TypeInv, TypeOK, Task
  <2> HIDE DEF s
  <2> QED BY <2>1, <2>2, BecomeIs, PutGoesOn DEF PutLabels
<1>2. CASE PutAdd(p)
  BY <1>2, GotoIs, PutGoesOn DEF PutAdd, PutLabels
<1>3. CASE PutCp(p)
  BY <1>3, GotoIs, PutGoesOn DEF PutCp, PutLabels
<1>4. CASE PutInvalidKey(p) \/ PutFails(p)
  <2>1. Become(p, NoTask) /\ (Reply(p, "bad_request") \/ Reply(p, "error"))
    BY <1>4 DEF PutInvalidKey, PutFails
  <2> QED BY <2>1, BecomeIs, ReplyIs, NoTaskLabel
          DEF Ends, Handler, PutLabels, DeleteLabels
<1>5. CASE PutStore(p)
  <2>1. task[p].obj \in Objects
    BY RequestsAssumption DEF TypeInv, TaskOK, NamesObject, Handler
  <2>2. rows'[task[p].obj] = task[p].new
    BY <1>5, <2>1
    DEF PutStore, StoreCall, StoreObjectMetadata, TypeInv, TypeOK, Rows
  <2>3. UnpinOverwritten(task[p].old, task[p].new).at \in {"put_count", "idle"}
    BY NoTaskLabel DEF UnpinOverwritten, NoTask
  <2>4. task'[p].at \notin Handler
    BY <1>5, <2>3, BecomeIs DEF PutStore, Handler, PutLabels, DeleteLabels
  <2> QED BY <2>2, <2>4 DEF Ends
<1> QED BY <1>1, <1>2, <1>3, <1>4, <1>5, PutStepIs

LEMMA DeletionTells ==
  ASSUME TypeInv, NEW p \in Requests, Step(p), task[p].at \in DeleteLabels,
         DeletionOK(task[p], rows)
  PROVE  GoesOn(p) \/ Ends(p)
<1> DEFINE o == task[p].obj
<1>0. /\ task[p].new = NoCid /\ o \in Objects
      /\ task[p].at \in RowGone => rows[o] = NoCid
  BY RequestsAssumption DEF DeletionOK, TypeInv, TaskOK, NamesObject, Handler
<1>1. CASE DeleteGetMetadata(p)
  <2> DEFINE s == [task[p] EXCEPT !.at = "del_unlink", !.old = GetObjectMetadata(o)]
  <2>1. Become(p, s)
    BY <1>1 DEF DeleteGetMetadata
  <2>2. s.at = "del_unlink" /\ s.obj = o /\ s.new = NoCid
    BY <1>0 DEF TypeInv, TypeOK, Task
  <2> HIDE DEF s
  <2> QED BY <2>1, <2>2, BecomeIs DEF GoesOn, DeletionOK, Handler, DeleteLabels, RowGone
<1>2. CASE DeleteNotFound(p)
  <2>1. task'[p] = NoTask /\ rows'[o] = NoCid
    BY <1>2, BecomeIs DEF DeleteNotFound, GetObjectMetadata, stores
  <2> QED BY <1>0, <2>1, NoTaskLabel DEF Ends, Handler, PutLabels, DeleteLabels
<1>3. CASE DeleteUnlink(p)
  BY <1>0, <1>3, GotoIs, GotoKeepsNew
  DEF DeleteUnlink, GoesOn, DeletionOK, Handler, DeleteLabels, RowGone
<1>4. CASE DeleteRow(p)
  <2>1. rows'[o] = NoCid
    BY <1>0, <1>4 DEF DeleteRow, DeleteCall, DeleteObjectRow, TypeInv, TypeOK, Rows
  <2> QED BY <1>0, <1>4, <2>1, GotoIs, GotoKeepsNew
          DEF DeleteRow, GoesOn, DeletionOK, Handler, DeleteLabels
<1>5. CASE DeleteFails(p)
  BY <1>5, BecomeIs, ReplyIs, NoTaskLabel
  DEF DeleteFails, Ends, Handler, PutLabels, DeleteLabels
<1>6. ASSUME DeleteAnswer(p), rows' = rows, task[p].at \in RowGone
      PROVE  Ends(p)
  <2>1. TrimTask(o).at \in {"idle", "trim_find"}
    BY DEF TrimTask, NoTask
  <2>2. task'[p].at \notin Handler
    BY <1>6, <2>1, BecomeIs DEF DeleteAnswer, Handler, PutLabels, DeleteLabels
  <2> QED BY <1>0, <1>6, <2>2 DEF Ends
<1>7. CASE DeleteCountRemaining(p)
  <2>1. task[p].at \in RowGone /\ rows' = rows
    BY <1>7 DEF DeleteCountRemaining, At, RowGone, stores
  <2>2. CASE Goto(p, "del_unpin")
    BY <1>0, <2>1, <2>2, GotoIs, GotoKeepsNew
    DEF GoesOn, DeletionOK, Handler, DeleteLabels
  <2> QED BY <1>6, <1>7, <2>1, <2>2 DEF DeleteCountRemaining
<1>8. CASE DeleteUnpin(p)
  <2>1. task[p].at \in RowGone /\ rows' = rows
    BY <1>8 DEF DeleteUnpin, UnpinCall, At, RowGone
  <2> QED BY <1>6, <1>8, <2>1 DEF DeleteUnpin
<1> QED BY <1>1, <1>2, <1>3, <1>4, <1>5, <1>7, <1>8, DeletionStepIs

\* Only a handler changes a row, that of its object.
LEMMA OthersRowsStay ==
  ASSUME TypeInv, NEW p \in Requests, Step(p) \/ Disconnect(p),
         NEW o \in Objects, ~On(p, o)
  PROVE  rows'[o] = rows[o]
<1>1. UNCHANGED rows \/ StoreCall(p) \/ DeleteCall(p)
  BY StepOnRows, EffectOnRows DEF Disconnect, stores
<1>2. CASE StoreCall(p) \/ DeleteCall(p)
  <2>1. task[p].obj # o
    BY <1>2 DEF StoreCall, DeleteCall, At, On, InHandler, Handler, PutLabels, DeleteLabels
  <2>2. \E c : rows' = [rows EXCEPT ![task[p].obj] = c]
    BY <1>2 DEF StoreCall, DeleteCall, StoreObjectMetadata, DeleteObjectRow
  <2> QED BY <2>1, <2>2 DEF TypeInv, TypeOK, Rows
<1> QED BY <1>1, <1>2

LEMMA HandlerKeepsObject ==
  ASSUME TypeInv, NEW p \in Requests, Step(p), InHandler(p), InHandler(p)'
  PROVE  task'[p].obj = task[p].obj
<1>1. CASE task[p].at \in PutLabels
  BY <1>1, PutTells DEF GoesOn, Ends, InHandler
<1>2. CASE task[p].at \in DeleteLabels
  BY <1>2, DeletionSteps DEF DeletionGoesOn, InHandler, Handler, PutLabels, DeleteLabels
<1> QED BY <1>1, <1>2 DEF InHandler, Handler

LEMMA AskIs ==
  ASSUME TypeInv, NEW p \in Requests, Ask(p)
  PROVE  /\ ~InHandler(p) /\ rows' = rows
         /\ \A q \in Requests \ {p} : task'[q] = task[q]
         /\ task'[p].obj \in Objects
         /\ DeletionOK(task'[p], rows')
<1>1. ~InHandler(p) /\ rows' = rows
  BY DEF Ask, PutObject, DeleteObject, MayAsk, Running, InHandler, Handler, PutLabels,
         DeleteLabels, stores
<1>2. CASE PutObject(p)
  <2>1. PICK o \in Targets[p], c \in Contents[p] :
          Become(p, [NoTask EXCEPT !.at = "put_get", !.obj = o, !.new = c])
    BY <1>2 DEF PutObject
  <2> DEFINE s == [NoTask EXCEPT !.at = "put_get", !.obj = o, !.new = c]
  <2>2. s.at = "put_get" /\ s.obj = o
    BY DEF NoTask
  <2> HIDE DEF s
  <2> QED BY <1>1, <2>1, <2>2, BecomeIs, RequestsAssumption
          DEF DeletionOK, DeleteLabels, RowGone, s
<1>3. CASE DeleteObject(p)
  <2>1. PICK o \in Targets[p] : Become(p, [NoTask EXCEPT !.at = "del_get", !.obj = o])
    BY <1>3 DEF DeleteObject
  <2> DEFINE s == [NoTask EXCEPT !.at = "del_get", !.obj = o]
  <2>2. s.at = "del_get" /\ s.obj = o /\ s.new = NoCid
    BY DEF NoTask
  <2> HIDE DEF s
  <2> QED BY <1>1, <2>1, <2>2, BecomeIs, RequestsAssumption DEF DeletionOK, RowGone, s
<1> QED BY <1>2, <1>3 DEF Ask

\* Nothing becomes of an object that no request moves on.
LEMMA KnownStays ==
  ASSUME NEW o \in Objects, KnownOK(o), AskedOK(o),
         known'[o] = known[o], rows'[o] = rows[o],
         \A q \in Requests : On(q, o)' => On(q, o) /\ task'[q] = task[q]
  PROVE  KnownOK(o)' /\ AskedOK(o)'
<1>1. KnownOK(o)'
  BY DEF KnownOK
<1>2. AskedOK(o)'
  BY DEF AskedOK, DeletionOK, On
<1> QED BY <1>1, <1>2

LEMMA WriteKeepsReads ==
  ASSUME TypeInv, ReadInv, NEW p \in Requests, Write(p)
  PROVE  ReadInv'
<1>0. /\ Step(p) /\ reader' = reader
      /\ known' = IF Tells(p) THEN [known EXCEPT ![task[p].obj] = task[p].new] ELSE known
      /\ \A q \in Requests \ {p} : task'[q] = task[q]
  BY StepIsOwn DEF Write
<1>1. CASE ~InHandler(p)
  <2>1. ~InHandler(p)' /\ known' = known
    BY <1>0, <1>1, StepKeepsKind DEF InHandler, Tells
  <2>2. ASSUME NEW o \in Objects PROVE KnownOK(o)' /\ AskedOK(o)'
    <3>1. rows'[o] = rows[o]
      BY <1>0, <1>1, OthersRowsStay DEF On
    <3>2. \A q \in Requests : On(q, o)' => On(q, o) /\ task'[q] = task[q]
      BY <1>0, <2>1 DEF On, InHandler
    <3> QED BY <2>1, <3>1, <3>2, KnownStays DEF ReadInv
  <2> QED BY <1>0, <2>1, <2>2 DEF ReadInv, ReaderOK
<1>2. CASE InHandler(p)
  <2>0. PICK mine \in Objects : mine = task[p].obj
    BY <1>2, RequestsAssumption DEF TypeInv, TaskOK, NamesObject, InHandler
  <2>1. /\ known[mine] \notin Told /\ On(p, mine)
        /\ KnownOK(mine) /\ AskedOK(mine)
    BY <1>2, <2>0 DEF On, ReadInv, KnownOK
  <2>2. task[p].new \in Told
    BY DEF TypeInv, TypeOK, Task, Told
  <2>3. \A o \in Objects \ {mine} : known'[o] = known[o]
    BY <1>0, <2>0 DEF ReadInv
  <2>4. ASSUME NEW o \in Objects \ {mine} PROVE KnownOK(o)' /\ AskedOK(o)'
    <3>1. rows'[o] = rows[o]
      BY <1>0, <2>0, OthersRowsStay DEF On
    <3>2. ~On(p, o)'
      BY <1>0, <1>2, <2>0, HandlerKeepsObject DEF On
    <3>3. \A q \in Requests : On(q, o)' => On(q, o) /\ task'[q] = task[q]
      BY <1>0, <3>2 DEF On, InHandler
    <3> QED BY <2>3, <3>1, <3>3, KnownStays DEF ReadInv
  <2>5. known[mine] = Asked =>
          /\ GoesOn(p) \/ Ends(p)
          /\ \A q \in Requests : On(q, mine)' => q = p
    <3> SUFFICES ASSUME known[mine] = Asked
                 PROVE  /\ GoesOn(p) \/ Ends(p)
                        /\ \A q \in Requests : On(q, mine)' => q = p
      OBVIOUS
    <3>1. DeletionOK(task[p], rows)
      BY <2>1 DEF AskedOK
    <3>2. GoesOn(p) \/ Ends(p)
      BY <1>0, <1>2, <3>1, PutTells, DeletionTells DEF InHandler, Handler
    <3>3. \A q \in Requests \ {p} : ~On(q, mine)
      BY <2>1 DEF KnownOK
    <3>4. \A q \in Requests \ {p} : ~On(q, mine)'
      BY <1>0, <3>3 DEF On, InHandler
    <3> QED BY <3>2, <3>4
  <2>6. CASE Tells(p)
    <3>1. /\ known[mine] = Asked /\ task'[p].at \notin Handler
          /\ answer'[p] \in {"ok", "not_found"}
      BY <2>0, <2>6 DEF Tells
    <3>2. rows'[mine] = task[p].new
      BY <2>0, <2>5, <3>1 DEF GoesOn, Ends
    <3>3. known'[mine] = task[p].new
      BY <1>0, <2>0, <2>6 DEF ReadInv
    <3>4. \A q \in Requests : ~On(q, mine)'
      BY <2>5, <3>1 DEF On, InHandler
    <3>5. KnownOK(mine)' /\ AskedOK(mine)'
      BY <2>2, <3>2, <3>3, <3>4, HistoryApart DEF KnownOK, AskedOK
    <3>6. known' \in [Objects -> Known]
      BY <1>0, <2>2, <2>6, HistoryApart DEF ReadInv
    <3>7. \A r \in Readers : ReaderOK(reader[r])'
      <4>1. ASSUME NEW r \in Readers PROVE ReaderOK(reader[r])'
        <5> DEFINE v == reader[r]
        <5>1. ReaderOK(v) /\ v' = v
          BY <1>0 DEF ReadInv
        <5> HIDE DEF v
        <5>2. v.at \in {"get", "head"} /\ v.was \in Told => known'[v.obj] = v.was
          BY <2>1, <2>3, <5>1 DEF ReaderOK
        <5>3. ReaderOK(v)'
          BY <5>1, <5>2 DEF ReaderOK
        <5> QED BY <5>3 DEF v
      <4> QED BY <4>1
    <3> QED BY <1>0, <2>4, <3>5, <3>6, <3>7 DEF ReadInv
  <2>7. CASE ~Tells(p)
    <3>1. known' = known
      BY <1>0, <2>7
    <3>2. KnownOK(mine)'
      <4>1. known'[mine] \notin Told
        BY <2>1, <3>1
      <4>2. known'[mine] = Asked => \A q \in Requests : On(q, mine)' => q = p
        BY <2>5, <3>1
      <4> QED BY <4>1, <4>2 DEF KnownOK
    <3>3. AskedOK(mine)'
      <4> SUFFICES ASSUME known[mine] = Asked, On(p, mine)'
                   PROVE  DeletionOK(task[p], rows)'
        BY <2>5, <3>1 DEF AskedOK
      <4> QED BY <2>5 DEF GoesOn, Ends, On, InHandler
    <3> QED BY <1>0, <2>4, <3>1, <3>2, <3>3 DEF ReadInv, ReaderOK
  <2> QED BY <2>6, <2>7
<1> QED BY <1>1, <1>2

LEMMA AskWriteKeepsReads ==
  ASSUME TypeInv, ReadInv, NEW p \in Requests, AskWrite(p)
  PROVE  ReadInv'
<1>1. /\ ~InHandler(p) /\ rows' = rows
      /\ \A q \in Requests \ {p} : task'[q] = task[q]
      /\ DeletionOK(task'[p], rows')
  BY AskIs DEF AskWrite
<1>2. PICK mine \in Objects : mine = task'[p].obj
  BY AskIs DEF AskWrite
<1>3. known' = [known EXCEPT ![mine] = IF Busy(mine) THEN Overlapping ELSE Asked]
  BY <1>2 DEF AskWrite
<1>4. /\ known' \in [Objects -> Known]
      /\ known'[mine] = IF Busy(mine) THEN Overlapping ELSE Asked
      /\ \A o \in Objects \ {mine} : known'[o] = known[o]
  BY <1>3, HistoryApart DEF ReadInv
<1>5. ASSUME NEW o \in Objects \ {mine} PROVE KnownOK(o)' /\ AskedOK(o)'
  <2>1. \A q \in Requests : On(q, o)' => On(q, o) /\ task'[q] = task[q]
    BY <1>1, <1>2 DEF On, InHandler
  <2> QED BY <1>1, <1>4, <2>1, KnownStays DEF ReadInv
<1>6. KnownOK(mine)' /\ AskedOK(mine)'
  <2>1. known'[mine] \notin Told
    BY <1>4, HistoryApart
  <2>2. CASE Busy(mine)
    BY <1>4, <2>1, <2>2, HistoryApart DEF KnownOK, AskedOK
  <2>3. CASE ~Busy(mine)
    <3>1. \A q \in Requests : On(q, mine)' => q = p
      BY <1>1, <2>3 DEF Busy, On, InHandler
    <3>2. KnownOK(mine)'
      BY <2>1, <3>1 DEF KnownOK
    <3>3. AskedOK(mine)'
      BY <1>1, <3>1 DEF AskedOK
    <3> QED BY <3>2, <3>3
  <2> QED BY <2>2, <2>3
<1>7. ASSUME NEW r \in Readers PROVE reader'[r] \in Reader /\ ReaderOK(reader[r])'
  <2> DEFINE v == reader[r]
  <2>1. /\ v \in Reader /\ ReaderOK(v)
        /\ reader'[r] = IF Unanswered(r) /\ v.obj = mine
                        THEN [v EXCEPT !.was = Asked] ELSE v
    BY <1>2 DEF ReadInv, AskWrite
  <2>2. Unanswered(r) <=> v.at \in {"get", "head"}
    BY DEF Unanswered
  <2> HIDE DEF v
  <2>3. CASE Unanswered(r) /\ v.obj = mine
    <3>1. reader'[r] = [v EXCEPT !.was = Asked]
      BY <2>1, <2>3
    <3>2. [v EXCEPT !.was = Asked] \in Reader
      BY <2>1, HistoryApart DEF Reader
    <3>3. /\ reader'[r].at = v.at /\ reader'[r].obj = v.obj
          /\ reader'[r].cid = v.cid /\ reader'[r].was = Asked
      BY <2>1, <3>1 DEF Reader
    <3>4. ReaderOK(reader[r])'
      BY <2>1, <3>3, HistoryApart DEF ReaderOK
    <3> QED BY <3>1, <3>2, <3>4
  <2>4. CASE ~(Unanswered(r) /\ v.obj = mine)
    <3>1. reader'[r] = v
      BY <2>1, <2>4
    <3>2. v.at \in {"get", "head"} /\ v.was \in Told => known'[v.obj] = v.was
      BY <1>4, <2>1, <2>2, <2>4 DEF ReaderOK
    <3>3. ReaderOK(reader[r])'
      BY <2>1, <3>1, <3>2 DEF ReaderOK
    <3> QED BY <2>1, <3>1, <3>3
  <2> QED BY <2>3, <2>4
<1>8. reader' = [r \in Readers |-> reader'[r]]
  BY DEF AskWrite
<1>9. reader' \in [Readers -> Reader]
  BY <1>7, <1>8
<1> QED BY <1>4, <1>5, <1>6, <1>7, <1>9 DEF ReadInv

\* A handler that is dropped tells nothing of its object.
LEMMA LeavingKeepsReads ==
  ASSUME TypeInv, ReadInv, NEW p \in Requests, WriterLeaves(p)
  PROVE  ReadInv'
<1>1. /\ known' = known /\ reader' = reader /\ InHandler(p) /\ Disconnect(p)
      /\ task'[p] = NoTask
      /\ \A q \in Requests \ {p} : task'[q] = task[q]
  BY BecomeIs DEF WriterLeaves, Disconnect
<1>2. ~InHandler(p)'
  BY <1>1, NoTaskLabel DEF InHandler, Handler, PutLabels, DeleteLabels
<1>3. ASSUME NEW o \in Objects PROVE KnownOK(o)' /\ AskedOK(o)'
  <2>1. KnownOK(o) /\ AskedOK(o)
    BY DEF ReadInv
  <2>2. ~On(p, o)'
    BY <1>2 DEF On, InHandler
  <2>3. \A q \in Requests : On(q, o)' => On(q, o) /\ task'[q] = task[q]
    BY <1>1, <2>2 DEF On, InHandler
  <2>4. CASE ~On(p, o)
    <3>1. rows'[o] = rows[o]
      BY <1>1, <2>4, OthersRowsStay
    <3> QED BY <1>1, <2>1, <2>3, <3>1, KnownStays
  <2>5. CASE On(p, o)
    <3>1. known'[o] \notin Told
      BY <1>1, <2>1, <2>5 DEF KnownOK
    <3>2. known'[o] = Asked => \A q \in Requests : ~On(q, o)'
      BY <1>1, <2>1, <2>2, <2>3, <2>5 DEF KnownOK
    <3>3. KnownOK(o)'
      BY <3>1, <3>2 DEF KnownOK
    <3>4. AskedOK(o)'
      BY <3>2 DEF AskedOK
    <3> QED BY <3>3, <3>4
  <2> QED BY <2>4, <2>5
<1> QED BY <1>1, <1>3 DEF ReadInv, ReaderOK

\* After a crash no handler is left, and no reader but those redirected.
LEMMA CrashKeepsReads ==
  ASSUME TypeInv, ReadInv, ServerCrash
  PROVE  ReadInv'
<1>1. /\ known' = known /\ rows' = rows
      /\ \A q \in Requests : task'[q] = NoTask
      /\ reader' = [r \in Readers |->
                      IF Reads(r, "redirected") THEN reader[r] ELSE NoRead]
  BY DEF ServerCrash, Crash, stores
<1>2. \A o \in Objects : \A q \in Requests : ~On(q, o)'
  BY <1>1, NoTaskLabel DEF On, InHandler, Handler, PutLabels, DeleteLabels
<1>3. ASSUME NEW o \in Objects PROVE KnownOK(o)' /\ AskedOK(o)'
  BY <1>1, <1>2, KnownStays DEF ReadInv
<1>4. NoRead \in Reader /\ ReaderOK(NoRead)'
  BY <1>1, NoReadIsReader DEF ReaderOK, NoRead
<1>5. ASSUME NEW r \in Readers PROVE ReaderOK(reader[r])'
  <2>1. reader'[r] = reader[r] \/ reader'[r] = NoRead
    BY <1>1
  <2>2. ReaderOK(reader[r])
    BY DEF ReadInv
  <2> QED BY <1>1, <1>4, <2>1, <2>2 DEF ReaderOK
<1>6. reader' \in [Readers -> Reader]
  BY <1>1, <1>4 DEF ReadInv
<1> QED BY <1>1, <1>3, <1>5, <1>6 DEF ReadInv

\* A step of one reader.
LEMMA ReaderKeepsReads ==
  ASSUME ReadInv, NEW r \in Readers, NEW v \in Reader, BecomeReader(r, v),
         ReaderOK(v), UNCHANGED <<vars, known>>
  PROVE  ReadInv'
<1>1. /\ reader' \in [Readers -> Reader]
      /\ \A q \in Readers : reader'[q] = IF q = r THEN v ELSE reader[q]
  BY DEF ReadInv, BecomeReader
<1>2. rows' = rows /\ task' = task /\ known' = known
  BY DEF vars
<1>3. \A o \in Objects : KnownOK(o)' /\ AskedOK(o)'
  BY <1>2 DEF ReadInv, KnownOK, AskedOK, On, InHandler
<1>4. \A q \in Readers : ReaderOK(reader[q])'
  BY <1>1, <1>2 DEF ReadInv, ReaderOK
<1> QED BY <1>1, <1>2, <1>3, <1>4 DEF ReadInv

\* What is known when a reader asks, it is told if nothing changes.
LEMMA AskReadKeepsReads ==
  ASSUME ReadInv, NEW r \in Readers, AskRead(r)
  PROVE  ReadInv'
<1>1. PICK o \in Readable, at \in {"get", "head"} :
        BecomeReader(r, [NoRead EXCEPT !.at = at, !.obj = o, !.was = known[o]])
  BY DEF AskRead
<1>2. o \in Objects /\ known[o] \in Known
  BY ReadersAssumption DEF ReadInv
<1> DEFINE v == [NoRead EXCEPT !.at = at, !.obj = o, !.was = known[o]]
<1>3. v.at = at /\ v.obj = o /\ v.was = known[o] /\ v.cid = NoCid
  BY DEF NoRead
<1>4. v \in Reader
  BY <1>2, NoReadIsReader DEF Reader
<1> HIDE DEF v
<1>5. ReaderOK(v)
  BY <1>2, <1>3 DEF ReaderOK
<1>6. BecomeReader(r, v) /\ UNCHANGED <<vars, known>>
  BY <1>1 DEF AskRead, v
<1> QED BY <1>4, <1>5, <1>6, ReaderKeepsReads

\* The answer to a reader is what the row is.
LEMMA AnswerKeepsReads ==
  ASSUME TypeInv, ReadInv, NEW r \in Readers, Unanswered(r),
         NEW at \in {"not_found", "error", "described", "streaming", "redirected"},
         NEW c \in {NoCid, Row(r)},
         at = "not_found" => Row(r) = NoCid,
         BecomeReader(r, [reader[r] EXCEPT !.at = at, !.cid = c]),
         UNCHANGED <<vars, known>>
  PROVE  ReadInv'
<1> DEFINE u == reader[r]
           v == [u EXCEPT !.at = at, !.cid = c]
<1>1. u \in Reader /\ ReaderOK(u) /\ u.at \in {"get", "head"}
  BY DEF ReadInv, Unanswered
<1>2. u.obj \in Objects /\ (u.was \in Told => known[u.obj] = u.was)
  BY <1>1 DEF ReaderOK
<1>3. Row(r) = rows[u.obj] /\ Row(r) \in Told
  BY <1>2 DEF Row, GetObjectMetadata, TypeInv, TypeOK, Rows, Told
<1>4. u.was \in Told => Row(r) = u.was
  BY <1>2, <1>3 DEF ReadInv, KnownOK
<1>5. v.at = at /\ v.cid = c /\ v.was = u.was
  BY <1>1 DEF Reader
<1>6. c \in Told
  BY <1>3 DEF Told
<1>7. v \in Reader
  BY <1>1, <1>6 DEF Reader
<1>8. BecomeReader(r, v)
  OBVIOUS
<1> HIDE DEF u, v
<1>9. ReaderOK(v)
  BY <1>4, <1>5 DEF ReaderOK
<1> QED BY <1>7, <1>8, <1>9, ReaderKeepsReads

LEMMA ReadInvNext ==
  ASSUME TypeInv, ReadInv, [ReadNext]_readVars
  PROVE  ReadInv'
<1>1. CASE ServerCrash
  BY <1>1, CrashKeepsReads
<1>2. ASSUME NEW p \in Requests, AskWrite(p) \/ Write(p) \/ WriterLeaves(p)
      PROVE  ReadInv'
  BY <1>2, AskWriteKeepsReads, WriteKeepsReads, LeavingKeepsReads
<1>3. ASSUME NEW r \in Readers,
             \/ AskRead(r) \/ ReadRefused(r) \/ HeadObject(r) \/ GetObject(r)
             \/ DoneReading(r)
      PROVE  ReadInv'
  <2>1. CASE AskRead(r)
    BY <2>1, AskReadKeepsReads
  <2>2. CASE DoneReading(r)
    BY <2>2, NoReadIsReader, ReaderKeepsReads DEF DoneReading
  <2>3. reader[r] \in Reader /\ ReaderOK(reader[r])
    BY <1>3 DEF ReadInv
  <2>4. CASE ReadRefused(r)
    <3>1. PICK at \in {"not_found", "error"} :
            /\ BecomeReader(r, [reader[r] EXCEPT !.at = at])
            /\ at = "not_found" => Row(r) = NoCid
      BY <2>4 DEF ReadRefused
    <3>2. reader[r].cid = NoCid
      BY <2>3, <2>4 DEF ReaderOK, ReadRefused, Unanswered
    <3>3. [reader[r] EXCEPT !.at = at] = [reader[r] EXCEPT !.at = at, !.cid = NoCid]
      BY <2>3, <3>2 DEF Reader
    <3> QED BY <2>4, <3>1, <3>3, AnswerKeepsReads DEF ReadRefused
  <2>5. CASE HeadObject(r)
    BY <2>5, AnswerKeepsReads DEF HeadObject, Reads, Unanswered
  <2>6. CASE GetObject(r)
    <3>1. PICK private \in BOOLEAN :
            BecomeReader(r, [reader[r] EXCEPT
              !.at = IF Proxies(private) THEN "streaming" ELSE "redirected",
              !.cid = Row(r)])
      BY <2>6 DEF GetObject
    <3> DEFINE at == IF Proxies(private) THEN "streaming" ELSE "redirected"
    <3>2. at \in {"streaming", "redirected"}
      OBVIOUS
    <3>3. BecomeReader(r, [reader[r] EXCEPT !.at = at, !.cid = Row(r)])
      BY <3>1
    <3> HIDE DEF at
    <3>4. Unanswered(r) /\ UNCHANGED <<vars, known>> /\ at # "not_found"
      BY <2>6, <3>2 DEF GetObject, Reads, Unanswered
    <3> QED BY <3>2, <3>3, <3>4, AnswerKeepsReads
  <2> QED BY <1>3, <2>1, <2>2, <2>4, <2>5, <2>6
<1>4. CASE UNCHANGED readVars
  BY <1>4
  DEF readVars, vars, ReadInv, KnownOK, AskedOK, On, InHandler, ReaderOK, DeletionOK
<1> QED BY <1>1, <1>2, <1>3, <1>4 DEF ReadNext

\* Readers change nothing that ObjectStore knows of.
LEMMA ReadNextIsNext ==
  ASSUME [ReadNext]_readVars
  PROVE  [Next]_vars
<1>1. CASE ServerCrash
  BY <1>1 DEF ServerCrash, Next
<1>2. ASSUME NEW p \in Requests, AskWrite(p) \/ Write(p) \/ WriterLeaves(p)
      PROVE  Next
  BY <1>2 DEF AskWrite, Write, WriterLeaves, Next
<1>3. ASSUME NEW r \in Readers,
             \/ AskRead(r) \/ ReadRefused(r) \/ HeadObject(r) \/ GetObject(r)
             \/ DoneReading(r)
      PROVE  UNCHANGED vars
  BY <1>3 DEF AskRead, ReadRefused, HeadObject, GetObject, DoneReading
<1>4. CASE UNCHANGED readVars
  BY <1>4 DEF readVars
<1> QED BY <1>1, <1>2, <1>3, <1>4 DEF ReadNext

\* However many clients write and read, whatever fails, disconnects or crashes:
\* when the requests on an object so far were answered one after the other, a
\* GET or HEAD that no request on it meets finds the content of the last PUT,
\* and answers 404 only when there is none.  No background task, no other
\* request and no refused call comes between.
THEOREM ReadersAreTold == ReadSpec => []ReadsAcknowledged
<1>1. ReadInit => Init
  BY DEF ReadInit
<1>2. [ReadNext]_readVars => [Next]_vars
  BY ReadNextIsNext
<1>3. TypeInv /\ ReadInv /\ [ReadNext]_readVars => ReadInv'
  BY ReadInvNext
<1>4. ReadInv => ReadsAcknowledged
  BY DEF ReadInv, ReaderOK, ReadsAcknowledged, Reads, Told
<1> QED BY <1>1, <1>2, <1>3, <1>4, ReadInvInit, TypeInvariant, PTL DEF ReadSpec, Spec

=============================================================================
