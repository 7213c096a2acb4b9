--------------------------- MODULE DeleteObjects ---------------------------
(***************************************************************************)
(* DeleteObjects (src/src/s3/post_bucket.rs): the handler of one request   *)
(* awaits delete_object for one key after another, each as DeleteObject    *)
(* would run it, and reports which of them succeeded.  The trims that the  *)
(* deletions of the first keys have spawned run while the later keys are   *)
(* deleted.                                                                *)
(*                                                                         *)
(* One client sends PUTs and batches, one at a time; others send requests  *)
(* of their own meanwhile.  The slots of the batch client bound the trims  *)
(* that run at once: the next key waits for a slot.                        *)
(***************************************************************************)
EXTENDS ObjectStore

CONSTANTS
  BatchSlots,    \* the slots of the client that sends batches
  BatchKeys,     \* the objects it names
  MaxBatch       \* the length of its longest batch

NoSlot == "no slot"

ASSUME BatchAssumption ==
  /\ BatchSlots \subseteq Requests
  /\ NoSlot \notin Requests
  /\ BatchKeys \subseteq Objects
  /\ MaxBatch \in Nat

VARIABLE batch

batchVars == <<vars, batch>>

NoBatch == [left |-> <<>>, slot |-> NoSlot, deleted |-> {}, failed |-> {},
            found |-> {}]

InBatch == batch # NoBatch

\* The client waits for its own background tasks too.
Settled == ~InBatch /\ \A p \in BatchSlots : ~Running(p)

-----------------------------------------------------------------------------
(***************************************************************************)
(* The other requests, and the client's own PUTs.                          *)
(***************************************************************************)
AskOther ==
  /\ \E p \in Requests \ BatchSlots : Ask(p)
  /\ UNCHANGED batch

PutOwn ==
  /\ Settled
  /\ \E p \in BatchSlots : PutObject(p)
  /\ UNCHANGED batch

(***************************************************************************)
(* The loop over the keys, and a history of the objects found when it      *)
(* began.  A body that does not parse and a POST without ?delete change    *)
(* nothing.                                                                *)
(***************************************************************************)
ModifyBucket ==
  /\ Settled
  /\ \E keys \in SeqOf(BatchKeys, MaxBatch) \ {<<>>} :
       batch' = [NoBatch EXCEPT !.left = keys,
                                !.found = {o \in Objects : rows[o] # NoCid}]
  /\ UNCHANGED vars

DeleteNext(p) ==
  /\ batch.left # <<>>
  /\ batch.slot = NoSlot
  /\ DeleteObject(p)
  /\ task'[p].obj = Head(batch.left)
  /\ batch' = [batch EXCEPT !.slot = p]

\* Mutant: a deletion that fails is reported as done.
ReportedAll(a) ==
  [batch EXCEPT !.slot = NoSlot, !.left = Tail(@),
                !.deleted = @ \cup {Head(batch.left)}]

\* Mutant: a key that fails is tried again.
ReportedRetrying(a) ==
  IF a = "ok"
  THEN [batch EXCEPT !.slot = NoSlot, !.left = Tail(@),
                     !.deleted = @ \cup {Head(batch.left)}]
  ELSE [batch EXCEPT !.slot = NoSlot, !.failed = @ \cup {Head(batch.left)}]

\* The entry goes to one of the two lists of the answer.
Reported(a) ==
  IF a = "ok"
  THEN [batch EXCEPT !.slot = NoSlot, !.left = Tail(@),
                     !.deleted = @ \cup {Head(batch.left)}]
  ELSE [batch EXCEPT !.slot = NoSlot, !.left = Tail(@),
                     !.failed = @ \cup {Head(batch.left)}]

\* A step of any slot; the one that ends the deletion of a key reports it.
Work(p) ==
  /\ Step(p)
  /\ batch' = IF p = batch.slot /\ ~(task'[p].at \in Handler)
              THEN Reported(answer'[p])
              ELSE batch

\* 200, whatever failed.
AnswerBatch ==
  /\ InBatch /\ batch.left = <<>>
  /\ batch' = NoBatch
  /\ UNCHANGED vars

\* The batch goes with the deletion that it awaits; the keys left stay.
Leave(p) ==
  /\ Disconnect(p)
  /\ batch' = IF p = batch.slot THEN NoBatch ELSE batch

CrashBatch == Crash /\ batch' = NoBatch

-----------------------------------------------------------------------------
BatchInit == Init /\ batch = NoBatch

BatchNext ==
  \/ AskOther \/ PutOwn
  \/ ModifyBucket \/ AnswerBatch \/ CrashBatch
  \/ \E p \in BatchSlots : DeleteNext(p)
  \/ \E p \in Requests : Work(p) \/ Leave(p)

BatchSpec == BatchInit /\ [][BatchNext]_batchVars

\* As in ObjectStore; the loop goes on by itself.
FairBatchSpec ==
  /\ BatchSpec
  /\ \A p \in Requests : WF_batchVars(Work(p))
  /\ WF_batchVars(\E p \in BatchSlots : DeleteNext(p))
  /\ WF_batchVars(AnswerBatch)

-----------------------------------------------------------------------------
(***************************************************************************)
(* Properties.                                                             *)
(***************************************************************************)
\* What is reported as deleted is gone from the table, whatever failed on the
\* way and whoever else is served (its client stores nothing until the end).
DeletedIsGone == \A o \in batch.deleted : rows[o] = NoCid

\* Without failures every object that was there when the batch began is
\* deleted: no trim of an earlier deletion removes the file of a later key
\* under its "files rm", no deletion finds the pin of its content taken.
BatchSucceeds == batch.failed \cap batch.found \subseteq batch.deleted

\* Every batch ends: answered, or its client left, or the process died.
BatchEnds == InBatch ~> ~InBatch

=============================================================================
