----------------------------- MODULE NodeProofs -----------------------------
(***************************************************************************)
(* What the IPFS node keeps: the content of every row stays pinned         *)
(* (RowsPinned), no pin leaks (PinsAccounted) and no link leaks            *)
(* (LinksAccounted).  Each of the three needs circumstances of its own.    *)
(***************************************************************************)
EXTENDS ObjectStoreProofs

-----------------------------------------------------------------------------
(***************************************************************************)
(* RowsPinned, when every slot has its own objects and its own contents,   *)
(* whatever fails, disconnects or crashes.                                 *)
(*                                                                         *)
(* What a slot holds of the pins P and the rows R.  The CID it read is one *)
(* of its own contents, so that nobody else stores it between its counting *)
(* and its unpinning; the CID it is about to store is pinned; the CID it   *)
(* is about to unpin has no row.                                           *)
(***************************************************************************)
\* The slots that share objects share their contents.
OneOwner ==
  \A p, q \in Requests : Targets[p] \cap Targets[q] # {} => Contents[p] = Contents[q]

KeepsOld == HoldsOld \cup {"put_add", "put_cp", "put_store"}
Adding == {"put_cp", "put_store"}
Unpinning == {"put_unpin", "del_unpin"}

\* While a slot stores a content nobody is about to unpin it.
PinsApart ==
  \A p, q \in Requests : p # q /\ Contents[p] \cap Contents[q] # {} =>
    ~(task[p].at \in Adding /\ task[q].at \in Unpinning)

Holds(p, t, P, R) ==
  /\ t.at \in KeepsOld => t.old \in Contents[p] \cup {NoCid}
  /\ t.at \in Adding => t.new \in P
  /\ t.at \in Unpinning => \A o \in Objects : R[o] # t.old

\* A row was written by the slot that its object belongs to.
RowsOwned ==
  \A o \in Objects : rows[o] # NoCid =>
    \E p \in Requests : o \in Targets[p] /\ rows[o] \in Contents[p]

PinInv ==
  /\ RowsOwned
  /\ RowsPinned
  /\ \A p \in Requests : Holds(p, task[p], pins, rows)

-----------------------------------------------------------------------------
\* The calls, seen from the rows, the pins and the slots that do not make them.
LEMMA EffectKeepsPins ==
  ASSUME OneOwner, PinsApart, TypeInv, PinInv,
         NEW p \in Requests, StoreEffect(p)
  PROVE  /\ RowsOwned' /\ RowsPinned'
         /\ \A q \in Requests \ {p} : Holds(q, task[q], pins', rows')
<1> DEFINE t == task[p]
<1>0. /\ TaskOK(p, t) /\ Holds(p, t, pins, rows)
      /\ rows \in [Objects -> Cids \cup {NoCid}]
      /\ \A q \in Requests : TaskOK(q, task[q]) /\ Holds(q, task[q], pins, rows)
      /\ RowsOwned /\ RowsPinned
      /\ NoCid \notin Cids
      /\ \A q \in Requests : Contents[q] \subseteq Cids
  BY RequestsAssumption, NoCidAssumption
  DEF TypeInv, TypeOK, Rows, PinInv
<1>1. CASE AddCall(p)
  BY <1>0, <1>1 DEF AddCall, Add, RowsOwned, RowsPinned, Holds
<1>2. CASE CpCall(p)
  BY <1>0, <1>2 DEF CpCall, FilesCp, RowsOwned, RowsPinned, Holds
<1>3. CASE StoreCall(p)
  <2>1. /\ rows' = [rows EXCEPT ![t.obj] = t.new] /\ pins' = pins
        /\ t.at = "put_store"
    BY <1>3 DEF StoreCall, StoreObjectMetadata, At, node
  <2>2. t.obj \in Targets[p] /\ t.obj \in Objects /\ t.new \in Contents[p]
        /\ t.new \in pins
    BY <1>0, <2>1, RequestsAssumption
    DEF TaskOK, Holds, NamesObject, Handler, PutLabels, Adding
  <2>3. RowsOwned'
    BY <1>0, <2>1, <2>2 DEF RowsOwned
  <2>4. RowsPinned'
    BY <1>0, <2>1, <2>2 DEF RowsPinned
  <2>5. ASSUME NEW q \in Requests \ {p} PROVE Holds(q, task[q], pins', rows')
    <3>1. task[q].at \in Unpinning => task[q].old # t.new
      <4>1. task[q].at \in Unpinning =>
              task[q].old \in Contents[q]
        BY <1>0, <2>5 DEF Holds, Unpinning, KeepsOld, HoldsOld, TaskOK
      <4> QED BY <4>1, <2>1, <2>2, <2>5 DEF PinsApart, Adding
    <3> QED BY <1>0, <2>1, <2>2, <2>5, <3>1 DEF Holds
  <2> QED BY <2>3, <2>4, <2>5
<1>4. CASE UnlinkCall(p)
  BY <1>0, <1>4 DEF UnlinkCall, FilesRm, RowsOwned, RowsPinned, Holds
<1>5. CASE DeleteCall(p)
  <2>1. /\ rows' = [rows EXCEPT ![t.obj] = NoCid] /\ pins' = pins
    BY <1>5 DEF DeleteCall, DeleteObjectRow, node
  <2>2. \A o \in Objects : rows'[o] = rows[o] \/ rows'[o] = NoCid
    BY <1>0, <2>1
  <2>3. RowsOwned'
    BY <1>0, <2>2 DEF RowsOwned
  <2>4. RowsPinned'
    BY <1>0, <2>1, <2>2 DEF RowsPinned
  <2>5. ASSUME NEW q \in Requests \ {p} PROVE Holds(q, task[q], pins', rows')
    <3>1. task[q].at \in Unpinning => task[q].old # NoCid
      BY <1>0, <2>5 DEF Unpinning, HoldsOld, TaskOK
    <3> QED BY <1>0, <2>1, <2>2, <2>5, <3>1 DEF Holds
  <2> QED BY <2>3, <2>4, <2>5
<1>6. CASE UnpinCall(p)
  <2>1. /\ rows' = rows /\ pins' = pins \ {t.old}
        /\ t.at \in Unpinning
    BY <1>6 DEF UnpinCall, PinRm, Unpinning
  <2>2. \A o \in Objects : rows[o] # t.old
    BY <1>0, <2>1 DEF Holds
  <2>3. RowsPinned' /\ RowsOwned'
    BY <1>0, <2>1, <2>2 DEF RowsPinned, RowsOwned
  <2>4. t.old \in Contents[p]
    BY <1>0, <2>1 DEF Holds, Unpinning, KeepsOld, HoldsOld, TaskOK
  <2>5. ASSUME NEW q \in Requests \ {p} PROVE Holds(q, task[q], pins', rows')
    <3>1. task[q].at \in Adding => task[q].new # t.old
      <4>1. task[q].at \in Adding => task[q].new \in Contents[q]
        BY <1>0, <2>5 DEF Adding, TaskOK, PutLabels
      <4> QED BY <4>1, <2>1, <2>4, <2>5 DEF PinsApart
    <3> QED BY <1>0, <2>1, <2>5, <3>1 DEF Holds
  <2> QED BY <2>3, <2>5
<1>7. CASE TrimCall(p)
  BY <1>0, <1>7 DEF TrimCall, FilesRm, RowsOwned, RowsPinned, Holds
<1> QED BY <1>1, <1>2, <1>3, <1>4, <1>5, <1>6, <1>7 DEF StoreEffect

\* A step of a slot keeps the invariant when its own new record holds what it
\* must.
LEMMA StepKeepsPins ==
  ASSUME OneOwner, PinsApart, TypeInv, PinInv,
         NEW p \in Requests, NEW t,
         UNCHANGED stores \/ StoreEffect(p),
         Become(p, t), Holds(p, t, pins', rows')
  PROVE  PinInv'
<1>1. /\ RowsOwned' /\ RowsPinned'
      /\ \A q \in Requests \ {p} : Holds(q, task[q], pins', rows')
  <2>1. CASE UNCHANGED stores
    BY <2>1 DEF stores, node, PinInv, RowsOwned, RowsPinned
  <2>2. CASE StoreEffect(p)
    BY <2>2, EffectKeepsPins
  <2> QED BY <2>1, <2>2
<1>2. task' = [task EXCEPT ![p] = t] /\ task \in [Requests -> Task]
  BY DEF Become, TypeInv, TypeOK
<1>3. \A q \in Requests : Holds(q, task'[q], pins', rows')
  BY <1>1, <1>2
<1> QED BY <1>1, <1>3 DEF PinInv

LEMMA NoTaskHolds ==
  ASSUME NEW p \in Requests, NEW P, NEW R
  PROVE  Holds(p, NoTask, P, R)
BY DEF Holds, NoTask, KeepsOld, HoldsOld, Adding, Unpinning

LEMMA TrimTaskHolds ==
  ASSUME NEW p \in Requests, NEW o, NEW P, NEW R
  PROVE  Holds(p, TrimTask(o), P, R)
<1>1. CASE TrimEmptyFolders
  BY <1>1 DEF TrimTask, Holds, NoTask, KeepsOld, HoldsOld, Adding, Unpinning
<1>2. CASE ~TrimEmptyFolders
  BY <1>2, NoTaskHolds DEF TrimTask
<1> QED BY <1>1, <1>2

\* The row of an object of the slot holds one of its contents.
LEMMA OwnRow ==
  ASSUME OneOwner, TypeInv, PinInv, NEW p \in Requests, NEW o \in Targets[p]
  PROVE  rows[o] \in Contents[p] \cup {NoCid}
<1>1. o \in Objects
  BY RequestsAssumption
<1>2. rows[o] # NoCid =>
        \E q \in Requests : o \in Targets[q] /\ rows[o] \in Contents[q]
  BY <1>1 DEF PinInv, RowsOwned
<1>3. \A q \in Requests : o \in Targets[q] => Contents[q] = Contents[p]
  BY DEF OneOwner
<1> QED BY <1>2, <1>3

LEMMA FailureKeepsPins ==
  ASSUME OneOwner, PinsApart, TypeInv, PinInv, NEW p \in Requests,
         CallFails(p) \/ UNCHANGED stores \/ StoreEffect(p), Become(p, NoTask)
  PROVE  PinInv'
<1>1. UNCHANGED stores \/ StoreEffect(p)
  BY DEF CallFails
<1> QED BY <1>1, NoTaskHolds, StepKeepsPins

LEMMA PutKeepsPins ==
  ASSUME OneOwner, PinsApart, TypeInv, PinInv, NEW p \in Requests,
         \/ PutObject(p) \/ PutGetMetadata(p) \/ PutInvalidKey(p)
         \/ PutAdd(p) \/ PutCp(p) \/ PutStore(p) \/ PutFails(p)
         \/ PutCountOld(p) \/ PutUnpinOld(p)
  PROVE  PinInv'
<1> DEFINE t == task[p]
<1>0. /\ TaskOK(p, t) /\ Holds(p, t, pins, rows)
      /\ t \in Task /\ task \in [Requests -> Task]
  BY DEF TypeInv, TypeOK, PinInv, TaskOK
<1> USE DEF KeepsOld, HoldsOld, Adding, Unpinning
<1>1. CASE PutObject(p)
  <2>1. PICK o \in Targets[p], c \in Contents[p] :
          Become(p, [NoTask EXCEPT !.at = "put_get", !.obj = o, !.new = c])
    BY <1>1 DEF PutObject
  <2>2. Holds(p, [NoTask EXCEPT !.at = "put_get", !.obj = o, !.new = c],
              pins', rows')
    BY DEF Holds, NoTask
  <2> QED BY <1>1, <2>1, <2>2, StepKeepsPins DEF PutObject
<1>2. CASE PutGetMetadata(p)
  <2> DEFINE s == [t EXCEPT !.at = "put_add", !.old = rows[t.obj]]
  <2>1. Become(p, s) /\ UNCHANGED stores /\ t.at = "put_get"
    BY <1>2 DEF PutGetMetadata, GetObjectMetadata, At
  <2>2. t.obj \in Targets[p]
    BY <1>0, <2>1 DEF TaskOK, NamesObject, Handler, PutLabels
  <2>3. rows[t.obj] \in Contents[p] \cup {NoCid}
    BY <2>2, OwnRow
  <2>4. Holds(p, s, pins', rows')
    BY <1>0, <2>3 DEF Holds, Task
  <2> QED BY <2>1, <2>4, StepKeepsPins
<1>3. CASE PutInvalidKey(p)
  BY <1>3, FailureKeepsPins DEF PutInvalidKey
<1>4. CASE PutAdd(p)
  <2> DEFINE s == [t EXCEPT !.at = "put_cp"]
  <2>1. /\ Become(p, s) /\ t.at = "put_add"
        /\ rows' = rows /\ pins' = pins \cup {t.new}
    BY <1>0, <1>4 DEF PutAdd, AddCall, Add, At, Goto, Become
  <2>2. Holds(p, s, pins', rows')
    BY <1>0, <2>1 DEF Holds, Task
  <2> QED BY <1>4, <2>1, <2>2, StepKeepsPins DEF PutAdd, StoreEffect
<1>5. CASE PutCp(p)
  <2> DEFINE s == [t EXCEPT !.at = "put_store"]
  <2>1. /\ Become(p, s) /\ t.at = "put_cp"
        /\ rows' = rows /\ pins' = pins
    BY <1>0, <1>5 DEF PutCp, CpCall, FilesCp, At, Goto, Become
  <2>2. Holds(p, s, pins', rows')
    BY <1>0, <2>1 DEF Holds, Task
  <2> QED BY <1>5, <2>1, <2>2, StepKeepsPins DEF PutCp, StoreEffect
<1>6. CASE PutStore(p)
  <2>1. t.at = "put_store"
    BY <1>6 DEF PutStore, StoreCall, At
  <2>2. Holds(p, UnpinOverwritten(t.old, t.new), pins', rows')
    <3>1. CASE t.old \notin {NoCid, t.new}
      BY <1>0, <2>1, <3>1 DEF UnpinOverwritten, Holds, NoTask
    <3>2. CASE t.old \in {NoCid, t.new}
      BY <3>2, NoTaskHolds DEF UnpinOverwritten
    <3> QED BY <3>1, <3>2
  <2> QED BY <1>6, <2>2, StepKeepsPins DEF PutStore, StoreEffect
<1>7. CASE PutFails(p)
  BY <1>7, FailureKeepsPins DEF PutFails
<1>8. CASE PutCountOld(p)
  <2> DEFINE s == [t EXCEPT !.at = "put_unpin"]
  <2>1. UNCHANGED stores /\ t.at = "put_count"
    BY <1>8 DEF PutCountOld, At
  <2>2. CASE Referencing(t.old) = {} /\ Goto(p, "put_unpin")
    <3>1. Become(p, s)
      BY <1>0, <2>2 DEF Goto, Become
    <3>2. \A o \in Objects : rows'[o] # t.old
      BY <2>1, <2>2 DEF Referencing, stores
    <3>3. Holds(p, s, pins', rows')
      BY <1>0, <2>1, <3>2 DEF Holds, Task
    <3> QED BY <2>1, <3>1, <3>3, StepKeepsPins
  <2>3. CASE Become(p, NoTask)
    BY <2>1, <2>3, FailureKeepsPins
  <2> QED BY <1>8, <2>2, <2>3 DEF PutCountOld
<1>9. CASE PutUnpinOld(p)
  BY <1>9, FailureKeepsPins DEF PutUnpinOld, StoreEffect
<1> QED BY <1>1, <1>2, <1>3, <1>4, <1>5, <1>6, <1>7, <1>8, <1>9

LEMMA DeleteKeepsPins ==
  ASSUME OneOwner, PinsApart, TypeInv, PinInv, NEW p \in Requests,
         \/ DeleteObject(p) \/ DeleteGetMetadata(p) \/ DeleteNotFound(p)
         \/ DeleteUnlink(p) \/ DeleteRow(p)
         \/ DeleteCountRemaining(p) \/ DeleteUnpin(p) \/ DeleteFails(p)
  PROVE  PinInv'
<1> DEFINE t == task[p]
<1>0. /\ TaskOK(p, t) /\ Holds(p, t, pins, rows)
      /\ t \in Task /\ task \in [Requests -> Task]
  BY DEF TypeInv, TypeOK, PinInv, TaskOK
<1> USE DEF KeepsOld, HoldsOld, Adding, Unpinning
<1>1. CASE DeleteObject(p)
  <2>1. PICK o \in Targets[p] :
          Become(p, [NoTask EXCEPT !.at = "del_get", !.obj = o])
    BY <1>1 DEF DeleteObject
  <2>2. Holds(p, [NoTask EXCEPT !.at = "del_get", !.obj = o], pins', rows')
    BY DEF Holds, NoTask
  <2> QED BY <1>1, <2>1, <2>2, StepKeepsPins DEF DeleteObject
<1>2. CASE DeleteGetMetadata(p)
  <2> DEFINE s == [t EXCEPT !.at = "del_unlink", !.old = rows[t.obj]]
  <2>1. Become(p, s) /\ UNCHANGED stores /\ t.at = "del_get"
    BY <1>2 DEF DeleteGetMetadata, GetObjectMetadata, At
  <2>2. t.obj \in Targets[p]
    BY <1>0, <2>1 DEF TaskOK, NamesObject, Handler, DeleteLabels
  <2>3. rows[t.obj] \in Contents[p] \cup {NoCid}
    BY <2>2, OwnRow
  <2>4. Holds(p, s, pins', rows')
    BY <1>0, <2>3 DEF Holds, Task
  <2> QED BY <2>1, <2>4, StepKeepsPins
<1>3. CASE DeleteNotFound(p)
  BY <1>3, FailureKeepsPins DEF DeleteNotFound
<1>4. CASE DeleteUnlink(p)
  <2> DEFINE s == [t EXCEPT !.at = "del_row"]
  <2>1. Become(p, s) /\ t.at = "del_unlink"
    BY <1>0, <1>4 DEF DeleteUnlink, UnlinkCall, At, Goto, Become
  <2>2. Holds(p, s, pins', rows')
    BY <1>0, <2>1 DEF Holds, Task
  <2> QED BY <1>4, <2>1, <2>2, StepKeepsPins DEF DeleteUnlink, StoreEffect
<1>5. CASE DeleteRow(p)
  <2> DEFINE s == [t EXCEPT !.at = "del_count"]
  <2>1. Become(p, s) /\ t.at = "del_row"
    BY <1>0, <1>5 DEF DeleteRow, DeleteCall, At, Goto, Become
  <2>2. Holds(p, s, pins', rows')
    BY <1>0, <2>1 DEF Holds, Task
  <2> QED BY <1>5, <2>1, <2>2, StepKeepsPins DEF DeleteRow, StoreEffect
<1>6. CASE DeleteCountRemaining(p)
  <2> DEFINE s == [t EXCEPT !.at = "del_unpin"]
  <2>1. UNCHANGED stores /\ t.at = "del_count"
    BY <1>6 DEF DeleteCountRemaining, At
  <2>2. CASE Referencing(t.old) = {} /\ Goto(p, "del_unpin")
    <3>1. Become(p, s)
      BY <1>0, <2>2 DEF Goto, Become
    <3>2. \A o \in Objects : rows'[o] # t.old
      BY <2>1, <2>2 DEF Referencing, stores
    <3>3. Holds(p, s, pins', rows')
      BY <1>0, <2>1, <3>2 DEF Holds, Task
    <3> QED BY <2>1, <3>1, <3>3, StepKeepsPins
  <2>3. CASE DeleteAnswer(p)
    BY <2>1, <2>3, TrimTaskHolds, StepKeepsPins DEF DeleteAnswer
  <2> QED BY <1>6, <2>2, <2>3 DEF DeleteCountRemaining
<1>7. CASE DeleteUnpin(p)
  BY <1>7, TrimTaskHolds, StepKeepsPins
  DEF DeleteUnpin, DeleteAnswer, StoreEffect
<1>8. CASE DeleteFails(p)
  BY <1>8, FailureKeepsPins DEF DeleteFails
<1> QED BY <1>1, <1>2, <1>3, <1>4, <1>5, <1>6, <1>7, <1>8

LEMMA BackgroundKeepsPins ==
  ASSUME OneOwner, PinsApart, TypeInv, PinInv, NEW p \in Requests,
         \/ TrimNextAncestor(p) \/ TrimLastAncestor(p) \/ TrimAncestorInUse(p)
         \/ TrimUnlink(p) \/ BackgroundFails(p)
  PROVE  PinInv'
<1> DEFINE t == task[p]
<1>0. t \in Task /\ Holds(p, t, pins, rows)
  BY DEF TypeInv, TypeOK, PinInv
<1> USE DEF KeepsOld, HoldsOld, Adding, Unpinning
<1>1. CASE TrimNextAncestor(p)
  <2>1. PICK d \in Shallower(t.obj, t.depth) :
          Become(p, [t EXCEPT !.depth = d, !.shallow = t.depth])
    BY <1>1 DEF TrimNextAncestor
  <2>2. Holds(p, [t EXCEPT !.depth = d, !.shallow = t.depth], pins', rows')
    BY <1>0, <1>1 DEF TrimNextAncestor, At, Holds, Task
  <2> QED BY <1>1, <2>1, <2>2, StepKeepsPins DEF TrimNextAncestor
<1>2. CASE TrimLastAncestor(p)
  <2> DEFINE s == [t EXCEPT !.at = "trim_unlink", !.depth = 0,
                            !.shallow = t.depth]
  <2>1. Holds(p, s, pins', rows')
    BY <1>0 DEF Holds, Task
  <2> QED BY <1>2, <2>1, StepKeepsPins DEF TrimLastAncestor
<1>3. CASE TrimAncestorInUse(p)
  <2> DEFINE s == [t EXCEPT !.at = "trim_unlink", !.depth = 0]
  <2>1. Holds(p, s, pins', rows') /\ Holds(p, NoTask, pins', rows')
    BY <1>0, NoTaskHolds DEF Holds, Task
  <2>2. Become(p, NoTask) \/ Become(p, s)
    BY <1>3 DEF TrimAncestorInUse
  <2> QED BY <1>3, <2>1, <2>2, StepKeepsPins DEF TrimAncestorInUse
<1>4. CASE TrimUnlink(p)
  BY <1>4, FailureKeepsPins DEF TrimUnlink, StoreEffect
<1>5. CASE BackgroundFails(p)
  BY <1>5, FailureKeepsPins DEF BackgroundFails
<1> QED BY <1>1, <1>2, <1>3, <1>4, <1>5

-----------------------------------------------------------------------------
LEMMA PinInvInit == Init => PinInv
<1> SUFFICES ASSUME Init PROVE PinInv
  OBVIOUS
<1>1. \A p \in Requests : Holds(p, task[p], pins, rows)
  BY NoTaskHolds DEF Init
<1>2. RowsOwned /\ RowsPinned
  BY DEF Init, InitDatabase, RowsOwned, RowsPinned
<1> QED BY <1>1, <1>2 DEF PinInv

LEMMA PinInvNext ==
  ASSUME OneOwner, PinsApart, TypeInv, PinInv, [Next]_vars
  PROVE  PinInv'
<1>1. ASSUME NEW p \in Requests, Ask(p) PROVE PinInv'
  BY <1>1, PutKeepsPins, DeleteKeepsPins DEF Ask
<1>2. ASSUME NEW p \in Requests, Step(p) PROVE PinInv'
  BY <1>2, PutKeepsPins, DeleteKeepsPins, BackgroundKeepsPins DEF Step
<1>3. ASSUME NEW p \in Requests, Disconnect(p) PROVE PinInv'
  BY <1>3, FailureKeepsPins DEF Disconnect
<1>4. CASE Crash
  <2>1. \A p \in Requests : Holds(p, task'[p], pins', rows')
    BY <1>4, NoTaskHolds DEF Crash
  <2> QED BY <1>4, <2>1 DEF Crash, stores, node, PinInv, RowsOwned, RowsPinned
<1>5. CASE UNCHANGED vars
  BY <1>5 DEF vars, node, PinInv, RowsOwned, RowsPinned
<1> QED BY <1>1, <1>2, <1>3, <1>4, <1>5 DEF Next

\* unpin_if_orphan never takes the pin of a content that is in the table, for
\* any number of clients with objects and contents of their own, under every
\* failure, disconnection and crash.
THEOREM RowsStayPinned ==
  ASSUME Exclusive, OwnContents
  PROVE  Spec => []RowsPinned
<1>0. OneOwner /\ PinsApart
  BY DEF Exclusive, OwnContents, OneOwner, PinsApart
<1>1. Init => PinInv
  BY PinInvInit
<1>2. TypeInv /\ PinInv /\ [Next]_vars => PinInv'
  BY <1>0, PinInvNext
<1>3. PinInv => RowsPinned
  BY DEF PinInv
<1> QED BY <1>1, <1>2, <1>3, TypeInvariant, PTL DEF Spec

-----------------------------------------------------------------------------
(***************************************************************************)
(* A deletion finds the pin of the content that it read, when nobody else  *)
(* unpins one of its contents meanwhile: unpin_if_orphan does not fail.    *)
(***************************************************************************)
Deleting == {"del_unlink", "del_row", "del_count", "del_unpin"}

DeletionsApart ==
  \A p, q \in Requests : p # q /\ Contents[p] \cap Contents[q] # {} =>
    ~(task[p].at \in Deleting /\ task[q].at \in Unpinning)

KeptInv == \A p \in Requests : task[p].at \in Deleting => task[p].old \in pins

\* Only unpin_if_orphan takes a pin.
LEMMA EffectOnPins ==
  ASSUME NEW p \in Requests, UNCHANGED stores \/ StoreEffect(p)
  PROVE  pins \subseteq pins' \/ UnpinCall(p)
<1>1. CASE UNCHANGED stores
  BY <1>1 DEF stores, node
<1>2. CASE StoreEffect(p)
  BY <1>2 DEF StoreEffect, AddCall, Add, CpCall, FilesCp, StoreCall, UnlinkCall,
              FilesRm, DeleteCall, TrimCall, node
<1> QED BY <1>1, <1>2

LEMMA StepOnPins ==
  ASSUME NEW p \in Requests, Step(p)
  PROVE  pins \subseteq pins' \/ UnpinCall(p)
<1>1. UNCHANGED stores \/ StoreEffect(p)
  BY DEF Step, PutGetMetadata, PutInvalidKey, PutAdd, PutCp, PutStore, PutFails,
         PutCountOld, PutUnpinOld, DeleteGetMetadata, DeleteNotFound, DeleteUnlink,
         DeleteRow, DeleteCountRemaining, DeleteUnpin, DeleteFails, TrimNextAncestor,
         TrimLastAncestor, TrimAncestorInUse, TrimUnlink, BackgroundFails,
         CallFails, StoreEffect
<1> QED BY <1>1, EffectOnPins

\* Nobody takes the pin that another slot's deletion has read.
LEMMA OthersKept ==
  ASSUME DeletionsApart, TypeInv, PinInv, KeptInv, NEW p \in Requests,
         pins \subseteq pins' \/ UnpinCall(p),
         NEW q \in Requests \ {p}, task[q].at \in Deleting
  PROVE  task[q].old \in pins'
<1>1. CASE UnpinCall(p)
  <2>1. task[p].at \in Unpinning /\ pins' = pins \ {task[p].old}
    BY <1>1 DEF UnpinCall, PinRm, Unpinning
  <2>2. task[p].old \in Contents[p]
    BY <2>1, NoCidAssumption
    DEF PinInv, Holds, TypeInv, TaskOK, Unpinning, KeepsOld, HoldsOld
  <2>3. task[q].old \in Contents[q]
    BY NoCidAssumption DEF PinInv, Holds, TypeInv, TaskOK, Deleting, KeepsOld, HoldsOld
  <2>4. Contents[q] \cap Contents[p] = {}
    BY <2>1 DEF DeletionsApart
  <2> QED BY <2>1, <2>2, <2>3, <2>4 DEF KeptInv
<1> QED BY <1>1 DEF KeptInv

\* A deletion begins with the row and its content, and goes on with that one.
LEMMA DeletingIs ==
  ASSUME TypeInv, NEW p \in Requests, Step(p), task'[p].at \in Deleting
  PROVE  /\ UNCHANGED pins
         /\ \/ DeleteGetMetadata(p)
            \/ task[p].at \in Deleting /\ task'[p].old = task[p].old
<1> DEFINE t == task[p]
<1>0. /\ t \in Task /\ task \in [Requests -> Task]
      /\ Deleting \cap {"idle", "put_get", "put_add", "put_cp", "put_store", "put_count",
                       "put_unpin", "trim_find", "trim_unlink"} = {}
  BY DEF TypeInv, TypeOK, Deleting
<1>1. \A s : Become(p, s) => s.at \in Deleting
  BY BecomeIs
<1>2. \A label \in Labels : Goto(p, label) => label \in Deleting /\ task'[p].old = t.old
  BY GotoIs DEF TypeInv, TypeOK, Task, Goto
<1>3. ~\/ PutInvalidKey(p) \/ PutFails(p) \/ PutUnpinOld(p) \/ DeleteNotFound(p)
       \/ DeleteFails(p) \/ TrimUnlink(p) \/ BackgroundFails(p)
  BY <1>0, <1>1, NoTaskLabel
  DEF PutInvalidKey, PutFails, PutUnpinOld, DeleteNotFound, DeleteFails, TrimUnlink,
      BackgroundFails
<1>4. ~\/ PutGetMetadata(p) \/ PutStore(p)
       \/ TrimNextAncestor(p) \/ TrimLastAncestor(p) \/ TrimAncestorInUse(p)
  <2>1. ~PutGetMetadata(p)
    <3>1. [t EXCEPT !.at = "put_add", !.old = GetObjectMetadata(t.obj)].at = "put_add"
      BY <1>0 DEF Task
    <3> QED BY <1>0, <1>1, <3>1 DEF PutGetMetadata
  <2>2. ~PutStore(p)
    <3>1. UnpinOverwritten(t.old, t.new).at \in {"idle", "put_count"}
      BY DEF UnpinOverwritten, NoTask
    <3> QED BY <1>0, <1>1, <3>1 DEF PutStore
  <2>3. ~TrimNextAncestor(p)
    <3>1. \A d : At(p, "trim_find") => [t EXCEPT !.depth = d, !.shallow = t.depth].at = "trim_find"
      BY <1>0 DEF Task, At
    <3> QED BY <1>0, <1>1, <3>1 DEF TrimNextAncestor
  <2>4. ~TrimLastAncestor(p)
    <3>1. [t EXCEPT !.at = "trim_unlink", !.depth = 0, !.shallow = t.depth].at
            = "trim_unlink"
      BY <1>0 DEF Task
    <3> QED BY <1>0, <1>1, <3>1 DEF TrimLastAncestor
  <2>5. ~TrimAncestorInUse(p)
    <3>1. [t EXCEPT !.at = "trim_unlink", !.depth = 0].at = "trim_unlink"
      BY <1>0 DEF Task
    <3> QED BY <1>0, <1>1, <3>1, NoTaskLabel DEF TrimAncestorInUse
  <2> QED BY <2>1, <2>2, <2>3, <2>4, <2>5
<1>5. ~(PutAdd(p) \/ PutCp(p) \/ PutCountOld(p))
  BY <1>0, <1>1, <1>2, NoTaskLabel
  DEF PutAdd, PutCp, PutCountOld, Labels, Handler, PutLabels, BackgroundLabels
<1>6. ~DeleteAnswer(p)
  <2>1. TrimTask(t.obj).at \in {"idle", "trim_find"}
    BY DEF TrimTask, NoTask
  <2> QED BY <1>0, <1>1, <2>1 DEF DeleteAnswer
<1>7. ~DeleteUnpin(p)
  BY <1>6 DEF DeleteUnpin
<1>8. CASE DeleteGetMetadata(p)
  BY <1>8 DEF DeleteGetMetadata, stores, node
<1>9. CASE DeleteUnlink(p) \/ DeleteRow(p)
  BY <1>2, <1>9
  DEF DeleteUnlink, UnlinkCall, FilesRm, DeleteRow, DeleteCall, At, node, Deleting,
      Labels, Handler, DeleteLabels
<1>10. CASE DeleteCountRemaining(p)
  BY <1>2, <1>6, <1>10
  DEF DeleteCountRemaining, At, stores, node, Deleting, Labels, Handler, DeleteLabels
<1> QED BY <1>3, <1>4, <1>5, <1>7, <1>8, <1>9, <1>10 DEF Step

LEMMA KeptInvNext ==
  ASSUME DeletionsApart, TypeInv, PinInv, KeptInv, [Next]_vars
  PROVE  KeptInv'
<1>1. ASSUME NEW p \in Requests, Step(p) PROVE KeptInv'
  <2>1. task'[p].at \in Deleting => task'[p].old \in pins'
    <3>1. CASE DeleteGetMetadata(p)
      <4> DEFINE s == [task[p] EXCEPT !.at = "del_unlink", !.old = rows[task[p].obj]]
      <4>1. /\ Become(p, s) /\ rows[task[p].obj] # NoCid /\ UNCHANGED pins
            /\ s.old = rows[task[p].obj] /\ task[p].obj \in Objects
        BY <3>1, RequestsAssumption
        DEF DeleteGetMetadata, GetObjectMetadata, At, stores, node, TypeInv, TypeOK,
            TaskOK, Task, NamesObject, Handler, DeleteLabels
      <4> HIDE DEF s
      <4> QED BY <4>1, BecomeIs DEF PinInv, RowsPinned
    <3> QED BY <1>1, <3>1, DeletingIs DEF KeptInv
  <2> QED BY <1>1, <2>1, StepIsOwn, StepOnPins, OthersKept DEF KeptInv
<1>2. ASSUME NEW p \in Requests, Ask(p) PROVE KeptInv'
  <2>1. CASE PutObject(p)
    <3>1. PICK o, c : Become(p, [NoTask EXCEPT !.at = "put_get", !.obj = o, !.new = c])
      BY <2>1 DEF PutObject
    <3>2. task'[p].at = "put_get" /\ \A q \in Requests \ {p} : task'[q] = task[q]
      BY <3>1 DEF Become, TypeInv, TypeOK, NoTask
    <3> QED BY <2>1, <3>2 DEF PutObject, stores, node, KeptInv, Deleting
  <2>2. CASE DeleteObject(p)
    <3>1. PICK o : Become(p, [NoTask EXCEPT !.at = "del_get", !.obj = o])
      BY <2>2 DEF DeleteObject
    <3>2. task'[p].at = "del_get" /\ \A q \in Requests \ {p} : task'[q] = task[q]
      BY <3>1 DEF Become, TypeInv, TypeOK, NoTask
    <3> QED BY <2>2, <3>2 DEF DeleteObject, stores, node, KeptInv, Deleting
  <2> QED BY <1>2, <2>1, <2>2 DEF Ask
<1>3. ASSUME NEW p \in Requests, Disconnect(p) PROVE KeptInv'
  <2>1. task'[p].at = "idle" /\ \A q \in Requests \ {p} : task'[q] = task[q]
    BY <1>3, BecomeIs, NoTaskLabel DEF Disconnect
  <2>2. pins \subseteq pins' \/ UnpinCall(p)
    BY <1>3, EffectOnPins DEF Disconnect
  <2> QED BY <2>1, <2>2, OthersKept DEF KeptInv, Deleting
<1>4. CASE Crash
  BY <1>4, NoTaskLabel DEF Crash, KeptInv, Deleting
<1>5. CASE UNCHANGED vars
  BY <1>5 DEF vars, node, KeptInv
<1> QED BY <1>1, <1>2, <1>3, <1>4, <1>5 DEF Next

-----------------------------------------------------------------------------
(***************************************************************************)
(* PinsAccounted, when every slot has its own objects, no key is a folder  *)
(* of another, and none of the failures happens that the code leaves a pin *)
(* behind after.                                                           *)
(***************************************************************************)
\* Accounts(p, c), as a predicate of the record.
Covers(t, c) ==
  \/ t.at \in {"put_cp", "put_store"} /\ t.new = c
  \/ t.at \in {"put_count", "put_unpin", "del_count", "del_unpin"} /\ t.old = c

\* The row that the handler read is still the row of the object, until the
\* handler itself changes it: the CID that loses its row is the one it
\* counts and unpins afterwards.
Current(t, R) ==
  t.at \in {"put_add", "put_cp", "put_store", "del_unlink", "del_row"} =>
    R[t.obj] = t.old

AccountInv ==
  /\ PinsAccounted
  /\ \A p \in Requests : Current(task[p], rows)

Circumstances == Exclusive /\ NoFileInTheWay /\ Undisturbed /\ NoLeakingFault

-----------------------------------------------------------------------------
\* Without a file in the way, "files cp" is never refused.
LEMMA AlwaysCanLink ==
  ASSUME NoFileInTheWay, TypeInv, NEW p \in Requests, At(p, "put_cp")
  PROVE  CanLink(NormalizedPath(task[p].obj))
<1> DEFINE path == NormalizedPath(task[p].obj)
<1>1. task[p].obj \in Targets[p]
  BY DEF TypeInv, TaskOK, At, NamesObject, Handler, PutLabels
<1>2. path \in Paths /\ FoldersOf(path) \subseteq Folders
  BY <1>1, TargetsAreObjects
<1>3. dirs \subseteq Folders
  BY DEF TypeInv, TypeOK, NodeTypeOK
<1> QED BY <1>2, <1>3 DEF CanLink, NoFileInTheWay

\* A call that fails and leaves a CID uncovered is one of an excluded kind.
LEMMA FailureUncoversNothing ==
  ASSUME Circumstances, TypeInv, NEW p \in Requests, CallFails(p), Running(p),
         NEW c \in pins, Covers(task[p], c)
  PROVE  FALSE
<1> DEFINE t == task[p]
<1>1. CASE Refused(p)
  <2>1. ~At(p, "put_cp")
    BY <1>1, AlwaysCanLink DEF Refused, Circumstances, At
  <2> QED BY <1>1, <2>1 DEF Refused, Covers, At
<1>2. CASE CallAt[t.at] \in Faulty
  <2>1. CallAt[t.at] \notin {"cp", "store", "count", "unpin"}
    BY <1>2 DEF Circumstances, NoLeakingFault
  <2> QED BY <2>1 DEF Covers, CallAt
<1> QED BY <1>1, <1>2 DEF CallFails

\* A failed call changes no row, and no pin unless it was add or unpin.
LEMMA FailureKeepsStores ==
  ASSUME Circumstances, NEW p \in Requests, CallFails(p), Running(p)
  PROVE  rows' = rows /\ pins' = pins
<1>1. CASE UNCHANGED stores
  BY <1>1 DEF stores, node
<1>2. CASE /\ CallAt[task[p].at] \in Faulty
           /\ task[p].at \in RpcLabels /\ StoreEffect(p)
  <2>1. CallAt[task[p].at] \notin {"add", "cp", "store", "count", "unpin"}
    BY <1>2 DEF Circumstances, NoLeakingFault
  <2>2. task[p].at \in {"del_unlink", "trim_unlink"}
    BY <1>2, <2>1 DEF RpcLabels, CallAt
  <2>3. UnlinkCall(p) \/ TrimCall(p)
    BY <1>2, <2>2 DEF StoreEffect, AddCall, CpCall, StoreCall, DeleteCall,
                      UnpinCall, At
  <2> QED BY <2>3 DEF UnlinkCall, TrimCall, FilesRm
<1> QED BY <1>1, <1>2 DEF CallFails

\* A step of a slot keeps the invariant when its new record reads what the
\* rows say and covers the CIDs that the step uncovers: the newly pinned, the
\* ones the slot covered, the ones that lost a row.
LEMMA StepKeepsAccount ==
  ASSUME Exclusive, TypeInv, AccountInv, NEW p \in Requests, NEW t,
         Become(p, t),
         \A o \in Objects : rows'[o] = rows[o] \/ o \in Targets[p],
         Current(t, rows'),
         \A c \in pins' :
           \/ c \notin pins
           \/ Covers(task[p], c)
           \/ \E o \in Objects : rows[o] = c /\ rows'[o] # c
           => Covers(t, c) \/ \E o \in Objects : rows'[o] = c
  PROVE  AccountInv'
<1>1. task' = [task EXCEPT ![p] = t] /\ task \in [Requests -> Task]
  BY DEF Become, TypeInv, TypeOK
<1>2. ASSUME NEW q \in Requests PROVE Current(task'[q], rows')
  <2>1. CASE q = p
    BY <1>1, <2>1
  <2>2. CASE q # p
    <3>1. task'[q] = task[q] /\ Current(task[q], rows) /\ TaskOK(q, task[q])
      BY <1>1, <2>2 DEF AccountInv, TypeInv
    <3>2. task[q].at \in NamesObject =>
            task[q].obj \in Objects /\ task[q].obj \notin Targets[p]
      BY <2>2, <3>1, RequestsAssumption DEF TaskOK, Exclusive
    <3> QED BY <3>1, <3>2
            DEF Current, NamesObject, Handler, PutLabels, DeleteLabels
  <2> QED BY <2>1, <2>2
<1>3. ASSUME NEW c \in pins'
      PROVE  Referencing(c)' # {} \/ \E q \in Requests : Covers(task'[q], c)
  <2>1. CASE Covers(t, c) \/ \E o \in Objects : rows'[o] = c
    BY <1>1, <2>1 DEF Referencing
  <2>2. CASE /\ c \in pins /\ ~Covers(task[p], c)
             /\ \A o \in Objects : rows[o] = c => rows'[o] = c
    <3>1. CASE Referencing(c) # {}
      BY <2>2, <3>1 DEF Referencing
    <3>2. CASE \E q \in Requests : Covers(task[q], c)
      BY <1>1, <2>2, <3>2
    <3> QED BY <2>2, <3>1, <3>2 DEF AccountInv, PinsAccounted, Accounts, Covers
  <2> QED BY <2>1, <2>2
<1>4. PinsAccounted'
  BY <1>3 DEF PinsAccounted, Accounts, Covers
<1> QED BY <1>2, <1>4 DEF AccountInv

\* A step that ends a slot which covers no pinned CID.
LEMMA EndKeepsAccount ==
  ASSUME Exclusive, TypeInv, AccountInv, NEW p \in Requests,
         rows' = rows, pins' = pins, Become(p, NoTask),
         \A c \in pins : ~Covers(task[p], c)
  PROVE  AccountInv'
<1>1. Current(NoTask, rows')
  BY DEF Current, NoTask
<1> QED BY <1>1, StepKeepsAccount

LEMMA FailureKeepsAccount ==
  ASSUME Circumstances, TypeInv, AccountInv, NEW p \in Requests,
         CallFails(p), Running(p), Become(p, NoTask)
  PROVE  AccountInv'
BY FailureKeepsStores, FailureUncoversNothing, EndKeepsAccount DEF Circumstances

-----------------------------------------------------------------------------
LEMMA PutKeepsAccount ==
  ASSUME Circumstances, TypeInv, AccountInv, NEW p \in Requests,
         \/ PutObject(p) \/ PutGetMetadata(p) \/ PutInvalidKey(p)
         \/ PutAdd(p) \/ PutCp(p) \/ PutStore(p) \/ PutFails(p)
         \/ PutCountOld(p) \/ PutUnpinOld(p)
  PROVE  AccountInv'
<1> DEFINE t == task[p]
<1>0. /\ Exclusive /\ TaskOK(p, t) /\ Current(t, rows)
      /\ t \in Task /\ task \in [Requests -> Task]
      /\ rows \in [Objects -> Cids \cup {NoCid}]
      /\ pins \subseteq Cids /\ NoCid \notin Cids
  BY NoCidAssumption
  DEF Circumstances, TypeInv, TypeOK, AccountInv, TaskOK, Rows, NodeTypeOK
<1> USE DEF Current, Covers
<1>1. CASE PutObject(p)
  <2>1. PICK o \in Targets[p], c \in Contents[p] :
          Become(p, [NoTask EXCEPT !.at = "put_get", !.obj = o, !.new = c])
    BY <1>1 DEF PutObject
  <2> DEFINE s == [NoTask EXCEPT !.at = "put_get", !.obj = o, !.new = c]
  <2>2. rows' = rows /\ pins' = pins /\ t.at = "idle"
    BY <1>1 DEF PutObject, MayAsk, Running, stores, node
  <2>3. Current(s, rows')
    BY DEF NoTask
  <2> QED BY <1>0, <2>1, <2>2, <2>3, StepKeepsAccount
<1>2. CASE PutGetMetadata(p)
  <2> DEFINE s == [t EXCEPT !.at = "put_add", !.old = rows[t.obj]]
  <2>1. /\ Become(p, s) /\ rows' = rows /\ pins' = pins /\ t.at = "put_get"
    BY <1>2 DEF PutGetMetadata, GetObjectMetadata, At, stores, node
  <2>2. Current(s, rows')
    BY <1>0, <2>1 DEF Task
  <2> QED BY <1>0, <2>1, <2>2, StepKeepsAccount
<1>3. CASE PutInvalidKey(p)
  <2>1. rows' = rows /\ pins' = pins /\ t.at = "put_get"
    BY <1>3 DEF PutInvalidKey, At, stores, node
  <2> QED BY <1>0, <1>3, <2>1, EndKeepsAccount DEF PutInvalidKey
<1>4. CASE PutAdd(p)
  <2> DEFINE s == [t EXCEPT !.at = "put_cp"]
  <2>1. /\ Become(p, s) /\ t.at = "put_add"
        /\ rows' = rows /\ pins' = pins \cup {t.new}
    BY <1>0, <1>4 DEF PutAdd, AddCall, Add, At, Goto, Become
  <2>2. Current(s, rows') /\ Covers(s, t.new)
    BY <1>0, <2>1 DEF Task
  <2>3. \A c \in pins' : ~Covers(t, c) /\ (c \notin pins => c = t.new)
    BY <2>1
  <2> HIDE DEF s, Covers, Current
  <2> QED BY <1>0, <2>1, <2>2, <2>3, StepKeepsAccount
<1>5. CASE PutCp(p)
  <2> DEFINE s == [t EXCEPT !.at = "put_store"]
  <2>1. /\ Become(p, s) /\ t.at = "put_cp" /\ rows' = rows /\ pins' = pins
    BY <1>0, <1>5 DEF PutCp, CpCall, FilesCp, At, Goto, Become
  <2>2. Current(s, rows') /\ Covers(s, t.new)
    BY <1>0, <2>1 DEF Task
  <2>3. \A c \in pins' : Covers(t, c) => c = t.new
    BY <2>1
  <2> HIDE DEF s, Covers, Current
  <2> QED BY <1>0, <2>1, <2>2, <2>3, StepKeepsAccount
<1>6. CASE PutStore(p)
  <2> DEFINE s == UnpinOverwritten(t.old, t.new)
  <2>1. /\ Become(p, s) /\ t.at = "put_store" /\ pins' = pins
        /\ rows' = [rows EXCEPT ![t.obj] = t.new]
    BY <1>6 DEF PutStore, StoreCall, StoreObjectMetadata, At, node
  <2>2. /\ t.obj \in Targets[p] /\ t.obj \in Objects
        /\ rows[t.obj] = t.old
    BY <1>0, <2>1, RequestsAssumption
    DEF TaskOK, NamesObject, Handler, PutLabels
  <2>3. Current(s, rows')
    BY DEF UnpinOverwritten, NoTask
  <2>4. \A o \in Objects : rows'[o] = rows[o] \/ o \in Targets[p]
    BY <1>0, <2>1, <2>2
  <2>5. rows'[t.obj] = t.new
    BY <1>0, <2>1, <2>2
  <2>6. ASSUME NEW c \in pins', NEW o \in Objects, rows[o] = c, rows'[o] # c
        PROVE  Covers(s, c)
    <3>1. c = t.old /\ t.old \notin {NoCid, t.new}
      BY <1>0, <2>1, <2>2, <2>6
    <3> QED BY <3>1 DEF UnpinOverwritten, NoTask
  <2>7. ASSUME NEW c \in pins', Covers(t, c)
        PROVE  \E o \in Objects : rows'[o] = c
    BY <2>1, <2>2, <2>5, <2>7
  <2>8. pins' = pins
    BY <2>1
  <2> HIDE DEF s, Covers, Current
  <2> QED BY <1>0, <2>1, <2>3, <2>4, <2>6, <2>7, <2>8, StepKeepsAccount
<1>7. CASE PutFails(p)
  BY <1>7, FailureKeepsAccount DEF PutFails, Running, PutLabels
<1>8. CASE PutCountOld(p)
  <2> DEFINE s == [t EXCEPT !.at = "put_unpin"]
  <2>1. rows' = rows /\ pins' = pins /\ t.at = "put_count"
    BY <1>8 DEF PutCountOld, At, stores, node
  <2>2. CASE Goto(p, "put_unpin")
    <3>1. Become(p, s)
      BY <1>0, <2>2 DEF Goto, Become
    <3>2. Current(s, rows') /\ Covers(s, t.old)
      BY <1>0, <2>1 DEF Task
    <3>3. \A c \in pins' : Covers(t, c) => c = t.old
      BY <2>1
    <3> HIDE DEF s, Covers, Current
    <3> QED BY <1>0, <2>1, <3>1, <3>2, <3>3, StepKeepsAccount
  <2>3. CASE Referencing(t.old) # {} /\ Become(p, NoTask)
    <3>1. \E o \in Objects : rows'[o] = t.old
      BY <2>1, <2>3 DEF Referencing
    <3>2. Current(NoTask, rows')
      BY DEF NoTask
    <3> QED BY <1>0, <2>1, <2>3, <3>1, <3>2, StepKeepsAccount
  <2> QED BY <1>8, <2>2, <2>3 DEF PutCountOld
<1>9. CASE PutUnpinOld(p)
  <2>1. /\ Become(p, NoTask) /\ t.at = "put_unpin"
        /\ rows' = rows /\ pins' = pins \ {t.old}
    BY <1>9 DEF PutUnpinOld, UnpinCall, PinRm, At
  <2>2. Current(NoTask, rows')
    BY DEF NoTask
  <2> QED BY <1>0, <2>1, <2>2, StepKeepsAccount
<1> QED BY <1>1, <1>2, <1>3, <1>4, <1>5, <1>6, <1>7, <1>8, <1>9

LEMMA DeleteKeepsAccount ==
  ASSUME Circumstances, TypeInv, AccountInv, NEW p \in Requests,
         \/ DeleteObject(p) \/ DeleteGetMetadata(p) \/ DeleteNotFound(p)
         \/ DeleteUnlink(p) \/ DeleteRow(p)
         \/ DeleteCountRemaining(p) \/ DeleteUnpin(p) \/ DeleteFails(p)
  PROVE  AccountInv'
<1> DEFINE t == task[p]
<1>0. /\ Exclusive /\ TaskOK(p, t) /\ Current(t, rows)
      /\ t \in Task /\ task \in [Requests -> Task]
      /\ rows \in [Objects -> Cids \cup {NoCid}]
  BY DEF Circumstances, TypeInv, TypeOK, AccountInv, TaskOK, Rows
<1> USE DEF Current, Covers
<1>1. CASE DeleteObject(p)
  <2>1. PICK o \in Targets[p] :
          Become(p, [NoTask EXCEPT !.at = "del_get", !.obj = o])
    BY <1>1 DEF DeleteObject
  <2> DEFINE s == [NoTask EXCEPT !.at = "del_get", !.obj = o]
  <2>2. rows' = rows /\ pins' = pins /\ t.at = "idle"
    BY <1>1 DEF DeleteObject, MayAsk, Running, stores, node
  <2>3. Current(s, rows')
    BY DEF NoTask
  <2> QED BY <1>0, <2>1, <2>2, <2>3, StepKeepsAccount
<1>2. CASE DeleteGetMetadata(p)
  <2> DEFINE s == [t EXCEPT !.at = "del_unlink", !.old = rows[t.obj]]
  <2>1. /\ Become(p, s) /\ rows' = rows /\ pins' = pins /\ t.at = "del_get"
    BY <1>2 DEF DeleteGetMetadata, GetObjectMetadata, At, stores, node
  <2>2. Current(s, rows')
    BY <1>0, <2>1 DEF Task
  <2> QED BY <1>0, <2>1, <2>2, StepKeepsAccount
<1>3. CASE DeleteNotFound(p)
  <2>1. rows' = rows /\ pins' = pins /\ t.at = "del_get"
    BY <1>3 DEF DeleteNotFound, At, stores, node
  <2> QED BY <1>0, <1>3, <2>1, EndKeepsAccount DEF DeleteNotFound
<1>4. CASE DeleteUnlink(p)
  <2> DEFINE s == [t EXCEPT !.at = "del_row"]
  <2>1. /\ Become(p, s) /\ t.at = "del_unlink" /\ rows' = rows /\ pins' = pins
    BY <1>0, <1>4 DEF DeleteUnlink, UnlinkCall, FilesRm, At, Goto, Become
  <2>2. Current(s, rows')
    BY <1>0, <2>1 DEF Task
  <2> QED BY <1>0, <2>1, <2>2, StepKeepsAccount
<1>5. CASE DeleteRow(p)
  <2> DEFINE s == [t EXCEPT !.at = "del_count"]
  <2>1. /\ Become(p, s) /\ t.at = "del_row" /\ pins' = pins
        /\ rows' = [rows EXCEPT ![t.obj] = NoCid]
    BY <1>0, <1>5
    DEF DeleteRow, DeleteCall, DeleteObjectRow, At, Goto, Become, node
  <2>2. t.obj \in Targets[p] /\ t.obj \in Objects /\ rows[t.obj] = t.old
    BY <1>0, <2>1, RequestsAssumption
    DEF TaskOK, NamesObject, Handler, DeleteLabels
  <2>3. Current(s, rows') /\ Covers(s, t.old)
    BY <1>0, <2>1 DEF Task
  <2>4. \A o \in Objects : rows'[o] = rows[o] \/ o = t.obj
    BY <1>0, <2>1, <2>2
  <2>5. \A o \in Objects : rows'[o] = rows[o] \/ o \in Targets[p]
    BY <2>2, <2>4
  <2>6. \A c \in pins' : ~Covers(t, c)
    BY <2>1
  <2>7. ASSUME NEW c \in pins', NEW o \in Objects, rows[o] = c, rows'[o] # c
        PROVE  Covers(s, c)
    BY <2>2, <2>3, <2>4, <2>7
  <2>8. Become(p, s) /\ pins' = pins
    BY <2>1
  <2> HIDE DEF s, Covers, Current
  <2> QED BY <1>0, <2>3, <2>5, <2>6, <2>7, <2>8, StepKeepsAccount
<1>6. CASE DeleteCountRemaining(p)
  <2> DEFINE s == [t EXCEPT !.at = "del_unpin"]
  <2>1. rows' = rows /\ pins' = pins /\ t.at = "del_count"
    BY <1>6 DEF DeleteCountRemaining, At, stores, node
  <2>2. CASE Goto(p, "del_unpin")
    <3>1. Become(p, s)
      BY <1>0, <2>2 DEF Goto, Become
    <3>2. Current(s, rows') /\ Covers(s, t.old)
      BY <1>0, <2>1 DEF Task
    <3>3. \A c \in pins' : Covers(t, c) => c = t.old
      BY <2>1
    <3> HIDE DEF s, Covers, Current
    <3> QED BY <1>0, <2>1, <3>1, <3>2, <3>3, StepKeepsAccount
  <2>3. CASE Referencing(t.old) # {} /\ DeleteAnswer(p)
    <3>1. \E o \in Objects : rows'[o] = t.old
      BY <2>1, <2>3 DEF Referencing
    <3>2. Current(TrimTask(t.obj), rows')
      BY DEF TrimTask, NoTask
    <3> QED BY <1>0, <2>1, <2>3, <3>1, <3>2, StepKeepsAccount DEF DeleteAnswer
  <2> QED BY <1>6, <2>2, <2>3 DEF DeleteCountRemaining
<1>7. CASE DeleteUnpin(p)
  <2>1. /\ Become(p, TrimTask(t.obj)) /\ t.at = "del_unpin"
        /\ rows' = rows /\ pins' = pins \ {t.old}
    BY <1>7 DEF DeleteUnpin, DeleteAnswer, UnpinCall, PinRm, At
  <2>2. Current(TrimTask(t.obj), rows')
    BY DEF TrimTask, NoTask
  <2> QED BY <1>0, <2>1, <2>2, StepKeepsAccount
<1>8. CASE DeleteFails(p)
  BY <1>8, FailureKeepsAccount DEF DeleteFails, Running, DeleteLabels
<1> QED BY <1>1, <1>2, <1>3, <1>4, <1>5, <1>6, <1>7, <1>8

LEMMA BackgroundKeepsAccount ==
  ASSUME Circumstances, TypeInv, AccountInv, NEW p \in Requests,
         \/ TrimNextAncestor(p) \/ TrimLastAncestor(p) \/ TrimAncestorInUse(p)
         \/ TrimUnlink(p) \/ BackgroundFails(p)
  PROVE  AccountInv'
<1> DEFINE t == task[p]
<1>0. Exclusive /\ t \in Task
  BY DEF Circumstances, TypeInv, TypeOK
<1> USE DEF Current, Covers
<1>1. CASE TrimNextAncestor(p)
  <2>1. PICK d \in Shallower(t.obj, t.depth) :
          Become(p, [t EXCEPT !.depth = d, !.shallow = t.depth])
    BY <1>1 DEF TrimNextAncestor
  <2> DEFINE s == [t EXCEPT !.depth = d, !.shallow = t.depth]
  <2>2. rows' = rows /\ pins' = pins /\ t.at = "trim_find"
    BY <1>1 DEF TrimNextAncestor, At, stores, node
  <2>3. Current(s, rows')
    BY <1>0, <2>2 DEF Task
  <2> QED BY <1>0, <2>1, <2>2, <2>3, StepKeepsAccount
<1>2. CASE TrimLastAncestor(p)
  <2> DEFINE s == [t EXCEPT !.at = "trim_unlink", !.depth = 0,
                            !.shallow = t.depth]
  <2>1. Become(p, s) /\ rows' = rows /\ pins' = pins /\ t.at = "trim_find"
    BY <1>2 DEF TrimLastAncestor, At, stores, node
  <2>2. Current(s, rows')
    BY <1>0 DEF Task
  <2> QED BY <1>0, <2>1, <2>2, StepKeepsAccount
<1>3. CASE TrimAncestorInUse(p)
  <2> DEFINE s == [t EXCEPT !.at = "trim_unlink", !.depth = 0]
  <2>1. rows' = rows /\ pins' = pins /\ t.at = "trim_find"
    BY <1>3 DEF TrimAncestorInUse, At, stores, node
  <2>2. Current(s, rows')
    BY <1>0 DEF Task
  <2>3. CASE Become(p, s)
    BY <1>0, <2>1, <2>2, <2>3, StepKeepsAccount
  <2>4. CASE Become(p, NoTask)
    BY <1>0, <2>1, <2>4, EndKeepsAccount
  <2> QED BY <1>3, <2>3, <2>4 DEF TrimAncestorInUse
<1>4. CASE TrimUnlink(p)
  <2>1. rows' = rows /\ pins' = pins /\ t.at = "trim_unlink"
    BY <1>4 DEF TrimUnlink, TrimCall, FilesRm, At
  <2> QED BY <1>0, <1>4, <2>1, EndKeepsAccount DEF TrimUnlink
<1>5. CASE BackgroundFails(p)
  BY <1>5, FailureKeepsAccount DEF BackgroundFails, Running, BackgroundLabels
<1> QED BY <1>1, <1>2, <1>3, <1>4, <1>5

-----------------------------------------------------------------------------
LEMMA AccountInvInit == Init => AccountInv
<1> SUFFICES ASSUME Init PROVE AccountInv
  OBVIOUS
<1>1. PinsAccounted
  BY DEF Init, InitNode, PinsAccounted
<1>2. \A p \in Requests : Current(task[p], rows)
  BY DEF Init, NoTask, Current
<1> QED BY <1>1, <1>2 DEF AccountInv

LEMMA AccountInvNext ==
  ASSUME Circumstances
  PROVE  TypeInv /\ AccountInv /\ [Next]_vars => AccountInv'
<1> SUFFICES ASSUME TypeInv, AccountInv, [Next]_vars PROVE AccountInv'
  OBVIOUS
<1>1. ASSUME NEW p \in Requests, Ask(p) PROVE AccountInv'
  BY <1>1, PutKeepsAccount, DeleteKeepsAccount DEF Ask
<1>2. ASSUME NEW p \in Requests, Step(p) PROVE AccountInv'
  BY <1>2, PutKeepsAccount, DeleteKeepsAccount, BackgroundKeepsAccount DEF Step
<1>3. ASSUME NEW p \in Requests PROVE ~Disconnect(p) /\ ~Crash
  BY DEF Circumstances, Undisturbed, Disconnect, Crash
<1>4. ~Crash
  BY DEF Circumstances, Undisturbed, Crash
<1>5. CASE UNCHANGED vars
  BY <1>5 DEF vars, node, AccountInv, PinsAccounted, Accounts, Referencing,
              Current
<1> QED BY <1>1, <1>2, <1>3, <1>4, <1>5 DEF Next

\* No pin leaks: whatever is pinned has a row, or a task that is on its way to
\* store it or to unpin it, for any number of clients that have objects of
\* their own and may share contents and folders, and with every failure of
\* get_object_metadata, delete_object, "files rm" and the trimming.
THEOREM NoPinLeaks ==
  ASSUME Exclusive, NoFileInTheWay, Undisturbed, NoLeakingFault
  PROVE  Spec => []PinsAccounted
<1>0. Circumstances
  BY DEF Circumstances
<1>1. Init => AccountInv
  BY AccountInvInit
<1>2. TypeInv /\ AccountInv /\ [Next]_vars => AccountInv'
  BY <1>0, AccountInvNext
<1>3. AccountInv => PinsAccounted
  BY DEF AccountInv
<1> QED BY <1>1, <1>2, <1>3, TypeInvariant, PTL DEF Spec

-----------------------------------------------------------------------------
(***************************************************************************)
(* LinksAccounted, when every slot has its own objects.  Neither "files    *)
(* cp" nor the upsert may fail, nor a client leave between the two: the    *)
(* code does not take the link back.                                       *)
(***************************************************************************)
LinkedOnce ==
  /\ Exclusive
  /\ Undisturbed
  /\ {"cp", "store"} \cap Faulty = {}

\* The record is about to change the row of the object.
Decides(t, o) == t.at \in {"put_store", "del_row"} /\ t.obj = o

\* LinksAccounted is not inductive: the row that accounts for a link must
\* not be about to go, while the link stays.
HasOwner(path, L, R, T) ==
  \E o \in Objects :
    /\ NormalizedPath(o) = path
    /\ \/ \E p \in Requests : /\ T[p].at = "put_store"
                              /\ T[p].obj = o
                              /\ T[p].new = L[path]
       \/ /\ R[o] = L[path]
          /\ \A p \in Requests : ~Decides(T[p], o)

LinkInv ==
  \A path \in Paths : links[path] # NoCid => HasOwner(path, links, rows, task)

\* A step that adds no link, changes no row, and neither ends an upsert nor
\* begins a change of a row.
LEMMA QuietKeepsLinks ==
  ASSUME TypeInv, LinkInv, NEW p \in Requests, NEW t, Become(p, t),
         rows' = rows, \A path \in Paths : links'[path] \in {links[path], NoCid},
         task[p].at # "put_store", t.at \notin {"put_store", "del_row"}
  PROVE  LinkInv'
<1> SUFFICES ASSUME NEW path \in Paths, links'[path] # NoCid
             PROVE  HasOwner(path, links', rows', task')
  BY DEF LinkInv
<1>1. links'[path] = links[path]
  OBVIOUS
<1>2. /\ \A q \in Requests \ {p} : task'[q] = task[q]
      /\ task'[p] = t
  BY DEF Become, TypeInv, TypeOK
<1>3. PICK o \in Objects :
        /\ NormalizedPath(o) = path
        /\ \/ \E q \in Requests : /\ task[q].at = "put_store"
                                  /\ task[q].obj = o
                                  /\ task[q].new = links[path]
           \/ /\ rows[o] = links[path]
              /\ \A q \in Requests : ~Decides(task[q], o)
  BY <1>1 DEF LinkInv, HasOwner
<1>4. \A q \in Requests : Decides(task'[q], o) => Decides(task[q], o)
  BY <1>2 DEF Decides
<1>5. CASE \E q \in Requests : /\ task[q].at = "put_store"
                               /\ task[q].obj = o
                               /\ task[q].new = links[path]
  BY <1>1, <1>2, <1>3, <1>5 DEF HasOwner
<1>6. CASE /\ rows[o] = links[path]
           /\ \A q \in Requests : ~Decides(task[q], o)
  BY <1>1, <1>3, <1>4, <1>6 DEF HasOwner
<1> QED BY <1>3, <1>5, <1>6

\* "files rm" adds no link, and takes the one it names.
LEMMA FilesRmUnlinks ==
  ASSUME TypeInv, NEW path, FilesRm(path)
  PROVE  /\ \A file \in Paths : links'[file] \in {links[file], NoCid}
         /\ \A o \in Objects : path = NormalizedPath(o) => links'[path] = NoCid
<1>1. \A file \in Paths : links'[file] = IF IsPrefix(path, file) THEN NoCid ELSE links[file]
  BY DEF FilesRm
<1>2. ASSUME NEW o \in Objects, path = NormalizedPath(o) PROVE links'[path] = NoCid
  <2>1. path \in Paths /\ IsPrefix(path, path)
    BY <1>2, PathsAreSequences DEF Paths
  <2> QED BY <1>1, <2>1
<1> QED BY <1>1, <1>2

\* A call that fails adds no link and changes no row.
LEMMA FailureKeepsLinks ==
  ASSUME LinkedOnce, TypeInv, LinkInv, NEW p \in Requests, CallFails(p),
         Running(p), Become(p, NoTask)
  PROVE  LinkInv'
<1> DEFINE t == task[p]
<1>1. t.at # "put_store"
  BY DEF CallFails, Refused, At, CallAt, LinkedOnce
<1>2. rows' = rows /\ \A path \in Paths : links'[path] \in {links[path], NoCid}
  <2>1. CASE UNCHANGED stores
    BY <2>1 DEF stores, node
  <2>2. CASE /\ CallAt[t.at] \in Faulty
             /\ t.at \in RpcLabels
             /\ StoreEffect(p)
    <3>1. t.at \in {"put_add", "del_unlink", "put_unpin", "del_unpin", "trim_unlink"}
      BY <2>2 DEF CallAt, RpcLabels, LinkedOnce
    <3>2. ~CpCall(p) /\ ~StoreCall(p) /\ ~DeleteCall(p)
      BY <3>1 DEF CpCall, StoreCall, DeleteCall, At
    <3>3. CASE AddCall(p) \/ UnpinCall(p)
      BY <3>3 DEF AddCall, UnpinCall, Add, PinRm
    <3>4. CASE UnlinkCall(p) \/ TrimCall(p)
      BY <3>4, FilesRmUnlinks DEF UnlinkCall, TrimCall
    <3> QED BY <2>2, <3>2, <3>3, <3>4 DEF StoreEffect
  <2> QED BY <2>1, <2>2 DEF CallFails
<1>3. NoTask.at = "idle"
  BY DEF NoTask
<1> QED BY <1>1, <1>2, <1>3, QuietKeepsLinks

\* The four steps that decide about a row or a link.
LEMMA CpKeepsLinks ==
  ASSUME TypeInv, LinkInv, NEW p \in Requests, PutCp(p)
  PROVE  LinkInv'
<1> DEFINE t == task[p]
           own == NormalizedPath(t.obj)
<1>1. /\ t.at = "put_cp" /\ t \in Task /\ t.obj \in Objects
      /\ task' = [task EXCEPT ![p].at = "put_store"]
      /\ rows' = rows /\ links' = [links EXCEPT ![own] = t.new]
  BY RequestsAssumption
  DEF PutCp, CpCall, FilesCp, Goto, At, TypeInv, TypeOK, TaskOK, NamesObject,
      Handler, PutLabels
<1>2. /\ \A q \in Requests \ {p} : task'[q] = task[q]
      /\ task'[p] = [t EXCEPT !.at = "put_store"]
      /\ links \in [Paths -> Cids \cup {NoCid}]
  BY <1>1 DEF TypeInv, TypeOK, NodeTypeOK
<1>3. /\ task'[p].at = "put_store"
      /\ task'[p].obj = t.obj /\ task'[p].new = t.new
  BY <1>1, <1>2 DEF Task
<1> SUFFICES ASSUME NEW path \in Paths, links'[path] # NoCid
             PROVE  HasOwner(path, links', rows', task')
  BY DEF LinkInv
<1>4. CASE path = own
  <2>1. links'[path] = t.new
    BY <1>1, <1>2, <1>4
  <2> QED BY <1>1, <1>3, <1>4, <2>1 DEF HasOwner
<1>5. CASE path # own
  <2>1. links'[path] = links[path]
    BY <1>1, <1>2, <1>5
  <2>2. PICK o \in Objects :
          /\ NormalizedPath(o) = path
          /\ \/ \E q \in Requests : /\ task[q].at = "put_store"
                                    /\ task[q].obj = o
                                    /\ task[q].new = links[path]
             \/ /\ rows[o] = links[path]
                /\ \A q \in Requests : ~Decides(task[q], o)
    BY <2>1 DEF LinkInv, HasOwner
  <2>3. o # t.obj
    BY <1>5, <2>2
  <2>4. \A q \in Requests : Decides(task'[q], o) => Decides(task[q], o)
    BY <1>2, <1>3, <2>3 DEF Decides
  <2>5. CASE \E q \in Requests : /\ task[q].at = "put_store"
                                 /\ task[q].obj = o
                                 /\ task[q].new = links[path]
    BY <1>1, <1>2, <2>1, <2>2, <2>5 DEF HasOwner
  <2>6. CASE /\ rows[o] = links[path]
             /\ \A q \in Requests : ~Decides(task[q], o)
    BY <1>1, <2>1, <2>2, <2>4, <2>6 DEF HasOwner
  <2> QED BY <2>2, <2>5, <2>6
<1> QED BY <1>4, <1>5

LEMMA DecisionKeepsLinks ==
  ASSUME Exclusive, TypeInv, LinkInv, NEW p \in Requests, PutStore(p) \/ DeleteRow(p)
  PROVE  LinkInv'
<1> DEFINE t == task[p]
<1>1. /\ t.at \in {"put_store", "del_row"} /\ t \in Task
      /\ t.obj \in Objects /\ t.obj \in Targets[p]
      /\ links' = links
      /\ rows \in [Objects -> Cids \cup {NoCid}]
      /\ task \in [Requests -> Task]
  BY RequestsAssumption
  DEF PutStore, StoreCall, DeleteRow, DeleteCall, At, node, TypeInv, TypeOK, Rows,
      TaskOK, NamesObject, Handler, PutLabels, DeleteLabels
<1>2. /\ \A o \in Objects : o # t.obj => rows'[o] = rows[o]
      /\ t.at = "put_store" => rows'[t.obj] = t.new
  BY <1>1
  DEF PutStore, StoreCall, StoreObjectMetadata, DeleteRow, DeleteCall,
      DeleteObjectRow, At
<1>3. \A q \in Requests \ {p} : task'[q] = task[q]
  BY <1>1 DEF PutStore, DeleteRow, Become, Goto
<1>4. task'[p].at \notin {"put_store", "del_row"}
  <2>1. CASE PutStore(p)
    BY <1>1, <2>1 DEF PutStore, Become, UnpinOverwritten, NoTask
  <2>2. CASE DeleteRow(p)
    BY <1>1, <2>2 DEF DeleteRow, Goto, Task
  <2> QED BY <2>1, <2>2
<1>5. \A q \in Requests \ {p} : ~Decides(task[q], t.obj)
  <2> SUFFICES ASSUME NEW q \in Requests \ {p}, Decides(task[q], t.obj) PROVE FALSE
    OBVIOUS
  <2>1. task[q].obj \in Targets[q]
    BY DEF Decides, TypeInv, TaskOK, NamesObject, Handler, PutLabels, DeleteLabels
  <2> QED BY <1>1, <2>1 DEF Decides, Exclusive
<1>6. \A o \in Objects : \A q \in Requests : Decides(task'[q], o) => Decides(task[q], o)
  BY <1>3, <1>4 DEF Decides
<1> SUFFICES ASSUME NEW path \in Paths, links'[path] # NoCid
             PROVE  HasOwner(path, links', rows', task')
  BY DEF LinkInv
<1>7. PICK o \in Objects :
        /\ NormalizedPath(o) = path
        /\ \/ \E q \in Requests : /\ task[q].at = "put_store"
                                  /\ task[q].obj = o
                                  /\ task[q].new = links[path]
           \/ /\ rows[o] = links[path]
              /\ \A q \in Requests : ~Decides(task[q], o)
  BY <1>1 DEF LinkInv, HasOwner
<1>8. CASE \E q \in Requests : /\ task[q].at = "put_store"
                               /\ task[q].obj = o
                               /\ task[q].new = links[path]
  <2>1. PICK q \in Requests : /\ task[q].at = "put_store"
                              /\ task[q].obj = o
                              /\ task[q].new = links[path]
    BY <1>8
  <2>2. CASE q = p
    <3>1. rows'[o] = links'[path]
      BY <1>1, <1>2, <2>1, <2>2
    <3>2. \A r \in Requests : ~Decides(task'[r], o)
      BY <1>3, <1>4, <1>5, <2>1, <2>2 DEF Decides
    <3> QED BY <1>7, <3>1, <3>2 DEF HasOwner
  <2>3. CASE q # p
    BY <1>1, <1>3, <1>7, <2>1, <2>3 DEF HasOwner
  <2> QED BY <2>2, <2>3
<1>9. CASE /\ rows[o] = links[path]
           /\ \A q \in Requests : ~Decides(task[q], o)
  <2>1. o # t.obj
    BY <1>1, <1>9 DEF Decides
  <2> QED BY <1>1, <1>2, <1>6, <1>7, <1>9, <2>1 DEF HasOwner
<1> QED BY <1>7, <1>8, <1>9

LEMMA UnlinkKeepsLinks ==
  ASSUME TypeInv, LinkInv, NEW p \in Requests, DeleteUnlink(p)
  PROVE  LinkInv'
<1> DEFINE t == task[p]
           own == NormalizedPath(t.obj)
<1>1. /\ t.at = "del_unlink" /\ t \in Task /\ t.obj \in Objects
      /\ task' = [task EXCEPT ![p].at = "del_row"]
      /\ rows' = rows /\ FilesRm(own)
      /\ task \in [Requests -> Task]
  BY RequestsAssumption
  DEF DeleteUnlink, UnlinkCall, Goto, At, TypeInv, TypeOK, TaskOK, NamesObject,
      Handler, DeleteLabels
<1>2. /\ \A q \in Requests \ {p} : task'[q] = task[q]
      /\ task'[p].at = "del_row" /\ task'[p].obj = t.obj
  BY <1>1 DEF Task
<1>3. /\ \A path \in Paths : links'[path] \in {links[path], NoCid}
      /\ links'[own] = NoCid
  BY <1>1, FilesRmUnlinks
<1> SUFFICES ASSUME NEW path \in Paths, links'[path] # NoCid
             PROVE  HasOwner(path, links', rows', task')
  BY DEF LinkInv
<1>4. links'[path] = links[path] /\ path # own
  BY <1>3
<1>5. PICK o \in Objects :
        /\ NormalizedPath(o) = path
        /\ \/ \E q \in Requests : /\ task[q].at = "put_store"
                                  /\ task[q].obj = o
                                  /\ task[q].new = links[path]
           \/ /\ rows[o] = links[path]
              /\ \A q \in Requests : ~Decides(task[q], o)
  BY <1>4 DEF LinkInv, HasOwner
<1>6. o # t.obj
  BY <1>4, <1>5
<1>7. \A q \in Requests : Decides(task'[q], o) => Decides(task[q], o)
  BY <1>2, <1>6 DEF Decides
<1>8. CASE \E q \in Requests : /\ task[q].at = "put_store"
                               /\ task[q].obj = o
                               /\ task[q].new = links[path]
  BY <1>1, <1>2, <1>4, <1>5, <1>8 DEF HasOwner
<1>9. CASE /\ rows[o] = links[path]
           /\ \A q \in Requests : ~Decides(task[q], o)
  BY <1>1, <1>4, <1>5, <1>7, <1>9 DEF HasOwner
<1> QED BY <1>5, <1>8, <1>9

LEMMA LinkInvInit == Init => LinkInv
BY DEF Init, InitNode, LinkInv

LEMMA LinkInvNext ==
  ASSUME LinkedOnce
  PROVE  TypeInv /\ LinkInv /\ [Next]_vars => LinkInv'
<1> SUFFICES ASSUME TypeInv, LinkInv, [Next]_vars PROVE LinkInv'
  OBVIOUS
<1>1. ASSUME NEW p \in Requests, Ask(p) \/ Step(p) PROVE LinkInv'
  <2>1. CASE \E t : Quiet(p, t)
    <3>1. PICK t : Quiet(p, t)
      BY <2>1
    <3>2. \A path \in Paths : links'[path] \in {links[path], NoCid}
      BY <3>1, FilesRmUnlinks DEF Quiet, TrimCall
    <3> QED BY <3>1, <3>2, QuietKeepsLinks DEF Quiet
  <2> QED BY <1>1, <2>1, StepIs, CpKeepsLinks, DecisionKeepsLinks, UnlinkKeepsLinks,
             FailureKeepsLinks DEF LinkedOnce
<1>2. ASSUME NEW p \in Requests PROVE ~Disconnect(p)
  BY DEF LinkedOnce, Undisturbed, Disconnect
<1>3. ~Crash
  BY DEF LinkedOnce, Undisturbed, Crash
<1>4. CASE UNCHANGED vars
  BY <1>4 DEF vars, node, LinkInv, HasOwner
<1> QED BY <1>1, <1>2, <1>3, <1>4 DEF Next

\* No link leaks: a file in the MFS is the content of a row with its path, or
\* of a PUT that is about to store its row, when no two clients name the same
\* object (two objects may share a path, and keys may be folders of keys), with
\* every failure but those of "files cp" and of the upsert.
THEOREM NoLinkLeaks ==
  ASSUME Exclusive, Undisturbed, {"cp", "store"} \cap Faulty = {}
  PROVE  Spec => []LinksAccounted
<1>0. LinkedOnce
  BY DEF LinkedOnce
<1>1. Init => LinkInv
  BY LinkInvInit
<1>2. TypeInv /\ LinkInv /\ [Next]_vars => LinkInv'
  BY <1>0, LinkInvNext
<1>3. LinkInv => LinksAccounted
  BY DEF LinkInv, HasOwner, LinksAccounted, At
<1> QED BY <1>1, <1>2, <1>3, TypeInvariant, PTL DEF Spec

=============================================================================
