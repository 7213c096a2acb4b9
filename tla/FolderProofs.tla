---------------------------- MODULE FolderProofs ----------------------------
(***************************************************************************)
(* The folders of the MFS.  Trimming removes no file of an object that is  *)
(* there (TrimSparesLive), the MFS shows what the table says (RowsLinked), *)
(* and no empty folder is left behind (TidyWhenIdle), when no other        *)
(* request writes into the folder that a trim looks at and keys mean to    *)
(* the table what they mean to the MFS.  The run trim_race shows what      *)
(* happens when a request of the same client does.                         *)
(***************************************************************************)
EXTENDS NodeProofs, SequenceTheorems

(***************************************************************************)
(* The circumstances.                                                      *)
(***************************************************************************)
\* No key has an empty segment, a "." or a "..", but those that are refused.
\* The LIKE pattern of an ancestor keeps them, the path that the trim removes
\* has lost them: after the deletion of "a//y/z" the folder "a/y" goes, with
\* "a/y/w" in it, and of "d/../x" the bucket.
PlainObjects ==
  \A o \in Objects : IsValidKey(o) => \A i \in DOMAIN o : Normal(o[i])

\* The same bucket and the same outermost folder, above which nothing is
\* trimmed.
SameFolder(o1, o2) == o1[1] = o2[1] /\ o1[2] = o2[2]

Meets(p, q) == \E o1 \in Targets[p], o2 \in Targets[q] : SameFolder(o1, o2)

\* Every client has its folders for itself.
OwnFolders == \A p, q \in Requests : p # q => ~Meets(p, q)

\* What that is needed for: of two slots that meet one handler runs at a time,
\* and a PUT waits until the other has trimmed.  A client that sends batches
\* keeps to that with all of its slots.
FoldersApart ==
  \A p, q \in Requests : p # q /\ Meets(p, q) =>
    /\ task[p].at \in PutLabels => ~Running(q)
    /\ ~(InHandler(p) /\ InHandler(q))

-----------------------------------------------------------------------------
(***************************************************************************)
(* Prefixes and plain objects.                                             *)
(***************************************************************************)
LEMMA PrefixAt ==
  ASSUME NEW S, NEW s \in Seq(S), NEW t \in Seq(S)
  PROVE  IsPrefix(s, t) <=> Len(s) <= Len(t) /\ \A i \in 1..Len(s) : s[i] = t[i]
<1>1. Len(s) \in Nat /\ Len(t) \in Nat
  OBVIOUS
<1>2. SubSeq(s, 1, Len(s)) = [i \in 1..Len(s) |-> s[i]]
  BY <1>1
<1>3. ASSUME Len(s) <= Len(t)
      PROVE  SubSeq(t, 1, Len(s)) = [i \in 1..Len(s) |-> t[i]]
  BY <1>1, <1>3
<1>4. ASSUME IsPrefix(s, t), NEW i \in 1..Len(s)
      PROVE  s[i] = t[i]
  <2>1. [j \in 1..Len(s) |-> s[j]] = [j \in 1..Len(s) |-> t[j]]
    BY <1>2, <1>3, <1>4 DEF IsPrefix
  <2>2. [j \in 1..Len(s) |-> s[j]][i] = [j \in 1..Len(s) |-> t[j]][i]
    BY <2>1
  <2> QED BY <1>4, <2>2
<1>5. ASSUME Len(s) <= Len(t), \A i \in 1..Len(s) : s[i] = t[i]
      PROVE  IsPrefix(s, t)
  BY <1>2, <1>3, <1>5 DEF IsPrefix
<1> QED BY <1>4, <1>5 DEF IsPrefix

LEMMA AncestorSeq ==
  ASSUME NEW S, NEW o \in Seq(S), NEW n \in 1..Len(o)
  PROVE  /\ SubSeq(o, 1, n) \in Seq(S)
         /\ Len(SubSeq(o, 1, n)) = n
         /\ \A i \in 1..n : SubSeq(o, 1, n)[i] = o[i]
<1>1. Len(o) \in Nat /\ n \in Nat
  OBVIOUS
<1>2. SubSeq(o, 1, n) = [i \in 1..n |-> o[i]]
  BY <1>1
<1>3. \A i \in 1..n : o[i] \in S
  BY <1>1
<1> QED BY <1>1, <1>2, <1>3

\* An ancestor leads to what agrees with it in every segment.
LEMMA AncestorPrefix ==
  ASSUME NEW o1 \in Seq(STRING), NEW o2 \in Seq(STRING), NEW n \in 1..Len(o1)
  PROVE  IsPrefix(SubSeq(o1, 1, n), o2) <=>
           n <= Len(o2) /\ \A i \in 1..n : o1[i] = o2[i]
<1> DEFINE a == SubSeq(o1, 1, n)
<1>1. a \in Seq(STRING) /\ Len(a) = n /\ \A i \in 1..n : a[i] = o1[i]
  BY AncestorSeq
<1> HIDE DEF a
<1>2. IsPrefix(a, o2) <=> Len(a) <= Len(o2) /\ \A i \in 1..Len(a) : a[i] = o2[i]
  BY <1>1, PrefixAt
<1> QED BY <1>1, <1>2 DEF a

\* A path that is normal already stays as it is.
LEMMA NormalPath ==
  ASSUME NEW s \in Seq(STRING), \A i \in DOMAIN s : Normal(s[i])
  PROVE  NormalizedPath(s) = s
<1>1. \A i \in DOMAIN s : s[i] # ".."
  BY DEF Normal
<1>2. Len(s) \in Nat /\ DOMAIN s = 1..Len(s)
  OBVIOUS
<1>3. ASSUME NEW i \in DOMAIN s, NEW j \in (i + 1)..Len(s)
      PROVE  s[j] # ".."
  <2>1. j \in DOMAIN s
    BY <1>2, <1>3
  <2> QED BY <1>1, <2>1
<1>4. Kept(s) = DOMAIN s
  BY <1>3 DEF Kept
<1> QED BY <1>4, WholeSubsequence DEF NormalizedPath

LEMMA PlainPath ==
  ASSUME PlainObjects, NEW o \in Objects, IsValidKey(o)
  PROVE  /\ o \in Seq(STRING) /\ Len(o) \in Nat /\ Len(o) > 1
         /\ NormalizedPath(o) = o
         /\ o \in Paths
         /\ \A n \in 1..Len(o) : NormalizedPath(SubSeq(o, 1, n)) = SubSeq(o, 1, n)
<1>1. o \in Seq(STRING) /\ Len(o) \in Nat /\ Len(o) > 1 /\ DOMAIN o = 1..Len(o)
  <2>1. o \in Seq(STRING) /\ Len(o) > 1
    BY ObjectsAssumption
  <2> QED BY <2>1
<1>2. \A i \in DOMAIN o : Normal(o[i])
  BY DEF PlainObjects
<1>3. NormalizedPath(o) = o
  BY <1>1, <1>2, NormalPath
<1>4. o \in Paths
  BY <1>3 DEF Paths
<1>5. ASSUME NEW n \in 1..Len(o)
      PROVE  NormalizedPath(SubSeq(o, 1, n)) = SubSeq(o, 1, n)
  <2> DEFINE a == SubSeq(o, 1, n)
  <2>1. a \in Seq(STRING) /\ Len(a) = n /\ \A i \in 1..n : a[i] = o[i]
    BY <1>1, AncestorSeq
  <2>2. DOMAIN a = 1..n
    BY <2>1
  <2>3. \A i \in 1..n : i \in DOMAIN o
    BY <1>1
  <2>4. \A i \in DOMAIN a : Normal(a[i])
    BY <1>2, <2>1, <2>2, <2>3
  <2> HIDE DEF a
  <2>5. NormalizedPath(a) = a
    BY <2>1, <2>4, NormalPath
  <2> QED BY <2>5 DEF a
<1> QED BY <1>1, <1>3, <1>4, <1>5

\* No path is a folder of another: below the path of an object is the object.
LEMMA FileIsNoFolder ==
  ASSUME PlainObjects, NoFileInTheWay, NEW o1 \in Objects, IsValidKey(o1),
         NEW o2 \in Objects, IsValidKey(o2), IsPrefix(o1, o2)
  PROVE  o1 = o2
<1>1. /\ o1 \in Seq(STRING) /\ o2 \in Seq(STRING)
      /\ Len(o1) \in Nat /\ Len(o2) \in Nat /\ Len(o1) > 1
      /\ o1 \in Paths /\ o2 \in Paths
  BY PlainPath
<1>2. Len(o1) <= Len(o2) /\ \A i \in 1..Len(o1) : o1[i] = o2[i]
  BY <1>1, PrefixAt
<1>3. CASE Len(o1) = Len(o2)
  BY <1>1, <1>2, <1>3, SeqEqual
<1>4. CASE Len(o1) < Len(o2)
  <2>1. Len(o1) \in 1..(Len(o2) - 1) /\ Len(o1) \in 1..Len(o2)
    BY <1>1, <1>4
  <2>2. SubSeq(o2, 1, Len(o1)) = o1
    <3>1. /\ SubSeq(o2, 1, Len(o1)) \in Seq(STRING)
          /\ Len(SubSeq(o2, 1, Len(o1))) = Len(o1)
          /\ \A i \in 1..Len(o1) : SubSeq(o2, 1, Len(o1))[i] = o2[i]
      BY <1>1, <2>1, AncestorSeq
    <3> QED BY <1>1, <1>2, <3>1, SeqEqual
  <2>3. o1 \in FoldersOf(o2)
    BY <2>1, <2>2 DEF FoldersOf
  <2>4. o1 \in Folders
    BY <1>1, <2>3 DEF Folders
  <2> QED BY <1>1, <2>4 DEF NoFileInTheWay
<1> QED BY <1>1, <1>2, <1>3, <1>4

-----------------------------------------------------------------------------
(***************************************************************************)
(* What a trim knows.  Nothing in the table lies under the shallowest      *)
(* ancestor that it has found removable, and nothing comes to lie there    *)
(* before it is removed.                                                   *)
(***************************************************************************)
Clear(o, n, R) ==
  \A other \in Objects : R[other] # NoCid => ~IsPrefix(SubSeq(o, 1, n), other)

\* The labels past the check of the key, and past the removal of the row.
PastCheck == {"put_add", "put_cp", "put_store", "del_unlink", "del_row",
              "del_count", "del_unpin", "trim_find", "trim_unlink"}
PastRow == {"del_count", "del_unpin", "trim_find", "trim_unlink"}

TrimOK(t, R) ==
  /\ t.at \in PastCheck => IsValidKey(t.obj)
  /\ t.at \in PastRow => R[t.obj] = NoCid
  /\ t.at = "trim_find" =>
       /\ t.depth \in 2..Len(t.obj)
       /\ \/ t.shallow = 0 /\ t.depth = Len(t.obj)
          \/ /\ t.shallow = t.depth + 1 /\ t.shallow \in 2..Len(t.obj)
             /\ Clear(t.obj, t.shallow, R)
  /\ t.at = "trim_unlink" =>
       t.shallow \in 2..Len(t.obj) /\ Clear(t.obj, t.shallow, R)

ValidRows == \A o \in Objects : rows[o] # NoCid => IsValidKey(o)

TrimInv ==
  /\ ValidRows
  /\ \A p \in Requests : TrimOK(task[p], rows)

\* When the query finds no row under an ancestor of an object without a row,
\* then nothing lies there: LIKE finds no less than what is there, and what it
\* does not find, the ancestor itself, is no other object.
LEMMA NothingFoundIsClear ==
  ASSUME PlainObjects, NoFileInTheWay, ValidRows,
         NEW o \in Objects, IsValidKey(o), rows[o] = NoCid,
         NEW n \in 2..Len(o), NoEntriesUnder(SubSeq(o, 1, n))
  PROVE  Clear(o, n, rows)
<1> DEFINE a == SubSeq(o, 1, n)
<1>1. o \in Seq(STRING) /\ Len(o) \in Nat /\ n \in 1..Len(o) /\ n \in Nat
  BY PlainPath
<1>2. /\ a \in Seq(STRING) /\ Len(a) = n /\ DOMAIN a = 1..n
      /\ \A i \in 1..n : a[i] = o[i]
  BY <1>1, AncestorSeq
<1> HIDE DEF a
<1> SUFFICES ASSUME NEW other \in Objects, rows[other] # NoCid, IsPrefix(a, other)
             PROVE  FALSE
  BY DEF Clear, a
<1>3. /\ IsValidKey(other) /\ other \in Seq(STRING) /\ Len(other) \in Nat
      /\ DOMAIN other = 1..Len(other)
  <2>1. IsValidKey(other)
    BY DEF ValidRows
  <2> QED BY <2>1, PlainPath
<1>4. n <= Len(other) /\ \A i \in 1..n : a[i] = other[i]
  BY <1>2, <1>3, PrefixAt
<1>5. CASE n < Len(other)
  <2>1. IsPrefix(a, other)
    BY <1>2, <1>3, <1>4, PrefixAt
  <2>2. a # other
    BY <1>2, <1>5
  <2>3. other[1] = a[1]
    BY <1>1, <1>4
  <2>4. IsLike(other, a)
    BY <2>1, <2>2, <2>3 DEF IsLike, IsStrictPrefix
  <2> QED BY <2>4 DEF NoEntriesUnder, a
<1>6. CASE n = Len(other)
  <2>1. other = a
    BY <1>2, <1>3, <1>4, <1>6, SeqEqual
  <2>2. CASE n = Len(o)
    <3>1. o = a
      BY <1>1, <1>2, <2>2, SeqEqual
    <3> QED BY <2>1, <3>1
  <2>3. CASE n < Len(o)
    <3>1. IsPrefix(a, o)
      BY <1>1, <1>2, <2>3, PrefixAt
    <3>2. other = o
      BY <1>3, <2>1, <3>1, FileIsNoFolder
    <3> QED BY <3>2
  <2> QED BY <1>1, <2>2, <2>3
<1>7. n < Len(other) \/ n = Len(other)
  <2> DEFINE m == Len(other)
  <2>1. n \in Nat /\ m \in Nat /\ n <= m
    BY <1>1, <1>3, <1>4
  <2> HIDE DEF m
  <2>2. n < m \/ n = m
    BY <2>1
  <2> QED BY <2>2 DEF m
<1> QED BY <1>5, <1>6, <1>7

\* The ancestors of a plain object are all its prefixes from the outermost
\* folder on.
LEMMA PlainAncestors ==
  ASSUME PlainObjects, NEW o \in Objects, IsValidKey(o), NEW depth \in 2..Len(o)
  PROVE  Shallower(o, depth) = 2..(depth - 1)
<1>1. /\ o \in Seq(STRING) /\ Len(o) \in Nat /\ Len(o) > 1
      /\ DOMAIN o = 1..Len(o)
  BY PlainPath
<1>2. \A i \in 1..Len(o) : IsComponent(o, i)
  <2>1. \A i \in DOMAIN o : Normal(o[i])
    BY DEF PlainObjects
  <2>2. \A i \in DOMAIN o : o[i] # "" /\ o[i] # "."
    BY <2>1 DEF Normal
  <2> QED BY <1>1, <2>2 DEF IsComponent
<1>3. ASSUME NEW n \in 2..(Len(o) - 1)
      PROVE  IsComponent(o, n) /\ \E m \in (n + 1)..Len(o) : IsComponent(o, m)
  <2>1. n \in 1..Len(o) /\ Len(o) \in (n + 1)..Len(o) /\ Len(o) \in 1..Len(o)
    BY <1>1
  <2> QED BY <1>2, <2>1
<1>4. AncestorDepths(o) = {Len(o)} \cup 2..(Len(o) - 1)
  BY <1>3 DEF AncestorDepths
<1>5. {Len(o)} \cup 2..(Len(o) - 1) = 2..Len(o)
  BY <1>1
<1> QED BY <1>1, <1>4, <1>5 DEF Shallower

-----------------------------------------------------------------------------
\* The calls, seen from the rows: they change none but by the upsert and the
\* deletion.
RowsMove(p) == rows' = rows \/ StoreCall(p) \/ DeleteCall(p)

LEMMA EffectMovesRows ==
  ASSUME NEW p, StoreEffect(p) \/ CallFails(p) \/ UNCHANGED stores
  PROVE  RowsMove(p)
<1>1. ASSUME StoreEffect(p) PROVE RowsMove(p)
  BY <1>1 DEF StoreEffect, AddCall, CpCall, UnlinkCall, UnpinCall, TrimCall, RowsMove
<1>2. ASSUME UNCHANGED stores PROVE RowsMove(p)
  BY <1>2 DEF stores, RowsMove
<1> QED BY <1>1, <1>2 DEF CallFails

\* A slot that stores a row meets the slot whose object it is, and the slots
\* that look at a folder above it.
LEMMA UnderIsMeeting ==
  ASSUME NEW p \in Requests, NEW o1 \in Targets[p],
         NEW q \in Requests, NEW o2 \in Targets[q],
         NEW n \in 2..Len(o1), IsPrefix(SubSeq(o1, 1, n), o2)
  PROVE  Meets(p, q)
<1>1. o1 \in Objects /\ o2 \in Objects
  BY RequestsAssumption
<1>2. o1 \in Seq(STRING) /\ o2 \in Seq(STRING) /\ Len(o1) > 1
  BY <1>1, ObjectsAssumption
<1>3. n \in 1..Len(o1)
  BY <1>2
<1>4. \A i \in 1..n : o1[i] = o2[i]
  BY <1>2, <1>3, AncestorPrefix
<1>5. 1 \in 1..n /\ 2 \in 1..n
  BY <1>3
<1> QED BY <1>4, <1>5 DEF Meets, SameFolder

LEMMA OthersKeepTrim ==
  ASSUME FoldersApart, TypeInv, TrimInv, NEW p \in Requests, NEW q \in Requests,
         p # q, RowsMove(p)
  PROVE  TrimOK(task[q], rows')
<1> DEFINE t == task[p]
           u == task[q]
<1>0. /\ TrimOK(u, rows) /\ TaskOK(p, t) /\ TaskOK(q, u)
      /\ rows \in [Objects -> Cids \cup {NoCid}]
  BY DEF TypeInv, TypeOK, TrimInv, Rows
<1>1. CASE rows' = rows
  BY <1>0, <1>1
<1>2. CASE DeleteCall(p)
  <2>1. rows' = [rows EXCEPT ![t.obj] = NoCid]
    BY <1>2 DEF DeleteCall, DeleteObjectRow
  <2>2. \A o \in Objects : rows'[o] # NoCid => rows[o] # NoCid
    BY <1>0, <2>1
  <2>3. u.at \in PastRow => u.obj \in Objects
    BY <1>0, RequestsAssumption
    DEF TaskOK, PastRow, NamesObject, Handler, DeleteLabels
  <2> QED BY <1>0, <2>2, <2>3 DEF TrimOK, Clear, PastRow
<1>3. CASE StoreCall(p)
  <2>1. rows' = [rows EXCEPT ![t.obj] = t.new] /\ t.at = "put_store"
    BY <1>3 DEF StoreCall, StoreObjectMetadata, At
  <2>2. t.obj \in Targets[p] /\ t.at \in PutLabels
    BY <1>0, <2>1 DEF TaskOK, NamesObject, Handler, PutLabels
  <2>3. u.at \in PastRow => u.obj \in Targets[q] /\ u.obj \in Objects /\ ~Meets(q, p)
    <3>1. u.at \in PastRow => Running(q)
      BY DEF PastRow, Running
    <3>2. Meets(q, p) => Meets(p, q)
      BY DEF Meets, SameFolder
    <3>3. u.at \in PastRow => u.obj \in Targets[q]
      BY <1>0 DEF TaskOK, PastRow, NamesObject, Handler, DeleteLabels
    <3> QED BY <2>2, <3>1, <3>2, <3>3, RequestsAssumption DEF FoldersApart
  <2>4. u.at \in PastRow => u.obj # t.obj
    BY <2>2, <2>3 DEF Meets, SameFolder
  <2>5. \A o \in Objects : o # t.obj => rows'[o] = rows[o]
    BY <1>0, <2>1
  <2>6. u.at \in PastRow => \A n \in 2..Len(u.obj) : ~IsPrefix(SubSeq(u.obj, 1, n), t.obj)
    BY <2>2, <2>3, UnderIsMeeting
  <2>7. ASSUME NEW n \in 2..Len(u.obj), Clear(u.obj, n, rows), u.at \in PastRow
        PROVE  Clear(u.obj, n, rows')
    BY <2>5, <2>6, <2>7 DEF Clear
  <2>8. u.at \in PastRow => rows'[u.obj] = rows[u.obj]
    BY <2>3, <2>4, <2>5
  <2> QED BY <1>0, <2>7, <2>8 DEF TrimOK, PastRow
<1> QED BY <1>1, <1>2, <1>3 DEF RowsMove

\* One slot moves, with a good record.
LEMMA StepKeepsTrim ==
  ASSUME FoldersApart, TypeInv, TrimInv, NEW p \in Requests, NEW t,
         RowsMove(p), Become(p, t), TrimOK(t, rows')
  PROVE  TrimInv'
<1>1. /\ \A q \in Requests \ {p} : task'[q] = task[q]
      /\ task'[p] = t
  BY DEF Become, TypeInv, TypeOK
<1>2. \A q \in Requests : TrimOK(task'[q], rows')
  BY <1>1, OthersKeepTrim
<1>3. ValidRows'
  <2>1. rows \in [Objects -> Cids \cup {NoCid}] /\ ValidRows
    BY DEF TypeInv, TypeOK, Rows, TrimInv
  <2>2. At(p, "put_store") => IsValidKey(task[p].obj)
    BY DEF TrimInv, TrimOK, At, PastCheck
  <2> QED BY <2>1, <2>2
          DEF RowsMove, StoreCall, DeleteCall, StoreObjectMetadata,
              DeleteObjectRow, ValidRows
<1> QED BY <1>2, <1>3 DEF TrimInv

LEMMA NoTaskTrim == \A R : TrimOK(NoTask, R)
BY DEF TrimOK, NoTask, PastCheck, PastRow

LEMMA TrimTaskTrim ==
  ASSUME PlainObjects, NEW o \in Objects, IsValidKey(o), NEW R, R[o] = NoCid
  PROVE  TrimOK(TrimTask(o), R)
<1>1. Len(o) \in 2..Len(o)
  BY PlainPath
<1> QED BY <1>1, NoTaskTrim DEF TrimTask, TrimOK, NoTask, PastCheck, PastRow

-----------------------------------------------------------------------------
LEMMA PutKeepsTrim ==
  ASSUME FoldersApart, TypeInv, TrimInv, NEW p \in Requests,
         \/ PutObject(p) \/ PutGetMetadata(p) \/ PutInvalidKey(p)
         \/ PutAdd(p) \/ PutCp(p) \/ PutStore(p) \/ PutFails(p)
         \/ PutCountOld(p) \/ PutUnpinOld(p)
  PROVE  TrimInv'
<1> DEFINE t == task[p]
           Good(s) == RowsMove(p) /\ Become(p, s) /\ TrimOK(s, rows')
<1>0. t \in Task /\ task \in [Requests -> Task] /\ TrimOK(t, rows)
  BY DEF TypeInv, TypeOK, TrimInv
<1>1. ASSUME NEW s, Good(s) PROVE TrimInv'
  BY <1>1, StepKeepsTrim
<1> HIDE DEF Good
<1>2. CASE PutObject(p)
  <2>1. PICK o \in Targets[p], c \in Contents[p] :
          Become(p, [NoTask EXCEPT !.at = "put_get", !.obj = o, !.new = c])
    BY <1>2 DEF PutObject
  <2> DEFINE s == [NoTask EXCEPT !.at = "put_get", !.obj = o, !.new = c]
  <2>2. TrimOK(s, rows')
    BY DEF TrimOK, NoTask, PastCheck, PastRow
  <2>3. RowsMove(p)
    BY <1>2, EffectMovesRows DEF PutObject
  <2> QED BY <1>1, <2>1, <2>2, <2>3 DEF Good
<1>3. CASE PutGetMetadata(p)
  <2> DEFINE s == [t EXCEPT !.at = "put_add", !.old = GetObjectMetadata(t.obj)]
  <2>1. TrimOK(s, rows')
    BY <1>0, <1>3 DEF PutGetMetadata, Task, TrimOK, PastCheck, PastRow
  <2>2. RowsMove(p)
    BY <1>3, EffectMovesRows DEF PutGetMetadata
  <2>3. Become(p, s)
    BY <1>3 DEF PutGetMetadata
  <2> QED BY <1>1, <2>1, <2>2, <2>3 DEF Good
<1>4. CASE PutInvalidKey(p) \/ PutUnpinOld(p)
  <2>1. Become(p, NoTask)
    BY <1>4 DEF PutInvalidKey, PutUnpinOld
  <2>2. RowsMove(p)
    BY <1>4, EffectMovesRows DEF PutInvalidKey, PutUnpinOld, StoreEffect
  <2> QED BY <1>1, <2>1, <2>2, NoTaskTrim DEF Good
<1>5. CASE PutAdd(p)
  <2> DEFINE s == [t EXCEPT !.at = "put_cp"]
  <2>1. Become(p, s) /\ RowsMove(p)
    BY <1>0, <1>5, EffectMovesRows DEF PutAdd, Goto, Become, StoreEffect
  <2>2. TrimOK(s, rows')
    BY <1>0, <1>5 DEF PutAdd, AddCall, At, Task, TrimOK, PastCheck, PastRow
  <2> QED BY <1>1, <2>1, <2>2 DEF Good
<1>6. CASE PutCp(p)
  <2> DEFINE s == [t EXCEPT !.at = "put_store"]
  <2>1. Become(p, s) /\ RowsMove(p)
    BY <1>0, <1>6, EffectMovesRows DEF PutCp, Goto, Become, StoreEffect
  <2>2. TrimOK(s, rows')
    BY <1>0, <1>6 DEF PutCp, CpCall, At, Task, TrimOK, PastCheck, PastRow
  <2> QED BY <1>1, <2>1, <2>2 DEF Good
<1>7. CASE PutStore(p)
  <2> DEFINE s == UnpinOverwritten(t.old, t.new)
  <2>1. Become(p, s) /\ RowsMove(p)
    BY <1>7, EffectMovesRows DEF PutStore, StoreEffect
  <2>2. TrimOK(s, rows')
    BY NoTaskTrim DEF UnpinOverwritten, NoTask, TrimOK, PastCheck, PastRow
  <2> QED BY <1>1, <2>1, <2>2 DEF Good
<1>8. CASE PutFails(p)
  BY <1>1, <1>8, EffectMovesRows, NoTaskTrim DEF PutFails, Good
<1>9. CASE PutCountOld(p)
  <2> DEFINE s == [t EXCEPT !.at = "put_unpin"]
  <2>1. (Become(p, s) \/ Become(p, NoTask)) /\ RowsMove(p)
    BY <1>0, <1>9, EffectMovesRows DEF PutCountOld, Goto, Become
  <2>2. TrimOK(s, rows')
    BY <1>0 DEF Task, TrimOK, PastCheck, PastRow
  <2> QED BY <1>1, <2>1, <2>2, NoTaskTrim DEF Good
<1> QED BY <1>2, <1>3, <1>4, <1>5, <1>6, <1>7, <1>8, <1>9

LEMMA DeleteKeepsTrim ==
  ASSUME PlainObjects, FoldersApart, TypeInv, TrimInv, NEW p \in Requests,
         \/ DeleteObject(p) \/ DeleteGetMetadata(p) \/ DeleteNotFound(p)
         \/ DeleteUnlink(p) \/ DeleteRow(p)
         \/ DeleteCountRemaining(p) \/ DeleteUnpin(p) \/ DeleteFails(p)
  PROVE  TrimInv'
<1> DEFINE t == task[p]
           Good(s) == RowsMove(p) /\ Become(p, s) /\ TrimOK(s, rows')
<1>0. /\ t \in Task /\ task \in [Requests -> Task] /\ TrimOK(t, rows)
      /\ rows \in [Objects -> Cids \cup {NoCid}] /\ ValidRows
      /\ t.at \in DeleteLabels => t.obj \in Objects
  BY RequestsAssumption
  DEF TypeInv, TypeOK, TrimInv, Rows, TaskOK, NamesObject, Handler
<1>1. ASSUME NEW s, Good(s) PROVE TrimInv'
  BY <1>1, StepKeepsTrim
<1> HIDE DEF Good
<1>2. CASE DeleteObject(p)
  <2>1. PICK o \in Targets[p] :
          Become(p, [NoTask EXCEPT !.at = "del_get", !.obj = o])
    BY <1>2 DEF DeleteObject
  <2> DEFINE s == [NoTask EXCEPT !.at = "del_get", !.obj = o]
  <2>2. TrimOK(s, rows')
    BY DEF TrimOK, NoTask, PastCheck, PastRow
  <2>3. RowsMove(p)
    BY <1>2, EffectMovesRows DEF DeleteObject
  <2> QED BY <1>1, <2>1, <2>2, <2>3 DEF Good
<1>3. CASE DeleteGetMetadata(p)
  <2> DEFINE s == [t EXCEPT !.at = "del_unlink", !.old = GetObjectMetadata(t.obj)]
  <2>1. Become(p, s) /\ RowsMove(p)
    BY <1>3, EffectMovesRows DEF DeleteGetMetadata
  <2>2. IsValidKey(t.obj)
    BY <1>0, <1>3
    DEF DeleteGetMetadata, GetObjectMetadata, At, ValidRows, DeleteLabels
  <2>3. TrimOK(s, rows')
    BY <1>0, <2>2 DEF Task, TrimOK, PastCheck, PastRow
  <2> QED BY <1>1, <2>1, <2>3 DEF Good
<1>4. CASE DeleteNotFound(p)
  BY <1>1, <1>4, EffectMovesRows, NoTaskTrim DEF DeleteNotFound, Good
<1>5. CASE DeleteUnlink(p)
  <2> DEFINE s == [t EXCEPT !.at = "del_row"]
  <2>1. Become(p, s) /\ RowsMove(p)
    BY <1>0, <1>5, EffectMovesRows DEF DeleteUnlink, Goto, Become, StoreEffect
  <2>2. TrimOK(s, rows')
    BY <1>0, <1>5 DEF DeleteUnlink, UnlinkCall, At, Task, TrimOK, PastCheck, PastRow
  <2> QED BY <1>1, <2>1, <2>2 DEF Good
<1>6. CASE DeleteRow(p)
  <2> DEFINE s == [t EXCEPT !.at = "del_count"]
  <2>1. Become(p, s) /\ RowsMove(p)
    BY <1>0, <1>6, EffectMovesRows DEF DeleteRow, Goto, Become, StoreEffect
  <2>2. t.at = "del_row" /\ rows'[t.obj] = NoCid
    BY <1>0, <1>6 DEF DeleteRow, DeleteCall, DeleteObjectRow, At, DeleteLabels
  <2>3. TrimOK(s, rows')
    BY <1>0, <2>2 DEF Task, TrimOK, PastCheck, PastRow
  <2> QED BY <1>1, <2>1, <2>3 DEF Good
<1>7. CASE DeleteCountRemaining(p)
  <2> DEFINE s == [t EXCEPT !.at = "del_unpin"]
  <2>1. Become(p, s) \/ Become(p, TrimTask(t.obj))
    BY <1>0, <1>7 DEF DeleteCountRemaining, DeleteAnswer, Goto, Become
  <2>2. t.at = "del_count" /\ rows' = rows /\ RowsMove(p)
    BY <1>7 DEF DeleteCountRemaining, At, stores, RowsMove
  <2>3. TrimOK(s, rows')
    BY <1>0, <2>2 DEF Task, TrimOK, PastCheck, PastRow
  <2>4. TrimOK(TrimTask(t.obj), rows')
    BY <1>0, <2>2, TrimTaskTrim DEF TrimOK, PastCheck, PastRow, DeleteLabels
  <2> QED BY <1>1, <2>1, <2>2, <2>3, <2>4 DEF Good
<1>8. CASE DeleteUnpin(p)
  <2>1. t.at = "del_unpin" /\ rows' = rows /\ Become(p, TrimTask(t.obj))
    BY <1>8 DEF DeleteUnpin, DeleteAnswer, UnpinCall, At
  <2>2. TrimOK(TrimTask(t.obj), rows')
    BY <1>0, <2>1, TrimTaskTrim DEF TrimOK, PastCheck, PastRow, DeleteLabels
  <2> QED BY <1>1, <2>1, <2>2 DEF Good, RowsMove
<1>9. CASE DeleteFails(p)
  BY <1>1, <1>9, EffectMovesRows, NoTaskTrim DEF DeleteFails, Good
<1> QED BY <1>2, <1>3, <1>4, <1>5, <1>6, <1>7, <1>8, <1>9

\* The search: the ancestor it goes on from is clear.
LEMMA FindKeepsTrim ==
  ASSUME PlainObjects, NoFileInTheWay, FoldersApart, TypeInv, TrimInv,
         NEW p \in Requests,
         TrimNextAncestor(p) \/ TrimLastAncestor(p) \/ TrimAncestorInUse(p)
  PROVE  TrimInv'
<1> DEFINE t == task[p]
           Good(s) == RowsMove(p) /\ Become(p, s) /\ TrimOK(s, rows')
<1>0. /\ t \in Task /\ TrimOK(t, rows) /\ ValidRows
      /\ t.at = "trim_find"
      /\ rows' = rows /\ RowsMove(p)
  BY DEF TypeInv, TypeOK, TrimInv, TrimNextAncestor, TrimLastAncestor,
         TrimAncestorInUse, At, stores, RowsMove
<1>1. /\ t.obj \in Objects /\ IsValidKey(t.obj) /\ rows[t.obj] = NoCid
      /\ t.depth \in 2..Len(t.obj) /\ Len(t.obj) \in Nat
      /\ Shallower(t.obj, t.depth) = 2..(t.depth - 1)
  <2>1. t.obj \in Objects
    BY <1>0, RequestsAssumption DEF TypeInv, TaskOK, NamesObject
  <2>2. IsValidKey(t.obj) /\ rows[t.obj] = NoCid /\ t.depth \in 2..Len(t.obj)
    BY <1>0 DEF TrimOK, PastCheck, PastRow
  <2> QED BY <2>1, <2>2, PlainPath, PlainAncestors
<1>2. ASSUME NEW s, Good(s) PROVE TrimInv'
  BY <1>2, StepKeepsTrim
<1>3. NothingUnder(p) => Clear(t.obj, t.depth, rows')
  BY <1>0, <1>1, NothingFoundIsClear DEF NothingUnder
<1> HIDE DEF Good
<1>4. CASE TrimNextAncestor(p)
  <2>1. PICK d \in Shallower(t.obj, t.depth) :
          /\ \A n \in Shallower(t.obj, t.depth) : n <= d
          /\ Become(p, [t EXCEPT !.depth = d, !.shallow = t.depth])
    BY <1>4 DEF TrimNextAncestor
  <2> DEFINE s == [t EXCEPT !.depth = d, !.shallow = t.depth]
  <2>2. d \in 2..Len(t.obj) /\ t.depth = d + 1
    <3>1. d \in 2..(t.depth - 1)
      BY <1>1, <2>1
    <3>2. t.depth - 1 \in 2..(t.depth - 1)
      BY <1>1, <3>1
    <3>3. t.depth - 1 <= d
      BY <1>1, <2>1, <3>2
    <3> QED BY <1>1, <3>1, <3>3
  <2>3. Clear(t.obj, t.depth, rows')
    BY <1>3, <1>4 DEF TrimNextAncestor
  <2>4. /\ s.at = "trim_find" /\ s.obj = t.obj
        /\ s.depth = d /\ s.shallow = t.depth
    BY <1>0 DEF Task
  <2> HIDE DEF s
  <2>5. TrimOK(s, rows')
    BY <1>0, <1>1, <2>2, <2>3, <2>4 DEF TrimOK
  <2> QED BY <1>0, <1>2, <2>1, <2>5 DEF Good, s
<1>5. CASE TrimLastAncestor(p)
  <2> DEFINE s == [t EXCEPT !.at = "trim_unlink", !.depth = 0, !.shallow = t.depth]
  <2>1. Become(p, s) /\ Clear(t.obj, t.depth, rows')
    BY <1>3, <1>5 DEF TrimLastAncestor
  <2>2. s.at = "trim_unlink" /\ s.obj = t.obj /\ s.shallow = t.depth
    BY <1>0 DEF Task
  <2> HIDE DEF s
  <2>3. TrimOK(s, rows')
    BY <1>0, <1>1, <2>1, <2>2 DEF TrimOK
  <2> QED BY <1>0, <1>2, <2>1, <2>3 DEF Good
<1>6. CASE TrimAncestorInUse(p) /\ t.shallow = 0
  BY <1>0, <1>2, <1>6, NoTaskTrim DEF TrimAncestorInUse, Good
<1>7. CASE TrimAncestorInUse(p) /\ t.shallow # 0
  <2> DEFINE s == [t EXCEPT !.at = "trim_unlink", !.depth = 0]
  <2>1. Become(p, s)
    BY <1>7 DEF TrimAncestorInUse
  <2>2. s.at = "trim_unlink" /\ s.obj = t.obj /\ s.shallow = t.shallow
    BY <1>0 DEF Task
  <2>3. t.shallow \in 2..Len(t.obj) /\ Clear(t.obj, t.shallow, rows')
    BY <1>0, <1>7 DEF TrimOK
  <2> HIDE DEF s
  <2>4. TrimOK(s, rows')
    BY <1>0, <1>1, <2>2, <2>3 DEF TrimOK
  <2> QED BY <1>0, <1>2, <2>1, <2>4 DEF Good
<1> QED BY <1>4, <1>5, <1>6, <1>7

LEMMA EndKeepsTrim ==
  ASSUME FoldersApart, TypeInv, TrimInv, NEW p \in Requests,
         TrimUnlink(p) \/ BackgroundFails(p) \/ Disconnect(p)
  PROVE  TrimInv'
<1>1. RowsMove(p)
  BY EffectMovesRows DEF TrimUnlink, BackgroundFails, Disconnect, StoreEffect
<1>2. Become(p, NoTask)
  BY DEF TrimUnlink, BackgroundFails, Disconnect
<1> QED BY <1>1, <1>2, NoTaskTrim, StepKeepsTrim

LEMMA TrimInvInit == Init => TrimInv
<1> SUFFICES ASSUME Init PROVE TrimInv
  OBVIOUS
<1>1. ValidRows
  BY DEF Init, InitDatabase, ValidRows
<1>2. \A p \in Requests : TrimOK(task[p], rows)
  BY NoTaskTrim DEF Init
<1> QED BY <1>1, <1>2 DEF TrimInv

LEMMA TrimInvNext ==
  ASSUME PlainObjects, NoFileInTheWay, FoldersApart, TypeInv, TrimInv, [Next]_vars
  PROVE  TrimInv'
<1>1. ASSUME NEW p \in Requests, Ask(p) \/ Step(p) \/ Disconnect(p) PROVE TrimInv'
  BY <1>1, PutKeepsTrim, DeleteKeepsTrim, FindKeepsTrim, EndKeepsTrim DEF Ask, Step
<1>2. CASE Crash
  <2>1. \A p \in Requests : TrimOK(task'[p], rows')
    BY <1>2, NoTaskTrim DEF Crash
  <2>2. ValidRows'
    BY <1>2 DEF Crash, stores, TrimInv, ValidRows
  <2> QED BY <2>1, <2>2 DEF TrimInv
<1>3. CASE UNCHANGED vars
  BY <1>3 DEF vars, TrimInv, ValidRows
<1> QED BY <1>1, <1>2, <1>3 DEF Next

\* What a trim removes holds no file of an object that is in the table.
LEMMA TrimSpares ==
  ASSUME PlainObjects, TypeInv, TrimInv, NEW p \in Requests, At(p, "trim_unlink")
  PROVE  /\ TrimmedPath(p) = SubSeq(task[p].obj, 1, task[p].shallow)
         /\ task[p].shallow \in 2..Len(task[p].obj)
         /\ task[p].obj \in Targets[p]
         /\ \A o \in Objects :
              rows[o] # NoCid => ~IsPrefix(TrimmedPath(p), NormalizedPath(o))
<1> DEFINE t == task[p]
<1>1. t.obj \in Targets[p] /\ t.obj \in Objects
  BY RequestsAssumption DEF TypeInv, TaskOK, At, NamesObject
<1>2. /\ IsValidKey(t.obj) /\ t.shallow \in 2..Len(t.obj)
      /\ Clear(t.obj, t.shallow, rows)
  BY DEF TrimInv, TrimOK, At, PastCheck
<1>3. t.shallow \in 1..Len(t.obj)
  BY <1>2
<1>4. TrimmedPath(p) = SubSeq(t.obj, 1, t.shallow)
  BY <1>1, <1>2, <1>3, PlainPath DEF TrimmedPath
<1>5. ASSUME NEW o \in Objects, rows[o] # NoCid PROVE NormalizedPath(o) = o
  BY <1>5, PlainPath DEF TrimInv, ValidRows
<1> QED BY <1>1, <1>2, <1>4, <1>5 DEF Clear

LEMMA OwnFoldersAreApart == OwnFolders => FoldersApart
BY DEF OwnFolders, FoldersApart

LEMMA TrimInvariant ==
  ASSUME PlainObjects, NoFileInTheWay, OwnFolders
  PROVE  Spec => []TrimInv
<1>1. FoldersApart
  BY OwnFoldersAreApart
<1>2. Init => TrimInv
  BY TrimInvInit
<1>3. TypeInv /\ TrimInv /\ [Next]_vars => TrimInv'
  BY <1>1, TrimInvNext
<1> QED BY <1>2, <1>3, TypeInvariant, PTL DEF Spec

\* A trim removes no file of an object that is in the table, when every client
\* has its folders for itself, whatever fails, disconnects or crashes: between
\* the query that found a folder empty and its removal nothing is put there.
THEOREM TrimsSpareLive ==
  ASSUME PlainObjects, NoFileInTheWay, OwnFolders
  PROVE  Spec => TrimSparesLive
<1>1. TypeInv /\ TrimInv =>
        \A p \in Requests : TrimCall(p) =>
          \A o \in Objects :
            rows[o] # NoCid => ~IsPrefix(TrimmedPath(p), NormalizedPath(o))
  BY TrimSpares DEF TrimCall
<1> QED BY <1>1, TypeInvariant, TrimInvariant, PTL DEF Spec, TrimSparesLive

-----------------------------------------------------------------------------
(***************************************************************************)
(* The MFS shows what the table says, when besides no call fails that      *)
(* changes the one without the other, and nobody leaves between them.      *)
(***************************************************************************)
LinkedWhole ==
  /\ PlainObjects /\ NoFileInTheWay
  /\ Undisturbed
  /\ {"cp", "store", "unlink", "delete"} \cap Faulty = {}

\* The link that a PUT has made is there when it stores the row.
LinkedBefore ==
  \A p \in Requests :
    At(p, "put_store") => links[NormalizedPath(task[p].obj)] = task[p].new

LinkedInv == RowsLinked /\ LinkedBefore

\* The objects whose links a step must leave alone.
Shown(p, o) ==
  \/ rows[o] # NoCid
  \/ \E q \in Requests \ {p} : At(q, "put_store") /\ task[q].obj = o

LEMMA ShownIsValid ==
  ASSUME PlainObjects, TypeInv, TrimInv, NEW p \in Requests,
         NEW o \in Objects, Shown(p, o)
  PROVE  IsValidKey(o) /\ o \in Paths /\ NormalizedPath(o) = o
<1>1. CASE rows[o] # NoCid
  BY <1>1, PlainPath DEF TrimInv, ValidRows
<1>2. CASE \E q \in Requests \ {p} : At(q, "put_store") /\ task[q].obj = o
  <2>1. IsValidKey(o)
    BY <1>2 DEF TrimInv, TrimOK, At, PastCheck
  <2> QED BY <2>1, PlainPath
<1> QED BY <1>1, <1>2 DEF Shown

\* A step that keeps the rows and every link that matters.
LEMMA QuietKeepsLinked ==
  ASSUME TypeInv, LinkedInv, NEW p \in Requests, NEW t, Become(p, t), rows' = rows,
         task[p].at \notin {"put_store", "del_row"}, t.at # "put_store",
         \A o \in Objects :
           Shown(p, o) => links'[NormalizedPath(o)] = links[NormalizedPath(o)]
  PROVE  LinkedInv'
<1>1. /\ \A q \in Requests \ {p} : task'[q] = task[q]
      /\ task'[p] = t
  BY DEF Become, TypeInv, TypeOK
<1>2. RowsLinked'
  <2> SUFFICES ASSUME NEW o \in Objects, rows[o] # NoCid
               PROVE  \/ links'[NormalizedPath(o)] = rows[o]
                      \/ \E q \in Requests : /\ task'[q].at \in {"put_store", "del_row"}
                                             /\ task'[q].obj = o
    BY DEF RowsLinked
  <2>1. links'[NormalizedPath(o)] = links[NormalizedPath(o)]
    BY DEF Shown
  <2>2. CASE links[NormalizedPath(o)] = rows[o]
    BY <2>1, <2>2
  <2>3. CASE \E q \in Requests : /\ task[q].at \in {"put_store", "del_row"}
                                 /\ task[q].obj = o
    BY <1>1, <2>3
  <2> QED BY <2>2, <2>3 DEF LinkedInv, RowsLinked
<1>3. LinkedBefore'
  <2> SUFFICES ASSUME NEW q \in Requests, task'[q].at = "put_store"
               PROVE  links'[NormalizedPath(task'[q].obj)] = task'[q].new
    BY DEF LinkedBefore, At
  <2>1. q # p /\ task'[q] = task[q] /\ At(q, "put_store")
    BY <1>1 DEF At
  <2>2. task[q].obj \in Objects
    BY <2>1, RequestsAssumption
    DEF TypeInv, TaskOK, At, NamesObject, Handler, PutLabels
  <2>3. Shown(p, task[q].obj)
    BY <2>1 DEF Shown
  <2> QED BY <2>1, <2>2, <2>3 DEF LinkedInv, LinkedBefore
<1> QED BY <1>2, <1>3 DEF LinkedInv

\* "files rm" of a folder keeps the links that do not lie under it.
LEMMA FilesRmKeeps ==
  ASSUME NEW path, FilesRm(path), NEW file \in Paths, ~IsPrefix(path, file)
  PROVE  links'[file] = links[file]
BY DEF FilesRm

LEMMA TrimKeepsLinks ==
  ASSUME PlainObjects, FoldersApart, TypeInv, TrimInv, NEW p \in Requests, TrimCall(p),
         NEW o \in Objects, Shown(p, o)
  PROVE  links'[NormalizedPath(o)] = links[NormalizedPath(o)]
<1> DEFINE t == task[p]
<1>1. /\ t.at = "trim_unlink" /\ FilesRm(TrimmedPath(p))
      /\ TrimmedPath(p) = SubSeq(t.obj, 1, t.shallow)
      /\ t.shallow \in 2..Len(t.obj) /\ t.obj \in Targets[p]
      /\ rows[o] # NoCid => ~IsPrefix(TrimmedPath(p), NormalizedPath(o))
  BY TrimSpares DEF TrimCall, At
<1>2. o \in Paths /\ NormalizedPath(o) = o
  BY ShownIsValid
<1>3. ASSUME NEW q \in Requests \ {p}, At(q, "put_store"), task[q].obj = o
      PROVE  ~IsPrefix(SubSeq(t.obj, 1, t.shallow), o)
  <2>1. o \in Targets[q] /\ task[q].at \in PutLabels
    BY <1>3 DEF TypeInv, TaskOK, At, NamesObject, Handler, PutLabels
  <2>2. Running(p)
    BY <1>1 DEF Running
  <2>3. ~Meets(q, p)
    BY <2>1, <2>2 DEF FoldersApart
  <2>4. ~Meets(p, q)
    BY <2>3 DEF Meets, SameFolder
  <2> QED BY <1>1, <2>1, <2>4, UnderIsMeeting
<1>4. ~IsPrefix(TrimmedPath(p), o)
  BY <1>1, <1>2, <1>3 DEF Shown
<1> QED BY <1>1, <1>2, <1>4, FilesRmKeeps

LEMMA FailureKeepsLinked ==
  ASSUME LinkedWhole, FoldersApart, TypeInv, TrimInv, LinkedInv,
         NEW p \in Requests, CallFails(p), Running(p), Become(p, NoTask)
  PROVE  LinkedInv'
<1> DEFINE t == task[p]
<1>1. t.at \notin {"put_store", "del_row"}
  BY DEF CallFails, Refused, At, CallAt, LinkedWhole
<1>2. /\ rows' = rows
      /\ \A o \in Objects :
           Shown(p, o) => links'[NormalizedPath(o)] = links[NormalizedPath(o)]
  <2>1. CASE UNCHANGED stores
    BY <2>1 DEF stores, node
  <2>2. CASE /\ CallAt[t.at] \in Faulty
             /\ t.at \in RpcLabels
             /\ StoreEffect(p)
    <3>1. t.at \in {"put_add", "put_unpin", "del_unpin", "trim_unlink"}
      BY <2>2 DEF CallAt, RpcLabels, LinkedWhole
    <3>2. ~CpCall(p) /\ ~StoreCall(p) /\ ~DeleteCall(p) /\ ~UnlinkCall(p)
      BY <3>1 DEF CpCall, StoreCall, DeleteCall, UnlinkCall, At
    <3>3. CASE AddCall(p) \/ UnpinCall(p)
      BY <3>3 DEF AddCall, UnpinCall, Add, PinRm
    <3>4. CASE TrimCall(p)
      BY <3>4, TrimKeepsLinks DEF TrimCall, LinkedWhole
    <3> QED BY <2>2, <3>2, <3>3, <3>4 DEF StoreEffect
  <2> QED BY <2>1, <2>2 DEF CallFails
<1>3. NoTask.at = "idle"
  BY DEF NoTask
<1> QED BY <1>1, <1>2, <1>3, QuietKeepsLinked

LEMMA CpKeepsLinked ==
  ASSUME LinkedWhole, FoldersApart, TypeInv, TrimInv, LinkedInv,
         NEW p \in Requests, PutCp(p)
  PROVE  LinkedInv'
<1> DEFINE t == task[p]
<1>1. /\ t.at = "put_cp" /\ t \in Task /\ t.obj \in Objects /\ t.obj \in Targets[p]
      /\ task' = [task EXCEPT ![p].at = "put_store"]
      /\ task \in [Requests -> Task]
      /\ rows' = rows /\ links' = [links EXCEPT ![NormalizedPath(t.obj)] = t.new]
      /\ links \in [Paths -> Cids \cup {NoCid}]
  BY RequestsAssumption
  DEF PutCp, CpCall, FilesCp, Goto, At, TypeInv, TypeOK, NodeTypeOK, TaskOK,
      NamesObject, Handler, PutLabels
<1>2. /\ \A q \in Requests \ {p} : task'[q] = task[q]
      /\ task'[p].at = "put_store"
      /\ task'[p].obj = t.obj /\ task'[p].new = t.new
  BY <1>1 DEF Task
<1>3. NormalizedPath(t.obj) = t.obj /\ t.obj \in Paths
  <2>1. IsValidKey(t.obj)
    BY <1>1 DEF TrimInv, TrimOK, PastCheck
  <2> QED BY <1>1, <2>1, PlainPath DEF LinkedWhole
<1>4. links'[t.obj] = t.new /\ \A path \in Paths : path # t.obj => links'[path] = links[path]
  BY <1>1, <1>3
<1>5. RowsLinked'
  <2> SUFFICES ASSUME NEW o \in Objects, rows[o] # NoCid
               PROVE  \/ links'[NormalizedPath(o)] = rows[o]
                      \/ \E q \in Requests : /\ task'[q].at \in {"put_store", "del_row"}
                                             /\ task'[q].obj = o
    BY <1>1 DEF RowsLinked
  <2>1. CASE o = t.obj
    BY <1>2, <2>1
  <2>2. CASE o # t.obj
    <3>1. o \in Paths /\ NormalizedPath(o) = o
      BY ShownIsValid DEF Shown, LinkedWhole
    <3>2. links'[NormalizedPath(o)] = links[NormalizedPath(o)]
      BY <1>4, <2>2, <3>1
    <3> QED BY <1>1, <1>2, <3>2 DEF LinkedInv, RowsLinked
  <2> QED BY <2>1, <2>2
<1>6. LinkedBefore'
  <2> SUFFICES ASSUME NEW q \in Requests, task'[q].at = "put_store"
               PROVE  links'[NormalizedPath(task'[q].obj)] = task'[q].new
    BY DEF LinkedBefore, At
  <2>1. CASE q = p
    BY <1>2, <1>3, <1>4, <2>1
  <2>2. CASE q # p
    <3>1. task'[q] = task[q] /\ At(q, "put_store") /\ task[q].obj \in Targets[q]
      BY <1>2, <2>2 DEF At, TypeInv, TaskOK, NamesObject, Handler, PutLabels
    <3>2. InHandler(p) /\ InHandler(q)
      BY <1>1, <3>1 DEF InHandler, Handler, PutLabels, At
    <3>3. task[q].obj # t.obj
      BY <1>1, <2>2, <3>1, <3>2 DEF FoldersApart, Meets, SameFolder
    <3>4. task[q].obj \in Objects /\ Shown(p, task[q].obj)
      BY <2>2, <3>1, RequestsAssumption DEF Shown
    <3>5. task[q].obj \in Paths /\ NormalizedPath(task[q].obj) = task[q].obj
      BY <3>4, ShownIsValid DEF LinkedWhole
    <3> QED BY <1>4, <3>1, <3>3, <3>5 DEF LinkedInv, LinkedBefore
  <2> QED BY <2>1, <2>2
<1> QED BY <1>5, <1>6 DEF LinkedInv

LEMMA DecisionKeepsLinked ==
  ASSUME TypeInv, LinkedInv, NEW p \in Requests, PutStore(p) \/ DeleteRow(p)
  PROVE  LinkedInv'
<1> DEFINE t == task[p]
<1>1. /\ t.at \in {"put_store", "del_row"} /\ t \in Task /\ t.obj \in Objects
      /\ links' = links
      /\ rows \in [Objects -> Cids \cup {NoCid}]
      /\ task \in [Requests -> Task]
  BY RequestsAssumption
  DEF PutStore, StoreCall, DeleteRow, DeleteCall, At, node, TypeInv, TypeOK, Rows,
      TaskOK, NamesObject, Handler, PutLabels, DeleteLabels
<1>2. /\ \A o \in Objects : o # t.obj => rows'[o] = rows[o]
      /\ \/ rows'[t.obj] = NoCid
         \/ rows'[t.obj] = t.new /\ t.at = "put_store"
  BY <1>1
  DEF PutStore, StoreCall, StoreObjectMetadata, DeleteRow, DeleteCall,
      DeleteObjectRow, At
<1>3. \A q \in Requests \ {p} : task'[q] = task[q]
  BY <1>1 DEF PutStore, DeleteRow, Become, Goto
<1>4. task'[p].at # "put_store"
  <2>1. CASE PutStore(p)
    BY <1>1, <2>1 DEF PutStore, Become, UnpinOverwritten, NoTask
  <2>2. CASE DeleteRow(p)
    BY <1>1, <2>2 DEF DeleteRow, Goto, Task
  <2> QED BY <2>1, <2>2
<1>5. RowsLinked'
  <2> SUFFICES ASSUME NEW o \in Objects, rows'[o] # NoCid
               PROVE  \/ links'[NormalizedPath(o)] = rows'[o]
                      \/ \E q \in Requests : /\ task'[q].at \in {"put_store", "del_row"}
                                             /\ task'[q].obj = o
    BY DEF RowsLinked
  <2>1. CASE o = t.obj
    <3>1. links[NormalizedPath(o)] = t.new
      BY <1>2, <2>1 DEF LinkedInv, LinkedBefore, At
    <3> QED BY <1>1, <1>2, <2>1, <3>1
  <2>2. CASE o # t.obj
    <3>1. rows'[o] = rows[o]
      BY <1>2, <2>2
    <3>2. CASE links[NormalizedPath(o)] = rows[o]
      BY <1>1, <3>1, <3>2
    <3>3. CASE \E q \in Requests : /\ task[q].at \in {"put_store", "del_row"}
                                   /\ task[q].obj = o
      BY <1>3, <2>2, <3>3
    <3> QED BY <3>1, <3>2, <3>3 DEF LinkedInv, RowsLinked
  <2> QED BY <2>1, <2>2
<1>6. LinkedBefore'
  BY <1>1, <1>3, <1>4 DEF LinkedInv, LinkedBefore, At
<1> QED BY <1>5, <1>6 DEF LinkedInv

LEMMA UnlinkKeepsLinked ==
  ASSUME LinkedWhole, FoldersApart, TypeInv, TrimInv, LinkedInv,
         NEW p \in Requests, DeleteUnlink(p)
  PROVE  LinkedInv'
<1> DEFINE t == task[p]
<1>1. /\ t.at = "del_unlink" /\ t \in Task /\ t.obj \in Objects /\ t.obj \in Targets[p]
      /\ task' = [task EXCEPT ![p].at = "del_row"]
      /\ task \in [Requests -> Task]
      /\ rows' = rows /\ FilesRm(NormalizedPath(t.obj))
  BY RequestsAssumption
  DEF DeleteUnlink, UnlinkCall, Goto, At, TypeInv, TypeOK, TaskOK,
      NamesObject, Handler, DeleteLabels
<1>2. /\ \A q \in Requests \ {p} : task'[q] = task[q]
      /\ task'[p].at = "del_row" /\ task'[p].obj = t.obj
  BY <1>1 DEF Task
<1>3. IsValidKey(t.obj) /\ NormalizedPath(t.obj) = t.obj
  <2>1. IsValidKey(t.obj)
    BY <1>1 DEF TrimInv, TrimOK, PastCheck
  <2> QED BY <1>1, <2>1, PlainPath DEF LinkedWhole
<1>4. ASSUME NEW o \in Objects, Shown(p, o), o # t.obj
      PROVE  links'[NormalizedPath(o)] = links[NormalizedPath(o)]
  <2>1. IsValidKey(o) /\ o \in Paths /\ NormalizedPath(o) = o
    BY <1>4, ShownIsValid DEF LinkedWhole
  <2>2. ~IsPrefix(t.obj, o)
    BY <1>1, <1>3, <1>4, <2>1, FileIsNoFolder DEF LinkedWhole
  <2> QED BY <1>1, <1>3, <2>1, <2>2, FilesRmKeeps
<1>5. RowsLinked'
  <2> SUFFICES ASSUME NEW o \in Objects, rows[o] # NoCid
               PROVE  \/ links'[NormalizedPath(o)] = rows[o]
                      \/ \E q \in Requests : /\ task'[q].at \in {"put_store", "del_row"}
                                             /\ task'[q].obj = o
    BY <1>1 DEF RowsLinked
  <2>1. CASE o = t.obj
    BY <1>2, <2>1
  <2>2. CASE o # t.obj
    <3>1. links'[NormalizedPath(o)] = links[NormalizedPath(o)]
      BY <1>4, <2>2 DEF Shown
    <3> QED BY <1>1, <1>2, <3>1 DEF LinkedInv, RowsLinked
  <2> QED BY <2>1, <2>2
<1>6. LinkedBefore'
  <2> SUFFICES ASSUME NEW q \in Requests, task'[q].at = "put_store"
               PROVE  links'[NormalizedPath(task'[q].obj)] = task'[q].new
    BY DEF LinkedBefore, At
  <2>1. q # p /\ task'[q] = task[q] /\ At(q, "put_store")
    BY <1>2 DEF At
  <2>2. task[q].obj \in Targets[q] /\ task[q].obj \in Objects
    BY <2>1, RequestsAssumption
    DEF At, TypeInv, TaskOK, NamesObject, Handler, PutLabels
  <2>3. InHandler(p) /\ InHandler(q)
    BY <1>1, <2>1 DEF InHandler, Handler, PutLabels, DeleteLabels, At
  <2>4. task[q].obj # t.obj
    BY <1>1, <2>1, <2>2, <2>3 DEF FoldersApart, Meets, SameFolder
  <2>5. Shown(p, task[q].obj)
    BY <2>1 DEF Shown
  <2> QED BY <1>4, <2>1, <2>2, <2>4, <2>5 DEF LinkedInv, LinkedBefore
<1> QED BY <1>5, <1>6 DEF LinkedInv

LEMMA LinkedInvInit == Init => LinkedInv
BY DEF Init, InitDatabase, LinkedInv, RowsLinked, LinkedBefore, At, NoTask

LEMMA LinkedInvNext ==
  ASSUME LinkedWhole, FoldersApart, TypeInv, TrimInv, LinkedInv, [Next]_vars
  PROVE  LinkedInv'
<1>1. ASSUME NEW p \in Requests, Ask(p) \/ Step(p) PROVE LinkedInv'
  <2>1. CASE \E t : Quiet(p, t)
    <3>1. PICK t : Quiet(p, t)
      BY <2>1
    <3>2. \A o \in Objects :
            Shown(p, o) => links'[NormalizedPath(o)] = links[NormalizedPath(o)]
      BY <3>1, TrimKeepsLinks DEF Quiet, LinkedWhole
    <3> QED BY <3>1, <3>2, QuietKeepsLinked DEF Quiet
  <2> QED BY <1>1, <2>1, StepIs, CpKeepsLinked, DecisionKeepsLinked,
             UnlinkKeepsLinked, FailureKeepsLinked
<1>2. ASSUME NEW p \in Requests PROVE ~Disconnect(p)
  BY DEF LinkedWhole, Undisturbed, Disconnect
<1>3. ~Crash
  BY DEF LinkedWhole, Undisturbed, Crash
<1>4. CASE UNCHANGED vars
  BY <1>4 DEF vars, node, LinkedInv, RowsLinked, LinkedBefore, At
<1> QED BY <1>1, <1>2, <1>3, <1>4 DEF Next

\* The MFS shows what the table says, but while a PUT or a deletion of the
\* object is between its two stores, when every client has its folders for
\* itself: no trim takes the link of a row.
THEOREM RowsStayLinked ==
  ASSUME PlainObjects, NoFileInTheWay, OwnFolders,
         Undisturbed, {"cp", "store", "unlink", "delete"} \cap Faulty = {}
  PROVE  Spec => []RowsLinked
<1>1. LinkedWhole /\ FoldersApart
  BY OwnFoldersAreApart DEF LinkedWhole
<1>2. Init => LinkedInv
  BY LinkedInvInit
<1>3. TypeInv /\ TrimInv /\ LinkedInv /\ [Next]_vars => LinkedInv'
  BY <1>1, LinkedInvNext
<1>4. Spec => []TrimInv
  BY TrimInvariant
<1>5. LinkedInv => RowsLinked
  BY DEF LinkedInv
<1> QED BY <1>2, <1>3, <1>4, <1>5, TypeInvariant, PTL DEF Spec

-----------------------------------------------------------------------------
(***************************************************************************)
(* Every folder below a bucket leads to an object, or a task looks after   *)
(* it: a PUT that is about to store the row, a deletion that is about to   *)
(* trim.  So nothing is left when all have come to their end, when besides *)
(* none of the calls fails on whose way the folder stays behind.           *)
(***************************************************************************)
\* LIKE finds no key but those under the ancestor: no name of a folder has a
\* "_" or a "%" that matches another's, and none differs in case alone.  The
\* search then ends at a folder that really leads to an object; otherwise
\* "a_b" stays for the sake of "acb/y".
NoStrayMatch == StrayMatches = {}

TidyWhole ==
  /\ PlainObjects /\ NoFileInTheWay /\ NoStrayMatch
  /\ TrimEmptyFolders
  /\ Undisturbed
  /\ {"cp", "store", "count", "unpin", "like", "trim"} \cap Faulty = {}

LooksAfter(t, dir) ==
  /\ IsPrefix(dir, t.obj)
  /\ \/ t.at \in {"put_store", "del_count", "del_unpin", "trim_find"}
     \/ t.at = "trim_unlink" /\ Len(dir) >= t.shallow

Looking == {"put_store", "del_count", "del_unpin", "trim_find", "trim_unlink"}

\* With a folder the folders above it are there.
DirsClosed == \A dir \in dirs : \A n \in 1..Len(dir) : SubSeq(dir, 1, n) \in dirs

TidyInv ==
  /\ DirsClosed
  /\ \A dir \in dirs : Tidy(dir) \/ \E p \in Requests : LooksAfter(task[p], dir)

LEMMA FoldersAreSequences ==
  ASSUME NEW dir \in Folders
  PROVE  dir \in Seq(STRING) /\ Len(dir) \in Nat /\ DOMAIN dir = 1..Len(dir)
<1>1. PICK path \in Paths : dir \in FoldersOf(path)
  BY DEF Folders
<1>2. path \in Seq(STRING) /\ Len(path) \in Nat
  BY PathsAreSequences DEF Paths
<1>3. PICK n \in 1..(Len(path) - 1) : dir = SubSeq(path, 1, n)
  BY <1>1 DEF FoldersOf
<1>4. n \in 1..Len(path)
  BY <1>2
<1>5. dir \in Seq(STRING)
  BY <1>2, <1>3, <1>4, AncestorSeq
<1> QED BY <1>5

\* What lies under a folder is removed with it, and all under that.
LEMMA FilesRmClosed ==
  ASSUME TypeInv, DirsClosed, NEW path \in Seq(STRING), FilesRm(path)
  PROVE  DirsClosed'
<1>1. dirs' = {dir \in dirs : ~IsPrefix(path, dir)}
  BY DEF FilesRm
<1> SUFFICES ASSUME NEW dir \in dirs, ~IsPrefix(path, dir), NEW n \in 1..Len(dir)
             PROVE  ~IsPrefix(path, SubSeq(dir, 1, n))
  BY <1>1 DEF DirsClosed
<1>2. dir \in Seq(STRING) /\ Len(dir) \in Nat
  BY FoldersAreSequences DEF TypeInv, TypeOK, NodeTypeOK
<1> DEFINE a == SubSeq(dir, 1, n)
<1>3. a \in Seq(STRING) /\ Len(a) = n /\ \A i \in 1..n : a[i] = dir[i]
  BY <1>2, AncestorSeq
<1>4. Len(path) \in Nat
  OBVIOUS
<1> HIDE DEF a
<1>5. IsPrefix(path, a) => IsPrefix(path, dir)
  <2> SUFFICES ASSUME IsPrefix(path, a) PROVE IsPrefix(path, dir)
    OBVIOUS
  <2>1. Len(path) <= n /\ \A i \in 1..Len(path) : path[i] = a[i]
    BY <1>3, PrefixAt
  <2>2. Len(path) <= Len(dir) /\ \A i \in 1..Len(path) : path[i] = dir[i]
    BY <1>2, <1>3, <1>4, <2>1
  <2> QED BY <1>2, <2>2, PrefixAt
<1> QED BY <1>5 DEF a

\* One slot moves: it looks after what it leaves untidy, what it creates, and
\* what it looked after before.
LEMMA StepKeepsTidy ==
  ASSUME TidyInv, NEW p \in Requests,
         \A q \in Requests \ {p} : task'[q] = task[q],
         DirsClosed',
         \A dir \in dirs' : dir \in dirs \/ LooksAfter(task'[p], dir),
         \A dir \in dirs' : Tidy(dir) => Tidy(dir)' \/ LooksAfter(task'[p], dir),
         \A dir \in dirs \cap dirs' :
           LooksAfter(task[p], dir) => Tidy(dir)' \/ LooksAfter(task'[p], dir)
  PROVE  TidyInv'
<1> SUFFICES ASSUME NEW dir \in dirs'
             PROVE  Tidy(dir)' \/ \E q \in Requests : LooksAfter(task'[q], dir)
  BY DEF TidyInv
<1>1. CASE dir \notin dirs \/ Tidy(dir)
  BY <1>1
<1>2. CASE \E q \in Requests : LooksAfter(task[q], dir) /\ dir \in dirs
  <2>1. PICK q \in Requests : LooksAfter(task[q], dir)
    BY <1>2
  <2>2. CASE q = p
    BY <1>2, <2>1, <2>2
  <2>3. CASE q # p
    BY <2>1, <2>3
  <2> QED BY <2>2, <2>3
<1> QED BY <1>1, <1>2 DEF TidyInv

\* The rows stay, and no folder comes.
LEMMA QuietKeepsTidy ==
  ASSUME TidyInv, NEW p \in Requests,
         \A q \in Requests \ {p} : task'[q] = task[q],
         rows' = rows, dirs' \subseteq dirs, DirsClosed',
         \A dir \in dirs' :
           LooksAfter(task[p], dir) => Tidy(dir) \/ LooksAfter(task'[p], dir)
  PROVE  TidyInv'
<1>1. \A dir : Tidy(dir)' <=> Tidy(dir)
  BY DEF Tidy
<1> QED BY <1>1, StepKeepsTidy

LEMMA SameDirsClosed == ASSUME DirsClosed, dirs' = dirs PROVE DirsClosed'
BY DEF DirsClosed

-----------------------------------------------------------------------------
\* The steps from a label at which the slot looks after nothing.
LEMMA BystanderKeepsTidy ==
  ASSUME TypeInv, TidyInv, NEW p \in Requests,
         \/ Ask(p) \/ PutGetMetadata(p) \/ PutInvalidKey(p) \/ PutAdd(p)
         \/ PutCountOld(p) \/ PutUnpinOld(p) \/ DeleteGetMetadata(p)
         \/ DeleteNotFound(p) \/ DeleteUnlink(p)
  PROVE  TidyInv'
<1>1. \A q \in Requests \ {p} : task'[q] = task[q]
  <2>1. CASE Ask(p)
    <3>1. PICK t : Become(p, t)
      BY <2>1 DEF Ask, PutObject, DeleteObject
    <3> QED BY <3>1, BecomeIs
  <2> QED BY <2>1, StepIsOwn DEF Step
<1>2. task[p].at \notin Looking
  BY DEF Ask, PutObject, DeleteObject, MayAsk, Running, PutGetMetadata, PutInvalidKey,
         PutAdd, AddCall, PutCountOld, PutUnpinOld, DeleteGetMetadata,
         DeleteNotFound, DeleteUnlink, UnlinkCall, At, Looking
<1>3. \A dir : ~LooksAfter(task[p], dir)
  BY <1>2 DEF LooksAfter, Looking
<1>4. rows' = rows
  BY DEF Ask, PutObject, DeleteObject, PutGetMetadata, PutInvalidKey, PutAdd, AddCall,
         PutCountOld, PutUnpinOld, UnpinCall, DeleteGetMetadata, DeleteNotFound,
         DeleteUnlink, UnlinkCall, stores
<1>5. dirs' \subseteq dirs /\ DirsClosed'
  <2>1. CASE DeleteUnlink(p)
    <3>1. task[p].obj \in Objects /\ FilesRm(NormalizedPath(task[p].obj))
      BY <2>1, RequestsAssumption
      DEF DeleteUnlink, UnlinkCall, At, TypeInv, TaskOK, NamesObject, Handler, DeleteLabels
    <3> QED BY <3>1, PathsAreSequences, FilesRmClosed DEF FilesRm, TidyInv
  <2>2. CASE ~DeleteUnlink(p)
    <3>1. dirs' = dirs
      BY <2>2 DEF Ask, PutObject, DeleteObject, PutGetMetadata, PutInvalidKey, PutAdd,
                  AddCall, Add, PutCountOld, PutUnpinOld, UnpinCall, PinRm,
                  DeleteGetMetadata, DeleteNotFound, stores, node
    <3> QED BY <3>1, SameDirsClosed DEF TidyInv
  <2> QED BY <2>1, <2>2
<1> QED BY <1>1, <1>3, <1>4, <1>5, QuietKeepsTidy

\* The folders above a link are its parents: the PUT looks after them.
LEMMA CpKeepsTidy ==
  ASSUME PlainObjects, TypeInv, TrimInv, TidyInv, NEW p \in Requests, PutCp(p)
  PROVE  TidyInv'
<1> DEFINE o == task[p].obj
<1>1. /\ o \in Objects /\ task[p].at = "put_cp" /\ rows' = rows
      /\ dirs' = dirs \cup FoldersOf(NormalizedPath(o))
      /\ Goto(p, "put_store")
  BY RequestsAssumption
  DEF PutCp, CpCall, FilesCp, At, TypeInv, TaskOK, NamesObject, Handler, PutLabels
<1>2. IsValidKey(o) /\ NormalizedPath(o) = o /\ o \in Seq(STRING) /\ Len(o) \in Nat
  <2>1. IsValidKey(o)
    BY <1>1 DEF TrimInv, TrimOK, PastCheck
  <2> QED BY <1>1, <2>1, PlainPath
<1>3. /\ \A q \in Requests \ {p} : task'[q] = task[q]
      /\ task'[p].at = "put_store" /\ task'[p].obj = o
  BY <1>1, GotoIs
<1> HIDE DEF o
<1>4. ASSUME NEW dir \in FoldersOf(o)
      PROVE  /\ IsPrefix(dir, o)
             /\ \A n \in 1..Len(dir) : SubSeq(dir, 1, n) \in FoldersOf(o)
  <2>1. PICK m \in 1..(Len(o) - 1) : dir = SubSeq(o, 1, m)
    BY DEF FoldersOf
  <2>2. m \in 1..Len(o) /\ m \in Nat
    BY <1>2
  <2>3. dir \in Seq(STRING) /\ Len(dir) = m /\ \A i \in 1..m : dir[i] = o[i]
    BY <1>2, <2>1, <2>2, AncestorSeq
  <2>4. IsPrefix(dir, o)
    BY <1>2, <2>2, <2>3, PrefixAt
  <2>5. ASSUME NEW n \in 1..Len(dir) PROVE SubSeq(dir, 1, n) \in FoldersOf(o)
    <3>1. n \in 1..(Len(o) - 1) /\ n \in 1..Len(o) /\ n \in 1..Len(dir) /\ n <= m
      BY <1>2, <2>2, <2>3
    <3>2. /\ SubSeq(dir, 1, n) \in Seq(STRING) /\ Len(SubSeq(dir, 1, n)) = n
          /\ \A i \in 1..n : SubSeq(dir, 1, n)[i] = dir[i]
      BY <2>3, AncestorSeq
    <3>3. /\ SubSeq(o, 1, n) \in Seq(STRING) /\ Len(SubSeq(o, 1, n)) = n
          /\ \A i \in 1..n : SubSeq(o, 1, n)[i] = o[i]
      BY <1>2, <3>1, AncestorSeq
    <3>4. SubSeq(dir, 1, n) = SubSeq(o, 1, n)
      BY <2>2, <2>3, <3>1, <3>2, <3>3, SeqEqual
    <3> QED BY <3>1, <3>4 DEF FoldersOf
  <2> QED BY <2>4, <2>5
<1>5. DirsClosed'
  BY <1>1, <1>2, <1>4 DEF TidyInv, DirsClosed
<1>6. \A dir \in FoldersOf(o) : LooksAfter(task'[p], dir)
  BY <1>3, <1>4 DEF LooksAfter
<1>7. \A dir : Tidy(dir)' <=> Tidy(dir)
  BY <1>1 DEF Tidy
<1>8. \A dir : ~LooksAfter(task[p], dir)
  BY <1>1 DEF LooksAfter
<1> QED BY <1>1, <1>2, <1>3, <1>5, <1>6, <1>7, <1>8, StepKeepsTidy

\* The row makes tidy what the PUT looked after.
LEMMA StoreKeepsTidy ==
  ASSUME PlainObjects, TypeInv, TrimInv, TidyInv, NEW p \in Requests, PutStore(p)
  PROVE  TidyInv'
<1> DEFINE o == task[p].obj
<1>1. /\ o \in Objects /\ task[p].new \in Cids /\ task[p].at = "put_store"
      /\ rows' = [rows EXCEPT ![o] = task[p].new]
      /\ dirs' = dirs
      /\ rows \in [Objects -> Cids \cup {NoCid}]
  BY RequestsAssumption
  DEF PutStore, StoreCall, StoreObjectMetadata, node, At, TypeInv, TypeOK, Rows, TaskOK,
      NamesObject, Handler, PutLabels
<1>2. IsValidKey(o) /\ NormalizedPath(o) = o
  <2>1. IsValidKey(o)
    BY <1>1 DEF TrimInv, TrimOK, PastCheck
  <2> QED BY <1>1, <2>1, PlainPath
<1>3. \A q \in Requests \ {p} : task'[q] = task[q]
  BY BecomeIs DEF PutStore
<1> HIDE DEF o
<1>4. \A other \in Objects : rows[other] # NoCid \/ other = o => rows'[other] # NoCid
  BY <1>1, NoCidAssumption
<1>5. \A dir : Tidy(dir) => Tidy(dir)'
  BY <1>4 DEF Tidy
<1>6. \A dir : LooksAfter(task[p], dir) => Tidy(dir)'
  BY <1>1, <1>2, <1>4 DEF LooksAfter, Tidy, o
<1>7. DirsClosed'
  BY <1>1, SameDirsClosed DEF TidyInv
<1> QED BY <1>1, <1>3, <1>5, <1>6, <1>7, StepKeepsTidy

\* The deletion looks after the folders of the row that it takes away.
LEMMA RowGoneKeepsTidy ==
  ASSUME PlainObjects, TypeInv, TrimInv, TidyInv, NEW p \in Requests, DeleteRow(p)
  PROVE  TidyInv'
<1> DEFINE o == task[p].obj
<1>1. /\ o \in Objects /\ task[p].at = "del_row"
      /\ rows' = [rows EXCEPT ![o] = NoCid]
      /\ dirs' = dirs
      /\ rows \in [Objects -> Cids \cup {NoCid}]
  BY RequestsAssumption
  DEF DeleteRow, DeleteCall, DeleteObjectRow, node, At, TypeInv, TypeOK, Rows, TaskOK,
      NamesObject, Handler, DeleteLabels
<1>2. IsValidKey(o) /\ NormalizedPath(o) = o
  <2>1. IsValidKey(o)
    BY <1>1 DEF TrimInv, TrimOK, PastCheck
  <2> QED BY <1>1, <2>1, PlainPath
<1>3. /\ \A q \in Requests \ {p} : task'[q] = task[q]
      /\ task'[p].at = "del_count" /\ task'[p].obj = o
  BY GotoIs DEF DeleteRow
<1> HIDE DEF o
<1>4. \A other \in Objects : rows[other] # NoCid /\ other # o => rows'[other] # NoCid
  BY <1>1
<1>5. \A dir : Tidy(dir) => Tidy(dir)' \/ LooksAfter(task'[p], dir)
  BY <1>2, <1>3, <1>4 DEF Tidy, LooksAfter
<1>6. \A dir : ~LooksAfter(task[p], dir)
  BY <1>1 DEF LooksAfter
<1>7. DirsClosed'
  BY <1>1, SameDirsClosed DEF TidyInv
<1> QED BY <1>1, <1>3, <1>5, <1>6, <1>7, StepKeepsTidy

\* It does so while it looks at the references, and leaves it to the trim.
LEMMA UnpinKeepsTidy ==
  ASSUME TrimEmptyFolders, TypeInv, TidyInv, NEW p \in Requests,
         DeleteCountRemaining(p) \/ DeleteUnpin(p)
  PROVE  TidyInv'
<1>1. rows' = rows /\ dirs' = dirs /\ task[p].at \in {"del_count", "del_unpin"}
  BY DEF DeleteCountRemaining, DeleteUnpin, UnpinCall, PinRm, stores, node, At
<1>2. /\ \A q \in Requests \ {p} : task'[q] = task[q]
      /\ task'[p].at \in {"del_unpin", "trim_find"} /\ task'[p].obj = task[p].obj
  <2>1. CASE DeleteAnswer(p)
    <3>1. Become(p, TrimTask(task[p].obj))
      BY <2>1 DEF DeleteAnswer
    <3>2. TrimTask(task[p].obj).at = "trim_find" /\ TrimTask(task[p].obj).obj = task[p].obj
      BY DEF TrimTask, NoTask
    <3> QED BY <3>1, <3>2, BecomeIs
  <2>2. CASE Goto(p, "del_unpin")
    BY <2>2, GotoIs
  <2> QED BY <2>1, <2>2 DEF DeleteCountRemaining, DeleteUnpin
<1>3. DirsClosed'
  BY <1>1, SameDirsClosed DEF TidyInv
<1>4. \A dir : LooksAfter(task[p], dir) => LooksAfter(task'[p], dir)
  BY <1>1, <1>2 DEF LooksAfter
<1> QED BY <1>1, <1>2, <1>3, <1>4, QuietKeepsTidy

\* What the query finds under an ancestor is there.
LEMMA FoundIsUnder ==
  ASSUME PlainObjects, NoStrayMatch, ValidRows, NEW o \in Objects, IsValidKey(o),
         NEW n \in 2..Len(o), ~NoEntriesUnder(SubSeq(o, 1, n)),
         NEW dir \in Seq(STRING), IsPrefix(dir, o), Len(dir) <= n
  PROVE  Tidy(dir)
<1> DEFINE a == SubSeq(o, 1, n)
<1>1. o \in Seq(STRING) /\ Len(o) \in Nat /\ DOMAIN o = 1..Len(o) /\ n \in 1..Len(o)
  BY PlainPath
<1>2. /\ a \in Seq(STRING) /\ Len(a) = n /\ DOMAIN a = 1..n
      /\ \A i \in 1..n : a[i] = o[i]
  BY <1>1, AncestorSeq
<1> HIDE DEF a
<1>3. PICK other \in Objects : rows[other] # NoCid /\ IsLike(other, a)
  BY DEF NoEntriesUnder, a
<1>4. /\ IsValidKey(other) /\ NormalizedPath(other) = other
      /\ other \in Seq(STRING) /\ Len(other) \in Nat /\ DOMAIN other = 1..Len(other)
  <2>1. IsValidKey(other)
    BY <1>3 DEF ValidRows
  <2> QED BY <2>1, PlainPath
<1>5. IsPrefix(a, other)
  BY <1>3 DEF IsLike, IsStrictPrefix, NoStrayMatch
<1>6. n <= Len(other) /\ \A i \in 1..n : a[i] = other[i]
  BY <1>2, <1>4, <1>5, PrefixAt
<1>7. IsPrefix(dir, other)
  <2>1. Len(dir) \in Nat /\ \A i \in 1..Len(dir) : dir[i] = o[i]
    BY <1>1, PrefixAt
  <2>2. Len(dir) <= Len(other) /\ \A i \in 1..Len(dir) : dir[i] = other[i]
    BY <1>1, <1>2, <1>4, <1>6, <2>1
  <2> QED BY <1>4, <2>2, PrefixAt
<1> QED BY <1>3, <1>4, <1>7 DEF Tidy

\* The search looks after all folders of the key, and ends at one that is in
\* use, or at the outermost.
LEMMA FindKeepsTidy ==
  ASSUME PlainObjects, NoStrayMatch, TypeInv, TrimInv, TidyInv, NEW p \in Requests,
         TrimNextAncestor(p) \/ TrimLastAncestor(p) \/ TrimAncestorInUse(p)
  PROVE  TidyInv'
<1> DEFINE t == task[p]
           o == task[p].obj
<1>1. /\ t.at = "trim_find" /\ t \in Task /\ o \in Objects
      /\ rows' = rows /\ dirs' = dirs
  BY RequestsAssumption
  DEF TrimNextAncestor, TrimLastAncestor, TrimAncestorInUse, stores, node, At,
      TypeInv, TypeOK, TaskOK, NamesObject
<1>2. /\ IsValidKey(o) /\ t.depth \in 2..Len(o) /\ o \in Seq(STRING) /\ Len(o) \in Nat
      /\ (t.shallow = 0 /\ t.depth = Len(o)) \/ t.shallow = t.depth + 1
      /\ Shallower(o, t.depth) = 2..(t.depth - 1)
  <2>1. IsValidKey(o) /\ t.depth \in 2..Len(o)
    BY <1>1 DEF TrimInv, TrimOK, PastCheck
  <2>2. (t.shallow = 0 /\ t.depth = Len(o)) \/ t.shallow = t.depth + 1
    BY <1>1 DEF TrimInv, TrimOK
  <2> QED BY <1>1, <2>1, <2>2, PlainPath, PlainAncestors
<1>3. \A q \in Requests \ {p} : task'[q] = task[q]
  BY StepIsOwn DEF Step
<1>4. DirsClosed'
  BY <1>1, SameDirsClosed DEF TidyInv
<1> SUFFICES ASSUME NEW dir \in dirs, LooksAfter(t, dir)
             PROVE  Tidy(dir) \/ LooksAfter(task'[p], dir)
  BY <1>1, <1>3, <1>4, QuietKeepsTidy
<1>5. /\ dir \in Seq(STRING) /\ Len(dir) \in Nat /\ IsPrefix(dir, o)
      /\ Len(dir) <= Len(o)
  <2>1. dir \in Seq(STRING) /\ Len(dir) \in Nat /\ IsPrefix(dir, o)
    BY FoldersAreSequences DEF TypeInv, TypeOK, NodeTypeOK, LooksAfter
  <2> QED BY <1>2, <2>1, PrefixAt
<1>6. CASE TrimNextAncestor(p)
  <2>1. PICK d \in Shallower(o, t.depth) :
          Become(p, [t EXCEPT !.depth = d, !.shallow = t.depth])
    BY <1>6 DEF TrimNextAncestor
  <2> DEFINE s == [t EXCEPT !.depth = d, !.shallow = t.depth]
  <2>2. s.at = "trim_find" /\ s.obj = o
    BY <1>1 DEF Task
  <2> HIDE DEF s
  <2>3. task'[p] = s
    BY <2>1, BecomeIs DEF s
  <2> QED BY <1>5, <2>2, <2>3 DEF LooksAfter
<1>7. CASE TrimLastAncestor(p)
  <2> DEFINE s == [t EXCEPT !.at = "trim_unlink", !.depth = 0, !.shallow = t.depth]
  <2>1. Become(p, s) /\ Shallower(o, t.depth) = {}
    BY <1>7 DEF TrimLastAncestor
  <2>2. s.at = "trim_unlink" /\ s.obj = o /\ s.shallow = t.depth
    BY <1>1 DEF Task
  <2> HIDE DEF s
  <2>3. task'[p] = s
    BY <2>1, BecomeIs
  <2>4. t.depth = 2
    <3> DEFINE m == t.depth
    <3>1. m \in 2..Len(o) /\ 2..(m - 1) = {} /\ Len(o) \in Nat
      BY <1>2, <2>1
    <3> HIDE DEF m, o
    <3>2. m \in Int /\ m >= 2
      BY <3>1
    <3>3. m > 2 => 2 \in 2..(m - 1)
      BY <3>2
    <3>4. m = 2
      BY <3>1, <3>2, <3>3
    <3> QED BY <3>4 DEF m
  <2>5. Len(dir) >= 2 \/ Tidy(dir)
    BY <1>5 DEF Tidy
  <2> QED BY <1>5, <2>2, <2>3, <2>4, <2>5 DEF LooksAfter
<1>8. CASE TrimAncestorInUse(p)
  <2> DEFINE n == t.depth
             s == [t EXCEPT !.at = "trim_unlink", !.depth = 0]
  <2>1. CASE Len(dir) <= t.depth
    <3>1. ~NoEntriesUnder(SubSeq(o, 1, n)) /\ n \in 2..Len(o) /\ Len(dir) <= n
      BY <1>2, <1>8, <2>1 DEF TrimAncestorInUse, NothingUnder
    <3>2. ValidRows
      BY DEF TrimInv
    <3> HIDE DEF n, o
    <3>3. Tidy(dir)
      BY <1>1, <1>2, <1>5, <3>1, <3>2, FoundIsUnder
    <3> QED BY <3>3
  <2>2. CASE Len(dir) > t.depth
    <3>1. t.shallow = t.depth + 1 /\ t.shallow # 0
      BY <1>2, <1>5, <2>2
    <3>2. Become(p, s)
      BY <1>8, <3>1 DEF TrimAncestorInUse
    <3>3. s.at = "trim_unlink" /\ s.obj = o /\ s.shallow = t.shallow
      BY <1>1 DEF Task
    <3> HIDE DEF s
    <3>4. task'[p] = s
      BY <3>2, BecomeIs
    <3>5. Len(dir) >= t.shallow
      BY <1>2, <1>5, <2>2, <3>1
    <3> QED BY <1>5, <3>3, <3>4, <3>5 DEF LooksAfter
  <2> QED BY <1>2, <1>5, <2>1, <2>2
<1> QED BY <1>6, <1>7, <1>8

\* What a trim looks after is what it removes.
LEMMA LookedAfterIsUnder ==
  ASSUME PlainObjects, TypeInv, TrimInv, NEW p \in Requests, At(p, "trim_unlink"),
         NEW dir \in dirs, LooksAfter(task[p], dir)
  PROVE  /\ TrimmedPath(p) \in Seq(STRING)
         /\ IsPrefix(TrimmedPath(p), dir)
         /\ \E n \in 1..Len(dir) : TrimmedPath(p) = SubSeq(dir, 1, n)
<1> DEFINE o == task[p].obj
           n == task[p].shallow
           a == SubSeq(o, 1, n)
<1>1. TrimmedPath(p) = a /\ n \in 2..Len(o) /\ o \in Objects
  BY TrimSpares, RequestsAssumption
<1>2. o \in Seq(STRING) /\ Len(o) \in Nat
  <2>1. o \in Seq(STRING)
    BY <1>1, ObjectsAssumption
  <2> QED BY <2>1
<1>3. dir \in Seq(STRING) /\ Len(dir) \in Nat
  BY FoldersAreSequences DEF TypeInv, TypeOK, NodeTypeOK
<1>4. IsPrefix(dir, o) /\ Len(dir) >= n
  BY DEF LooksAfter, At
<1> HIDE DEF n, o
<1>5. n \in 1..Len(o) /\ n \in 1..Len(dir)
  BY <1>1, <1>2, <1>3, <1>4
<1>6. a \in Seq(STRING) /\ Len(a) = n /\ \A i \in 1..n : a[i] = o[i]
  BY <1>2, <1>5, AncestorSeq
<1>7. Len(dir) <= Len(o) /\ \A i \in 1..Len(dir) : dir[i] = o[i]
  BY <1>2, <1>3, <1>4, PrefixAt
<1>8. \A i \in 1..n : a[i] = dir[i]
  BY <1>3, <1>5, <1>6, <1>7
<1>9. IsPrefix(a, dir)
  <2> HIDE DEF a
  <2> QED BY <1>3, <1>5, <1>6, <1>8, PrefixAt
<1>10. a = SubSeq(dir, 1, n)
  <2>1. /\ SubSeq(dir, 1, n) \in Seq(STRING) /\ Len(SubSeq(dir, 1, n)) = n
        /\ \A i \in 1..n : SubSeq(dir, 1, n)[i] = dir[i]
    BY <1>3, <1>5, AncestorSeq
  <2> QED BY <1>6, <1>8, <2>1, SeqEqual
<1> QED BY <1>1, <1>5, <1>6, <1>9, <1>10

LEMMA TrimKeepsTidy ==
  ASSUME PlainObjects, TypeInv, TrimInv, TidyInv, NEW p \in Requests, TrimUnlink(p)
  PROVE  TidyInv'
<1>1. /\ At(p, "trim_unlink") /\ rows' = rows /\ FilesRm(TrimmedPath(p))
      /\ dirs' = {dir \in dirs : ~IsPrefix(TrimmedPath(p), dir)}
  BY DEF TrimUnlink, TrimCall, FilesRm
<1>2. \A q \in Requests \ {p} : task'[q] = task[q]
  BY StepIsOwn DEF Step
<1>3. TrimmedPath(p) \in Seq(STRING)
  <2>1. /\ TrimmedPath(p) = SubSeq(task[p].obj, 1, task[p].shallow)
        /\ task[p].shallow \in 2..Len(task[p].obj) /\ task[p].obj \in Objects
    BY <1>1, TrimSpares, RequestsAssumption
  <2>2. task[p].obj \in Seq(STRING)
    BY <2>1, ObjectsAssumption
  <2>3. task[p].shallow \in 1..Len(task[p].obj)
    BY <2>1
  <2> QED BY <2>1, <2>2, <2>3, AncestorSeq
<1>4. DirsClosed'
  BY <1>1, <1>3, FilesRmClosed DEF TidyInv
<1>5. \A dir \in dirs' : ~LooksAfter(task[p], dir)
  BY <1>1, LookedAfterIsUnder
<1> QED BY <1>1, <1>2, <1>4, <1>5, QuietKeepsTidy

\* No call fails on whose way a folder is looked after: those that may are
\* excluded, the node has the pin, and the folder to remove.
LEMMA FailureKeepsTidy ==
  ASSUME TidyWhole, TypeInv, TrimInv, KeptInv, TidyInv, NEW p \in Requests,
         CallFails(p), Running(p), Become(p, NoTask)
  PROVE  TidyInv'
<1> DEFINE t == task[p]
<1>0. PlainObjects /\ t \in Task /\ t.at # "idle"
  BY DEF TidyWhole, TypeInv, TypeOK, Running
<1>1. \A q \in Requests \ {p} : task'[q] = task[q]
  BY BecomeIs
<1>2. ~\E dir \in dirs : LooksAfter(t, dir)
  <2> SUFFICES ASSUME NEW dir \in dirs, LooksAfter(t, dir) PROVE FALSE
    OBVIOUS
  <2>1. CallAt[t.at] \notin Faulty
    BY DEF LooksAfter, CallAt, TidyWhole
  <2>2. Refused(p)
    BY <2>1 DEF CallFails
  <2>3. CASE At(p, "trim_unlink") /\ ~Exists(TrimmedPath(p))
    <3>1. PICK n \in 1..Len(dir) : TrimmedPath(p) = SubSeq(dir, 1, n)
      BY <1>0, <2>3, LookedAfterIsUnder
    <3> QED BY <2>3, <3>1 DEF TidyInv, DirsClosed, Exists
  <2>4. CASE t.at = "del_unpin" /\ t.old \notin pins
    BY <2>4 DEF KeptInv, Deleting
  <2> QED BY <2>2, <2>3, <2>4 DEF Refused, LooksAfter, At
<1>3. rows' = rows /\ dirs' \subseteq dirs /\ DirsClosed'
  <2>1. CASE UNCHANGED stores
    <3>1. rows' = rows /\ dirs' = dirs
      BY <2>1 DEF stores, node
    <3> QED BY <3>1, SameDirsClosed DEF TidyInv
  <2>2. CASE CallAt[t.at] \in Faulty /\ t.at \in RpcLabels /\ StoreEffect(p)
    <3>1. t.at \in {"put_add", "del_unlink"}
      BY <2>2 DEF CallAt, RpcLabels, TidyWhole
    <3>2. AddCall(p) \/ UnlinkCall(p)
      BY <2>2, <3>1 DEF StoreEffect, CpCall, StoreCall, DeleteCall, UnpinCall, TrimCall, At
    <3>3. CASE AddCall(p)
      <4>1. rows' = rows /\ dirs' = dirs
        BY <3>3 DEF AddCall, Add
      <4> QED BY <4>1, SameDirsClosed DEF TidyInv
    <3>4. CASE UnlinkCall(p)
      <4>1. /\ rows' = rows /\ task[p].obj \in Objects
            /\ FilesRm(NormalizedPath(task[p].obj))
        BY <3>4, RequestsAssumption
        DEF UnlinkCall, At, TypeInv, TaskOK, NamesObject, Handler, DeleteLabels
      <4> QED BY <4>1, PathsAreSequences, FilesRmClosed DEF FilesRm, TidyInv
    <3> QED BY <3>2, <3>3, <3>4
  <2> QED BY <2>1, <2>2 DEF CallFails
<1> QED BY <1>1, <1>2, <1>3, QuietKeepsTidy

LEMMA TidyInvInit == Init => TidyInv
BY DEF Init, InitNode, TidyInv, DirsClosed

LEMMA TidyInvNext ==
  ASSUME TidyWhole, TypeInv, TrimInv, KeptInv, TidyInv, [Next]_vars
  PROVE  TidyInv'
<1>0. PlainObjects /\ NoStrayMatch /\ TrimEmptyFolders
  BY DEF TidyWhole
<1>1. ASSUME NEW p \in Requests, Ask(p) \/ Step(p) PROVE TidyInv'
  <2>1. CASE PutFails(p) \/ DeleteFails(p) \/ BackgroundFails(p)
    <3>1. CallFails(p) /\ Running(p) /\ Become(p, NoTask)
      BY <2>1 DEF PutFails, DeleteFails, BackgroundFails, Running, PutLabels,
                  DeleteLabels, BackgroundLabels
    <3> QED BY <3>1, FailureKeepsTidy
  <2> QED BY <1>0, <1>1, <2>1, BystanderKeepsTidy, CpKeepsTidy, StoreKeepsTidy,
             RowGoneKeepsTidy, UnpinKeepsTidy, FindKeepsTidy, TrimKeepsTidy DEF Step
<1>2. ASSUME NEW p \in Requests PROVE ~Disconnect(p)
  BY DEF TidyWhole, Undisturbed, Disconnect
<1>3. ~Crash
  BY DEF TidyWhole, Undisturbed, Crash
<1>4. CASE UNCHANGED vars
  BY <1>4 DEF vars, node, TidyInv, DirsClosed, Tidy, LooksAfter
<1> QED BY <1>1, <1>2, <1>3, <1>4 DEF Next

\* When nothing runs, nobody looks after a folder.
LEMMA TidyInvIdle == TidyInv => TidyWhenIdle
BY DEF TidyInv, TidyWhenIdle, LooksAfter, Running

\* When nothing runs, every folder below a bucket leads to an object, when every
\* client has its folders and its contents for itself: each trim removes all
\* that the deletion has left empty, and leaves no folder to a later one.
THEOREM FoldersStayTidy ==
  ASSUME PlainObjects, NoFileInTheWay, NoStrayMatch, TrimEmptyFolders,
         OwnFolders, OwnContents, Undisturbed,
         {"cp", "store", "count", "unpin", "like", "trim"} \cap Faulty = {}
  PROVE  Spec => []TidyWhenIdle
<1>1. TidyWhole /\ DeletionsApart /\ OneOwner /\ PinsApart
  <2>1. Exclusive
    BY DEF OwnFolders, Exclusive, Meets, SameFolder
  <2> QED BY <2>1 DEF TidyWhole, OwnContents, DeletionsApart, Exclusive, OneOwner, PinsApart
<1>2. Init => PinInv /\ KeptInv /\ TidyInv
  <2>1. Init => KeptInv
    BY DEF Init, KeptInv, NoTask, Deleting
  <2> QED BY <2>1, PinInvInit, TidyInvInit
<1>3. TypeInv /\ PinInv /\ [Next]_vars => PinInv'
  BY <1>1, PinInvNext
<1>4. TypeInv /\ PinInv /\ KeptInv /\ [Next]_vars => KeptInv'
  BY <1>1, KeptInvNext
<1>5. TypeInv /\ TrimInv /\ KeptInv /\ TidyInv /\ [Next]_vars => TidyInv'
  BY <1>1, TidyInvNext
<1> QED BY <1>2, <1>3, <1>4, <1>5, TypeInvariant, TrimInvariant, TidyInvIdle, PTL DEF Spec

=============================================================================
