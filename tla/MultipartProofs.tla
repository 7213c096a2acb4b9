-------------------------- MODULE MultipartProofs --------------------------
(***************************************************************************)
(* An upload ends once, for any number of requests and uploads and through *)
(* every restart.                                                          *)
(*                                                                         *)
(* An upload that was created is in one of three places, which it passes   *)
(* in this order: the map, the handler that completes it, the table.  What *)
(* takes it out of the map is atomic, and an id is never given out twice.  *)
(*                                                                         *)
(* So the object that it becomes is whole: what a slot holds is the last   *)
(* body of every part that its clients were told is received, and nothing  *)
(* is told of an upload that has left the map.                             *)
(***************************************************************************)
EXTENDS Multipart, SequenceProofs

Completing(q, u) == At(q, "put_upload") /\ task[q].upload = u

EndInv ==
  /\ task = [q \in Requests |-> task[q]]
  /\ Held \subseteq DOMAIN acked
  /\ DOMAIN completed \subseteq DOMAIN acked
  /\ Held \cap DOMAIN completed = {}
  /\ \A q \in Requests : At(q, "put_upload") =>
       /\ task[q].upload \in DOMAIN acked
       /\ task[q].upload \notin Held
       /\ task[q].upload \notin DOMAIN completed
       /\ \A other \in Requests : Completing(other, task[q].upload) => other = q

-----------------------------------------------------------------------------
LEMMA TakeRemoves ==
  ASSUME NEW u, Take(u)
  PROVE  DOMAIN slots' = Held \ {u}
BY DEF Take, Restrict, Held

LEMMA InsertAdds ==
  ASSUME NEW u, NEW value, Insert(u, value)
  PROVE  DOMAIN slots' = Held \cup {u}
BY DEF Insert, Held, With

LEMMA BecomeIs ==
  ASSUME EndInv, NEW q \in Requests, NEW t, Become(q, t)
  PROVE  /\ task' = [p \in Requests |-> task'[p]]
         /\ task'[q] = t
         /\ \A p \in Requests \ {q} : task'[p] = task[p]
BY DEF EndInv, Become

LEMMA AcknowledgeKeepsDomain ==
  ASSUME NEW u, NEW n, NEW body, Acknowledge(u, n, body)
  PROVE  DOMAIN acked' = DOMAIN acked
BY DEF Acknowledge

\* A step that moves no upload: no handler begins to complete one.
LEMMA NothingMoves ==
  ASSUME EndInv, DOMAIN slots' \subseteq Held,
         DOMAIN acked' = DOMAIN acked, DOMAIN completed' = DOMAIN completed,
         task' = [p \in Requests |-> task'[p]],
         \A p \in Requests : task'[p] = task[p] \/ task'[p].at # "put_upload"
  PROVE  EndInv'
BY DEF EndInv, Completing, At, Held

LEMMA EndInvInit == Init => EndInv
BY DEF Init, InitSlots, EndInv, Completing, At, NoTask, Held

LEMMA EndInvNext == EndInv /\ [Next]_vars => EndInv'
<1> SUFFICES ASSUME EndInv, [Next]_vars PROVE EndInv'
  OBVIOUS
<1>1. ASSUME NEW q \in Requests, CheckCapacity(q)
      PROVE  EndInv'
  BY <1>1, BecomeIs, NothingMoves DEF CheckCapacity, Held
<1>2. ASSUME NEW q \in Requests, CreateMultipartUpload(q)
      PROVE  EndInv'
  <2>1. PICK u \in Uploads \ DOMAIN acked :
          Insert(u, <<>>) /\ acked' = With(acked, u, <<>>)
    BY <1>2 DEF CreateMultipartUpload
  <2>2. DOMAIN slots' = Held \cup {u} /\ DOMAIN acked' = DOMAIN acked \cup {u}
    BY <2>1, InsertAdds DEF With
  <2>3. completed' = completed /\ Become(q, NoTask)
    BY <1>2 DEF CreateMultipartUpload
  <2>4. /\ task' = [p \in Requests |-> task'[p]]
        /\ \A p \in Requests : task'[p] = task[p] \/ task'[p].at # "put_upload"
    BY <2>3, BecomeIs DEF NoTask
  <2> QED BY <2>1, <2>2, <2>3, <2>4 DEF EndInv, Completing, At, Held
<1>3. ASSUME NEW q \in Requests, UploadPart(q)
      PROVE  EndInv'
  <2>1. PICK u \in Held, n \in Numbers, body \in Bodies :
          /\ slots' = [slots EXCEPT ![u] = With(@, n, body)]
          /\ Acknowledge(u, n, body)
    BY <1>3 DEF UploadPart
  <2>2. DOMAIN slots' = Held
    BY <2>1 DEF Held
  <2>3. task' = task /\ completed' = completed
    BY <1>3 DEF UploadPart
  <2>4. task' = [p \in Requests |-> task'[p]]
    BY <2>3 DEF EndInv
  <2> QED BY <2>1, <2>2, <2>3, <2>4, AcknowledgeKeepsDomain, NothingMoves
<1>4. ASSUME NEW q \in Requests, PutUnparsedPart(q)
      PROVE  EndInv'
  <2>1. PICK u, n, k, body :
          Become(q, [at |-> "put_part", upload |-> u, number |-> n,
                     key |-> k, content |-> <<body>>])
    BY <1>4 DEF PutUnparsedPart
  <2>2. UNCHANGED <<slots, acked, completed>>
    BY <1>4 DEF PutUnparsedPart
  <2> QED BY <2>1, <2>2, BecomeIs, NothingMoves DEF Held
<1>5. ASSUME NEW q \in Requests, CompleteMultipartUpload(q)
      PROVE  EndInv'
  <2>1. PICK u \in Held, k \in Keys :
          /\ Take(u)
          /\ Become(q, [at |-> "put_upload", upload |-> u, key |-> k,
                        content |-> Collate(slots[u])])
    BY <1>5 DEF CompleteMultipartUpload
  <2>2. DOMAIN slots' = Held \ {u}
    BY <2>1, TakeRemoves
  <2>3. UNCHANGED <<acked, completed>>
    BY <1>5 DEF CompleteMultipartUpload
  <2>4. /\ task' = [p \in Requests |-> task'[p]]
        /\ task'[q].at = "put_upload" /\ task'[q].upload = u
        /\ \A p \in Requests \ {q} : task'[p] = task[p]
    BY <2>1, BecomeIs
  <2>5. \A p \in Requests \ {q} : At(p, "put_upload") => task[p].upload # u
    BY <2>1 DEF EndInv
  <2> QED BY <2>1, <2>2, <2>3, <2>4, <2>5 DEF EndInv, Completing, At, Held
<1>6. ASSUME NEW q \in Requests, AbortMultipartUpload(q)
      PROVE  EndInv'
  <2>1. PICK u \in Held : Take(u)
    BY <1>6 DEF AbortMultipartUpload
  <2>2. task' = task /\ acked' = acked /\ completed' = completed
    BY <1>6 DEF AbortMultipartUpload
  <2>3. task' = [p \in Requests |-> task'[p]]
    BY <2>2 DEF EndInv
  <2> QED BY <2>1, <2>2, <2>3, TakeRemoves, NothingMoves
<1>7. ASSUME NEW q \in Requests, PutContent(q)
      PROVE  EndInv'
  <2>1. slots' = slots /\ Become(q, NoTask)
    BY <1>7 DEF PutContent
  <2>2. /\ task' = [p \in Requests |-> task'[p]]
        /\ task'[q].at = "idle"
        /\ \A p \in Requests \ {q} : task'[p] = task[p]
    BY <2>1, BecomeIs DEF NoTask
  <2>3. CASE At(q, "put_upload")
    <3> DEFINE u == task[q].upload
    <3>1. /\ completed' = With(completed, u, task[q].content)
          /\ acked' = acked
      BY <1>7, <2>3 DEF PutContent
    <3>2. DOMAIN completed' = DOMAIN completed \cup {u}
      BY <3>1 DEF With
    <3> HIDE DEF u
    <3> QED BY <2>1, <2>2, <2>3, <3>1, <3>2 DEF EndInv, Completing, At, Held, u
  <2>4. CASE ~At(q, "put_upload")
    <3>1. completed' = completed /\ DOMAIN acked' = DOMAIN acked
      BY <1>7, <2>4, AcknowledgeKeepsDomain DEF PutContent
    <3> QED BY <2>1, <2>2, <3>1, NothingMoves DEF Held
  <2> QED BY <2>3, <2>4
<1>8. ASSUME NEW q \in Requests, PutContentFails(q)
      PROVE  EndInv'
  BY <1>8, BecomeIs, NothingMoves DEF PutContentFails, NoTask, Held
<1>9. CASE Restart
  BY <1>9, NothingMoves DEF Restart, NoTask, Held
<1>10. CASE UNCHANGED vars
  BY <1>10 DEF vars, EndInv, Completing, At, Held
<1> QED BY <1>1, <1>2, <1>3, <1>4, <1>5, <1>6, <1>7, <1>8, <1>9, <1>10 DEF Next

-----------------------------------------------------------------------------
LEMMA EndInvCounts ==
  ASSUME EndInv
  PROVE  EndsOnce
<1> SUFFICES ASSUME NEW u \in Uploads
             PROVE  Cardinality({q \in Requests : Completing(q, u)})
                      + Cardinality({u} \cap Held)
                      + Cardinality({u} \cap DOMAIN completed) <= 1
  BY DEF EndsOnce, Completing
<1> DEFINE storing == {q \in Requests : Completing(q, u)}
           held == {u} \cap Held
           stored == {u} \cap DOMAIN completed
<1>1. \A S : S = {} => Cardinality(S) = 0
  BY FS_EmptySet
<1>2. \A S, e : S = {e} => Cardinality(S) = 1
  BY FS_Singleton
<1>3. \/ storing = {} /\ held = {} /\ stored = {}
      \/ storing = {} /\ held = {u} /\ stored = {}
      \/ storing = {} /\ held = {} /\ stored = {u}
      \/ \E q : storing = {q} /\ held = {} /\ stored = {}
  <2>1. CASE \E q \in Requests : Completing(q, u)
    <3>1. PICK q \in Requests : Completing(q, u)
      BY <2>1
    <3>2. storing = {q}
      BY <3>1 DEF EndInv, Completing
    <3>3. held = {} /\ stored = {}
      BY <3>1 DEF EndInv, Completing
    <3> QED BY <3>2, <3>3
  <2>2. CASE ~\E q \in Requests : Completing(q, u)
    <3>1. storing = {}
      BY <2>2
    <3>2. (held = {} \/ held = {u}) /\ (stored = {} \/ stored = {u})
      OBVIOUS
    <3>3. held = {} \/ stored = {}
      BY DEF EndInv
    <3> QED BY <3>1, <3>2, <3>3
  <2> QED BY <2>1, <2>2
<1> HIDE DEF storing, held, stored
<1>4. Cardinality(storing) + Cardinality(held) + Cardinality(stored) <= 1
  <2>1. \/ Cardinality(storing) = 0 /\ Cardinality(held) = 0 /\ Cardinality(stored) = 0
        \/ Cardinality(storing) = 0 /\ Cardinality(held) = 1 /\ Cardinality(stored) = 0
        \/ Cardinality(storing) = 0 /\ Cardinality(held) = 0 /\ Cardinality(stored) = 1
        \/ Cardinality(storing) = 1 /\ Cardinality(held) = 0 /\ Cardinality(stored) = 0
    BY <1>1, <1>2, <1>3, Zenon
  <2> QED BY <2>1, SMT
<1> QED BY <1>4 DEF storing, held, stored

\* Of an upload one completion at most stores the content, and none while it is
\* held: however many completions and aborts race each other, are repeated or
\* fail, and whenever the process is restarted.
THEOREM UploadsEndOnce == Spec => []EndsOnce
<1>1. Init => EndInv
  BY EndInvInit
<1>2. EndInv /\ [Next]_vars => EndInv'
  BY EndInvNext
<1>3. EndInv => EndsOnce
  BY EndInvCounts
<1> QED BY <1>1, <1>2, <1>3, PTL DEF Spec

-----------------------------------------------------------------------------
(***************************************************************************)
(* Type correctness.  The room of a table is a conjunct of its own: it is  *)
(* known only for the tables that RoomFor knows.                           *)
(***************************************************************************)
\* What the handlers of the two PUTs hold.
TaskOK(t) ==
  /\ t.at \in {"idle", "insert", "put_part", "put_upload"}
  /\ t.at \in {"put_part", "put_upload"} => t.key \in Keys
  /\ t.at = "put_part" =>
       /\ t.number \in Numbers /\ ~IsPartNumber(t.number)
       /\ t.content[1] \in Bodies
  /\ t.at = "put_upload" => t.content \in Seq(Bodies)

\* A slot of the map: the numbers are those that parse.
SlotOK(parts) == parts \in Parts /\ DOMAIN parts \subseteq (-128)..127

\* The types of all but the room.
TypeInv ==
  /\ Held \subseteq DOMAIN acked /\ DOMAIN acked \subseteq Uploads
  /\ \A u \in Held : SlotOK(slots[u])
  /\ \A q \in Requests : TaskOK(task[q])
  /\ DOMAIN objects \subseteq Keys
  /\ \A u \in DOMAIN acked : acked[u] \in Parts
  /\ DOMAIN completed \subseteq DOMAIN acked
  /\ \A u \in DOMAIN completed : completed[u] \in Seq(Bodies)

SmallTables == (ConcurrentUploads + Shards - 1) \div Shards \in 0..28

RoomInv == room \in [1..Shards -> Nat]

LEMMA NoParts == <<>> \in Parts /\ DOMAIN <<>> = {}
<1>1. <<>> \in [{} -> Bodies]
  OBVIOUS
<1> QED BY <1>1 DEF Parts

LEMMA WithPart ==
  ASSUME NEW parts \in Parts, NEW n \in Numbers, NEW body \in Bodies
  PROVE  With(parts, n, body) \in Parts
<1>1. PICK N \in SUBSET Numbers : parts \in [N -> Bodies]
  BY DEF Parts
<1>2. With(parts, n, body) \in [N \cup {n} -> Bodies]
  BY <1>1 DEF With
<1> QED BY <1>2 DEF Parts

\* The parts one after another are a sequence of bodies, in order.
LEMMA CollateIsOrdered ==
  ASSUME NEW parts, SlotOK(parts)
  PROVE  Collate(parts) \in Seq(Bodies) /\ InOrder(Collate(parts), parts)
<1> DEFINE N == DOMAIN parts
<1>1. IsFiniteSet((-128)..127)
  <2>1. -128 \in Int /\ 127 \in Int
    OBVIOUS
  <2> QED BY <2>1, FS_Interval
<1>2. IsFiniteSet(N) /\ N \subseteq Int
  BY <1>1, FS_Subset DEF SlotOK
<1>3. \A n \in N : parts[n] \in Bodies
  BY DEF SlotOK, Parts
<1> HIDE DEF N
<1>4. Subsequence(parts, N) \in Seq(Bodies)
  BY <1>2, <1>3, SubsequenceSeq
<1>5. Len(Subsequence(parts, N)) = Cardinality(N)
  BY <1>2, SubsequenceLen
<1>6. \A n \in N : Subsequence(parts, N)[Rank(N, n)] = parts[n]
  BY <1>2, SubsequenceAt
<1> QED BY <1>4, <1>5, <1>6 DEF Collate, InOrder, Rank, N

LEMMA RoomsAreNumbers ==
  ASSUME SmallTables
  PROVE  InitialRoom \in [1..Shards -> Nat]
<1>1. ASSUME NEW n \in 0..28 PROVE RoomFor(n) \in Nat
  <2> DEFINE R == {0, 3, 7, 14, 28}
             Fits(r) == r >= n /\ \A other \in R : other >= n => r <= other
  <2>1. \E r \in R : Fits(r)
    <3>1. CASE n = 0
      BY <3>1
    <3>2. CASE n \in 1..3
      BY <3>2
    <3>3. CASE n \in 4..7
      BY <3>3
    <3>4. CASE n \in 8..14
      BY <3>4
    <3>5. CASE n \in 15..28
      BY <3>5
    <3> QED BY <3>1, <3>2, <3>3, <3>4, <3>5
  <2>2. RoomFor(n) \in R
    BY <2>1 DEF RoomFor
  <2> QED BY <2>2
<1> QED BY <1>1 DEF InitialRoom, SmallTables

LEMMA NoTaskOK == TaskOK(NoTask)
BY DEF TaskOK, NoTask

LEMMA TypeInvInit ==
  ASSUME Init
  PROVE  TypeInv
<1>1. \A q \in Requests : TaskOK(task[q])
  BY NoTaskOK DEF Init
<1>2. DOMAIN <<>> = {}
  BY NoParts
<1> QED BY <1>1, <1>2 DEF Init, InitSlots, TypeInv, Held

\* A step of a slot, its parts: the map, the history, its own record.
LEMMA StepKeepsTypes ==
  ASSUME TypeInv, EndInv, NEW q \in Requests, NEW t, Become(q, t), TaskOK(t),
         DOMAIN slots' \subseteq DOMAIN acked', DOMAIN acked' \subseteq Uploads,
         \A u \in DOMAIN slots' : SlotOK(slots'[u]),
         DOMAIN objects' \subseteq Keys,
         \A u \in DOMAIN acked' : acked'[u] \in Parts,
         DOMAIN completed' \subseteq DOMAIN acked',
         \A u \in DOMAIN completed' : completed'[u] \in Seq(Bodies)
  PROVE  TypeInv'
<1>1. \A p \in Requests : TaskOK(task'[p])
  BY BecomeIs DEF TypeInv
<1> QED BY <1>1 DEF TypeInv, TaskOK, SlotOK, Held

LEMMA TypeInvNext ==
  ASSUME TypeInv, EndInv, [Next]_vars
  PROVE  TypeInv'
<1>0. /\ Held \subseteq DOMAIN acked /\ DOMAIN acked \subseteq Uploads
      /\ \A u \in Held : SlotOK(slots[u])
      /\ DOMAIN objects \subseteq Keys
      /\ \A u \in DOMAIN acked : acked[u] \in Parts
      /\ DOMAIN completed \subseteq DOMAIN acked
      /\ \A u \in DOMAIN completed : completed[u] \in Seq(Bodies)
      /\ \A q \in Requests : TaskOK(task[q])
  BY DEF TypeInv
<1>1. ASSUME NEW q \in Requests, CheckCapacity(q)
      PROVE  TypeInv'
  <2>1. TaskOK([at |-> "insert"])
    BY DEF TaskOK
  <2> QED BY <1>0, <1>1, <2>1, StepKeepsTypes DEF CheckCapacity, Held
<1>2. ASSUME NEW q \in Requests, CreateMultipartUpload(q)
      PROVE  TypeInv'
  <2>1. PICK u \in Uploads \ DOMAIN acked :
          Insert(u, <<>>) /\ acked' = With(acked, u, <<>>)
    BY <1>2 DEF CreateMultipartUpload
  <2>2. /\ UNCHANGED <<objects, completed>> /\ Become(q, NoTask)
    BY <1>2 DEF CreateMultipartUpload
  <2>3. /\ DOMAIN slots' = Held \cup {u} /\ DOMAIN acked' = DOMAIN acked \cup {u}
        /\ \A w \in Held \ {u} : slots'[w] = slots[w]
        /\ \A w \in DOMAIN acked \ {u} : acked'[w] = acked[w]
        /\ slots'[u] = <<>> /\ acked'[u] = <<>>
    BY <2>1 DEF Insert, With, Held
  <2>4. SlotOK(<<>>)
    BY NoParts DEF SlotOK
  <2>5. /\ \A w \in DOMAIN slots' : SlotOK(slots'[w])
        /\ \A w \in DOMAIN acked' : acked'[w] \in Parts
    BY <1>0, <2>3, <2>4 DEF SlotOK
  <2> QED BY <1>0, <2>2, <2>3, <2>5, NoTaskOK, StepKeepsTypes
<1>3. ASSUME NEW q \in Requests, UploadPart(q)
      PROVE  TypeInv'
  <2>1. PICK u \in Held, n \in Numbers, body \in Bodies :
          /\ IsPartNumber(n)
          /\ slots' = [slots EXCEPT ![u] = With(@, n, body)]
          /\ Acknowledge(u, n, body)
    BY <1>3 DEF UploadPart
  <2>2. /\ DOMAIN slots' = Held
        /\ slots'[u] = With(slots[u], n, body)
        /\ \A w \in Held \ {u} : slots'[w] = slots[w]
    BY <2>1 DEF Held
  <2>3. SlotOK(slots'[u])
    <3>1. SlotOK(slots[u])
      BY <1>0
    <3> QED BY <2>1, <2>2, <3>1, WithPart DEF SlotOK, With, IsPartNumber
  <2>4. \A w \in DOMAIN slots' : SlotOK(slots'[w])
    BY <1>0, <2>2, <2>3
  <2>5. DOMAIN acked' = DOMAIN acked /\ \A w \in DOMAIN acked' : acked'[w] \in Parts
    BY <1>0, <2>1, WithPart DEF Acknowledge
  <2>6. UNCHANGED <<room, task, objects, completed>>
    BY <1>3 DEF UploadPart
  <2> QED BY <1>0, <2>2, <2>4, <2>5, <2>6 DEF TypeInv, SlotOK, TaskOK, Held
<1>4. ASSUME NEW q \in Requests, PutUnparsedPart(q)
      PROVE  TypeInv'
  <2>1. PICK u \in Uploads, n \in Numbers, body \in Bodies, k \in Keys :
          /\ ~IsPartNumber(n)
          /\ Become(q, [at |-> "put_part", upload |-> u, number |-> n,
                        key |-> k, content |-> <<body>>])
    BY <1>4 DEF PutUnparsedPart
  <2>2. TaskOK([at |-> "put_part", upload |-> u, number |-> n,
                key |-> k, content |-> <<body>>])
    BY <2>1 DEF TaskOK
  <2> QED BY <1>0, <1>4, <2>1, <2>2, StepKeepsTypes DEF PutUnparsedPart, Held
<1>5. ASSUME NEW q \in Requests, CompleteMultipartUpload(q)
      PROVE  TypeInv'
  <2>1. PICK u \in Held, k \in Keys :
          /\ Take(u)
          /\ Become(q, [at |-> "put_upload", upload |-> u, key |-> k,
                        content |-> Collate(slots[u])])
    BY <1>5 DEF CompleteMultipartUpload
  <2> DEFINE content == Collate(slots[u])
  <2>2. content \in Seq(Bodies)
    BY <1>0, CollateIsOrdered
  <2> HIDE DEF content
  <2>3. TaskOK([at |-> "put_upload", upload |-> u, key |-> k, content |-> content])
    BY <2>2 DEF TaskOK
  <2>4. /\ DOMAIN slots' \subseteq Held
        /\ \A w \in DOMAIN slots' : slots'[w] = slots[w]
    BY <2>1 DEF Take, Restrict, Held
  <2> QED BY <1>0, <1>5, <2>1, <2>3, <2>4, StepKeepsTypes
          DEF CompleteMultipartUpload, content
<1>6. ASSUME NEW q \in Requests, AbortMultipartUpload(q)
      PROVE  TypeInv'
  <2>1. PICK u \in Held : Take(u)
    BY <1>6 DEF AbortMultipartUpload
  <2>2. /\ DOMAIN slots' \subseteq Held
        /\ \A w \in DOMAIN slots' : slots'[w] = slots[w]
    BY <2>1 DEF Take, Restrict, Held
  <2> QED BY <1>0, <1>6, <2>2
          DEF AbortMultipartUpload, TypeInv, SlotOK, TaskOK, Held
<1>7. ASSUME NEW q \in Requests, PutContent(q)
      PROVE  TypeInv'
  <2>1. /\ task[q].at \in {"put_part", "put_upload"}
        /\ objects' = With(objects, task[q].key, task[q].content)
        /\ UNCHANGED <<slots, room>> /\ Become(q, NoTask)
    BY <1>7 DEF PutContent
  <2>2. DOMAIN objects' \subseteq Keys
    BY <1>0, <2>1 DEF With, TaskOK
  <2>3. CASE At(q, "put_upload")
    <3> DEFINE u == task[q].upload
    <3>1. /\ completed' = With(completed, u, task[q].content) /\ acked' = acked
          /\ u \in DOMAIN acked /\ task[q].content \in Seq(Bodies)
      BY <1>0, <1>7, <2>3 DEF PutContent, EndInv, TaskOK, At
    <3>2. /\ DOMAIN completed' \subseteq DOMAIN acked
          /\ \A w \in DOMAIN completed' : completed'[w] \in Seq(Bodies)
      BY <1>0, <3>1 DEF With
    <3> HIDE DEF u
    <3> QED BY <1>0, <2>1, <2>2, <3>1, <3>2, NoTaskOK, StepKeepsTypes DEF Held
  <2>4. CASE ~At(q, "put_upload")
    <3>1. /\ Acknowledge(task[q].upload, task[q].number, task[q].content[1])
          /\ task[q].number \in Numbers /\ task[q].content[1] \in Bodies
          /\ completed' = completed
      BY <1>0, <1>7, <2>1, <2>4 DEF PutContent, TaskOK, At
    <3>2. DOMAIN acked' = DOMAIN acked /\ \A w \in DOMAIN acked' : acked'[w] \in Parts
      BY <1>0, <3>1, WithPart DEF Acknowledge
    <3> QED BY <1>0, <2>1, <2>2, <3>1, <3>2, NoTaskOK, StepKeepsTypes DEF Held
  <2> QED BY <2>3, <2>4
<1>8. ASSUME NEW q \in Requests, PutContentFails(q)
      PROVE  TypeInv'
  BY <1>0, <1>8, NoTaskOK, StepKeepsTypes DEF PutContentFails, Held
<1>9. CASE Restart
  <2>1. DOMAIN slots' = {}
    BY <1>9, NoParts DEF Restart
  <2>2. \A q \in Requests : TaskOK(task'[q])
    BY <1>9, NoTaskOK DEF Restart
  <2> QED BY <1>0, <1>9, <2>1, <2>2 DEF Restart, TypeInv, TaskOK, Held
<1>10. CASE UNCHANGED vars
  BY <1>10 DEF vars, TypeInv, TaskOK, Held
<1> QED BY <1>1, <1>2, <1>3, <1>4, <1>5, <1>6, <1>7, <1>8, <1>9, <1>10 DEF Next

\* The room changes at an insertion and at a restart.
LEMMA RoomInvNext ==
  ASSUME SmallTables, RoomInv, [Next]_vars
  PROVE  RoomInv'
<1>1. ASSUME NEW q \in Requests, CreateMultipartUpload(q)
      PROVE  RoomInv'
  <2>1. PICK u : Insert(u, <<>>)
    BY <1>1 DEF CreateMultipartUpload
  <2>2. \A n \in Nat : NextRoom(n) \in Nat
    BY DEF NextRoom
  <2> QED BY <2>1, <2>2 DEF Insert, RoomInv
<1>2. CASE Restart
  BY <1>2, RoomsAreNumbers DEF Restart, RoomInv
<1>3. CASE room' = room
  BY <1>3 DEF RoomInv
<1> QED BY <1>1, <1>2, <1>3
        DEF Next, CheckCapacity, UploadPart, PutUnparsedPart, CompleteMultipartUpload,
            AbortMultipartUpload, PutContent, PutContentFails, Take, vars

\* The map, the handlers and the history have their types: in particular the
\* numbers of the parts of a slot are an i8.
THEOREM TypesHold ==
  ASSUME SmallTables
  PROVE  Spec => []TypeOK
<1>1. Init => TypeInv /\ EndInv /\ RoomInv
  BY TypeInvInit, EndInvInit, RoomsAreNumbers DEF Init, InitSlots, RoomInv
<1>2. TypeInv /\ EndInv /\ RoomInv /\ [Next]_vars => (TypeInv /\ EndInv /\ RoomInv)'
  BY TypeInvNext, EndInvNext, RoomInvNext
<1>3. TypeInv /\ RoomInv => TypeOK
  BY DEF TypeInv, RoomInv, TypeOK, SlotOK, TaskOK
<1> QED BY <1>1, <1>2, <1>3, PTL DEF Spec

-----------------------------------------------------------------------------
(***************************************************************************)
(* What was acknowledged is what is stored.  The slot of an upload is what *)
(* its clients were told is received, as long as it is held; what its      *)
(* completion carries to the table, and the table, is those parts in       *)
(* order.  The numbers that do not parse are never in a slot.              *)
(***************************************************************************)
Received(u) == Restrict(acked[u], {n \in DOMAIN acked[u] : IsPartNumber(n)})

WholeInv ==
  /\ \A u \in Held : slots[u] = Received(u)
  /\ \A q \in Requests : At(q, "put_upload") =>
       InOrder(task[q].content, Received(task[q].upload))
  /\ \A u \in DOMAIN completed : InOrder(completed[u], Received(u))

LEMMA PartRecorded ==
  ASSUME NEW u \in DOMAIN acked, NEW n, NEW body, IsPartNumber(n),
         Acknowledge(u, n, body), slots[u] = Received(u)
  PROVE  /\ With(slots[u], n, body) = Received(u)'
         /\ \A w \in DOMAIN acked \ {u} : Received(w)' = Received(w)
<1>1. /\ acked'[u] = With(acked[u], n, body)
      /\ \A w \in DOMAIN acked \ {u} : acked'[w] = acked[w]
  BY DEF Acknowledge
<1> QED BY <1>1 DEF Received, Restrict, With

LEMMA UnparsedNotRecorded ==
  ASSUME NEW u, NEW n, NEW body, ~IsPartNumber(n), Acknowledge(u, n, body)
  PROVE  \A w \in DOMAIN acked : Received(w)' = Received(w)
<1>1. CASE u \notin DOMAIN acked
  BY <1>1 DEF Acknowledge, Received
<1>2. CASE u \in DOMAIN acked
  <2>1. /\ acked'[u] = With(acked[u], n, body)
        /\ \A w \in DOMAIN acked \ {u} : acked'[w] = acked[w]
    BY <1>2 DEF Acknowledge
  <2>2. Received(u)' = Received(u)
    BY <2>1 DEF Received, Restrict, With
  <2> QED BY <2>1, <2>2 DEF Received
<1> QED BY <1>1, <1>2

\* A step that completes nothing and keeps what was received.
LEMMA NothingCompletes ==
  ASSUME WholeInv, EndInv, DOMAIN slots' \subseteq Held,
         \A u \in DOMAIN slots' : slots'[u] = slots[u],
         \A u \in DOMAIN acked : Received(u)' = Received(u),
         completed' = completed,
         \A p \in Requests : task'[p] = task[p] \/ task'[p].at # "put_upload"
  PROVE  WholeInv'
BY DEF WholeInv, EndInv, At, Held

LEMMA WholeInvNext ==
  ASSUME TypeInv, EndInv, WholeInv, [Next]_vars
  PROVE  WholeInv'
<1>0. acked' = acked => \A u \in DOMAIN acked : Received(u)' = Received(u)
  BY DEF Received
<1>1. ASSUME NEW q \in Requests, CheckCapacity(q)
      PROVE  WholeInv'
  BY <1>0, <1>1, BecomeIs, NothingCompletes DEF CheckCapacity, Held
<1>2. ASSUME NEW q \in Requests, CreateMultipartUpload(q)
      PROVE  WholeInv'
  <2>1. PICK u \in Uploads \ DOMAIN acked :
          Insert(u, <<>>) /\ acked' = With(acked, u, <<>>)
    BY <1>2 DEF CreateMultipartUpload
  <2>2. completed' = completed /\ Become(q, NoTask)
    BY <1>2 DEF CreateMultipartUpload
  <2>3. /\ DOMAIN slots' = Held \cup {u}
        /\ \A w \in Held : slots'[w] = slots[w]
        /\ \A w \in DOMAIN acked : acked'[w] = acked[w]
        /\ slots'[u] = <<>> /\ acked'[u] = <<>>
    BY <2>1 DEF Insert, With, Held, EndInv
  <2>4. slots'[u] = Received(u)'
    <3>1. {n \in DOMAIN <<>> : IsPartNumber(n)} = {}
      BY NoParts
    <3>2. Restrict(<<>>, {}) = <<>>
      BY DEF Restrict
    <3> QED BY <2>3, <3>1, <3>2 DEF Received
  <2>5. \A w \in DOMAIN acked : Received(w)' = Received(w)
    BY <2>3 DEF Received
  <2>6. \A p \in Requests : task'[p] = task[p] \/ task'[p].at # "put_upload"
    BY <2>2, BecomeIs DEF NoTask
  <2> QED BY <2>2, <2>3, <2>4, <2>5, <2>6 DEF WholeInv, EndInv, At, Held
<1>3. ASSUME NEW q \in Requests, UploadPart(q)
      PROVE  WholeInv'
  <2>1. PICK u \in Held, n \in Numbers, body \in Bodies :
          /\ IsPartNumber(n)
          /\ slots' = [slots EXCEPT ![u] = With(@, n, body)]
          /\ Acknowledge(u, n, body)
    BY <1>3 DEF UploadPart
  <2>2. task' = task /\ completed' = completed
    BY <1>3 DEF UploadPart
  <2>3. /\ DOMAIN slots' = Held
        /\ slots'[u] = With(slots[u], n, body)
        /\ \A w \in Held \ {u} : slots'[w] = slots[w]
    BY <2>1 DEF Held
  <2>4. u \in DOMAIN acked /\ slots[u] = Received(u)
    BY DEF WholeInv, EndInv
  <2>5. /\ slots'[u] = Received(u)'
        /\ \A w \in DOMAIN acked \ {u} : Received(w)' = Received(w)
    BY <2>1, <2>3, <2>4, PartRecorded
  <2>6. u \notin DOMAIN completed
    BY DEF EndInv
  <2>7. \A p \in Requests : At(p, "put_upload") =>
          task[p].upload \in DOMAIN acked \ {u}
    BY DEF EndInv
  <2> QED BY <2>2, <2>3, <2>5, <2>6, <2>7 DEF WholeInv, EndInv, At, Held
<1>4. ASSUME NEW q \in Requests, PutUnparsedPart(q)
      PROVE  WholeInv'
  <2>1. PICK u, n, k, body :
          Become(q, [at |-> "put_part", upload |-> u, number |-> n,
                     key |-> k, content |-> <<body>>])
    BY <1>4 DEF PutUnparsedPart
  <2> QED BY <1>0, <1>4, <2>1, BecomeIs, NothingCompletes DEF PutUnparsedPart, Held
<1>5. ASSUME NEW q \in Requests, CompleteMultipartUpload(q)
      PROVE  WholeInv'
  <2>1. PICK u \in Held, k \in Keys :
          /\ Take(u)
          /\ Become(q, [at |-> "put_upload", upload |-> u, key |-> k,
                        content |-> Collate(slots[u])])
    BY <1>5 DEF CompleteMultipartUpload
  <2>2. UNCHANGED <<acked, completed>>
    BY <1>5 DEF CompleteMultipartUpload
  <2>3. /\ task'[q].upload = u /\ task'[q].content = Collate(slots[u])
        /\ \A p \in Requests \ {q} : task'[p] = task[p]
    BY <2>1, BecomeIs
  <2>4. InOrder(Collate(slots[u]), slots[u]) /\ slots[u] = Received(u)
    BY CollateIsOrdered DEF TypeInv, WholeInv
  <2>5. InOrder(task'[q].content, Received(task'[q].upload))
    BY <2>3, <2>4
  <2>6. \A w \in DOMAIN slots' : w \in Held /\ slots'[w] = slots[w]
    BY <2>1 DEF Take, Restrict, Held
  <2>7. \A w : Received(w)' = Received(w)
    BY <2>2 DEF Received
  <2> QED BY <2>2, <2>3, <2>5, <2>6, <2>7 DEF WholeInv, At, Held
<1>6. ASSUME NEW q \in Requests, AbortMultipartUpload(q)
      PROVE  WholeInv'
  <2>1. PICK u \in Held : Take(u)
    BY <1>6 DEF AbortMultipartUpload
  <2>2. DOMAIN slots' \subseteq Held /\ \A w \in DOMAIN slots' : slots'[w] = slots[w]
    BY <2>1 DEF Take, Restrict, Held
  <2> QED BY <1>0, <1>6, <2>2, NothingCompletes DEF AbortMultipartUpload
<1>7. ASSUME NEW q \in Requests, PutContent(q)
      PROVE  WholeInv'
  <2>1. slots' = slots /\ Become(q, NoTask)
    BY <1>7 DEF PutContent
  <2>2. /\ task'[q].at = "idle"
        /\ \A p \in Requests \ {q} : task'[p] = task[p]
    BY <2>1, BecomeIs DEF NoTask
  <2>3. CASE At(q, "put_upload")
    <3> DEFINE u == task[q].upload
    <3>1. completed' = With(completed, u, task[q].content) /\ acked' = acked
      BY <1>7, <2>3 DEF PutContent
    <3>2. \A w : Received(w)' = Received(w)
      BY <3>1 DEF Received
    <3>3. InOrder(task[q].content, Received(u))
      BY <2>3 DEF WholeInv
    <3>4. \A w \in DOMAIN completed' : InOrder(completed'[w], Received(w))
      BY <3>1, <3>3 DEF With, WholeInv
    <3> QED BY <2>1, <2>2, <3>2, <3>4 DEF WholeInv, At, Held
  <2>4. CASE ~At(q, "put_upload")
    <3>1. /\ Acknowledge(task[q].upload, task[q].number, task[q].content[1])
          /\ completed' = completed /\ ~IsPartNumber(task[q].number)
      BY <1>7, <2>4 DEF PutContent, TypeInv, TaskOK, At
    <3>2. \A w \in DOMAIN acked : Received(w)' = Received(w)
      BY <3>1, UnparsedNotRecorded
    <3> QED BY <2>1, <2>2, <3>1, <3>2, NothingCompletes DEF Held
  <2> QED BY <2>3, <2>4
<1>8. ASSUME NEW q \in Requests, PutContentFails(q)
      PROVE  WholeInv'
  BY <1>0, <1>8, BecomeIs, NothingCompletes DEF PutContentFails, NoTask, Held
<1>9. CASE Restart
  BY <1>0, <1>9, NoParts, NothingCompletes DEF Restart, NoTask
<1>10. CASE UNCHANGED vars
  BY <1>10 DEF vars, WholeInv, Received, At, Held
<1> QED BY <1>1, <1>2, <1>3, <1>4, <1>5, <1>6, <1>7, <1>8, <1>9, <1>10 DEF Next

\* The object that a completed upload became is every part its clients were told
\* is received, in the order of the numbers: for any number of parts, uploads
\* and requests, however the parts, completions and aborts race each other.
THEOREM UploadsAreWhole == Spec => []CompletedIsWhole
<1>1. Init => TypeInv /\ EndInv /\ WholeInv
  <2>1. Init => WholeInv
    BY NoParts DEF Init, InitSlots, NoTask, WholeInv, At, Held
  <2> QED BY <2>1, TypeInvInit, EndInvInit
<1>2. TypeInv /\ EndInv /\ WholeInv /\ [Next]_vars => (TypeInv /\ EndInv /\ WholeInv)'
  BY TypeInvNext, EndInvNext, WholeInvNext
<1>3. WholeInv => CompletedIsWhole
  BY DEF WholeInv, Received, CompletedIsWhole
<1> QED BY <1>1, <1>2, <1>3, PTL DEF Spec

=============================================================================
