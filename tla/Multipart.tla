----------------------------- MODULE Multipart -----------------------------
(***************************************************************************)
(* Multipart uploads: CreateMultipartUpload and CompleteMultipartUpload    *)
(* (src/src/s3/post_object.rs), UploadPart (put_object.rs) and             *)
(* AbortMultipartUpload (delete_object.rs) over the slots in memory.       *)
(*                                                                         *)
(* The handlers run in parallel on the threads of the runtime.  An access  *)
(* to the map is atomic, the reference that UploadPart holds to a slot     *)
(* keeps its shard locked.  The put_object that a completion awaits is     *)
(* what S3Store promises of it: it takes effect in one step or not at all. *)
(***************************************************************************)
EXTENDS LimitedSlots, SequencesExt, Subsequences

CONSTANTS
  Requests,    \* request slots
  Keys,        \* objects that a request may name
  Numbers,     \* the part numbers that clients send
  Bodies       \* the contents of the parts

ASSUME NumbersAssumption == Numbers \subseteq Int

VARIABLES
  task,        \* [Requests -> what the handler of the slot is about to do]
  objects,     \* the table: a function on the keys stored, to their content
  \* History: what the clients were told, and what the uploads became.
  acked,       \* created upload -> number -> the body last acknowledged
  completed    \* stored upload -> the content stored

vars == <<slots, room, task, objects, acked, completed>>

NoTask == [at |-> "idle"]

At(q, label) == task[q].at = label
Become(q, t) == task' = [task EXCEPT ![q] = t]

\* Mutant: it parses as a u8, and wraps when it is stored.
IsPartNumberUnsigned(n) == n \in 0..255

\* partNumber parses as an i8.
IsPartNumber(n) == n \in (-128)..127

\* Mutant: in the order of arrival, say the reverse.
CollateReversed(parts) == Reverse(Subsequence(parts, DOMAIN parts))

\* The bodies in the order of their numbers, whichever numbers there are.
Collate(parts) == Subsequence(parts, DOMAIN parts)

Acknowledge(u, n, body) ==
  acked' = IF u \in DOMAIN acked
           THEN [acked EXCEPT ![u] = With(@, n, body)]
           ELSE acked

-----------------------------------------------------------------------------
(***************************************************************************)
(* CreateMultipartUpload.  The capacity is checked before the insertion,   *)
(* not under its lock.                                                     *)
(***************************************************************************)
CheckCapacity(q) ==
  /\ At(q, "idle")
  /\ HasRoom
  /\ Become(q, [at |-> "insert"])
  /\ UNCHANGED <<slots, room, objects, acked, completed>>

\* The id is random and new.
CreateMultipartUpload(q) ==
  /\ At(q, "insert")
  /\ \E u \in Uploads \ DOMAIN acked :
       /\ Insert(u, <<>>)
       /\ acked' = With(acked, u, <<>>)
  /\ Become(q, NoTask)
  /\ UNCHANGED <<objects, completed>>

(***************************************************************************)
(* UploadPart.  The parameters are an optional group: with a partNumber    *)
(* that does not parse there is no group, and the request is a PutObject.  *)
(***************************************************************************)
UploadPart(q) ==
  /\ At(q, "idle")
  /\ \E u \in Held, n \in Numbers, body \in Bodies :
       /\ IsPartNumber(n)
       /\ slots' = [slots EXCEPT ![u] = With(@, n, body)]
       /\ Acknowledge(u, n, body)
  /\ UNCHANGED <<room, task, objects, completed>>

PutUnparsedPart(q) ==
  /\ At(q, "idle")
  /\ \E u \in Uploads, n \in Numbers, body \in Bodies, k \in Keys :
       /\ ~IsPartNumber(n)
       /\ Become(q, [at |-> "put_part", upload |-> u, number |-> n,
                     key |-> k, content |-> <<body>>])
  /\ UNCHANGED <<slots, room, objects, acked, completed>>

(***************************************************************************)
(* CompleteMultipartUpload takes the slot out of the map, whatever key and *)
(* parts the request lists, then stores the content as put_object does.    *)
(***************************************************************************)
CompleteMultipartUpload(q) ==
  /\ At(q, "idle")
  /\ \E u \in Held, k \in Keys :
       /\ Take(u)
       /\ Become(q, [at |-> "put_upload", upload |-> u, key |-> k,
                     content |-> Collate(slots[u])])
  /\ UNCHANGED <<objects, acked, completed>>

\* Whether the client is still there to be answered or not.
PutContent(q) ==
  /\ task[q].at \in {"put_part", "put_upload"}
  /\ objects' = With(objects, task[q].key, task[q].content)
  /\ IF At(q, "put_upload")
     THEN /\ completed' = With(completed, task[q].upload, task[q].content)
          /\ UNCHANGED acked
     ELSE /\ Acknowledge(task[q].upload, task[q].number, task[q].content[1])
          /\ UNCHANGED completed
  /\ Become(q, NoTask)
  /\ UNCHANGED <<slots, room>>

\* An error or a connection closed: the parts of an upload are lost.
PutContentFails(q) ==
  /\ task[q].at \in {"put_part", "put_upload"}
  /\ Become(q, NoTask)
  /\ UNCHANGED <<slots, room, objects, acked, completed>>

\* AbortMultipartUpload answers 204 whether the upload was there or not.
AbortMultipartUpload(q) ==
  /\ At(q, "idle")
  /\ \E u \in Held : Take(u)
  /\ UNCHANGED <<task, objects, acked, completed>>

\* The slots are in memory only.
Restart ==
  /\ slots' = <<>>
  /\ room' = InitialRoom
  /\ task' = [q \in Requests |-> NoTask]
  /\ UNCHANGED <<objects, acked, completed>>

-----------------------------------------------------------------------------
Init ==
  /\ InitSlots
  /\ task = [q \in Requests |-> NoTask]
  /\ objects = <<>> /\ acked = <<>> /\ completed = <<>>

Next ==
  \/ \E q \in Requests :
       \/ CheckCapacity(q) \/ CreateMultipartUpload(q)
       \/ UploadPart(q) \/ PutUnparsedPart(q)
       \/ CompleteMultipartUpload(q) \/ AbortMultipartUpload(q)
       \/ PutContent(q) \/ PutContentFails(q)
  \/ Restart

Spec == Init /\ [][Next]_vars

-----------------------------------------------------------------------------
(***************************************************************************)
(* Properties.                                                             *)
(***************************************************************************)
Parts == UNION {[N -> Bodies] : N \in SUBSET Numbers}

\* Type correctness of the map, the handlers and the history.  The keys of a
\* slot are the i8 of DashMap<i8, Bytes> (main.rs).
TypeOK ==
  /\ Held \subseteq DOMAIN acked /\ DOMAIN acked \subseteq Uploads
  /\ \A u \in Held : slots[u] \in Parts /\ DOMAIN slots[u] \subseteq (-128)..127
  /\ room \in [1..Shards -> Nat]
  /\ \A q \in Requests :
       task[q].at \in {"idle", "insert", "put_part", "put_upload"}
  /\ DOMAIN objects \subseteq Keys
  /\ \A u \in DOMAIN acked : acked[u] \in Parts
  /\ DOMAIN completed \subseteq DOMAIN acked
  /\ \A u \in DOMAIN completed : completed[u] \in Seq(Bodies)

\* The content is the parts one after another, by number.
InOrder(content, parts) ==
  /\ Len(content) = Cardinality(DOMAIN parts)
  /\ \A n \in DOMAIN parts :
       content[Cardinality({m \in DOMAIN parts : m <= n})] = parts[n]

\* The object that a completed upload became is every part its clients were
\* told is received, in the order of the numbers: no UploadPart that overlaps
\* the completion is acknowledged and lost.  The numbers that do not parse are
\* left out here, StoredOnlyWhenCompleted is about them.
CompletedIsWhole ==
  \A u \in DOMAIN completed :
    InOrder(completed[u], Restrict(acked[u], {n \in DOMAIN acked[u] : IsPartNumber(n)}))

\* An upload ends once.  While it is held nobody stores it; a completion sent
\* twice, or racing an abort, finds no slot (post_object.rs removes it before
\* it stores), so that one completion at most stores the upload.
EndsOnce ==
  \A u \in Uploads :
    Cardinality({q \in Requests : At(q, "put_upload") /\ task[q].upload = u})
      + Cardinality({u} \cap Held) + Cardinality({u} \cap DOMAIN completed) <= 1

\* Content is stored "only when completed": what a key holds is what some
\* completed upload collated.
StoredOnlyWhenCompleted ==
  \A k \in DOMAIN objects : \E u \in DOMAIN completed : objects[k] = completed[u]

\* The map holds no more uploads than the capacity it was created with, which
\* DashMap rounds up from the configured one: no insertion makes it grow.
HeldWithinCapacity == Cardinality(Held) <= CapacityOf(InitialRoom)

=============================================================================
