------------------------------ MODULE S3Store ------------------------------
(***************************************************************************)
(* What a client of the service is promised: a table of objects, on which  *)
(* every PutObject takes effect in one step before it is acknowledged, and *)
(* an error of PutObject means that nothing happened.  DeleteObject        *)
(* promises less: its effect is one step too, but it may be followed by an *)
(* error answer.  ObjectStore implements this module.                      *)
(***************************************************************************)
EXTENDS Database

CONSTANTS Requests, Targets, Contents

VARIABLE call   \* [Requests -> what the request asked and was answered]

Idle(a) ==
  [state |-> "idle", op |-> "none", obj |-> NoObject, cid |-> NoCid,
   answer |-> a]

Pending(op, o, c) ==
  [state |-> "pending", op |-> op, obj |-> o, cid |-> c, answer |-> "none"]

Effective(o) ==
  [state |-> "effective", op |-> "delete", obj |-> o, cid |-> NoCid,
   answer |-> "none"]

Answer(p, a) == call' = [call EXCEPT ![p] = Idle(a)]

Init ==
  /\ InitDatabase
  /\ call = [p \in Requests |-> Idle("none")]

Ask(p) ==
  /\ call[p].state = "idle"
  /\ \E o \in Targets[p] :
       \/ call' = [call EXCEPT ![p] = Pending("delete", o, NoCid)]
       \/ \E c \in Contents[p] :
            call' = [call EXCEPT ![p] = Pending("put", o, c)]
  /\ UNCHANGED rows

Put(p) ==
  /\ call[p].state = "pending" /\ call[p].op = "put"
  /\ IsValidKey(call[p].obj)
  /\ StoreObjectMetadata(call[p].obj, call[p].cid)
  /\ Answer(p, "ok")

RefusePut(p) ==
  /\ call[p].state = "pending" /\ call[p].op = "put"
  /\ ~IsValidKey(call[p].obj)
  /\ Answer(p, "bad_request")
  /\ UNCHANGED rows

\* The row may be gone already: two deletions of one object can both succeed.
Delete(p) ==
  /\ call[p].state = "pending" /\ call[p].op = "delete"
  /\ DeleteObjectRow(call[p].obj)
  /\ call' = [call EXCEPT ![p] = Effective(call[p].obj)]

FinishDelete(p) ==
  /\ call[p].state = "effective"
  /\ \E a \in {"ok", "error"} : Answer(p, a)
  /\ UNCHANGED rows

NotFound(p) ==
  /\ call[p].state = "pending" /\ call[p].op = "delete"
  /\ GetObjectMetadata(call[p].obj) = NoCid
  /\ Answer(p, "not_found")
  /\ UNCHANGED rows

\* No effect; a deletion whose effect lost its reply is Delete, FinishDelete.
Fail(p) ==
  /\ call[p].state = "pending"
  /\ Answer(p, "error")
  /\ UNCHANGED rows

\* The client is gone: the request ends unanswered, its effect may happen.
Vanish(p) ==
  /\ call[p].state # "idle"
  /\ Answer(p, "none")
  /\ \/ UNCHANGED rows
     \/ /\ call[p].state = "pending" /\ call[p].op = "put"
        /\ StoreObjectMetadata(call[p].obj, call[p].cid)
     \/ /\ call[p].state = "pending" /\ call[p].op = "delete"
        /\ DeleteObjectRow(call[p].obj)

Crash ==
  /\ call' = [p \in Requests |-> Idle("none")]
  /\ UNCHANGED rows

Next ==
  \/ \E p \in Requests :
       \/ Ask(p)
       \/ Put(p) \/ RefusePut(p)
       \/ Delete(p) \/ FinishDelete(p) \/ NotFound(p)
       \/ Fail(p) \/ Vanish(p)
  \/ Crash

Spec == Init /\ [][Next]_<<rows, call>>

=============================================================================
