------------------------------ MODULE ReadPath ------------------------------
(***************************************************************************)
(* GetObject and HeadObject (src/src/s3/get_object.rs, head_object.rs)     *)
(* beside the requests that change the stores.                             *)
(*                                                                         *)
(* Both read the row once and answer by it.  GetObject hands out the CID,  *)
(* as the body of a stream from the node, which goes on after the handler  *)
(* has answered, or as a redirect that the client follows when it likes.   *)
(* A client keeps its answer until it is done with it; nothing in the      *)
(* server keeps the content for it, and what the node delivers is the      *)
(* node's.                                                                 *)
(***************************************************************************)
EXTENDS ObjectStore

CONSTANTS
  Readers,     \* clients that read, one request at a time
  Readable,    \* the objects they name
  Mode         \* config.mode

VARIABLES
  known,       \* history: [Objects -> what the answers so far tell of them]
  reader       \* [Readers -> the request of the reader and its answer]

readVars == <<vars, known, reader>>

\* Nothing is known of an object while a request on it has no answer yet, or
\* has ended without one that tells; nor when requests on it overlap.
Asked == "asked"
Overlapping == "overlapping"

ASSUME ReadersAssumption ==
  /\ Readable \subseteq Objects
  /\ Mode \in {"redirect", "proxy", "auto"}
  /\ {Asked, Overlapping} \cap (Cids \cup {NoCid}) = {}

\* "was" is what was known when the reader asked, if nobody has asked for a
\* change of the object before it was answered.
NoRead == [at |-> "idle", obj |-> NoObject, was |-> Asked, cid |-> NoCid]

Reads(r, label) == reader[r].at = label
Unanswered(r) == reader[r].at \in {"get", "head"}
BecomeReader(r, v) == reader' = [reader EXCEPT ![r] = v]

-----------------------------------------------------------------------------
(***************************************************************************)
(* The requests that change the stores.                                    *)
(***************************************************************************)
Busy(o) == \E q \in Requests : InHandler(q) /\ task[q].obj = o

AskWrite(p) ==
  /\ Ask(p)
  /\ known' = [known EXCEPT ![task'[p].obj] =
                 IF Busy(task'[p].obj) THEN Overlapping ELSE Asked]
  /\ reader' = [r \in Readers |->
                  IF Unanswered(r) /\ reader[r].obj = task'[p].obj
                  THEN [reader[r] EXCEPT !.was = Asked]
                  ELSE reader[r]]

\* The answer tells what the object is now: for a DELETE, "new" is NoCid.
Tells(p) ==
  /\ InHandler(p) /\ task'[p].at \notin Handler
  /\ answer'[p] \in {"ok", "not_found"}
  /\ known[task[p].obj] = Asked

Write(p) ==
  /\ Step(p)
  /\ known' = IF Tells(p) THEN [known EXCEPT ![task[p].obj] = task[p].new] ELSE known
  /\ UNCHANGED reader

WriterLeaves(p) == Disconnect(p) /\ UNCHANGED <<known, reader>>

\* A client that was redirected is no longer connected.
ServerCrash ==
  /\ Crash
  /\ reader' = [r \in Readers |->
                  IF Reads(r, "redirected") THEN reader[r] ELSE NoRead]
  /\ UNCHANGED known

-----------------------------------------------------------------------------
(***************************************************************************)
(* GetObject and HeadObject.                                               *)
(***************************************************************************)
AskRead(r) ==
  /\ Reads(r, "idle")
  /\ \E o \in Readable, at \in {"get", "head"} :
       BecomeReader(r, [NoRead EXCEPT !.at = at, !.obj = o, !.was = known[o]])
  /\ UNCHANGED <<vars, known>>

Row(r) == GetObjectMetadata(reader[r].obj)

\* Mutant: a query that fails finds no row.
ReadRefusedAlike(r) ==
  /\ Unanswered(r)
  /\ Row(r) = NoCid \/ "get" \in Faulty
  /\ BecomeReader(r, [reader[r] EXCEPT !.at = "not_found"])
  /\ UNCHANGED <<vars, known>>

\* 404, or 500 when the query fails.
ReadRefused(r) ==
  /\ Unanswered(r)
  /\ \/ /\ Row(r) = NoCid
        /\ BecomeReader(r, [reader[r] EXCEPT !.at = "not_found"])
     \/ /\ "get" \in Faulty
        /\ BecomeReader(r, [reader[r] EXCEPT !.at = "error"])
  /\ UNCHANGED <<vars, known>>

\* HeadObject answers what the row says and never asks the node.
HeadObject(r) ==
  /\ Reads(r, "head")
  /\ Row(r) # NoCid
  /\ BecomeReader(r, [reader[r] EXCEPT !.at = "described", !.cid = Row(r)])
  /\ UNCHANGED <<vars, known>>

\* An address of RFC 6890 or of private_cidrs counts as private.
Proxies(private) == Mode = "proxy" \/ (Mode = "auto" /\ private)

GetObject(r) ==
  /\ Reads(r, "get")
  /\ Row(r) # NoCid
  /\ \E private \in BOOLEAN :
       BecomeReader(r, [reader[r] EXCEPT
         !.at = IF Proxies(private) THEN "streaming" ELSE "redirected",
         !.cid = Row(r)])
  /\ UNCHANGED <<vars, known>>

\* The client is done with its answer, or leaves; or the body breaks off.
DoneReading(r) ==
  /\ ~Reads(r, "idle")
  /\ BecomeReader(r, NoRead)
  /\ UNCHANGED <<vars, known>>

-----------------------------------------------------------------------------
ReadInit ==
  /\ Init
  /\ known = [o \in Objects |-> NoCid]
  /\ reader = [r \in Readers |-> NoRead]

ReadNext ==
  \/ ServerCrash
  \/ \E p \in Requests : AskWrite(p) \/ Write(p) \/ WriterLeaves(p)
  \/ \E r \in Readers :
       \/ AskRead(r) \/ ReadRefused(r) \/ HeadObject(r) \/ GetObject(r)
       \/ DoneReading(r)

ReadSpec == ReadInit /\ [][ReadNext]_readVars

-----------------------------------------------------------------------------
(***************************************************************************)
(* Properties.                                                             *)
(***************************************************************************)
\* What a client was told, a reader finds: when the requests on an object so
\* far were answered one after the other and none is sent while it reads, it
\* gets the content of the last PUT, and 404 only if there is none; whatever
\* else is served, fails or runs in the background, and whatever was lost
\* before the last answer.  A query that fails is no 404.
ReadsAcknowledged ==
  \A r \in Readers : reader[r].was \in Cids \cup {NoCid} =>
    /\ Reads(r, "not_found") => reader[r].was = NoCid
    /\ reader[r].cid # NoCid => reader[r].cid = reader[r].was

=============================================================================
