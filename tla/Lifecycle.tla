----------------------------- MODULE Lifecycle -----------------------------
(***************************************************************************)
(* The life of the server around the requests of ObjectStore: start,       *)
(* graceful shutdown, kill (src/src/main.rs).                              *)
(*                                                                         *)
(* On a signal the database pool is closed first, for three seconds at     *)
(* most; requests are still accepted, but a SQL call that has no           *)
(* connection of the pool yet fails.  Then the server accepts no more      *)
(* connections and waits, without a limit, for those it has: for handlers  *)
(* to answer, for clients to send the body that the handler takes as a     *)
(* whole, and for clients to read a streamed answer.  It does not wait for *)
(* background tasks: they end with the process.                            *)
(***************************************************************************)
EXTENDS ObjectStore

VARIABLES
  phase,      \* "up", "closing" the pool, "draining" the handlers, "down"
  holding,    \* the slots whose SQL call got a connection before the signal
  busy        \* from the signal on: whose client sends a body or reads a stream

lifeVars == <<vars, phase, holding, busy>>

\* A closed pool is a SQL call that fails, the end of the process a Crash.
ASSUME LifecycleAssumption ==
  /\ {"get", "store", "count", "delete", "like"} \subseteq Faulty
  /\ MayCrash

SqlLabels == {"put_get", "put_store", "put_count", "del_get", "del_row",
              "del_count", "trim_find"}

\* Mutant: a handler without a connection waits for the pool to open again.
PoolRefusesNever(p) == FALSE

PoolRefuses(p) == PutFails(p) \/ DeleteFails(p) \/ BackgroundFails(p)

PoolClosed(p) ==
  /\ phase \in {"closing", "draining"}
  /\ task[p].at \in SqlLabels
  /\ p \notin holding

-----------------------------------------------------------------------------
\* A client begins to send a request, or to read what a GET streams.  Before
\* the signal it makes no difference: those under way are chosen with it.
Connect(p) ==
  /\ phase = "closing"
  /\ p \notin busy /\ ~InHandler(p)
  /\ busy' = busy \cup {p}
  /\ UNCHANGED <<vars, phase, holding>>

\* The body is complete, and the handler runs.
Accept(p) ==
  /\ phase = "up" \/ p \in busy
  /\ Ask(p)
  /\ busy' = busy \ {p}
  /\ UNCHANGED <<phase, holding>>

\* The client has read its answer, or is gone.
Close(p) ==
  /\ p \in busy
  /\ busy' = busy \ {p}
  /\ UNCHANGED <<vars, phase, holding>>

Proceed(p) ==
  /\ IF PoolClosed(p) THEN PoolRefuses(p) ELSE Step(p)
  /\ holding' = holding \ {p}
  /\ UNCHANGED <<phase, busy>>

Hangup(p) ==
  /\ Disconnect(p)
  /\ PoolClosed(p) => UNCHANGED stores
  /\ holding' = holding \ {p}
  /\ UNCHANGED <<phase, busy>>

Signal ==
  /\ phase = "up"
  /\ phase' = "closing"
  /\ holding' \in SUBSET {p \in Requests : task[p].at \in SqlLabels}
  /\ busy' \in SUBSET {p \in Requests : ~InHandler(p)}
  /\ UNCHANGED vars

\* The connections are back, or the three seconds are over.
PoolCloses ==
  /\ phase = "closing"
  /\ phase' = "draining"
  /\ UNCHANGED <<vars, holding, busy>>

ProcessEnds ==
  /\ IF \E p \in Requests : Running(p) THEN Crash ELSE UNCHANGED vars
  /\ phase' = "down"
  /\ holding' = {}
  /\ busy' = {}

\* axum::serve returns when it has no connection left, main ends, the runtime
\* drops the tasks.
Exit ==
  /\ phase = "draining"
  /\ busy = {} /\ \A p \in Requests : ~InHandler(p)
  /\ ProcessEnds

Kill == phase # "down" /\ ProcessEnds

Start ==
  /\ phase = "down"
  /\ phase' = "up"
  /\ UNCHANGED <<vars, holding, busy>>

-----------------------------------------------------------------------------
LifeInit == Init /\ phase = "up" /\ holding = {} /\ busy = {}

LifeNext ==
  \/ Signal \/ PoolCloses \/ Exit \/ Kill \/ Start
  \/ \E p \in Requests : Connect(p) \/ Accept(p) \/ Close(p) \/ Proceed(p) \/ Hangup(p)

\* As in ObjectStore; the timeout is a timer of the runtime.  Nothing makes a
\* client send the rest of its request or read the rest of its answer.
LifeSpec ==
  /\ LifeInit /\ [][LifeNext]_lifeVars
  /\ \A p \in Requests : WF_lifeVars(Proceed(p))
  /\ WF_lifeVars(PoolCloses) /\ WF_lifeVars(Exit)

-----------------------------------------------------------------------------
(***************************************************************************)
(* Properties.                                                             *)
(***************************************************************************)
\* Nothing but a client that stalls keeps a server from stopping on a signal:
\* if it never stops, one and the same client sends its request, or reads its
\* answer, for ever.  No handler and no background task does, though the pool
\* they need is closed under them.
ServerStops ==
  <>[](phase \in {"closing", "draining"}) => \E p \in Requests : <>[](p \in busy)

=============================================================================
