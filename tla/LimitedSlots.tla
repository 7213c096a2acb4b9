---------------------------- MODULE LimitedSlots ----------------------------
(***************************************************************************)
(* LimitedSlotsMap (src/src/limited_slots.rs): the map of the multipart    *)
(* uploads in memory.  It is a DashMap, whose shards are hash tables of    *)
(* their own: the requested size is spread over the shards, each table is  *)
(* allocated with at least that room, and an insertion into a full table   *)
(* grows it.  DashMap 6 and hashbrown 0.14 are external; what they do to   *)
(* the capacity that the code reads is modelled here.                      *)
(***************************************************************************)
EXTENDS Integers, FiniteSets, Functions, FiniteSetsExt

CONSTANTS
  Uploads,             \* upload ids
  ConcurrentUploads,   \* config.concurrent_multipart_upload
  Shards,              \* the number of shards, a power of two from 4 * CPUs
  ShardOf              \* the shard that an id hashes to

ASSUME LimitedSlotsAssumption ==
  /\ ConcurrentUploads \in Nat
  /\ Shards \in Nat \ {0}
  /\ ShardOf \in [Uploads -> 1..Shards]

VARIABLES
  slots,   \* the entries, a function on the ids held
  room     \* [1..Shards -> the entries its table takes before it grows]

Held == DOMAIN slots

\* A map after the insertion of an entry, new or not.
With(map, key, value) ==
  [k \in DOMAIN map \cup {key} |-> IF k = key THEN value ELSE map[k]]

\* The sizes of a table: 3, 7, 14, 28, ...
NextRoom(n) == CASE n = 0 -> 3 [] n = 3 -> 7 [] OTHER -> 2 * n

\* The room of a table allocated for n entries; n is small.
RoomFor(n) ==
  CHOOSE r \in {0, 3, 7, 14, 28} :
    r >= n /\ \A other \in {0, 3, 7, 14, 28} : other >= n => r <= other

\* with_capacity: the size rounded up to a multiple of the shards.
InitialRoom ==
  [s \in 1..Shards |-> RoomFor((ConcurrentUploads + Shards - 1) \div Shards)]

CapacityOf(tables) == MapThenSumSet(LAMBDA s : tables[s], 1..Shards)

InitSlots ==
  /\ slots = <<>>
  /\ room = InitialRoom

\* check_capacity: "len < capacity", whatever the shard of the new key.
HasRoom == Cardinality(Held) < CapacityOf(room)

HeldIn(s) == {u \in Held : ShardOf[u] = s}

Insert(u, value) ==
  /\ slots' = With(slots, u, value)
  /\ room' = [room EXCEPT ![ShardOf[u]] =
                IF Cardinality(HeldIn(ShardOf[u])) < @ THEN @ ELSE NextRoom(@)]

\* Mutant: the entry is only read.
TakeNothing(u) == UNCHANGED <<slots, room>>

Take(u) ==
  /\ slots' = Restrict(slots, Held \ {u})
  /\ UNCHANGED room

=============================================================================
