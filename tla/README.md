# A TLA+ model of aricanduva

`aricanduva` is an S3 gateway in front of an IPFS node: `PUT` adds the body to
the node (which pins it), links it into the node's mutable file system (MFS) so
that the garbage collector keeps it, and records `(bucket, key) -> CID` in a
SQLite table; `GET` looks the CID up and redirects or streams. The hard part is
that **three stores have to agree** - the table, the pins and the MFS - while
handlers run concurrently, spawn background tasks, share nothing but those
stores, take no locks and no transactions, and may fail, be dropped or be
killed at every `await`. That is what the modules here are about.

Paths below are relative to the repository.

## 1. Inventory

| Part | Source | State | Operations |
|---|---|---|---|
| Metadata table | `src/database.rs`, `migrations/` | one row per (bucket, key) | upsert, get, delete, count of a CID, LIKE query of the trimming |
| IPFS client and node | `src/ipfs.rs`, Kubo (external) | pins; files and directories of the MFS | `add`, `files cp`, `files rm`, `pin rm` (and `cat`, `version`, which read) |
| PutObject | `src/s3/put_object.rs` | its locals across awaits | get old row, normalize, add, cp, upsert, spawn the unpinning of the old CID, answer |
| DeleteObject | `src/s3/delete_object.rs` | its locals | get row, unlink, delete row, unpin if orphan, spawn the trim, answer |
| unpin_if_orphan | `src/s3/mod.rs` | the count it read | count references, unpin when zero |
| Folder trimming | `src/database.rs:174`, `delete_object.rs:87` | the shallowest ancestor so far | one query per ancestor, one recursive unlink |
| Multipart upload | `src/s3/post_object.rs`, `put_object.rs:41`, `delete_object.rs:24` | parts by number, in memory | create, upload part, complete, abort |
| Limited slots | `src/limited_slots.rs` | a `DashMap` | insert if below capacity, get, remove |
| DeleteObjects | `src/s3/post_bucket.rs` | the keys left, two lists of results | `delete_object` for one key after another, the report |
| GetObject, HeadObject | `src/s3/get_object.rs`, `head_object.rs` | the row it read | read the row, redirect to the gateway or stream the CID |
| Authorization | `src/s3/authorization.rs:21-374` | - | canonical request, SigV4 check of a header or of query parameters |
| Chunked bodies | `src/s3/authorization.rs:376-422` | the part of the body that is read, the chunk it is in | decode `aws-chunked` while the body arrives |
| Start, shutdown | `src/main.rs` | the database pool, the connections | on a signal the pool is closed (3 s), then every connection is awaited |
| Bucket endpoint, health check | `get_bucket.rs`, `info.rs` | - | constant answers; two pings |
| Routes and CORS, CLI | `src/s3/mod.rs`, `cli.rs` | configuration | dispatch, parsing of options |

How they interact: the handlers call the table and the node one call at a time;
a PUT and a DELETE answer and leave a **background task** behind
(`tokio::spawn`) that goes on calling the same stores while the next requests
run. A completed multipart upload calls `put_object`; DeleteObjects calls
`delete_object` key by key, while the trims of the first keys already run. A GET
reads the table once and goes on to read the node after it has answered. Every
S3 route lies behind the authorization layer if credentials are configured; the
same layer puts the chunk decoder between the connection and the handler. When a
client closes its connection the handler future is dropped at the `await` it is
in; spawned tasks go on. When the process dies everything but the table and the
node is lost, the multipart slots included.

What makes each part correct, in a line: table, node and reference counting
agree (pins and files neither too few nor too many); a request is atomic on the
table; a trim takes empty folders only, and takes them all; a completed upload
is the parts its clients sent, and is stored once; no more uploads are held than
configured; a reader finds what the writers were told; a batch deletes what it
reports and fails on nothing it should delete; only what was signed is handled,
and all that was; the handler gets the body its client sent; nothing but a client
that stalls keeps a signalled server.

Hard behaviours and the properties that go with them (the full list, with
lines, is `hazards` in `PROJECT.json`):

* counting references and unpinning are two calls (`RowsPinned`,
  `PinsAccounted`, `OrphansUnpinned`);
* searching for an empty folder and removing it are many calls
  (`TrimSparesLive`, `TidyWhenIdle`, `FoldersTrimmed`);
* the link and the row are two calls (`RowsLinked`, `LinksAccounted`);
* any call may fail, with or without its effect, the client may leave, the
  process may die (`ImplementsS3Store`, `RowsPinned`, `TrimSparesLive`);
* multipart requests race each other (`CompletedIsWhole`, `EndsOnce`), take the
  wrong branch (`StoredOnlyWhenCompleted`) or exceed a limit
  (`HeldWithinCapacity`);
* a key, its `LIKE` pattern and its path in the MFS do not always mean the same
  objects (`LinksAccounted`, `TrimSparesLive`);
* a GET reads the table by itself, beside PUTs and DELETEs that are answered,
  fail or are given up (`ReadsAcknowledged`);
* a batch of deletions races its own trims, and fails in its middle
  (`BatchSucceeds`, `DeletedIsGone`, `BatchEnds`);
* two ways to sign, and a canonical form that two programs must agree upon
  (`HandledAsSigned`, `GenuineAccepted`);
* a chunked body ends or breaks off anywhere (`BodyIsPayload`, `BodyEnds`);
* the pool is closed under handlers that are then awaited without a limit, like
  every connection (`ServerStops`).

## 2. Modules

```
ObjectPaths  <-- Database  <-- S3Store                     (abstract)
     ^               ^             ^  refinement: AbstractCall
     +-- IpfsNode <--+-- ObjectStore
                             ^
        +----------------+---+-----------+----------------+
        |                |               |                |
   MCObjectStore      ReadPath     DeleteObjects      Lifecycle
                         ^               ^                ^
                     MCReadPath   MCDeleteObjects    MCLifecycle    (TLC)

LimitedSlots <-- Multipart <-- MCMultipart                          (TLC)
SigV4 <-- Gateway <-- MCGateway                                     (TLC)

SequenceProofs <-- ObjectStoreProofs <-- NodeProofs     (TLAPS)
   ^                                         ^
   |                                    FolderProofs <-- CompositionProofs
   +-- MultipartProofs
   +-- GatewayProofs
   +-- BodyProofs
```

An arrow points from a module to those that extend it. ReadPath, DeleteObjects
and Lifecycle each compose ObjectStore with one more part of the server: they
take its actions and add state of their own, so that every behaviour of theirs
is one of ObjectStore when the new state is hidden. That is proved (section 5),
and it is why the theorems about ObjectStore hold of them.

**Subsequences** - what the components of a path that are kept, the signed headers
and the parts of an upload have in common: the values of a function at some of
its indices, in their order. It is defined by counting instead of by recursion, so
that facts about it can be proved.

**ObjectPaths** - an object is its bucket and the segments between the slashes
of its key. `NormalizedPath` is `normalized_path`: empty segments and `.` vanish,
`..` takes the segment before it away, so that `a//x`, `a/./x`, `d/../a/x` and
`a/x` share one path. `IsValidKey` is what `push_checked` lets pass: no key that
starts with a slash or climbs above its root. `AncestorDepths` is
`UnixPath::ancestors`, which works on the key as it is written. `IsLike` is the
`LIKE '<ancestor>/%'` of the trimming. The ancestor is not escaped and `LIKE` folds
ASCII case, so that it also finds objects outside of the folder: which ones is all
that the characters of a key decide, and it is the constant `StrayMatches`.

**Database** - `rows`, one operator per query; a query is one statement and
atomic.

**IpfsNode** - external: `pins`, `links` and `dirs`, with the behaviour of the
four calls that the client relies on and the errors the handlers see (no such
path, no such pin, a file or directory in the way). One CID per content. The
garbage collector is not in it: what it would take is what is neither pinned nor
linked, and the properties speak of pins and links.

**ObjectStore** - the core. `task[p]` is what slot `p` runs and the call it
awaits (the label), with the locals that outlive an `await`; `answer[p]` is what
its client last heard. A step is one call together with what the handler does
with its result: everything between two awaits touches only locals, so finer
steps add no behaviour. A slot runs a request, answers, then runs the background
task the request spawned; another slot plays the next request meanwhile. That a
slot takes no new request before its background task has ended bounds the number
of background tasks by the number of slots; two slots are enough for the next
request of the same client to overtake the task.

| Code | Actions |
|---|---|
| `put_object` | `PutObject`, `PutGetMetadata`, `PutInvalidKey`, `PutAdd`, `PutCp`, `PutStore`, `PutFails` |
| the task it spawns | `PutCountOld`, `PutUnpinOld`, `BackgroundFails` |
| `delete_object` | `DeleteObject`, `DeleteGetMetadata`, `DeleteNotFound`, `DeleteUnlink`, `DeleteRow`, `DeleteCountRemaining`, `DeleteUnpin`, `DeleteFails` |
| the task it spawns | `TrimNextAncestor`, `TrimLastAncestor`, `TrimAncestorInUse`, `TrimUnlink`, `BackgroundFails` |
| connection closed | `Disconnect` |
| kill and restart | `Crash` |

`CallFails` is the error of the awaited call: the node refuses it, or it fails
for another reason (`Faulty`); a call over HTTP may then have had its effect, a
SQL statement has not. The same holds when the handler is dropped
(`Disconnect`). Effects that reach the node later than that are not modelled.

**Lifecycle** - `phase` is where `run` (`main.rs:92`) stands, `holding` the slots
whose SQL call had its connection before the signal, `busy` those whose client is
on a connection without a handler: it sends the body that the handler takes as a
whole (`put_object.rs:39`) or reads a streamed answer (`get_object.rs:50`). A slot
that awaits a SQL call without a connection of the pool is refused (`PoolRefuses`:
the handler goes on as after any other error) from `Signal` on; the others go on.
While the pool closes the server still accepts (`Connect`), afterwards only the
requests that are on their way reach a handler (`Accept`). `PoolCloses` is the end
of `pool.close()` or of its timeout, whichever is first, and may come at any time:
a shorter wait is one more interleaving. `Exit` waits for every connection, busy or
in a handler, without a limit (`main.rs:141`), but not for the background tasks,
which end with the process: ObjectStore's `Crash`. `Kill` is a crash in any phase.

**ReadPath** - `reader[r]` is the request of a reader and its answer. `GetObject`
answers with a redirect or with a stream and keeps the CID of the row; `HeadObject`
answers from the row; a row that is missing and a query that fails are two answers
(`ReadRefused`). The choice between redirect and proxy depends on the address of
the client (`Proxies`); which addresses count as private is left open.
`ServerCrash` ends the streams; a redirect survives it. `known` is history: what
the answers to the writers tell of each object. It is `Asked` from the moment a
request on it is sent until an answer that tells (a failure does not), and
`Overlapping` once two requests on it were under way together, since no answer
says which came last. `was` is what was known when a reader asked, if nobody has
asked for a change since. That the node delivers the content is left to the node.

**DeleteObjects** - `batch` is the loop of `modify_bucket`: the keys left, the slot
that runs `delete_object` for the first of them, the two lists of the report, and
`found` (history: the objects there were at the beginning). The client that sends
batches owns `BatchSlots`; it sends PUTs between its batches, and is `Settled`
before a batch begins. Several slots are needed because the trim a deletion
spawns goes on while the next key is deleted; they bound the trims that run at
once, not the length of the batch.

**S3Store** - what a client is promised: a table on which each request takes
effect in one step before its answer. A PUT answered with an error had no
effect; a DELETE may answer an error after its effect (`unpin_if_orphan` is
awaited after the row is gone), which is why it has the state `effective`.
`ObjectStore!AbstractCall` maps labels to those states.

**LimitedSlots** - the map of uploads as `insert` sees it: `HasRoom` is
`len() < capacity()` over the whole map, `Insert` a later step. What DashMap 6
and hashbrown 0.14 make of the requested size - a table per shard, with room for
3, 7, 14, ... entries, grown when a shard is full - is external and modelled
because the code reads it. Reading the length shard by shard is one step here.

**Multipart** - one action per operation of the protocol. A `put_object` that a
completion awaits is a single step, taken or not taken, as proved of ObjectStore
(`RequestsAreAtomic`). `acked` and `completed` are history: the parts that
clients were told are received, the contents that uploads became. An UploadPart
or a completion of an unknown upload answers 400 and changes nothing, so it is
no action. Upload ids are random and never repeat.

**SigV4** - the canonical request as `authorization.rs` builds it, beside the one
that a client builds by the rules of AWS (external). Both are tuples of the
parts of a request, and a signature is the secret with the text it signs: hashes
and HMAC are free constructors, so that what is checked is what is signed, not
how it is hashed. A path is a key and how often it is percent-encoded. The
headers are a function on their names; the two orders, of the names
(`NameOrder`) and of the lines `name:value` that the code sorts (`LineOrder`),
are constants, because they are all that matters of the characters. Names are in
lower case and values are trimmed and single on both sides.

**Gateway** - one request from the wire to the handler: `Send` (client),
`Rewrite` (a proxy changes one part, once, and never the credentials), `Authorize`, then the body, which arrives
symbol by symbol (`Arrive`) and ends cleanly or not (`End`). `NextChunk` is one
round of `streaming_chunk_body`, and its early returns are `LastChunk`,
`ChunkFails` and `NoSizePanics`. The sizes are numerals without leading zeros in
any base (`Digits`; sixteen in the code, two in the runs), signature and line ends
are single symbols. The client may cut its payload into chunks in every way
(`Cuts`).
`SizeRead` is what `read_until(b';')` returns, at the end of the body without
the `;`, whose last byte the code drops all the same. The handlers take the body
as `Bytes`: they run when it is complete, and the extractor answers 400 to an
error and 413 beyond `MaxBody`.

## 3. Runs

Every configuration names its bounds; there are no state constraints.

| Run | Checks | Bounds | What it shows |
|---|---|---|---|
| `shutdown` | `RowsPinned`, `ServerStops` | Lifecycle, 2 slots with their own objects (one a file in the way of another's folder) and contents; every failure, disconnect, kill, shutdown | nothing live is unpinned, and only a stalled client keeps a signalled server |
| `shared_contents` | `TypeOK`, `PinsAccounted`, `LinksAccounted`, `OrphansUnpinned` | ObjectStore, 2 slots, own keys (two of them with one path, two invalid) in one folder, the same 2 contents; the failures that do not leak | no pin and no file is left behind, and orphans do go |
| `reads` | `ReadsAcknowledged`, `ImplementsS3Store` | ReadPath, 2 slots that share an object and a content, 1 reader, no trims; every failure, disconnect, crash | the requests are atomic on the table, and a reader finds what the writers were told |
| `batch` | `RowsLinked`, `TidyWhenIdle`, `BatchSucceeds`, `FoldersTrimmed` | DeleteObjects, batches of up to 2 keys of one folder with one content, 2 slots, another client with 1 slot; no failures | the trims of a batch disturb neither its deletions nor anybody's files, and leave no empty folder |
| `interrupted_batch` | `DeletedIsGone`, `BatchEnds`, `TrimSparesLive` | the batch client alone, 3 keys in 2 folders, one nested and one a pattern that matches the other, 1 content; every failure, disconnect, crash | the report is true, every batch ends, no trim takes a live file |
| `uploads` | `TypeOK`, `CompletedIsWhole`, `EndsOnce` | Multipart, 2 requests, 2 uploads, numbers 1, 127 and 128, 2 bodies, restarts | parts are neither lost nor mixed up, an upload is stored at most once |
| `authorized` | `HandledAsSigned`, `GenuineAccepted`, `BodyIsPayload`, `BodyEnds` | Gateway, 2 keys, 3 headers, payloads of up to 3 symbols, binary sizes, a body limit of 2 | only and all that was signed is handled, with the whole body |
| `unpin_race` | `RowsPinned` violated | 1 sequential client, 1 key, 2 contents, 2 slots | see section 4 |
| `trim_race` | `TrimSparesLive` violated | 1 sequential client, 1 key, 2 slots | see section 4 |
| `part_numbers` | `StoredOnlyWhenCompleted` violated | 1 request, number 128 | see section 4 |
| `capacity` | `HeldWithinCapacity` violated | 2 requests, 7 uploads, 2 shards | see section 4 |
| `encoded_key` | `GenuineAccepted` violated | 2 keys, one with a space | see section 4 |

Why the bounds are enough. Every hazard of the stores is a race of two tasks, so
that two slots make it happen; in `batch` the third one belongs to another
client whose folder lies in the same bucket. Two contents let a content be
overwritten and come back, another client has its own. The objects give the
trimming one, two and three ancestors, a folder in a folder, a file where a
folder is needed, a key with `..` and one that climbs out of its bucket. A batch of
two keys has a first trim that runs under a later deletion, a repeated key and a
failure before a success; of three keys one stays, which the trims must spare.
Readers touch nothing that another one sees: one is enough. A payload of three
symbols is cut in all four ways, has chunk sizes of one and of two digits (so
that a size cut before its `;` is another size) and exceeds the limit by one,
and the empty payload has the empty chunk only; each body ends at every place
where it can. The payload is `1;0`, which looks like the sizes around it, so
that a decoder that loses its place reads on. `OneAtATime` in `unpin_race` and
`trim_race` makes the client sequential: it sends a request only when the one
before is answered, so that only the background tasks overlap it.

**Circumstances.** Some properties hold only when clients keep out of each
other's way, and the model says so instead of weakening the property:
`Exclusive` (no two slots name the same object), `OwnContents` (nor the same
content), `NoFileInTheWay`, `Undisturbed` (no disconnect, no crash),
`NoLeakingFault` (no failure between the add and the upsert, none of
`unpin_if_orphan`: after those the code leaves the pin, knowingly or not).
`Exclusive` also excludes a client that comes back to an object before its own
background task has ended: the violation runs are about that. The batch client
comes back to its objects, and waits for its background tasks first (`Settled`);
within a batch it does not wait. `RowsLinked`, `TidyWhenIdle` and `BatchSucceeds`
need that no call fails: the code leaves a row without a link, or an empty
folder, behind a failure between the two. `TidyWhenIdle` and `FoldersTrimmed` need
that no pattern finds a stray row: `batch` has none, `interrupted_batch` has one.
`GenuineAccepted` in `authorized` has keys and header names on which the two
canonical forms agree; `encoded_key` has another key. `BodyIsPayload` leaves out a chunked body that is sent to a server
without credentials, where the decoder is absent.

**Fairness.** `FairSpec`, `FairBatchSpec` and `LifeSpec` have weak fairness of each
slot's step: every call to a store returns, with a result or an error, and the
runtime polls a task that is ready. Nothing makes a client ask, leave or return,
and a failure is never required to happen. A slot that runs something always has
a step enabled, since each call either succeeds or is refused. `FairSpec` is the
server while nobody leaves and nothing crashes, since after a crash the orphans
stay. `FairBatchSpec` adds that the loop of a batch goes on by itself, `LifeSpec`
that the timeout of the pool fires and that `axum::serve` returns when the last
connection is gone. It says nothing of the clients: one that stalls in the middle
of its body, or of a streamed answer, is `busy` for ever and the server with it,
since no timeout limits the wait. `ServerStops` therefore does not promise the end;
it says that **one and the same client that stalls for ever** is the only thing that
can keep it, and that no handler and no task does, though the pool is closed under
them. Gateway has weak fairness of `Read`: a body that can be read is read. The connection owes nothing, so that a client that sends half a
body and stays silent keeps its handler waiting: the code has no timeout for it.

## 4. What the violation runs show

* `unpin_race` - PUT `x` with content 1, with content 2, with content 1 again,
  each answered before the next is sent. The task of the second PUT counts no
  row of content 1, the third PUT adds and stores it, the task unpins it. The
  comment at `put_object.rs:52` warns of just this, for the same CID.
* `trim_race` - DELETE `a/x`, then PUT `a/x`: the trim of the DELETE, past its
  last query, removes `a` with the new file. `database.rs:173` calls the folder
  one that "can be safely removed".
* `part_numbers` - `partNumber=128` does not parse as an `i8`, the flattened
  option becomes `None`, and the part is stored over the object at once;
  `README.md:242` says content is stored "only ... when completed". The upload
  then completes without that part.
* `capacity` - the shard of a new id may be full while the map is not: it grows,
  and so does the capacity that the next check compares with. The property
  grants the map all the room it was allocated with, more than was configured.
* `encoded_key` - the client signs the path as it is sent, percent-encoded once;
  `canonicalize_uri` encodes the path of the wire again, `%` becoming `%25`, so
  that no genuine request for a key with a space is accepted.

Also seen, and not turned into runs:

* both races of one client on one object leave an acknowledged object neither
  pinned nor linked, free for the garbage collector;
* `canonicalize_headers` sorts lines `name:value`, the client sorts names; `-` comes
  before `:`, so that `x-amz-server-side-encryption-aws-kms-key-id` comes before
  `x-amz-server-side-encryption` in the one and after it in the other, and a genuine
  request with both is refused (`authorization.rs:168`);
* the pattern of the trim is not escaped (`database.rs:188`): an object under `acb/`
  keeps the emptied folder `a_b` alive, one under `A/` the folder `a`;
* the query of the trim is about the key as it is written, what it removes is a
  normalized path (`delete_object.rs:95`): deleting `a//y/z` asks for `a//y/%`,
  misses `a/y/w` and removes `a/y` with that file, with one sequential client;
* two keys with one path share a file: deleting one leaves the row of the other
  without a link;
* two PUTs of one key that overlap read the same old row, and the pin of the content
  stored in between leaks;
* a DELETE answers 500 although the row is gone when another task has unpinned
  the content first (`DeleteUnpin` is refused), and then spawns no trim; hence the
  clients of `batch` have contents of their own, and `S3Store` lets
  `FinishDelete` answer an error;
* a DELETE interrupted between unlink and row leaves a row that no DELETE can
  remove any more: its `files rm` fails first. A PUT repairs it;
* without credentials there is no layer, hence no decoder: an `aws-chunked` body
  is stored with its framing;
* a chunked body that ends where a size is expected panics at
  `authorization.rs:398` (`NoSizePanics`): the connection is dropped, nothing is
  stored;
* no route raises axum's limit of 2 MB on `Bytes`, so that no object or part is
  larger;
* a streamed GET and every HEAD are marked `immutable` under a key that the next PUT
  changes; and nothing holds the content for a stream whose object is overwritten or
  deleted meanwhile.

## 5. Proofs

All are theorems about every value of the constants that the named assumptions
allow: any number of slots, objects, segments, contents, readers, headers, parts,
any length of a batch, any payload.

### The stores (`ObjectStoreProofs`, `NodeProofs`, `FolderProofs`)

* **`TypeCorrect`**: `Spec => []TypeOK`. `TypeOK` is not inductive: that a task in
  a handler names an object of its slot, and that the depths of a trim are depths
  of its object, is added in `TypeInv` (`TaskOK`). One lemma per handler, one step
  per action.
* **`RowsStayPinned`**: `Exclusive` and `OwnContents` give `[]RowsPinned`, under
  all failures, disconnects and crashes. The invariant `PinInv` adds what the
  tasks know: a PUT past its add has its content pinned; a task about to unpin
  holds a CID of its own slot that no row holds. A step of another slot cannot
  falsify either, which is where the assumptions are used; the run `unpin_race`
  shows that they are needed.
* **`NoPinLeaks`**: `Exclusive`, `NoFileInTheWay`, `Undisturbed` and
  `NoLeakingFault` give `[]PinsAccounted`, with contents shared freely. The
  invariant ties the CID that a handler read to the row of its object: as long as
  the handler has not written, the row is what it read, so that the only CID that
  can lose its last row is the one the task will look at.
* **`NoLinkLeaks`**: `Exclusive`, `Undisturbed` and no failure of `files cp` or of
  the upsert give `[]LinksAccounted`, for all keys, those that share a path
  included. What is added is that a deletion past its `files rm` has taken the
  link that its row accounted for, so that the row may go.
* **`TrimsSpareLive`**: `PlainObjects`, `NoFileInTheWay` and `OwnFolders` give
  `TrimSparesLive`, under all failures, disconnects and crashes. The invariant
  `TrimInv` says what a trim knows: the shallowest ancestor it has found removable
  is *clear*, no row lies under it (`NothingFoundIsClear`: `LIKE` finds all there
  is and what it finds besides does no harm, the ancestor itself is no other object), and stays clear, because only a PUT
  into that folder could change it. `OwnFolders` is used for just that; `trim_race`
  shows that it is needed.
* **`RowsStayLinked`**: the same, with `Undisturbed` and no failure of `files cp`,
  of the upsert, of `files rm` or of the deletion of the row, give `[]RowsLinked`.
  Added is that a PUT that is about to store its row has its link (`LinkedInv`).
* **`FoldersStayTidy`**: the same circumstances with `OwnContents`, `NoStrayMatch`
  and no failure of `files cp`, of the upsert, of `unpin_if_orphan` or of the trim
  give `[]TidyWhenIdle`, an end state turned into an invariant of all states
  (`TidyInv`): with a folder the folders above it are there, and every folder
  below a bucket leads to an object **or a task looks after it** - a PUT about to
  store its row, a deletion that has deleted its row and will trim, a trim whose
  folder contains it. A deletion hands its folders on only if its unpinning does
  not fail, which is `KeptInv`: the content that a deletion has read stays pinned.

The assumptions about keys are what these three need, not what the code ensures.
`PlainObjects` - no valid key has an empty segment, a `.` or a `..` - is needed by the
first: with the keys `a/y/w` and `a//y/z` one sequential client loses a file
(section 4), and the trim of `d/../x` may ask for the bucket. `NoFileInTheWay` - no
key is a folder of another - because a PUT of a key whose path is a folder is
refused by the node, and because a folder that is also an object is not under
itself. `NoStrayMatch` - no name of a folder has a `_` or `%` that matches another's,
none differs in case alone - because `LIKE` then stops a trim early, and the folder
stays. `OwnFolders` is `Exclusive` for folders: no two slots name objects with the
same outermost folder.

### The promise and the compositions (`ObjectStoreProofs`, `CompositionProofs`)

* **`RequestsAreAtomic`**: `Spec => ImplementsS3Store`, unconditionally. A slot's
  label decides its abstract state (`View`); the table changes in `PutStore` and
  `DeleteRow` only, or in a `Disconnect` whose last call reached the table; every
  other step changes neither the table nor the view, or only answers. `CallInv`
  says that an unanswered request has no answer yet, and that a PUT past
  normalization has a valid key.
* **`ReadersAreTold`**: `ReadSpec => []ReadsAcknowledged`, unconditionally, for any
  number of readers and of writers that share any objects. The invariant
  (`ReadInv`) ties the history to the table. What the answers tell of an object is
  its row, and then no handler is on it; where a single request on it is unanswered
  (`Asked`), the handlers on it are that one, so that its answer tells the row that
  it has left (`KnownOK`, `AskedOK`). What a reader remembers stays what is known,
  until somebody asks for a change, which makes it forget (`ReaderOK`). Failures,
  disconnects and crashes end a request without an answer that tells, and background
  tasks touch no row.
* **`BatchIsDeletions`** and **`AtomicThroughShutdown`**: `ImplementsS3Store` holds
  of `BatchSpec` and of `LifeSpec`. A batch is deletions one after the other, a
  closed pool a SQL call that fails, the end of the process a crash; each step
  maps to one of ObjectStore.
* **`PinnedThroughShutdown`**, **`TrimsSpareThroughShutdown`**: as `LifeSpec` implies
  the specification of ObjectStore (`LifeSpecIsSpec`), `RowsStayPinned` and
  `TrimsSpareLive` hold under their assumptions through every signal, shutdown,
  kill and restart. `LifecycleAssumption` asks for faults of SQL and for crashes,
  which neither of the two excludes.
* **`ReportIsTrue`**: `BatchAlone` (nobody else names the keys of the batch
  client) gives `BatchSpec => []DeletedIsGone`. The invariant `BatchInv`: while a
  batch runs no slot of its client is in a PUT, so that a row of its keys that is
  gone stays gone; and the slot of the batch runs a deletion of the first key,
  whose row is gone once it counts references. Only from there does
  `delete_object` answer "ok".
* **`BatchTrimsSpareLive`**, **`BatchKeepsLinks`**, **`BatchesLeaveTidy`**: the three
  theorems about folders for a client whose slots share all their folders
  (`OwnBatchFolders`: they are nobody else's). `OwnFolders` is false there, and the
  lemmas never use it: they use `FoldersApart`, a condition on states - of two
  slots that meet one handler runs at a time, and a PUT waits until the other has
  trimmed - which `OwnFolders` implies for ObjectStore and `BatchInv` for a batch.
  `PinsApart` and `DeletionsApart` do the same for the pins.
* **`BatchKeepsPins`**: with `OwnBatchFolders` and `OwnBatchContents`, under every
  failure and crash, `BatchSpec => []RowsPinned`. Two slots of the client may share
  contents: while one of them is to unpin, none is in a PUT (`BatchPinsApart`).
* **`BatchesSucceed`**: with `OwnBatchFolders`, `OwnBatchContents` and no failure of
  the calls involved, `BatchSpec => []BatchSucceeds`: the deletion of a key fails
  only if the node refuses a call (`SlotNeverFails`), because a trim has taken the
  link, against `LinkedInv`, or another unpinning the pin.

### Uploads and requests (`MultipartProofs`, `GatewayProofs`, `BodyProofs`)

* **`UploadsEndOnce`**: `Spec => []EndsOnce`, unconditionally. `EndsOnce` counts;
  the invariant (`EndInv`) says where the upload is: ids in the map and in the
  table are disjoint and were all given out (`acked`), and a completion on its way
  has an id that is in neither and that no other completion has. What takes an id
  out of the map is atomic, and none comes back, because `CreateMultipartUpload`
  takes an id that was never given out.
* **`UploadsAreWhole`**: `Spec => []CompletedIsWhole`, unconditionally. A slot holds
  the last body of each part that was acknowledged and no other, a completion on
  its way and a completed upload their sequence by number (`WholeInv`); once the id
  is out of the map no part of it is acknowledged.
* **`TypesHold`**: `SmallTables` gives `Spec => []TypeOK`. The assumption - at most
  28 uploads per shard at the start - is about the model: `RoomFor` has the first
  sizes of hashbrown's tables only.
* **`OnlySignedIsHandled`**: `Spec => []HandledAsSigned`, for any keys and any two
  orders of headers and lines. A rewritten request brings the credentials of the
  signed one (`WireInv`); if they are valid for it, the two texts are equal
  (signatures are free constructors), and equal texts have equal method, path,
  query and signed headers (`TextTellsApart`). That the path is encoded once more
  than it should does no harm here: the encoding keeps keys apart.
* **`GenuineIsAccepted`**: `PlainKeys = Keys` and `LineOrder = NameOrder` give
  `Spec => []GenuineAccepted`: the two texts are equal, for both ways to sign, when
  no key has a character to encode and the lines sort as the names do. The run
  `encoded_key` shows what happens otherwise.
* **`BodiesAreWhole`**: `Spec => []BodyIsPayload`, for every payload, every way to
  cut it into chunks and into the portions that arrive, every place where the
  connection ends, cleanly or not, and every base of the sizes. The payload may
  hold `;`, digits or whole chunks. The invariant (`BodyInv`): the client's data is
  pieces, of which the handler has the first, and what is buffered and what is
  still sent together begin the chunks of the others. Two facts carry it. A
  complete size is the one that was written (`SizeIsRead`): a numeral holds no `;`,
  so that the first one ends it, and `Number` reads back what `Numeral` writes
  (`NumeralIs`). And a size that breaks off is not zero (`SizeBrokenOff`): the code
  drops its last byte and parses the rest, and a zero would end the body early with
  success, but a numeral without leading zeros begins with a digit that is none, so
  that only the last chunk ends the body (`ZeroIsLast`). A client that wrote `0a;`
  would be cut short there: the theorem says on what the code relies.

### What stays with TLC

The liveness properties (`OrphansUnpinned`, `FoldersTrimmed`, `BatchEnds`,
`BodyEnds`, `ServerStops`): liveness and ENABLED are out of the prover's reach. No
safety property is left to it, but each theorem is also checked by its run.

The library's induction theorems cannot be used, since no prover instantiates
their operator. Where sequences of any length need an induction (numerals, the
flattening of chunks) it is a smallest counterexample: a set of numbers that is
not empty has a least element (`SmallestNumber`, from the well-foundedness of `<`),
and that one is refuted by the one before. `SequenceProofs` does so for
`FlattenSeq` (`FlattenFirst`), `BodyProofs` for `Number` (`NumberAppend`) and
`Numeral` (`NumeralExists`). Paths, header lines and collated parts need none: they
are `Subsequence`s, whose facts (every index has its place and every place its
index, the values are those at the indices and no others, all indices give the
sequence itself) follow from the library's theorems on cardinalities.

## 6. Not modelled

* Routes and CORS: a dispatch without state; bucket endpoint and health check:
  constant answers and two pings; CLI: parsing. The options that change behaviour
  are constants (`TrimEmptyFolders`, `Mode`, `ConcurrentUploads`) or chosen in `Init`
  (`guarded`).
* Of a row everything but the CID: content type, size and timestamps follow it
  in the same statements, no handler decides by them, and the headers of an
  answer only repeat them. The ETag.
* The XML of DeleteObjects and of the multipart answers: parsing.
* Of signatures: hashes and HMAC, headers with several values or inner spaces,
  the date (it is signed, and compared with nothing, so that a presigned request
  never expires), the signature per chunk, which the decoder skips.
* Effects of a call that reach the node after the handler has given it up.
* What the node delivers to a stream or to a redirected client, and its garbage
  collector.
* A proxy that changes several parts of a request, or its credentials.

## 7. What could follow

Multipart over ObjectStore instead of over its promise, so that the `put_object` of
a completion is interleaved with other requests.
