------------------------------ MODULE Gateway ------------------------------
(***************************************************************************)
(* The authorization layer in front of every S3 route                      *)
(* (src/src/s3/authorization.rs), from the request on the wire to the body *)
(* that the handler gets.                                                  *)
(*                                                                         *)
(* The layer checks the signature and, for a body announced as signed      *)
(* chunk by chunk, puts streaming_chunk_body between the connection and    *)
(* the handler.  The body arrives in any portions and may break off; the   *)
(* handlers take it as Bytes, so that they run on complete bodies only.    *)
(* The requests share nothing: one at a time is enough.                    *)
(***************************************************************************)
EXTENDS SigV4

CONSTANTS
  Keys,        \* the keys that requests name
  Digits,      \* the digits of a chunk size, in the order of their values
  Payload,     \* the longest payload
  MaxBody      \* the longest body a handler accepts

ASSUME GatewayAssumption ==
  /\ PlainKeys \subseteq Keys
  /\ {"x-amz-date", "x-amz-content-sha256"} \subseteq ToSet(NameOrder)
  /\ Digits \in Seq(STRING) /\ Len(Digits) >= 2
  /\ \A i, j \in DOMAIN Digits : Digits[i] = Digits[j] => i = j
  /\ ";" \notin ToSet(Digits)
  /\ Payload \in Seq(STRING)
  /\ MaxBody \in Nat

VARIABLES
  guarded,   \* config.auth is given
  signed,    \* the request as its client sent it
  wire,      \* the request as it arrives
  payload,   \* what the client means to send
  sent,      \* its bytes that have not arrived yet
  buffer,    \* those that have arrived and are not read yet
  ended,     \* how the body ended, if it has
  body,      \* what the handler's extractor has so far
  at         \* where the request is

vars == <<guarded, signed, wire, payload, sent, buffer, ended, body, at>>

Streaming == "STREAMING-AWS4-HMAC-SHA256-PAYLOAD"

Answered == {"handled", "unauthorized", "rejected", "panicked"}

-----------------------------------------------------------------------------
(***************************************************************************)
(* The chunked format (external): size in digits; ";"; signature and line  *)
(* end, here one symbol; data; line end.  The last chunk is empty.         *)
(***************************************************************************)
\* The base is the number of digits: sixteen in the code.
Number(digits) ==
  LET value[i \in 0..Len(digits)] ==
        IF i = 0 THEN 0
        ELSE Len(Digits) * value[i - 1]
               + (CHOOSE k \in DOMAIN Digits : Digits[k] = digits[i]) - 1
  IN value[Len(digits)]

\* Without leading zeros, as clients write it.
Numeral(n) ==
  CHOOSE digits \in SeqOf(ToSet(Digits), n + 1) \ {<<>>} :
    Number(digits) = n /\ (Len(digits) > 1 => digits[1] # Digits[1])

Chunk(data) ==
  Numeral(Len(data)) \o <<";", "signature">> \o data \o <<"newline">>

\* All ways to cut the data into pieces.
Cuts(data) ==
  {pieces \in SeqOf(SubSeqs(data) \ {<<>>}, Len(data)) : FlattenSeq(pieces) = data}

Chunked(pieces) ==
  FlattenSeq([k \in DOMAIN pieces |-> Chunk(pieces[k])]) \o Chunk(<<>>)

-----------------------------------------------------------------------------
(***************************************************************************)
(* The client, external.                                                   *)
(***************************************************************************)
Hashes == {"none", "hash of the body", Streaming}

Draft(method, key, query, hash) ==
  [method |-> method,
   path |-> PercentEncode([key |-> key, encoded |-> 0]),
   query |-> query,
   headers |-> [name \in ToSet(NameOrder) \
                  (IF hash = "none" THEN {"x-amz-content-sha256"} ELSE {}) |->
                  IF name = "x-amz-content-sha256" THEN hash ELSE "first"],
   authorization |-> NoAuth,
   presign |-> NoAuth]

\* A presigned request signs its host only.
Signings(r) ==
  {SignHeader(r, DOMAIN r.headers, "scope"), Presign(r, {"host"}, "first", "scope")}

\* The methods that take a body, at the level of the signature any two.
Methods == {"PUT", "POST"}
Queries == {"none", "uploadId"}

\* An early end of a chunked body is a clean end of the HTTP body when its
\* sender is at fault.
Send ==
  /\ at = "idle"
  /\ \E method \in Methods, key \in Keys, query \in Queries, hash \in Hashes :
       \E r \in Signings(Draft(method, key, query, hash)),
          data \in Prefixes(Payload) :
         /\ signed' = r
         /\ wire' = r
         /\ payload' = data
         /\ IF hash = Streaming
            THEN \E pieces \in Cuts(data) : sent' \in Prefixes(Chunked(pieces))
            ELSE sent' = data
  /\ at' = "sent"
  /\ UNCHANGED <<guarded, buffer, ended, body>>

\* A proxy in between changes one part of the request, once, and never its
\* credentials.
Rewritten(r) ==
  {[r EXCEPT !.method = method] : method \in Methods}
    \cup {[r EXCEPT !.path.key = key] : key \in Keys}
    \cup {[r EXCEPT !.query = query] : query \in Queries}
    \cup {[r EXCEPT !.headers[name] = "second"] : name \in DOMAIN r.headers}
    \cup {[r EXCEPT !.headers = [name \in (DOMAIN @ \ {gone}) |-> @[name]]] :
            gone \in DOMAIN r.headers}

Rewrite ==
  /\ at = "sent"
  /\ wire = signed
  /\ wire' \in Rewritten(wire)
  /\ UNCHANGED <<guarded, signed, payload, sent, buffer, ended, body, at>>

\* The connection, while the server reads.
Arrive ==
  /\ at = "reading"
  /\ sent # <<>> /\ ended = "no"
  /\ buffer' = Append(buffer, Head(sent))
  /\ sent' = Tail(sent)
  /\ UNCHANGED <<guarded, signed, wire, payload, ended, body, at>>

End ==
  /\ at = "reading"
  /\ ended = "no"
  /\ \/ sent = <<>> /\ ended' = "closed"
     \/ ended' = "broken"
  /\ UNCHANGED <<guarded, signed, wire, payload, sent, buffer, body, at>>

-----------------------------------------------------------------------------
(***************************************************************************)
(* The layer.                                                              *)
(***************************************************************************)
Authorize ==
  /\ at = "sent"
  /\ at' = IF guarded => Authorized(wire) THEN "reading" ELSE "unauthorized"
  /\ UNCHANGED <<guarded, signed, wire, payload, sent, buffer, ended, body>>

\* Without credentials in the configuration there is no layer, no decoder.
Decodes == guarded /\ BodyHash(wire) = Streaming

Leave(outcome) ==
  /\ at' = outcome
  /\ UNCHANGED <<guarded, signed, wire, payload, sent, buffer, ended, body>>

\* What stands before the first ";", or all of it when the body has ended.
Sizes == {i \in DOMAIN buffer : buffer[i] = ";" /\ \A j \in 1..(i - 1) : buffer[j] # ";"}

\* read_until gives the digits and the ";", the last byte of which is dropped,
\* whatever it is.
SizeRead ==
  IF Sizes # {} THEN SubSeq(buffer, 1, CHOOSE i \in Sizes : TRUE) ELSE buffer

SizeDigits == SubSeq(SizeRead, 1, Len(SizeRead) - 1)

Parses == SizeDigits # <<>> /\ ToSet(SizeDigits) \subseteq ToSet(Digits)

Rest == SubSeq(buffer, Len(SizeRead) + 1, Len(buffer))

\* Signature, data and line end are read with read_exact.
ChunkRead == SubSeq(Rest, 2, Number(SizeDigits) + 1)

HasSize == Sizes # {} \/ ended = "closed"

ChunkNeeds == Number(SizeDigits) + 2

TooLarge(bytes) == Len(body) + Len(bytes) > MaxBody

\* Of the length of an empty buffer one is subtracted.
NoSizePanics ==
  /\ at = "reading" /\ Decodes
  /\ ended = "closed" /\ buffer = <<>>
  /\ Leave("panicked")

NextChunk ==
  /\ at = "reading" /\ Decodes
  /\ HasSize /\ Parses
  /\ Number(SizeDigits) > 0
  /\ Len(Rest) >= ChunkNeeds
  /\ ~TooLarge(ChunkRead)
  /\ body' = body \o ChunkRead
  /\ buffer' = SubSeq(Rest, ChunkNeeds + 1, Len(Rest))
  /\ UNCHANGED <<guarded, signed, wire, payload, sent, ended, at>>

\* Mutant: the end of the body counts as the last chunk.
LastChunkOrEnd ==
  /\ at = "reading" /\ Decodes
  /\ \/ HasSize /\ Parses /\ Number(SizeDigits) = 0
     \/ ended = "closed" /\ buffer = <<>>
  /\ Leave("handled")

\* The chunk of size zero: what follows is not read.
LastChunk ==
  /\ at = "reading" /\ Decodes
  /\ HasSize /\ Parses
  /\ Number(SizeDigits) = 0
  /\ Leave("handled")

\* Mutant: a read that comes short waits for more, though the body has ended.
ChunkFailsLess ==
  /\ at = "reading" /\ Decodes
  /\ buffer # <<>> \/ ended = "broken"
  /\ \/ HasSize /\ ~Parses
     \/ ~HasSize /\ ended = "broken"
     \/ /\ HasSize /\ Parses /\ Number(SizeDigits) > 0
        /\ Len(Rest) >= ChunkNeeds /\ TooLarge(ChunkRead)
  /\ Leave("rejected")

\* The extractor answers 400 to an error, 413 to a body beyond its limit.
ChunkFails ==
  /\ at = "reading" /\ Decodes
  /\ buffer # <<>> \/ ended = "broken"
  /\ \/ HasSize /\ ~Parses
     \/ ~HasSize /\ ended = "broken"
     \/ /\ HasSize /\ Parses /\ Number(SizeDigits) > 0
        /\ \/ Len(Rest) < ChunkNeeds /\ ended # "no"
           \/ Len(Rest) >= ChunkNeeds /\ TooLarge(ChunkRead)
  /\ Leave("rejected")

\* A body that is not decoded.
ReadBody ==
  /\ at = "reading" /\ ~Decodes
  /\ ended = "closed"
  /\ ~TooLarge(buffer)
  /\ body' = buffer
  /\ at' = "handled"
  /\ UNCHANGED <<guarded, signed, wire, payload, sent, buffer, ended>>

BodyFails ==
  /\ at = "reading" /\ ~Decodes
  /\ ended = "broken" \/ TooLarge(buffer)
  /\ Leave("rejected")

-----------------------------------------------------------------------------
NoRequest == [method |-> "none"]

Blank(a) ==
  /\ signed = NoRequest /\ wire = NoRequest
  /\ payload = <<>> /\ sent = <<>> /\ buffer = <<>> /\ body = <<>>
  /\ ended = "no"
  /\ at = a

Init == guarded \in BOOLEAN /\ Blank("idle")

\* The request was answered, or its client gave it up.
Close ==
  /\ at \in Answered \cup {"reading"}
  /\ signed' = NoRequest /\ wire' = NoRequest
  /\ payload' = <<>> /\ sent' = <<>> /\ buffer' = <<>> /\ body' = <<>>
  /\ ended' = "no"
  /\ at' = "idle"
  /\ UNCHANGED guarded

Read ==
  \/ NoSizePanics \/ NextChunk \/ LastChunk \/ ChunkFails
  \/ ReadBody \/ BodyFails

Next ==
  \/ Send \/ Rewrite \/ Arrive \/ End
  \/ Authorize \/ Read
  \/ Close

\* The runtime polls a body that can be read; the connection owes nothing.
Spec == Init /\ [][Next]_vars /\ WF_vars(Read)

-----------------------------------------------------------------------------
(***************************************************************************)
(* Properties.                                                             *)
(***************************************************************************)
SignedNames(r) ==
  ToSet(IF r.presign = NoAuth THEN r.authorization.signed ELSE r.presign.signed)

\* With credentials configured, a request is handled only as its client signed
\* it: the method, the object, the query and every header under the signature
\* are those of the request that was signed, whichever way it was signed, and
\* though a proxy may have changed any one of them.
HandledAsSigned ==
  (guarded /\ at \in {"reading", "handled"}) =>
    /\ wire.method = signed.method
    /\ wire.path = signed.path
    /\ wire.query = signed.query
    /\ \A name \in SignedNames(signed) :
         Value(wire.headers, name) = Value(signed.headers, name)

\* A request that arrives as it was signed with the configured credentials is
\* not refused.
GenuineAccepted == at = "unauthorized" => wire # signed

\* The handler gets the payload of its client, whole: however the body is cut
\* into chunks and into portions, and never the beginning of one that broke
\* off.  Without credentials the layer is missing and the chunks stay in.
BodyIsPayload ==
  (at = "handled" /\ wire = signed /\ (guarded \/ BodyHash(wire) # Streaming))
    => body = payload

\* A request whose body has ended is answered, unless its client gives it up
\* first: no read waits for more.
BodyEnds == (at = "reading" /\ ended # "no") ~> at # "reading"

=============================================================================
