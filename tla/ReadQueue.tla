----------------------------- MODULE ReadQueue -----------------------------
(***************************************************************************)
(* How a connection turns the bytes of its client into requests: every     *)
(* read() appends a chunk to con->read_queue, a search over the chunks     *)
(* finds the end of the header, the content goes to memory or to           *)
(* temporary files (connections.c:319-380 and 858-1151, chunk.c).          *)
(* A byte is "r", "n" (CR, LF) or "x" (any other).  A chunk's memory does  *)
(* not count the closing zero byte of the C buffer.                        *)
(***************************************************************************)
EXTENDS Integers, SequencesExt

CONSTANTS
  MaxPiece,             \* bound: how many bytes one read() finds
  MaxStream,            \* bound: bytes a client sends
  Lengths,              \* the values of Content-Length
  header_max,           \* 64k: more without an end of header is answered 414
  mem_max,              \* 64k: a longer content goes to temporary files
  file_max,             \* 1Mb: a temporary file of this size is not appended to
  Faults                \* what may fail: "open", "write" of a temporary file

\* A Content-Length has digits only (request.c:834-847).
ASSUME ReadAssumption == MaxPiece \in Nat \ {0} /\ MaxStream \in Nat /\ Lengths \subseteq Nat

VARIABLES
  state,           \* con->state
  queue,           \* con->read_queue
  request,         \* con->request.request
  content,         \* con->request_content_queue
  content_length,  \* con->request.content_length
  keep_alive,      \* con->keep_alive
  http_status,     \* 413, 414 or 0
  reads,           \* what each read() from this client has brought
  base             \* how many of these bytes belong to finished requests

vars == <<state, queue, request, content, content_length, keep_alive, http_status, reads, base>>

Byte == {"r", "n", "x"}
EndOfHeader == <<"r", "n", "r", "n">>

Init ==
  /\ state = "connect" /\ queue = <<>> /\ request = <<>> /\ content = <<>>
  /\ content_length = 0 /\ keep_alive = FALSE /\ http_status = 0
  /\ reads = <<>> /\ base = 0

\* What is left of a chunk, of a queue, of the content.
Rest(c) == SubSeq(c.mem, c.offset + 1, Len(c.mem))
Flat(q) == FlattenSeq([k \in DOMAIN q |-> Rest(q[k])])
Bytes(cq) == FlattenSeq([k \in DOMAIN cq |-> cq[k].bytes])

chunkqueue_length(q) == FoldLeft(LAMBDA n, c : n + Len(c.mem), 0, q)

\* An empty chunk, left by a read() that found nothing, is taken out: there is
\* one at most, the last.
WithoutEmpty(q) == IF q # <<>> /\ Last(q).mem = <<>> THEN Front(q) ELSE q

Finished(c) == c.mem = <<>> \/ c.offset = Len(c.mem)

chunkqueue_remove_finished_chunks(q) ==
  LET first == CHOOSE k \in 1..Len(q) + 1 :
                 /\ \A j \in 1..k - 1 : Finished(q[j])
                 /\ k <= Len(q) => ~Finished(q[k])
  IN SubSeq(q, first, Len(q))

(***************************************************************************)
(* The search for the end of the header: from byte i of what is left of    *)
(* chunk k it looks into chunk k + 1 when needed, and no further.          *)
(***************************************************************************)
FoundInOneChunk(q, k, i) ==
  SubSeq(Rest(q[k]) \o EndOfHeader, i, i + 3) = EndOfHeader /\ i + 3 <= Len(Rest(q[k]))
FoundAt(q, k, i) ==
  LET b == Rest(q[k])
      have == Len(b) - i + 1
      missing == 4 - have
  IN IF have >= 4
     THEN SubSeq(b, i, i + 3) = EndOfHeader
     ELSE /\ k < Len(q) /\ Len(q[k + 1].mem) >= missing
          /\ SubSeq(b, i, Len(b)) = SubSeq(EndOfHeader, 1, have)
          /\ SubSeq(q[k + 1].mem, 1, missing) = SubSeq(EndOfHeader, have + 1, 4)

Places(q) == UNION {{<<k, i>> : i \in 1..Len(Rest(q[k]))} : k \in DOMAIN q}
Found(q) == {p \in Places(q) : FoundAt(q, p[1], p[2])}
Before(p, o) == p[1] < o[1] \/ (p[1] = o[1] /\ p[2] < o[2])

\* The last chunk of the header and how many bytes of it belong to the header.
EndLast(q) ==
  LET p == CHOOSE p \in Found(q) : \A o \in Found(q) : o = p \/ Before(o, p)
      have == Len(Rest(q[p[1]])) - p[2] + 1
  IN IF have >= 4 THEN [chunk |-> p[1], offset |-> p[2] + 3]
                  ELSE [chunk |-> p[1] + 1, offset |-> 4 - have]
End(q) ==
  LET p == CHOOSE p \in Found(q) : \A o \in Found(q) : o = p \/ Before(p, o)
      have == Len(Rest(q[p[1]])) - p[2] + 1
  IN IF have >= 4 THEN [chunk |-> p[1], offset |-> p[2] + 3]
                  ELSE [chunk |-> p[1] + 1, offset |-> 4 - have]

\* The queue after the header was copied out of it.
Copied(q, end) ==
  [k \in DOMAIN q |->
     CASE k < end.chunk -> [q[k] EXCEPT !.offset = Len(q[k].mem)]
       [] k = end.chunk -> [q[k] EXCEPT !.offset = @ + end.offset]
       [] OTHER -> q[k]]

Header(q, end) ==
  Flat(SubSeq(q, 1, end.chunk - 1)) \o SubSeq(Rest(q[end.chunk]), 1, end.offset)

\* CON_STATE_READ on the chunks of q.
ReadHeader(q) ==
  /\ IF Found(q) # {}
     THEN /\ request' = Header(q, End(q))
          /\ queue' = chunkqueue_remove_finished_chunks(Copied(q, End(q)))
          /\ state' = "request_end"
          /\ UNCHANGED <<keep_alive, http_status>>
     ELSE /\ queue' = chunkqueue_remove_finished_chunks(q)
          /\ IF chunkqueue_length(q) > header_max
             THEN state' = "handle_request" /\ http_status' = 414 /\ keep_alive' = FALSE
             ELSE state' = "read" /\ UNCHANGED <<http_status, keep_alive>>
          /\ UNCHANGED request
  /\ UNCHANGED <<content, content_length>>

(***************************************************************************)
(* CON_STATE_READ_POST: one chunk after the other is moved to the content  *)
(* queue.  fault = <<what, k>>: opening or writing the temporary file      *)
(* fails at chunk k.                                                       *)
(***************************************************************************)
Closed(cq) == [k \in DOMAIN cq |-> [cq[k] EXCEPT !.fd = FALSE]]

\* The content queue with a temporary file at its end that can be written to.
WithTempfileLeftOpen(cq, opens) ==
  IF cq # <<>> /\ Last(cq).file /\ Len(Last(cq).bytes) < file_max THEN cq
  ELSE Append(cq, [file |-> TRUE, bytes |-> <<>>, fd |-> opens])
WithTempfile(cq, opens) ==
  IF cq # <<>> /\ Last(cq).file /\ Len(Last(cq).bytes) < file_max THEN cq
  ELSE Append(Closed(cq), [file |-> TRUE, bytes |-> <<>>, fd |-> opens])

Moved(acc, k, bytes) ==
  [acc EXCEPT !.queue[k].offset = @ + Len(bytes), !.bytes_in = @ + Len(bytes)]

ToFile(acc, k, bytes, fault) ==
  LET cq == WithTempfile(acc.content, fault # <<"open", k>>)
      last == Len(cq)
  IN IF ~cq[last].fd THEN [acc EXCEPT !.content = cq, !.failed = TRUE]
     ELSE IF fault = <<"write", k>>
     THEN [acc EXCEPT !.content = [cq EXCEPT ![last].fd = FALSE], !.failed = TRUE]
     ELSE [Moved(acc, k, bytes) EXCEPT
             !.content = [cq EXCEPT ![last].bytes = @ \o bytes,
                                    ![last].fd = acc.bytes_in + Len(bytes) # content_length]]

ToMemory(acc, k, bytes) ==
  [Moved(acc, k, bytes) EXCEPT
     !.content = Append(@, [file |-> FALSE, bytes |-> bytes, fd |-> FALSE])]

MoveChunk(acc, k, fault) ==
  LET rest == Rest(acc.queue[k])
      weWant == content_length - acc.bytes_in
      bytes == SubSeq(rest, 1, IF Len(rest) > weWant THEN weWant ELSE Len(rest))
  IN IF acc.failed \/ acc.bytes_in = content_length THEN acc
     ELSE IF content_length > mem_max THEN ToFile(acc, k, bytes, fault)
                                      ELSE ToMemory(acc, k, bytes)

RefuseQuietly == state' = "handle_request" /\ keep_alive' = FALSE /\ UNCHANGED http_status
Refuse == state' = "handle_request" /\ keep_alive' = FALSE /\ http_status' = 413

ReadContent(q) ==
  \E fault \in {<<"none", 0>>} \cup (Faults \X DOMAIN q) :
    LET moved[k \in 0..Len(q)] ==
          IF k = 0 THEN [queue |-> q, content |-> content, failed |-> FALSE,
                         bytes_in |-> Len(Bytes(content))]
          ELSE MoveChunk(moved[k - 1], k, fault)
        end == moved[Len(q)]
    IN /\ content' = end.content
       /\ queue' = chunkqueue_remove_finished_chunks(end.queue)
       /\ IF end.failed THEN Refuse
          ELSE /\ state' = IF end.bytes_in = content_length THEN "handle_request" ELSE "read_post"
               /\ UNCHANGED <<http_status, keep_alive>>
       /\ UNCHANGED <<request, content_length>>

\* The state in which the switch over ostate runs: CON_STATE_REQUEST_START is
\* left for CON_STATE_READ first.
ReadsHeader == state \in {"request_start", "read"}

connection_handle_read_state(q) ==
  \/ ReadsHeader /\ ReadHeader(WithoutEmpty(q))
  \/ state = "read_post" /\ ReadContent(WithoutEmpty(q))

\* read() finds a piece.
ReadPiece ==
  /\ ReadsHeader \/ state = "read_post"
  /\ \E n \in 1..MaxPiece : \E piece \in [1..n -> Byte] :
       /\ Len(FlattenSeq(reads)) + n <= MaxStream
       /\ reads' = Append(reads, piece)
       /\ connection_handle_read_state(Append(queue, [mem |-> piece, offset |-> 0]))
  /\ UNCHANGED base

\* The connection is not readable or read() says EAGAIN: what is queued is
\* looked at all the same.
ReadNothing ==
  /\ connection_handle_read_state(Append(queue, [mem |-> <<>>, offset |-> 0]))
  /\ UNCHANGED <<reads, base>>

\* The client closed: what is queued may still do, otherwise the connection fails.
ReadEnd ==
  /\ connection_handle_read_state(Append(queue, [mem |-> <<>>, offset |-> 0]))
  /\ state' # (IF ReadsHeader THEN "read" ELSE state)
  /\ UNCHANGED <<reads, base>>

\* The client closed too early, or read() fails: nobody looks at the queue any
\* more.
ReadFails ==
  /\ ReadsHeader \/ state = "read_post"
  /\ state' = "error"
  /\ UNCHANGED <<queue, request, content, content_length, keep_alive, http_status, reads, base>>

\* CON_STATE_REQUEST_END: http_request_parse finds a Content-Length and says
\* whether the connection may be kept.
http_request_parse ==
  /\ state = "request_end"
  /\ \E n \in Lengths, keep \in BOOLEAN :
       /\ content_length' = n /\ keep_alive' = keep
       /\ state' = IF n > 0 THEN "read_post" ELSE "handle_request"
  /\ UNCHANGED <<queue, request, content, http_status, reads, base>>

\* connection_reset: the read queue is left alone.
Reset ==
  /\ request' = <<>> /\ content' = <<>> /\ content_length' = 0 /\ http_status' = 0

\* CON_STATE_RESPONSE_END of a connection that is kept: what the client has
\* sent already is the begin of its next request.
NextRequest ==
  /\ state = "handle_request" /\ keep_alive
  /\ state' = "request_start" /\ base' = base + Len(request) + content_length
  /\ Reset /\ UNCHANGED <<queue, keep_alive, reads>>

\* The connection ends; CON_STATE_CONNECT empties the read queue.
connection_close_keeps_queue ==
  /\ state = "error" \/ (state = "handle_request" /\ ~keep_alive)
  /\ state' = "connect" /\ reads' = <<>> /\ base' = 0
  /\ Reset /\ UNCHANGED <<queue, keep_alive>>
connection_close ==
  /\ state = "error" \/ (state = "handle_request" /\ ~keep_alive)
  /\ state' = "connect" /\ queue' = <<>> /\ reads' = <<>> /\ base' = 0
  /\ Reset /\ UNCHANGED keep_alive

\* The same connection serves the next client.
connection_accept ==
  /\ state = "connect"
  /\ state' = "request_start"
  /\ UNCHANGED <<queue, request, content, content_length, keep_alive, http_status, reads, base>>

Next ==
  \/ ReadPiece \/ ReadNothing \/ ReadEnd \/ ReadFails
  \/ http_request_parse \/ NextRequest \/ connection_close \/ connection_accept

Spec == Init /\ [][Next]_vars
-----------------------------------------------------------------------------
(* Correctness. *)

\* The types; checked with NothingLost.
TypeOK ==
  /\ state \in {"connect", "request_start", "read", "request_end", "read_post",
                "handle_request", "error"}
  /\ \A k \in DOMAIN queue : queue[k].offset \in 0..Len(queue[k].mem)
  /\ content_length \in Lengths \cup {0} /\ keep_alive \in BOOLEAN
  /\ http_status \in {0, 413, 414} /\ base \in 0..MaxStream

\* However the bytes of a client are cut into reads, requests and contents,
\* each is used once and in order: header, content and what is queued are
\* exactly what the client sent since its last request.  In particular no byte
\* of an earlier client of the same connection is left (connections.c:994-1014,
\* 1025-1140, 1572).
NothingLost ==
  /\ TypeOK
  /\ LET stream == FlattenSeq(reads)
     IN SubSeq(stream, base + 1, Len(stream)) = request \o Bytes(content) \o Flat(queue)

Ends(s) == {i \in 4..Len(s) : SubSeq(s, i - 3, i) = EndOfHeader}

\* The four bytes up to the i-th of this request came in more than two reads.
Scattered(i) ==
  LET lengths == [k \in 0..Len(reads) |-> Len(FlattenSeq(SubSeq(reads, 1, k))) - base]
  IN Cardinality({k \in DOMAIN lengths : i - 3 <= lengths[k] /\ lengths[k] < i}) > 1

\* A request handed to the parser ends with the first empty line the client
\* sent and holds no other, except one that came in more than two reads
\* (connections.c:936-1014).
HeaderExact ==
  request # <<>> => /\ Len(request) \in Ends(request)
                    /\ \A i \in Ends(request) : i = Len(request) \/ Scattered(i)

\* A connection that waits for more of a header has no complete header in its
\* queue, wherever in its chunks it may be, except one that came in more than two
\* reads (connections.c:936-988).
FoundWhenThere == state = "read" => \A i \in Ends(Flat(queue)) : Scattered(i)

\* connections.c:922: "if there is a \r\n\r\n in the chunkqueue".
AlwaysFound == state = "read" => Ends(Flat(queue)) = {}

\* A request is handled with all of its content and no byte more, unless it was
\* refused (connections.c:1026-1034, 1135-1138).
ContentExact ==
  state = "handle_request" /\ http_status = 0 => Len(Bytes(content)) = content_length

\* A temporary file is open only while it is the last one and the upload goes
\* on: none is left open once the request is handled, refused uploads included,
\* and the one to append to never has to be opened again (connections.c:1057:
\* "this should not happen as we cache the fd").
TempfilesClosed ==
  \A k \in DOMAIN content : content[k].file =>
    /\ content[k].fd => k = Len(content) /\ state \in {"read_post", "error"}
    /\ state = "read_post" /\ k = Len(content) => content[k].fd
=============================================================================
