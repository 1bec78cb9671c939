------------------------------- MODULE Upload -------------------------------
(***************************************************************************)
(* The content of a request on its way to a FastCGI backend: the chunks of *)
(* con->request_content_queue, in memory or in temporary files, become     *)
(* records in hctx->wb, which takes over ("steals") the files, and are     *)
(* written in pieces (mod_fastcgi.c:2093-2214, network_write.c, chunk.c).  *)
(*                                                                         *)
(* What goes over the wire is a sequence of tokens: the parameters of the  *)
(* request, the header of a STDIN record with the length it announces, and *)
(* the bytes of the content by their number.                               *)
(***************************************************************************)
EXTENDS Integers, SequencesExt

CONSTANTS
  MaxContent,        \* bound: content_length
  FCGI_MAX_LENGTH,   \* 65535: the content of a record
  max_reconnects     \* 5

ASSUME LengthAssumption == FCGI_MAX_LENGTH \in Nat \ {0} /\ MaxContent \in Nat

VARIABLES
  content_length, \* con->request.content_length, also req_cq->bytes_in
  req_cq,         \* the chunks of con->request_content_queue
  wb,             \* the chunks of hctx->wb
  files,          \* the temporary files on the disk
  sent,           \* the tokens the backend got
  reconnects,     \* hctx->reconnects
  pc              \* INIT, WRITE, READ: hctx->state; gone: handler_ctx_free; crash

vars == <<content_length, req_cq, wb, files, sent, reconnects, pc>>

Params == <<"params", 0>>
Stdin(n) == <<"stdin", n>>
Data(from, to) == [i \in 1..to - from |-> <<"data", from + i>>]

\* A queue of the content n, cut at the given places: chunk k holds the bytes
\* after from up to to.  The name of a temporary file is where it begins.
Chunk(type, from, to) == [type |-> type, from |-> from, to |-> to]
Cut(type, n, places) ==
  LET ends == places \cup {0, n}
      At(k) == CHOOSE p \in ends : Cardinality({q \in ends : q < p}) = k - 1
  IN [k \in 1..Cardinality(ends) - 1 |-> Chunk(type, At(k), At(k + 1))]

Init ==
  /\ content_length \in 0..MaxContent
  /\ \E type \in {"mem", "file"}, places \in SUBSET (1..content_length - 1) :
       req_cq = Cut(type, content_length, places)
  /\ files = {req_cq[k].from : k \in {j \in DOMAIN req_cq : req_cq[j].type = "file"}}
  /\ wb = <<>> /\ sent = <<>> /\ reconnects = 0 /\ pc = "INIT"

-----------------------------------------------------------------------------
(* fcgi_create_env *)

MinOf(a, b) == IF a < b THEN a ELSE b
MaxOf(a, b) == IF a > b THEN a ELSE b

MemChunk(tokens) == [type |-> "mem", tokens |-> tokens, offset |-> 0,
                     name |-> -1, is_temp |-> FALSE]

\* The part of the file chunk c that belongs to the record after from up to to;
\* the last part of a file takes over its is_temp flag.
FileChunkAllTemp(c, from, to) ==
  [type |-> "file", tokens |-> Data(MaxOf(c.from, from), MinOf(c.to, to)), offset |-> 0,
   name |-> c.from, is_temp |-> TRUE]
FileChunk(c, from, to) ==
  [type |-> "file", tokens |-> Data(MaxOf(c.from, from), MinOf(c.to, to)), offset |-> 0,
   name |-> c.from, is_temp |-> c.to <= to]

FileChunks(from, to) ==
  FlattenSeq([k \in DOMAIN req_cq |->
    LET c == req_cq[k]
    IN IF c.from < to /\ c.to > from THEN <<FileChunk(c, from, to)>> ELSE <<>>])

RecordFullLength(from, to) ==
  IF req_cq[1].type = "mem"
  THEN <<MemChunk(<<Stdin(FCGI_MAX_LENGTH)>> \o Data(from, to))>>
  ELSE <<MemChunk(<<Stdin(FCGI_MAX_LENGTH)>>)>> \o FileChunks(from, to)
\* A STDIN record.  The bytes of memory chunks are appended to its header.
Record(from, to) ==
  IF req_cq[1].type = "mem"
  THEN <<MemChunk(<<Stdin(to - from)>> \o Data(from, to))>>
  ELSE <<MemChunk(<<Stdin(to - from)>>)>> \o FileChunks(from, to)

RecordsWithoutRest ==
  LET count == content_length \div FCGI_MAX_LENGTH
  IN FlattenSeq([r \in 1..count |-> Record((r - 1) * FCGI_MAX_LENGTH, r * FCGI_MAX_LENGTH)])
Records ==
  LET count == (content_length + FCGI_MAX_LENGTH - 1) \div FCGI_MAX_LENGTH
  IN FlattenSeq([r \in 1..count |->
       Record((r - 1) * FCGI_MAX_LENGTH, MinOf(r * FCGI_MAX_LENGTH, content_length))])

\* Connected.  The queue is not emptied before: what an earlier attempt has put
\* there is still in it, and the content that attempt has taken is not there
\* again (req_c is NULL, mod_fastcgi.c:2129).
fcgi_create_env ==
  /\ pc = "INIT"
  /\ IF content_length > 0 /\ req_cq = <<>>
     THEN pc' = "crash" /\ UNCHANGED <<wb, req_cq>>
     ELSE /\ pc' = "WRITE"
          /\ wb' = wb \o <<MemChunk(<<Params>>)>> \o Records \o <<MemChunk(<<Stdin(0)>>)>>
          /\ req_cq' = <<>>
  /\ UNCHANGED <<content_length, files, sent, reconnects>>

-----------------------------------------------------------------------------
(* Writing *)

Left(c) == Len(c.tokens) - c.offset
Queued(q) == FlattenSeq([k \in DOMAIN q |-> SubSeq(q[k].tokens, q[k].offset + 1, Len(q[k].tokens))])
Before(q, k) == Len(Queued(SubSeq(q, 1, k - 1)))

\* network_write_chunkqueue_write up to n tokens: chunk after chunk, the last
\* of them perhaps not to its end.
Written(q, n) ==
  [k \in DOMAIN q |-> [q[k] EXCEPT !.offset = @ + MinOf(Left(q[k]), MaxOf(0, n - Before(q, k)))]]

FinishedMemory(c) == c.type = "mem" /\ Left(c) = 0
Finished(c) == Left(c) = 0

\* chunkqueue_remove_finished_chunks: the chunks at the head that are finished,
\* whose temporary files are unlinked.
FinishedHead(q) == {k \in DOMAIN q : \A j \in 1..k : Finished(q[j])}
Unlinked(q) == {q[k].name : k \in {j \in FinishedHead(q) : q[j].is_temp}}

\* The chunks up to the one at which n tokens end can be opened.
Readable(n) ==
  \A k \in DOMAIN wb : wb[k].type = "file" /\ Before(wb, k) < n => wb[k].name \in files

WriteTokens(n) ==
  LET q == Written(wb, n) IN
    /\ Readable(n)
    /\ wb' = SubSeq(q, Cardinality(FinishedHead(q)) + 1, Len(q))
    /\ files' = files \ Unlinked(q)
    /\ sent' = sent \o SubSeq(Queued(wb), 1, n)

\* A write: all of it, or a part and EAGAIN.
fcgi_write ==
  /\ pc = "WRITE"
  /\ \E n \in 0..Len(Queued(wb)) : WriteTokens(n)
  /\ pc' = IF wb' = <<>> THEN "READ" ELSE "WRITE"
  /\ UNCHANGED <<content_length, req_cq, reconnects>>

\* handler_ctx_free and then connection_reset: chunkqueue_free frees the chunks
\* of wb as they are; the temporary files of the request's own queue are unlinked.
Freed ==
  /\ pc' = "gone" /\ wb' = <<>> /\ req_cq' = <<>>
  /\ files' = files \ {req_cq[k].from : k \in DOMAIN req_cq}
  /\ UNCHANGED <<content_length, sent, reconnects>>

\* A file that cannot be opened ends the request, and so does any other error,
\* the end of the client or the answer of the backend.
fcgi_connection_close == pc \in {"INIT", "WRITE", "READ"} /\ Freed

\* ENOTCONN: the connection was dropped after accept(), nothing was written yet.
fcgi_reconnect ==
  /\ pc = "WRITE" /\ sent = <<>> /\ reconnects < max_reconnects
  /\ pc' = "INIT" /\ reconnects' = reconnects + 1
  /\ UNCHANGED <<content_length, req_cq, wb, files, sent>>

Next == fcgi_create_env \/ fcgi_write \/ fcgi_connection_close \/ fcgi_reconnect

Spec == Init /\ [][Next]_vars

\* The backend reads: what is queued is written in the end.
FairSpec == Spec /\ WF_vars(fcgi_create_env) /\ WF_vars(fcgi_write)
-----------------------------------------------------------------------------
(* Correctness. *)

\* What a backend makes of the tokens: where a header stands and what follows
\* it up to the next.
Headers(s) == {i \in DOMAIN s : s[i][1] # "data"}
Payload(s) == DOMAIN s \ Headers(s)
Numbers(s) == {s[i][2] : i \in Payload(s)}
EndOf(s, i) == IF \E j \in Headers(s) : j > i
               THEN (CHOOSE j \in Headers(s) : j > i /\ \A k \in Headers(s) : k > i => j <= k) - 1
               ELSE Len(s)

\* Whatever pieces the content was stored in and is written in, the backend gets
\* the parameters once, then records that are as long as announced and not
\* longer than allowed, whose contents are the bytes of the client in order,
\* and nothing after the empty record that ends them (mod_fastcgi.c:2098-2214).
\* This is about a first attempt; what a second one sends, see AttemptsFresh.
StreamRight ==
  reconnects = 0 =>
  /\ \A i \in Headers(sent) :
       IF i = 1 THEN sent[i] = Params /\ EndOf(sent, i) = 1
       ELSE /\ sent[i][1] = "stdin" /\ sent[i][2] <= FCGI_MAX_LENGTH
            /\ EndOf(sent, i) - i <= sent[i][2]
            /\ EndOf(sent, i) < Len(sent) => EndOf(sent, i) - i = sent[i][2] /\ sent[i][2] > 0
  /\ \A i, j \in Payload(sent) : i < j => sent[i][2] < sent[j][2]
  /\ \E m \in 0..content_length : Numbers(sent) = 1..m

\* A request of which everything is written is complete, and none of its
\* temporary files is left (chunk.c:57-76, mod_fastcgi.c:2148-2178).
CompleteAtEnd ==
  pc = "READ" /\ reconnects = 0 =>
    files = {} /\ sent # <<>> /\ Last(sent) = Stdin(0) /\ Numbers(sent) = 1..content_length

\* A temporary file is on the disk as long as a chunk that was not written refers
\* to it, although a file is referred to by several chunks
\* (mod_fastcgi.c:2150-2159: "we can't simply cleanup the request-content-queue").
FilesThere ==
  \A k \in DOMAIN wb : wb[k].type = "file" => wb[k].name \in files

\* The upload never gets stuck: unless it is given up, all of it is written,
\* whatever pieces write() takes (mod_fastcgi.c:3073: bytes_out = bytes_in).
UploadEnds == <>(pc \in {"READ", "gone", "crash"})

\* Nothing is left on the disk when the request is gone (chunk.h:25: "file is
\* temporary and will be deleted if on cleanup").
NoTempfileLeft == pc = "gone" => files = {}

\* An attempt after a dropped connection starts afresh (mod_fastcgi.c:1541: "next
\* step is resetting this attemp and setup a connection again").
AttemptsFresh ==
  pc # "crash" /\ Len(SelectSeq(sent \o Queued(wb), LAMBDA t : t = Params)) <= 1
=============================================================================
