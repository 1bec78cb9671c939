-------------------------- MODULE ReadQueueProofs --------------------------
(***************************************************************************)
(* What a connection makes of the bytes of its client is right, for every  *)
(* way to cut the bytes into reads, every length and every limit.  The     *)
(* queue is one sequence of bytes in pieces: most of the work is to turn   *)
(* what the code does with chunks into what happens to that sequence.      *)
(***************************************************************************)
EXTENDS ReadQueue, Pieces

-----------------------------------------------------------------------------
(* Types and the invariant. *)

States == {"connect", "request_start", "read", "request_end", "read_post",
           "handle_request", "error"}
ChunkRec == [mem : Seq(Byte), offset : Nat]
PartRec == [file : BOOLEAN, bytes : Seq(Byte), fd : BOOLEAN]

\* A queue whose chunks are begun in order: one that is begun has only finished
\* ones before it.
InOrder(q) ==
  /\ q \in Seq(ChunkRec)
  /\ \A k \in DOMAIN q : q[k].offset <= Len(q[k].mem) /\ q[k].mem # <<>>
  /\ \A j, k \in DOMAIN q : j < k /\ q[k].offset > 0 => Finished(q[j])

\* The read queue between two calls: its first chunk is not finished.
Tidy(q) == InOrder(q) /\ (q # <<>> => ~Finished(q[1]))

\* The chunks of q are what the last reads have brought.
LastReads(q, rs) ==
  /\ Len(q) <= Len(rs)
  /\ \A k \in DOMAIN q : q[k].mem = rs[Len(rs) - Len(q) + k]

Stream(rs) == FlattenSeq(rs)

\* What the client has sent since its last request.
Since(rs, b) == SubSeq(Stream(rs), b + 1, Len(Stream(rs)))

\* At most the last part of the content is a file that is open, and it is while
\* more is expected.
Open(cq, more) ==
  \A k \in DOMAIN cq : cq[k].file =>
    /\ cq[k].fd => k = Len(cq) /\ more
    /\ more /\ k = Len(cq) => cq[k].fd

\* A short content is in memory only.
AllInMemory(cq) == ~(content_length > mem_max) => \A k \in DOMAIN cq : ~cq[k].file

\* The same of a request that failed with a file open.
Left(cq) == \A k \in DOMAIN cq : cq[k].file /\ cq[k].fd => k = Len(cq)

\* What each state knows of request and content.
StateOK ==
  /\ state \in {"connect", "request_start", "read"} => request = <<>>
  /\ state \notin {"read_post", "handle_request", "error"} => content = <<>>
  /\ state = "read_post" => Len(Bytes(content)) < content_length
  /\ state = "handle_request" /\ (http_status = 0 \/ keep_alive) =>
       Len(Bytes(content)) = content_length
  /\ state = "read_post" => Open(content, TRUE) /\ AllInMemory(content)
  /\ state = "handle_request" => Open(content, FALSE)
  /\ state = "error" => Left(content)

\* The inductive invariant.
IInv ==
  /\ state \in States /\ content_length \in Lengths \cup {0} /\ keep_alive \in BOOLEAN
  /\ http_status \in {0, 413, 414}
  /\ reads \in Seq(Seq(Byte) \ {<<>>}) /\ Len(Stream(reads)) <= MaxStream
  /\ base \in 0..Len(Stream(reads))
  /\ request \in Seq(Byte) /\ content \in Seq(PartRec)
  /\ Tidy(queue) /\ LastReads(queue, reads)
  /\ Since(reads, base) = Cat(request, Cat(Bytes(content), Flat(queue)))
  /\ StateOK /\ HeaderExact /\ FoundWhenThere

-----------------------------------------------------------------------------
(* Chunks and queues.                                                      *)

Rests(q) == [k \in DOMAIN q |-> Rest(q[k])]

\* What is left of a chunk.
LEMMA RestOf ==
  ASSUME NEW c \in ChunkRec, c.offset <= Len(c.mem)
  PROVE  /\ Rest(c) \in Seq(Byte) /\ Len(Rest(c)) = Len(c.mem) - c.offset /\ Len(c.mem) \in Nat
         /\ c.offset \in Nat /\ \A i \in 1..Len(Rest(c)) : Rest(c)[i] = c.mem[c.offset + i]
         /\ Finished(c) <=> Rest(c) = <<>>
         /\ c.offset = 0 => Rest(c) = c.mem
<1> DEFINE m == c.mem
           o == c.offset
<1>1. m \in Seq(Byte) /\ o \in Nat /\ o <= Len(m) /\ Rest(c) = SubSeq(m, o + 1, Len(m))
  BY DEF ChunkRec, Rest
<1>2. Finished(c) <=> m = <<>> \/ o = Len(m)
  BY DEF Finished
<1> HIDE DEF m, o
<1>3. Len(m) \in Nat /\ o \in 0..Len(m)
  BY <1>1, LenProperties
<1>4. /\ Rest(c) \in Seq(Byte) /\ Len(Rest(c)) = Len(m) - o
      /\ \A i \in 1..Len(m) - o : Rest(c)[i] = m[o + i]
  BY <1>1, <1>3, CutInTwo
<1>5. Rest(c) = <<>> <=> Len(m) - o = 0
  BY <1>4, EmptySeq
<1>6. m = <<>> => o = Len(m)
  BY <1>1, <1>3, EmptySeq
<1>7. o = 0 => Rest(c) = m
  <2> SUFFICES ASSUME o = 0
               PROVE  Rest(c) = SubSeq(m, 1, Len(m))
    BY <1>1, SubSeqFull
  <2> QED
    BY <1>1
<1>8. Finished(c) <=> Rest(c) = <<>>
  BY <1>2, <1>3, <1>5, <1>6
<1>9. \A i \in 1..Len(Rest(c)) : Rest(c)[i] = m[o + i]
  BY <1>4
<1> QED
  BY <1>1, <1>3, <1>4, <1>7, <1>8, <1>9, Zenon DEF m, o

\* The pieces of a queue.
LEMMA RestsOf ==
  ASSUME NEW q \in Seq(ChunkRec), \A k \in DOMAIN q : q[k].offset <= Len(q[k].mem)
  PROVE  /\ Len(q) \in Nat /\ DOMAIN q = 1..Len(q) /\ \A k \in 1..Len(q) : q[k] \in ChunkRec
         /\ Rests(q) \in Seq(Seq(Byte)) /\ Len(Rests(q)) = Len(q)
         /\ \A k \in 1..Len(q) : Rests(q)[k] = Rest(q[k]) /\ Rest(q[k]) \in Seq(Byte)
         /\ Flat(q) = FlattenSeq(Rests(q)) /\ Flat(q) \in Seq(Byte) /\ Len(Flat(q)) \in Nat
<1>1. Len(q) \in Nat /\ DOMAIN q = 1..Len(q) /\ \A k \in 1..Len(q) : q[k] \in ChunkRec
  BY LenProperties, ElementOfSeq
<1>2. \A k \in 1..Len(q) : Rest(q[k]) \in Seq(Byte)
  BY <1>1, RestOf
<1>3. Rests(q) = [k \in 1..Len(q) |-> Rest(q[k])]
  BY <1>1 DEF Rests
<1>4. Rests(q) \in Seq(Seq(Byte)) /\ Len(Rests(q)) = Len(q)
  BY <1>1, <1>2, <1>3
<1>5. Flat(q) = FlattenSeq(Rests(q))
  BY DEF Flat, Rests
<1>6. Flat(q) \in Seq(Byte)
  BY <1>4, <1>5, FlatAppend, EmptySeq
<1>7. Len(Flat(q)) \in Nat
  BY <1>6, LenProperties
<1> QED
  BY <1>1, <1>2, <1>3, <1>4, <1>5, <1>6, <1>7

\* Finished chunks at the head are taken out, and no others.
LEMMA RemovedFinished ==
  ASSUME NEW q, InOrder(q)
  PROVE  LET r == chunkqueue_remove_finished_chunks(q)
         IN /\ Tidy(r) /\ Flat(r) = Flat(q) /\ Len(r) <= Len(q)
            /\ \A k \in DOMAIN r : Len(q) - Len(r) + k \in DOMAIN q
                                   /\ r[k].mem = q[Len(q) - Len(r) + k].mem
<1> DEFINE N == Len(q)
           S == {k \in 1..N : ~Finished(q[k])}
           Here(k) == /\ \A j \in 1..k - 1 : Finished(q[j])
                      /\ k <= N => ~Finished(q[k])
<1>1. /\ q \in Seq(ChunkRec) /\ N \in Nat /\ DOMAIN q = 1..N /\ (\A k \in 1..N : q[k] \in ChunkRec)
      /\ (\A k \in 1..N : q[k].offset <= Len(q[k].mem) /\ q[k].mem # <<>>)
      /\ Rests(q) \in Seq(Seq(Byte)) /\ Len(Rests(q)) = N
      /\ \A k \in 1..N : Rests(q)[k] = Rest(q[k])
      /\ Flat(q) = FlattenSeq(Rests(q)) /\ Flat(q) \in Seq(Byte)
  BY RestsOf DEF InOrder
<1>2. \E k \in 1..N + 1 : Here(k)
  <2>1. CASE S = {}
    <3>1. N + 1 \in 1..N + 1 /\ (N + 1) - 1 = N /\ ~(N + 1 <= N)
      BY <1>1
    <3>2. \A j \in 1..N : Finished(q[j])
      BY <2>1
    <3>3. Here(N + 1)
      BY <3>1, <3>2
    <3> QED
      BY <3>1, <3>3
  <2>2. CASE S # {}
    <3>1. S \subseteq Nat
      BY <1>1
    <3>2. PICK k \in S : \A j \in S : k <= j
      BY <2>2, <3>1, Least
    <3>3. k \in 1..N + 1 /\ ~Finished(q[k]) /\ \A j \in 1..k - 1 : j \in 1..N /\ ~(k <= j)
      BY <1>1, <3>2
    <3>4. Here(k)
      BY <3>2, <3>3
    <3> QED
      BY <3>3, <3>4
  <2> QED
    BY <2>1, <2>2
<1>3. PICK f \in 1..N + 1 : Here(f) /\ chunkqueue_remove_finished_chunks(q) = SubSeq(q, f, N)
  BY <1>2 DEF chunkqueue_remove_finished_chunks
<1> DEFINE n == f - 1
           r == SubSeq(q, f, N)
<1>4. n \in 0..N /\ n + 1 = f /\ f \in Nat
  BY <1>1
<1>5. /\ r \in Seq(ChunkRec) /\ Len(r) = N - n
      /\ \A i \in 1..N - n : r[i] = q[n + i]
  BY <1>1, <1>4, CutInTwo
<1> HIDE DEF r, n
<1>6. DOMAIN r = 1..N - n
  BY <1>5
<1>7. \A i \in 1..N - n : n + i \in 1..N
  BY <1>1, <1>4
<1>8. InOrder(r)
  <2>1. \A k \in DOMAIN r : r[k].offset <= Len(r[k].mem) /\ r[k].mem # <<>>
    BY <1>1, <1>5, <1>6, <1>7
  <2>2. ASSUME NEW j \in DOMAIN r, NEW k \in DOMAIN r, j < k, r[k].offset > 0
        PROVE  Finished(r[j])
    <3>1. n + j \in DOMAIN q /\ n + k \in DOMAIN q /\ n + j < n + k
      BY <1>1, <1>4, <1>6, <1>7, <2>2, SMTT(40)
    <3>2. r[j] = q[n + j] /\ r[k] = q[n + k]
      BY <1>5, <1>6
    <3>3. Finished(q[n + j])
      BY <2>2, <3>1, <3>2 DEF InOrder
    <3> QED
      BY <3>2, <3>3
  <2> QED
    BY <1>5, <2>1, <2>2 DEF InOrder
<1>9. r # <<>> => ~Finished(r[1])
  <2> SUFFICES ASSUME r # <<>>
               PROVE  ~Finished(r[1])
    OBVIOUS
  <2>1. N - n # 0
    BY <1>5, EmptySeq
  <2>2. 1 \in 1..N - n /\ f <= N
    <3>1. \A a, b \in Int : a \in 0..b /\ b - a # 0 => 1 \in 1..b - a /\ a + 1 <= b
      OBVIOUS
    <3>2. n \in Int /\ N \in Int
      BY <1>1, <1>4
    <3> QED
      BY <1>4, <2>1, <3>1, <3>2
  <2> QED
    BY <1>3, <1>4, <1>5, <2>2
<1>10. Flat(r) = Flat(q)
  <2> DEFINE s == Rests(q)
             u == SubSeq(s, 1, n)
             v == SubSeq(s, n + 1, Len(s))
  <2>1. \A j \in 1..n : s[j] = <<>>
    <3> SUFFICES ASSUME NEW j \in 1..n
                 PROVE  s[j] = <<>>
      OBVIOUS
    <3>1. j \in 1..N /\ j \in 1..f - 1
      BY <1>1, <1>4
    <3>2. Finished(q[j])
      BY <1>3, <3>1
    <3> QED
      BY <1>1, <3>1, <3>2, RestOf
  <2>2. s \in Seq(Seq(Byte)) /\ n \in 0..Len(s)
    BY <1>1, <1>4
  <2>3. FlattenSeq(u) = <<>>
    BY <2>1, <2>2, FlatSkip
  <2>4. Flat(q) = Cat(FlattenSeq(u), FlattenSeq(v))
    <3>1. FlattenSeq(s) = FlattenSeq(u) \o FlattenSeq(v)
      BY <2>2, FlatSplit
    <3> QED
      BY <1>1, <3>1, Zenon DEF Cat
  <2>5. /\ v \in Seq(Seq(Byte)) /\ Len(v) = N - n
        /\ \A i \in 1..N - n : v[i] = s[n + i]
    <3>1. /\ v \in Seq(Seq(Byte)) /\ Len(v) = Len(s) - n
          /\ \A i \in 1..Len(s) - n : v[i] = s[n + i]
      BY <2>2, CutInTwo
    <3>2. Len(s) = N
      BY <1>1
    <3> QED
      BY <3>1, <3>2
  <2> HIDE DEF s, u, v
  <2>6. FlattenSeq(v) \in Seq(Byte)
    BY <2>5, FlatAppend, EmptySeq
  <2>7. Flat(q) = FlattenSeq(v)
    BY <2>3, <2>4, <2>6, CatFacts
  <2>8. /\ Rests(r) \in Seq(Seq(Byte)) /\ Len(Rests(r)) = N - n
        /\ \A k \in 1..N - n : Rests(r)[k] = Rest(r[k])
        /\ Flat(r) = FlattenSeq(Rests(r))
    BY <1>5, <1>8, RestsOf DEF InOrder
  <2>9. ASSUME NEW k \in 1..N - n
        PROVE  v[k] = Rests(r)[k]
    BY <1>1, <1>5, <1>7, <2>5, <2>8 DEF s
  <2>10. v = Rests(r)
    BY <2>5, <2>8, <2>9, SeqEqual
  <2> QED
    BY <2>7, <2>8, <2>10
<1>11. Len(r) <= N /\ Len(q) - Len(r) = n
  BY <1>1, <1>4, <1>5
<1>12. r = chunkqueue_remove_finished_chunks(q)
  BY <1>3 DEF r
<1>13. \A k \in DOMAIN r : Len(q) - Len(r) + k \in DOMAIN q /\ r[k].mem = q[Len(q) - Len(r) + k].mem
  BY <1>1, <1>5, <1>6, <1>7, <1>11
<1> QED
  BY <1>8, <1>9, <1>10, <1>11, <1>12, <1>13 DEF Tidy

\* In a tidy queue only the first chunk was begun, and each has something left.
LEMMA TidyChunks ==
  ASSUME NEW q, Tidy(q)
  PROVE  /\ q \in Seq(ChunkRec) /\ Len(q) \in Nat /\ DOMAIN q = 1..Len(q)
         /\ \A k \in 1..Len(q) : /\ q[k] \in ChunkRec /\ q[k].offset <= Len(q[k].mem)
                                 /\ Rest(q[k]) \in Seq(Byte) /\ Len(Rest(q[k])) \in Nat
                                 /\ Rest(q[k]) # <<>> /\ ~Finished(q[k])
                                 /\ k > 1 => q[k].offset = 0 /\ Rest(q[k]) = q[k].mem
         /\ Rests(q) \in Seq(Seq(Byte)) /\ Len(Rests(q)) = Len(q)
         /\ \A k \in 1..Len(q) : Rests(q)[k] = Rest(q[k])
         /\ Flat(q) = FlattenSeq(Rests(q)) /\ Flat(q) \in Seq(Byte) /\ Len(Flat(q)) \in Nat
<1>1. /\ q \in Seq(ChunkRec) /\ Len(q) \in Nat /\ DOMAIN q = 1..Len(q)
      /\ (\A k \in 1..Len(q) : q[k] \in ChunkRec /\ q[k].offset <= Len(q[k].mem) /\ q[k].mem # <<>>)
      /\ Rests(q) \in Seq(Seq(Byte)) /\ Len(Rests(q)) = Len(q)
      /\ (\A k \in 1..Len(q) : Rests(q)[k] = Rest(q[k]) /\ Rest(q[k]) \in Seq(Byte))
      /\ Flat(q) = FlattenSeq(Rests(q)) /\ Flat(q) \in Seq(Byte) /\ Len(Flat(q)) \in Nat
  BY RestsOf DEF InOrder, Tidy
<1>2. ASSUME NEW k \in 1..Len(q)
      PROVE  /\ Len(Rest(q[k])) \in Nat /\ Rest(q[k]) # <<>> /\ ~Finished(q[k])
             /\ k > 1 => q[k].offset = 0 /\ Rest(q[k]) = q[k].mem
  <2>1. q # <<>>
    <3>1. Len(q) # 0
      BY <1>1
    <3> QED
      BY <3>1, EmptySeq
  <2>2. ~Finished(q[1]) /\ 1 \in 1..Len(q)
    BY <1>1, <2>1 DEF Tidy
  <2>3. q[k].offset \in Nat
    BY <1>1 DEF ChunkRec
  <2>4. CASE k > 1
    <3>1. ~(q[k].offset > 0)
      BY <1>1, <2>2, <2>4 DEF Tidy, InOrder
    <3>2. q[k].offset = 0
      BY <2>3, <3>1
    <3>3. Rest(q[k]) = q[k].mem /\ Rest(q[k]) # <<>>
      BY <1>1, <3>2, RestOf
    <3> QED
      BY <1>1, <3>2, <3>3, RestOf
  <2>5. CASE ~(k > 1)
    <3>1. k = 1
      BY <1>1, <2>5
    <3> QED
      BY <1>1, <2>2, <2>5, <3>1, RestOf
  <2> QED
    BY <2>4, <2>5
<1> QED
  BY <1>1, <1>2

\* A read() that brought something.
LEMMA Arrived ==
  ASSUME NEW q, Tidy(q), NEW rs \in Seq(Seq(Byte) \ {<<>>}), LastReads(q, rs),
         NEW p \in Seq(Byte) \ {<<>>}
  PROVE  LET t == Append(q, [mem |-> p, offset |-> 0])
         IN /\ WithoutEmpty(t) = t /\ Tidy(t) /\ LastReads(t, Append(rs, p))
            /\ Flat(t) = Cat(Flat(q), p)
<1> DEFINE c == [mem |-> p, offset |-> 0]
           t == Append(q, c)
           N == Len(q)
<1>1. /\ q \in Seq(ChunkRec) /\ N \in Nat /\ DOMAIN q = 1..N
      /\ (\A k \in 1..N : q[k] \in ChunkRec /\ q[k].offset <= Len(q[k].mem) /\ ~Finished(q[k])
                          /\ (k > 1 => q[k].offset = 0))
      /\ Rests(q) \in Seq(Seq(Byte)) /\ Len(Rests(q)) = N
      /\ (\A k \in 1..N : Rests(q)[k] = Rest(q[k]) /\ q[k].mem # <<>>)
      /\ Flat(q) = FlattenSeq(Rests(q)) /\ Flat(q) \in Seq(Byte)
  BY TidyChunks DEF Tidy, InOrder
<1>2. c \in ChunkRec /\ c.offset = 0 /\ c.mem = p /\ 0 <= Len(p) /\ Len(p) \in Nat
  BY LenProperties DEF ChunkRec
<1>3. Rest(c) = p /\ ~Finished(c)
  BY <1>2, RestOf
<1> HIDE DEF c
<1>4. /\ t \in Seq(ChunkRec) /\ Len(t) = N + 1 /\ t # <<>>
      /\ (\A k \in 1..N : t[k] = q[k]) /\ t[N + 1] = c
  <2>1. q \in Seq(ChunkRec) /\ c \in ChunkRec
    BY <1>1, <1>2
  <2> QED
    BY <2>1, AppendProperties
<1> HIDE DEF t
<1>5. DOMAIN t = 1..N + 1 /\ \A k \in 1..N + 1 : k = N + 1 \/ k \in 1..N
  BY <1>1, <1>4
<1>6. WithoutEmpty(t) = t
  BY <1>2, <1>4 DEF WithoutEmpty, Last
<1>7. \A k \in 1..N + 1 : t[k].offset <= Len(t[k].mem) /\ t[k].mem # <<>> /\ ~Finished(t[k])
                          /\ (k > 1 => t[k].offset = 0)
  BY <1>1, <1>2, <1>3, <1>4, <1>5
<1>8. Tidy(t)
  <2>1. ASSUME NEW j \in DOMAIN t, NEW k \in DOMAIN t, j < k
        PROVE  ~(t[k].offset > 0)
    <3>1. k > 1 /\ k \in 1..N + 1
      BY <1>1, <1>5, <2>1
    <3> QED
      BY <1>7, <3>1
  <2>2. 1 \in 1..N + 1
    BY <1>1
  <2> QED
    BY <1>4, <1>5, <1>7, <2>1, <2>2 DEF Tidy, InOrder
<1>9. LastReads(t, Append(rs, p))
  <2> DEFINE M == Len(rs)
             u == Append(rs, p)
  <2>1. M \in Nat /\ Len(u) = M + 1 /\ (\A k \in 1..M : u[k] = rs[k]) /\ u[M + 1] = p
    BY AppendProperties, LenProperties
  <2>2. N <= M /\ \A k \in 1..N : q[k].mem = rs[M - N + k]
    BY <1>1 DEF LastReads
  <2> HIDE DEF u, M
  <2>3. ASSUME NEW k \in 1..N + 1
        PROVE  t[k].mem = u[(M + 1) - (N + 1) + k]
    <3>1. CASE k = N + 1
      <4>1. (M + 1) - (N + 1) + k = M + 1
        BY <1>1, <2>1, <3>1
      <4> QED
        BY <1>2, <1>4, <2>1, <3>1, <4>1
    <3>2. CASE k \in 1..N
      <4>1. (M + 1) - (N + 1) + k = M - N + k /\ M - N + k \in 1..M
        BY <1>1, <2>1, <2>2, <3>2
      <4> QED
        BY <1>4, <2>1, <2>2, <3>2, <4>1
    <3> QED
      BY <1>5, <3>1, <3>2
  <2>4. N + 1 <= M + 1
    BY <1>1, <2>1, <2>2
  <2>5. Len(t) <= Len(u) /\ \A k \in DOMAIN t : t[k].mem = u[Len(u) - Len(t) + k]
    <3>1. Len(t) = N + 1 /\ Len(u) = M + 1 /\ DOMAIN t = 1..N + 1
      BY <1>4, <1>5, <2>1
    <3>2. ASSUME NEW k \in DOMAIN t
          PROVE  t[k].mem = u[Len(u) - Len(t) + k]
      <4>1. t[k].mem = u[(M + 1) - (N + 1) + k]
        BY <2>3, <3>1
      <4>2. (M + 1) - (N + 1) + k = Len(u) - Len(t) + k
        BY <3>1, Zenon
      <4> QED
        BY <4>1, <4>2
    <3> QED
      BY <2>4, <3>1, <3>2
  <2>6. LastReads(t, u)
    BY <2>5 DEF LastReads
  <2> QED
    BY <2>6 DEF u
<1>10. Flat(t) = Cat(Flat(q), p)
  <2> DEFINE s == Rests(q)
             v == Append(s, p)
  <2>1. s \in Seq(Seq(Byte)) /\ p \in Seq(Byte) /\ Len(s) = N
    BY <1>1
  <2>2. FlattenSeq(v) = Cat(FlattenSeq(s), p)
    <3>1. FlattenSeq(v) = FlattenSeq(s) \o p
      BY <2>1, FlatAppend
    <3> QED
      BY <3>1, Zenon DEF Cat
  <2>3. v \in Seq(Seq(Byte)) /\ Len(v) = N + 1 /\ (\A k \in 1..N : v[k] = s[k]) /\ v[N + 1] = p
    <3>1. Len(v) = Len(s) + 1 /\ (\A k \in 1..Len(s) : v[k] = s[k]) /\ v[Len(s) + 1] = p
          /\ v \in Seq(Seq(Byte))
      BY <2>1, AppendProperties
    <3> QED
      BY <2>1, <3>1
  <2>4. /\ Rests(t) \in Seq(Seq(Byte)) /\ Len(Rests(t)) = N + 1
        /\ (\A k \in 1..N + 1 : Rests(t)[k] = Rest(t[k]))
        /\ Flat(t) = FlattenSeq(Rests(t))
    BY <1>4, <1>8, TidyChunks
  <2> HIDE DEF v
  <2>5. \A k \in 1..N + 1 : Rests(t)[k] = v[k]
    BY <1>1, <1>3, <1>4, <1>5, <2>3, <2>4, ZenonT(40)
  <2>6. Rests(t) = v
    BY <2>3, <2>4, <2>5, SeqEqual
  <2> QED
    BY <1>1, <2>2, <2>4, <2>6
<1> QED
  BY <1>6, <1>8, <1>9, <1>10 DEF t, c

\* A read() that brought nothing.
LEMMA NothingArrived ==
  ASSUME NEW q \in Seq(ChunkRec)
  PROVE  WithoutEmpty(Append(q, [mem |-> <<>>, offset |-> 0])) = q
<1> DEFINE c == [mem |-> <<>>, offset |-> 0]
           t == Append(q, c)
<1>1. c \in ChunkRec /\ c.mem = <<>>
  BY EmptySeq DEF ChunkRec
<1> HIDE DEF c
<1>2. /\ t \in Seq(ChunkRec) /\ Len(t) = Len(q) + 1 /\ t # <<>> /\ Len(q) \in Nat
      /\ (\A k \in 1..Len(q) : t[k] = q[k]) /\ t[Len(q) + 1] = c
  BY <1>1, AppendProperties, LenProperties
<1> HIDE DEF t
<1>3. WithoutEmpty(t) = SubSeq(t, 1, Len(t) - 1)
  BY <1>1, <1>2 DEF WithoutEmpty, Last, Front
<1>4. Len(t) - 1 = Len(q) /\ Len(q) \in 0..Len(t)
  BY <1>2
<1>5. WithoutEmpty(t) \in Seq(ChunkRec) /\ Len(WithoutEmpty(t)) = Len(q)
      /\ \A i \in 1..Len(q) : WithoutEmpty(t)[i] = t[i]
  BY <1>2, <1>3, <1>4, CutInTwo
<1>6. WithoutEmpty(t) = q
  BY <1>2, <1>5, SeqEqual
<1> QED
  BY <1>6 DEF t, c

-----------------------------------------------------------------------------
(* The search for the end of the header.                                   *)

\* Parts of two sequences are the same when their elements are.
LEMMA SameParts ==
  ASSUME NEW S, NEW s \in Seq(S), NEW t \in Seq(S), NEW n \in Nat,
         NEW a \in Nat, a + n <= Len(s), NEW b \in Nat, b + n <= Len(t)
  PROVE  SubSeq(s, a + 1, a + n) = SubSeq(t, b + 1, b + n)
           <=> \A j \in 1..n : s[a + j] = t[b + j]
<1>1. Len(s) \in Nat /\ Len(t) \in Nat
      /\ (\A i \in 1..Len(s) : s[i] \in S) /\ (\A i \in 1..Len(t) : t[i] \in S)
  BY LenProperties, ElementOfSeq
<1> DEFINE u == SubSeq(s, a + 1, a + n)
           v == SubSeq(t, b + 1, b + n)
<1>2. u \in Seq(S) /\ Len(u) = n /\ \A j \in 1..n : u[j] = s[a + j]
  <2>1. \A i \in a + 1..a + n : s[i] \in S
    BY <1>1
  <2>2. a + 1 \in Int /\ a + n \in Int
    OBVIOUS
  <2>3. /\ u \in Seq(S)
        /\ Len(u) = IF a + 1 <= a + n THEN (a + n) - (a + 1) + 1 ELSE 0
        /\ \A i \in 1..(a + n) - (a + 1) + 1 : u[i] = s[(a + 1) + i - 1]
    BY <2>1, <2>2, SubSeqProperties
  <2>4. (a + n) - (a + 1) + 1 = n /\ \A i \in 1..n : (a + 1) + i - 1 = a + i
    OBVIOUS
  <2>5. Len(u) = n
    BY <2>3, <2>4
  <2> HIDE DEF u
  <2>6. ASSUME NEW j \in 1..n
        PROVE  u[j] = s[a + j]
    BY <2>3, <2>4
  <2> QED
    BY <2>3, <2>5, <2>6
<1>3. v \in Seq(S) /\ Len(v) = n /\ \A j \in 1..n : v[j] = t[b + j]
  <2>1. \A i \in b + 1..b + n : t[i] \in S
    BY <1>1
  <2>2. b + 1 \in Int /\ b + n \in Int
    OBVIOUS
  <2>3. /\ v \in Seq(S)
        /\ Len(v) = IF b + 1 <= b + n THEN (b + n) - (b + 1) + 1 ELSE 0
        /\ \A i \in 1..(b + n) - (b + 1) + 1 : v[i] = t[(b + 1) + i - 1]
    BY <2>1, <2>2, SubSeqProperties
  <2>4. (b + n) - (b + 1) + 1 = n /\ \A i \in 1..n : (b + 1) + i - 1 = b + i
    OBVIOUS
  <2>5. Len(v) = n
    BY <2>3, <2>4
  <2> HIDE DEF v
  <2>6. ASSUME NEW j \in 1..n
        PROVE  v[j] = t[b + j]
    BY <2>3, <2>4
  <2> QED
    BY <2>3, <2>5, <2>6
<1> HIDE DEF u, v
<1>4. ASSUME u = v, NEW j \in 1..n
      PROVE  s[a + j] = t[b + j]
  BY <1>2, <1>3, <1>4
<1>5. ASSUME \A j \in 1..n : s[a + j] = t[b + j]
      PROVE  u = v
  <2>1. \A j \in 1..n : u[j] = v[j]
    BY <1>2, <1>3, <1>5
  <2> QED
    BY <1>2, <1>3, <2>1, SeqEqual
<1>6. u = v <=> \A j \in 1..n : s[a + j] = t[b + j]
  BY <1>4, <1>5
<1> QED
  BY <1>6 DEF u, v

\* The end of a header is four bytes.
LEMMA EndBytes ==
  /\ EndOfHeader \in Seq(Byte) /\ Len(EndOfHeader) = 4
  /\ EndOfHeader = SubSeq(EndOfHeader, 0 + 1, 0 + 4)
BY DEF EndOfHeader, Byte

\* Where a header ends: byte by byte.
LEMMA EndsAre ==
  ASSUME NEW s \in Seq(Byte), NEW i \in Int
  PROVE  i \in Ends(s) <=> i \in 4..Len(s) /\ \A j \in 1..4 : s[(i - 4) + j] = EndOfHeader[j]
<1>1. Len(s) \in Nat
  BY LenProperties
<1>2. i \in Ends(s) <=> i \in 4..Len(s) /\ SubSeq(s, i - 3, i) = EndOfHeader
  BY <1>1 DEF Ends
<1>3. CASE i \in 4..Len(s)
  <2> DEFINE a == i - 4
  <2>1. a \in Nat /\ a + 1 = i - 3 /\ a + 4 = i /\ a + 4 <= Len(s)
    BY <1>1, <1>3
  <2> HIDE DEF a
  <2>2. SubSeq(s, a + 1, a + 4) = SubSeq(EndOfHeader, 0 + 1, 0 + 4)
          <=> \A j \in 1..4 : s[a + j] = EndOfHeader[0 + j]
    <3>1. 0 + 4 <= Len(EndOfHeader) /\ EndOfHeader \in Seq(Byte) /\ 0 \in Nat /\ 4 \in Nat
      BY EndBytes
    <3> HIDE DEF EndOfHeader
    <3> QED
      BY <2>1, <3>1, SameParts
  <2>3. SubSeq(s, i - 3, i) = EndOfHeader <=> \A j \in 1..4 : s[a + j] = EndOfHeader[0 + j]
    BY <2>1, <2>2, EndBytes, Zenon
  <2>4. \A j \in 1..4 : 0 + j = j
    OBVIOUS
  <2> QED
    BY <1>2, <1>3, <2>3, <2>4 DEF a
<1>4. CASE i \notin 4..Len(s)
  BY <1>2, <1>4
<1> QED
  BY <1>3, <1>4

\* Where byte i of what is left of chunk k is in the queue.
Pos(q, k, i) == Upto(Rests(q), k - 1) + i

\* How far the search looks from chunk k.
Reach(q, k) == IF k < Len(q) THEN Upto(Rests(q), k + 1) ELSE Upto(Rests(q), k)

\* The bytes of chunk k.
LEMMA ChunkBytes ==
  ASSUME NEW q, Tidy(q), NEW k \in 1..Len(q)
  PROVE  LET b == Rest(q[k])
             U == Upto(Rests(q), k - 1)
         IN /\ U \in Nat /\ Len(b) \in Nat /\ Len(b) > 0 /\ Upto(Rests(q), k) = U + Len(b)
            /\ U + Len(b) <= Len(Flat(q)) /\ \A j \in 1..Len(b) : Flat(q)[U + j] = b[j]
            /\ Upto(Rests(q), 0) = 0 /\ Upto(Rests(q), Len(q)) = Len(Flat(q))
<1>1. /\ Rests(q) \in Seq(Seq(Byte)) /\ Len(Rests(q)) = Len(q) /\ Rests(q)[k] = Rest(q[k])
      /\ Flat(q) = FlattenSeq(Rests(q)) /\ Rest(q[k]) # <<>> /\ Rest(q[k]) \in Seq(Byte)
  BY TidyChunks
<1> DEFINE s == Rests(q)
           b == Rest(q[k])
<1>2. b # <<>> /\ b \in Seq(Byte) /\ s[k] = b /\ k \in 1..Len(s) /\ s \in Seq(Seq(Byte))
      /\ Flat(q) = FlattenSeq(s) /\ Len(s) = Len(q)
  BY <1>1
<1> HIDE DEF s, b
<1>3. Len(b) \in Nat /\ Len(b) # 0
  BY <1>2, LenProperties, EmptySeq
<1>4. /\ Upto(s, 0) = 0 /\ Upto(s, Len(s)) = Len(FlattenSeq(s))
      /\ Upto(s, k - 1) \in Nat /\ Upto(s, k) \in Nat
      /\ Upto(s, k) = Upto(s, k - 1) + Len(s[k]) /\ Upto(s, k) <= Len(FlattenSeq(s))
      /\ \A i \in 1..Len(s[k]) : FlattenSeq(s)[Upto(s, k - 1) + i] = s[k][i]
  BY <1>2, PlaceOf
<1>5. /\ Upto(s, 0) = 0 /\ Upto(s, Len(q)) = Len(Flat(q))
      /\ Upto(s, k - 1) \in Nat
      /\ Upto(s, k) = Upto(s, k - 1) + Len(b) /\ Upto(s, k - 1) + Len(b) <= Len(Flat(q))
      /\ \A i \in 1..Len(b) : Flat(q)[Upto(s, k - 1) + i] = b[i]
  BY <1>2, <1>4
<1> QED
  BY <1>3, <1>5 DEF s, b

\* The search finds, from where it looks, the ends that it can see.
LEMMA FoundIs ==
  ASSUME NEW q, Tidy(q), NEW k \in 1..Len(q), NEW i \in 1..Len(Rest(q[k]))
  PROVE  FoundAt(q, k, i) <=> Pos(q, k, i) + 3 \in Ends(Flat(q)) /\ Pos(q, k, i) + 3 <= Reach(q, k)
<1> DEFINE b == Rest(q[k])
           n == Len(b)
           U == Upto(Rests(q), k - 1)
           F == Flat(q)
           have == n - i + 1
           missing == 4 - have
           p == U + i
<1>1. /\ U \in Nat /\ n \in Nat /\ Upto(Rests(q), k) = U + n
      /\ U + n <= Len(F) /\ \A j \in 1..n : F[U + j] = b[j]
  BY ChunkBytes
<1>2. /\ b \in Seq(Byte) /\ F \in Seq(Byte) /\ Len(F) \in Nat /\ Len(q) \in Nat /\ k \in Nat /\ i \in Nat
      /\ i <= n /\ i >= 1 /\ k <= Len(q)
  BY <1>1, TidyChunks
<1>3. p + 3 \in Ends(F) <=> p + 3 \in 4..Len(F) /\ \A j \in 1..4 : F[(p - 1) + j] = EndOfHeader[j]
  <2>1. p + 3 \in Int /\ (p + 3) - 4 = p - 1
    BY <1>1, <1>2
  <2> HIDE DEF p, F
  <2>2. p + 3 \in Ends(F) <=> p + 3 \in 4..Len(F) /\ \A j \in 1..4 : F[((p + 3) - 4) + j] = EndOfHeader[j]
    BY <1>2, <2>1, EndsAre
  <2> QED
    BY <2>1, <2>2, Zenon
<1>4. CASE have >= 4
  <2>1. FoundAt(q, k, i) <=> SubSeq(b, i, i + 3) = EndOfHeader
    BY <1>4 DEF FoundAt
  <2>2. i - 1 \in Nat /\ (i - 1) + 1 = i /\ (i - 1) + 4 = i + 3 /\ (i - 1) + 4 <= Len(b)
    BY <1>1, <1>2, <1>4
  <2>3. SubSeq(b, (i - 1) + 1, (i - 1) + 4) = SubSeq(EndOfHeader, 0 + 1, 0 + 4)
          <=> \A j \in 1..4 : b[(i - 1) + j] = EndOfHeader[0 + j]
    <3>1. 0 + 4 <= Len(EndOfHeader) /\ EndOfHeader \in Seq(Byte) /\ 0 \in Nat /\ 4 \in Nat
      BY EndBytes
    <3> HIDE DEF EndOfHeader, b, n
    <3> QED
      BY <1>2, <2>2, <3>1, SameParts
  <2>4. FoundAt(q, k, i) <=> \A j \in 1..4 : b[(i - 1) + j] = EndOfHeader[0 + j]
    BY <2>1, <2>2, <2>3, EndBytes, Zenon
  <2>5. \A j \in 1..4 : /\ 0 + j = j /\ (i - 1) + j \in 1..n /\ (p - 1) + j = U + ((i - 1) + j)
    BY <1>1, <1>2, <1>4, SMTT(40)
  <2>6. \A j \in 1..4 : F[(p - 1) + j] = b[(i - 1) + j]
    BY <1>1, <2>5
  <2>7. p + 3 \in 4..Len(F) /\ p + 3 <= Upto(Rests(q), k)
    BY <1>1, <1>2, <1>4
  <2>8. Upto(Rests(q), k) <= Reach(q, k)
    <3>1. CASE k < Len(q)
      <4>1. k + 1 \in 1..Len(q) /\ (k + 1) - 1 = k
        BY <1>2, <3>1
      <4>2. Upto(Rests(q), k + 1) = Upto(Rests(q), (k + 1) - 1) + Len(Rest(q[k + 1]))
            /\ Len(Rest(q[k + 1])) \in Nat /\ Upto(Rests(q), (k + 1) - 1) \in Nat
        BY <4>1, ChunkBytes
      <4> QED
        BY <3>1, <4>1, <4>2 DEF Reach
    <3>2. CASE ~(k < Len(q))
      BY <1>1, <3>2 DEF Reach
    <3> QED
      BY <3>1, <3>2
  <2>9. p + 3 <= Reach(q, k)
    <3>1. Reach(q, k) \in Int
      <4>1. Reach(q, k) = Upto(Rests(q), k) \/ (k < Len(q) /\ Reach(q, k) = Upto(Rests(q), k + 1))
        BY DEF Reach
      <4>2. k < Len(q) => k + 1 \in 1..Len(q)
        BY <1>2
      <4> QED
        BY <1>1, <4>1, <4>2, ChunkBytes
    <3>2. p + 3 \in Int /\ Upto(Rests(q), k) \in Int
      BY <1>1, <1>2
    <3> HIDE DEF p
    <3> QED
      BY <2>7, <2>8, <3>1, <3>2
  <2>10. (\A j \in 1..4 : F[(p - 1) + j] = EndOfHeader[j])
           <=> (\A j \in 1..4 : b[(i - 1) + j] = EndOfHeader[0 + j])
    <3> HIDE DEF F, b, p, EndOfHeader
    <3> QED
      BY <2>5, <2>6
  <2>11. FoundAt(q, k, i) <=> p + 3 \in Ends(F)
    BY <1>3, <2>4, <2>7, <2>10, Zenon
  <2> QED
    BY <2>9, <2>11, Zenon DEF Pos
<1>5. CASE ~(have >= 4) /\ k < Len(q)
  <2> DEFINE c == q[k + 1].mem
             V == Upto(Rests(q), k)
  <2>1. k + 1 \in 1..Len(q) /\ (k + 1) - 1 = k /\ k + 1 > 1
    BY <1>2, <1>5
  <2>2. /\ V \in Nat /\ Len(c) \in Nat /\ Upto(Rests(q), k + 1) = V + Len(c)
        /\ V + Len(c) <= Len(F) /\ \A j \in 1..Len(c) : F[V + j] = c[j]
        /\ c \in Seq(Byte)
    <3>1. c = Rest(q[k + 1]) /\ c \in Seq(Byte)
      <4>1. \A j \in 1..Len(q) : Rest(q[j]) \in Seq(Byte) /\ (j > 1 => Rest(q[j]) = q[j].mem)
        BY TidyChunks
      <4>2. Rest(q[k + 1]) \in Seq(Byte) /\ Rest(q[k + 1]) = q[k + 1].mem
        BY <2>1, <4>1
      <4> QED
        BY <4>2
    <3>2. LET d == Rest(q[k + 1])
              W == Upto(Rests(q), (k + 1) - 1)
          IN /\ W \in Nat /\ Len(d) \in Nat /\ Len(d) > 0 /\ Upto(Rests(q), k + 1) = W + Len(d)
             /\ W + Len(d) <= Len(F) /\ \A j \in 1..Len(d) : F[W + j] = d[j]
      BY <2>1, ChunkBytes
    <3> QED
      BY <2>1, <3>1, <3>2
  <2>3. V = U + n
    BY <1>1
  <2>4. FoundAt(q, k, i) <=> /\ Len(c) >= missing
                             /\ SubSeq(b, i, n) = SubSeq(EndOfHeader, 1, have)
                             /\ SubSeq(c, 1, missing) = SubSeq(EndOfHeader, have + 1, 4)
    BY <1>5 DEF FoundAt
  <2> HIDE DEF c, V
  <2>5. /\ have \in 1..3 /\ missing \in 1..3 /\ (i - 1) + 1 = i /\ (i - 1) + have = n /\ i - 1 \in Nat
        /\ have + missing = 4 /\ 0 + 1 = 1 /\ 0 + have = have /\ 0 + missing = missing
        /\ p + 3 = V + missing
    <3>1. \A x, y, z \in Nat : x >= 1 /\ x <= y /\ ~((y - x) + 1 >= 4) =>
            /\ (y - x) + 1 \in 1..3 /\ 4 - ((y - x) + 1) \in 1..3
            /\ (x - 1) + 1 = x /\ (x - 1) + ((y - x) + 1) = y /\ x - 1 \in Nat
            /\ ((y - x) + 1) + (4 - ((y - x) + 1)) = 4
            /\ 0 + ((y - x) + 1) = (y - x) + 1 /\ 0 + (4 - ((y - x) + 1)) = 4 - ((y - x) + 1)
            /\ (z + x) + 3 = (z + y) + (4 - ((y - x) + 1))
      OBVIOUS
    <3>2. i \in Nat /\ n \in Nat /\ U \in Nat /\ i >= 1 /\ i <= n /\ ~((n - i) + 1 >= 4) /\ V = U + n
      BY <1>1, <1>2, <1>5, <2>3
    <3>3. 0 + 1 = 1
      OBVIOUS
    <3> HIDE DEF n, U
    <3> QED
      BY <3>1, <3>2, <3>3
  <2> HIDE DEF have, missing
  <2>6. SubSeq(b, i, n) = SubSeq(EndOfHeader, 1, have)
          <=> \A j \in 1..have : b[(i - 1) + j] = EndOfHeader[0 + j]
    <3>1. /\ EndOfHeader \in Seq(Byte) /\ 0 \in Nat /\ have \in Nat /\ 0 + have <= Len(EndOfHeader)
          /\ (i - 1) + have <= Len(b)
      BY <1>1, <2>5, EndBytes
    <3> HIDE DEF EndOfHeader, b, n
    <3>2. SubSeq(b, (i - 1) + 1, (i - 1) + have) = SubSeq(EndOfHeader, 0 + 1, 0 + have)
            <=> \A j \in 1..have : b[(i - 1) + j] = EndOfHeader[0 + j]
      BY <1>2, <2>5, <3>1, SameParts, SMTT(40)
    <3> QED
      BY <2>5, <3>2, Zenon
  <2>7. ASSUME Len(c) >= missing
        PROVE  SubSeq(c, 1, missing) = SubSeq(EndOfHeader, have + 1, 4)
                 <=> \A j \in 1..missing : c[0 + j] = EndOfHeader[have + j]
    <3>1. /\ EndOfHeader \in Seq(Byte) /\ 0 \in Nat /\ have \in Nat /\ missing \in Nat
          /\ have + missing <= Len(EndOfHeader) /\ 0 + missing <= Len(c)
      <4>1. Len(EndOfHeader) = 4 /\ EndOfHeader \in Seq(Byte)
        BY EndBytes
      <4>2. 0 + missing <= Len(c)
        BY <2>2, <2>5, <2>7
      <4>3. have \in Nat /\ missing \in Nat /\ have + missing = 4
        BY <2>5
      <4> HIDE DEF EndOfHeader
      <4> QED
        BY <4>1, <4>2, <4>3
    <3> HIDE DEF EndOfHeader
    <3>2. SubSeq(c, 0 + 1, 0 + missing) = SubSeq(EndOfHeader, have + 1, have + missing)
            <=> \A j \in 1..missing : c[0 + j] = EndOfHeader[have + j]
      <4>1. c \in Seq(Byte)
        BY <2>2
      <4> HIDE DEF F, U
      <4> QED
        BY <3>1, <4>1, SameParts
    <3> QED
      BY <2>5, <3>2, Zenon
  <2>8. Reach(q, k) = V + Len(c)
    BY <1>5, <2>2 DEF Reach
  <2>9. p + 3 <= Reach(q, k) <=> Len(c) >= missing
    <3> HIDE DEF p
    <3> QED
      BY <2>2, <2>5, <2>8
  <2>10. ASSUME Len(c) >= missing
         PROVE  /\ p + 3 \in 4..Len(F)
                /\ \A j \in 1..have : /\ 0 + j = j /\ F[(p - 1) + j] = b[(i - 1) + j]
                /\ \A j \in 1..missing : /\ 0 + j = j /\ F[(p - 1) + (have + j)] = c[j]
    <3>1. p + 3 \in 4..Len(F)
      <4>1. V + missing <= V + Len(c)
        BY <2>2, <2>5, <2>10
      <4>2. p + 3 <= V + Len(c)
        BY <2>5, <4>1, Zenon
      <4> QED
        BY <1>1, <1>2, <2>2, <4>2, SMTT(40)
    <3>2. \A j \in 1..have : /\ 0 + j = j /\ (i - 1) + j \in 1..n /\ (p - 1) + j = U + ((i - 1) + j)
      BY <1>1, <1>2, <2>5
    <3>3. \A j \in 1..missing : /\ 0 + j = j /\ j \in 1..Len(c) /\ (p - 1) + (have + j) = V + j
      <4>1. \A x, v, l \in Nat : \A h, m \in 1..3 : h + m = 4 /\ x + 3 = v + m /\ l >= m =>
              \A j \in 1..m : 0 + j = j /\ j \in 1..l /\ (x - 1) + (h + j) = v + j
        OBVIOUS
      <4>2. p \in Nat
        BY <1>1, <1>2
      <4> HIDE DEF p
      <4> QED
        BY <2>2, <2>5, <2>10, <4>1, <4>2
    <3> HIDE DEF p, F, b, n
    <3> QED
      BY <1>1, <2>2, <3>1, <3>2, <3>3, SMTT(40)
  <2>11. ASSUME Len(c) >= missing
         PROVE  (\A j \in 1..4 : F[(p - 1) + j] = EndOfHeader[j])
                  <=> /\ \A j \in 1..have : b[(i - 1) + j] = EndOfHeader[0 + j]
                      /\ \A j \in 1..missing : c[0 + j] = EndOfHeader[have + j]
    <3>1. /\ \A j \in 1..have : j \in 1..4
          /\ \A j \in 1..missing : have + j \in 1..4
          /\ \A j \in 1..4 : j \in 1..have \/ \E m \in 1..missing : j = have + m
      <4>1. \A h, m \in 1..3 : h + m = 4 =>
              /\ \A j \in 1..h : j \in 1..4
              /\ \A j \in 1..m : h + j \in 1..4
              /\ \A j \in 1..4 : j \in 1..h \/ (j - h \in 1..m /\ j = h + (j - h))
        OBVIOUS
      <4> QED
        BY <2>5, <4>1
    <3> HIDE DEF p, F, b, n, EndOfHeader
    <3>2. ASSUME \A j \in 1..4 : F[(p - 1) + j] = EndOfHeader[j]
          PROVE  /\ \A j \in 1..have : b[(i - 1) + j] = EndOfHeader[0 + j]
                 /\ \A j \in 1..missing : c[0 + j] = EndOfHeader[have + j]
      BY <2>10, <2>11, <3>1, <3>2
    <3>3. ASSUME \A j \in 1..have : b[(i - 1) + j] = EndOfHeader[0 + j],
                 \A j \in 1..missing : c[0 + j] = EndOfHeader[have + j], NEW j \in 1..4
          PROVE  F[(p - 1) + j] = EndOfHeader[j]
      <4>1. CASE j \in 1..have
        BY <2>10, <2>11, <3>3, <4>1
      <4>2. CASE \E m \in 1..missing : j = have + m
        <5>1. PICK m \in 1..missing : j = have + m
          BY <4>2
        <5>2. 0 + m = m /\ F[(p - 1) + (have + m)] = c[m]
          BY <2>10, <2>11
        <5>3. c[0 + m] = EndOfHeader[have + m]
          BY <3>3
        <5> QED
          BY <5>1, <5>2, <5>3, Zenon
      <4> QED
        BY <3>1, <4>1, <4>2
    <3> QED
      BY <3>2, <3>3
  <2>12. CASE Len(c) >= missing
    BY <1>3, <2>4, <2>6, <2>7, <2>9, <2>10, <2>11, <2>12, Zenon DEF Pos
  <2>13. CASE ~(Len(c) >= missing)
    BY <2>4, <2>9, <2>13, Zenon DEF Pos
  <2> QED
    BY <2>12, <2>13
<1>6. CASE ~(have >= 4) /\ ~(k < Len(q))
  <2>1. ~FoundAt(q, k, i)
    BY <1>6 DEF FoundAt
  <2>2. Reach(q, k) = U + n /\ ~(p + 3 <= U + n)
    BY <1>1, <1>2, <1>6 DEF Reach
  <2> QED
    BY <2>1, <2>2, Zenon DEF Pos
<1> QED
  BY <1>4, <1>5, <1>6

\* The search looks at least to the end of its chunk, and into the next.
LEMMA ReachIs ==
  ASSUME NEW q, Tidy(q), NEW k \in 1..Len(q)
  PROVE  /\ Reach(q, k) \in Nat /\ Upto(Rests(q), k) \in Nat /\ Upto(Rests(q), k) <= Reach(q, k)
         /\ k < Len(q) => k + 1 \in 1..Len(q) /\ Reach(q, k) = Upto(Rests(q), k + 1)
<1>1. Len(q) \in Nat
  BY TidyChunks
<1>2. Upto(Rests(q), k - 1) \in Nat /\ Len(Rest(q[k])) \in Nat
      /\ Upto(Rests(q), k) = Upto(Rests(q), k - 1) + Len(Rest(q[k]))
  BY ChunkBytes
<1>3. CASE k < Len(q)
  <2>1. k + 1 \in 1..Len(q) /\ (k + 1) - 1 = k
    BY <1>1, <1>3
  <2>2. Upto(Rests(q), k + 1) = Upto(Rests(q), (k + 1) - 1) + Len(Rest(q[k + 1]))
        /\ Len(Rest(q[k + 1])) \in Nat /\ Upto(Rests(q), (k + 1) - 1) \in Nat
    BY <2>1, ChunkBytes
  <2> QED
    BY <1>2, <1>3, <2>1, <2>2 DEF Reach
<1>4. CASE ~(k < Len(q))
  BY <1>2, <1>4 DEF Reach
<1> QED
  BY <1>3, <1>4

\* The reads and the chunks they left end at the same bytes.
LEMMA ReadsEnd ==
  ASSUME NEW q, Tidy(q), NEW rs \in Seq(Seq(Byte) \ {<<>>}), LastReads(q, rs), NEW b \in Nat,
         Len(Stream(rs)) = b + Len(Flat(q)), NEW k \in 1..Len(q)
  PROVE  /\ Len(rs) \in Nat /\ (Len(rs) - Len(q)) + k \in 0..Len(rs)
         /\ Upto(rs, (Len(rs) - Len(q)) + k) = b + Upto(Rests(q), k)
<1> DEFINE N == Len(q)
           M == Len(rs)
           s == Rests(q)
           m == (M - N) + k
           u == SubSeq(rs, m + 1, M)
           v == SubSeq(s, k + 1, N)
<1>1. /\ N \in Nat /\ s \in Seq(Seq(Byte)) /\ Len(s) = N /\ Flat(q) = FlattenSeq(s)
      /\ (\A j \in 1..N : s[j] = Rest(q[j]) /\ (j > 1 => Rest(q[j]) = q[j].mem))
      /\ DOMAIN q = 1..N
  BY TidyChunks
<1>2. M \in Nat /\ rs \in Seq(Seq(Byte))
  BY LenProperties, SeqMonotonic
<1>3. N <= M /\ \A j \in 1..N : q[j].mem = rs[(M - N) + j]
  BY <1>1 DEF LastReads
<1>4. m \in 0..M /\ M - m = N - k /\ k \in 0..N
  BY <1>1, <1>2, <1>3
<1>5. /\ u \in Seq(Seq(Byte)) /\ Len(u) = N - k /\ \A i \in 1..N - k : u[i] = rs[m + i]
      /\ SubSeq(rs, 1, m) \in Seq(Seq(Byte))
  <2>1. /\ u \in Seq(Seq(Byte)) /\ Len(u) = M - m /\ \A i \in 1..M - m : u[i] = rs[m + i]
        /\ SubSeq(rs, 1, m) \in Seq(Seq(Byte))
    BY <1>2, <1>4, CutInTwo, ZenonT(40)
  <2> HIDE DEF u, m
  <2> QED
    BY <1>4, <2>1
<1>6. /\ v \in Seq(Seq(Byte)) /\ Len(v) = N - k /\ \A i \in 1..N - k : v[i] = s[k + i]
      /\ SubSeq(s, 1, k) \in Seq(Seq(Byte))
  <2>1. k \in 0..Len(s) /\ v = SubSeq(s, k + 1, Len(s)) /\ Len(s) - k = N - k
    BY <1>1, <1>4
  <2> HIDE DEF v, s
  <2> QED
    BY <1>1, <2>1, CutInTwo, SMTT(40)
<1>7. u = v
  <2>1. ASSUME NEW i \in 1..N - k
        PROVE  u[i] = v[i]
    <3>1. k + i \in 1..N /\ k + i > 1 /\ m + i = (M - N) + (k + i)
      BY <1>1, <1>2
    <3>2. u[i] = rs[(M - N) + (k + i)]
      <4>1. u[i] = rs[m + i]
        BY <1>5
      <4> QED
        BY <3>1, <4>1, Zenon
    <3>3. v[i] = q[k + i].mem
      BY <1>1, <1>6, <3>1
    <3> QED
      BY <1>3, <3>1, <3>2, <3>3
  <2> HIDE DEF u, v, m, M, N
  <2> QED
    BY <1>5, <1>6, <2>1, SeqEqual
<1>8. Len(FlattenSeq(rs)) = Upto(rs, m) + Len(FlattenSeq(u)) /\ Upto(rs, m) \in Nat
      /\ Len(FlattenSeq(u)) \in Nat
  <2> DEFINE x == FlattenSeq(SubSeq(rs, 1, m))
             y == FlattenSeq(u)
  <2>1. FlattenSeq(rs) = Cat(x, y)
    <3>1. FlattenSeq(rs) = x \o y
      BY <1>2, <1>4, FlatSplit
    <3> QED
      BY <3>1, Zenon DEF Cat
  <2>2. x \in Seq(Byte) /\ y \in Seq(Byte)
    BY <1>5, FlatAppend, EmptySeq
  <2>3. Upto(rs, m) = Len(x) /\ FlattenSeq(u) = y
    BY DEF Upto
  <2> HIDE DEF x, y, m, u
  <2>4. Len(x) \in Nat /\ Len(y) \in Nat /\ Len(Cat(x, y)) = Len(x) + Len(y)
    BY <2>2, CatFacts
  <2> QED
    BY <2>1, <2>3, <2>4
<1>9. Len(FlattenSeq(s)) = Upto(s, k) + Len(FlattenSeq(v)) /\ Upto(s, k) \in Nat
      /\ Len(FlattenSeq(v)) \in Nat
  <2> DEFINE x == FlattenSeq(SubSeq(s, 1, k))
             y == FlattenSeq(v)
  <2>1. FlattenSeq(s) = Cat(x, y)
    <3>1. FlattenSeq(s) = x \o FlattenSeq(SubSeq(s, k + 1, Len(s)))
      BY <1>1, <1>4, FlatSplit
    <3>2. Len(s) = N
      BY <1>1
    <3> QED
      BY <3>1, <3>2, Zenon DEF Cat
  <2>2. x \in Seq(Byte) /\ y \in Seq(Byte)
    BY <1>6, FlatAppend, EmptySeq
  <2>3. Upto(s, k) = Len(x)
    BY DEF Upto
  <2> HIDE DEF x, y
  <2> QED
    BY <2>1, <2>2, <2>3, CatFacts DEF y
<1>10. Len(FlattenSeq(rs)) = b + Len(FlattenSeq(s))
  BY <1>1 DEF Stream
<1>11. Upto(rs, m) = b + Upto(s, k)
  <2> HIDE DEF u, v, s, m
  <2>1. Upto(rs, m) + Len(FlattenSeq(u)) = b + (Upto(s, k) + Len(FlattenSeq(u)))
    BY <1>7, <1>8, <1>9, <1>10, Zenon
  <2>2. \A f, g, h \in Nat : f + h = b + (g + h) => f = b + g
    OBVIOUS
  <2> QED
    BY <1>8, <1>9, <2>1, <2>2, ZenonT(40)
<1> QED
  BY <1>2, <1>4, <1>11

\* The bytes i - 3 to i of what rs holds after b came in more than two reads.
Spread(rs, b, i) ==
  LET lengths == [k \in 0..Len(rs) |-> Len(FlattenSeq(SubSeq(rs, 1, k))) - b]
  IN Cardinality({k \in DOMAIN lengths : i - 3 <= lengths[k] /\ lengths[k] < i}) > 1

\* Two reads that end within these bytes make it so.
LEMMA SpreadBy ==
  ASSUME NEW rs, Len(rs) \in Nat, NEW b, NEW i, NEW x \in 0..Len(rs), NEW y \in 0..Len(rs), x # y,
         i - 3 <= Upto(rs, x) - b, Upto(rs, x) - b < i, i - 3 <= Upto(rs, y) - b, Upto(rs, y) - b < i
  PROVE  Spread(rs, b, i)
<1> DEFINE lengths == [k \in 0..Len(rs) |-> Len(FlattenSeq(SubSeq(rs, 1, k))) - b]
           W == {k \in DOMAIN lengths : i - 3 <= lengths[k] /\ lengths[k] < i}
<1>1. IsFiniteSet(W) /\ Cardinality(W) \in Nat
  <2>1. IsFiniteSet(0..Len(rs))
    BY FS_Interval
  <2>2. W \in SUBSET (0..Len(rs))
    OBVIOUS
  <2> HIDE DEF W
  <2> QED
    BY <2>1, <2>2, FS_Subset, FS_CardinalityType
<1>2. x \in W /\ y \in W
  BY DEF Upto
<1>3. Spread(rs, b, i) <=> Cardinality(W) > 1
  BY DEF Spread
<1> HIDE DEF W
<1>4. Cardinality(W) # 0
  BY <1>1, <1>2, FS_EmptySet
<1>5. Cardinality(W) # 1
  <2>1. ASSUME Cardinality(W) = 1
        PROVE  FALSE
    <3>1. PICK z : W = {z}
      BY <1>1, <2>1, FS_Singleton
    <3> QED
      BY <1>2, <3>1
  <2> QED
    BY <2>1
<1> QED
  BY <1>1, <1>3, <1>4, <1>5

\* An end of header in the queue is found, unless it came in more than two reads.
LEMMA NotFar ==
  ASSUME NEW q, Tidy(q), NEW rs \in Seq(Seq(Byte) \ {<<>>}), LastReads(q, rs), NEW b \in Nat,
         Len(Stream(rs)) = b + Len(Flat(q)), NEW i \in Ends(Flat(q)), ~Spread(rs, b, i)
  PROVE  \E k \in 1..Len(q) : \E x \in 1..Len(Rest(q[k])) : FoundAt(q, k, x) /\ Pos(q, k, x) + 3 = i
<1> DEFINE F == Flat(q)
           s == Rests(q)
           N == Len(q)
           p == i - 3
<1>1. /\ N \in Nat /\ s \in Seq(Seq(Byte)) /\ Len(s) = N /\ F = FlattenSeq(s) /\ F \in Seq(Byte)
      /\ Len(F) \in Nat
  BY TidyChunks
<1>2. i \in 4..Len(F) /\ p \in 1..Len(F) /\ p + 3 = i /\ i \in Nat /\ p \in Nat
  BY <1>1 DEF Ends
<1>3. PICK k \in 1..N : Upto(s, k - 1) < p /\ p <= Upto(s, k)
  <2>1. p \in 1..Len(FlattenSeq(s))
    BY <1>1, <1>2
  <2> HIDE DEF s, p
  <2>2. \E k \in 1..Len(s) : Upto(s, k - 1) < p /\ p <= Upto(s, k)
    BY <1>1, <2>1, PlaceThere
  <2> QED
    BY <1>1, <2>2
<1>4. /\ Upto(s, k - 1) \in Nat /\ Len(Rest(q[k])) \in Nat /\ Upto(s, k) = Upto(s, k - 1) + Len(Rest(q[k]))
      /\ Upto(s, N) = Len(F)
  BY ChunkBytes
<1> DEFINE x == p - Upto(s, k - 1)
<1> HIDE DEF p, s, F
<1>5. x \in 1..Len(Rest(q[k])) /\ Upto(s, k - 1) + x = p
  BY <1>2, <1>3, <1>4
<1>6. Pos(q, k, x) = p
  BY <1>5 DEF Pos, s
<1> HIDE DEF x
<1>7. /\ Reach(q, k) \in Nat /\ Upto(s, k) \in Nat /\ Upto(s, k) <= Reach(q, k)
      /\ k < N => k + 1 \in 1..N /\ Reach(q, k) = Upto(s, k + 1)
  BY ReachIs DEF s
<1>8. p + 3 <= Reach(q, k)
  <2> SUFFICES ASSUME ~(p + 3 <= Reach(q, k))
               PROVE  FALSE
    OBVIOUS
  <2>1. Upto(s, k) < i
    BY <1>2, <1>7
  <2>2. k < N
    <3>1. k # N
      BY <1>2, <1>4, <2>1
    <3> QED
      BY <1>1, <3>1
  <2>3. k + 1 \in 1..N /\ Upto(s, k + 1) < i /\ Upto(s, k) <= Upto(s, k + 1) /\ Upto(s, k + 1) \in Nat
    BY <1>2, <1>7, <2>2
  <2> DEFINE M == Len(rs)
             y == (M - N) + k
             z == (M - N) + (k + 1)
  <2>4. M \in Nat /\ y \in 0..M /\ Upto(rs, y) = b + Upto(s, k)
    BY ReadsEnd DEF s
  <2>5. z \in 0..M /\ Upto(rs, z) = b + Upto(s, k + 1)
    BY <2>3, ReadsEnd DEF s
  <2>6. y # z
    BY <1>1, <2>4
  <2> HIDE DEF y, z
  <2>7. /\ i - 3 <= Upto(rs, y) - b /\ Upto(rs, y) - b < i
        /\ i - 3 <= Upto(rs, z) - b /\ Upto(rs, z) - b < i
    BY <1>2, <1>3, <1>7, <2>1, <2>3, <2>4, <2>5, SMTT(40)
  <2> QED
    BY <2>4, <2>5, <2>6, <2>7, SpreadBy
<1>9. Pos(q, k, x) + 3 \in Ends(Flat(q)) /\ Pos(q, k, x) + 3 = i /\ Pos(q, k, x) + 3 <= Reach(q, k)
  BY <1>2, <1>6, <1>8
<1>10. FoundAt(q, k, x)
  BY <1>5, <1>9, FoundIs
<1> QED
  BY <1>5, <1>9, <1>10

\* Later chunks end later.
LEMMA UptoGrows ==
  ASSUME NEW q, Tidy(q), NEW k \in 1..Len(q), NEW m \in k..Len(q)
  PROVE  Upto(Rests(q), k) <= Upto(Rests(q), m)
<1> DEFINE T == {d \in Nat : k + d <= Len(q) => Upto(Rests(q), k) <= Upto(Rests(q), k + d)}
<1>0. Len(q) \in Nat /\ \A j \in 1..Len(q) : Upto(Rests(q), j) \in Nat
  BY TidyChunks, ReachIs
<1>1. 0 \in T
  BY <1>0
<1>2. ASSUME NEW d \in Nat, d \in T
      PROVE  d + 1 \in T
  <2> SUFFICES ASSUME k + (d + 1) <= Len(q)
               PROVE  Upto(Rests(q), k) <= Upto(Rests(q), k + (d + 1))
    OBVIOUS
  <2> DEFINE j == k + (d + 1)
  <2>1. j \in 1..Len(q) /\ j - 1 = k + d /\ k + d \in 1..Len(q) /\ k + d <= Len(q)
    BY <1>0
  <2>2. Upto(Rests(q), k) <= Upto(Rests(q), k + d)
    BY <1>2, <2>1
  <2> HIDE DEF j
  <2>3. Upto(Rests(q), j) = Upto(Rests(q), j - 1) + Len(Rest(q[j])) /\ Len(Rest(q[j])) \in Nat
    BY <2>1, ChunkBytes
  <2>4. Upto(Rests(q), k) <= Upto(Rests(q), j)
    BY <1>0, <2>1, <2>2, <2>3
  <2> QED
    BY <2>4 DEF j
<1> HIDE DEF T
<1>3. \A d \in Nat : d \in T
  BY <1>1, <1>2, SetInduction
<1>4. m - k \in Nat /\ k + (m - k) = m /\ m <= Len(q)
  BY <1>0
<1>5. m - k \in T
  BY <1>3, <1>4
<1> QED
  BY <1>4, <1>5 DEF T

\* The places where an end was found.
LEMMA FoundAre ==
  ASSUME NEW q, Tidy(q)
  PROVE  \A o : o \in Found(q) <=> \E k \in 1..Len(q) : \E x \in 1..Len(Rest(q[k])) :
                                     o = <<k, x>> /\ FoundAt(q, k, x)
<1>1. DOMAIN q = 1..Len(q)
  BY TidyChunks
<1> QED
  BY <1>1 DEF Found, Places

\* The first of them.
LEMMA FirstFound ==
  ASSUME NEW q, Tidy(q), Found(q) # {}
  PROVE  \E p \in Found(q) : \A o \in Found(q) : o = p \/ Before(p, o)
<1> DEFINE A == {k \in 1..Len(q) : \E x \in 1..Len(Rest(q[k])) : FoundAt(q, k, x)}
           B(k) == {x \in 1..Len(Rest(q[k])) : FoundAt(q, k, x)}
<1>1. \A o : o \in Found(q) <=> \E k \in 1..Len(q) : \E x \in 1..Len(Rest(q[k])) :
                                  o = <<k, x>> /\ FoundAt(q, k, x)
  BY FoundAre
<1>2. A # {} /\ A \subseteq Nat
  <2>1. Len(q) \in Nat
    BY TidyChunks
  <2> QED
    BY <1>1, <2>1
<1>3. PICK k \in A : \A j \in A : k <= j
  BY <1>2, Least
<1>4. B(k) # {} /\ B(k) \subseteq Nat
  <2>1. Len(Rest(q[k])) \in Nat
    BY TidyChunks
  <2> QED
    BY <1>3, <2>1
<1>5. PICK x \in B(k) : \A y \in B(k) : x <= y
  <2> HIDE DEF B
  <2> QED
    BY <1>4, Least
<1>6. <<k, x>> \in Found(q)
  BY <1>1, <1>3, <1>5
<1>7. ASSUME NEW o \in Found(q)
      PROVE  o = <<k, x>> \/ Before(<<k, x>>, o)
  <2>1. PICK l \in 1..Len(q) : \E y \in 1..Len(Rest(q[l])) : o = <<l, y>> /\ FoundAt(q, l, y)
    BY <1>1
  <2>2. PICK y \in 1..Len(Rest(q[l])) : o = <<l, y>> /\ FoundAt(q, l, y)
    BY <2>1
  <2>3. l \in A /\ k <= l /\ l \in Nat /\ k \in Nat
    BY <1>2, <1>3, <2>2
  <2>4. CASE k < l
    BY <2>2, <2>4 DEF Before
  <2>5. CASE k = l
    <3>1. y \in B(k) /\ x <= y /\ x \in Nat /\ y \in Nat
      BY <1>4, <1>5, <2>2, <2>5
    <3> QED
      BY <2>2, <2>5, <3>1 DEF Before
  <2> QED
    BY <2>3, <2>4, <2>5
<1> QED
  BY <1>6, <1>7

\* Where the header ends: at the first end that is found.
LEMMA EndIs ==
  ASSUME NEW q, Tidy(q), Found(q) # {}
  PROVE  LET e == End(q)
             L == Upto(Rests(q), e.chunk - 1) + e.offset
         IN /\ e.chunk \in 1..Len(q) /\ e.offset \in 1..Len(Rest(q[e.chunk]))
            /\ L \in Ends(Flat(q))
            /\ \A k \in 1..Len(q) : \A x \in 1..Len(Rest(q[k])) :
                 FoundAt(q, k, x) => L <= Pos(q, k, x) + 3
<1> DEFINE e == End(q)
           N == Len(q)
           First(p) == \A o \in Found(q) : o = p \/ Before(p, o)
           c == CHOOSE p \in Found(q) : First(p)
           have == Len(Rest(q[c[1]])) - c[2] + 1
<1>1. c \in Found(q) /\ First(c)
  <2>1. \E p \in Found(q) : First(p)
    BY FirstFound
  <2> HIDE DEF First
  <2> QED
    BY <2>1
<1>2. e = IF have >= 4 THEN [chunk |-> c[1], offset |-> c[2] + 3]
                       ELSE [chunk |-> c[1] + 1, offset |-> 4 - have]
  BY DEF End
<1> HIDE DEF c, e
<1>3. PICK k \in 1..N : \E x \in 1..Len(Rest(q[k])) : c = <<k, x>> /\ FoundAt(q, k, x)
  BY <1>1, FoundAre
<1>4. PICK x \in 1..Len(Rest(q[k])) : c = <<k, x>> /\ FoundAt(q, k, x)
  BY <1>3
<1> DEFINE n == Len(Rest(q[k]))
           U == Upto(Rests(q), k - 1)
<1>5. U \in Nat /\ n \in Nat /\ Upto(Rests(q), k) = U + n /\ N \in Nat /\ Upto(Rests(q), N) = Len(Flat(q))
  BY ChunkBytes, TidyChunks
<1>6. Pos(q, k, x) = U + x /\ (U + x) + 3 \in Ends(Flat(q)) /\ (U + x) + 3 <= Reach(q, k)
  BY <1>4, FoundIs DEF Pos
<1>7. c[1] = k /\ c[2] = x /\ have = n - x + 1
  BY <1>4
<1>8. /\ Reach(q, k) \in Nat
      /\ (k < N => k + 1 \in 1..N /\ Reach(q, k) = Upto(Rests(q), k + 1))
      /\ (~(k < N) => Reach(q, k) = U + n)
  BY <1>5, ReachIs DEF Reach
<1> HIDE DEF have
<1>9. /\ e.chunk \in 1..N /\ e.offset \in 1..Len(Rest(q[e.chunk]))
      /\ Upto(Rests(q), e.chunk - 1) + e.offset = (U + x) + 3
  <2>1. CASE have >= 4
    <3>1. e.chunk = k /\ e.offset = x + 3
      BY <1>2, <1>7, <2>1
    <3>2. x + 3 \in 1..n /\ U + (x + 3) = (U + x) + 3
      BY <1>5, <1>7, <2>1
    <3> HIDE DEF n
    <3> QED
      BY <3>1, <3>2 DEF n
  <2>2. CASE ~(have >= 4)
    <3>1. e.chunk = k + 1 /\ e.offset = 4 - have
      BY <1>2, <1>7, <2>2
    <3>2. k < N
      BY <1>5, <1>6, <1>7, <1>8, <2>2
    <3>3. k + 1 \in 1..N /\ Reach(q, k) = Upto(Rests(q), k + 1) /\ (k + 1) - 1 = k
      BY <1>8, <3>2
    <3>4. Upto(Rests(q), k + 1) = Upto(Rests(q), (k + 1) - 1) + Len(Rest(q[k + 1]))
          /\ Len(Rest(q[k + 1])) \in Nat
      BY <3>3, ChunkBytes
    <3>5. Upto(Rests(q), k + 1) = (U + n) + Len(Rest(q[k + 1]))
      BY <1>5, <3>3, <3>4
    <3>6. 4 - have \in 1..Len(Rest(q[k + 1])) /\ (U + n) + (4 - have) = (U + x) + 3
      <4>1. \A a, b, y, z \in Nat : y <= b /\ ~((b - y) + 1 >= 4) /\ (a + y) + 3 <= (a + b) + z =>
              4 - ((b - y) + 1) \in 1..z /\ (a + b) + (4 - ((b - y) + 1)) = (a + y) + 3
        OBVIOUS
      <4>2. x <= n /\ x \in Nat /\ ~((n - x) + 1 >= 4) /\ (U + x) + 3 <= (U + n) + Len(Rest(q[k + 1]))
        BY <1>5, <1>6, <1>7, <2>2, <3>3, <3>5
      <4> HIDE DEF U, n
      <4> QED
        BY <1>5, <1>7, <3>4, <4>1, <4>2
    <3> QED
      BY <1>5, <3>1, <3>3, <3>6
  <2> QED
    BY <2>1, <2>2
<1>10. ASSUME NEW l \in 1..N, NEW y \in 1..Len(Rest(q[l])), FoundAt(q, l, y)
       PROVE  (U + x) + 3 <= Pos(q, l, y) + 3
  <2>1. <<l, y>> \in Found(q)
    BY <1>10, FoundAre
  <2>2. <<l, y>> = <<k, x>> \/ Before(<<k, x>>, <<l, y>>)
    BY <1>1, <1>4, <2>1
  <2>3. Upto(Rests(q), l - 1) \in Nat /\ Len(Rest(q[l])) \in Nat
    BY ChunkBytes
  <2>4. CASE l = k
    <3>1. x <= y
      BY <1>5, <2>2, <2>3, <2>4 DEF Before
    <3> QED
      BY <1>5, <2>3, <2>4, <3>1 DEF Pos
  <2>5. CASE k < l
    <3>1. l - 1 \in k..N /\ k \in 1..N
      BY <1>5, <2>5
    <3>2. Upto(Rests(q), k) <= Upto(Rests(q), l - 1)
      BY <3>1, UptoGrows
    <3> QED
      BY <1>5, <2>3, <3>2, SMTT(40) DEF Pos
  <2>6. l = k \/ k < l
    BY <2>2 DEF Before
  <2> QED
    BY <2>4, <2>5, <2>6
<1> HIDE DEF U
<1>11. LET L == Upto(Rests(q), e.chunk - 1) + e.offset
       IN /\ e.chunk \in 1..N /\ e.offset \in 1..Len(Rest(q[e.chunk]))
          /\ L \in Ends(Flat(q))
          /\ \A l \in 1..N : \A y \in 1..Len(Rest(q[l])) :
               FoundAt(q, l, y) => L <= Pos(q, l, y) + 3
  BY <1>6, <1>9, <1>10
<1> QED
  BY <1>11 DEF e

\* A chunk of which some more bytes are taken.
LEMMA ChunkTaken ==
  ASSUME NEW c \in ChunkRec, c.offset <= Len(c.mem), NEW n \in 0..Len(Rest(c))
  PROVE  LET d == [c EXCEPT !.offset = @ + n]
         IN /\ d \in ChunkRec /\ d.mem = c.mem /\ d.offset = c.offset + n /\ d.offset <= Len(d.mem)
            /\ Rest(c) = Cat(SubSeq(Rest(c), 1, n), Rest(d))
            /\ SubSeq(Rest(c), 1, n) \in Seq(Byte) /\ Len(SubSeq(Rest(c), 1, n)) = n
<1> DEFINE d == [c EXCEPT !.offset = @ + n]
           b == Rest(c)
           u == SubSeq(b, 1, n)
           v == SubSeq(b, n + 1, Len(b))
<1>1. /\ b \in Seq(Byte) /\ Len(b) = Len(c.mem) - c.offset /\ Len(c.mem) \in Nat
      /\ c.offset \in Nat /\ \A i \in 1..Len(b) : b[i] = c.mem[c.offset + i]
  BY RestOf
<1>2. d \in ChunkRec /\ d.mem = c.mem /\ d.offset = c.offset + n
  BY <1>1 DEF ChunkRec
<1> HIDE DEF d
<1>3. n \in Nat /\ Len(b) \in Nat /\ d.offset <= Len(d.mem) /\ Len(d.mem) - d.offset = Len(b) - n
      /\ n \in 0..Len(b)
  BY <1>1, <1>2
<1>4. /\ Rest(d) \in Seq(Byte) /\ Len(Rest(d)) = Len(b) - n
      /\ \A i \in 1..Len(b) - n : Rest(d)[i] = c.mem[d.offset + i]
  <2>1. /\ Rest(d) \in Seq(Byte) /\ Len(Rest(d)) = Len(d.mem) - d.offset
        /\ \A i \in 1..Len(Rest(d)) : Rest(d)[i] = d.mem[d.offset + i]
    BY <1>2, <1>3, RestOf
  <2> HIDE DEF b
  <2> QED
    BY <1>2, <1>3, <2>1
<1>5. /\ b = u \o v /\ u \in Seq(Byte) /\ Len(u) = n
      /\ v \in Seq(Byte) /\ Len(v) = Len(b) - n
      /\ \A i \in 1..Len(b) - n : v[i] = b[n + i]
  <2> HIDE DEF b
  <2>1. b \in Seq(Byte) /\ n \in 0..Len(b)
    BY <1>1, <1>3
  <2> QED
    BY <2>1, CutInTwo, ZenonT(40)
<1>6. ASSUME NEW i \in 1..Len(b) - n
      PROVE  v[i] = Rest(d)[i]
  <2>1. n + i \in 1..Len(b) /\ c.offset + (n + i) = d.offset + i
    BY <1>1, <1>2, <1>3
  <2>2. v[i] = b[n + i] /\ b[n + i] = c.mem[c.offset + (n + i)]
    <3> HIDE DEF b, u, v
    <3> QED
      BY <1>1, <1>5, <2>1
  <2> QED
    BY <1>4, <2>1, <2>2
<1> HIDE DEF b, u, v
<1>7. v = Rest(d)
  BY <1>4, <1>5, <1>6, SeqEqual
<1>8. b = Cat(u, Rest(d))
  BY <1>5, <1>7, Zenon DEF Cat
<1> QED
  BY <1>2, <1>3, <1>5, <1>8 DEF b, u, d

\* The header and what is left of the queue are what was in the queue.
LEMMA HeaderCopied ==
  ASSUME NEW q, Tidy(q), NEW e, e.chunk \in 1..Len(q), e.offset \in 1..Len(Rest(q[e.chunk]))
  PROVE  LET h == Header(q, e)
             t == Copied(q, e)
         IN /\ h \in Seq(Byte) /\ Len(h) = Upto(Rests(q), e.chunk - 1) + e.offset
            /\ Flat(q) = Cat(h, Flat(t))
            /\ InOrder(t) /\ Len(t) = Len(q) /\ \A k \in 1..Len(q) : t[k].mem = q[k].mem
<1> DEFINE N == Len(q)
           c == e.chunk
           n == c - 1
           b == SubSeq(Rest(q[c]), 1, e.offset)
           s == Rests(q)
           t == Copied(q, e)
           r == Rests(t)
<1>1. /\ q \in Seq(ChunkRec) /\ N \in Nat /\ DOMAIN q = 1..N
      /\ (\A k \in 1..N : q[k] \in ChunkRec /\ q[k].offset <= Len(q[k].mem) /\ q[k].mem # <<>>
                          /\ (k > 1 => q[k].offset = 0))
      /\ s \in Seq(Seq(Byte)) /\ Len(s) = N /\ Flat(q) = FlattenSeq(s)
      /\ (\A k \in 1..N : s[k] = Rest(q[k]))
  BY TidyChunks DEF Tidy, InOrder
<1>2. /\ c \in 1..N /\ n \in 0..N /\ n + 1 = c /\ e.offset \in 0..Len(Rest(q[c])) /\ n \in Nat
      /\ e.offset \in Nat
  BY <1>1
<1>3. t = [k \in 1..N |-> CASE k < c -> [q[k] EXCEPT !.offset = Len(q[k].mem)]
                            [] k = c -> [q[k] EXCEPT !.offset = @ + e.offset]
                            [] OTHER -> q[k]]
  BY <1>1 DEF Copied
<1>4. /\ \A k \in 1..n : t[k] = [q[k] EXCEPT !.offset = Len(q[k].mem)]
      /\ t[c] = [q[c] EXCEPT !.offset = @ + e.offset]
      /\ \A k \in c + 1..N : t[k] = q[k]
  <2>1. /\ \A k \in 1..n : k \in 1..N /\ k < c
        /\ \A k \in c + 1..N : k \in 1..N /\ ~(k < c) /\ k # c
        /\ ~(c < c)
    BY <1>1, <1>2, SMTT(40)
  <2> HIDE DEF n, t, N, c
  <2> QED
    BY <1>2, <1>3, <2>1
<1>5. /\ t[c] \in ChunkRec /\ t[c].mem = q[c].mem /\ t[c].offset <= Len(t[c].mem)
      /\ Rest(q[c]) = Cat(b, Rest(t[c])) /\ b \in Seq(Byte) /\ Len(b) = e.offset
  <2> DEFINE a == q[c]
             m == e.offset
             d == [a EXCEPT !.offset = @ + m]
  <2>1. a \in ChunkRec /\ a.offset <= Len(a.mem) /\ m \in 0..Len(Rest(a))
    BY <1>1, <1>2
  <2>2. t[c] = d
    BY <1>4
  <2>3. /\ d \in ChunkRec /\ d.mem = a.mem /\ d.offset <= Len(d.mem)
        /\ Rest(a) = Cat(SubSeq(Rest(a), 1, m), Rest(d))
        /\ SubSeq(Rest(a), 1, m) \in Seq(Byte) /\ Len(SubSeq(Rest(a), 1, m)) = m
    <3> HIDE DEF a, m
    <3> QED
      BY <2>1, ChunkTaken
  <2> QED
    BY <2>2, <2>3, Zenon
<1>6. ASSUME NEW k \in 1..n
      PROVE  /\ t[k] \in ChunkRec /\ t[k].mem = q[k].mem /\ t[k].offset <= Len(t[k].mem)
             /\ Finished(t[k]) /\ Rest(t[k]) = <<>>
  <2>1. q[k] \in ChunkRec /\ k \in 1..N
    BY <1>1, <1>2
  <2>2. Len(q[k].mem) \in Nat
    BY <2>1, LenProperties DEF ChunkRec
  <2>3. t[k] \in ChunkRec /\ t[k].mem = q[k].mem /\ t[k].offset = Len(q[k].mem)
    BY <1>4, <2>1, <2>2 DEF ChunkRec
  <2>4. Finished(t[k])
    BY <2>3 DEF Finished
  <2>5. t[k].offset <= Len(t[k].mem)
    BY <2>2, <2>3
  <2> QED
    BY <2>3, <2>4, <2>5, RestOf
<1> HIDE DEF t
<1>7. \A k \in 1..N : k \in 1..n \/ k = c \/ k \in c + 1..N
  BY <1>1, <1>2
<1>8. \A k \in 1..N : t[k] \in ChunkRec /\ t[k].mem = q[k].mem /\ t[k].offset <= Len(t[k].mem)
                      /\ t[k].mem # <<>>
  <2> SUFFICES ASSUME NEW k \in 1..N
               PROVE  t[k] \in ChunkRec /\ t[k].mem = q[k].mem /\ t[k].offset <= Len(t[k].mem)
    BY <1>1
  <2> HIDE DEF n, N, c, b
  <2> QED
    BY <1>1, <1>4, <1>5, <1>6, <1>7
<1>9. t \in Seq(ChunkRec) /\ Len(t) = N /\ DOMAIN t = 1..N
  <2>1. \A k \in 1..N : t[k] \in ChunkRec
    BY <1>8
  <2>2. t = [k \in 1..N |-> t[k]]
    BY <1>3 DEF t
  <2> HIDE DEF N
  <2> QED
    BY <1>1, <2>1, <2>2, SMTT(40)
<1>10. InOrder(t)
  <2>1. ASSUME NEW j \in 1..N, NEW k \in 1..N, j < k, t[k].offset > 0
        PROVE  Finished(t[j])
    <3>1. ~(k \in c + 1..N)
      <4> SUFFICES ASSUME k \in c + 1..N
                   PROVE  FALSE
        OBVIOUS
      <4>1. t[k] = q[k] /\ k > 1
        BY <1>2, <1>4
      <4>2. q[k].offset = 0
        BY <1>1, <4>1
      <4> QED
        BY <2>1, <4>1, <4>2
    <3>2. j \in 1..n
      BY <1>1, <1>2, <1>7, <2>1, <3>1, SMTT(40)
    <3> QED
      BY <1>6, <3>2
  <2> QED
    BY <1>8, <1>9, <2>1 DEF InOrder
<1>11. /\ r \in Seq(Seq(Byte)) /\ Len(r) = N /\ Flat(t) = FlattenSeq(r)
       /\ (\A k \in 1..N : r[k] = Rest(t[k]))
  BY <1>8, <1>9, RestsOf
<1> DEFINE A == FlattenSeq(SubSeq(s, 1, n))
           u == SubSeq(s, n + 1, Len(s))
           v == SubSeq(r, n + 1, Len(r))
<1> HIDE DEF s, r, b
<1>12. /\ FlattenSeq(s) = Cat(A, FlattenSeq(u)) /\ A \in Seq(Byte) /\ SubSeq(s, 1, n) \in Seq(Seq(Byte))
       /\ Len(SubSeq(s, 1, n)) = n
       /\ (\A i \in 1..n : SubSeq(s, 1, n)[i] = s[i])
       /\ u \in Seq(Seq(Byte)) /\ Len(u) = N - n /\ \A i \in 1..N - n : u[i] = s[n + i]
  <2>1. n \in 0..Len(s)
    BY <1>1, <1>2
  <2>2. FlattenSeq(s) = A \o FlattenSeq(u)
    <3> HIDE DEF n
    <3> QED
      BY <1>1, <2>1, FlatSplit
  <2>3. /\ SubSeq(s, 1, n) \in Seq(Seq(Byte)) /\ u \in Seq(Seq(Byte)) /\ Len(u) = Len(s) - n
        /\ \A i \in 1..Len(s) - n : u[i] = s[n + i]
        /\ Len(SubSeq(s, 1, n)) = n
        /\ \A i \in 1..n : SubSeq(s, 1, n)[i] = s[i]
    <3> HIDE DEF n
    <3> QED
      BY <1>1, <2>1, CutInTwo, ZenonT(40)
  <2>4. A \in Seq(Byte)
    BY <2>3, FlatAppend, EmptySeq
  <2>5. FlattenSeq(s) = Cat(A, FlattenSeq(u))
    BY <2>2, Zenon DEF Cat
  <2> HIDE DEF A, u, n, N
  <2> QED
    BY <1>1, <2>3, <2>4, <2>5
<1>13. /\ FlattenSeq(r) = Cat(<<>>, FlattenSeq(v))
       /\ v \in Seq(Seq(Byte)) /\ Len(v) = N - n /\ \A i \in 1..N - n : v[i] = r[n + i]
  <2>1. n \in 0..Len(r)
    BY <1>2, <1>11
  <2>2. FlattenSeq(r) = FlattenSeq(SubSeq(r, 1, n)) \o FlattenSeq(v)
    <3> HIDE DEF n
    <3> QED
      BY <1>11, <2>1, FlatSplit
  <2>3. /\ v \in Seq(Seq(Byte)) /\ Len(v) = Len(r) - n
        /\ \A i \in 1..Len(r) - n : v[i] = r[n + i]
    <3> HIDE DEF n
    <3> QED
      BY <1>11, <2>1, CutInTwo
  <2>4. \A j \in 1..n : r[j] = <<>>
    <3>1. \A j \in 1..n : j \in 1..N
      BY <1>2
    <3> QED
      BY <1>6, <1>11, <3>1
  <2>5. FlattenSeq(SubSeq(r, 1, n)) = <<>>
    <3> HIDE DEF n
    <3> QED
      BY <1>11, <2>1, <2>4, FlatSkip
  <2>6. FlattenSeq(r) = Cat(<<>>, FlattenSeq(v))
    BY <2>2, <2>5, Zenon DEF Cat
  <2> HIDE DEF v, n, N
  <2> QED
    BY <1>11, <2>3, <2>6
<1> HIDE DEF A, u, v
<1>14. FlattenSeq(u) = Cat(b, FlattenSeq(v))
  <2>1. 1 \in 1..Len(u) /\ Len(u) = Len(v) /\ 1 \in 1..N - n /\ n + 1 = c
    BY <1>1, <1>2, <1>12, <1>13
  <2>2. u[1] = Cat(b, v[1])
    <3>1. u[1] = s[n + 1] /\ v[1] = r[n + 1]
      <4> HIDE DEF n, N
      <4> QED
        BY <1>12, <1>13, <2>1
    <3>2. u[1] = s[c] /\ v[1] = r[c]
      BY <1>2, <3>1, Zenon
    <3>3. s[c] = Rest(q[c]) /\ r[c] = Rest(t[c])
      BY <1>1, <1>2, <1>11
    <3> QED
      BY <1>5, <3>2, <3>3, Zenon
  <2>3. u[1] = b \o v[1]
    BY <2>2, Zenon DEF Cat
  <2>4. ASSUME NEW i \in 2..N - n
        PROVE  u[i] = v[i]
    <3>1. i \in 1..N - n /\ n + i \in c + 1..N /\ n + i \in 1..N
      <4>1. \A x, y, z \in Nat : \A k \in 2..z - x :
              x + 1 = y => k \in 1..z - x /\ x + k \in y + 1..z /\ x + k \in 1..z
        OBVIOUS
      <4> HIDE DEF n, N, c
      <4>2. n \in Nat /\ c \in Nat /\ N \in Nat /\ n + 1 = c
        BY <1>1, <1>2
      <4> QED
        BY <4>1, <4>2
    <3>2. u[i] = s[n + i] /\ v[i] = r[n + i]
      <4> HIDE DEF n, N
      <4> QED
        BY <1>12, <1>13, <3>1
    <3>3. s[n + i] = Rest(q[n + i]) /\ r[n + i] = Rest(t[n + i])
      BY <1>1, <1>11, <3>1
    <3>4. t[n + i] = q[n + i]
      BY <1>4, <3>1
    <3> QED
      BY <3>2, <3>3, <3>4, Zenon
  <2>5. FlattenSeq(u) = b \o FlattenSeq(v)
    <3>1. /\ \A j \in 1..1 - 1 : u[j] = <<>> /\ v[j] = <<>>
          /\ \A j \in 1 + 1..Len(u) : u[j] = v[j]
      <4>1. Len(u) = N - n /\ 1 + 1 = 2 /\ 1..1 - 1 = {}
        BY <1>12
      <4> HIDE DEF n, N
      <4> QED
        BY <2>4, <4>1
    <3>2. u \in Seq(Seq(Byte)) /\ v \in Seq(Seq(Byte)) /\ b \in Seq(Byte)
      BY <1>5, <1>12, <1>13
    <3> HIDE DEF n, N
    <3> QED
      BY <2>1, <2>3, <3>1, <3>2, FlatTaken
  <2> QED
    BY <2>5, Zenon DEF Cat
<1>15. FlattenSeq(v) \in Seq(Byte) /\ FlattenSeq(r) = FlattenSeq(v)
  <2>1. FlattenSeq(v) \in Seq(Byte)
    BY <1>13, FlatAppend, EmptySeq
  <2> QED
    BY <1>13, <2>1, CatFacts
<1>16. Header(q, e) = Cat(A, b)
  <2> DEFINE w == SubSeq(q, 1, n)
  <2>1. /\ w \in Seq(ChunkRec) /\ Len(w) = n /\ \A i \in 1..n : w[i] = q[i]
    <3> HIDE DEF n
    <3> QED
      BY <1>1, <1>2, CutInTwo
  <2>2. Header(q, e) = Flat(w) \o b
    BY DEF Header, b
  <2> HIDE DEF w
  <2>3. \A k \in 1..n : k \in 1..N
    BY <1>2
  <2>4. /\ Rests(w) \in Seq(Seq(Byte)) /\ Len(Rests(w)) = n
        /\ (\A k \in 1..n : Rests(w)[k] = Rest(w[k]))
        /\ Flat(w) = FlattenSeq(Rests(w))
    <3>1. DOMAIN w = 1..n
      BY <2>1
    <3> HIDE DEF n
    <3> QED
      BY <1>1, <2>1, <2>3, <3>1, RestsOf
  <2>5. \A k \in 1..n : Rests(w)[k] = SubSeq(s, 1, n)[k]
    <3> HIDE DEF n
    <3> QED
      BY <1>1, <1>12, <2>1, <2>3, <2>4
  <2>6. Rests(w) = SubSeq(s, 1, n)
    <3> DEFINE x == SubSeq(s, 1, n)
    <3>1. x \in Seq(Seq(Byte)) /\ Len(x) = n /\ \A k \in 1..n : Rests(w)[k] = x[k]
      BY <1>12, <2>5
    <3> HIDE DEF x, n
    <3> QED
      BY <2>4, <3>1, SeqEqual DEF x
  <2> QED
    BY <2>2, <2>4, <2>6, Zenon DEF Cat, A
<1>17. /\ Cat(A, b) \in Seq(Byte) /\ Len(Cat(A, b)) = Len(A) + e.offset /\ Len(A) = Upto(s, n)
       /\ Cat(Cat(A, b), FlattenSeq(v)) = Cat(A, Cat(b, FlattenSeq(v)))
  <2>1. A \in Seq(Byte) /\ b \in Seq(Byte) /\ FlattenSeq(v) \in Seq(Byte) /\ Len(b) = e.offset
    BY <1>5, <1>12, <1>15
  <2>2. Len(A) = Upto(s, n)
    BY DEF A, Upto
  <2>3. Cat(A, b) \in Seq(Byte) /\ Len(Cat(A, b)) = Len(A) + Len(b)
    BY <2>1, CatFacts
  <2>4. Cat(Cat(A, b), FlattenSeq(v)) = Cat(A, Cat(b, FlattenSeq(v)))
    BY <2>1, CatAssociative
  <2> QED
    BY <2>1, <2>2, <2>3, <2>4, Zenon
<1>18. Flat(q) = Cat(Cat(A, b), Flat(t))
  BY <1>1, <1>11, <1>12, <1>14, <1>15, <1>17
<1> QED
  BY <1>8, <1>9, <1>10, <1>16, <1>17, <1>18 DEF t, s

\* Finished chunks are taken out: the queue still holds what the last reads have
\* brought.
LEMMA ReadsKept ==
  ASSUME NEW q, InOrder(q), NEW rs, Len(rs) \in Nat, LastReads(q, rs)
  PROVE  LastReads(chunkqueue_remove_finished_chunks(q), rs)
<1> DEFINE r == chunkqueue_remove_finished_chunks(q)
<1>1. /\ Tidy(r) /\ Len(r) <= Len(q)
      /\ \A k \in DOMAIN r : Len(q) - Len(r) + k \in DOMAIN q /\ r[k].mem = q[Len(q) - Len(r) + k].mem
  BY RemovedFinished
<1> HIDE DEF r
<1>2. Len(r) \in Nat /\ DOMAIN r = 1..Len(r)
  BY <1>1, TidyChunks
<1>3. Len(q) \in Nat /\ Len(q) <= Len(rs)
  BY LenProperties DEF InOrder, LastReads
<1>4. ASSUME NEW k \in DOMAIN r
      PROVE  r[k].mem = rs[Len(rs) - Len(r) + k]
  <2> DEFINE i == Len(q) - Len(r) + k
  <2>1. i \in DOMAIN q /\ r[k].mem = q[i].mem
    BY <1>1, <1>4
  <2>2. Len(rs) - Len(q) + i = Len(rs) - Len(r) + k
    BY <1>2, <1>3, <1>4
  <2> HIDE DEF i
  <2>3. q[i].mem = rs[Len(rs) - Len(q) + i]
    BY <2>1 DEF LastReads
  <2> QED
    BY <2>1, <2>2, <2>3, Zenon
<1>5. Len(r) <= Len(rs)
  BY <1>1, <1>2, <1>3
<1> QED
  BY <1>4, <1>5 DEF LastReads, r

\* The ends of a part at the begin.
LEMMA PrefixEnds ==
  ASSUME NEW u \in Seq(Byte), NEW t \in Seq(Byte), NEW i
  PROVE  i \in Ends(u) <=> i \in Ends(Cat(u, t)) /\ i <= Len(u)
<1> DEFINE s == Cat(u, t)
           E == EndOfHeader
<1>1. /\ s \in Seq(Byte) /\ Len(u) \in Nat /\ Len(t) \in Nat /\ Len(s) = Len(u) + Len(t)
      /\ \A j \in 1..Len(u) : s[j] = u[j]
  BY CatFacts
<1> HIDE DEF s, E
<1>2. CASE i \in Int
  <2>1. /\ i \in Ends(u) <=> i \in 4..Len(u) /\ \A j \in 1..4 : u[(i - 4) + j] = E[j]
        /\ i \in Ends(s) <=> i \in 4..Len(s) /\ \A j \in 1..4 : s[(i - 4) + j] = E[j]
    BY <1>1, <1>2, EndsAre DEF E
  <2>2. ASSUME i \in 4..Len(u)
        PROVE  i \in 4..Len(s) /\ \A j \in 1..4 : s[(i - 4) + j] = u[(i - 4) + j]
    <3>1. i \in 4..Len(s) /\ \A j \in 1..4 : (i - 4) + j \in 1..Len(u)
      BY <1>1, <2>2
    <3> QED
      BY <1>1, <3>1, Zenon
  <2>3. i \in 4..Len(s) /\ i <= Len(u) => i \in 4..Len(u)
    BY <1>1
  <2>4. i \in 4..Len(u) => i <= Len(u)
    BY <1>1
  <2>5. i \in Ends(u) => i \in Ends(s) /\ i <= Len(u)
    BY <2>1, <2>2, <2>4, Zenon
  <2>6. i \in Ends(s) /\ i <= Len(u) => i \in Ends(u)
    BY <2>1, <2>2, <2>3, Zenon
  <2> QED
    BY <2>5, <2>6 DEF s
<1>3. CASE i \notin Int
  BY <1>1, <1>3 DEF Ends, s
<1> QED
  BY <1>2, <1>3

\* The header that was found: it ends with the first end that was seen.
LEMMA HeaderCut ==
  ASSUME NEW q, Tidy(q), NEW rs \in Seq(Seq(Byte) \ {<<>>}), LastReads(q, rs), NEW b \in Nat,
         Len(Stream(rs)) = b + Len(Flat(q)), Found(q) # {}
  PROVE  LET h == Header(q, End(q))
             r == chunkqueue_remove_finished_chunks(Copied(q, End(q)))
         IN /\ h \in Seq(Byte) /\ Flat(q) = Cat(h, Flat(r)) /\ Tidy(r) /\ LastReads(r, rs)
            /\ Len(h) \in Ends(h) /\ \A i \in Ends(h) : i = Len(h) \/ Spread(rs, b, i)
<1> DEFINE e == End(q)
           h == Header(q, e)
           t == Copied(q, e)
           r == chunkqueue_remove_finished_chunks(t)
           f == Flat(r)
<1>1. /\ e.chunk \in 1..Len(q) /\ e.offset \in 1..Len(Rest(q[e.chunk]))
      /\ Upto(Rests(q), e.chunk - 1) + e.offset \in Ends(Flat(q))
      /\ \A k \in 1..Len(q) : \A x \in 1..Len(Rest(q[k])) :
           FoundAt(q, k, x) => Upto(Rests(q), e.chunk - 1) + e.offset <= Pos(q, k, x) + 3
  BY EndIs
<1> HIDE DEF e
<1>2. /\ h \in Seq(Byte) /\ Len(h) = Upto(Rests(q), e.chunk - 1) + e.offset
      /\ Flat(q) = Cat(h, Flat(t))
      /\ InOrder(t) /\ Len(t) = Len(q) /\ \A k \in 1..Len(q) : t[k].mem = q[k].mem
  BY <1>1, HeaderCopied
<1> HIDE DEF h, t
<1>3. Tidy(r) /\ f = Flat(t)
  BY <1>2, RemovedFinished
<1>4. Len(rs) \in Nat /\ Len(q) \in Nat /\ DOMAIN q = 1..Len(q) /\ DOMAIN t = 1..Len(t)
  BY <1>2, TidyChunks, LenProperties DEF InOrder
<1>5. LastReads(t, rs)
  BY <1>2, <1>4 DEF LastReads
<1>6. LastReads(r, rs)
  BY <1>2, <1>4, <1>5, ReadsKept
<1>7. f \in Seq(Byte)
  BY <1>3, TidyChunks
<1>8. Flat(q) = Cat(h, f)
  BY <1>2, <1>3
<1> HIDE DEF r, f
<1>9. \A i : i \in Ends(h) <=> i \in Ends(Flat(q)) /\ i <= Len(h)
  BY <1>2, <1>7, <1>8, PrefixEnds
<1>10. Len(h) \in Nat
  BY <1>2, LenProperties
<1>11. Len(h) \in Ends(h)
  BY <1>1, <1>2, <1>9, <1>10
<1>12. ASSUME NEW i \in Ends(h), ~Spread(rs, b, i)
       PROVE  i = Len(h)
  <2>1. i \in Ends(Flat(q)) /\ i <= Len(h)
    BY <1>9, <1>12
  <2>2. PICK k \in 1..Len(q) : \E x \in 1..Len(Rest(q[k])) : FoundAt(q, k, x) /\ Pos(q, k, x) + 3 = i
    BY <1>12, <2>1, NotFar
  <2>3. Len(h) <= i
    BY <1>1, <1>2, <2>2
  <2>4. i \in Int
    BY <2>1 DEF Ends
  <2> QED
    BY <1>10, <2>1, <2>3, <2>4
<1> QED
  BY <1>2, <1>3, <1>6, <1>8, <1>11, <1>12 DEF h, r, f, t, e

\* Where nothing is found there is no end but one that came in more than two reads.
LEMMA HeaderMissing ==
  ASSUME NEW q, Tidy(q), NEW rs \in Seq(Seq(Byte) \ {<<>>}), LastReads(q, rs), NEW b \in Nat,
         Len(Stream(rs)) = b + Len(Flat(q)), Found(q) = {}
  PROVE  LET r == chunkqueue_remove_finished_chunks(q)
         IN /\ Flat(r) = Flat(q) /\ Tidy(r) /\ LastReads(r, rs)
            /\ \A i \in Ends(Flat(r)) : Spread(rs, b, i)
<1> DEFINE r == chunkqueue_remove_finished_chunks(q)
<1>1. Tidy(r) /\ Flat(r) = Flat(q)
  BY RemovedFinished DEF Tidy
<1>2. LastReads(r, rs)
  BY ReadsKept, LenProperties DEF Tidy
<1>3. ASSUME NEW i \in Ends(Flat(q)), ~Spread(rs, b, i)
      PROVE  FALSE
  BY <1>3, NotFar, FoundAre
<1> QED
  BY <1>1, <1>2, <1>3

-----------------------------------------------------------------------------
(* The content.                                                            *)

Pieces(cq) == [k \in DOMAIN cq |-> cq[k].bytes]

\* The bytes of a content.
LEMMA BytesOf ==
  ASSUME NEW cq \in Seq(PartRec)
  PROVE  /\ Len(cq) \in Nat /\ DOMAIN cq = 1..Len(cq)
         /\ \A k \in 1..Len(cq) : cq[k] \in PartRec /\ cq[k].bytes \in Seq(Byte)
         /\ Pieces(cq) \in Seq(Seq(Byte)) /\ Len(Pieces(cq)) = Len(cq)
         /\ \A k \in 1..Len(cq) : Pieces(cq)[k] = cq[k].bytes
         /\ Bytes(cq) = FlattenSeq(Pieces(cq)) /\ Bytes(cq) \in Seq(Byte) /\ Len(Bytes(cq)) \in Nat
<1>1. Len(cq) \in Nat /\ DOMAIN cq = 1..Len(cq) /\ \A k \in 1..Len(cq) : cq[k] \in PartRec
  BY LenProperties, ElementOfSeq
<1>2. \A k \in 1..Len(cq) : cq[k].bytes \in Seq(Byte)
  BY <1>1 DEF PartRec
<1>3. Pieces(cq) = [k \in 1..Len(cq) |-> cq[k].bytes]
  BY <1>1 DEF Pieces
<1>4. Pieces(cq) \in Seq(Seq(Byte)) /\ Len(Pieces(cq)) = Len(cq)
  BY <1>1, <1>2, <1>3
<1>5. Bytes(cq) = FlattenSeq(Pieces(cq))
  BY DEF Bytes, Pieces
<1>6. Bytes(cq) \in Seq(Byte)
  BY <1>4, <1>5, FlatAppend, EmptySeq
<1>7. Len(Bytes(cq)) \in Nat
  BY <1>6, LenProperties
<1> QED
  BY <1>1, <1>2, <1>3, <1>4, <1>5, <1>6, <1>7

\* No content.
LEMMA NoBytes == Bytes(<<>>) = <<>> /\ <<>> \in Seq(PartRec)
<1>1. <<>> \in Seq(PartRec) /\ DOMAIN <<>> = {} /\ Len(<<>>) = 0
  BY EmptySeq
<1>2. Pieces(<<>>) \in Seq(Seq(Byte)) /\ Len(Pieces(<<>>)) = 0 /\ Bytes(<<>>) = FlattenSeq(Pieces(<<>>))
  BY <1>1, BytesOf
<1>3. Pieces(<<>>) = <<>>
  BY <1>2, EmptySeq
<1> QED
  BY <1>1, <1>2, <1>3, FlatEmpty

\* A part more.
LEMMA BytesAppend ==
  ASSUME NEW cq \in Seq(PartRec), NEW p \in PartRec
  PROVE  LET t == Append(cq, p)
         IN /\ t \in Seq(PartRec) /\ Len(t) = Len(cq) + 1 /\ t[Len(cq) + 1] = p
            /\ \A k \in 1..Len(cq) : t[k] = cq[k]
            /\ Bytes(t) = Cat(Bytes(cq), p.bytes)
<1> DEFINE t == Append(cq, p)
           n == Len(cq)
           s == Pieces(cq)
<1>1. /\ n \in Nat /\ s \in Seq(Seq(Byte)) /\ Len(s) = n /\ \A k \in 1..n : s[k] = cq[k].bytes
      /\ Bytes(cq) = FlattenSeq(s)
  BY BytesOf
<1>2. /\ t \in Seq(PartRec) /\ Len(t) = n + 1 /\ t[n + 1] = p /\ \A k \in 1..n : t[k] = cq[k]
  BY AppendProperties
<1> HIDE DEF t
<1>3. /\ Pieces(t) \in Seq(Seq(Byte)) /\ Len(Pieces(t)) = Len(t)
      /\ \A k \in 1..Len(t) : Pieces(t)[k] = t[k].bytes
      /\ Bytes(t) = FlattenSeq(Pieces(t))
  BY <1>2, BytesOf
<1>4. p.bytes \in Seq(Byte)
  BY DEF PartRec
<1> HIDE DEF s
<1>5. /\ Append(s, p.bytes) \in Seq(Seq(Byte)) /\ Len(Append(s, p.bytes)) = n + 1
      /\ Append(s, p.bytes)[n + 1] = p.bytes /\ \A k \in 1..n : Append(s, p.bytes)[k] = s[k]
  BY <1>1, <1>4, AppendProperties
<1>6. Pieces(t) = Append(s, p.bytes)
  <2> DEFINE u == Append(s, p.bytes)
  <2>1. u \in Seq(Seq(Byte)) /\ Len(u) = n + 1 /\ u[n + 1] = p.bytes /\ \A k \in 1..n : u[k] = s[k]
    BY <1>5
  <2>2. ASSUME NEW k \in 1..n + 1
        PROVE  Pieces(t)[k] = u[k]
    <3>1. k = n + 1 \/ k \in 1..n
      BY <1>1
    <3> HIDE DEF u, n
    <3> QED
      BY <1>1, <1>2, <1>3, <2>1, <3>1
  <2> HIDE DEF u, n
  <2>3. Pieces(t) = u
    BY <1>2, <1>3, <2>1, <2>2, SeqEqual
  <2> QED
    BY <2>3 DEF u
<1>7. FlattenSeq(Append(s, p.bytes)) = FlattenSeq(s) \o p.bytes
  BY <1>1, <1>4, FlatAppend
<1> HIDE DEF n
<1>8. Bytes(t) = Cat(Bytes(cq), p.bytes)
  BY <1>1, <1>3, <1>6, <1>7, Zenon DEF Cat
<1> QED
  BY <1>2, <1>8 DEF t, n

\* The files of a content are closed.
LEMMA ClosedOf ==
  ASSUME NEW cq \in Seq(PartRec)
  PROVE  /\ Closed(cq) \in Seq(PartRec) /\ Len(Closed(cq)) = Len(cq) /\ Bytes(Closed(cq)) = Bytes(cq)
         /\ \A k \in 1..Len(cq) : Closed(cq)[k].file = cq[k].file /\ ~Closed(cq)[k].fd
<1> DEFINE t == Closed(cq)
           n == Len(cq)
<1>1. n \in Nat /\ DOMAIN cq = 1..n /\ \A k \in 1..n : cq[k] \in PartRec
  BY BytesOf
<1>2. t = [k \in 1..n |-> [cq[k] EXCEPT !.fd = FALSE]]
  BY <1>1 DEF Closed
<1>3. \A k \in 1..n : t[k] \in PartRec /\ t[k].file = cq[k].file /\ t[k].bytes = cq[k].bytes /\ t[k].fd = FALSE
  BY <1>1, <1>2 DEF PartRec
<1>4. DOMAIN t = 1..n
  BY <1>2
<1>5. t \in Seq(PartRec) /\ Len(t) = n
  <2> HIDE DEF n
  <2>1. t = [k \in 1..n |-> t[k]]
    BY <1>2
  <2> HIDE DEF t
  <2> QED
    BY <1>1, <1>3, <2>1
<1> HIDE DEF t
<1>6. Pieces(t) = Pieces(cq)
  BY <1>1, <1>3, <1>4 DEF Pieces
<1>7. Bytes(t) = Bytes(cq)
  BY <1>5, <1>6, BytesOf
<1> QED
  BY <1>3, <1>5, <1>7 DEF t

Written(cq, b, v) == [cq EXCEPT ![Len(cq)].bytes = @ \o b, ![Len(cq)].fd = v]

\* The last part is written to.
LEMMA LastWritten ==
  ASSUME NEW cq \in Seq(PartRec), cq # <<>>, NEW b \in Seq(Byte), NEW v, v \in BOOLEAN
  PROVE  LET t == Written(cq, b, v)
         IN /\ t \in Seq(PartRec) /\ Len(t) = Len(cq) /\ Bytes(t) = Cat(Bytes(cq), b)
            /\ t[Len(cq)].file = cq[Len(cq)].file /\ t[Len(cq)].fd = v
            /\ \A k \in 1..Len(cq) - 1 : t[k] = cq[k]
<1> DEFINE n == Len(cq)
           x == cq[n]
           y == [x EXCEPT !.bytes = @ \o b]
           z == [y EXCEPT !.fd = v]
           s == [cq EXCEPT ![n].bytes = @ \o b]
           t == [s EXCEPT ![n].fd = v]
<1>1. n \in Nat /\ DOMAIN cq = 1..n /\ \A k \in 1..n : cq[k] \in PartRec
  BY BytesOf
<1>2. n \in 1..n
  BY <1>1, EmptySeq
<1>3. x \in PartRec /\ x.bytes \in Seq(Byte) /\ x.bytes \o b \in Seq(Byte)
  BY <1>1, <1>2, ConcatProperties DEF PartRec
<1>4. y \in PartRec /\ y.bytes = x.bytes \o b /\ y.file = x.file
  BY <1>3 DEF PartRec
<1> HIDE DEF y, x
<1>5. z \in PartRec /\ z.bytes = x.bytes \o b /\ z.file = x.file /\ z.fd = v
  BY <1>4 DEF PartRec
<1>6. s = [cq EXCEPT ![n] = y] /\ Written(cq, b, v) = t
  BY DEF x, y, Written
<1> HIDE DEF n, s
<1>7. DOMAIN s = 1..n /\ s[n] = y /\ \A k \in 1..n : k # n => s[k] = cq[k]
  BY <1>1, <1>2, <1>6
<1>8. DOMAIN t = 1..n /\ t[n] = z /\ (\A k \in 1..n : k # n => t[k] = cq[k])
      /\ t = [k \in 1..n |-> t[k]]
  BY <1>2, <1>6, <1>7
<1> HIDE DEF t, z
<1>9. \A k \in 1..n : t[k] \in PartRec
  BY <1>1, <1>5, <1>8
<1>10. t \in Seq(PartRec) /\ Len(t) = n
  BY <1>1, <1>8, <1>9
<1>11. \A k \in 1..n - 1 : k \in 1..n /\ k # n
  BY <1>1
<1>12. /\ Pieces(cq) \in Seq(Seq(Byte)) /\ Len(Pieces(cq)) = n
       /\ \A k \in 1..n : Pieces(cq)[k] = cq[k].bytes
       /\ Bytes(cq) = FlattenSeq(Pieces(cq))
  BY BytesOf DEF n
<1>13. /\ Pieces(t) \in Seq(Seq(Byte)) /\ Len(Pieces(t)) = n
       /\ \A k \in 1..n : Pieces(t)[k] = t[k].bytes
       /\ Bytes(t) = FlattenSeq(Pieces(t))
  BY <1>10, BytesOf
<1>14. Pieces(t)[n] = Pieces(cq)[n] \o b
  BY <1>2, <1>5, <1>8, <1>12, <1>13 DEF x
<1>15. \A k \in 1..n - 1 : Pieces(cq)[k] = Pieces(t)[k]
  BY <1>8, <1>11, <1>12, <1>13
<1>16. FlattenSeq(Pieces(t)) = FlattenSeq(Pieces(cq)) \o b
  <2> DEFINE p == Pieces(cq)
             r == Pieces(t)
  <2>1. /\ p \in Seq(Seq(Byte)) /\ r \in Seq(Seq(Byte)) /\ Len(p) = Len(r) /\ p # <<>>
        /\ r[Len(p)] = p[Len(p)] \o b /\ \A k \in 1..Len(p) - 1 : p[k] = r[k]
    BY <1>2, <1>12, <1>13, <1>14, <1>15, EmptySeq
  <2> HIDE DEF p, r
  <2>2. FlattenSeq(r) = FlattenSeq(p) \o b
    BY <2>1, FlatLonger
  <2> QED
    BY <2>2 DEF p, r
<1>17. Bytes(t) = Cat(Bytes(cq), b)
  BY <1>12, <1>13, <1>16, Zenon DEF Cat
<1>18. t[n].file = cq[n].file /\ t[n].fd = v /\ \A k \in 1..n - 1 : t[k] = cq[k]
  BY <1>5, <1>8, <1>11 DEF x
<1> QED
  BY <1>6, <1>10, <1>17, <1>18, Zenon DEF n

\* The file of the last part is closed.
LEMMA LastClosed ==
  ASSUME NEW cq \in Seq(PartRec), cq # <<>>
  PROVE  LET t == [cq EXCEPT ![Len(cq)].fd = FALSE]
         IN /\ t \in Seq(PartRec) /\ Len(t) = Len(cq) /\ Bytes(t) = Bytes(cq)
            /\ t[Len(cq)].file = cq[Len(cq)].file /\ ~t[Len(cq)].fd
            /\ \A k \in 1..Len(cq) - 1 : t[k] = cq[k]
<1> DEFINE n == Len(cq)
           x == cq[n]
           z == [x EXCEPT !.fd = FALSE]
           t == [cq EXCEPT ![n].fd = FALSE]
<1>1. n \in Nat /\ DOMAIN cq = 1..n /\ \A k \in 1..n : cq[k] \in PartRec
  BY BytesOf
<1>2. n \in 1..n
  BY <1>1, EmptySeq
<1>3. x \in PartRec
  BY <1>1, <1>2
<1> HIDE DEF x
<1>4. z \in PartRec /\ z.bytes = x.bytes /\ z.file = x.file /\ z.fd = FALSE
  BY <1>3 DEF PartRec
<1>5. t = [cq EXCEPT ![n] = z]
  BY DEF x
<1> HIDE DEF n, t, z
<1>6. DOMAIN t = 1..n /\ t[n] = z /\ (\A k \in 1..n : k # n => t[k] = cq[k])
      /\ t = [k \in 1..n |-> t[k]]
  BY <1>1, <1>2, <1>5
<1>7. \A k \in 1..n : t[k] \in PartRec /\ t[k].bytes = cq[k].bytes
  BY <1>1, <1>4, <1>6 DEF x
<1>8. t \in Seq(PartRec) /\ Len(t) = n
  BY <1>1, <1>6, <1>7
<1>9. Pieces(t) = Pieces(cq)
  BY <1>1, <1>6, <1>7 DEF Pieces
<1>10. Bytes(t) = Bytes(cq)
  BY <1>8, <1>9, BytesOf
<1>11. \A k \in 1..n - 1 : k \in 1..n /\ k # n
  BY <1>1
<1>12. t[n].file = cq[n].file /\ ~t[n].fd /\ \A k \in 1..n - 1 : t[k] = cq[k]
  BY <1>4, <1>6, <1>11 DEF x
<1> QED
  BY <1>8, <1>10, <1>12 DEF n, t

\* The temporary file to write to: the other files are closed, and this one is
\* not unless it could not be opened.
LEMMA TempfileThere ==
  ASSUME NEW cq \in Seq(PartRec), Open(cq, TRUE), NEW opens \in BOOLEAN
  PROVE  LET t == WithTempfile(cq, opens)
         IN /\ t \in Seq(PartRec) /\ t # <<>> /\ Bytes(t) = Bytes(cq) /\ t[Len(t)].file
            /\ \A k \in 1..Len(t) - 1 : t[k].file => ~t[k].fd
<1> DEFINE n == Len(cq)
           p == [file |-> TRUE, bytes |-> <<>>, fd |-> opens]
           c == Closed(cq)
<1>1. n \in Nat /\ DOMAIN cq = 1..n
  BY BytesOf
<1>2. CASE cq # <<>> /\ Last(cq).file /\ Len(Last(cq).bytes) < file_max
  <2>1. WithTempfile(cq, opens) = cq
    BY <1>2 DEF WithTempfile
  <2>2. cq[n].file /\ n \in 1..n
    BY <1>1, <1>2, EmptySeq DEF Last
  <2>3. \A k \in 1..n - 1 : k \in 1..n /\ k # n
    <3>1. n \in Nat
      BY <1>1
    <3> HIDE DEF n
    <3> QED
      BY <3>1
  <2>4. \A k \in 1..n - 1 : cq[k].file => ~cq[k].fd
    BY <1>1, <2>3 DEF Open
  <2> QED
    BY <1>2, <2>1, <2>2, <2>4
<1>3. CASE ~(cq # <<>> /\ Last(cq).file /\ Len(Last(cq).bytes) < file_max)
  <2>1. WithTempfile(cq, opens) = Append(c, p)
    BY <1>3 DEF WithTempfile
  <2>2. p \in PartRec /\ p.file = TRUE /\ p.bytes = <<>>
    BY EmptySeq DEF PartRec
  <2>3. c \in Seq(PartRec) /\ Len(c) = n /\ Bytes(c) = Bytes(cq) /\ \A k \in 1..n : ~c[k].fd
    BY ClosedOf
  <2> HIDE DEF p, c, n
  <2>4. /\ Append(c, p) \in Seq(PartRec) /\ Len(Append(c, p)) = n + 1 /\ Append(c, p)[n + 1] = p
        /\ \A k \in 1..n : Append(c, p)[k] = c[k]
        /\ Bytes(Append(c, p)) = Cat(Bytes(c), p.bytes)
    BY <2>2, <2>3, BytesAppend
  <2> DEFINE t == Append(c, p)
  <2> HIDE DEF t
  <2>5. Bytes(cq) \in Seq(Byte)
    BY BytesOf
  <2>6. Bytes(t) = Bytes(cq)
    <3>1. Cat(Bytes(cq), <<>>) = Bytes(cq)
      BY <2>5, CatFacts
    <3> QED
      BY <2>2, <2>3, <2>4, <3>1 DEF t
  <2>7. Len(t) = n + 1 /\ Len(t) - 1 = n /\ t # <<>>
    <3>1. n \in Nat /\ Len(t) = n + 1
      BY <1>1, <2>4 DEF n, t
    <3>2. Len(<<>>) = 0
      BY EmptySeq
    <3>3. Len(t) - 1 = n /\ Len(t) # 0
      BY <3>1
    <3> QED
      BY <3>1, <3>2, <3>3
  <2>8. \A k \in 1..Len(t) - 1 : t[k].file => ~t[k].fd
    BY <2>3, <2>4, <2>7 DEF t
  <2> QED
    BY <2>1, <2>2, <2>4, <2>6, <2>7, <2>8 DEF t
<1> QED
  BY <1>2, <1>3

\* The first bytes of what is left of a chunk are moved out, all chunks before it
\* being finished and none after it begun.
LEMMA ChunkMoved ==
  ASSUME NEW q \in Seq(ChunkRec), \A j \in DOMAIN q : q[j].offset <= Len(q[j].mem) /\ q[j].mem # <<>>,
         NEW k \in 1..Len(q), \A j \in 1..k - 1 : Finished(q[j]),
         \A j \in k + 1..Len(q) : q[j].offset = 0, NEW n \in 0..Len(Rest(q[k]))
  PROVE  LET t == [q EXCEPT ![k].offset = @ + n]
             b == SubSeq(Rest(q[k]), 1, n)
         IN /\ InOrder(t) /\ Len(t) = Len(q)
            /\ \A j \in 1..Len(q) : t[j].mem = q[j].mem /\ (j # k => t[j] = q[j])
            /\ b \in Seq(Byte) /\ Len(b) = n /\ Flat(q) = Cat(b, Flat(t))
            /\ n = Len(Rest(q[k])) => Finished(t[k])
<1> DEFINE N == Len(q)
           c == q[k]
           d == [c EXCEPT !.offset = @ + n]
           b == SubSeq(Rest(c), 1, n)
           t == [q EXCEPT ![k].offset = @ + n]
<1>1. /\ N \in Nat /\ DOMAIN q = 1..N /\ \A j \in 1..N : q[j] \in ChunkRec
      /\ Rests(q) \in Seq(Seq(Byte)) /\ Len(Rests(q)) = N
      /\ \A j \in 1..N : Rests(q)[j] = Rest(q[j])
      /\ Flat(q) = FlattenSeq(Rests(q))
  BY RestsOf
<1>2. c \in ChunkRec /\ c.offset <= Len(c.mem) /\ c.mem # <<>> /\ n \in 0..Len(Rest(c))
  BY <1>1
<1>3. t = [q EXCEPT ![k] = d]
  OBVIOUS
<1> HIDE DEF c
<1>4. /\ d \in ChunkRec /\ d.mem = c.mem /\ d.offset <= Len(d.mem)
      /\ Rest(c) = Cat(b, Rest(d)) /\ b \in Seq(Byte) /\ Len(b) = n /\ d.offset = c.offset + n
  BY <1>2, ChunkTaken
<1> HIDE DEF N, d, t, b
<1>5. /\ DOMAIN t = 1..N /\ t[k] = d /\ (\A j \in 1..N : j # k => t[j] = q[j])
      /\ t = [j \in 1..N |-> t[j]]
  <2>1. k \in 1..N
    BY DEF N
  <2> QED
    BY <1>1, <1>3, <2>1
<1>6. k \in 1..N /\ \A j \in 1..N : j = k \/ j \in 1..k - 1 \/ j \in k + 1..N
  BY <1>1 DEF N
<1>7. \A j \in 1..N : t[j] \in ChunkRec /\ t[j].mem = q[j].mem /\ t[j].mem # <<>>
                      /\ t[j].offset <= Len(t[j].mem)
  BY <1>1, <1>2, <1>4, <1>5 DEF c
<1>8. t \in Seq(ChunkRec) /\ Len(t) = N
  <2>1. N \in Nat /\ t = [j \in 1..N |-> t[j]] /\ \A j \in 1..N : t[j] \in ChunkRec
    BY <1>1, <1>5, <1>7
  <2> QED
    BY <2>1, SMTT(40)
<1>9. ASSUME NEW i \in 1..N, NEW j \in 1..N, i < j, t[j].offset > 0
      PROVE  Finished(t[i])
  <2>1. j \in 1..k
    <3>1. ASSUME j \in k + 1..N
          PROVE  FALSE
      <4>1. j # k /\ q[j].offset = 0
        BY <1>6, <3>1 DEF N
      <4>2. t[j].offset = 0
        BY <1>5, <1>9, <4>1
      <4> QED
        BY <1>9, <4>2
    <3> QED
      BY <1>6, <1>9, <3>1
  <2>2. i \in 1..k - 1 /\ i # k
    BY <1>6, <1>9, <2>1
  <2> QED
    BY <1>5, <1>9, <2>2
<1>10. InOrder(t)
  BY <1>5, <1>7, <1>8, <1>9 DEF InOrder
<1>11. /\ Rests(t) \in Seq(Seq(Byte)) /\ Len(Rests(t)) = N
       /\ \A j \in 1..N : Rests(t)[j] = Rest(t[j])
       /\ Flat(t) = FlattenSeq(Rests(t))
  BY <1>5, <1>7, <1>8, RestsOf
<1>12. FlattenSeq(Rests(q)) = b \o FlattenSeq(Rests(t))
  <2> DEFINE u == Rests(q)
             v == Rests(t)
  <2>1. u[k] = b \o v[k]
    <3>1. u[k] = Rest(c) /\ v[k] = Rest(d)
      BY <1>1, <1>5, <1>6, <1>11 DEF c
    <3> QED
      BY <1>4, <3>1, Zenon DEF Cat
  <2>2. ASSUME NEW j \in 1..k - 1
        PROVE  u[j] = <<>> /\ v[j] = <<>>
    <3>1. j \in 1..N /\ j # k /\ Finished(q[j])
      BY <1>1, <1>6
    <3>2. q[j] \in ChunkRec /\ q[j].offset <= Len(q[j].mem)
      BY <1>1, <3>1
    <3>3. Rest(q[j]) = <<>>
      BY <3>1, <3>2, RestOf
    <3> QED
      BY <1>1, <1>5, <1>11, <3>1, <3>3
  <2>3. ASSUME NEW j \in k + 1..N
        PROVE  u[j] = v[j]
    <3>1. j \in 1..N /\ j # k
      BY <1>1, <1>6
    <3> QED
      BY <1>1, <1>5, <1>11, <3>1
  <2>4. u \in Seq(Seq(Byte)) /\ v \in Seq(Seq(Byte)) /\ Len(u) = N /\ Len(v) = N
    BY <1>1, <1>11
  <2> HIDE DEF u, v
  <2>5. /\ Len(u) = Len(v) /\ k \in 1..Len(u)
        /\ \A j \in 1..k - 1 : u[j] = <<>> /\ v[j] = <<>>
        /\ \A j \in k + 1..Len(u) : u[j] = v[j]
    BY <1>6, <2>2, <2>3, <2>4
  <2>6. FlattenSeq(u) = b \o FlattenSeq(v)
    BY <1>4, <2>1, <2>4, <2>5, FlatTaken
  <2> QED
    BY <2>6 DEF u, v
<1>13. Flat(q) = Cat(b, Flat(t))
  BY <1>1, <1>11, <1>12, Zenon DEF Cat
<1>14. ASSUME n = Len(Rest(c))
       PROVE  Finished(t[k])
  <2>1. Len(Rest(c)) = Len(c.mem) - c.offset /\ Len(c.mem) \in Nat /\ c.offset \in Nat
    BY <1>2, RestOf
  <2>2. d.offset = Len(d.mem)
    BY <1>4, <1>14, <2>1
  <2> QED
    BY <1>5, <2>2 DEF Finished
<1> QED
  BY <1>4, <1>5, <1>7, <1>8, <1>10, <1>13, <1>14 DEF N, t, b, c

\* What is known while the chunks are moved, and when a file has failed.
Acc(tq, cq, n) == [queue |-> tq, content |-> cq, failed |-> FALSE, bytes_in |-> n]
Failed(tq, cq, n) == [queue |-> tq, content |-> cq, failed |-> TRUE, bytes_in |-> n]

\* What is done to it, by names of their own.
Advance(tq, k, m) == [tq EXCEPT ![k].offset = @ + m]
WithContent(a, x) == [a EXCEPT !.content = x]
WithFailure(a, x) == [a EXCEPT !.content = x, !.failed = TRUE]

\* What it knows.
LEMMA AccIs ==
  ASSUME NEW tq, NEW cq, NEW n
  PROVE  /\ Acc(tq, cq, n).queue = tq /\ Acc(tq, cq, n).content = cq
         /\ Acc(tq, cq, n).bytes_in = n /\ ~Acc(tq, cq, n).failed
         /\ Failed(tq, cq, n).queue = tq /\ Failed(tq, cq, n).content = cq
         /\ Failed(tq, cq, n).bytes_in = n /\ Failed(tq, cq, n).failed
<1>1. /\ Acc(tq, cq, n).queue = tq /\ Acc(tq, cq, n).content = cq
      /\ Acc(tq, cq, n).bytes_in = n /\ ~Acc(tq, cq, n).failed
  BY DEF Acc
<1>2. /\ Failed(tq, cq, n).queue = tq /\ Failed(tq, cq, n).content = cq
      /\ Failed(tq, cq, n).bytes_in = n /\ Failed(tq, cq, n).failed
  BY DEF Failed
<1> QED
  BY <1>1, <1>2

\* The steps on it: another content,
LEMMA WithIs ==
  ASSUME NEW tq, NEW cq, NEW n, NEW x
  PROVE  /\ WithContent(Acc(tq, cq, n), x) = Acc(tq, x, n)
         /\ WithFailure(Acc(tq, cq, n), x) = Failed(tq, x, n)
<1> DEFINE a == [Acc(tq, cq, n) EXCEPT !.content = x]
<1>1. a = Acc(tq, x, n)
  <2>1. \A f : [[queue |-> tq, content |-> cq, failed |-> f, bytes_in |-> n] EXCEPT !.content = x]
                 = [queue |-> tq, content |-> x, failed |-> f, bytes_in |-> n]
    OBVIOUS
  <2> QED
    BY <2>1, Zenon DEF Acc
<1>2. WithFailure(Acc(tq, cq, n), x) = [a EXCEPT !.failed = TRUE]
  BY Zenon DEF WithFailure
<1>3. WithContent(Acc(tq, cq, n), x) = a
  BY Zenon DEF WithContent
<1> HIDE DEF a
<1>4. \A f : [a EXCEPT !.failed = f] = [queue |-> tq, content |-> x, failed |-> f, bytes_in |-> n]
  BY <1>1 DEF Acc
<1>5. [a EXCEPT !.failed = TRUE] = Failed(tq, x, n)
  BY <1>4, Zenon DEF Failed
<1> QED
  BY <1>1, <1>2, <1>3, <1>5, Zenon

\* and b bytes more taken from chunk k.
LEMMA MovedIs ==
  ASSUME NEW tq, NEW cq, NEW n \in Nat, NEW k, NEW b \in Seq(Byte)
  PROVE  Moved(Acc(tq, cq, n), k, b) = Acc(Advance(tq, k, Len(b)), cq, n + Len(b))
<1> DEFINE w == [tq EXCEPT ![k].offset = @ + Len(b)]
           s == [Acc(tq, cq, n) EXCEPT !.queue[k].offset = @ + Len(b)]
<1>1. Acc(tq, cq, n).queue = tq
  BY AccIs
<1>2. s = [Acc(tq, cq, n) EXCEPT !.queue = w]
  BY <1>1, Zenon
<1>3. Moved(Acc(tq, cq, n), k, b) = [s EXCEPT !.bytes_in = @ + Len(b)]
  BY Zenon DEF Moved
<1>4. w = Advance(tq, k, Len(b))
  BY Zenon DEF Advance
<1> HIDE DEF w, s
<1>5. s = Acc(w, cq, n)
  BY <1>2 DEF Acc
<1>6. [s EXCEPT !.bytes_in = @ + Len(b)] = Acc(w, cq, n + Len(b))
  <2>1. \A f, m : [[queue |-> w, content |-> cq, failed |-> f, bytes_in |-> n] EXCEPT !.bytes_in = m]
                    = [queue |-> w, content |-> cq, failed |-> f, bytes_in |-> m]
    OBVIOUS
  <2>2. s.bytes_in = n
    BY <1>5, AccIs
  <2> QED
    BY <1>5, <2>1, <2>2, Zenon DEF Acc
<1> QED
  BY <1>3, <1>4, <1>6, Zenon

\* What is true while the content cq is made of the chunks of q, tq being what
\* became of them: not a byte is lost.
Kept(q, tq, cq, n) ==
  /\ InOrder(tq) /\ Len(tq) = Len(q)
  /\ \A j \in 1..Len(q) : tq[j].mem = q[j].mem
  /\ cq \in Seq(PartRec)
  /\ Cat(Bytes(cq), Flat(tq)) = Cat(Bytes(content), Flat(q))
  /\ n = Len(Bytes(cq)) /\ n <= content_length
  /\ AllInMemory(cq)

\* After k chunks, and when a file has failed.
GoesOn(q, tq, cq, n, k) ==
  /\ Kept(q, tq, cq, n)
  /\ \A j \in k + 1..Len(q) : tq[j] = q[j]
  /\ n = content_length \/ \A j \in 1..k : Finished(tq[j])
  /\ Open(cq, n # content_length)
Stops(q, tq, cq, n) == Kept(q, tq, cq, n) /\ Open(cq, FALSE)

\* A part of one kind more: it is the last one, and what came before is closed.
LEMMA OpenLast ==
  ASSUME NEW cq \in Seq(PartRec), NEW more \in BOOLEAN, cq # <<>>,
         \A k \in 1..Len(cq) - 1 : cq[k].file => ~cq[k].fd,
         cq[Len(cq)].file => (cq[Len(cq)].fd <=> more)
  PROVE  Open(cq, more)
<1> DEFINE n == Len(cq)
<1>1. n \in Nat /\ DOMAIN cq = 1..n
  BY BytesOf
<1>2. \A k \in 1..n : k = n \/ k \in 1..n - 1
  <2>1. n \in Nat
    BY <1>1
  <2> HIDE DEF n
  <2> QED
    BY <2>1
<1>3. /\ \A k \in 1..n - 1 : cq[k].file => ~cq[k].fd
      /\ cq[n].file => (cq[n].fd <=> more)
  OBVIOUS
<1> HIDE DEF n
<1>4. ASSUME NEW k \in DOMAIN cq, cq[k].file
      PROVE  (cq[k].fd => k = n /\ more) /\ (more /\ k = n => cq[k].fd)
  BY <1>1, <1>2, <1>3, <1>4
<1> QED
  BY <1>4 DEF Open, n

\* The bytes of one chunk go to memory.
LEMMA MoveToMemory ==
  ASSUME content_length \in Nat, NEW cq \in Seq(PartRec), Open(cq, TRUE), AllInMemory(cq),
         ~(content_length > mem_max), NEW b \in Seq(Byte), NEW more \in BOOLEAN
  PROVE  LET t == Append(cq, [file |-> FALSE, bytes |-> b, fd |-> FALSE])
         IN /\ t \in Seq(PartRec) /\ Bytes(t) = Cat(Bytes(cq), b)
            /\ Open(t, more) /\ AllInMemory(t)
<1> DEFINE p == [file |-> FALSE, bytes |-> b, fd |-> FALSE]
           t == Append(cq, p)
           n == Len(cq)
<1>1. p \in PartRec /\ ~p.file /\ p.bytes = b
  BY DEF PartRec
<1> HIDE DEF p
<1>2. /\ t \in Seq(PartRec) /\ Len(t) = n + 1 /\ t[n + 1] = p
      /\ \A k \in 1..n : t[k] = cq[k]
      /\ Bytes(t) = Cat(Bytes(cq), b)
  BY <1>1, BytesAppend
<1>3. n \in Nat /\ DOMAIN cq = 1..n
  BY BytesOf
<1> HIDE DEF t
<1>4. DOMAIN t = 1..n + 1
  BY <1>2, BytesOf
<1> HIDE DEF n
<1>5. \A k \in 1..n + 1 : k = n + 1 \/ k \in 1..n
  BY <1>3
<1>6. \A k \in DOMAIN t : ~t[k].file
  BY <1>1, <1>2, <1>3, <1>4, <1>5 DEF AllInMemory
<1>7. Open(t, more) /\ AllInMemory(t)
  BY <1>6 DEF Open, AllInMemory
<1> QED
  BY <1>2, <1>7 DEF t, p

\* What writing b to a temporary file has made: nothing, or what it should.
FileWritten(a, tq, cq, n, k, b) ==
  \/ \E t \in Seq(PartRec) :
       /\ a = Failed(tq, t, n) /\ Bytes(t) = Bytes(cq) /\ Open(t, FALSE) /\ AllInMemory(t)
  \/ \E t \in Seq(PartRec) :
       /\ a = Acc(Advance(tq, k, Len(b)), t, n + Len(b))
       /\ Bytes(t) = Cat(Bytes(cq), b)
       /\ Open(t, n + Len(b) # content_length) /\ AllInMemory(t)

\* They go to the temporary file: opening or writing it may fail.
LEMMA MoveToFile ==
  ASSUME content_length \in Nat, NEW cq \in Seq(PartRec), Open(cq, TRUE),
         content_length > mem_max, NEW b \in Seq(Byte), NEW tq, NEW n \in Nat, NEW k, NEW fault
  PROVE  FileWritten(ToFile(Acc(tq, cq, n), k, b, fault), tq, cq, n, k, b)
<1> DEFINE opens == fault # <<"open", k>>
           c == WithTempfile(cq, opens)
           A == Acc(tq, cq, n)
           v == n + Len(b) # content_length
           m == n + Len(b)
           wq == Advance(tq, k, Len(b))
           a == ToFile(A, k, b, fault)
<1>1. /\ c \in Seq(PartRec) /\ c # <<>> /\ Bytes(c) = Bytes(cq) /\ c[Len(c)].file
      /\ \A i \in 1..Len(c) - 1 : c[i].file => ~c[i].fd
  BY TempfileThere
<1>2. \A x : AllInMemory(x)
  BY DEF AllInMemory
<1>3. /\ A.queue = tq /\ A.content = cq /\ ~A.failed /\ A.bytes_in = n
      /\ Moved(A, k, b) = Acc(wq, cq, m)
      /\ \A x : WithFailure(A, x) = Failed(tq, x, n)
  <2>1. A.queue = tq /\ A.content = cq /\ ~A.failed /\ A.bytes_in = n
    BY AccIs
  <2>2. Moved(A, k, b) = Acc(wq, cq, m)
    BY MovedIs
  <2>3. \A x : WithFailure(A, x) = Failed(tq, x, n)
    BY WithIs, Zenon
  <2> QED
    BY <2>1, <2>2, <2>3
<1>4. \A x : WithContent(Acc(wq, cq, m), x) = Acc(wq, x, m)
  BY WithIs, Zenon
<1>5. /\ ~c[Len(c)].fd => a = WithFailure(A, c)
      /\ c[Len(c)].fd /\ fault = <<"write", k>> => a = WithFailure(A, [c EXCEPT ![Len(c)].fd = FALSE])
      /\ c[Len(c)].fd /\ fault # <<"write", k>> => a = WithContent(Moved(A, k, b), Written(c, b, v))
  <2> DEFINE C == WithTempfile(A.content, opens)
             V == A.bytes_in + Len(b) # content_length
  <2>1. C = c /\ V = v
    BY <1>3, Zenon
  <2>2. /\ ~C[Len(C)].fd => a = WithFailure(A, C)
        /\ C[Len(C)].fd /\ fault = <<"write", k>> => a = WithFailure(A, [C EXCEPT ![Len(C)].fd = FALSE])
        /\ C[Len(C)].fd /\ fault # <<"write", k>> => a = WithContent(Moved(A, k, b), Written(C, b, V))
    BY Zenon DEF ToFile, WithFailure, WithContent, Written
  <2> HIDE DEF C, c, v, V, A, a
  <2> QED
    BY <2>1, <2>2, Zenon
<1>6. /\ ~c[Len(c)].fd => a = Failed(tq, c, n)
      /\ c[Len(c)].fd /\ fault = <<"write", k>> => a = Failed(tq, [c EXCEPT ![Len(c)].fd = FALSE], n)
      /\ c[Len(c)].fd /\ fault # <<"write", k>> => a = Acc(wq, Written(c, b, v), m)
  <2> HIDE DEF c, A, v, wq, a, m
  <2> QED
    BY <1>3, <1>4, <1>5, Zenon
<1> HIDE DEF c, A, v, wq, a, m
<1>7. CASE ~c[Len(c)].fd
  <2>1. a = Failed(tq, c, n)
    BY <1>6, <1>7
  <2>2. Open(c, FALSE)
    <3> DEFINE y == FALSE
    <3>1. y \in BOOLEAN /\ (c[Len(c)].file => (c[Len(c)].fd <=> y))
      BY <1>7
    <3> HIDE DEF y
    <3>2. Open(c, y)
      BY <1>1, <3>1, OpenLast
    <3> QED
      BY <3>2, Zenon DEF y
  <2> QED
    BY <1>1, <1>2, <2>1, <2>2, Zenon DEF a, A, FileWritten
<1>8. CASE c[Len(c)].fd /\ fault = <<"write", k>>
  <2> DEFINE t == [c EXCEPT ![Len(c)].fd = FALSE]
  <2>1. a = Failed(tq, t, n)
    BY <1>6, <1>8, Zenon
  <2>2. /\ t \in Seq(PartRec) /\ Len(t) = Len(c) /\ Bytes(t) = Bytes(c) /\ ~t[Len(c)].fd
        /\ \A i \in 1..Len(c) - 1 : t[i] = c[i]
    BY <1>1, LastClosed
  <2> HIDE DEF t
  <2>3. t # <<>>
    BY <1>1, <2>2, EmptySeq
  <2>4. Open(t, FALSE)
    <3> DEFINE y == FALSE
    <3>1. y \in BOOLEAN /\ (t[Len(t)].file => (t[Len(t)].fd <=> y))
      BY <2>2
    <3> HIDE DEF y
    <3>2. Open(t, y)
      BY <1>1, <2>2, <2>3, <3>1, OpenLast
    <3> QED
      BY <3>2, Zenon DEF y
  <2> QED
    BY <1>1, <1>2, <2>1, <2>2, <2>4, Zenon DEF a, A, FileWritten
<1>9. CASE c[Len(c)].fd /\ fault # <<"write", k>>
  <2> DEFINE t == Written(c, b, v)
  <2>1. a = Acc(wq, t, m)
    BY <1>6, <1>9, Zenon
  <2>2. v \in BOOLEAN
    BY DEF v
  <2>3. /\ t \in Seq(PartRec) /\ Len(t) = Len(c) /\ Bytes(t) = Cat(Bytes(c), b) /\ t[Len(c)].fd = v
        /\ \A i \in 1..Len(c) - 1 : t[i] = c[i]
    BY <1>1, <2>2, LastWritten
  <2> HIDE DEF t
  <2>4. t # <<>>
    BY <1>1, <2>3, EmptySeq
  <2>5. Open(t, v)
    BY <1>1, <2>2, <2>3, <2>4, OpenLast
  <2> QED
    BY <1>1, <1>2, <2>1, <2>3, <2>5, Zenon DEF a, A, v, wq, m, FileWritten
<1> QED
  BY <1>7, <1>8, <1>9

\* One chunk is moved: still not a byte is lost.
LEMMA MoveGoes ==
  ASSUME content_length \in Nat, NEW q, Tidy(q), NEW k \in Nat, k + 1 \in 1..Len(q),
         NEW tq, NEW cq, NEW n, GoesOn(q, tq, cq, n, k), NEW fault
  PROVE  LET a == MoveChunk(Acc(tq, cq, n), k + 1, fault)
         IN \/ \E t, c, m : a = Acc(t, c, m) /\ GoesOn(q, t, c, m, k + 1)
            \/ \E t, c, m : a = Failed(t, c, m) /\ Stops(q, t, c, m)
<1> DEFINE N == Len(q)
           i == k + 1
           A == Acc(tq, cq, n)
           a == MoveChunk(A, i, fault)
<1>1. /\ N \in Nat /\ i \in 1..N /\ \A j \in 1..N : j > 1 => q[j].offset = 0
  BY TidyChunks
<1>2. /\ InOrder(tq) /\ Len(tq) = N /\ (\A j \in 1..N : tq[j].mem = q[j].mem)
      /\ (\A j \in i..N : tq[j] = q[j]) /\ cq \in Seq(PartRec)
      /\ Cat(Bytes(cq), Flat(tq)) = Cat(Bytes(content), Flat(q))
      /\ n = Len(Bytes(cq)) /\ n <= content_length /\ AllInMemory(cq)
      /\ (n = content_length \/ \A j \in 1..k : Finished(tq[j]))
      /\ Open(cq, n # content_length)
  BY DEF GoesOn, Kept
<1>3. Bytes(cq) \in Seq(Byte) /\ n \in Nat
  BY <1>2, BytesOf
<1>4. A.queue = tq /\ A.content = cq /\ ~A.failed /\ A.bytes_in = n
  BY AccIs
<1>5. CASE n = content_length
  <2>1. a = A
    BY <1>4, <1>5 DEF MoveChunk
  <2>2. \A j \in i + 1..N : j \in i..N
    BY <1>1
  <2>3. GoesOn(q, tq, cq, n, i)
    BY <1>2, <1>5, <2>2 DEF GoesOn, Kept
  <2> QED
    BY <2>1, <2>3
<1>6. CASE n # content_length
  <2> DEFINE r == Rest(tq[i])
             w == content_length - n
             s == IF Len(r) > w THEN w ELSE Len(r)
             b == SubSeq(r, 1, s)
             t == Advance(tq, i, s)
  <2>1. /\ tq \in Seq(ChunkRec) /\ DOMAIN tq = 1..N
        /\ \A j \in DOMAIN tq : tq[j].offset <= Len(tq[j].mem) /\ tq[j].mem # <<>>
        /\ tq[i] \in ChunkRec /\ r \in Seq(Byte) /\ Len(r) \in Nat /\ Flat(tq) \in Seq(Byte)
    <3>1. /\ tq \in Seq(ChunkRec)
          /\ \A j \in DOMAIN tq : tq[j].offset <= Len(tq[j].mem) /\ tq[j].mem # <<>>
      BY <1>2 DEF InOrder
    <3>2. /\ DOMAIN tq = 1..Len(tq) /\ Flat(tq) \in Seq(Byte)
          /\ \A j \in 1..Len(tq) : tq[j] \in ChunkRec /\ Rest(tq[j]) \in Seq(Byte)
      BY <3>1, RestsOf
    <3>3. DOMAIN tq = 1..N /\ tq[i] \in ChunkRec /\ r \in Seq(Byte)
      BY <1>1, <1>2, <3>2
    <3>4. Len(r) \in Nat
      BY <3>3, LenProperties
    <3> QED
      BY <3>1, <3>2, <3>3, <3>4
  <2>2. a = IF content_length > mem_max THEN ToFile(A, i, b, fault) ELSE ToMemory(A, i, b)
    <3>1. /\ A.failed \/ A.bytes_in = content_length <=> FALSE
          /\ Rest(A.queue[i]) = r /\ content_length - A.bytes_in = w
      BY <1>4, <1>6
    <3> HIDE DEF A, w
    <3> QED
      BY <3>1, Zenon DEF MoveChunk
  <2>3. w \in Nat /\ s \in 0..Len(r) /\ n + s \in Nat /\ n + s <= content_length
        /\ (s = Len(r) \/ n + s = content_length)
    <3>1. w \in Nat /\ n + w = content_length
      BY <1>2, <1>3
    <3> HIDE DEF w, r
    <3> QED
      BY <1>3, <2>1, <3>1
  <2> HIDE DEF s, A
  <2>4. /\ InOrder(t) /\ Len(t) = N
        /\ (\A j \in 1..N : t[j].mem = tq[j].mem /\ (j # i => t[j] = tq[j]))
        /\ b \in Seq(Byte) /\ Len(b) = s /\ Flat(tq) = Cat(b, Flat(t))
        /\ s = Len(r) => Finished(t[i])
    <3>1. \A j \in 1..i - 1 : Finished(tq[j])
      BY <1>1, <1>2, <1>6
    <3>2. \A j \in i + 1..Len(tq) : tq[j].offset = 0
      <4>1. \A j \in i + 1..N : j \in i..N /\ j \in 1..N /\ j > 1
        BY <1>1
      <4> QED
        BY <1>1, <1>2, <4>1
    <3>3. i \in 1..Len(tq) /\ s \in 0..Len(Rest(tq[i]))
      BY <1>1, <1>2, <2>3
    <3> DEFINE x == [tq EXCEPT ![i].offset = @ + s]
    <3>4. /\ InOrder(x) /\ Len(x) = Len(tq)
          /\ \A j \in 1..Len(tq) : x[j].mem = tq[j].mem /\ (j # i => x[j] = tq[j])
          /\ b \in Seq(Byte) /\ Len(b) = s /\ Flat(tq) = Cat(b, Flat(x))
          /\ s = Len(r) => Finished(x[i])
      <4> HIDE DEF i
      <4> QED
        BY <2>1, <3>1, <3>2, <3>3, ChunkMoved
    <3>5. x = t
      BY Zenon DEF Advance
    <3> HIDE DEF x, t, b, r, N, i
    <3> QED
      BY <1>2, <3>4, <3>5
  <2>5. ASSUME NEW c \in Seq(PartRec), Bytes(c) = Cat(Bytes(cq), b), AllInMemory(c),
               Open(c, n + s # content_length)
        PROVE  GoesOn(q, t, c, n + s, i)
    <3> HIDE DEF t, b, r, N
    <3>1. Flat(t) \in Seq(Byte)
      <4>1. t \in Seq(ChunkRec) /\ \A j \in DOMAIN t : t[j].offset <= Len(t[j].mem)
        BY <2>4 DEF InOrder
      <4> QED
        BY <4>1, RestsOf
    <3>2. Cat(Bytes(c), Flat(t)) = Cat(Bytes(cq), Flat(tq))
      <4>1. Cat(Cat(Bytes(cq), b), Flat(t)) = Cat(Bytes(cq), Cat(b, Flat(t)))
        BY <1>3, <2>4, <3>1, CatAssociative
      <4> QED
        BY <2>4, <2>5, <4>1
    <3>3. Len(Bytes(c)) = n + s
      <4>1. Len(Cat(Bytes(cq), b)) = Len(Bytes(cq)) + Len(b)
        BY <1>3, <2>4, CatFacts, ZenonT(40)
      <4> QED
        BY <1>2, <2>4, <2>5, <4>1
    <3>4. \A j \in i + 1..N : j \in i..N /\ j \in 1..N /\ j # i
      BY <1>1
    <3>5. \A j \in 1..i : j = i \/ (j \in 1..k /\ j \in 1..N /\ j # i)
      BY <1>1
    <3> HIDE DEF i
    <3>6. \A j \in i + 1..N : t[j] = q[j]
      BY <1>2, <2>4, <3>4
    <3>7. n + s = content_length \/ \A j \in 1..i : Finished(t[j])
      BY <1>2, <1>6, <2>3, <2>4, <3>5
    <3>8. Kept(q, t, c, n + s)
      BY <1>2, <2>3, <2>4, <2>5, <3>2, <3>3 DEF Kept, N
    <3> QED
      BY <2>5, <3>6, <3>7, <3>8 DEF GoesOn, N
  <2>6. Open(cq, TRUE)
    BY <1>2, <1>6 DEF Open
  <2>7. CASE content_length > mem_max
    <3>1. a = ToFile(A, i, b, fault)
      BY <2>2, <2>7
    <3>2. \/ \E c \in Seq(PartRec) :
                 /\ a = Failed(tq, c, n) /\ Bytes(c) = Bytes(cq) /\ Open(c, FALSE) /\ AllInMemory(c)
          \/ \E c \in Seq(PartRec) :
                 /\ a = Acc(t, c, n + s)
                 /\ Bytes(c) = Cat(Bytes(cq), b)
                 /\ Open(c, n + s # content_length) /\ AllInMemory(c)
      <4> DEFINE x == ToFile(Acc(tq, cq, n), i, b, fault)
      <4>1. FileWritten(x, tq, cq, n, i, b)
        <5>1. cq \in Seq(PartRec) /\ n \in Nat /\ b \in Seq(Byte)
          BY <1>2, <1>3, <2>4
        <5> HIDE DEF i, b
        <5> QED
          BY <2>6, <2>7, <5>1, MoveToFile
      <4>2. a = x /\ Len(b) = s
        BY <2>4, <3>1 DEF A
      <4> HIDE DEF x, a, b, i
      <4> QED
        BY <4>1, <4>2, Zenon DEF FileWritten, t
    <3>3. ASSUME NEW c \in Seq(PartRec), Bytes(c) = Bytes(cq), Open(c, FALSE), AllInMemory(c)
          PROVE  Stops(q, tq, c, n)
      BY <1>2, <3>3 DEF Stops, Kept, N
    <3> HIDE DEF a, t, i, b, r
    <3> QED
      BY <2>5, <3>2, <3>3, Zenon DEF a, A, i
  <2>8. CASE ~(content_length > mem_max)
    <3> DEFINE p == [file |-> FALSE, bytes |-> b, fd |-> FALSE]
               c == Append(cq, p)
    <3>1. a = ToMemory(A, i, b)
      BY <2>2, <2>8
    <3>2. ToMemory(A, i, b) = Acc(t, c, n + s)
      <4>1. Moved(A, i, b) = Acc(t, cq, n + s)
        <5>1. Moved(A, i, b) = Acc(Advance(tq, i, Len(b)), cq, n + Len(b))
          <6>1. n \in Nat /\ b \in Seq(Byte)
            BY <1>3, <2>4
          <6> HIDE DEF i, b
          <6> QED
            BY <6>1, MovedIs DEF A
        <5>2. Len(b) = s
          BY <2>4
        <5> QED
          BY <5>1, <5>2, Zenon
      <4>2. Moved(A, i, b).content = cq
        BY <4>1, AccIs
      <4>3. ToMemory(A, i, b) = WithContent(Moved(A, i, b), c)
        BY <4>2, Zenon DEF ToMemory, WithContent
      <4> HIDE DEF c, t
      <4>4. WithContent(Acc(t, cq, n + s), c) = Acc(t, c, n + s)
        BY WithIs, Zenon
      <4> QED
        BY <4>1, <4>3, <4>4, Zenon
    <3>3. /\ c \in Seq(PartRec) /\ Bytes(c) = Cat(Bytes(cq), b)
          /\ Open(c, n + s # content_length) /\ AllInMemory(c)
      <4> DEFINE more == n + s # content_length
      <4>1. more \in BOOLEAN
        OBVIOUS
      <4> HIDE DEF more, b
      <4>2. /\ c \in Seq(PartRec) /\ Bytes(c) = Cat(Bytes(cq), b)
            /\ Open(c, more) /\ AllInMemory(c)
        BY <1>2, <2>4, <2>6, <2>8, <4>1, MoveToMemory
      <4> QED
        BY <4>2 DEF more
    <3> HIDE DEF c
    <3>4. GoesOn(q, t, c, n + s, i)
      BY <2>5, <3>3
    <3>5. a = Acc(t, c, n + s)
      BY <3>1, <3>2, Zenon
    <3> HIDE DEF t, a
    <3> QED
      BY <3>4, <3>5, Zenon DEF a, A, i
  <2> QED
    BY <2>7, <2>8
<1> QED
  BY <1>5, <1>6

\* All chunks of q are moved, one after the other.
MovedAll(q, fault) ==
  LET moved[k \in 0..Len(q)] ==
        IF k = 0 THEN [queue |-> q, content |-> content, failed |-> FALSE,
                       bytes_in |-> Len(Bytes(content))]
        ELSE MoveChunk(moved[k - 1], k, fault)
  IN moved[Len(q)]

\* Some result of moving k chunks.
Result(a, q, k) ==
  \/ \E t, c, m : a = Acc(t, c, m) /\ GoesOn(q, t, c, m, k)
  \/ \E t, c, m : a = Failed(t, c, m) /\ Stops(q, t, c, m)

\* By induction on the chunks, not a byte is lost.
LEMMA AllMoved ==
  ASSUME content_length \in Nat, content \in Seq(PartRec), Len(Bytes(content)) < content_length,
         Open(content, TRUE), AllInMemory(content), NEW q, Tidy(q), NEW fault
  PROVE  Result(MovedAll(q, fault), q, Len(q))
<1> DEFINE N == Len(q)
           first == [queue |-> q, content |-> content, failed |-> FALSE,
                     bytes_in |-> Len(Bytes(content))]
           step(a, k) == MoveChunk(a, k, fault)
           Is(moved, n) == moved = [k \in 0..n |-> IF k = 0 THEN first ELSE step(moved[k - 1], k)]
<1>1. N \in Nat
  BY TidyChunks
<1>2. MovedAll(q, fault) = (CHOOSE moved : Is(moved, N))[N]
  BY DEF MovedAll
<1>3. first = Acc(q, content, Len(Bytes(content)))
  BY DEF Acc
<1> HIDE DEF step, first
<1>4. \E moved : Is(moved, N)
  <2> DEFINE T == {n \in Nat : \E moved : Is(moved, n)}
  <2>1. 0 \in T
    <3>1. Is([k \in 0..0 |-> first], 0)
      OBVIOUS
    <3> QED
      BY <3>1
  <2>2. ASSUME NEW n \in Nat, n \in T
        PROVE  n + 1 \in T
    <3>1. PICK a : Is(a, n)
      BY <2>2
    <3> DEFINE b == [k \in 0..n + 1 |-> IF k = n + 1 THEN step(a[n], n + 1) ELSE a[k]]
    <3>2. \A k \in 0..n : a[k] = IF k = 0 THEN first ELSE step(a[k - 1], k)
      BY <3>1
    <3>3. (\A k \in 0..n : b[k] = a[k]) /\ b[n + 1] = step(a[n], n + 1)
      OBVIOUS
    <3>4. b = [k \in 0..n + 1 |-> b[k]]
      OBVIOUS
    <3> HIDE DEF b
    <3>5. ASSUME NEW k \in 0..n + 1
          PROVE  b[k] = IF k = 0 THEN first ELSE step(b[k - 1], k)
      <4>1. CASE k = n + 1
        BY <3>3, <4>1
      <4>2. CASE k \in 1..n
        <5>1. k - 1 \in 0..n
          BY <4>2
        <5> QED
          BY <3>2, <3>3, <4>2, <5>1
      <4>3. CASE k = 0
        BY <3>2, <3>3, <4>3
      <4> QED
        BY <4>1, <4>2, <4>3
    <3>6. Is(b, n + 1)
      BY <3>4, <3>5
    <3> QED
      BY <3>6
  <2> HIDE DEF T
  <2>3. \A n \in Nat : n \in T
    BY <2>1, <2>2, SetInduction
  <2> QED
    BY <1>1, <2>3 DEF T
<1>5. PICK moved : Is(moved, N) /\ MovedAll(q, fault) = moved[N]
  BY <1>2, <1>4
<1>6. \A k \in 0..N : moved[k] = IF k = 0 THEN first ELSE step(moved[k - 1], k)
  BY <1>5
<1> DEFINE T == {n \in Nat : n <= N => Result(moved[n], q, n)}
<1>7. 0 \in T
  <2>1. moved[0] = Acc(q, content, Len(Bytes(content)))
    BY <1>1, <1>3, <1>6
  <2>2. Len(Bytes(content)) \in Nat
    BY BytesOf
  <2>3. Kept(q, q, content, Len(Bytes(content)))
    BY <2>2 DEF Kept, Tidy
  <2>4. Open(content, Len(Bytes(content)) # content_length)
    BY <2>2 DEF Open
  <2>5. GoesOn(q, q, content, Len(Bytes(content)), 0)
    BY <2>3, <2>4 DEF GoesOn
  <2>6. Result(moved[0], q, 0)
    BY <2>1, <2>5, Zenon DEF Result
  <2> QED
    BY <2>6
<1>8. ASSUME NEW n \in Nat, n \in T
      PROVE  n + 1 \in T
  <2> SUFFICES ASSUME n + 1 <= N
               PROVE  Result(moved[n + 1], q, n + 1)
    OBVIOUS
  <2>1. Result(moved[n], q, n)
    BY <1>1, <1>8
  <2>2. moved[n + 1] = MoveChunk(moved[n], n + 1, fault) /\ n + 1 \in 1..N
    <3>1. n + 1 \in 0..N /\ n + 1 \in 1..N /\ n + 1 # 0 /\ (n + 1) - 1 = n
      BY <1>1
    <3>2. moved[n + 1] = step(moved[n], n + 1)
      <4> HIDE DEF N
      <4> QED
        BY <1>1, <1>6, <3>1
    <3> QED
      BY <3>1, <3>2, Zenon DEF step
  <2>3. ASSUME NEW t, NEW c, NEW m, moved[n] = Acc(t, c, m), GoesOn(q, t, c, m, n)
        PROVE  Result(moved[n + 1], q, n + 1)
    <3> DEFINE a == MoveChunk(Acc(t, c, m), n + 1, fault)
    <3>1. \/ \E x, y, z : a = Acc(x, y, z) /\ GoesOn(q, x, y, z, n + 1)
          \/ \E x, y, z : a = Failed(x, y, z) /\ Stops(q, x, y, z)
      BY <2>2, <2>3, MoveGoes
    <3>2. moved[n + 1] = a
      BY <2>2, <2>3, Zenon
    <3> HIDE DEF a
    <3> QED
      BY <3>1, <3>2, Zenon DEF Result
  <2>4. ASSUME NEW t, NEW c, NEW m, moved[n] = Failed(t, c, m), Stops(q, t, c, m)
        PROVE  Result(moved[n + 1], q, n + 1)
    <3>1. Failed(t, c, m).failed
      BY AccIs
    <3>2. MoveChunk(Failed(t, c, m), n + 1, fault) = Failed(t, c, m)
      BY <3>1, Zenon DEF MoveChunk
    <3>3. moved[n + 1] = Failed(t, c, m)
      BY <2>2, <2>4, <3>2, Zenon
    <3> QED
      BY <2>4, <3>3, Zenon DEF Result
  <2> QED
    BY <2>1, <2>3, <2>4, Zenon DEF Result
<1> HIDE DEF T
<1>9. N \in T
  BY <1>1, <1>7, <1>8, SetInduction
<1>10. Result(moved[N], q, N)
  BY <1>1, <1>9 DEF T
<1> QED
  BY <1>5, <1>10, Zenon

\* What follows the first b bytes, when more is added.
LEMMA RestMore ==
  ASSUME NEW s \in Seq(Byte), NEW p \in Seq(Byte), NEW b \in 0..Len(s)
  PROVE  LET t == Cat(s, p)
             u == SubSeq(s, b + 1, Len(s))
         IN /\ t \in Seq(Byte) /\ b \in 0..Len(t) /\ Len(t) = Len(s) + Len(p) /\ Len(p) \in Nat
            /\ u \in Seq(Byte) /\ Len(u) = Len(s) - b
            /\ SubSeq(t, b + 1, Len(t)) = Cat(u, p)
<1> DEFINE t == Cat(s, p)
           u == SubSeq(s, b + 1, Len(s))
           v == SubSeq(t, b + 1, Len(t))
<1>1. /\ t \in Seq(Byte) /\ Len(t) = Len(s) + Len(p)
      /\ Len(s) \in Nat /\ Len(p) \in Nat
      /\ (\A i \in 1..Len(s) : t[i] = s[i]) /\ \A i \in 1..Len(p) : t[Len(s) + i] = p[i]
  <2>1. t \in Seq(Byte) /\ Len(t) = Len(s) + Len(p) /\ Len(s) \in Nat /\ Len(p) \in Nat
    BY CatFacts
  <2>2. \A i \in 1..Len(s) : t[i] = s[i]
    BY CatFacts
  <2>3. \A i \in 1..Len(p) : t[Len(s) + i] = p[i]
    BY CatFacts
  <2> QED
    BY <2>1, <2>2, <2>3
<1> HIDE DEF t
<1>2. b \in Nat /\ b <= Len(s) /\ b \in 0..Len(t)
  BY <1>1
<1>3. /\ u \in Seq(Byte) /\ Len(u) = Len(s) - b /\ \A i \in 1..Len(s) - b : u[i] = s[b + i]
  BY CutInTwo
<1>4. /\ v \in Seq(Byte) /\ Len(v) = Len(t) - b /\ \A i \in 1..Len(t) - b : v[i] = t[b + i]
  BY <1>1, <1>2, CutInTwo
<1> HIDE DEF u, v
<1>5. /\ Cat(u, p) \in Seq(Byte) /\ Len(Cat(u, p)) = Len(u) + Len(p)
      /\ (\A i \in 1..Len(u) : Cat(u, p)[i] = u[i]) /\ \A i \in 1..Len(p) : Cat(u, p)[Len(u) + i] = p[i]
  <2>0. u \in Seq(Byte)
    BY <1>3
  <2>1. Cat(u, p) \in Seq(Byte) /\ Len(Cat(u, p)) = Len(u) + Len(p)
    BY <2>0, CatFacts
  <2>2. \A i \in 1..Len(u) : Cat(u, p)[i] = u[i]
    BY <2>0, CatFacts
  <2>3. \A i \in 1..Len(p) : Cat(u, p)[Len(u) + i] = p[i]
    BY <2>0, CatFacts
  <2> QED
    BY <2>1, <2>2, <2>3
<1>6. Len(v) = Len(Cat(u, p))
  BY <1>1, <1>2, <1>3, <1>4, <1>5
<1>7. ASSUME NEW i \in 1..Len(v)
      PROVE  v[i] = Cat(u, p)[i]
  <2>1. Len(v) = (Len(s) - b) + Len(p) /\ Len(t) - b = Len(v)
    BY <1>1, <1>2, <1>4
  <2>2. v[i] = t[b + i]
    BY <1>4, <2>1
  <2>3. CASE i <= Len(u)
    <3>1. i \in 1..Len(u) /\ i \in 1..Len(s) - b /\ b + i \in 1..Len(s)
      BY <1>1, <1>2, <1>3, <2>1, <2>3
    <3> QED
      BY <1>1, <1>3, <1>5, <2>2, <3>1
  <2>4. CASE ~(i <= Len(u))
    <3>1. i - Len(u) \in 1..Len(p) /\ Len(u) + (i - Len(u)) = i /\ Len(s) + (i - Len(u)) = b + i
      BY <1>1, <1>2, <1>3, <2>1, <2>4
    <3>2. Cat(u, p)[i] = p[i - Len(u)]
      BY <1>5, <3>1
    <3>3. t[b + i] = p[i - Len(u)]
      BY <1>1, <3>1
    <3> QED
      BY <2>2, <3>2, <3>3
  <2> QED
    BY <2>3, <2>4
<1>8. v = Cat(u, p)
  BY <1>4, <1>5, <1>6, <1>7, SeqEqual
<1> QED
  BY <1>1, <1>2, <1>3, <1>8 DEF t, u, v

\* What the client has sent, when a read() brings more.
LEMMA SinceMore ==
  ASSUME NEW rs \in Seq(Seq(Byte) \ {<<>>}), NEW b \in 0..Len(Stream(rs)), NEW p \in Seq(Byte), p # <<>>
  PROVE  LET t == Append(rs, p)
         IN /\ t \in Seq(Seq(Byte) \ {<<>>}) /\ Stream(t) \in Seq(Byte) /\ b \in 0..Len(Stream(t))
            /\ Len(Stream(t)) = Len(Stream(rs)) + Len(p)
            /\ Since(rs, b) \in Seq(Byte) /\ Since(t, b) = Cat(Since(rs, b), p)
            /\ Len(Since(rs, b)) = Len(Stream(rs)) - b
<1> DEFINE t == Append(rs, p)
           s == Stream(rs)
<1>1. rs \in Seq(Seq(Byte))
  <2>1. Len(rs) \in Nat /\ rs = [i \in 1..Len(rs) |-> rs[i]] /\ \A i \in 1..Len(rs) : rs[i] \in Seq(Byte)
    BY LenProperties, ElementOfSeq
  <2> QED
    BY <2>1
<1>2. t \in Seq(Seq(Byte) \ {<<>>})
  BY AppendProperties
<1>3. s \in Seq(Byte) /\ Stream(t) = s \o p
  BY <1>1, FlatAppend DEF Stream
<1> HIDE DEF t
<1>4. Stream(t) = Cat(s, p)
  BY <1>3, Zenon DEF Cat
<1>5. /\ Cat(s, p) \in Seq(Byte) /\ b \in 0..Len(Cat(s, p)) /\ Len(Cat(s, p)) = Len(s) + Len(p)
      /\ SubSeq(s, b + 1, Len(s)) \in Seq(Byte) /\ Len(SubSeq(s, b + 1, Len(s))) = Len(s) - b
      /\ SubSeq(Cat(s, p), b + 1, Len(Cat(s, p))) = Cat(SubSeq(s, b + 1, Len(s)), p)
  BY <1>3, RestMore
<1> QED
  BY <1>2, <1>4, <1>5, Zenon DEF t, s, Since

\* What it has sent is used up from the begin.
LEMMA SinceDone ==
  ASSUME NEW rs, Stream(rs) \in Seq(Byte), NEW b \in 0..Len(Stream(rs)),
         NEW u \in Seq(Byte), NEW v \in Seq(Byte), Since(rs, b) = Cat(u, v)
  PROVE  b + Len(u) \in 0..Len(Stream(rs)) /\ Since(rs, b + Len(u)) = v
<1> DEFINE s == Stream(rs)
           m == b + Len(u)
           w == Since(rs, b)
           x == Since(rs, m)
<1> HIDE DEF s
<1>1. /\ w \in Seq(Byte) /\ Len(w) = Len(s) - b /\ \A i \in 1..Len(s) - b : w[i] = s[b + i]
  <2>1. w = SubSeq(s, b + 1, Len(s)) /\ b \in 0..Len(s) /\ s \in Seq(Byte)
    BY DEF Since, s
  <2> HIDE DEF w
  <2> QED
    BY <2>1, CutInTwo
<1>2. /\ Len(w) = Len(u) + Len(v) /\ Len(u) \in Nat /\ Len(v) \in Nat
      /\ \A i \in 1..Len(v) : w[Len(u) + i] = v[i]
  BY CatFacts
<1> HIDE DEF w
<1>3. Len(s) \in Nat /\ b \in Nat /\ b <= Len(s)
  BY LenProperties DEF s
<1>4. m \in 0..Len(s) /\ Len(s) - m = Len(v)
  BY <1>1, <1>2, <1>3
<1>5. /\ x \in Seq(Byte) /\ Len(x) = Len(s) - m /\ \A i \in 1..Len(s) - m : x[i] = s[m + i]
  <2>1. x = SubSeq(s, m + 1, Len(s)) /\ m \in 0..Len(s) /\ s \in Seq(Byte)
    BY <1>4 DEF Since, s
  <2> HIDE DEF x, m
  <2> QED
    BY <2>1, CutInTwo
<1>6. ASSUME NEW i \in 1..Len(v)
      PROVE  x[i] = v[i]
  <2>1. Len(u) + i \in 1..Len(s) - b /\ b + (Len(u) + i) = m + i /\ i \in 1..Len(s) - m
    BY <1>1, <1>2, <1>3, <1>4
  <2>2. x[i] = s[m + i]
    <3> HIDE DEF m, x
    <3> QED
      BY <1>5, <2>1
  <2>3. w[Len(u) + i] = s[b + (Len(u) + i)] /\ w[Len(u) + i] = v[i]
    BY <1>1, <1>2, <2>1
  <2> HIDE DEF m, x
  <2> QED
    BY <2>1, <2>2, <2>3
<1> HIDE DEF x, m
<1>7. x = v
  BY <1>4, <1>5, <1>6, SeqEqual
<1> QED
  BY <1>4, <1>7 DEF x, m, s

-----------------------------------------------------------------------------
(* The steps.                                                              *)

\* HeaderExact and FoundWhenThere of any request, queue and reads.
HeaderOK(rq, rs, b) ==
  rq # <<>> => Len(rq) \in Ends(rq) /\ \A i \in Ends(rq) : i = Len(rq) \/ Spread(rs, b, i)
FoundOK(q, rs, b) == \A i \in Ends(Flat(q)) : Spread(rs, b, i)

\* They are the same.
LEMMA SameSpread ==
  /\ HeaderExact <=> HeaderOK(request, reads, base)
  /\ HeaderExact' <=> HeaderOK(request', reads', base')
  /\ FoundWhenThere <=> (state = "read" => FoundOK(queue, reads, base))
  /\ FoundWhenThere' <=> (state' = "read" => FoundOK(queue', reads', base'))
<1>1. \A i : Scattered(i) <=> Spread(reads, base, i)
  BY Zenon DEF Scattered, Spread
<1>2. \A i : (Scattered(i))' <=> Spread(reads', base', i)
  BY Zenon DEF Scattered, Spread
<1>3. HeaderExact <=> HeaderOK(request, reads, base)
  BY <1>1, Zenon DEF HeaderExact, HeaderOK
<1>4. HeaderExact' <=> HeaderOK(request', reads', base')
  BY <1>2, Zenon DEF HeaderExact, HeaderOK
<1>5. FoundWhenThere <=> (state = "read" => FoundOK(queue, reads, base))
  BY <1>1, Zenon DEF FoundWhenThere, FoundOK
<1>6. FoundWhenThere' <=> (state' = "read" => FoundOK(queue', reads', base'))
  BY <1>2, Zenon DEF FoundWhenThere, FoundOK
<1> QED
  BY <1>3, <1>4, <1>5, <1>6

\* More reads leave the earlier ones where they are.
LEMMA SpreadMore ==
  ASSUME NEW rs \in Seq(Seq(Byte)), NEW p \in Seq(Byte), NEW b, NEW i, Spread(rs, b, i)
  PROVE  Spread(Append(rs, p), b, i)
<1> DEFINE t == Append(rs, p)
           n == Len(rs)
           f == [k \in 0..n |-> Upto(rs, k) - b]
           g == [k \in 0..Len(t) |-> Upto(t, k) - b]
           F == {k \in DOMAIN f : i - 3 <= f[k] /\ f[k] < i}
           G == {k \in DOMAIN g : i - 3 <= g[k] /\ g[k] < i}
<1>1. Cardinality(F) > 1
  BY DEF Spread, Upto
<1>2. n \in Nat /\ Len(t) = n + 1
  BY LenProperties, AppendProperties
<1>3. ASSUME NEW k \in 0..n
      PROVE  Upto(t, k) = Upto(rs, k)
  <2>1. t \in Seq(Seq(Byte)) /\ k \in 0..Len(t) /\ \A j \in 1..n : t[j] = rs[j]
    BY <1>2, AppendProperties
  <2> DEFINE u == SubSeq(rs, 1, k)
             v == SubSeq(t, 1, k)
  <2>2. u \in Seq(Seq(Byte)) /\ Len(u) = k /\ \A j \in 1..k : u[j] = rs[j]
    <3>1. k \in 0..Len(rs)
      BY <1>2
    <3> QED
      BY <3>1, CutInTwo
  <2> HIDE DEF t
  <2>3. v \in Seq(Seq(Byte)) /\ Len(v) = k /\ \A j \in 1..k : v[j] = t[j]
    BY <2>1, CutInTwo
  <2>4. \A j \in 1..k : j \in 1..n
    BY <1>2
  <2> HIDE DEF u, v
  <2>5. \A j \in 1..k : u[j] = v[j]
    BY <2>1, <2>2, <2>3, <2>4
  <2>6. u = v
    BY <2>2, <2>3, <2>5, SeqEqual
  <2> QED
    BY <2>6 DEF u, v, Upto
<1>4. F \subseteq G
  <2> SUFFICES ASSUME NEW k \in F
               PROVE  k \in G
    OBVIOUS
  <2>1. k \in 0..n /\ k \in 0..Len(t)
    BY <1>2
  <2>2. Upto(t, k) = Upto(rs, k)
    BY <1>3, <2>1
  <2> HIDE DEF t, n
  <2>3. f[k] = Upto(rs, k) - b /\ g[k] = Upto(t, k) - b
    BY <2>1
  <2>4. f[k] = g[k] /\ k \in DOMAIN g
    BY <2>1, <2>2, <2>3
  <2>5. i - 3 <= f[k] /\ f[k] < i
    OBVIOUS
  <2> HIDE DEF f, g
  <2> QED
    BY <2>4, <2>5
<1>5. IsFiniteSet(G)
  <2>1. IsFiniteSet(0..Len(t))
    BY <1>2, FS_Interval
  <2>2. G \subseteq 0..Len(t)
    OBVIOUS
  <2> HIDE DEF G
  <2> QED
    BY <2>1, <2>2, FS_Subset
<1> HIDE DEF F, G
<1>6. Cardinality(F) <= Cardinality(G) /\ Cardinality(F) \in Nat /\ Cardinality(G) \in Nat
  BY <1>4, <1>5, FS_Subset, FS_CardinalityType
<1>7. Cardinality(G) > 1
  BY <1>1, <1>6
<1> HIDE DEF t
<1>8. Spread(t, b, i)
  BY <1>7, Zenon DEF G, Spread, Upto
<1> QED
  BY <1>8 DEF t

\* What a state of the connection is made of.
LEMMA Parts ==
  ASSUME IInv
  PROVE  /\ Since(reads, base) = Cat(request, Cat(Bytes(content), Flat(queue)))
         /\ request \in Seq(Byte) /\ Bytes(content) \in Seq(Byte) /\ Flat(queue) \in Seq(Byte)
         /\ Bytes(<<>>) = <<>> /\ content \in Seq(PartRec)
         /\ Stream(reads) \in Seq(Byte) /\ base \in Nat /\ content_length \in Nat
<1>1. Since(reads, base) = Cat(request, Cat(Bytes(content), Flat(queue)))
  BY DEF IInv
<1>2. request \in Seq(Byte) /\ content \in Seq(PartRec) /\ Tidy(queue)
  BY DEF IInv
<1>3. Bytes(content) \in Seq(Byte)
  BY <1>2, BytesOf
<1>4. Flat(queue) \in Seq(Byte)
  BY <1>2, TidyChunks
<1>5. Stream(reads) \in Seq(Byte)
  <2>1. reads \in Seq(Seq(Byte) \ {<<>>})
    BY DEF IInv
  <2>2. reads \in Seq(Seq(Byte))
    <3>1. /\ Len(reads) \in Nat /\ reads = [i \in 1..Len(reads) |-> reads[i]]
          /\ \A i \in 1..Len(reads) : reads[i] \in Seq(Byte)
      BY <2>1, LenProperties, ElementOfSeq
    <3> QED
      BY <3>1
  <2> QED
    BY <2>2, FlatAppend, EmptySeq DEF Stream
<1>6. base \in Nat
  <2>1. base \in 0..Len(Stream(reads)) /\ Len(Stream(reads)) \in Nat
    BY <1>5, LenProperties DEF IInv
  <2> QED
    BY <2>1
<1>7. content_length \in Nat
  <2>1. content_length \in Lengths \cup {0}
    BY DEF IInv
  <2> QED
    BY <2>1, ReadAssumption
<1> QED
  BY <1>1, <1>2, <1>3, <1>4, <1>5, <1>6, <1>7, NoBytes

\* Without request and content, all that was sent is in the queue.
LEMMA Cats ==
  ASSUME NEW s \in Seq(Byte)
  PROVE  Cat(<<>>, Cat(<<>>, s)) = s /\ Cat(<<>>, s) = s
<1>1. Cat(<<>>, s) = s
  BY CatFacts
<1> QED
  BY <1>1

\* The search for a header, wherever the queue comes from.
LEMMA HeaderStep ==
  ASSUME IInv, state \in {"request_start", "read"},
         NEW rs \in Seq(Seq(Byte) \ {<<>>}), Len(Stream(rs)) <= MaxStream,
         base \in 0..Len(Stream(rs)), NEW q, Tidy(q), LastReads(q, rs), Since(rs, base) = Flat(q),
         Len(Stream(rs)) = base + Len(Flat(q)),
         ReadHeader(q), reads' = rs, base' = base
  PROVE  IInv'
<1>1. /\ content = <<>> /\ request = <<>> /\ base \in Nat /\ Bytes(<<>>) = <<>>
      /\ content_length \in Lengths \cup {0} /\ keep_alive \in BOOLEAN /\ http_status \in {0, 413, 414}
      /\ <<>> \in Seq(PartRec) /\ <<>> \in Seq(Byte)
  BY Parts, NoBytes, EmptySeq DEF IInv, StateOK
<1>2. content' = <<>> /\ content_length' = content_length
  BY <1>1 DEF ReadHeader
<1>3. \A m : Open(<<>>, m) /\ Left(<<>>)
  BY EmptySeq DEF Open, Left
<1>4. CASE Found(q) # {}
  <2> DEFINE h == Header(q, End(q))
             r == chunkqueue_remove_finished_chunks(Copied(q, End(q)))
  <2>1. /\ request' = h /\ queue' = r /\ state' = "request_end"
        /\ keep_alive' = keep_alive /\ http_status' = http_status
    BY <1>4 DEF ReadHeader
  <2>2. /\ h \in Seq(Byte) /\ Flat(q) = Cat(h, Flat(r)) /\ Tidy(r) /\ LastReads(r, rs)
        /\ Len(h) \in Ends(h) /\ \A i \in Ends(h) : i = Len(h) \/ Spread(rs, base, i)
    BY <1>1, <1>4, HeaderCut
  <2> HIDE DEF h, r
  <2>3. HeaderOK(h, rs, base)
    BY <2>2 DEF HeaderOK
  <2>4. Flat(r) \in Seq(Byte)
    BY <2>2, TidyChunks
  <2>5. Since(rs, base) = Cat(h, Cat(Bytes(<<>>), Flat(r)))
    BY <1>1, <2>2, <2>4, Cats
  <2>6. HeaderExact' /\ FoundWhenThere'
    BY <2>1, <2>3, SameSpread
  <2>7. StateOK'
    BY <1>2, <2>1 DEF StateOK
  <2>8. (Since(reads, base))' = Since(rs, base)
    BY DEF Since, Stream
  <2>9. /\ (Tidy(queue))' /\ (LastReads(queue, reads))'
        /\ (Cat(request, Cat(Bytes(content), Flat(queue))))' = Cat(h, Cat(Bytes(<<>>), Flat(r)))
        /\ (Stream(reads))' = Stream(rs)
    BY <1>2, <2>1, <2>2, Zenon
  <2>10. state' \in States /\ http_status' \in {0, 413, 414} /\ keep_alive' \in BOOLEAN
    BY <1>1, <2>1 DEF States
  <2>11. (Since(reads, base) = Cat(request, Cat(Bytes(content), Flat(queue))))'
    BY <2>5, <2>8, <2>9, Zenon
  <2>12. request' \in Seq(Byte) /\ content' \in Seq(PartRec) /\ content_length' \in Lengths \cup {0}
    BY <1>1, <1>2, <2>1, <2>2
  <2>13. reads' \in Seq(Seq(Byte) \ {<<>>}) /\ (Len(Stream(reads)) <= MaxStream)' /\ (base \in 0..Len(Stream(reads)))'
    BY <2>9, Zenon
  <2> QED
    BY <2>6, <2>7, <2>9, <2>10, <2>11, <2>12, <2>13, Zenon DEF IInv
<1>5. CASE Found(q) = {}
  <2> DEFINE r == chunkqueue_remove_finished_chunks(q)
  <2>1. /\ request' = <<>> /\ queue' = r
        /\ \/ state' = "handle_request" /\ http_status' = 414 /\ keep_alive' = FALSE
           \/ state' = "read" /\ keep_alive' = keep_alive /\ http_status' = http_status
    BY <1>1, <1>5 DEF ReadHeader
  <2>2. Flat(r) = Flat(q) /\ Tidy(r) /\ LastReads(r, rs) /\ \A i \in Ends(Flat(r)) : Spread(rs, base, i)
    BY <1>1, <1>5, HeaderMissing
  <2> HIDE DEF r
  <2>3. HeaderOK(<<>>, rs, base) /\ FoundOK(r, rs, base)
    BY <2>2 DEF HeaderOK, FoundOK
  <2>4. Flat(r) \in Seq(Byte)
    BY <2>2, TidyChunks
  <2>5. Since(rs, base) = Cat(<<>>, Cat(Bytes(<<>>), Flat(r)))
    BY <1>1, <2>2, <2>4, Cats
  <2>6. HeaderExact' /\ FoundWhenThere'
    BY <2>1, <2>3, SameSpread
  <2>7. StateOK'
    <3>1. /\ request' = <<>> /\ content' = <<>> /\ (\A x : (Open(content, x))') /\ (Left(content))'
      BY <1>2, <1>3, <2>1 DEF Open, Left
    <3>2. CASE state' = "handle_request" /\ http_status' = 414 /\ keep_alive' = FALSE
      <4>1. http_status' # 0 /\ ~keep_alive' /\ state' = "handle_request"
        BY <3>2
      <4> QED
        BY <3>1, <4>1 DEF StateOK
    <3>3. CASE state' = "read" /\ keep_alive' = keep_alive /\ http_status' = http_status
      BY <3>1, <3>3 DEF StateOK
    <3> QED
      BY <2>1, <3>2, <3>3, Zenon
  <2>8. (Since(reads, base))' = Since(rs, base)
    BY DEF Since, Stream
  <2>9. /\ (Tidy(queue))' /\ (LastReads(queue, reads))'
        /\ (Cat(request, Cat(Bytes(content), Flat(queue))))' = Cat(<<>>, Cat(Bytes(<<>>), Flat(r)))
        /\ (Stream(reads))' = Stream(rs)
    BY <1>2, <2>1, <2>2, Zenon
  <2>10. state' \in States /\ http_status' \in {0, 413, 414} /\ keep_alive' \in BOOLEAN
    <3>1. CASE state' = "handle_request" /\ http_status' = 414 /\ keep_alive' = FALSE
      BY <3>1 DEF States
    <3>2. CASE state' = "read" /\ keep_alive' = keep_alive /\ http_status' = http_status
      BY <1>1, <3>2 DEF States
    <3> QED
      BY <2>1, <3>1, <3>2, Zenon
  <2>11. (Since(reads, base) = Cat(request, Cat(Bytes(content), Flat(queue))))'
    BY <2>5, <2>8, <2>9, Zenon
  <2>12. request' \in Seq(Byte) /\ content' \in Seq(PartRec) /\ content_length' \in Lengths \cup {0}
    BY <1>1, <1>2, <2>1
  <2>13. reads' \in Seq(Seq(Byte) \ {<<>>}) /\ (Len(Stream(reads)) <= MaxStream)' /\ (base \in 0..Len(Stream(reads)))'
    BY <2>9, Zenon
  <2> QED
    BY <2>6, <2>7, <2>9, <2>10, <2>11, <2>12, <2>13, Zenon DEF IInv
<1> QED
  BY <1>4, <1>5

\* The content is read, wherever the queue comes from.
LEMMA ContentStep ==
  ASSUME IInv, state = "read_post",
         NEW rs \in Seq(Seq(Byte) \ {<<>>}), Len(Stream(rs)) <= MaxStream,
         base \in 0..Len(Stream(rs)), NEW q, Tidy(q), LastReads(q, rs),
         Since(rs, base) = Cat(request, Cat(Bytes(content), Flat(q))),
         HeaderOK(request, rs, base), ReadContent(q), reads' = rs, base' = base
  PROVE  IInv'
<1>1. /\ content \in Seq(PartRec) /\ request \in Seq(Byte) /\ content_length \in Nat
      /\ content_length \in Lengths \cup {0} /\ keep_alive \in BOOLEAN /\ http_status \in {0, 413, 414}
      /\ Len(Bytes(content)) < content_length /\ Open(content, TRUE) /\ AllInMemory(content)
  BY Parts DEF IInv, StateOK
<1>2. PICK fault \in {<<"none", 0>>} \cup (Faults \X DOMAIN q) :
        LET end == MovedAll(q, fault)
        IN /\ content' = end.content
           /\ queue' = chunkqueue_remove_finished_chunks(end.queue)
           /\ IF end.failed THEN Refuse
              ELSE /\ state' = IF end.bytes_in = content_length THEN "handle_request" ELSE "read_post"
                   /\ UNCHANGED <<http_status, keep_alive>>
           /\ UNCHANGED <<request, content_length>>
  BY Zenon DEF ReadContent, MovedAll
<1> DEFINE end == MovedAll(q, fault)
<1>3. Result(end, q, Len(q))
  BY <1>1, AllMoved
<1>4. /\ content' = end.content
      /\ queue' = chunkqueue_remove_finished_chunks(end.queue)
      /\ IF end.failed THEN Refuse
         ELSE /\ state' = IF end.bytes_in = content_length THEN "handle_request" ELSE "read_post"
              /\ http_status' = http_status /\ keep_alive' = keep_alive
      /\ request' = request /\ content_length' = content_length
  BY <1>2
<1> HIDE DEF end
<1> DEFINE Fine(t, c, m) ==
             /\ Kept(q, t, c, m) /\ end.queue = t /\ end.content = c
             /\ state' \in {"handle_request", "read_post"} /\ keep_alive' \in BOOLEAN
             /\ http_status' \in {0, 413, 414}
             /\ state' = "read_post" => m < content_length /\ Open(c, TRUE)
             /\ state' = "handle_request" => Open(c, FALSE)
             /\ state' = "handle_request" /\ (http_status' = 0 \/ keep_alive') => m = content_length
<1>5. ASSUME NEW t, NEW c, NEW m, Fine(t, c, m)
      PROVE  IInv'
  <2> DEFINE r == chunkqueue_remove_finished_chunks(t)
  <2>1. /\ InOrder(t) /\ Len(t) = Len(q) /\ (\A j \in 1..Len(q) : t[j].mem = q[j].mem)
        /\ c \in Seq(PartRec) /\ Cat(Bytes(c), Flat(t)) = Cat(Bytes(content), Flat(q))
        /\ m = Len(Bytes(c)) /\ AllInMemory(c)
    BY <1>5 DEF Kept
  <2>2. Tidy(r) /\ Flat(r) = Flat(t)
    BY <2>1, RemovedFinished
  <2>3. LastReads(t, rs)
    <3>1. DOMAIN t = DOMAIN q
      BY <2>1, TidyChunks, LenProperties DEF InOrder
    <3>2. DOMAIN q = 1..Len(q)
      BY TidyChunks
    <3> QED
      BY <2>1, <3>1, <3>2 DEF LastReads
  <2>4. LastReads(r, rs)
    <3>1. Len(rs) \in Nat
      BY LenProperties
    <3> QED
      BY <2>1, <2>3, <3>1, ReadsKept
  <2>5. content' = c /\ queue' = r /\ request' = request /\ content_length' = content_length
    BY <1>4, <1>5
  <2> HIDE DEF r
  <2>6. Since(rs, base) = Cat(request, Cat(Bytes(c), Flat(r)))
    BY <2>1, <2>2, Zenon
  <2>7. HeaderExact' /\ FoundWhenThere'
    BY <1>5, <2>5, SameSpread
  <2>8. (AllInMemory(content))'
    BY <2>1, <2>5 DEF AllInMemory
  <2>9. StateOK'
    <3>1. (Bytes(content))' = Bytes(c) /\ (\A x : (Open(content, x))' <=> Open(c, x))
      BY <2>5 DEF Bytes, Open
    <3> QED
      BY <1>5, <2>1, <2>5, <2>8, <3>1 DEF StateOK
  <2>10. /\ (Tidy(queue))' /\ (LastReads(queue, reads))'
         /\ (Cat(request, Cat(Bytes(content), Flat(queue))))' = Cat(request, Cat(Bytes(c), Flat(r)))
         /\ (Stream(reads))' = Stream(rs) /\ (Since(reads, base))' = Since(rs, base)
    BY <2>2, <2>4, <2>5, Zenon
  <2>11. state' \in States
    BY <1>5 DEF States
  <2> QED
    BY <1>1, <1>5, <2>1, <2>5, <2>6, <2>7, <2>9, <2>10, <2>11 DEF IInv
<1>6. ASSUME NEW t, NEW c, NEW m, end = Acc(t, c, m), GoesOn(q, t, c, m, Len(q))
      PROVE  IInv'
  <2>1. end.queue = t /\ end.content = c /\ ~end.failed /\ end.bytes_in = m
    BY <1>6, AccIs
  <2>2. Kept(q, t, c, m) /\ Open(c, m # content_length) /\ m <= content_length /\ m \in Nat
    <3>1. Kept(q, t, c, m) /\ Open(c, m # content_length)
      BY <1>6 DEF GoesOn
    <3>2. c \in Seq(PartRec) /\ m = Len(Bytes(c)) /\ m <= content_length
      BY <3>1 DEF Kept
    <3>3. m \in Nat
      BY <3>2, BytesOf
    <3> QED
      BY <3>1, <3>2, <3>3
  <2>3. /\ state' = IF m = content_length THEN "handle_request" ELSE "read_post"
        /\ http_status' = http_status /\ keep_alive' = keep_alive
    BY <1>4, <2>1
  <2>4. CASE m = content_length
    <3>1. Open(c, FALSE)
      BY <2>2, <2>4 DEF Open
    <3>2. state' = "handle_request" /\ state' # "read_post"
      BY <2>3, <2>4
    <3>3. keep_alive' \in BOOLEAN /\ http_status' \in {0, 413, 414}
      BY <1>1, <2>3
    <3>4. state' \in {"handle_request", "read_post"}
      BY <3>2
    <3> QED
      <4>1. Fine(t, c, m)
        BY <2>1, <2>2, <2>4, <3>1, <3>2, <3>3, <3>4, Zenon
      <4> HIDE DEF Fine
      <4> QED
        BY <1>5, <4>1, Zenon
  <2>5. CASE m # content_length
    <3>1. Open(c, TRUE)
      BY <2>2, <2>5 DEF Open
    <3>2. m < content_length
      BY <1>1, <2>2, <2>5
    <3>3. state' = "read_post" /\ state' # "handle_request"
      BY <2>3, <2>5
    <3>4. keep_alive' \in BOOLEAN /\ http_status' \in {0, 413, 414}
      BY <1>1, <2>3
    <3>5. state' \in {"handle_request", "read_post"}
      BY <3>3
    <3> QED
      <4>1. Fine(t, c, m)
        BY <2>1, <2>2, <3>1, <3>2, <3>3, <3>4, <3>5, Zenon
      <4> HIDE DEF Fine
      <4> QED
        BY <1>5, <4>1, Zenon
  <2> QED
    BY <2>4, <2>5
<1>7. ASSUME NEW t, NEW c, NEW m, end = Failed(t, c, m), Stops(q, t, c, m)
      PROVE  IInv'
  <2>1. end.queue = t /\ end.content = c /\ end.failed
    BY <1>7, AccIs
  <2>2. Kept(q, t, c, m) /\ Open(c, FALSE)
    BY <1>7 DEF Stops
  <2>3. state' = "handle_request" /\ http_status' = 413 /\ keep_alive' = FALSE
    BY <1>4, <2>1 DEF Refuse
  <2>4. keep_alive' \in BOOLEAN /\ ~keep_alive'
    BY <2>3
  <2>5. /\ http_status' \in {0, 413, 414} /\ http_status' # 0 /\ state' # "read_post"
        /\ state' \in {"handle_request", "read_post"}
    BY <2>3
  <2>6. Fine(t, c, m)
    BY <2>1, <2>2, <2>4, <2>5, Zenon
  <2> HIDE DEF Fine
  <2> QED
    BY <1>5, <2>6, Zenon
<1> QED
  BY <1>3, <1>6, <1>7, Zenon DEF Result

\* At first nothing was sent.
LEMMA NothingSent ==
  ASSUME NEW rs, NEW b, rs = <<>>, b = 0
  PROVE  /\ rs \in Seq(Seq(Byte) \ {<<>>}) /\ Stream(rs) = <<>> /\ Len(Stream(rs)) = 0
         /\ b \in 0..Len(Stream(rs)) /\ Since(rs, b) = <<>>
         /\ <<>> = Cat(<<>>, Cat(Bytes(<<>>), Flat(<<>>))) /\ <<>> \in Seq(Byte)
         /\ Tidy(<<>>) /\ LastReads(<<>>, rs)
         /\ HeaderOK(<<>>, rs, b) /\ Open(<<>>, FALSE) /\ <<>> \in Seq(PartRec)
<1>1. rs \in Seq(Seq(Byte) \ {<<>>}) /\ <<>> \in Seq(Byte) /\ <<>> \in Seq(PartRec) /\ Len(<<>>) = 0
  BY EmptySeq
<1>2. Stream(rs) = <<>>
  BY FlatEmpty DEF Stream
<1>3. Len(Stream(rs)) = 0 /\ b \in 0..Len(Stream(rs))
  BY <1>1, <1>2
<1>4. Since(rs, b) = <<>>
  <2>1. SubSeq(<<>>, 1, 0) = <<>>
    OBVIOUS
  <2> QED
    BY <1>1, <1>2, <2>1 DEF Since
<1>5. Tidy(<<>>)
  BY EmptySeq DEF Tidy, InOrder
<1>6. LastReads(<<>>, rs)
  BY EmptySeq DEF LastReads
<1>7. Flat(<<>>) = <<>>
  <2>1. Rests(<<>>) = <<>>
    <3>1. Rests(<<>>) \in Seq(Seq(Byte)) /\ Len(Rests(<<>>)) = Len(<<>>)
      BY <1>5, TidyChunks
    <3> QED
      BY <1>1, <3>1, EmptySeq
  <2> QED
    BY <1>5, <2>1, TidyChunks, FlatEmpty
<1>8. <<>> = Cat(<<>>, Cat(Bytes(<<>>), Flat(<<>>)))
  BY <1>1, <1>7, NoBytes, Cats
<1>9. HeaderOK(<<>>, rs, b)
  BY DEF HeaderOK
<1>10. Open(<<>>, FALSE)
  BY EmptySeq DEF Open
<1> QED
  BY <1>1, <1>2, <1>3, <1>4, <1>5, <1>6, <1>8, <1>9, <1>10

\* The invariant holds at first.
LEMMA InitIInv == Init => IInv
<1> SUFFICES ASSUME Init
             PROVE  IInv
  OBVIOUS
<1>1. /\ state = "connect" /\ queue = <<>> /\ request = <<>> /\ content = <<>>
      /\ content_length = 0 /\ keep_alive \in BOOLEAN /\ http_status = 0
      /\ reads = <<>> /\ base = 0
  BY DEF Init
<1>2. /\ reads \in Seq(Seq(Byte) \ {<<>>}) /\ Len(Stream(reads)) = 0
      /\ base \in 0..Len(Stream(reads)) /\ Since(reads, base) = <<>>
      /\ <<>> = Cat(<<>>, Cat(Bytes(<<>>), Flat(<<>>))) /\ <<>> \in Seq(Byte)
      /\ Tidy(<<>>) /\ LastReads(<<>>, reads)
      /\ HeaderOK(<<>>, reads, base) /\ Open(<<>>, FALSE) /\ <<>> \in Seq(PartRec)
  <2>1. reads = <<>> /\ base = 0
    BY <1>1
  <2> QED
    BY <2>1, NothingSent
<1>3. Len(Stream(reads)) <= MaxStream
  BY <1>2, ReadAssumption
<1>4. HeaderExact /\ FoundWhenThere
  BY <1>1, <1>2, SameSpread
<1>5. StateOK
  BY <1>1 DEF StateOK
<1>6. state \in States /\ http_status \in {0, 413, 414} /\ content_length \in Lengths \cup {0}
  BY <1>1 DEF States
<1>7. Since(reads, base) = Cat(request, Cat(Bytes(content), Flat(queue)))
  BY <1>1, <1>2, Zenon
<1>8. Tidy(queue) /\ LastReads(queue, reads) /\ request \in Seq(Byte) /\ content \in Seq(PartRec)
  BY <1>1, <1>2, Zenon
<1> QED
  BY <1>1, <1>2, <1>3, <1>4, <1>5, <1>6, <1>7, <1>8, Zenon DEF IInv

\* The connection ends: nothing of its client is left.
LEMMA CloseKeeps ==
  ASSUME IInv, connection_close
  PROVE  IInv'
<1>1. /\ state' = "connect" /\ queue' = <<>> /\ request' = <<>> /\ content' = <<>>
      /\ content_length' = 0 /\ keep_alive' \in BOOLEAN /\ http_status' = 0
      /\ reads' = <<>> /\ base' = 0
  BY DEF connection_close, Reset, IInv
<1>2. /\ reads' \in Seq(Seq(Byte) \ {<<>>}) /\ Len(Stream(reads')) = 0
      /\ base' \in 0..Len(Stream(reads')) /\ Since(reads', base') = <<>>
      /\ <<>> = Cat(<<>>, Cat(Bytes(<<>>), Flat(<<>>))) /\ <<>> \in Seq(Byte)
      /\ Tidy(<<>>) /\ LastReads(<<>>, reads')
      /\ HeaderOK(<<>>, reads', base') /\ <<>> \in Seq(PartRec)
  <2>1. reads' = <<>> /\ base' = 0
    BY <1>1
  <2> QED
    BY <2>1, NothingSent
<1>3. Len(Stream(reads')) <= MaxStream
  BY <1>2, ReadAssumption
<1>4. HeaderExact' /\ FoundWhenThere'
  BY <1>1, <1>2, SameSpread
<1>5. StateOK'
  BY <1>1 DEF StateOK
<1>6. state' \in States /\ http_status' \in {0, 413, 414} /\ content_length' \in Lengths \cup {0}
  BY <1>1 DEF States
<1>7. Since(reads', base') = Cat(request', Cat(Bytes(content'), Flat(queue')))
  BY <1>1, <1>2, Zenon
<1>8. Tidy(queue') /\ LastReads(queue', reads') /\ request' \in Seq(Byte) /\ content' \in Seq(PartRec)
  BY <1>1, <1>2, Zenon
<1> QED
  BY <1>1, <1>2, <1>3, <1>4, <1>5, <1>6, <1>7, <1>8, Zenon DEF IInv

\* A step that leaves the bytes alone.
LEMMA BytesAlone ==
  ASSUME IInv, UNCHANGED <<queue, request, content, reads, base>>,
         state' \in States, state' # "read", content_length' \in Lengths \cup {0},
         keep_alive' \in BOOLEAN, http_status' \in {0, 413, 414}, StateOK'
  PROVE  IInv'
<1>1. /\ queue' = queue /\ request' = request /\ content' = content /\ reads' = reads
      /\ base' = base
  OBVIOUS
<1>2. HeaderOK(request', reads', base')
  BY <1>1, SameSpread, Zenon DEF IInv
<1>3. HeaderExact' /\ FoundWhenThere'
  BY <1>2, SameSpread
<1>4. /\ reads \in Seq(Seq(Byte) \ {<<>>}) /\ Len(Stream(reads)) <= MaxStream
      /\ base \in 0..Len(Stream(reads))
      /\ request \in Seq(Byte) /\ content \in Seq(PartRec)
      /\ Tidy(queue) /\ LastReads(queue, reads)
      /\ Since(reads, base) = Cat(request, Cat(Bytes(content), Flat(queue)))
  BY DEF IInv
<1>5. /\ reads' \in Seq(Seq(Byte) \ {<<>>}) /\ Len(Stream(reads')) <= MaxStream
      /\ base' \in 0..Len(Stream(reads'))
      /\ request' \in Seq(Byte) /\ content' \in Seq(PartRec)
      /\ Tidy(queue') /\ LastReads(queue', reads')
  BY <1>1, <1>4, Zenon
<1>6. Since(reads', base') = Cat(request', Cat(Bytes(content'), Flat(queue')))
  BY <1>1, <1>4, Zenon
<1> QED
  BY <1>3, <1>5, <1>6, Zenon DEF IInv

\* read() fails, the client closed too early: a file may be left open.
LEMMA FailsKeeps ==
  ASSUME IInv, ReadFails
  PROVE  IInv'
<1>1. state' = "error" /\ UNCHANGED <<queue, request, content, content_length, keep_alive, http_status, reads, base>>
  BY DEF ReadFails
<1>2. Left(content)
  <2>1. CASE state = "read_post"
    BY <2>1 DEF IInv, StateOK, Open, Left
  <2>2. CASE ReadsHeader
    <3>1. content = <<>>
      BY <2>2 DEF IInv, StateOK, ReadsHeader
    <3> QED
      BY <3>1, EmptySeq DEF Left
  <2> QED
    BY <2>1, <2>2 DEF ReadFails
<1>3. (Left(content))'
  BY <1>1, <1>2 DEF Left
<1>4. StateOK'
  BY <1>1, <1>3 DEF StateOK
<1>5. /\ content_length \in Lengths \cup {0} /\ keep_alive \in BOOLEAN /\ http_status \in {0, 413, 414}
  BY DEF IInv
<1>6. state' \in States /\ state' # "read"
  BY <1>1 DEF States
<1> QED
  BY <1>1, <1>4, <1>5, <1>6, BytesAlone

\* The header is parsed.
LEMMA ParseKeeps ==
  ASSUME IInv, http_request_parse
  PROVE  IInv'
<1>1. PICK n \in Lengths : /\ content_length' = n /\ keep_alive' \in BOOLEAN
                           /\ state' = IF n > 0 THEN "read_post" ELSE "handle_request"
  BY DEF http_request_parse
<1>2. state = "request_end" /\ UNCHANGED <<queue, request, content, http_status, reads, base>>
  BY DEF http_request_parse
<1>3. content = <<>> /\ Bytes(content) = <<>> /\ Len(Bytes(content)) = 0
  BY <1>2, NoBytes, EmptySeq DEF IInv, StateOK
<1>4. (Bytes(content))' = <<>> /\ (Len(Bytes(content)))' = 0 /\ content' = <<>>
  BY <1>2, <1>3
<1>5. (Open(content, TRUE))' /\ (Open(content, FALSE))' /\ (AllInMemory(content))'
  BY <1>4, EmptySeq DEF Open, AllInMemory
<1>6. n \in Nat
  BY ReadAssumption
<1>7. StateOK'
  <2>1. CASE n > 0
    <3>1. state' = "read_post"
      BY <1>1, <2>1
    <3> QED
      BY <1>1, <1>4, <1>5, <2>1, <3>1 DEF StateOK
  <2>2. CASE n = 0
    <3>1. state' = "handle_request"
      BY <1>1, <2>2
    <3> QED
      BY <1>1, <1>4, <1>5, <2>2, <3>1 DEF StateOK
  <2> QED
    BY <1>6, <2>1, <2>2
<1>8. state' \in States /\ state' # "read" /\ content_length' \in Lengths \cup {0}
  BY <1>1 DEF States
<1>9. http_status' \in {0, 413, 414} /\ keep_alive' \in BOOLEAN
  BY <1>1, <1>2 DEF IInv
<1> QED
  BY <1>2, <1>7, <1>8, <1>9, BytesAlone

\* The next client.
LEMMA AcceptKeeps ==
  ASSUME IInv, connection_accept
  PROVE  IInv'
<1>1. /\ state = "connect" /\ state' = "request_start"
      /\ UNCHANGED <<queue, request, content, content_length, keep_alive, http_status, reads, base>>
  BY DEF connection_accept
<1>2. request' = <<>> /\ content' = <<>>
  BY <1>1 DEF IInv, StateOK
<1>3. StateOK'
  BY <1>1, <1>2 DEF StateOK
<1>4. state' \in States /\ state' # "read"
  BY <1>1 DEF States
<1>5. content_length' \in Lengths \cup {0} /\ keep_alive' \in BOOLEAN /\ http_status' \in {0, 413, 414}
  BY <1>1 DEF IInv
<1> QED
  BY <1>1, <1>3, <1>4, <1>5, BytesAlone

\* The connection is kept: what is queued is the begin of the next request.
LEMMA NextKeeps ==
  ASSUME IInv, NextRequest
  PROVE  IInv'
<1>1. /\ state = "handle_request" /\ keep_alive /\ state' = "request_start"
      /\ base' = base + Len(request) + content_length
      /\ request' = <<>> /\ content' = <<>> /\ content_length' = 0 /\ http_status' = 0
      /\ queue' = queue /\ keep_alive' = keep_alive /\ reads' = reads
  BY DEF NextRequest, Reset
<1>2. Len(Bytes(content)) = content_length
  BY <1>1 DEF IInv, StateOK
<1> DEFINE u == Cat(request, Bytes(content))
           v == Flat(queue)
<1>3. u \in Seq(Byte) /\ v \in Seq(Byte) /\ Len(u) = Len(request) + content_length
      /\ Len(request) \in Nat /\ content_length \in Nat /\ base \in Nat
  <2>1. request \in Seq(Byte) /\ Bytes(content) \in Seq(Byte) /\ v \in Seq(Byte) /\ base \in Nat
        /\ content_length \in Nat
    BY Parts
  <2>2. u \in Seq(Byte) /\ Len(u) = Len(request) + Len(Bytes(content)) /\ Len(request) \in Nat
    BY <2>1, CatFacts
  <2> QED
    BY <1>2, <2>1, <2>2
<1>4. Since(reads, base) = Cat(u, v)
  <2>1. request \in Seq(Byte) /\ Bytes(content) \in Seq(Byte) /\ v \in Seq(Byte)
    BY Parts
  <2>2. Cat(u, v) = Cat(request, Cat(Bytes(content), v))
    BY <2>1, CatAssociative
  <2>3. Since(reads, base) = Cat(request, Cat(Bytes(content), v))
    BY Parts
  <2> QED
    BY <2>2, <2>3, Zenon
<1>5. Stream(reads) \in Seq(Byte) /\ base \in 0..Len(Stream(reads))
  BY Parts DEF IInv
<1> HIDE DEF u, v
<1>6. base + Len(u) \in 0..Len(Stream(reads)) /\ Since(reads, base + Len(u)) = v
  <2>1. u \in Seq(Byte) /\ v \in Seq(Byte)
    BY <1>3
  <2> QED
    BY <1>4, <1>5, <2>1, SinceDone
<1>7. base' = base + Len(u)
  BY <1>1, <1>3
<1>8. base' \in 0..Len(Stream(reads')) /\ Since(reads', base') = v
  BY <1>1, <1>6, <1>7, Zenon
<1>9. v = Cat(request', Cat(Bytes(content'), Flat(queue')))
  <2>1. v = Cat(<<>>, Cat(Bytes(<<>>), v))
    BY <1>3, NoBytes, Cats
  <2> QED
    BY <1>1, <2>1, Zenon DEF v
<1>10. HeaderOK(request', reads', base')
  BY <1>1 DEF HeaderOK
<1>11. HeaderExact' /\ FoundWhenThere'
  BY <1>1, <1>10, SameSpread
<1>12. StateOK'
  BY <1>1 DEF StateOK
<1>13. /\ state' \in States /\ content_length' \in Lengths \cup {0} /\ http_status' \in {0, 413, 414}
       /\ request' \in Seq(Byte) /\ content' \in Seq(PartRec)
  BY <1>1, EmptySeq DEF States
<1>14. /\ reads \in Seq(Seq(Byte) \ {<<>>}) /\ Len(Stream(reads)) <= MaxStream
       /\ Tidy(queue) /\ LastReads(queue, reads) /\ keep_alive \in BOOLEAN
  BY DEF IInv
<1>15. /\ reads' \in Seq(Seq(Byte) \ {<<>>}) /\ Len(Stream(reads')) <= MaxStream
       /\ Tidy(queue') /\ LastReads(queue', reads') /\ keep_alive' \in BOOLEAN
  BY <1>1, <1>14, Zenon
<1> QED
  BY <1>8, <1>9, <1>11, <1>12, <1>13, <1>15, Zenon DEF IInv

\* More reads do not make a header wrong.
LEMMA HeaderMore ==
  ASSUME NEW rs \in Seq(Seq(Byte) \ {<<>>}), NEW p \in Seq(Byte), NEW b, NEW rq, HeaderOK(rq, rs, b)
  PROVE  HeaderOK(rq, Append(rs, p), b)
<1>1. rs \in Seq(Seq(Byte))
  <2>1. Len(rs) \in Nat /\ rs = [i \in 1..Len(rs) |-> rs[i]] /\ \A i \in 1..Len(rs) : rs[i] \in Seq(Byte)
    BY LenProperties, ElementOfSeq
  <2> QED
    BY <2>1
<1>2. \A i : Spread(rs, b, i) => Spread(Append(rs, p), b, i)
  BY <1>1, SpreadMore
<1> QED
  BY <1>2, Zenon DEF HeaderOK

\* A piece that is read is not empty.
LEMMA PieceIs ==
  ASSUME NEW n \in 1..MaxPiece, NEW piece \in [1..n -> Byte]
  PROVE  piece \in Seq(Byte) /\ piece \in Seq(Byte) \ {<<>>} /\ piece # <<>> /\ Len(piece) = n
<1>1. n \in Nat /\ n # 0
  BY ReadAssumption
<1>2. piece \in Seq(Byte) /\ Len(piece) = n
  BY <1>1
<1> QED
  BY <1>1, <1>2, EmptySeq

\* How long the queue is while a header is read.
LEMMA HeaderQueue ==
  ASSUME IInv, ReadsHeader
  PROVE  /\ Since(reads, base) = Flat(queue) /\ Flat(queue) \in Seq(Byte)
         /\ Len(Stream(reads)) = base + Len(Flat(queue))
<1>1. request = <<>> /\ content = <<>> /\ Bytes(<<>>) = <<>>
  BY NoBytes DEF IInv, StateOK, ReadsHeader
<1>2. Flat(queue) \in Seq(Byte) /\ Since(reads, base) = Cat(request, Cat(Bytes(content), Flat(queue)))
  BY Parts
<1>3. Since(reads, base) = Flat(queue)
  BY <1>1, <1>2, Cats, Zenon
<1>4. Stream(reads) \in Seq(Byte) /\ base \in 0..Len(Stream(reads))
  BY Parts DEF IInv
<1>5. Len(Since(reads, base)) = Len(Stream(reads)) - base /\ Len(Stream(reads)) \in Nat /\ base \in Nat
  <2> DEFINE s == Stream(reads)
  <2>1. s \in Seq(Byte) /\ base \in 0..Len(s)
    BY <1>4
  <2> HIDE DEF s
  <2>2. Len(SubSeq(s, base + 1, Len(s))) = Len(s) - base /\ Len(s) \in Nat
    BY <2>1, CutInTwo, LenProperties
  <2>3. base \in Nat
    BY <2>1, <2>2
  <2> QED
    BY <2>2, <2>3 DEF s, Since
<1>6. Len(Flat(queue)) = Len(Stream(reads)) - base
  BY <1>3, <1>5
<1>7. \A x, y, z \in Nat : z = x - y => x = y + z
  OBVIOUS
<1> QED
  <2>1. Len(Flat(queue)) \in Nat
    BY <1>2, LenProperties
  <2>2. Len(Stream(reads)) = base + Len(Flat(queue))
    BY <1>5, <1>6, <1>7, <2>1
  <2> QED
    BY <1>2, <1>3, <2>2

\* read() finds a piece.
LEMMA PieceKeeps ==
  ASSUME IInv, ReadPiece
  PROVE  IInv'
<1>1. PICK n \in 1..MaxPiece : \E piece \in [1..n -> Byte] :
        /\ Len(FlattenSeq(reads)) + n <= MaxStream
        /\ reads' = Append(reads, piece)
        /\ connection_handle_read_state(Append(queue, [mem |-> piece, offset |-> 0]))
  BY DEF ReadPiece
<1>2. PICK piece \in [1..n -> Byte] :
        /\ Len(FlattenSeq(reads)) + n <= MaxStream
        /\ reads' = Append(reads, piece)
        /\ connection_handle_read_state(Append(queue, [mem |-> piece, offset |-> 0]))
  BY <1>1
<1> DEFINE q == Append(queue, [mem |-> piece, offset |-> 0])
           rs == Append(reads, piece)
           s == Since(reads, base)
<1>3. piece \in Seq(Byte) /\ piece \in Seq(Byte) \ {<<>>} /\ piece # <<>> /\ Len(piece) = n
  BY PieceIs
<1>4. /\ reads \in Seq(Seq(Byte) \ {<<>>}) /\ base \in 0..Len(Stream(reads))
      /\ Tidy(queue) /\ LastReads(queue, reads)
  BY DEF IInv
<1>5. WithoutEmpty(q) = q /\ Tidy(q) /\ LastReads(q, rs) /\ Flat(q) = Cat(Flat(queue), piece)
  BY <1>3, <1>4, Arrived
<1>6. /\ rs \in Seq(Seq(Byte) \ {<<>>}) /\ base \in 0..Len(Stream(rs))
      /\ Len(Stream(rs)) = Len(Stream(reads)) + n /\ Since(rs, base) = Cat(s, piece)
  BY <1>3, <1>4, SinceMore
<1>7. Len(Stream(rs)) <= MaxStream
  BY <1>2, <1>6 DEF Stream
<1>8. /\ \/ ReadsHeader /\ ReadHeader(q)
         \/ state = "read_post" /\ ReadContent(q)
      /\ reads' = rs /\ base' = base
  <2>1. connection_handle_read_state(q) /\ reads' = rs /\ base' = base
    BY <1>2 DEF ReadPiece
  <2> HIDE DEF q, rs
  <2> QED
    BY <1>5, <2>1, Zenon DEF connection_handle_read_state
<1> HIDE DEF q, rs, s
<1>9. CASE ReadsHeader /\ ReadHeader(q)
  <2>1. s = Flat(queue) /\ Flat(queue) \in Seq(Byte) /\ Len(Stream(reads)) = base + Len(Flat(queue))
    BY <1>9, HeaderQueue DEF s
  <2>2. Since(rs, base) = Flat(q)
    BY <1>5, <1>6, <2>1, Zenon
  <2>3. Len(Flat(q)) = Len(Flat(queue)) + n /\ Len(Flat(queue)) \in Nat
    <3>1. Len(Cat(Flat(queue), piece)) = Len(Flat(queue)) + Len(piece) /\ Len(Flat(queue)) \in Nat
      BY <1>3, <2>1, CatFacts
    <3> QED
      BY <1>3, <1>5, <3>1
  <2>4. Len(Stream(rs)) = base + Len(Flat(q))
    <3>1. base \in Nat /\ n \in Nat
      BY Parts
    <3> QED
      BY <1>6, <2>1, <2>3, <3>1
  <2>5. state \in {"request_start", "read"}
    BY <1>9 DEF ReadsHeader
  <2> QED
    BY <1>5, <1>6, <1>7, <1>8, <1>9, <2>2, <2>4, <2>5, HeaderStep
<1>10. CASE state = "read_post" /\ ReadContent(q)
  <2> DEFINE c == Bytes(content)
             f == Flat(queue)
  <2>1. request \in Seq(Byte) /\ c \in Seq(Byte) /\ f \in Seq(Byte) /\ s = Cat(request, Cat(c, f))
    BY Parts DEF s
  <2> HIDE DEF c, f
  <2>2. Cat(s, piece) = Cat(request, Cat(c, Cat(f, piece)))
    <3>1. Cat(c, f) \in Seq(Byte)
      BY <2>1, CatFacts
    <3>2. Cat(Cat(request, Cat(c, f)), piece) = Cat(request, Cat(Cat(c, f), piece))
      BY <1>3, <2>1, <3>1, CatAssociative
    <3>3. Cat(Cat(c, f), piece) = Cat(c, Cat(f, piece))
      BY <1>3, <2>1, CatAssociative
    <3> QED
      BY <2>1, <3>2, <3>3, Zenon
  <2>3. Since(rs, base) = Cat(request, Cat(Bytes(content), Flat(q)))
    BY <1>5, <1>6, <2>2, Zenon DEF c, f
  <2>4. HeaderOK(request, rs, base)
    <3>1. HeaderOK(request, reads, base)
      BY SameSpread DEF IInv
    <3> QED
      BY <1>3, <1>4, <3>1, HeaderMore DEF rs
  <2> QED
    BY <1>5, <1>6, <1>7, <1>8, <1>10, <2>3, <2>4, ContentStep
<1> QED
  BY <1>8, <1>9, <1>10

\* Nothing is read: what is queued is looked at again.
LEMMA NothingKeeps ==
  ASSUME IInv, connection_handle_read_state(Append(queue, [mem |-> <<>>, offset |-> 0])),
         UNCHANGED <<reads, base>>
  PROVE  IInv'
<1> DEFINE q == Append(queue, [mem |-> <<>>, offset |-> 0])
<1>1. queue \in Seq(ChunkRec)
  <2>1. Tidy(queue)
    BY DEF IInv
  <2> QED
    BY <2>1, TidyChunks
<1>2. WithoutEmpty(q) = queue
  BY <1>1, NothingArrived
<1>3. connection_handle_read_state(q)
  OBVIOUS
<1> HIDE DEF q
<1>4. \/ ReadsHeader /\ ReadHeader(queue)
      \/ state = "read_post" /\ ReadContent(queue)
  BY <1>2, <1>3, Zenon DEF connection_handle_read_state
<1>5. /\ reads \in Seq(Seq(Byte) \ {<<>>}) /\ base \in 0..Len(Stream(reads))
      /\ Len(Stream(reads)) <= MaxStream
      /\ Tidy(queue) /\ LastReads(queue, reads) /\ reads' = reads /\ base' = base
  BY DEF IInv
<1>6. CASE ReadsHeader /\ ReadHeader(queue)
  <2>1. Since(reads, base) = Flat(queue) /\ Len(Stream(reads)) = base + Len(Flat(queue))
    BY <1>6, HeaderQueue
  <2>2. state \in {"request_start", "read"}
    BY <1>6 DEF ReadsHeader
  <2> QED
    BY <1>5, <1>6, <2>1, <2>2, HeaderStep
<1>7. CASE state = "read_post" /\ ReadContent(queue)
  <2>1. Since(reads, base) = Cat(request, Cat(Bytes(content), Flat(queue)))
    BY Parts
  <2>2. HeaderOK(request, reads, base)
    BY SameSpread DEF IInv
  <2> QED
    BY <1>5, <1>7, <2>1, <2>2, ContentStep
<1> QED
  BY <1>4, <1>6, <1>7

\* Every step keeps the invariant.
LEMMA StepIInv == IInv /\ [Next]_vars => IInv'
<1> SUFFICES ASSUME IInv, [Next]_vars
             PROVE  IInv'
  OBVIOUS
<1>1. CASE ReadPiece
  BY <1>1, PieceKeeps
<1>2. CASE ReadNothing
  BY <1>2, NothingKeeps DEF ReadNothing
<1>3. CASE ReadEnd
  BY <1>3, NothingKeeps DEF ReadEnd
<1>4. CASE ReadFails
  BY <1>4, FailsKeeps
<1>5. CASE http_request_parse
  BY <1>5, ParseKeeps
<1>6. CASE NextRequest
  BY <1>6, NextKeeps
<1>7. CASE connection_close
  BY <1>7, CloseKeeps
<1>8. CASE connection_accept
  BY <1>8, AcceptKeeps
<1>9. CASE UNCHANGED vars
  <2>1. /\ UNCHANGED <<queue, request, content, reads, base>> /\ state' = state
        /\ content_length' = content_length /\ keep_alive' = keep_alive /\ http_status' = http_status
    BY <1>9 DEF vars
  <2>2. StateOK' <=> StateOK
    BY <2>1, Zenon DEF StateOK, Open, AllInMemory, Left
  <2>3. /\ HeaderExact' <=> HeaderExact
        /\ FoundWhenThere' <=> FoundWhenThere
    BY <2>1, SameSpread, Zenon
  <2>4. (LastReads(queue, reads))' <=> LastReads(queue, reads)
    BY <2>1, Zenon
  <2>5. (Since(reads, base) = Cat(request, Cat(Bytes(content), Flat(queue))))'
    BY <2>1, Zenon DEF IInv
  <2>6. /\ (Tidy(queue))' <=> Tidy(queue)
        /\ (Stream(reads))' = Stream(reads)
    BY <2>1, Zenon
  <2> QED
    BY <2>1, <2>2, <2>3, <2>4, <2>5, <2>6, Zenon DEF IInv
<1> QED
  BY <1>1, <1>2, <1>3, <1>4, <1>5, <1>6, <1>7, <1>8, <1>9 DEF Next

\* It is an invariant.
LEMMA IInvHolds == Spec => []IInv
BY InitIInv, StepIInv, PTL DEF Spec

-----------------------------------------------------------------------------
(* What it says.                                                           *)

\* Every byte of the client is used once.
LEMMA NoneLost == IInv => NothingLost
<1> SUFFICES ASSUME IInv
             PROVE  NothingLost
  OBVIOUS
<1>1. TypeOK
  <2>1. Tidy(queue)
    BY DEF IInv
  <2>2. \A k \in DOMAIN queue : queue[k].offset \in 0..Len(queue[k].mem)
    <3>1. /\ DOMAIN queue = 1..Len(queue)
          /\ \A k \in 1..Len(queue) : queue[k] \in ChunkRec /\ queue[k].offset <= Len(queue[k].mem)
      BY <2>1, TidyChunks
    <3>2. ASSUME NEW k \in DOMAIN queue
          PROVE  queue[k].offset \in 0..Len(queue[k].mem)
      <4>1. queue[k] \in ChunkRec /\ queue[k].offset <= Len(queue[k].mem)
        BY <3>1
      <4>2. queue[k].offset \in Nat /\ queue[k].mem \in Seq(Byte)
        BY <4>1 DEF ChunkRec
      <4>3. Len(queue[k].mem) \in Nat
        BY <4>2, LenProperties
      <4> QED
        BY <4>1, <4>2, <4>3
    <3> QED
      BY <3>2
  <2>3. base \in 0..MaxStream
    <3>1. base \in Nat /\ Len(Stream(reads)) \in Nat
      BY Parts, LenProperties
    <3>2. base \in 0..Len(Stream(reads)) /\ Len(Stream(reads)) <= MaxStream
      BY DEF IInv
    <3> QED
      BY <3>1, <3>2, ReadAssumption
  <2>4. /\ state \in States /\ content_length \in Lengths \cup {0} /\ keep_alive \in BOOLEAN
        /\ http_status \in {0, 413, 414}
    BY DEF IInv
  <2> QED
    BY <2>2, <2>3, <2>4, Zenon DEF TypeOK, States
<1>2. SubSeq(FlattenSeq(reads), base + 1, Len(FlattenSeq(reads)))
        = (request \o Bytes(content)) \o Flat(queue)
  <2>1. /\ Since(reads, base) = Cat(request, Cat(Bytes(content), Flat(queue)))
        /\ request \in Seq(Byte) /\ Bytes(content) \in Seq(Byte) /\ Flat(queue) \in Seq(Byte)
    BY Parts
  <2>2. Cat(Cat(request, Bytes(content)), Flat(queue)) = Cat(request, Cat(Bytes(content), Flat(queue)))
    BY <2>1, CatAssociative
  <2>3. Since(reads, base) = (request \o Bytes(content)) \o Flat(queue)
    BY <2>1, <2>2, Zenon DEF Cat
  <2> QED
    BY <2>3, Zenon DEF Since, Stream
<1> QED
  BY <1>1, <1>2, Zenon DEF NothingLost

\* A file that is open is the last one, and the content is still read.
LEMMA FilesClosed == IInv => TempfilesClosed
<1> SUFFICES ASSUME IInv, NEW k \in DOMAIN content, content[k].file
             PROVE  /\ content[k].fd => k = Len(content) /\ state \in {"read_post", "error"}
                    /\ state = "read_post" /\ k = Len(content) => content[k].fd
  BY Zenon DEF TempfilesClosed
<1>1. state \in {"read_post", "handle_request", "error"}
  <2>1. content # <<>>
    BY EmptySeq
  <2> QED
    BY <2>1 DEF IInv, StateOK
<1>2. CASE state = "read_post"
  BY <1>2 DEF IInv, StateOK, Open
<1>3. CASE state = "handle_request"
  BY <1>3 DEF IInv, StateOK, Open
<1>4. CASE state = "error"
  BY <1>4 DEF IInv, StateOK, Left
<1> QED
  BY <1>1, <1>2, <1>3, <1>4

\* A content that is handled is complete.
LEMMA ContentComplete == IInv => ContentExact
BY DEF IInv, StateOK, ContentExact

-----------------------------------------------------------------------------
(* The theorems.                                                           *)

\* Whatever the pieces in which the bytes of a client arrive, and whatever
\* fails: what it sent since its last request is the header, the content and
\* what is queued, in this order, nothing twice and nothing left of an earlier
\* client (connections.c:994-1014, 1025-1140 and 1572).
THEOREM NothingIsLost == Spec => []NothingLost
<1>1. Spec => []IInv
  BY IInvHolds
<1>2. IInv => NothingLost
  BY NoneLost
<1> QED
  BY <1>1, <1>2, PTL

\* A header that is parsed ends with an empty line and holds no other one,
\* except one whose four bytes came in more than two reads: the copy of the
\* chunks (connections.c:994-1014) ends where the search (936-988) found it.
THEOREM HeadersAreExact == Spec => []HeaderExact
<1>1. Spec => []IInv
  BY IInvHolds
<1>2. IInv => HeaderExact
  BY DEF IInv
<1> QED
  BY <1>1, <1>2, PTL

\* The search over the chunks (connections.c:936-988) misses no end of a
\* header but one that came in more than two reads: otherwise no connection
\* waits in CON_STATE_READ with a whole header in its queue.
THEOREM EndsAreFound == Spec => []FoundWhenThere
<1>1. Spec => []IInv
  BY IInvHolds
<1>2. IInv => FoundWhenThere
  BY DEF IInv
<1> QED
  BY <1>1, <1>2, PTL

\* A request that was not refused is handled with exactly as many bytes of
\* content as its Content-Length says (connections.c:1025-1140).
THEOREM ContentsAreExact == Spec => []ContentExact
<1>1. Spec => []IInv
  BY IInvHolds
<1>2. IInv => ContentExact
  BY ContentComplete
<1> QED
  BY <1>1, <1>2, PTL

\* Only the last temporary file of an upload is open, it is open whenever more
\* of the content is to come, and no file of a request that is handled is,
\* refused or not (connections.c:1040-1123).
THEOREM TempfilesAreClosed == Spec => []TempfilesClosed
<1>1. Spec => []IInv
  BY IInvHolds
<1>2. IInv => TempfilesClosed
  BY FilesClosed
<1> QED
  BY <1>1, <1>2, PTL

=============================================================================
