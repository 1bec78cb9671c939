---------------------------- MODULE UploadProofs ----------------------------
(***************************************************************************)
(* What a backend gets of a request is right, for every content, every way *)
(* it is divided into chunks, every length of a record and every piece a   *)
(* write takes.  The queue hctx->wb is one sequence of tokens in pieces:   *)
(* it is built record by record and written from its head, and what was    *)
(* written and what is queued are together always the same stream.         *)
(***************************************************************************)
EXTENDS Upload, Pieces

-----------------------------------------------------------------------------
(* Types and the invariant. *)

Token == {"params", "stdin", "data"} \X Nat
ChunkRec == [type : {"mem", "file"}, tokens : Seq(Token), offset : Nat, name : Int,
             is_temp : BOOLEAN]
PartRec == [type : {"mem", "file"}, from : Nat, to : Nat]

\* The chunks of a content of n bytes: one after the other, all of a type.
Divided(cq, n) ==
  /\ cq \in Seq(PartRec) /\ Len(cq) > 0 /\ cq[1].from = 0 /\ cq[Len(cq)].to = n
  /\ \A k \in 1..Len(cq) : cq[k].from < cq[k].to /\ cq[k].type = cq[1].type
  /\ \A k \in 1..Len(cq) - 1 : cq[k].to = cq[k + 1].from

IsData(t) == t[1] = "data"
IsStdin(t) == t[1] = "stdin"

\* A stream as far as it was written: the parameters, then records of which at
\* most the last one is not complete, and the bytes of a content of n in order.
Begun(s, n) ==
  /\ s \in Seq(Token)
  /\ 1 \in 1..Len(s) => s[1] = Params
  /\ 2 \in 1..Len(s) => IsStdin(s[2])
  /\ \A i \in 1..Len(s) : i > 1 => IsStdin(s[i]) \/ IsData(s[i])
  /\ \A i \in 1..Len(s) : IsStdin(s[i]) =>
       /\ s[i][2] <= FCGI_MAX_LENGTH
       /\ \A j \in 1..Len(s) : i < j /\ j <= i + s[i][2] => IsData(s[j])
       /\ \A j \in 1..Len(s) : j = i + s[i][2] + 1 => IsStdin(s[j]) /\ s[i][2] > 0
  /\ \A i, j \in 1..Len(s) : i < j /\ IsData(s[i]) /\ IsData(s[j]) => s[i][2] < s[j][2]
  /\ \A i \in 1..Len(s) : IsData(s[i]) =>
       /\ s[i][2] \in 1..n
       /\ s[i][2] > 1 => \E j \in 1..Len(s) : j < i /\ s[j] = <<"data", s[i][2] - 1>>

\* All of the first m bytes are in it.
Holds(s, m) == \A x \in 1..m : \E i \in 1..Len(s) : s[i] = <<"data", x>>

\* A stream between two records, after m bytes.
Stream(s, m, n) ==
  /\ Begun(s, n) /\ Len(s) > 0 /\ Holds(s, m)
  /\ \A i \in 1..Len(s) : IsData(s[i]) => s[i][2] <= m
  /\ \A i \in 1..Len(s) : IsStdin(s[i]) => s[i][2] > 0 /\ i + s[i][2] <= Len(s)

\* A complete stream.
Full(s, n) == Begun(s, n) /\ Len(s) > 0 /\ s[Len(s)] = Stdin(0) /\ Holds(s, n)

\* After the chunk that unlinks a file no other refers to it.
LastNamed(q) ==
  \A j, k \in DOMAIN q : j < k /\ q[j].is_temp /\ q[k].type = "file" => q[j].name # q[k].name

QueueOK(q) ==
  /\ q \in Seq(ChunkRec)
  /\ \A k \in 1..Len(q) : q[k].offset <= Len(q[k].tokens) /\ (q[k].is_temp => q[k].type = "file")

\* Each file belongs to a chunk of the content or to one that was not written.
FilesOwned ==
  \A f \in files : \/ \E k \in DOMAIN req_cq : req_cq[k].type = "file" /\ req_cq[k].from = f
                   \/ \E k \in DOMAIN wb : wb[k].is_temp /\ wb[k].name = f

\* What is left of the content: all of it before the first attempt, nothing after.
ContentThere ==
  /\ req_cq # <<>> =>
       /\ Divided(req_cq, content_length) /\ content_length > 0
       /\ pc = "INIT" /\ wb = <<>> /\ reconnects = 0
       /\ \A k \in DOMAIN req_cq : req_cq[k].type = "file" => req_cq[k].from \in files
  /\ pc = "INIT" /\ reconnects = 0 =>
       sent = <<>> /\ wb = <<>> /\ (req_cq = <<>> => content_length = 0)

\* The inductive invariant.
IInv ==
  /\ content_length \in 0..MaxContent /\ pc \in {"INIT", "WRITE", "READ", "gone", "crash"}
  /\ reconnects \in Nat /\ sent \in Seq(Token)
  /\ QueueOK(wb) /\ LastNamed(wb) /\ FilesThere
  /\ pc \in {"READ", "gone"} => wb = <<>>
  /\ ContentThere
  /\ pc \in {"INIT", "WRITE", "READ"} => FilesOwned
  /\ reconnects = 0 => Begun(sent, content_length)
  /\ reconnects = 0 /\ pc \in {"WRITE", "READ"} => Full(Cat(sent, Queued(wb)), content_length)

-----------------------------------------------------------------------------
(* Streams.                                                                *)

\* The fields of a token.
LEMMA Tokens ==
  /\ Params \in Token /\ ~IsData(Params) /\ ~IsStdin(Params)
  /\ \A n \in Nat : /\ Stdin(n) \in Token /\ Stdin(n)[2] = n
                    /\ IsStdin(Stdin(n)) /\ ~IsData(Stdin(n))
  /\ \A n \in Nat : /\ <<"data", n>> \in Token /\ <<"data", n>>[2] = n
                    /\ IsData(<<"data", n>>) /\ ~IsStdin(<<"data", n>>)
  /\ \A t \in Token : /\ t[2] \in Nat /\ (IsData(t) => t = <<"data", t[2]>> /\ ~IsStdin(t))
                      /\ ~IsData(t) /\ ~IsStdin(t) => t[1] = "params"
BY DEF Params, Stdin, Token, IsData, IsStdin

\* c is x and then y.
Joined(c, x, y) ==
  /\ c \in Seq(Token) /\ Len(x) \in Nat /\ Len(y) \in Nat /\ Len(c) = Len(x) + Len(y)
  /\ \A i \in 1..Len(x) : c[i] = x[i]
  /\ \A i \in 1..Len(y) : c[Len(x) + i] = y[i]

LEMMA TokensJoined ==
  ASSUME NEW x \in Seq(Token), NEW y \in Seq(Token)
  PROVE  Joined(Cat(x, y), x, y)
<1>1. Cat(x, y) \in Seq(Token) /\ Len(x) \in Nat /\ Len(y) \in Nat /\ Len(Cat(x, y)) = Len(x) + Len(y)
  BY CatFacts
<1>2. \A i \in 1..Len(x) : Cat(x, y)[i] = x[i]
  BY CatFacts
<1>3. \A i \in 1..Len(y) : Cat(x, y)[Len(x) + i] = y[i]
  BY CatFacts
<1> QED
  BY <1>1, <1>2, <1>3, Zenon DEF Joined

\* The bytes after a up to b.
LEMMA DataIs ==
  ASSUME NEW a \in Nat, NEW b \in Nat, a <= b
  PROVE  /\ Data(a, b) \in Seq(Token) /\ Len(Data(a, b)) = b - a /\ b - a \in Nat
         /\ \A i \in 1..b - a : Data(a, b)[i] = <<"data", a + i>>
<1>1. b - a \in Nat /\ \A i \in 1..b - a : a + i \in Nat
  OBVIOUS
<1>2. \A i \in 1..b - a : <<"data", a + i>> \in Token
  BY <1>1, Tokens
<1> DEFINE n == b - a
           d == [i \in 1..n |-> <<"data", a + i>>]
<1>3. Data(a, b) = d
  BY DEF Data
<1>4. \A i \in 1..n : d[i] \in Token /\ d[i] = <<"data", a + i>>
  BY <1>2
<1>5. n \in Nat /\ d = [i \in 1..n |-> d[i]]
  BY <1>1
<1> HIDE DEF d, n
<1>6. d \in Seq(Token) /\ Len(d) = n
  BY <1>4, <1>5
<1> QED
  BY <1>3, <1>4, <1>5, <1>6, Zenon DEF n

LEMMA DataNone ==
  ASSUME NEW a \in Nat
  PROVE  Data(a, a) = <<>>
<1>1. Data(a, a) \in Seq(Token) /\ Len(Data(a, a)) = 0
  BY DataIs
<1> QED
  BY <1>1, EmptySeq

\* The bytes up to b and the ones after b.
LEMMA DataJoin ==
  ASSUME NEW a \in Nat, NEW b \in Nat, NEW c \in Nat, a <= b, b <= c
  PROVE  Cat(Data(a, b), Data(b, c)) = Data(a, c)
<1> DEFINE x == Data(a, b)
           y == Data(b, c)
           z == Data(a, c)
<1>1. /\ x \in Seq(Token) /\ Len(x) = b - a /\ b - a \in Nat
      /\ \A i \in 1..b - a : x[i] = <<"data", a + i>>
  BY DataIs
<1>2. /\ y \in Seq(Token) /\ Len(y) = c - b /\ c - b \in Nat
      /\ \A i \in 1..c - b : y[i] = <<"data", b + i>>
  BY DataIs
<1>3. a <= c /\ z \in Seq(Token) /\ Len(z) = c - a /\ c - a \in Nat
      /\ \A i \in 1..c - a : z[i] = <<"data", a + i>>
  BY DataIs, SMTT(40)
<1> HIDE DEF x, y, z
<1>4. Joined(Cat(x, y), x, y)
  BY <1>1, <1>2, TokensJoined
<1>5. Len(Cat(x, y)) = Len(z)
  BY <1>1, <1>2, <1>3, <1>4 DEF Joined
<1>6. ASSUME NEW i \in 1..Len(z)
      PROVE  Cat(x, y)[i] = z[i]
  <2>1. i \in 1..c - a
    BY <1>3
  <2>2. CASE i <= b - a
    <3>1. i \in 1..b - a
      BY <2>1, <2>2
    <3> QED
      BY <1>1, <1>3, <1>4, <2>1, <3>1 DEF Joined
  <2>3. CASE ~(i <= b - a)
    <3>1. i - (b - a) \in 1..c - b /\ (b - a) + (i - (b - a)) = i /\ b + (i - (b - a)) = a + i
      BY <2>1, <2>3
    <3>2. Cat(x, y)[i] = y[i - (b - a)]
      BY <1>1, <1>2, <1>4, <3>1 DEF Joined
    <3> QED
      BY <1>2, <1>3, <2>1, <3>1, <3>2
  <2> QED
    BY <2>2, <2>3
<1>7. Cat(x, y) \in Seq(Token)
  BY <1>4 DEF Joined
<1>8. Cat(x, y) = z
  BY <1>3, <1>5, <1>6, <1>7, SeqEqual
<1> QED
  BY <1>8, Zenon DEF x, y, z

\* The part of a stream that was written is a stream.
LEMMA BegunPrefix ==
  ASSUME NEW x \in Seq(Token), NEW y \in Seq(Token), NEW n, Begun(Cat(x, y), n)
  PROVE  Begun(x, n)
<1> DEFINE c == Cat(x, y)
           N == Len(x)
<1>1. N \in Nat /\ \A i \in 1..N : i \in 1..Len(c) /\ c[i] = x[i]
  <2>1. Joined(c, x, y)
    BY TokensJoined
  <2> HIDE DEF c
  <2>2. N \in Nat /\ Len(y) \in Nat /\ Len(c) = N + Len(y)
    BY <2>1 DEF Joined
  <2>3. \A i \in 1..N : c[i] = x[i]
    BY <2>1 DEF Joined
  <2> QED
    BY <2>2, <2>3
<1>2. Begun(c, n)
  OBVIOUS
<1> HIDE DEF c, N
<1>3. 1 \in 1..N => x[1] = Params
  BY <1>1, <1>2 DEF Begun
<1>4. 2 \in 1..N => IsStdin(x[2])
  BY <1>1, <1>2 DEF Begun
<1>5. \A i \in 1..N : i > 1 => IsStdin(x[i]) \/ IsData(x[i])
  BY <1>1, <1>2 DEF Begun
<1>6. ASSUME NEW i \in 1..N, IsStdin(x[i])
      PROVE  /\ x[i][2] <= FCGI_MAX_LENGTH
             /\ \A j \in 1..N : i < j /\ j <= i + x[i][2] => IsData(x[j])
             /\ \A j \in 1..N : j = i + x[i][2] + 1 => IsStdin(x[j]) /\ x[i][2] > 0
  <2>1. c[i] = x[i] /\ i \in 1..Len(c)
    BY <1>1
  <2>2. /\ x[i][2] <= FCGI_MAX_LENGTH
        /\ \A j \in 1..Len(c) : i < j /\ j <= i + x[i][2] => IsData(c[j])
        /\ \A j \in 1..Len(c) : j = i + x[i][2] + 1 => IsStdin(c[j]) /\ x[i][2] > 0
    BY <1>2, <1>6, <2>1 DEF Begun
  <2> QED
    BY <1>1, <2>2
<1>7. ASSUME NEW i \in 1..N, NEW j \in 1..N, i < j, IsData(x[i]), IsData(x[j])
      PROVE  x[i][2] < x[j][2]
  <2>1. c[i] = x[i] /\ i \in 1..Len(c) /\ c[j] = x[j] /\ j \in 1..Len(c)
    BY <1>1
  <2> QED
    BY <1>2, <1>7, <2>1 DEF Begun
<1>8. ASSUME NEW i \in 1..N, IsData(x[i])
      PROVE  /\ x[i][2] \in 1..n
             /\ x[i][2] > 1 => \E j \in 1..N : j < i /\ x[j] = <<"data", x[i][2] - 1>>
  <2>1. c[i] = x[i] /\ i \in 1..Len(c)
    BY <1>1
  <2>2. /\ x[i][2] \in 1..n
        /\ x[i][2] > 1 => \E j \in 1..Len(c) : j < i /\ c[j] = <<"data", x[i][2] - 1>>
    BY <1>2, <1>8, <2>1 DEF Begun
  <2>3. ASSUME x[i][2] > 1
        PROVE  \E j \in 1..N : j < i /\ x[j] = <<"data", x[i][2] - 1>>
    <3>1. PICK j \in 1..Len(c) : j < i /\ c[j] = <<"data", x[i][2] - 1>>
      BY <2>2, <2>3
    <3>2. j \in 1..N
      BY <1>1, <3>1
    <3> QED
      BY <1>1, <3>1, <3>2
  <2> QED
    BY <2>2, <2>3
<1> QED
  BY <1>3, <1>4, <1>5, <1>6, <1>7, <1>8, Zenon DEF Begun, N

\* A stream begins with the parameters.
LEMMA StreamBegins ==
  ASSUME NEW n \in Nat
  PROVE  Stream(<<Params>>, 0, n)
<1> DEFINE s == <<Params>>
<1>1. s \in Seq(Token) /\ Len(s) = 1 /\ s[1] = Params
  BY Tokens
<1> HIDE DEF s
<1>2. \A i \in 1..Len(s) : i = 1 /\ ~IsData(s[i]) /\ ~IsStdin(s[i])
  BY <1>1, Tokens
<1>3. Begun(s, n)
  <2>1. ~(2 \in 1..Len(s)) /\ \A i \in 1..Len(s) : ~(i > 1)
    BY <1>1
  <2> QED
    BY <1>1, <1>2, <2>1, Zenon DEF Begun
<1>4. Holds(s, 0)
  BY DEF Holds
<1> QED
  BY <1>1, <1>2, <1>3, <1>4 DEF Stream, s

\* A record is added to a stream.
LEMMA StreamGrows ==
  ASSUME NEW m \in Nat, NEW n \in Nat, NEW t, Stream(t, m, n),
         NEW k \in 1..FCGI_MAX_LENGTH, m + k <= n,
         NEW r \in Seq(Token), Len(r) = k + 1, r[1] = Stdin(k),
         \A i \in 1..k : r[1 + i] = <<"data", m + i>>
  PROVE  Stream(Cat(t, r), m + k, n)
<1> DEFINE u == Cat(t, r)
           L == Len(t)
<1>0. FCGI_MAX_LENGTH \in Nat /\ k \in Nat /\ k > 0
  BY LengthAssumption
<1>1. t \in Seq(Token) /\ L \in Nat /\ L > 0 /\ Begun(t, n) /\ \A i \in 1..L : t[i] \in Token
  BY LenProperties, ElementOfSeq DEF Stream, Begun
<1>2. Joined(u, t, r)
  BY <1>1, TokensJoined
<1> HIDE DEF u, L
<1>3. u \in Seq(Token) /\ Len(u) = L + k + 1 /\ \A i \in 1..L : u[i] = t[i]
  BY <1>1, <1>2 DEF Joined, L
<1>old. \A i \in 1..L : i \in 1..Len(u) /\ u[i] = t[i]
  BY <1>0, <1>1, <1>3, SMTT(40)
<1>4. u[L + 1] = Stdin(k)
  <2>1. 1 \in 1..Len(r)
    BY <1>0
  <2> QED
    BY <1>2, <2>1 DEF Joined, L
<1>5. ASSUME NEW i \in L + 2..L + k + 1
      PROVE  u[i] = <<"data", m + (i - L - 1)>> /\ i - L - 1 \in 1..k
  <2>1. i - L - 1 \in 1..k /\ 1 + (i - L - 1) \in 1..Len(r) /\ L + (1 + (i - L - 1)) = i
    BY <1>0, <1>1
  <2>2. u[L + (1 + (i - L - 1))] = r[1 + (i - L - 1)]
    BY <1>2, <2>1 DEF Joined, L
  <2> QED
    BY <2>1, <2>2
<1>6. /\ IsStdin(u[L + 1]) /\ ~IsData(u[L + 1]) /\ u[L + 1][2] = k
      /\ \A i \in L + 2..L + k + 1 : /\ IsData(u[i]) /\ ~IsStdin(u[i])
                                     /\ u[i][2] = m + (i - L - 1) /\ u[i][2] \in m + 1..m + k
  <2>1. IsStdin(u[L + 1]) /\ ~IsData(u[L + 1]) /\ u[L + 1][2] = k
    BY <1>0, <1>4, Tokens
  <2>2. ASSUME NEW i \in L + 2..L + k + 1
        PROVE  /\ IsData(u[i]) /\ ~IsStdin(u[i])
               /\ u[i][2] = m + (i - L - 1) /\ u[i][2] \in m + 1..m + k
    <3>1. u[i] = <<"data", m + (i - L - 1)>> /\ i - L - 1 \in 1..k
      BY <1>5
    <3>2. m + (i - L - 1) \in Nat /\ m + (i - L - 1) \in m + 1..m + k
      BY <1>0, <3>1
    <3>3. IsData(u[i]) /\ ~IsStdin(u[i]) /\ u[i][2] = m + (i - L - 1)
      BY <3>1, <3>2, Tokens
    <3> QED
      BY <3>2, <3>3
  <2> QED
    BY <2>1, <2>2
<1>7. ASSUME NEW i \in 1..Len(u)
      PROVE  i \in 1..L \/ i = L + 1 \/ i \in L + 2..L + k + 1
  BY <1>0, <1>1, <1>3
<1>8. /\ \A i \in 1..L : IsStdin(t[i]) => t[i][2] \in Nat /\ t[i][2] > 0 /\ i + t[i][2] <= L
      /\ \A i \in 1..L : IsData(t[i]) => t[i][2] \in Nat /\ t[i][2] <= m
      /\ Holds(t, m)
  BY <1>1, Tokens DEF Stream, L
<1>9. u[1] = Params
  <2>1. 1 \in 1..L
    BY <1>1
  <2> QED
    BY <1>1, <1>3, <2>1 DEF Begun, L
<1>10. IsStdin(u[2])
  <2>1. 2 \in 1..L \/ 2 = L + 1
    BY <1>1
  <2>2. CASE 2 \in 1..L
    BY <1>1, <1>3, <2>2 DEF Begun, L
  <2>3. CASE 2 = L + 1
    BY <1>6, <2>3, Zenon
  <2> QED
    BY <2>1, <2>2, <2>3
<1>11. ASSUME NEW i \in 1..Len(u), i > 1
       PROVE  IsStdin(u[i]) \/ IsData(u[i])
  <2>1. CASE i \in 1..L
    BY <1>1, <1>3, <1>11, <2>1 DEF Begun, L
  <2> QED
    BY <1>6, <1>7, <2>1
<1>12. ASSUME NEW i \in 1..Len(u), IsStdin(u[i])
       PROVE  /\ u[i][2] <= FCGI_MAX_LENGTH
              /\ \A j \in 1..Len(u) : i < j /\ j <= i + u[i][2] => IsData(u[j])
              /\ \A j \in 1..Len(u) : j = i + u[i][2] + 1 => IsStdin(u[j]) /\ u[i][2] > 0
              /\ u[i][2] > 0 /\ i + u[i][2] <= Len(u)
  <2>1. CASE i \in 1..L
    <3>1. u[i] = t[i] /\ IsStdin(t[i]) /\ t[i][2] \in Nat /\ t[i][2] > 0 /\ i + t[i][2] <= L
      BY <1>3, <1>8, <1>12, <2>1
    <3>2. /\ t[i][2] <= FCGI_MAX_LENGTH
          /\ \A j \in 1..L : i < j /\ j <= i + t[i][2] => IsData(t[j])
          /\ \A j \in 1..L : j = i + t[i][2] + 1 => IsStdin(t[j])
      BY <1>1, <2>1, <3>1 DEF Begun, L
    <3>3. ASSUME NEW j \in 1..Len(u), i < j, j <= i + t[i][2]
          PROVE  IsData(u[j])
      <4>1. j \in 1..L
        BY <1>1, <2>1, <3>1, <3>3, SMTT(40)
      <4> QED
        BY <1>3, <3>2, <3>3, <4>1
    <3>4. ASSUME NEW j \in 1..Len(u), j = i + t[i][2] + 1
          PROVE  IsStdin(u[j])
      <4>1. j \in 1..L \/ j = L + 1
        <5>1. \A a, b, c \in Nat : a > 0 /\ a + b <= c => a + b + 1 \in 1..c \/ a + b + 1 = c + 1
          BY SMTT(40)
        <5>2. i \in Nat /\ i > 0
          BY <2>1
        <5> QED
          BY <1>1, <3>1, <3>4, <5>1, <5>2
      <4>2. CASE j \in 1..L
        BY <1>3, <3>2, <3>4, <4>2
      <4> QED
        BY <1>6, <4>1, <4>2
    <3>5. i + t[i][2] <= Len(u)
      BY <1>0, <1>1, <1>3, <2>1, <3>1, SMTT(40)
    <3> QED
      BY <3>1, <3>2, <3>3, <3>4, <3>5
  <2>2. CASE i = L + 1
    <3>1. u[i][2] = k
      BY <1>6, <2>2
    <3>2. \A j \in 1..Len(u) : i < j /\ j <= i + k => j \in L + 2..L + k + 1
      BY <1>0, <1>1, <2>2
    <3>3. \A j \in 1..Len(u) : ~(j = i + k + 1)
      BY <1>0, <1>1, <1>3, <2>2
    <3>4. k <= FCGI_MAX_LENGTH /\ k > 0 /\ i + k <= Len(u)
      BY <1>0, <1>1, <1>3, <2>2, SMTT(40)
    <3> QED
      BY <1>6, <3>1, <3>2, <3>3, <3>4
  <2>3. CASE i \in L + 2..L + k + 1
    BY <1>6, <1>12, <2>3
  <2> QED
    BY <1>7, <2>1, <2>2, <2>3
<1>13. ASSUME NEW i \in 1..Len(u), NEW j \in 1..Len(u), i < j, IsData(u[i]), IsData(u[j])
       PROVE  u[i][2] < u[j][2]
  <2>1. i # L + 1 /\ j # L + 1
    BY <1>6, <1>13
  <2>2. CASE j \in 1..L
    <3>1. i \in 1..L
      BY <1>1, <1>13, <2>2
    <3>2. u[i] = t[i] /\ u[j] = t[j]
      BY <1>3, <2>2, <3>1
    <3> QED
      BY <1>1, <1>13, <2>2, <3>1, <3>2 DEF Begun, L
  <2>3. CASE i \in 1..L /\ j \in L + 2..L + k + 1
    <3>1. u[i][2] \in Nat /\ u[i][2] <= m /\ u[j][2] \in m + 1..m + k
      BY <1>3, <1>6, <1>8, <1>13, <2>3
    <3> QED
      BY <3>1
  <2>4. CASE i \in L + 2..L + k + 1 /\ j \in L + 2..L + k + 1
    <3>1. u[i][2] = m + (i - L - 1) /\ u[j][2] = m + (j - L - 1)
      BY <1>6, <2>4
    <3> QED
      BY <1>1, <1>13, <3>1
  <2>5. ~(i \in L + 2..L + k + 1 /\ j \in 1..L)
    BY <1>1, <1>13
  <2> QED
    BY <1>7, <2>1, <2>2, <2>3, <2>4, <2>5
<1>14. ASSUME NEW i \in 1..Len(u), IsData(u[i])
       PROVE  /\ u[i][2] \in 1..n /\ u[i][2] <= m + k
              /\ u[i][2] > 1 => \E j \in 1..Len(u) : j < i /\ u[j] = <<"data", u[i][2] - 1>>
  <2>1. CASE i \in 1..L
    <3>1. u[i] = t[i] /\ t[i][2] \in Nat /\ t[i][2] <= m
      BY <1>3, <1>8, <1>14, <2>1
    <3>2. /\ t[i][2] \in 1..n
          /\ t[i][2] > 1 => \E j \in 1..L : j < i /\ t[j] = <<"data", t[i][2] - 1>>
      BY <1>1, <1>14, <2>1, <3>1 DEF Begun, L
    <3>3. ASSUME t[i][2] > 1
          PROVE  \E j \in 1..Len(u) : j < i /\ u[j] = <<"data", t[i][2] - 1>>
      <4>1. PICK j \in 1..L : j < i /\ t[j] = <<"data", t[i][2] - 1>>
        BY <3>2, <3>3
      <4>2. j \in 1..Len(u) /\ u[j] = t[j]
        BY <1>old
      <4> QED
        BY <4>1, <4>2
    <3>4. t[i][2] <= m + k
      BY <1>0, <3>1
    <3> QED
      BY <3>1, <3>2, <3>3, <3>4
  <2>2. CASE i \in L + 2..L + k + 1
    <3>1. u[i][2] = m + (i - L - 1) /\ i - L - 1 \in 1..k /\ u[i][2] \in m + 1..m + k
      BY <1>5, <1>6, <2>2
    <3>2. u[i][2] \in 1..n /\ u[i][2] <= m + k
      BY <1>0, <3>1
    <3>3. ASSUME u[i][2] > 1
          PROVE  \E j \in 1..Len(u) : j < i /\ u[j] = <<"data", u[i][2] - 1>>
      <4>1. CASE i = L + 2
        <5>1. u[i][2] - 1 = m /\ m \in 1..m
          BY <1>1, <3>1, <3>3, <4>1
        <5>2. PICK j \in 1..L : t[j] = <<"data", m>>
          BY <1>8, <5>1 DEF Holds, L
        <5>3. j \in 1..Len(u) /\ j < i /\ u[j] = t[j]
          BY <1>0, <1>1, <1>3, <4>1
        <5> QED
          BY <5>1, <5>2, <5>3
      <4>2. CASE i # L + 2
        <5>1. i - 1 \in L + 2..L + k + 1 /\ i - 1 \in 1..Len(u) /\ i - 1 < i
          BY <1>0, <1>1, <1>3, <2>2, <4>2
        <5>2. u[i - 1] = <<"data", m + (i - 1 - L - 1)>>
          BY <1>5, <5>1
        <5>3. m + (i - 1 - L - 1) = u[i][2] - 1
          BY <1>1, <3>1
        <5> QED
          BY <5>1, <5>2, <5>3
      <4> QED
        BY <4>1, <4>2
    <3> QED
      BY <3>2, <3>3
  <2> QED
    BY <1>6, <1>7, <1>14, <2>1, <2>2
<1>15. Holds(u, m + k)
  <2> SUFFICES ASSUME NEW x \in 1..m + k
               PROVE  \E i \in 1..Len(u) : u[i] = <<"data", x>>
    BY DEF Holds
  <2>1. CASE x <= m
    <3>1. x \in 1..m
      BY <1>0, <2>1
    <3>2. PICK i \in 1..L : t[i] = <<"data", x>>
      BY <1>8, <3>1 DEF Holds, L
    <3>3. i \in 1..Len(u) /\ u[i] = t[i]
      BY <1>old
    <3> QED
      BY <3>2, <3>3
  <2>2. CASE ~(x <= m)
    <3> DEFINE i == L + 1 + (x - m)
    <3>1. i \in L + 2..L + k + 1 /\ i \in 1..Len(u) /\ m + (i - L - 1) = x
      BY <1>0, <1>1, <1>3, <2>2
    <3> HIDE DEF i
    <3>2. u[i] = <<"data", x>>
      BY <1>5, <3>1
    <3> QED
      BY <3>1, <3>2
  <2> QED
    BY <2>1, <2>2
<1>16. Begun(u, n)
  BY <1>3, <1>9, <1>10, <1>11, <1>12, <1>13, <1>14, Zenon DEF Begun
<1>17. Len(u) > 0
  BY <1>0, <1>1, <1>3
<1> QED
  BY <1>12, <1>14, <1>15, <1>16, <1>17, Zenon DEF Stream, u

\* The empty record ends it.
LEMMA StreamEnds ==
  ASSUME NEW n \in Nat, NEW t, Stream(t, n, n)
  PROVE  Full(Cat(t, <<Stdin(0)>>), n)
<1> DEFINE r == <<Stdin(0)>>
           u == Cat(t, r)
           L == Len(t)
<1>1. t \in Seq(Token) /\ L \in Nat /\ L > 0 /\ Begun(t, n) /\ \A i \in 1..L : t[i] \in Token
  BY LenProperties, ElementOfSeq DEF Stream, Begun
<1>2. r \in Seq(Token) /\ Len(r) = 1 /\ r[1] = Stdin(0)
  BY Tokens
<1> HIDE DEF r
<1>3. Joined(u, t, r)
  BY <1>1, <1>2, TokensJoined
<1> HIDE DEF u, L
<1>4. /\ u \in Seq(Token) /\ Len(u) = L + 1 /\ u[L + 1] = Stdin(0)
      /\ \A i \in 1..L : i \in 1..Len(u) /\ u[i] = t[i]
      /\ \A i \in 1..Len(u) : i \in 1..L \/ i = L + 1
  <2>1. u \in Seq(Token) /\ Len(u) = L + 1 /\ \A i \in 1..L : u[i] = t[i]
    BY <1>1, <1>2, <1>3 DEF Joined, L
  <2>2. u[L + 1] = Stdin(0)
    <3>1. 1 \in 1..Len(r)
      BY <1>2
    <3> QED
      BY <1>2, <1>3, <3>1 DEF Joined, L
  <2> QED
    BY <1>1, <2>1, <2>2
<1>5. /\ IsStdin(u[L + 1]) /\ ~IsData(u[L + 1]) /\ u[L + 1][2] = 0
      /\ \A i \in 1..L : IsStdin(t[i]) => t[i][2] \in Nat /\ t[i][2] > 0 /\ i + t[i][2] <= L
  BY <1>1, <1>4, Tokens DEF Stream, L
<1>6. u[1] = Params
  <2>1. 1 \in 1..L
    BY <1>1
  <2> QED
    BY <1>1, <1>4, <2>1 DEF Begun, L
<1>7. IsStdin(u[2])
  <2>1. 2 \in 1..L \/ 2 = L + 1
    BY <1>1
  <2>2. CASE 2 \in 1..L
    BY <1>1, <1>4, <2>2 DEF Begun, L
  <2>3. CASE 2 = L + 1
    BY <1>5, <2>3, Zenon
  <2> QED
    BY <2>1, <2>2, <2>3
<1>8. ASSUME NEW i \in 1..Len(u), i > 1
      PROVE  IsStdin(u[i]) \/ IsData(u[i])
  <2>1. CASE i \in 1..L
    BY <1>1, <1>4, <1>8, <2>1 DEF Begun, L
  <2> QED
    BY <1>4, <1>5, <2>1
<1>9. ASSUME NEW i \in 1..Len(u), IsStdin(u[i])
      PROVE  /\ u[i][2] <= FCGI_MAX_LENGTH
             /\ \A j \in 1..Len(u) : i < j /\ j <= i + u[i][2] => IsData(u[j])
             /\ \A j \in 1..Len(u) : j = i + u[i][2] + 1 => IsStdin(u[j]) /\ u[i][2] > 0
  <2>1. CASE i \in 1..L
    <3>1. u[i] = t[i] /\ IsStdin(t[i]) /\ t[i][2] \in Nat /\ t[i][2] > 0 /\ i + t[i][2] <= L
      BY <1>4, <1>5, <1>9, <2>1
    <3>2. /\ t[i][2] <= FCGI_MAX_LENGTH
          /\ \A j \in 1..L : i < j /\ j <= i + t[i][2] => IsData(t[j])
          /\ \A j \in 1..L : j = i + t[i][2] + 1 => IsStdin(t[j])
      BY <1>1, <2>1, <3>1 DEF Begun, L
    <3>3. ASSUME NEW j \in 1..Len(u), i < j, j <= i + t[i][2]
          PROVE  IsData(u[j])
      <4>1. j \in 1..L
        BY <1>1, <2>1, <3>1, <3>3
      <4> QED
        BY <1>4, <3>2, <3>3, <4>1
    <3>4. ASSUME NEW j \in 1..Len(u), j = i + t[i][2] + 1
          PROVE  IsStdin(u[j])
      <4>1. CASE j \in 1..L
        BY <1>4, <3>2, <3>4, <4>1
      <4> QED
        BY <1>4, <1>5, <4>1
    <3> QED
      BY <3>1, <3>2, <3>3, <3>4
  <2>2. CASE i = L + 1
    <3>1. u[i][2] = 0
      BY <1>5, <2>2
    <3>2. \A j \in 1..Len(u) : ~(i < j /\ j <= i + 0) /\ ~(j = i + 0 + 1)
      BY <1>1, <1>4, <2>2
    <3>3. 0 <= FCGI_MAX_LENGTH
      BY LengthAssumption
    <3> QED
      BY <3>1, <3>2, <3>3
  <2> QED
    BY <1>4, <2>1, <2>2
<1>10. ASSUME NEW i \in 1..Len(u), IsData(u[i])
       PROVE  i \in 1..L /\ u[i] = t[i]
  BY <1>4, <1>5, <1>10
<1>11. ASSUME NEW i \in 1..Len(u), NEW j \in 1..Len(u), i < j, IsData(u[i]), IsData(u[j])
       PROVE  u[i][2] < u[j][2]
  <2>1. i \in 1..L /\ u[i] = t[i] /\ j \in 1..L /\ u[j] = t[j]
    BY <1>10, <1>11
  <2> QED
    BY <1>1, <1>11, <2>1 DEF Begun, L
<1>12. ASSUME NEW i \in 1..Len(u), IsData(u[i])
       PROVE  /\ u[i][2] \in 1..n
              /\ u[i][2] > 1 => \E j \in 1..Len(u) : j < i /\ u[j] = <<"data", u[i][2] - 1>>
  <2>1. i \in 1..L /\ u[i] = t[i]
    BY <1>10, <1>12
  <2>2. /\ t[i][2] \in 1..n
        /\ t[i][2] > 1 => \E j \in 1..L : j < i /\ t[j] = <<"data", t[i][2] - 1>>
    BY <1>1, <1>12, <2>1 DEF Begun, L
  <2>3. ASSUME t[i][2] > 1
        PROVE  \E j \in 1..Len(u) : j < i /\ u[j] = <<"data", t[i][2] - 1>>
    <3>1. PICK j \in 1..L : j < i /\ t[j] = <<"data", t[i][2] - 1>>
      BY <2>2, <2>3
    <3> QED
      BY <1>4, <3>1
  <2> QED
    BY <2>1, <2>2, <2>3
<1>13. Begun(u, n)
  BY <1>4, <1>6, <1>7, <1>8, <1>9, <1>11, <1>12, Zenon DEF Begun
<1>14. Holds(u, n)
  <2> SUFFICES ASSUME NEW x \in 1..n
               PROVE  \E i \in 1..Len(u) : u[i] = <<"data", x>>
    BY DEF Holds
  <2>1. PICK i \in 1..L : t[i] = <<"data", x>>
    BY DEF Stream, Holds, L
  <2> QED
    BY <1>4, <2>1
<1>15. Len(u) > 0 /\ u[Len(u)] = Stdin(0)
  BY <1>1, <1>4
<1> QED
  BY <1>13, <1>14, <1>15, Zenon DEF Full, u, r

\* A set of numbers that holds with each its predecessor.
LEMMA DownClosed ==
  ASSUME NEW n \in Nat, NEW S \in SUBSET (1..n), \A x \in S : x > 1 => x - 1 \in S
  PROVE  \E m \in 0..n : S = 1..m
<1> DEFINE R == (1..n) \ S
<1>1. CASE R = {}
  <2>1. \A x \in 1..n : x \in S
    BY <1>1
  <2>2. S = 1..n
    BY <2>1, Zenon
  <2>3. n \in 0..n
    OBVIOUS
  <2> QED
    BY <2>2, <2>3
<1>2. CASE R # {}
  <2>1. R \subseteq Nat
    OBVIOUS
  <2>2. PICK k \in R : \A j \in R : k <= j
    BY <1>2, <2>1, Least
  <2>3. k \in 1..n /\ k \notin S
    BY <2>2
  <2> DEFINE T == {y \in Nat : k + y \notin S}
  <2>4. 0 \in T
    BY <2>3
  <2>5. ASSUME NEW y \in Nat, y \in T
        PROVE  y + 1 \in T
    <3>1. k + (y + 1) > 1 /\ (k + (y + 1)) - 1 = k + y
      BY <2>3
    <3>2. k + y \notin S
      BY <2>5
    <3>3. k + (y + 1) \notin S
      BY <3>1, <3>2
    <3> QED
      BY <3>3
  <2> HIDE DEF T
  <2>6. \A y \in Nat : y \in T
    BY <2>4, <2>5, SetInduction
  <2>7. ASSUME NEW x \in S
        PROVE  x \in 1..k - 1
    <3>1. x \in 1..n
      OBVIOUS
    <3>2. CASE x >= k
      <4>1. x - k \in Nat /\ k + (x - k) = x
        BY <2>3, <3>1, <3>2
      <4>2. k + (x - k) \notin S
        BY <2>6, <4>1 DEF T
      <4> QED
        BY <4>1, <4>2
    <3> QED
      BY <2>3, <3>1, <3>2
  <2>8. ASSUME NEW x \in 1..k - 1
        PROVE  x \in S
    <3>1. x \in 1..n /\ ~(k <= x)
      BY <2>3
    <3> QED
      BY <2>2, <3>1
  <2>9. S = 1..k - 1
    BY <2>7, <2>8, Zenon
  <2>10. k - 1 \in 0..n
    BY <2>3
  <2> QED
    BY <2>9, <2>10
<1> QED
  BY <1>1, <1>2

\* Headers and payload of a stream.
LEMMA Parts ==
  ASSUME NEW s \in Seq(Token)
  PROVE  /\ Len(s) \in Nat /\ DOMAIN s = 1..Len(s) /\ \A i \in 1..Len(s) : s[i] \in Token
         /\ \A i : i \in Headers(s) <=> i \in 1..Len(s) /\ ~IsData(s[i])
         /\ \A i : i \in Payload(s) <=> i \in 1..Len(s) /\ IsData(s[i])
<1>1. Len(s) \in Nat /\ DOMAIN s = 1..Len(s) /\ \A i \in 1..Len(s) : s[i] \in Token
  BY LenProperties, ElementOfSeq
<1> QED
  BY <1>1, Zenon DEF Headers, Payload, IsData

\* What follows a header before the next one.
LEMMA EndIs ==
  ASSUME NEW s \in Seq(Token), NEW n, Begun(s, n), NEW i \in Headers(s)
  PROVE  /\ i = 1 => s[i] = Params /\ EndOf(s, i) = 1
         /\ i # 1 => /\ IsStdin(s[i]) /\ s[i][2] <= FCGI_MAX_LENGTH
                     /\ EndOf(s, i) - i <= s[i][2]
                     /\ EndOf(s, i) < Len(s) => EndOf(s, i) - i = s[i][2] /\ s[i][2] > 0
<1> DEFINE N == Len(s)
           H == Headers(s)
           After == {j \in H : j > i}
           e == EndOf(s, i)
<1>1. /\ N \in Nat /\ i \in 1..N /\ ~IsData(s[i])
      /\ \A j : j \in H <=> j \in 1..N /\ ~IsData(s[j])
      /\ \A j \in 1..N : IsStdin(s[j]) => ~IsData(s[j]) /\ s[j][2] \in Nat
  BY Parts, Tokens
<1>2. After = {} => e = N
  BY DEF EndOf
<1>3. ASSUME After # {}
      PROVE  \E j \in After : e = j - 1 /\ \A k \in After : j <= k
  <2> DEFINE Q(j) == j > i /\ \A k \in H : k > i => j <= k
  <2>1. After \subseteq Nat
    BY <1>1
  <2>2. PICK j \in After : \A k \in After : j <= k
    BY <1>3, <2>1, Least
  <2>3. j \in H /\ Q(j)
    BY <2>2
  <2>4. (CHOOSE k \in H : Q(k)) \in H /\ Q(CHOOSE k \in H : Q(k))
    BY <2>3, Zenon
  <2>5. e = (CHOOSE k \in H : Q(k)) - 1
    BY <2>3, Zenon DEF EndOf
  <2> DEFINE d == CHOOSE k \in H : Q(k)
  <2>6. d \in After /\ (\A k \in After : d <= k) /\ e = d - 1
    BY <2>4, <2>5
  <2> HIDE DEF d
  <2> QED
    BY <2>6
<1> HIDE DEF e, H
<1>4. ASSUME i = 1
      PROVE  s[i] = Params /\ e = 1
  <2>1. 1 \in 1..N
    BY <1>1
  <2>2. s[1] = Params
    BY <2>1 DEF Begun
  <2>3. CASE N = 1
    <3>1. After = {}
      BY <1>1, <1>4, <2>3
    <3> QED
      BY <1>2, <1>4, <2>2, <2>3, <3>1
  <2>4. CASE N # 1
    <3>1. 2 \in 1..N
      <4>1. N \in Nat /\ N # 0
        BY <1>1, <2>1
      <4> HIDE DEF N
      <4> QED
        BY <2>4, <4>1
    <3>2. IsStdin(s[2])
      BY <3>1 DEF Begun
    <3>3. 2 \in After
      BY <1>1, <1>4, <3>1, <3>2
    <3>4. PICK j \in After : e = j - 1 /\ \A k \in After : j <= k
      BY <1>3, <3>3
    <3>5. j <= 2 /\ j \in Nat /\ j > 1
      BY <1>1, <1>4, <3>3, <3>4
    <3> QED
      BY <1>4, <2>2, <3>4, <3>5
  <2> QED
    BY <2>3, <2>4
<1>5. ASSUME i # 1
      PROVE  /\ IsStdin(s[i]) /\ s[i][2] <= FCGI_MAX_LENGTH
             /\ e - i <= s[i][2]
             /\ e < N => e - i = s[i][2] /\ s[i][2] > 0
  <2> DEFINE l == s[i][2]
  <2>1. i > 1
    BY <1>1, <1>5
  <2>2. IsStdin(s[i]) /\ l \in Nat
    BY <1>1, <2>1 DEF Begun
  <2>3. /\ l <= FCGI_MAX_LENGTH
        /\ \A j \in 1..N : i < j /\ j <= i + l => IsData(s[j])
        /\ \A j \in 1..N : j = i + l + 1 => IsStdin(s[j]) /\ l > 0
    BY <1>1, <2>2 DEF Begun
  <2> HIDE DEF l, N
  <2>4. i + l + 1 \in 1..N => i + l + 1 \in After /\ l > 0
    <3> SUFFICES ASSUME i + l + 1 \in 1..N
                 PROVE  i + l + 1 \in After /\ l > 0
      OBVIOUS
    <3>1. IsStdin(s[i + l + 1]) /\ l > 0
      BY <2>3
    <3>2. i + l + 1 \in H
      BY <1>1, <3>1
    <3>3. i + l + 1 > i
      BY <1>1, <2>2
    <3> QED
      BY <3>1, <3>2, <3>3
  <2> SUFFICES e - i <= l /\ (e < N => e - i = l /\ l > 0)
    BY <2>2, <2>3 DEF l, N
  <2>5. CASE After = {}
    <3>1. e = N /\ ~(i + l + 1 \in 1..N)
      BY <1>2, <2>4, <2>5
    <3>2. N - i <= l
      BY <1>1, <2>2, <3>1
    <3>3. ~(e < N)
      BY <1>1, <3>1
    <3> QED
      BY <3>1, <3>2, <3>3
  <2>6. CASE After # {}
    <3>1. PICK j \in After : e = j - 1 /\ \A k \in After : j <= k
      BY <1>3, <2>6
    <3>2. j \in 1..N /\ j > i /\ ~IsData(s[j])
      BY <1>1, <3>1
    <3>3. ~(j <= i + l)
      BY <2>3, <3>2
    <3>4. i + l + 1 \in 1..N
      BY <1>1, <2>2, <3>2, <3>3
    <3>5. j = i + l + 1 /\ l > 0
      BY <1>1, <2>2, <2>4, <3>1, <3>2, <3>3, <3>4
    <3>6. e - i = l
      BY <1>1, <2>2, <3>1, <3>5
    <3> QED
      BY <2>2, <3>5, <3>6
  <2> QED
    BY <2>5, <2>6
<1> QED
  BY <1>4, <1>5, Zenon DEF e, N

\* The numbers of the bytes in a stream.
LEMMA NumbersAre ==
  ASSUME NEW s \in Seq(Token), NEW n \in Nat, Begun(s, n)
  PROVE  /\ \A i, j \in Payload(s) : i < j => s[i][2] < s[j][2]
         /\ \E m \in 0..n : Numbers(s) = 1..m
         /\ Holds(s, n) => Numbers(s) = 1..n
<1>1. /\ Len(s) \in Nat /\ \A i \in 1..Len(s) : s[i] \in Token
      /\ \A i : i \in Payload(s) <=> i \in 1..Len(s) /\ IsData(s[i])
  BY Parts
<1>2. \A i, j \in Payload(s) : i < j => s[i][2] < s[j][2]
  BY <1>1 DEF Begun
<1>3. \A x : x \in Numbers(s) <=> \E i \in Payload(s) : x = s[i][2]
  BY DEF Numbers
<1>4. \A i \in Payload(s) : s[i][2] \in 1..n
  BY <1>1 DEF Begun
<1>5. ASSUME NEW x \in Nat, NEW i \in 1..Len(s), s[i] = <<"data", x>>
      PROVE  x \in Numbers(s)
  <2>1. i \in Payload(s) /\ s[i][2] = x
    BY <1>1, <1>5, Tokens, ZenonT(40)
  <2> QED
    BY <1>3, <2>1
<1>6. Numbers(s) \in SUBSET (1..n)
  BY <1>3, <1>4
<1>7. ASSUME NEW x \in Numbers(s), x > 1
      PROVE  x - 1 \in Numbers(s)
  <2>1. PICK i \in Payload(s) : x = s[i][2]
    BY <1>3
  <2>2. i \in 1..Len(s) /\ IsData(s[i])
    BY <1>1
  <2>3. PICK j \in 1..Len(s) : s[j] = <<"data", x - 1>>
    BY <1>7, <2>1, <2>2 DEF Begun
  <2>4. x - 1 \in Nat
    BY <1>6, <1>7
  <2> QED
    BY <1>5, <2>3, <2>4
<1>8. \E m \in 0..n : Numbers(s) = 1..m
  BY <1>6, <1>7, DownClosed
<1>9. ASSUME Holds(s, n)
      PROVE  Numbers(s) = 1..n
  <2>1. ASSUME NEW x \in 1..n
        PROVE  x \in Numbers(s)
    <3>1. PICK i \in 1..Len(s) : s[i] = <<"data", x>>
      BY <1>9 DEF Holds
    <3> QED
      BY <1>5, <3>1
  <2> QED
    BY <1>6, <2>1, Zenon
<1> QED
  BY <1>2, <1>8, <1>9

-----------------------------------------------------------------------------
(* Writing.                                                                *)

\* What is left of s after n tokens.
Drop(s, n) == SubSeq(s, n + 1, Len(s))

LEMMA Dropped ==
  ASSUME NEW s \in Seq(Token), NEW n \in Nat
  PROVE  /\ Drop(s, n) \in Seq(Token) /\ Len(s) \in Nat
         /\ Len(Drop(s, n)) = MaxOf(0, Len(s) - n) /\ Len(Drop(s, n)) \in Nat
         /\ \A i \in 1..Len(Drop(s, n)) : Drop(s, n)[i] = s[n + i] /\ n + i \in 1..Len(s)
<1> DEFINE r == Drop(s, n)
<1>1. Len(s) \in Nat
  BY LenProperties
<1>2. CASE n <= Len(s)
  <2>1. n \in 0..Len(s)
    BY <1>1, <1>2
  <2>2. r \in Seq(Token) /\ Len(r) = Len(s) - n /\ \A i \in 1..Len(s) - n : r[i] = s[n + i]
    BY <1>1, <2>1, CutInTwo DEF Drop
  <2>3. MaxOf(0, Len(s) - n) = Len(s) - n /\ Len(s) - n \in Nat
    BY <1>1, <1>2 DEF MaxOf
  <2>4. \A i \in 1..Len(s) - n : n + i \in 1..Len(s)
    BY <1>1, <1>2
  <2> HIDE DEF r
  <2> QED
    BY <1>1, <2>2, <2>3, <2>4 DEF r
<1>3. CASE ~(n <= Len(s))
  <2>1. n + 1 > Len(s)
    BY <1>1, <1>3
  <2>2. r = <<>>
    BY <1>1, <2>1, SubSeqEmpty DEF Drop
  <2>3. MaxOf(0, Len(s) - n) = 0
    BY <1>1, <1>3 DEF MaxOf
  <2>4. r \in Seq(Token) /\ Len(r) = 0
    BY <2>2, EmptySeq
  <2> HIDE DEF r
  <2> QED
    BY <1>1, <2>3, <2>4 DEF r
<1> QED
  BY <1>2, <1>3

\* ... when s is two parts.
LEMMA DropOver ==
  ASSUME NEW x \in Seq(Token), NEW y \in Seq(Token), NEW n \in Nat,
         NEW d, d = MinOf(Len(y), MaxOf(0, n - Len(x)))
  PROVE  Drop(Cat(x, y), n) = Cat(Drop(x, n), Drop(y, d)) /\ d \in 0..Len(y)
<1> DEFINE c == Cat(x, y)
           u == Drop(x, n)
           v == Drop(y, d)
           z == Drop(c, n)
           w == Cat(u, v)
           a == Len(x)
           b == Len(y)
<1>1. Joined(c, x, y)
  BY TokensJoined
<1>2. c \in Seq(Token) /\ a \in Nat /\ b \in Nat /\ Len(c) = a + b
  BY <1>1 DEF Joined
<1> HIDE DEF a, b
<1>3. d \in 0..b /\ d \in Nat
  BY <1>2 DEF MinOf, MaxOf, a, b
<1>4. /\ u \in Seq(Token) /\ Len(u) = MaxOf(0, a - n) /\ Len(u) \in Nat
      /\ \A i \in 1..Len(u) : u[i] = x[n + i] /\ n + i \in 1..a
  BY Dropped DEF a
<1>5. /\ v \in Seq(Token) /\ Len(v) = MaxOf(0, b - d) /\ Len(v) \in Nat
      /\ \A i \in 1..Len(v) : v[i] = y[d + i] /\ d + i \in 1..b
  BY <1>3, Dropped DEF b
<1>6. /\ z \in Seq(Token) /\ Len(z) = MaxOf(0, (a + b) - n) /\ Len(z) \in Nat
      /\ \A i \in 1..Len(z) : z[i] = c[n + i] /\ n + i \in 1..a + b
  <2>1. /\ z \in Seq(Token) /\ Len(z) = MaxOf(0, Len(c) - n) /\ Len(z) \in Nat
        /\ \A i \in 1..Len(z) : z[i] = c[n + i] /\ n + i \in 1..Len(c)
    BY <1>2, Dropped
  <2> HIDE DEF z, c
  <2> QED
    BY <1>2, <2>1
<1> HIDE DEF c, u, v, z
<1>7. Joined(w, u, v)
  BY <1>4, <1>5, TokensJoined
<1> HIDE DEF w
<1>8. w \in Seq(Token) /\ Len(w) = Len(u) + Len(v)
  BY <1>7 DEF Joined
<1>9. d = MinOf(b, MaxOf(0, n - a))
  BY DEF a, b
<1>two. a \in Nat /\ b \in Nat /\ d \in Nat /\ d = MinOf(b, MaxOf(0, n - a))
  BY <1>2, <1>3, <1>9
<1>10. Len(z) = Len(w)
  <2>1. MaxOf(0, (a + b) - n) = MaxOf(0, a - n) + MaxOf(0, b - d)
    <3>1. CASE n <= a
      <4>1. d = 0 /\ MaxOf(0, (a + b) - n) = (a + b) - n /\ MaxOf(0, a - n) = a - n /\ MaxOf(0, b) = b
        BY <1>two, <3>1 DEF MinOf, MaxOf
      <4> QED
        BY <1>two, <4>1
    <3>2. CASE ~(n <= a) /\ n - a <= b
      <4>1. d = n - a /\ MaxOf(0, (a + b) - n) = (a + b) - n /\ MaxOf(0, a - n) = 0
            /\ MaxOf(0, b - (n - a)) = b - (n - a)
        BY <1>two, <3>2 DEF MinOf, MaxOf
      <4> QED
        BY <1>two, <4>1, SMTT(40)
    <3>3. CASE ~(n <= a) /\ ~(n - a <= b)
      <4>1. d = b /\ MaxOf(0, (a + b) - n) = 0 /\ MaxOf(0, a - n) = 0 /\ MaxOf(0, b - b) = 0
        BY <1>two, <3>3 DEF MinOf, MaxOf
      <4> QED
        BY <4>1
    <3> QED
      BY <3>1, <3>2, <3>3
  <2> QED
    BY <1>4, <1>5, <1>6, <1>8, <2>1
<1>11. ASSUME NEW i \in 1..Len(z)
       PROVE  z[i] = w[i]
  <2>1. z[i] = c[n + i] /\ n + i \in 1..a + b
    BY <1>6
  <2>2. CASE i <= Len(u)
    <3>1. i \in 1..Len(u)
      BY <1>4, <2>2
    <3>2. w[i] = u[i] /\ u[i] = x[n + i] /\ n + i \in 1..a
      BY <1>4, <1>7, <3>1 DEF Joined
    <3>3. c[n + i] = x[n + i]
      BY <1>1, <3>2 DEF Joined, a
    <3> QED
      BY <2>1, <3>2, <3>3
  <2>3. CASE ~(i <= Len(u))
    <3> DEFINE j == i - Len(u)
    <3>1. j \in 1..Len(v) /\ Len(u) + j = i
      BY <1>4, <1>5, <1>8, <1>10, <2>3
    <3> HIDE DEF j
    <3>2. w[i] = v[j] /\ v[j] = y[d + j] /\ d + j \in 1..b
      BY <1>5, <1>7, <3>1 DEF Joined
    <3>3. a + (d + j) = n + i
      <4>1. i \in 1..MaxOf(0, (a + b) - n) /\ i > MaxOf(0, a - n) /\ j = i - MaxOf(0, a - n)
        BY <1>4, <1>6, <2>3 DEF j
      <4>2. \A k \in 1..MaxOf(0, (a + b) - n) :
              k > MaxOf(0, a - n) => a + (d + (k - MaxOf(0, a - n))) = n + k
        BY <1>two DEF MinOf, MaxOf
      <4> QED
        BY <4>1, <4>2, Zenon
    <3>4. c[a + (d + j)] = y[d + j]
      BY <1>1, <3>2 DEF Joined, a, b
    <3> QED
      BY <2>1, <3>2, <3>3, <3>4
  <2> QED
    BY <2>2, <2>3
<1>12. z = w
  BY <1>6, <1>8, <1>10, <1>11, SeqEqual
<1> QED
  BY <1>3, <1>12, Zenon DEF z, w, c, u, v, b

\* ... when s is in pieces, of each of which what n reaches is dropped.
LEMMA FlatDropped ==
  ASSUME NEW p \in Seq(Seq(Token)), NEW r \in Seq(Seq(Token)), Len(r) = Len(p), NEW n \in Nat,
         \A k \in 1..Len(p) :
           r[k] = Drop(p[k], MinOf(Len(p[k]), MaxOf(0, n - Upto(p, k - 1))))
  PROVE  FlattenSeq(r) = Drop(FlattenSeq(p), n)
<1> DEFINE P(k) == FlattenSeq(SubSeq(p, 1, k))
           R(k) == FlattenSeq(SubSeq(r, 1, k))
           T == {k \in Nat : k <= Len(p) => R(k) = Drop(P(k), n)}
<1>1. Len(p) \in Nat
  BY LenProperties
<1>2. 0 \in T
  <2>1. P(0) = <<>> /\ R(0) = <<>>
    <3>1. SubSeq(p, 1, 0) = <<>> /\ SubSeq(r, 1, 0) = <<>>
      BY SubSeqEmpty
    <3> QED
      BY <3>1, FlatEmpty, Zenon
  <2>2. Drop(<<>>, n) = <<>>
    <3>1. <<>> \in Seq(Token) /\ Len(<<>>) = 0
      BY EmptySeq
    <3>2. Drop(<<>>, n) \in Seq(Token) /\ Len(Drop(<<>>, n)) = MaxOf(0, 0 - n)
      BY <3>1, Dropped
    <3>3. MaxOf(0, 0 - n) = 0
      BY DEF MaxOf
    <3> QED
      BY <3>2, <3>3, EmptySeq
  <2> QED
    BY <2>1, <2>2
<1>3. ASSUME NEW k \in Nat, k \in T
      PROVE  k + 1 \in T
  <2> SUFFICES ASSUME k + 1 <= Len(p)
               PROVE  R(k + 1) = Drop(P(k + 1), n)
    OBVIOUS
  <2> DEFINE x == P(k)
             y == p[k + 1]
             d == MinOf(Len(y), MaxOf(0, n - Len(x)))
             u == R(k)
             v == r[k + 1]
  <2>1. k < Len(p) /\ k < Len(r) /\ k + 1 \in 1..Len(p) /\ k + 1 \in 1..Len(r) /\ (k + 1) - 1 = k
    BY <1>1
  <2>2. y \in Seq(Token) /\ v \in Seq(Token)
    BY <2>1, ElementOfSeq
  <2>3. u = Drop(x, n)
    BY <1>3, <2>1
  <2>4. v = Drop(y, d)
    BY <2>1 DEF Upto
  <2>5. x \in Seq(Token) /\ P(k + 1) = x \o y
    <3>1. /\ SubSeq(p, 1, k) \in Seq(Seq(Token))
          /\ SubSeq(p, 1, k + 1) = Append(SubSeq(p, 1, k), p[k + 1])
      BY <2>1, TakeNext
    <3> QED
      BY <2>2, <3>1, FlatAppend
  <2>6. R(k + 1) = u \o v
    <3>1. /\ SubSeq(r, 1, k) \in Seq(Seq(Token))
          /\ SubSeq(r, 1, k + 1) = Append(SubSeq(r, 1, k), r[k + 1])
      BY <2>1, TakeNext
    <3> QED
      BY <2>2, <3>1, FlatAppend
  <2> HIDE DEF x, y, u, v, d
  <2>7. P(k + 1) = Cat(x, y) /\ R(k + 1) = Cat(u, v)
    BY <2>5, <2>6, Zenon DEF Cat
  <2>8. d = MinOf(Len(y), MaxOf(0, n - Len(x)))
    BY DEF d
  <2>9. Drop(Cat(x, y), n) = Cat(Drop(x, n), Drop(y, d))
    BY <2>2, <2>5, <2>8, DropOver
  <2> QED
    BY <2>3, <2>4, <2>7, <2>9, Zenon
<1> HIDE DEF T
<1>4. \A k \in Nat : k \in T
  BY <1>2, <1>3, SetInduction
<1>5. R(Len(p)) = Drop(P(Len(p)), n)
  BY <1>1, <1>4 DEF T
<1>6. SubSeq(p, 1, Len(p)) = p /\ SubSeq(r, 1, Len(p)) = r
  BY SubSeqFull
<1> QED
  BY <1>5, <1>6, Zenon

\* What is left of a chunk.
Rest(c) == SubSeq(c.tokens, c.offset + 1, Len(c.tokens))
Rests(q) == [k \in DOMAIN q |-> Rest(q[k])]

LEMMA RestIs ==
  ASSUME NEW c \in ChunkRec, c.offset <= Len(c.tokens)
  PROVE  /\ c.tokens \in Seq(Token) /\ c.offset \in Nat /\ Len(c.tokens) \in Nat
         /\ Rest(c) = Drop(c.tokens, c.offset)
         /\ Rest(c) \in Seq(Token) /\ Len(Rest(c)) = Left(c) /\ Left(c) \in Nat
         /\ Finished(c) <=> Rest(c) = <<>>
         /\ c.offset = 0 => Rest(c) = c.tokens
<1> DEFINE s == c.tokens
           o == c.offset
<1>1. s \in Seq(Token) /\ o \in Nat /\ o <= Len(s)
  BY DEF ChunkRec
<1>2. Rest(c) = Drop(s, o) /\ Left(c) = Len(s) - o
  BY DEF Rest, Drop, Left
<1>3. Finished(c) <=> Left(c) = 0
  BY DEF Finished
<1> HIDE DEF s, o
<1>4. Drop(s, o) \in Seq(Token) /\ Len(s) \in Nat /\ Len(Drop(s, o)) = MaxOf(0, Len(s) - o)
  BY <1>1, Dropped
<1>5. MaxOf(0, Len(s) - o) = Len(s) - o /\ Len(s) - o \in Nat
  BY <1>1, <1>4 DEF MaxOf
<1>6. Finished(c) <=> Rest(c) = <<>>
  BY <1>2, <1>3, <1>4, <1>5, EmptySeq
<1>7. o = 0 => Rest(c) = s
  <2> SUFFICES ASSUME o = 0
               PROVE  Rest(c) = s
    OBVIOUS
  <2>1. SubSeq(s, 1, Len(s)) = s
    BY <1>1, SubSeqFull
  <2> QED
    BY <1>2, <2>1 DEF Drop
<1> QED
  BY <1>1, <1>2, <1>4, <1>5, <1>6, <1>7 DEF s, o

\* The pieces of a queue.
LEMMA RestsAre ==
  ASSUME NEW q, QueueOK(q)
  PROVE  /\ q \in Seq(ChunkRec) /\ Len(q) \in Nat /\ DOMAIN q = 1..Len(q)
         /\ Queued(q) = FlattenSeq(Rests(q)) /\ Queued(q) \in Seq(Token) /\ Len(Queued(q)) \in Nat
         /\ Rests(q) \in Seq(Seq(Token)) /\ Len(Rests(q)) = Len(q)
         /\ \A k \in 1..Len(q) :
              /\ q[k] \in ChunkRec /\ q[k].offset <= Len(q[k].tokens)
              /\ Rests(q)[k] = Rest(q[k]) /\ Rest(q[k]) \in Seq(Token)
<1>1. q \in Seq(ChunkRec) /\ Len(q) \in Nat /\ DOMAIN q = 1..Len(q)
      /\ \A k \in 1..Len(q) : q[k] \in ChunkRec /\ q[k].offset <= Len(q[k].tokens)
  BY LenProperties, ElementOfSeq DEF QueueOK
<1>2. \A k \in 1..Len(q) : Rest(q[k]) \in Seq(Token)
  BY <1>1, RestIs
<1>3. Rests(q) = [k \in 1..Len(q) |-> Rest(q[k])]
  BY <1>1 DEF Rests
<1>4. Rests(q) \in Seq(Seq(Token)) /\ Len(Rests(q)) = Len(q)
  BY <1>1, <1>2, <1>3
<1>5. Queued(q) = FlattenSeq(Rests(q))
  BY DEF Queued, Rests, Rest
<1>6. Queued(q) \in Seq(Token)
  BY <1>4, <1>5, FlatAppend, EmptySeq
<1>7. Len(Queued(q)) \in Nat
  BY <1>6, LenProperties
<1> QED
  BY <1>1, <1>2, <1>3, <1>4, <1>5, <1>6, <1>7

LEMMA DropTwice ==
  ASSUME NEW s \in Seq(Token), NEW o \in Nat, NEW d \in Nat, o + d <= Len(s)
  PROVE  Drop(s, o + d) = Drop(Drop(s, o), d)
<1> DEFINE u == Drop(s, o)
           v == Drop(u, d)
           w == Drop(s, o + d)
           N == Len(s)
<1>1. /\ u \in Seq(Token) /\ N \in Nat /\ Len(u) = MaxOf(0, N - o)
      /\ \A i \in 1..Len(u) : u[i] = s[o + i]
  BY Dropped
<1>2. /\ w \in Seq(Token) /\ Len(w) = MaxOf(0, N - (o + d))
      /\ \A i \in 1..Len(w) : w[i] = s[(o + d) + i]
  BY Dropped
<1> HIDE DEF u, w, N
<1>3. /\ v \in Seq(Token) /\ Len(v) = MaxOf(0, Len(u) - d)
      /\ \A i \in 1..Len(v) : v[i] = u[d + i] /\ d + i \in 1..Len(u)
  BY <1>1, Dropped
<1> HIDE DEF v
<1>4. o + d <= N
  BY DEF N
<1>5. MaxOf(0, N - o) = N - o /\ MaxOf(0, N - (o + d)) = N - (o + d)
      /\ MaxOf(0, (N - o) - d) = N - (o + d)
  BY <1>1, <1>4 DEF MaxOf
<1>6. Len(v) = N - (o + d) /\ Len(w) = N - (o + d)
  BY <1>1, <1>2, <1>3, <1>5
<1>7. ASSUME NEW i \in 1..Len(v)
      PROVE  v[i] = w[i]
  <2>1. v[i] = u[d + i] /\ u[d + i] = s[o + (d + i)]
    BY <1>1, <1>3
  <2>2. w[i] = s[(o + d) + i]
    BY <1>2, <1>6
  <2>3. o + (d + i) = (o + d) + i
    BY <1>1, <1>6
  <2> QED
    BY <2>1, <2>2, <2>3
<1>8. v = w
  BY <1>2, <1>3, <1>6, <1>7, SeqEqual
<1> QED
  BY <1>8, Zenon DEF v, w, u

\* The pieces of the queue p are those of s.
LEMMA SameRests ==
  ASSUME NEW p, QueueOK(p), NEW s \in Seq(Seq(Token)), Len(s) = Len(p),
         \A k \in 1..Len(p) : s[k] = Rest(p[k])
  PROVE  Rests(p) = s /\ Queued(p) = FlattenSeq(s)
<1>1. /\ Rests(p) \in Seq(Seq(Token)) /\ Len(Rests(p)) = Len(p) /\ Queued(p) = FlattenSeq(Rests(p))
      /\ \A k \in 1..Len(p) : Rests(p)[k] = Rest(p[k])
  BY RestsAre
<1>2. Rests(p) = s
  BY <1>1, SeqEqual
<1> QED
  BY <1>1, <1>2, Zenon

\* Chunk after chunk is written, up to n tokens.
LEMMA WrittenIs ==
  ASSUME NEW q, QueueOK(q), NEW n \in Nat
  PROVE  LET w == Written(q, n)
         IN /\ QueueOK(w) /\ Len(w) = Len(q) /\ Queued(w) = Drop(Queued(q), n)
            /\ \A k \in 1..Len(q) : /\ w[k].type = q[k].type /\ w[k].name = q[k].name
                                    /\ w[k].is_temp = q[k].is_temp
<1> DEFINE w == Written(q, n)
           N == Len(q)
           p == Rests(q)
           d(k) == MinOf(Left(q[k]), MaxOf(0, n - Before(q, k)))
<1>1. /\ q \in Seq(ChunkRec) /\ N \in Nat /\ DOMAIN q = 1..N
      /\ Queued(q) = FlattenSeq(p) /\ p \in Seq(Seq(Token)) /\ Len(p) = N
      /\ \A k \in 1..N : /\ q[k] \in ChunkRec /\ q[k].offset <= Len(q[k].tokens)
                         /\ p[k] = Rest(q[k]) /\ Rest(q[k]) \in Seq(Token)
  BY RestsAre
<1>2. \A k \in 1..N : q[k].is_temp => q[k].type = "file"
  BY DEF QueueOK
<1> HIDE DEF p
<1>3. ASSUME NEW k \in 1..N
      PROVE  Before(q, k) = Upto(p, k - 1) /\ Upto(p, k - 1) \in Nat
  <2> DEFINE u == SubSeq(q, 1, k - 1)
             v == SubSeq(p, 1, k - 1)
  <2>1. k - 1 \in 0..Len(q) /\ k - 1 \in 0..Len(p) /\ k - 1 \in Nat
    BY <1>1
  <2>2. u \in Seq(ChunkRec) /\ Len(u) = k - 1 /\ \A j \in 1..k - 1 : u[j] = q[j]
    BY <1>1, <2>1, CutInTwo
  <2>3. v \in Seq(Seq(Token)) /\ Len(v) = k - 1 /\ \A j \in 1..k - 1 : v[j] = p[j]
    BY <1>1, <2>1, CutInTwo
  <2> HIDE DEF u, v
  <2>4. \A j \in 1..k - 1 : j \in 1..N
    BY <1>1
  <2>5. QueueOK(u)
    BY <1>1, <1>2, <2>2, <2>4 DEF QueueOK
  <2>6. Queued(u) = FlattenSeq(v)
    <3>1. \A j \in 1..Len(u) : v[j] = Rest(u[j])
      BY <1>1, <2>2, <2>3, <2>4
    <3> QED
      BY <2>2, <2>3, <2>5, <3>1, SameRests
  <2>7. FlattenSeq(v) \in Seq(Token)
    BY <2>3, FlatAppend, EmptySeq
  <2> QED
    BY <2>6, <2>7, LenProperties DEF Before, Upto, u, v
<1>4. ASSUME NEW k \in 1..N
      PROVE  d(k) \in 0..Left(q[k]) /\ d(k) \in Nat /\ Left(q[k]) \in Nat
  <2>1. Left(q[k]) \in Nat
    BY <1>1, RestIs
  <2>2. Before(q, k) \in Nat
    BY <1>3
  <2> QED
    BY <2>1, <2>2 DEF MinOf, MaxOf
<1>5. w = [k \in 1..N |-> [q[k] EXCEPT !.offset = @ + d(k)]]
  BY <1>1 DEF Written
<1>6. ASSUME NEW k \in 1..N
      PROVE  w[k] = [q[k] EXCEPT !.offset = @ + d(k)]
  BY <1>5
<1> HIDE DEF w, d
<1>7. ASSUME NEW k \in 1..N
      PROVE  /\ w[k] \in ChunkRec /\ w[k].type = q[k].type /\ w[k].name = q[k].name
             /\ w[k].is_temp = q[k].is_temp /\ w[k].tokens = q[k].tokens
             /\ w[k].offset = q[k].offset + d(k) /\ w[k].offset <= Len(w[k].tokens)
  <2>1. q[k] \in ChunkRec /\ q[k].offset <= Len(q[k].tokens)
    BY <1>1
  <2>2. w[k] = [q[k] EXCEPT !.offset = @ + d(k)]
    BY <1>6
  <2>3. q[k].offset \in Nat /\ Len(q[k].tokens) \in Nat /\ d(k) \in Nat
        /\ d(k) <= Len(q[k].tokens) - q[k].offset
    BY <1>4, <2>1, RestIs DEF Left
  <2>4. q[k].offset + d(k) \in Nat /\ q[k].offset + d(k) <= Len(q[k].tokens)
    BY <2>3
  <2> QED
    BY <2>1, <2>2, <2>4 DEF ChunkRec
<1>8. w \in Seq(ChunkRec) /\ Len(w) = N
  <2>1. w = [k \in 1..N |-> w[k]]
    BY <1>5
  <2>2. N \in Nat /\ \A k \in 1..N : w[k] \in ChunkRec
    BY <1>1, <1>7
  <2> HIDE DEF N
  <2> QED
    BY <2>1, <2>2
<1>9. QueueOK(w)
  BY <1>2, <1>7, <1>8 DEF QueueOK
<1>10. ASSUME NEW k \in 1..N
       PROVE  Rest(w[k]) = Drop(p[k], MinOf(Len(p[k]), MaxOf(0, n - Upto(p, k - 1))))
  <2>1. Rest(w[k]) = Drop(w[k].tokens, w[k].offset)
    BY <1>7, RestIs
  <2>2. /\ p[k] = Drop(q[k].tokens, q[k].offset) /\ Len(p[k]) = Left(q[k])
        /\ q[k].tokens \in Seq(Token) /\ q[k].offset \in Nat
    BY <1>1, RestIs
  <2>3. q[k].offset + d(k) <= Len(q[k].tokens) /\ d(k) \in Nat
    BY <1>4, <1>7
  <2>4. Drop(q[k].tokens, q[k].offset + d(k)) = Drop(p[k], d(k))
    BY <2>2, <2>3, DropTwice
  <2>5. d(k) = MinOf(Len(p[k]), MaxOf(0, n - Upto(p, k - 1)))
    BY <1>3, <2>2 DEF d
  <2> QED
    BY <1>7, <2>1, <2>4, <2>5
<1> DEFINE r == Rests(w)
<1>11. /\ r \in Seq(Seq(Token)) /\ Len(r) = N /\ Queued(w) = FlattenSeq(r)
       /\ \A k \in 1..N : r[k] = Rest(w[k])
  BY <1>8, <1>9, RestsAre
<1> HIDE DEF r
<1>12. FlattenSeq(r) = Drop(FlattenSeq(p), n)
  <2>1. \A k \in 1..Len(p) : r[k] = Drop(p[k], MinOf(Len(p[k]), MaxOf(0, n - Upto(p, k - 1))))
    BY <1>1, <1>10, <1>11
  <2>2. Len(r) = Len(p)
    BY <1>1, <1>11
  <2> QED
    BY <1>1, <1>11, <2>1, <2>2, FlatDropped
<1>13. Queued(w) = Drop(Queued(q), n)
  BY <1>1, <1>11, <1>12, Zenon
<1> QED
  BY <1>7, <1>8, <1>9, <1>13, Zenon DEF w, N

\* The finished chunks at the head are taken out, and no others.
LEMMA HeadRemoved ==
  ASSUME NEW q, QueueOK(q)
  PROVE  \E m \in 0..Len(q) :
           /\ FinishedHead(q) = 1..m /\ Cardinality(FinishedHead(q)) = m
           /\ LET r == SubSeq(q, m + 1, Len(q))
              IN /\ QueueOK(r) /\ Queued(r) = Queued(q) /\ Len(r) = Len(q) - m
                 /\ \A k \in 1..Len(r) : r[k] = q[m + k] /\ m + k \in 1..Len(q)
<1> DEFINE N == Len(q)
           F == FinishedHead(q)
           s == Rests(q)
<1>1. /\ q \in Seq(ChunkRec) /\ N \in Nat /\ DOMAIN q = 1..N
      /\ Queued(q) = FlattenSeq(s) /\ s \in Seq(Seq(Token)) /\ Len(s) = N /\ Queued(q) \in Seq(Token)
      /\ \A k \in 1..N : /\ q[k] \in ChunkRec /\ q[k].offset <= Len(q[k].tokens)
                         /\ s[k] = Rest(q[k])
  BY RestsAre
<1>2. \A k : k \in F <=> k \in 1..N /\ \A j \in 1..k : Finished(q[j])
  BY <1>1 DEF FinishedHead
<1> HIDE DEF F, s, N
<1>3. PICK m \in 0..N : F = 1..m
  <2>1. F \in SUBSET (1..N)
    BY <1>2
  <2>2. ASSUME NEW x \in F, x > 1
        PROVE  x - 1 \in F
    <3>1. x - 1 \in 1..N /\ \A j \in 1..x - 1 : j \in 1..x
      BY <1>1, <1>2, <2>2
    <3> QED
      BY <1>2, <3>1
  <2> QED
    BY <1>1, <2>1, <2>2, DownClosed
<1>4. m \in Nat /\ Cardinality(F) = m
  <2>1. m \in Nat /\ Cardinality(1..m) = IF 1 > m THEN 0 ELSE m - 1 + 1
    BY <1>1, FS_Interval
  <2>2. Cardinality(1..m) = m
    BY <2>1
  <2> QED
    BY <1>3, <2>1, <2>2, Zenon
<1> DEFINE r == SubSeq(q, m + 1, N)
           u == SubSeq(s, 1, m)
           v == SubSeq(s, m + 1, N)
<1>5. r \in Seq(ChunkRec) /\ Len(r) = N - m /\ \A k \in 1..N - m : r[k] = q[m + k]
  <2>1. m \in 0..Len(q)
    BY <1>1 DEF N
  <2> QED
    BY <1>1, <2>1, CutInTwo DEF N
<1>6. /\ v \in Seq(Seq(Token)) /\ Len(v) = N - m
      /\ \A k \in 1..N - m : v[k] = s[m + k]
      /\ FlattenSeq(s) = FlattenSeq(u) \o FlattenSeq(v)
  <2>1. m \in 0..Len(s) /\ Len(s) = N
    BY <1>1
  <2>2. /\ v \in Seq(Seq(Token)) /\ Len(v) = N - m
        /\ \A k \in 1..N - m : v[k] = s[m + k]
    BY <1>1, <2>1, CutInTwo
  <2>3. FlattenSeq(s) = FlattenSeq(u) \o FlattenSeq(v)
    BY <1>1, <2>1, FlatSplit
  <2> QED
    BY <2>2, <2>3
<1>7. FlattenSeq(u) = <<>>
  <2>1. ASSUME NEW j \in 1..m
        PROVE  s[j] = <<>>
    <3>1. m \in F /\ j \in 1..N
      BY <1>1, <1>3, <1>4
    <3>2. Finished(q[j])
      BY <1>2, <3>1
    <3> QED
      BY <1>1, <3>1, <3>2, RestIs
  <2>2. m \in 0..Len(s)
    BY <1>1
  <2> QED
    BY <1>1, <2>1, <2>2, FlatSkip
<1> HIDE DEF r, u, v
<1>8. \A k \in 1..N - m : m + k \in 1..N
  BY <1>1, <1>4
<1>9. QueueOK(r)
  BY <1>1, <1>5, <1>8 DEF QueueOK, N
<1>10. Queued(r) = FlattenSeq(v)
  <2>1. \A k \in 1..Len(r) : v[k] = Rest(r[k])
    BY <1>1, <1>5, <1>6, <1>8
  <2>2. Len(v) = Len(r)
    BY <1>5, <1>6
  <2> QED
    BY <1>6, <1>9, <2>1, <2>2, SameRests
<1>11. Queued(r) = Queued(q)
  <2>1. Queued(r) \in Seq(Token)
    BY <1>9, RestsAre
  <2>2. <<>> \o Queued(r) = Queued(r)
    BY <2>1, ConcatEmptySeq
  <2> QED
    BY <1>1, <1>6, <1>7, <1>10, <2>2, Zenon
<1>12. /\ QueueOK(r) /\ Queued(r) = Queued(q) /\ Len(r) = N - m
       /\ \A k \in 1..Len(r) : r[k] = q[m + k] /\ m + k \in 1..N
  BY <1>5, <1>8, <1>9, <1>11
<1> QED
  BY <1>3, <1>4, <1>12, Zenon DEF r, F, N

\* The first n tokens and what is left.
LEMMA TakeAndDrop ==
  ASSUME NEW s \in Seq(Token), NEW n \in 0..Len(s)
  PROVE  /\ SubSeq(s, 1, n) \in Seq(Token) /\ Drop(s, n) \in Seq(Token)
         /\ s = Cat(SubSeq(s, 1, n), Drop(s, n))
<1>1. /\ s = SubSeq(s, 1, n) \o SubSeq(s, n + 1, Len(s))
      /\ SubSeq(s, 1, n) \in Seq(Token) /\ SubSeq(s, n + 1, Len(s)) \in Seq(Token)
  BY CutInTwo
<1> QED
  BY <1>1, Zenon DEF Drop, Cat

-----------------------------------------------------------------------------
(* A write keeps the invariant.                                            *)

\* What n tokens do to the queue, the files and the stream.
LEMMA WriteIs ==
  ASSUME IInv, NEW n \in 0..Len(Queued(wb)), WriteTokens(n)
  PROVE  /\ QueueOK(wb') /\ LastNamed(wb') /\ FilesThere'
         /\ SubSeq(Queued(wb), 1, n) \in Seq(Token)
         /\ sent' = Cat(sent, SubSeq(Queued(wb), 1, n))
         /\ Queued(wb) = Cat(SubSeq(Queued(wb), 1, n), Queued(wb')) /\ Queued(wb') \in Seq(Token)
         /\ \A k \in DOMAIN wb : wb[k].is_temp /\ wb[k].name \in files' =>
              \E j \in DOMAIN wb' : wb'[j].is_temp /\ wb'[j].name = wb[k].name
<1> DEFINE w == Written(wb, n)
           N == Len(wb)
           s == Queued(wb)
<1>1. /\ QueueOK(wb) /\ N \in Nat /\ DOMAIN wb = 1..N /\ s \in Seq(Token) /\ Len(s) \in Nat
      /\ n \in Nat /\ n \in 0..Len(s)
  BY RestsAre DEF IInv
<1>2. /\ QueueOK(w) /\ Len(w) = N /\ Queued(w) = Drop(s, n)
      /\ \A k \in 1..N : /\ w[k].type = wb[k].type /\ w[k].name = wb[k].name
                         /\ w[k].is_temp = wb[k].is_temp
  BY <1>1, WrittenIs
<1>3. /\ wb' = SubSeq(w, Cardinality(FinishedHead(w)) + 1, Len(w))
      /\ files' = files \ Unlinked(w)
      /\ sent' = sent \o SubSeq(s, 1, n)
  BY DEF WriteTokens
<1> HIDE DEF w, s
<1>4. PICK m \in 0..Len(w) :
        /\ FinishedHead(w) = 1..m /\ Cardinality(FinishedHead(w)) = m
        /\ LET r == SubSeq(w, m + 1, Len(w))
           IN /\ QueueOK(r) /\ Queued(r) = Queued(w) /\ Len(r) = Len(w) - m
              /\ \A k \in 1..Len(r) : r[k] = w[m + k] /\ m + k \in 1..Len(w)
  BY <1>2, HeadRemoved
<1>5. /\ QueueOK(wb') /\ Queued(wb') = Queued(w) /\ Len(wb') = N - m
      /\ \A k \in 1..Len(wb') : wb'[k] = w[m + k] /\ m + k \in 1..N
  BY <1>2, <1>3, <1>4
<1>6. wb' \in Seq(ChunkRec) /\ DOMAIN wb' = 1..Len(wb') /\ Len(wb') \in Nat /\ Queued(wb') \in Seq(Token)
  BY <1>5, RestsAre
<1> HIDE DEF N
<1>7. m \in Nat /\ m \in 0..N
  BY <1>1, <1>2
<1>8. \A k \in 1..Len(wb') : /\ m + k \in 1..N /\ wb'[k].type = wb[m + k].type
                             /\ wb'[k].name = wb[m + k].name /\ wb'[k].is_temp = wb[m + k].is_temp
  BY <1>2, <1>5
<1>9. \A f : f \in Unlinked(w) <=> \E k \in 1..m : wb[k].is_temp /\ f = wb[k].name
  <2>1. \A f : f \in Unlinked(w) <=> \E k \in 1..m : w[k].is_temp /\ f = w[k].name
    BY <1>4 DEF Unlinked
  <2>2. \A k \in 1..m : k \in 1..N
    BY <1>1, <1>7
  <2> QED
    BY <1>2, <2>1, <2>2
<1>10. LastNamed(wb')
  <2> SUFFICES ASSUME NEW j \in 1..Len(wb'), NEW k \in 1..Len(wb'), j < k,
                      wb'[j].is_temp, wb'[k].type = "file"
               PROVE  wb'[j].name # wb'[k].name
    BY <1>6 DEF LastNamed
  <2>1. m + j \in DOMAIN wb /\ m + k \in DOMAIN wb /\ m + j < m + k
    BY <1>1, <1>6, <1>7, <1>8
  <2>2. wb[m + j].is_temp /\ wb[m + k].type = "file"
    BY <1>8
  <2>3. wb[m + j].name # wb[m + k].name
    BY <2>1, <2>2 DEF IInv, LastNamed
  <2> QED
    BY <1>8, <2>3
<1>11. FilesThere'
  <2> SUFFICES ASSUME NEW k \in 1..Len(wb'), wb'[k].type = "file"
               PROVE  wb'[k].name \in files'
    BY <1>6 DEF FilesThere
  <2>1. m + k \in DOMAIN wb /\ wb[m + k].type = "file" /\ wb'[k].name = wb[m + k].name
    BY <1>1, <1>8
  <2>2. wb[m + k].name \in files
    BY <2>1 DEF IInv, FilesThere
  <2>3. ASSUME NEW j \in 1..m, wb[j].is_temp
        PROVE  wb[j].name # wb[m + k].name
    <3>1. j \in DOMAIN wb /\ j < m + k
      BY <1>1, <1>6, <1>7
    <3> QED
      BY <2>1, <2>3, <3>1 DEF IInv, LastNamed
  <2>4. wb[m + k].name \notin Unlinked(w)
    BY <1>9, <2>3
  <2> QED
    BY <1>3, <2>1, <2>2, <2>4
<1>12. ASSUME NEW k \in DOMAIN wb, wb[k].is_temp, wb[k].name \in files'
       PROVE  \E j \in DOMAIN wb' : wb'[j].is_temp /\ wb'[j].name = wb[k].name
  <2>1. k \in 1..N /\ wb[k].name \notin Unlinked(w)
    BY <1>1, <1>3, <1>12
  <2>2. ~(k \in 1..m)
    BY <1>9, <1>12, <2>1
  <2>3. k - m \in 1..Len(wb') /\ m + (k - m) = k
    BY <1>1, <1>5, <1>7, <2>1, <2>2
  <2>4. wb'[k - m].is_temp = wb[k].is_temp /\ wb'[k - m].name = wb[k].name
    BY <1>8, <2>3
  <2> QED
    BY <1>6, <1>12, <2>3, <2>4
<1>13. SubSeq(s, 1, n) \in Seq(Token) /\ s = Cat(SubSeq(s, 1, n), Queued(wb'))
  <2>1. SubSeq(s, 1, n) \in Seq(Token) /\ s = Cat(SubSeq(s, 1, n), Drop(s, n))
    BY <1>1, TakeAndDrop
  <2> QED
    BY <1>2, <1>5, <2>1, Zenon
<1>14. sent' = Cat(sent, SubSeq(s, 1, n))
  BY <1>3, Zenon DEF Cat
<1> QED
  BY <1>5, <1>6, <1>10, <1>11, <1>12, <1>13, <1>14, Zenon DEF s

LEMMA WriteKeeps ==
  ASSUME IInv, fcgi_write
  PROVE  IInv'
<1>1. /\ pc = "WRITE" /\ pc' = (IF wb' = <<>> THEN "READ" ELSE "WRITE")
      /\ content_length' = content_length /\ req_cq' = req_cq /\ reconnects' = reconnects
  BY DEF fcgi_write
<1>2. PICK n \in 0..Len(Queued(wb)) : WriteTokens(n)
  BY DEF fcgi_write
<1> DEFINE x == SubSeq(Queued(wb), 1, n)
           y == Queued(wb')
<1>3. /\ QueueOK(wb') /\ LastNamed(wb') /\ FilesThere'
      /\ x \in Seq(Token) /\ y \in Seq(Token)
      /\ sent' = Cat(sent, x) /\ Queued(wb) = Cat(x, y)
      /\ \A k \in DOMAIN wb : wb[k].is_temp /\ wb[k].name \in files' =>
           \E j \in DOMAIN wb' : wb'[j].is_temp /\ wb'[j].name = wb[k].name
  BY <1>2, WriteIs
<1> HIDE DEF x, y
<1>4. /\ content_length \in 0..MaxContent /\ reconnects \in Nat /\ sent \in Seq(Token)
      /\ ContentThere /\ FilesOwned
      /\ reconnects = 0 => Full(Cat(sent, Queued(wb)), content_length)
  BY <1>1, Zenon DEF IInv
<1>5. req_cq = <<>>
  BY <1>1, <1>4 DEF ContentThere
<1>6. sent' \in Seq(Token)
  BY <1>3, <1>4, CatFacts
<1>7. Cat(sent, Queued(wb)) = Cat(sent', y)
  BY <1>3, <1>4, CatAssociative
<1>8. ASSUME reconnects = 0
      PROVE  Full(Cat(sent', y), content_length) /\ Begun(sent', content_length)
  <2>1. Full(Cat(sent', y), content_length)
    BY <1>4, <1>7, <1>8, Zenon
  <2>2. Begun(Cat(sent', y), content_length)
    BY <2>1 DEF Full
  <2> QED
    BY <1>3, <1>6, <2>1, <2>2, BegunPrefix
<1>9. ContentThere'
  BY <1>1, <1>5 DEF ContentThere
<1>10. files' \subseteq files
  BY <1>2 DEF WriteTokens
<1>11. FilesOwned'
  <2> SUFFICES ASSUME NEW f \in files'
               PROVE  \E k \in DOMAIN wb' : wb'[k].is_temp /\ wb'[k].name = f
    BY DEF FilesOwned
  <2>1. f \in files /\ DOMAIN req_cq = {}
    BY <1>5, <1>10
  <2>2. PICK k \in DOMAIN wb : wb[k].is_temp /\ wb[k].name = f
    BY <1>4, <2>1 DEF FilesOwned
  <2> QED
    BY <1>3, <2>2
<1>12. pc' \in {"INIT", "WRITE", "READ", "gone", "crash"} /\ (pc' \in {"READ", "gone"} => wb' = <<>>)
  BY <1>1
<1>13. QueueOK(wb)' /\ LastNamed(wb)'
  BY <1>3
<1>14. (reconnects = 0 => Begun(sent, content_length))'
  BY <1>1, <1>8, Zenon
<1>15. (reconnects = 0 /\ pc \in {"WRITE", "READ"} => Full(Cat(sent, Queued(wb)), content_length))'
  BY <1>1, <1>8, Zenon DEF y
<1>16. content_length' \in 0..MaxContent /\ reconnects' \in Nat
  BY <1>1, <1>4, Zenon
<1> QED
  BY <1>3, <1>6, <1>9, <1>11, <1>12, <1>13, <1>14, <1>15, <1>16, Zenon DEF IInv

\* No queue is left.
LEMMA EmptyQueue == QueueOK(<<>>) /\ LastNamed(<<>>) /\ Queued(<<>>) = <<>>
<1>1. <<>> \in Seq(ChunkRec) /\ Len(<<>>) = 0 /\ DOMAIN <<>> = {}
  BY EmptySeq
<1>2. QueueOK(<<>>)
  BY <1>1 DEF QueueOK
<1>3. LastNamed(<<>>)
  BY <1>1 DEF LastNamed
<1>4. Queued(<<>>) = <<>>
  <2>1. Rests(<<>>) \in Seq(Seq(Token)) /\ Len(Rests(<<>>)) = 0 /\ Queued(<<>>) = FlattenSeq(Rests(<<>>))
    BY <1>1, <1>2, RestsAre
  <2>2. Rests(<<>>) = <<>>
    BY <2>1, EmptySeq
  <2> QED
    BY <2>1, <2>2, FlatEmpty, Zenon
<1> QED
  BY <1>2, <1>3, <1>4

\* The context is freed.
LEMMA CloseKeeps ==
  ASSUME IInv, fcgi_connection_close
  PROVE  IInv'
<1>1. /\ pc' = "gone" /\ wb' = <<>> /\ req_cq' = <<>> /\ content_length' = content_length
      /\ sent' = sent /\ reconnects' = reconnects
  BY DEF fcgi_connection_close, Freed
<1>2. QueueOK(wb)' /\ LastNamed(wb)'
  BY <1>1, EmptyQueue, Zenon
<1>3. FilesThere'
  <2>1. DOMAIN wb' = {}
    BY <1>1
  <2> QED
    BY <2>1 DEF FilesThere
<1>4. ContentThere'
  BY <1>1 DEF ContentThere
<1>5. content_length' \in 0..MaxContent /\ reconnects' \in Nat /\ sent' \in Seq(Token)
  BY <1>1, Zenon DEF IInv
<1>6. (reconnects = 0 => Begun(sent, content_length))'
  BY <1>1, Zenon DEF IInv
<1>7. /\ pc' \in {"INIT", "WRITE", "READ", "gone", "crash"}
      /\ (pc \in {"READ", "gone"} => wb = <<>>)'
      /\ ~(pc' \in {"INIT", "WRITE", "READ"}) /\ ~(pc' \in {"WRITE", "READ"})
  BY <1>1
<1> QED
  BY <1>2, <1>3, <1>4, <1>5, <1>6, <1>7, Zenon DEF IInv

\* The attempt is given up before anything was written.
LEMMA ReconnectKeeps ==
  ASSUME IInv, fcgi_reconnect
  PROVE  IInv'
<1>1. /\ pc = "WRITE" /\ pc' = "INIT" /\ reconnects' = reconnects + 1 /\ content_length' = content_length
      /\ req_cq' = req_cq /\ wb' = wb /\ files' = files /\ sent' = sent
  BY DEF fcgi_reconnect
<1>2. reconnects \in Nat
  BY DEF IInv
<1>3. reconnects' \in Nat /\ reconnects' # 0
  BY <1>1, <1>2
<1>4. QueueOK(wb)' /\ LastNamed(wb)' /\ FilesThere'
  BY <1>1 DEF IInv, FilesThere
<1>5. ContentThere'
  BY <1>1, <1>3 DEF IInv, ContentThere
<1>6. FilesOwned'
  BY <1>1 DEF IInv, FilesOwned
<1>7. content_length' \in 0..MaxContent /\ sent' \in Seq(Token)
  BY <1>1, Zenon DEF IInv
<1>8. pc' \in {"INIT", "WRITE", "READ", "gone", "crash"} /\ ~(pc' \in {"READ", "gone"})
  BY <1>1
<1> QED
  BY <1>3, <1>4, <1>5, <1>6, <1>7, <1>8, Zenon DEF IInv

-----------------------------------------------------------------------------
(* Queues are built.                                                       *)

\* c is x and then y, of any elements.
Follows(S, c, x, y) ==
  /\ c \in Seq(S) /\ Len(x) \in Nat /\ Len(y) \in Nat /\ Len(c) = Len(x) + Len(y)
  /\ \A i \in 1..Len(x) : c[i] = x[i]
  /\ \A i \in 1..Len(y) : c[Len(x) + i] = y[i]

LEMMA CatFollows ==
  ASSUME NEW S, NEW x \in Seq(S), NEW y \in Seq(S)
  PROVE  Follows(S, Cat(x, y), x, y)
<1>1. Cat(x, y) \in Seq(S) /\ Len(x) \in Nat /\ Len(y) \in Nat /\ Len(Cat(x, y)) = Len(x) + Len(y)
  BY CatFacts
<1>2. \A i \in 1..Len(x) : Cat(x, y)[i] = x[i]
  BY CatFacts
<1>3. \A i \in 1..Len(y) : Cat(x, y)[Len(x) + i] = y[i]
  BY CatFacts
<1> QED
  BY <1>1, <1>2, <1>3, Zenon DEF Follows

\* One queue after another.
Queues(c, p, q) ==
  /\ QueueOK(c) /\ Queued(c) = Cat(Queued(p), Queued(q)) /\ DOMAIN c = 1..Len(c)
  /\ DOMAIN p = 1..Len(p) /\ DOMAIN q = 1..Len(q) /\ Follows(ChunkRec, c, p, q)

LEMMA QueuedCat ==
  ASSUME NEW p, QueueOK(p), NEW q, QueueOK(q)
  PROVE  Queues(Cat(p, q), p, q)
<1> DEFINE c == Cat(p, q)
           s == Rests(p)
           t == Rests(q)
           u == Cat(s, t)
<1>1. /\ p \in Seq(ChunkRec) /\ DOMAIN p = 1..Len(p) /\ Queued(p) = FlattenSeq(s)
      /\ s \in Seq(Seq(Token)) /\ Len(s) = Len(p)
      /\ \A k \in 1..Len(p) : s[k] = Rest(p[k])
  BY RestsAre
<1>2. /\ q \in Seq(ChunkRec) /\ DOMAIN q = 1..Len(q) /\ Queued(q) = FlattenSeq(t)
      /\ t \in Seq(Seq(Token)) /\ Len(t) = Len(q)
      /\ \A k \in 1..Len(q) : t[k] = Rest(q[k])
  BY RestsAre
<1>3. /\ \A k \in 1..Len(p) : p[k].offset <= Len(p[k].tokens) /\ (p[k].is_temp => p[k].type = "file")
      /\ \A k \in 1..Len(q) : q[k].offset <= Len(q[k].tokens) /\ (q[k].is_temp => q[k].type = "file")
  BY DEF QueueOK
<1> HIDE DEF s, t
<1>4. /\ c \in Seq(ChunkRec) /\ Len(p) \in Nat /\ Len(q) \in Nat /\ Len(c) = Len(p) + Len(q)
      /\ \A k \in 1..Len(p) : c[k] = p[k]
      /\ \A k \in 1..Len(q) : c[Len(p) + k] = q[k]
  <2>1. Follows(ChunkRec, c, p, q)
    BY <1>1, <1>2, CatFollows
  <2> QED
    BY <2>1, Zenon DEF Follows
<1>5. /\ u \in Seq(Seq(Token)) /\ Len(u) = Len(s) + Len(t)
      /\ \A k \in 1..Len(s) : u[k] = s[k]
      /\ \A k \in 1..Len(t) : u[Len(s) + k] = t[k]
  <2>1. Follows(Seq(Token), u, s, t)
    BY <1>1, <1>2, CatFollows
  <2> QED
    BY <2>1, Zenon DEF Follows
<1>6. FlattenSeq(u) = Cat(FlattenSeq(s), FlattenSeq(t))
  BY <1>1, <1>2, FlatConcat, Zenon DEF Cat
<1> HIDE DEF c, u
<1>7. ASSUME NEW k \in 1..Len(c)
      PROVE  /\ c[k].offset <= Len(c[k].tokens) /\ (c[k].is_temp => c[k].type = "file")
             /\ u[k] = Rest(c[k])
  <2>1. CASE k \in 1..Len(p)
    <3>1. c[k] = p[k] /\ u[k] = s[k] /\ s[k] = Rest(p[k])
      BY <1>1, <1>4, <1>5, <2>1, Zenon
    <3> QED
      BY <1>3, <2>1, <3>1, Zenon
  <2>2. CASE ~(k \in 1..Len(p))
    <3> DEFINE i == k - Len(p)
    <3>1. i \in 1..Len(q) /\ k = Len(p) + i
      BY <1>4, <2>2
    <3> HIDE DEF i
    <3>2. c[k] = q[i] /\ u[k] = t[i] /\ t[i] = Rest(q[i])
      BY <1>1, <1>2, <1>4, <1>5, <3>1, Zenon
    <3> QED
      BY <1>3, <3>1, <3>2, Zenon
  <2> QED
    BY <2>1, <2>2
<1>8. QueueOK(c) /\ DOMAIN c = 1..Len(c)
  BY <1>4, <1>7, LenProperties DEF QueueOK
<1>9. Len(u) = Len(c)
  BY <1>1, <1>2, <1>4, <1>5, Zenon
<1>10. Queued(c) = FlattenSeq(u)
  BY <1>5, <1>7, <1>8, <1>9, SameRests
<1>11. Queued(c) = Cat(Queued(p), Queued(q))
  BY <1>1, <1>2, <1>6, <1>10, Zenon
<1> QED
  BY <1>1, <1>2, <1>4, <1>8, <1>11, Zenon DEF c, Queues, Follows

\* A queue of one chunk.
LEMMA QueuedOne ==
  ASSUME NEW x \in ChunkRec, x.offset = 0, x.is_temp => x.type = "file"
  PROVE  QueueOK(<<x>>) /\ Queued(<<x>>) = x.tokens /\ x.tokens \in Seq(Token)
<1> DEFINE s == <<Rest(x)>>
           q == <<x>>
<1>1. x.tokens \in Seq(Token) /\ x.offset \in Nat
  BY DEF ChunkRec
<1>2. Len(x.tokens) \in Nat
  BY <1>1, LenProperties
<1>3. x.offset <= Len(x.tokens)
  BY <1>2
<1>4. Rest(x) = x.tokens
  BY <1>3, RestIs
<1>5. Len(q) = 1 /\ q \in Seq(ChunkRec) /\ q[1] = x /\ \A k \in 1..Len(q) : k = 1
  OBVIOUS
<1> HIDE DEF q
<1>6. QueueOK(q)
  BY <1>3, <1>5 DEF QueueOK
<1>7. s \in Seq(Seq(Token)) /\ Len(s) = 1 /\ s[1] = Rest(x) /\ s = Append(<<>>, x.tokens)
      /\ <<>> \in Seq(Seq(Token))
  BY <1>1, <1>4
<1>8. FlattenSeq(s) = Cat(<<>>, x.tokens)
  BY <1>1, <1>7, FlatAppend, FlatEmpty, Zenon DEF Cat
<1>9. Cat(<<>>, x.tokens) = x.tokens
  BY <1>1, CatFacts
<1> HIDE DEF s
<1>10. \A k \in 1..Len(q) : s[k] = Rest(q[k])
  BY <1>5, <1>7
<1>11. Len(s) = Len(q)
  BY <1>5, <1>7
<1>12. Queued(q) = FlattenSeq(s)
  BY <1>6, <1>7, <1>10, <1>11, SameRests
<1> QED
  BY <1>1, <1>6, <1>8, <1>9, <1>12, Zenon DEF q

\* A chunk in memory.
LEMMA MemIs ==
  ASSUME NEW t \in Seq(Token)
  PROVE  /\ QueueOK(<<MemChunk(t)>>) /\ Queued(<<MemChunk(t)>>) = t
         /\ Len(<<MemChunk(t)>>) = 1 /\ DOMAIN <<MemChunk(t)>> = 1..1
         /\ <<MemChunk(t)>>[1].type = "mem" /\ ~<<MemChunk(t)>>[1].is_temp
<1>1. /\ MemChunk(t) \in ChunkRec /\ MemChunk(t).offset = 0 /\ MemChunk(t).type = "mem"
      /\ ~MemChunk(t).is_temp /\ MemChunk(t).tokens = t
  BY DEF MemChunk, ChunkRec
<1>2. QueueOK(<<MemChunk(t)>>) /\ Queued(<<MemChunk(t)>>) = t
  BY <1>1, QueuedOne
<1> QED
  BY <1>1, <1>2

\* A chunk in memory is added.
LEMMA MemAdded ==
  ASSUME NEW q, QueueOK(q), LastNamed(q), NEW t \in Seq(Token)
  PROVE  LET c == Cat(q, <<MemChunk(t)>>)
         IN /\ QueueOK(c) /\ LastNamed(c) /\ Queued(c) = Cat(Queued(q), t)
            /\ \A k \in DOMAIN q : k \in DOMAIN c /\ c[k] = q[k]
            /\ \A k \in DOMAIN c : c[k].type = "file" => k \in DOMAIN q /\ c[k] = q[k]
            /\ \A k \in DOMAIN c : c[k].is_temp => k \in DOMAIN q /\ c[k] = q[k]
<1> DEFINE m == <<MemChunk(t)>>
           c == Cat(q, m)
<1>1. QueueOK(m) /\ Queued(m) = t /\ Len(m) = 1 /\ m[1].type = "mem" /\ ~m[1].is_temp
  BY MemIs
<1> HIDE DEF m
<1>2. /\ QueueOK(c) /\ Queued(c) = Cat(Queued(q), Queued(m))
      /\ DOMAIN q = 1..Len(q) /\ DOMAIN c = 1..Len(c)
      /\ Len(q) \in Nat /\ Len(c) = Len(q) + Len(m)
      /\ \A k \in 1..Len(q) : c[k] = q[k]
      /\ \A k \in 1..Len(m) : c[Len(q) + k] = m[k]
  <2>1. Queues(c, q, m)
    BY <1>1, QueuedCat
  <2> QED
    BY <2>1, Zenon DEF Queues, Follows
<1> HIDE DEF c
<1>3. Len(c) = Len(q) + 1 /\ c[Len(q) + 1] = m[1]
  BY <1>1, <1>2
<1>4. \A k \in DOMAIN q : k \in DOMAIN c /\ c[k] = q[k]
  BY <1>2, <1>3
<1>5. ASSUME NEW k \in DOMAIN c, c[k].type = "file" \/ c[k].is_temp
      PROVE  k \in DOMAIN q /\ c[k] = q[k]
  <2>1. k # Len(q) + 1
    BY <1>1, <1>3, <1>5
  <2>2. k \in 1..Len(q)
    BY <1>2, <1>3, <2>1
  <2> QED
    BY <1>2, <2>2
<1>6. LastNamed(c)
  BY <1>5, SMTT(40) DEF LastNamed
<1> QED
  BY <1>1, <1>2, <1>4, <1>5, <1>6, Zenon DEF c, m

-----------------------------------------------------------------------------
(* The records.                                                            *)

\* The chunks of a content lie one after the other.
LEMMA Places ==
  ASSUME NEW n \in Nat, NEW cq, Divided(cq, n)
  PROVE  /\ Len(cq) \in Nat \ {0} /\ DOMAIN cq = 1..Len(cq) /\ cq \in Seq(PartRec)
         /\ cq[1].from = 0 /\ cq[Len(cq)].to = n
         /\ \A a \in 1..Len(cq) : /\ cq[a] \in PartRec /\ cq[a].from \in Nat /\ cq[a].to \in Nat
                                  /\ cq[a].from < cq[a].to /\ cq[a].to <= n /\ cq[a].type = cq[1].type
         /\ \A a \in 1..Len(cq) - 1 : cq[a].to = cq[a + 1].from
         /\ \A a, b \in 1..Len(cq) : a < b => cq[a].to <= cq[b].from
<1> DEFINE N == Len(cq)
           F(a) == cq[a].from
           T(a) == cq[a].to
           S == {d \in Nat : \A a \in 1..N : a + d + 1 \in 1..N => T(a) <= F(a + d + 1)}
<1>1. N \in Nat \ {0} /\ DOMAIN cq = 1..N /\ cq \in Seq(PartRec) /\ \A a \in 1..N : cq[a] \in PartRec
  BY LenProperties, ElementOfSeq DEF Divided
<1>2. \A a \in 1..N : F(a) \in Nat /\ T(a) \in Nat
  BY <1>1 DEF PartRec
<1>3. /\ F(1) = 0 /\ T(N) = n /\ \A a \in 1..N : F(a) < T(a) /\ cq[a].type = cq[1].type
      /\ \A a \in 1..N - 1 : T(a) = F(a + 1)
  BY DEF Divided
<1> HIDE DEF N, F, T
<1>4. 0 \in S
  BY <1>1, <1>2, <1>3
<1>5. ASSUME NEW d \in Nat, d \in S
      PROVE  d + 1 \in S
  <2> SUFFICES ASSUME NEW a \in 1..N, a + (d + 1) + 1 \in 1..N
               PROVE  T(a) <= F(a + (d + 1) + 1)
    OBVIOUS
  <2> DEFINE b == a + d + 1
  <2>1. b \in 1..N /\ b \in 1..N - 1 /\ b + 1 = a + (d + 1) + 1
    BY <1>1
  <2>2. T(a) <= F(b)
    BY <1>5, <2>1
  <2> HIDE DEF b
  <2>3. F(b) < T(b) /\ T(b) = F(b + 1) /\ b + 1 \in 1..N
    BY <1>1, <1>3, <2>1
  <2>4. T(a) <= F(b + 1)
    BY <1>2, <2>1, <2>2, <2>3
  <2> QED
    BY <2>1, <2>4
<1> HIDE DEF S
<1>6. \A d \in Nat : d \in S
  BY <1>4, <1>5, SetInduction
<1>7. ASSUME NEW a \in 1..N, NEW b \in 1..N, a < b
      PROVE  T(a) <= F(b)
  <2> DEFINE d == b - a - 1
  <2>1. d \in Nat /\ a + d + 1 = b
    BY <1>1, <1>7
  <2> HIDE DEF d
  <2>2. d \in S
    BY <1>6, <2>1
  <2> QED
    BY <2>1, <2>2 DEF S
<1>8. ASSUME NEW a \in 1..N
      PROVE  T(a) <= n
  <2>1. CASE a = N
    BY <1>2, <1>3, <2>1
  <2>2. CASE a # N
    <3>1. a < N /\ N \in 1..N
      BY <1>1, <2>2
    <3>2. T(a) <= F(N) /\ F(N) < T(N)
      BY <1>3, <1>7, <3>1
    <3> QED
      BY <1>2, <1>3, <3>1, <3>2
  <2> QED
    BY <2>1, <2>2
<1> QED
  BY <1>1, <1>2, <1>3, <1>7, <1>8, Zenon DEF N, F, T

\* The chunk c of the content has bytes of the record.
Overlaps(c, from, to) == c.from < to /\ c.to > from

\* How far the first k chunks of the content get in the record.
Reached(k, from, to) == IF k = 0 THEN from ELSE MaxOf(from, MinOf(req_cq[k].to, to))

\* g is what the first k chunks of the content add to the record.
FileParts(g, k, from, to) ==
  /\ QueueOK(g) /\ Queued(g) = Data(from, Reached(k, from, to))
  /\ \A i \in 1..Len(g) : \E a \in 1..k :
       Overlaps(req_cq[a], from, to) /\ g[i] = FileChunk(req_cq[a], from, to)
  /\ \A a \in 1..k : Overlaps(req_cq[a], from, to) =>
       \E i \in 1..Len(g) : g[i] = FileChunk(req_cq[a], from, to)
  /\ \A i, j \in 1..Len(g) : i < j => g[i].name < g[j].name

\* The part of a chunk.
LEMMA FileChunkIs ==
  ASSUME NEW c \in PartRec, NEW from \in Nat, NEW to \in Nat,
         c.from < c.to, from < to, Overlaps(c, from, to)
  PROVE  LET f == FileChunk(c, from, to)
         IN /\ QueueOK(<<f>>) /\ Queued(<<f>>) = Data(MaxOf(c.from, from), MinOf(c.to, to))
            /\ f.type = "file" /\ f.name = c.from /\ (f.is_temp <=> c.to <= to)
<1> DEFINE a == MaxOf(c.from, from)
           b == MinOf(c.to, to)
           f == FileChunk(c, from, to)
<1>1. c.from \in Nat /\ c.to \in Nat
  BY DEF PartRec
<1>2. c.from < to /\ c.to > from
  BY DEF Overlaps
<1>3. a \in Nat /\ b \in Nat /\ a <= b
  BY <1>1, <1>2 DEF MaxOf, MinOf
<1> HIDE DEF a, b
<1>4. Data(a, b) \in Seq(Token)
  BY <1>3, DataIs
<1>5. f = [type |-> "file", tokens |-> Data(a, b), offset |-> 0, name |-> c.from, is_temp |-> c.to <= to]
  BY DEF FileChunk, a, b
<1>6. c.from \in Int /\ (c.to <= to) \in BOOLEAN
  BY <1>1
<1> DEFINE d == Data(a, b)
           e == c.to <= to
<1> HIDE DEF f, d, e
<1>7. f = [type |-> "file", tokens |-> d, offset |-> 0, name |-> c.from, is_temp |-> e]
  BY <1>5, Zenon DEF d, e
<1>8. d \in Seq(Token) /\ e \in BOOLEAN
  BY <1>4, <1>6, Zenon DEF d, e
<1>9. f \in ChunkRec /\ f.offset = 0 /\ f.type = "file" /\ f.tokens = d /\ f.name = c.from
  BY <1>6, <1>7, <1>8 DEF ChunkRec
<1>10. f.is_temp <=> e
  BY <1>7, Zenon
<1>11. QueueOK(<<f>>) /\ Queued(<<f>>) = d
  BY <1>9, QueuedOne
<1> QED
  BY <1>9, <1>10, <1>11, Zenon DEF f, d, e, a, b

\* What the chunk k adds to the record.
Part(k, from, to) ==
  IF Overlaps(req_cq[k], from, to) THEN <<FileChunk(req_cq[k], from, to)>> ELSE <<>>

\* Between two chunks of the content.
LEMMA ReachedIs ==
  ASSUME NEW n \in Nat, Divided(req_cq, n), NEW from \in Nat, NEW to \in Nat, from < to,
         NEW k \in Nat, k + 1 \in 1..Len(req_cq)
  PROVE  LET c == req_cq[k + 1]
             r == Reached(k, from, to)
             s == Reached(k + 1, from, to)
         IN /\ r \in Nat /\ s \in Nat /\ from <= r /\ r <= s
            /\ ~Overlaps(c, from, to) => r = s
            /\ Overlaps(c, from, to) => r = MaxOf(c.from, from) /\ s = MinOf(c.to, to)
<1> DEFINE c == req_cq[k + 1]
           r == Reached(k, from, to)
           s == Reached(k + 1, from, to)
           a == c.from
           b == c.to
<1>1. a \in Nat /\ b \in Nat /\ a < b
  BY Places
<1>2. s = MaxOf(from, MinOf(b, to))
  BY DEF Reached
<1>3. r = MaxOf(from, MinOf(a, to))
  <2>1. CASE k = 0
    <3>1. a = 0 /\ r = from
      BY <2>1, Places DEF Reached
    <3> QED
      BY <3>1 DEF MaxOf, MinOf
  <2>2. CASE k # 0
    <3>1. k \in 1..Len(req_cq) - 1 /\ r = MaxOf(from, MinOf(req_cq[k].to, to))
      BY <2>2, Places DEF Reached
    <3>2. req_cq[k].to = a
      BY <3>1, Places
    <3> QED
      BY <3>1, <3>2, Zenon
  <2> QED
    BY <2>1, <2>2
<1>4. Overlaps(c, from, to) <=> a < to /\ b > from
  BY DEF Overlaps
<1> HIDE DEF c, r, s, a, b
<1>5. r \in Nat /\ s \in Nat /\ from <= r /\ r <= s
  BY <1>1, <1>2, <1>3 DEF MaxOf, MinOf
<1>6. ~Overlaps(c, from, to) => r = s
  BY <1>1, <1>2, <1>3, <1>4 DEF MaxOf, MinOf
<1>7. Overlaps(c, from, to) => r = MaxOf(a, from) /\ s = MinOf(b, to)
  BY <1>1, <1>2, <1>3, <1>4 DEF MaxOf, MinOf
<1> QED
  BY <1>5, <1>6, <1>7, Zenon DEF c, r, s, a, b

\* The next chunk of the content.
LEMMA PartsGrow ==
  ASSUME NEW n \in Nat, Divided(req_cq, n), NEW from \in Nat, NEW to \in Nat, from < to,
         NEW k \in Nat, k + 1 \in 1..Len(req_cq), NEW g, FileParts(g, k, from, to)
  PROVE  FileParts(Cat(g, Part(k + 1, from, to)), k + 1, from, to)
<1> DEFINE c == req_cq[k + 1]
           r == Reached(k, from, to)
           s == Reached(k + 1, from, to)
           f == FileChunk(c, from, to)
           p == Part(k + 1, from, to)
           h == Cat(g, p)
<1>1. /\ r \in Nat /\ s \in Nat /\ from <= r /\ r <= s
      /\ ~Overlaps(c, from, to) => r = s
      /\ Overlaps(c, from, to) => r = MaxOf(c.from, from) /\ s = MinOf(c.to, to)
  BY ReachedIs
<1>2. /\ QueueOK(g) /\ Queued(g) = Data(from, r)
      /\ \A i \in 1..Len(g) : \E a \in 1..k :
           Overlaps(req_cq[a], from, to) /\ g[i] = FileChunk(req_cq[a], from, to)
      /\ \A a \in 1..k : Overlaps(req_cq[a], from, to) =>
           \E i \in 1..Len(g) : g[i] = FileChunk(req_cq[a], from, to)
      /\ \A i, j \in 1..Len(g) : i < j => g[i].name < g[j].name
  BY DEF FileParts
<1>3. c \in PartRec /\ c.from < c.to
  BY Places
<1>4. ASSUME ~Overlaps(c, from, to)
      PROVE  FileParts(h, k + 1, from, to)
  <2>1. p = <<>>
    BY <1>4, Zenon DEF Part
  <2>2. g \in Seq(ChunkRec)
    BY <1>2 DEF QueueOK
  <2>3. Cat(g, <<>>) = g
    BY <2>2, CatFacts
  <2>4. h = g
    BY <2>1, <2>3, Zenon
  <2>5. \A a : a \in 1..k => a \in 1..k + 1
    OBVIOUS
  <2>6. \A a \in 1..k + 1 : a \in 1..k \/ a = k + 1
    OBVIOUS
  <2>7. QueueOK(g) /\ Queued(g) = Data(from, s)
    BY <1>1, <1>2, <1>4, Zenon
  <2>8. \A i \in 1..Len(g) : \E a \in 1..k + 1 :
           Overlaps(req_cq[a], from, to) /\ g[i] = FileChunk(req_cq[a], from, to)
    BY <1>2, <2>5, Zenon
  <2>9. \A a \in 1..k + 1 : Overlaps(req_cq[a], from, to) =>
           \E i \in 1..Len(g) : g[i] = FileChunk(req_cq[a], from, to)
    BY <1>2, <1>4, <2>6, Zenon
  <2> QED
    BY <1>2, <2>4, <2>7, <2>8, <2>9, SMTT(40) DEF FileParts
<1>5. ASSUME Overlaps(c, from, to)
      PROVE  FileParts(h, k + 1, from, to)
  <2>1. p = <<f>>
    BY <1>5, Zenon DEF Part
  <2>2. QueueOK(<<f>>) /\ Queued(<<f>>) = Data(MaxOf(c.from, from), MinOf(c.to, to)) /\ f.name = c.from
    BY <1>3, <1>5, FileChunkIs
  <2>3. QueueOK(p) /\ Queued(p) = Data(r, s)
    BY <1>1, <1>5, <2>1, <2>2, Zenon
  <2>4. Len(<<f>>) = 1 /\ <<f>>[1] = f
    OBVIOUS
  <2>5. Len(p) = 1 /\ p[1] = f
    BY <2>1, <2>4, Zenon
  <2> HIDE DEF p, f
  <2>6. Queues(h, g, p)
    BY <1>2, <2>3, QueuedCat
  <2> HIDE DEF h
  <2>7. /\ QueueOK(h) /\ Queued(h) = Cat(Queued(g), Queued(p))
        /\ Len(g) \in Nat /\ Len(h) = Len(g) + 1 /\ h[Len(g) + 1] = f
        /\ \A i \in 1..Len(g) : h[i] = g[i]
    BY <2>5, <2>6 DEF Queues, Follows
  <2>8. Queued(h) = Data(from, s)
    <3>1. Cat(Data(from, r), Data(r, s)) = Data(from, s)
      BY <1>1, DataJoin
    <3> QED
      BY <1>2, <2>3, <2>7, <3>1, Zenon
  <2>9. \A i \in 1..Len(h) : i \in 1..Len(g) \/ i = Len(g) + 1
    BY <2>7
  <2>10. \A i \in 1..Len(g) : i \in 1..Len(h)
    BY <2>7
  <2>11. Len(g) + 1 \in 1..Len(h)
    BY <2>7
  <2>12. /\ \A a \in 1..k : a \in 1..k + 1
         /\ \A a \in 1..k + 1 : a \in 1..k \/ a = k + 1
         /\ k + 1 \in 1..k + 1
    OBVIOUS
  <2>13. \A i \in 1..Len(h) : \E a \in 1..k + 1 :
           Overlaps(req_cq[a], from, to) /\ h[i] = FileChunk(req_cq[a], from, to)
    <3> SUFFICES ASSUME NEW i \in 1..Len(h)
                 PROVE  \E a \in 1..k + 1 :
                          Overlaps(req_cq[a], from, to) /\ h[i] = FileChunk(req_cq[a], from, to)
      OBVIOUS
    <3>1. CASE i \in 1..Len(g)
      BY <1>2, <2>7, <2>12, <3>1, Zenon
    <3>2. CASE i = Len(g) + 1
      BY <1>5, <2>7, <2>12, <3>2, Zenon DEF f
    <3> QED
      BY <2>9, <3>1, <3>2
  <2>14. \A a \in 1..k + 1 : Overlaps(req_cq[a], from, to) =>
           \E i \in 1..Len(h) : h[i] = FileChunk(req_cq[a], from, to)
    <3> SUFFICES ASSUME NEW a \in 1..k + 1, Overlaps(req_cq[a], from, to)
                 PROVE  \E i \in 1..Len(h) : h[i] = FileChunk(req_cq[a], from, to)
      OBVIOUS
    <3>1. CASE a \in 1..k
      <4>1. PICK i \in 1..Len(g) : g[i] = FileChunk(req_cq[a], from, to)
        BY <1>2, <3>1
      <4> QED
        BY <2>7, <2>10, <4>1, Zenon
    <3>2. CASE a = k + 1
      BY <2>7, <2>11, <3>2, Zenon DEF f
    <3> QED
      BY <2>12, <3>1, <3>2
  <2>15. ASSUME NEW i \in 1..Len(g)
         PROVE  g[i].name < c.from
    <3>1. PICK a \in 1..k : Overlaps(req_cq[a], from, to) /\ g[i] = FileChunk(req_cq[a], from, to)
      BY <1>2
    <3>2. a \in 1..Len(req_cq) /\ a < k + 1
      BY Places
    <3>3. /\ req_cq[a] \in PartRec /\ req_cq[a].from < req_cq[a].to /\ req_cq[a].to <= c.from
          /\ req_cq[a].from \in Nat /\ req_cq[a].to \in Nat /\ c.from \in Nat
      BY <3>2, Places
    <3>4. g[i].name = req_cq[a].from
      BY <3>1 DEF FileChunk
    <3> HIDE DEF c
    <3> QED
      BY <3>3, <3>4
  <2>16. \A i, j \in 1..Len(h) : i < j => h[i].name < h[j].name
    <3> SUFFICES ASSUME NEW i \in 1..Len(h), NEW j \in 1..Len(h), i < j
                 PROVE  h[i].name < h[j].name
      OBVIOUS
    <3>1. i \in 1..Len(g) /\ h[i] = g[i]
      BY <2>7
    <3>2. CASE j \in 1..Len(g)
      BY <1>2, <2>7, <3>1, <3>2
    <3>3. CASE j = Len(g) + 1
      BY <2>2, <2>7, <2>15, <3>1, <3>3, Zenon
    <3> QED
      BY <2>9, <3>2, <3>3
  <2> QED
    BY <2>7, <2>8, <2>13, <2>14, <2>16, Zenon DEF FileParts
<1> QED
  BY <1>4, <1>5, Zenon

\* All chunks of the content.
LEMMA FileChunksAre ==
  ASSUME NEW n \in Nat, Divided(req_cq, n), NEW from \in Nat, NEW to \in Nat, from < to, to <= n
  PROVE  /\ FileParts(FileChunks(from, to), Len(req_cq), from, to)
         /\ Queued(FileChunks(from, to)) = Data(from, to)
<1> DEFINE N == Len(req_cq)
           w == [k \in 1..N |-> Part(k, from, to)]
           P(k) == FlattenSeq(SubSeq(w, 1, k))
           T == {k \in Nat : k <= N => FileParts(P(k), k, from, to)}
<1>1. /\ N \in Nat \ {0} /\ DOMAIN req_cq = 1..N /\ req_cq[N].to = n /\ N \in 1..N
      /\ \A k \in 1..N : req_cq[k] \in PartRec /\ req_cq[k].from < req_cq[k].to
  BY Places
<1>2. FileChunks(from, to) = FlattenSeq(w)
  BY <1>1 DEF FileChunks, Part, Overlaps
<1>3. ASSUME NEW k \in 1..N
      PROVE  Part(k, from, to) \in Seq(ChunkRec)
  <2>1. CASE Overlaps(req_cq[k], from, to)
    <3>1. QueueOK(<<FileChunk(req_cq[k], from, to)>>)
      BY <1>1, <2>1, FileChunkIs
    <3> QED
      BY <2>1, <3>1, Zenon DEF QueueOK, Part
  <2>2. CASE ~Overlaps(req_cq[k], from, to)
    BY <2>2, EmptySeq, Zenon DEF Part
  <2> QED
    BY <2>1, <2>2
<1> HIDE DEF N
<1>4. w \in Seq(Seq(ChunkRec)) /\ Len(w) = N /\ \A k \in 1..N : w[k] = Part(k, from, to)
  <2>1. \A k \in 1..N : w[k] = Part(k, from, to)
    OBVIOUS
  <2>2. w = [k \in 1..N |-> w[k]]
    OBVIOUS
  <2> HIDE DEF w
  <2>3. \A k \in 1..N : w[k] \in Seq(ChunkRec)
    BY <1>3, <2>1, Zenon
  <2>4. w \in Seq(Seq(ChunkRec)) /\ Len(w) = N
    BY <1>1, <2>2, <2>3
  <2> QED
    BY <2>1, <2>4, Zenon
<1> HIDE DEF w
<1>5. 0 \in T
  <2>1. SubSeq(w, 1, 0) = <<>>
    BY <1>1, <1>4, TakeNext
  <2>2. P(0) = <<>>
    BY <2>1, FlatEmpty, Zenon
  <2>3. QueueOK(<<>>) /\ Queued(<<>>) = <<>>
    BY EmptyQueue
  <2>4. Data(from, Reached(0, from, to)) = <<>>
    BY DataNone DEF Reached
  <2>5. Len(<<>>) = 0 /\ 1..0 = {}
    OBVIOUS
  <2>6. FileParts(<<>>, 0, from, to)
    BY <2>3, <2>4, <2>5, Zenon DEF FileParts
  <2> QED
    BY <2>2, <2>6, Zenon
<1>6. ASSUME NEW k \in Nat, k \in T
      PROVE  k + 1 \in T
  <2> SUFFICES ASSUME k + 1 <= N
               PROVE  FileParts(P(k + 1), k + 1, from, to)
    OBVIOUS
  <2>1. k < N /\ k <= N /\ k + 1 \in 1..N
    BY <1>1
  <2>2. FileParts(P(k), k, from, to)
    BY <1>6, <2>1
  <2>3. /\ SubSeq(w, 1, k) \in Seq(Seq(ChunkRec))
        /\ SubSeq(w, 1, k + 1) = Append(SubSeq(w, 1, k), w[k + 1])
    BY <1>4, <2>1, TakeNext
  <2>4. w[k + 1] = Part(k + 1, from, to) /\ w[k + 1] \in Seq(ChunkRec)
    BY <1>3, <1>4, <2>1, Zenon
  <2>5. P(k + 1) = Cat(P(k), Part(k + 1, from, to))
    BY <2>3, <2>4, FlatAppend, Zenon DEF Cat
  <2> HIDE DEF P
  <2>6. FileParts(Cat(P(k), Part(k + 1, from, to)), k + 1, from, to)
    BY <2>1, <2>2, PartsGrow DEF N
  <2> QED
    BY <2>5, <2>6, Zenon
<1> HIDE DEF T
<1>7. N \in T
  BY <1>1, <1>5, <1>6, SetInduction
<1>8. FileParts(P(N), N, from, to)
  BY <1>1, <1>7 DEF T
<1>9. P(N) = FlattenSeq(w)
  <2>1. SubSeq(w, 1, N) = w
    BY <1>4, SubSeqFull
  <2> QED
    BY <2>1, Zenon
<1>10. Reached(N, from, to) = to
  BY <1>1 DEF Reached, MaxOf, MinOf
<1>11. FileParts(FileChunks(from, to), N, from, to)
  BY <1>2, <1>8, <1>9, Zenon
<1>12. Queued(FileChunks(from, to)) = Data(from, to)
  BY <1>10, <1>11, Zenon DEF FileParts
<1> QED
  BY <1>11, <1>12, Zenon DEF N

\* A record and its files: of each file that ends in it the last part.
RecordOK(R, from, to) ==
  /\ QueueOK(R) /\ LastNamed(R) /\ Queued(R) = Cat(<<Stdin(to - from)>>, Data(from, to))
  /\ \A i \in DOMAIN R : R[i].type = "file" =>
       \E a \in DOMAIN req_cq : /\ req_cq[a].type = "file" /\ R[i].name = req_cq[a].from
                                /\ req_cq[a].to > from
                                /\ R[i].is_temp => req_cq[a].to <= to
  /\ \A a \in DOMAIN req_cq : req_cq[a].type = "file" /\ req_cq[a].to > from /\ req_cq[a].to <= to =>
       \E i \in DOMAIN R : R[i].is_temp /\ R[i].name = req_cq[a].from

LEMMA RecordIs ==
  ASSUME NEW n \in Nat, Divided(req_cq, n), NEW from \in Nat, NEW to \in Nat, from < to, to <= n
  PROVE  RecordOK(Record(from, to), from, to)
<1> DEFINE R == Record(from, to)
           h == <<Stdin(to - from)>>
           d == Data(from, to)
           F == req_cq[1].type = "file"
<1>1. to - from \in Nat /\ Stdin(to - from) \in Token /\ d \in Seq(Token)
  <2>1. to - from \in Nat /\ from <= to
    OBVIOUS
  <2>2. Stdin(to - from) \in Token
    BY <2>1, Tokens, Zenon
  <2>3. d \in Seq(Token)
    BY <2>1, DataIs, Zenon
  <2> QED
    BY <2>1, <2>2, <2>3
<1>2. h \in Seq(Token)
  BY <1>1
<1>3. /\ DOMAIN req_cq = 1..Len(req_cq) /\ 1 \in 1..Len(req_cq)
      /\ \A a \in 1..Len(req_cq) : /\ req_cq[a] \in PartRec /\ req_cq[a].type = req_cq[1].type
                                   /\ req_cq[a].from < req_cq[a].to
                                   /\ req_cq[a].from \in Nat /\ req_cq[a].to \in Nat
  BY Places
<1>4. req_cq[1].type = "mem" \/ F
  BY <1>3 DEF PartRec
<1>5. ASSUME req_cq[1].type = "mem"
      PROVE  /\ QueueOK(R) /\ LastNamed(R) /\ Queued(R) = Cat(h, d)
             /\ \A i \in DOMAIN R : R[i].type # "file"
             /\ \A a \in DOMAIN req_cq : req_cq[a].type # "file"
  <2> DEFINE t == Cat(h, d)
  <2>1. R = <<MemChunk(t)>>
    BY <1>5, Zenon DEF Record, Cat
  <2>2. t \in Seq(Token)
    BY <1>1, <1>2, CatFacts
  <2> HIDE DEF t
  <2>3. /\ QueueOK(R) /\ Queued(R) = t /\ DOMAIN R = 1..1 /\ R[1].type = "mem" /\ ~R[1].is_temp
    BY <2>1, <2>2, MemIs
  <2> HIDE DEF R
  <2>4. \A i \in DOMAIN R : i = 1
    BY <2>3
  <2>5. LastNamed(R)
    BY <2>3, <2>4, Zenon DEF LastNamed
  <2>6. \A i \in DOMAIN R : R[i].type # "file"
    BY <2>3, <2>4
  <2>7. \A a \in DOMAIN req_cq : req_cq[a].type # "file"
    BY <1>3, <1>5
  <2> QED
    BY <2>3, <2>5, <2>6, <2>7, Zenon DEF t
<1>6. ASSUME F
      PROVE  /\ QueueOK(R) /\ LastNamed(R) /\ Queued(R) = Cat(h, d)
             /\ \A i \in DOMAIN R : R[i].type = "file" =>
                  \E a \in DOMAIN req_cq : /\ req_cq[a].type = "file" /\ R[i].name = req_cq[a].from
                                           /\ req_cq[a].to > from
                                           /\ R[i].is_temp => req_cq[a].to <= to
             /\ \A a \in DOMAIN req_cq : req_cq[a].type = "file" /\ req_cq[a].to > from /\ req_cq[a].to <= to =>
                  \E i \in DOMAIN R : R[i].is_temp /\ R[i].name = req_cq[a].from
  <2> DEFINE g == FileChunks(from, to)
             m == <<MemChunk(h)>>
             N == Len(req_cq)
  <2>1. R = Cat(m, g)
    BY <1>6, Zenon DEF Record, Cat
  <2>2. FileParts(g, N, from, to) /\ Queued(g) = d
    BY FileChunksAre
  <2>3. /\ QueueOK(m) /\ Queued(m) = h /\ Len(m) = 1 /\ m[1].type = "mem" /\ ~m[1].is_temp
    BY <1>2, MemIs
  <2> HIDE DEF g, m, h, d
  <2>4. /\ QueueOK(g)
        /\ \A i \in 1..Len(g) : \E a \in 1..N :
             Overlaps(req_cq[a], from, to) /\ g[i] = FileChunk(req_cq[a], from, to)
        /\ \A a \in 1..N : Overlaps(req_cq[a], from, to) =>
             \E i \in 1..Len(g) : g[i] = FileChunk(req_cq[a], from, to)
        /\ \A i, j \in 1..Len(g) : i < j => g[i].name < g[j].name
    BY <2>2, Zenon DEF FileParts
  <2>5. Queues(Cat(m, g), m, g)
    BY <2>3, <2>4, QueuedCat
  <2> HIDE DEF R
  <2>6. Queues(R, m, g)
    BY <2>1, <2>5, Zenon
  <2>7. /\ QueueOK(R) /\ Queued(R) = Cat(Queued(m), Queued(g)) /\ DOMAIN R = 1..Len(R)
        /\ Len(g) \in Nat /\ Len(R) = 1 + Len(g) /\ R[1] = m[1]
        /\ \A i \in 1..Len(g) : R[1 + i] = g[i]
    BY <2>3, <2>6 DEF Queues, Follows
  <2>8. ASSUME NEW a \in 1..N, Overlaps(req_cq[a], from, to)
        PROVE  LET f == FileChunk(req_cq[a], from, to)
               IN /\ f.type = "file" /\ f.name = req_cq[a].from
                  /\ f.is_temp <=> req_cq[a].to <= to
    BY DEF FileChunk
  <2>9. ASSUME NEW i \in 1..Len(g)
        PROVE  \E a \in DOMAIN req_cq : /\ req_cq[a].type = "file" /\ g[i].name = req_cq[a].from
                                        /\ req_cq[a].to > from
                                        /\ g[i].is_temp => req_cq[a].to <= to
    <3>1. PICK a \in 1..N : Overlaps(req_cq[a], from, to) /\ g[i] = FileChunk(req_cq[a], from, to)
      BY <2>4
    <3>2. req_cq[a].type = "file" /\ a \in DOMAIN req_cq
      BY <1>3, <1>6
    <3>3. req_cq[a].to > from
      BY <3>1 DEF Overlaps
    <3>4. g[i].name = req_cq[a].from /\ (g[i].is_temp => req_cq[a].to <= to)
      BY <2>8, <3>1, Zenon
    <3> QED
      BY <3>2, <3>3, <3>4, Zenon
  <2>10. ASSUME NEW i \in DOMAIN R, R[i].type = "file" \/ R[i].is_temp
         PROVE  i - 1 \in 1..Len(g) /\ R[i] = g[i - 1]
    <3>1. i # 1
      BY <2>3, <2>7, <2>10
    <3>2. i - 1 \in 1..Len(g) /\ 1 + (i - 1) = i
      BY <2>7, <3>1
    <3> QED
      BY <2>7, <3>2
  <2>11. ASSUME NEW i \in DOMAIN R, R[i].type = "file"
         PROVE  \E a \in DOMAIN req_cq : /\ req_cq[a].type = "file" /\ R[i].name = req_cq[a].from
                                         /\ req_cq[a].to > from
                                         /\ R[i].is_temp => req_cq[a].to <= to
    BY <2>9, <2>10, <2>11, SMTT(40)
  <2>12. LastNamed(R)
    <3> SUFFICES ASSUME NEW i \in DOMAIN R, NEW j \in DOMAIN R, i < j, R[i].is_temp, R[j].type = "file"
                 PROVE  R[i].name # R[j].name
      BY DEF LastNamed
    <3>1. /\ i - 1 \in 1..Len(g) /\ R[i] = g[i - 1]
          /\ j - 1 \in 1..Len(g) /\ R[j] = g[j - 1]
      BY <2>10
    <3>2. i - 1 < j - 1
      BY <2>7
    <3>3. g[i - 1].name < g[j - 1].name
      BY <2>4, <3>1, <3>2
    <3>4. \A k \in 1..Len(g) : g[k].name \in Nat
      BY <1>3, <2>9
    <3> QED
      BY <3>1, <3>3, <3>4
  <2>13. ASSUME NEW a \in DOMAIN req_cq, req_cq[a].to > from, req_cq[a].to <= to
         PROVE  \E i \in DOMAIN R : R[i].is_temp /\ R[i].name = req_cq[a].from
    <3>1. a \in 1..N /\ Overlaps(req_cq[a], from, to)
      BY <1>3, <2>13 DEF Overlaps
    <3>2. PICK i \in 1..Len(g) : g[i] = FileChunk(req_cq[a], from, to)
      BY <2>4, <3>1
    <3>3. g[i].is_temp /\ g[i].name = req_cq[a].from
      BY <2>8, <2>13, <3>1, <3>2, Zenon
    <3>4. 1 + i \in DOMAIN R /\ R[1 + i] = g[i]
      BY <2>7
    <3> QED
      BY <3>3, <3>4, Zenon
  <2> QED
    BY <2>2, <2>3, <2>7, <2>11, <2>12, <2>13, Zenon
<1> HIDE DEF R
<1> QED
  BY <1>4, <1>5, <1>6, Zenon DEF R, h, d, RecordOK

\* The tokens of a record.
OneRecord(r, m, to) ==
  /\ r \in Seq(Token) /\ Len(r) = (to - m) + 1 /\ r[1] = Stdin(to - m)
  /\ \A i \in 1..to - m : r[1 + i] = <<"data", m + i>>

LEMMA RecordTokens ==
  ASSUME NEW m \in Nat, NEW to \in Nat, m < to, NEW r, r = Cat(<<Stdin(to - m)>>, Data(m, to))
  PROVE  OneRecord(r, m, to)
<1> DEFINE h == <<Stdin(to - m)>>
           d == Data(m, to)
<1>1. to - m \in Nat /\ m <= to
  OBVIOUS
<1>2. Stdin(to - m) \in Token
  BY <1>1, Tokens, Zenon
<1>3. h \in Seq(Token) /\ Len(h) = 1 /\ h[1] = Stdin(to - m)
  BY <1>2
<1>4. d \in Seq(Token) /\ Len(d) = to - m /\ \A i \in 1..to - m : d[i] = <<"data", m + i>>
  BY <1>1, DataIs, Zenon
<1> HIDE DEF h, d
<1>5. Joined(r, h, d)
  <2>1. Joined(Cat(h, d), h, d)
    BY <1>3, <1>4, TokensJoined
  <2> QED
    BY <2>1, Zenon DEF h, d
<1>6. r \in Seq(Token) /\ Len(r) = (to - m) + 1
  BY <1>1, <1>3, <1>4, <1>5 DEF Joined
<1>7. r[1] = Stdin(to - m)
  BY <1>3, <1>5 DEF Joined
<1>8. \A i \in 1..to - m : r[1 + i] = <<"data", m + i>>
  BY <1>3, <1>4, <1>5 DEF Joined
<1> QED
  BY <1>6, <1>7, <1>8, Zenon DEF OneRecord

\* The queue q is right up to m bytes of the content.
Built(q, m) ==
  /\ QueueOK(q) /\ LastNamed(q) /\ Stream(Queued(q), m, content_length)
  /\ \A i \in DOMAIN q : q[i].type = "file" =>
       \E a \in DOMAIN req_cq : /\ req_cq[a].type = "file" /\ q[i].name = req_cq[a].from
                                /\ q[i].is_temp => req_cq[a].to <= m
  /\ \A a \in DOMAIN req_cq : req_cq[a].type = "file" /\ req_cq[a].to <= m =>
       \E i \in DOMAIN q : q[i].is_temp /\ q[i].name = req_cq[a].from

\* One more record.
LEMMA BuiltGrows ==
  ASSUME content_length \in Nat, Divided(req_cq, content_length),
         NEW m \in Nat, NEW to \in Nat, m < to, to <= content_length, to - m <= FCGI_MAX_LENGTH,
         NEW q, Built(q, m)
  PROVE  Built(Cat(q, Record(m, to)), to)
<1> DEFINE R == Record(m, to)
           c == Cat(q, R)
           r == Cat(<<Stdin(to - m)>>, Data(m, to))
<1>1. /\ QueueOK(q) /\ LastNamed(q) /\ Stream(Queued(q), m, content_length)
      /\ \A i \in DOMAIN q : q[i].type = "file" =>
           \E a \in DOMAIN req_cq : /\ req_cq[a].type = "file" /\ q[i].name = req_cq[a].from
                                    /\ q[i].is_temp => req_cq[a].to <= m
      /\ \A a \in DOMAIN req_cq : req_cq[a].type = "file" /\ req_cq[a].to <= m =>
           \E i \in DOMAIN q : q[i].is_temp /\ q[i].name = req_cq[a].from
  BY Zenon DEF Built
<1>2. /\ QueueOK(R) /\ LastNamed(R) /\ Queued(R) = r
      /\ \A i \in DOMAIN R : R[i].type = "file" =>
           \E a \in DOMAIN req_cq : /\ req_cq[a].type = "file" /\ R[i].name = req_cq[a].from
                                    /\ req_cq[a].to > m
                                    /\ R[i].is_temp => req_cq[a].to <= to
      /\ \A a \in DOMAIN req_cq : req_cq[a].type = "file" /\ req_cq[a].to > m /\ req_cq[a].to <= to =>
           \E i \in DOMAIN R : R[i].is_temp /\ R[i].name = req_cq[a].from
  <2>1. RecordOK(R, m, to)
    BY RecordIs
  <2> QED
    BY <2>1, Zenon DEF RecordOK
<1>3. /\ r \in Seq(Token) /\ Len(r) = (to - m) + 1 /\ r[1] = Stdin(to - m)
      /\ \A i \in 1..to - m : r[1 + i] = <<"data", m + i>>
  <2>1. OneRecord(r, m, to)
    BY RecordTokens
  <2> QED
    BY <2>1, Zenon DEF OneRecord
<1>4. /\ DOMAIN req_cq = 1..Len(req_cq) /\ Len(req_cq) \in Nat
      /\ \A a \in 1..Len(req_cq) : /\ req_cq[a].from \in Nat /\ req_cq[a].to \in Nat
                                   /\ req_cq[a].from < req_cq[a].to
      /\ \A a, b \in 1..Len(req_cq) : a < b => req_cq[a].to <= req_cq[b].from
  BY Places
<1> HIDE DEF R, r
<1>5. Queues(c, q, R)
  BY <1>1, <1>2, QueuedCat
<1> HIDE DEF c
<1>6. /\ QueueOK(c) /\ Queued(c) = Cat(Queued(q), r)
      /\ DOMAIN c = 1..Len(c) /\ DOMAIN q = 1..Len(q) /\ DOMAIN R = 1..Len(R)
      /\ Len(q) \in Nat /\ Len(R) \in Nat /\ Len(c) = Len(q) + Len(R)
      /\ \A i \in 1..Len(q) : c[i] = q[i]
      /\ \A i \in 1..Len(R) : c[Len(q) + i] = R[i]
  BY <1>2, <1>5, Zenon DEF Queues, Follows
<1>7. Stream(Queued(c), to, content_length)
  <2> DEFINE t == Queued(q)
             k == to - m
  <2>1. k \in 1..FCGI_MAX_LENGTH /\ m + k <= content_length /\ m + k = to
    BY LengthAssumption
  <2>2. Len(r) = k + 1 /\ r[1] = Stdin(k) /\ \A i \in 1..k : r[1 + i] = <<"data", m + i>>
    BY <1>3, Zenon
  <2>3. Stream(t, m, content_length)
    BY <1>1
  <2> HIDE DEF k, t
  <2>4. Stream(Cat(t, r), m + k, content_length)
    BY <1>3, <2>1, <2>2, <2>3, StreamGrows
  <2> QED
    BY <1>6, <2>1, <2>4, Zenon DEF t
<1>8. /\ \A i \in DOMAIN q : i \in DOMAIN c
      /\ \A i \in DOMAIN R : Len(q) + i \in DOMAIN c
  BY <1>6
<1>9. \A i \in DOMAIN c : \/ i \in DOMAIN q /\ c[i] = q[i]
                          \/ i - Len(q) \in DOMAIN R /\ c[i] = R[i - Len(q)]
  <2> SUFFICES ASSUME NEW i \in DOMAIN c, ~(i \in DOMAIN q)
               PROVE  i - Len(q) \in DOMAIN R /\ c[i] = R[i - Len(q)]
    BY <1>6
  <2> DEFINE j == i - Len(q)
  <2>1. j \in 1..Len(R) /\ Len(q) + j = i
    BY <1>6
  <2> HIDE DEF j
  <2>2. c[i] = R[j]
    BY <1>6, <2>1
  <2> QED
    BY <1>6, <2>1, <2>2, Zenon DEF j
<1>10. ASSUME NEW i \in DOMAIN c, c[i].type = "file"
       PROVE  \E a \in DOMAIN req_cq : /\ req_cq[a].type = "file" /\ c[i].name = req_cq[a].from
                                       /\ c[i].is_temp => req_cq[a].to <= to
  <2>1. CASE i \in DOMAIN q /\ c[i] = q[i]
    <3>1. PICK a \in DOMAIN req_cq : /\ req_cq[a].type = "file" /\ q[i].name = req_cq[a].from
                                     /\ q[i].is_temp => req_cq[a].to <= m
      BY <1>1, <1>10, <2>1, Zenon
    <3>2. req_cq[a].to \in Nat
      BY <1>4
    <3>3. req_cq[a].to <= m => req_cq[a].to <= to
      BY <3>2
    <3> QED
      BY <2>1, <3>1, <3>3, Zenon
  <2>2. CASE i - Len(q) \in DOMAIN R /\ c[i] = R[i - Len(q)]
    BY <1>2, <1>10, <2>2, Zenon
  <2> QED
    BY <1>9, <2>1, <2>2, Zenon
<1>11. ASSUME NEW a \in DOMAIN req_cq, req_cq[a].type = "file", req_cq[a].to <= to
       PROVE  \E i \in DOMAIN c : c[i].is_temp /\ c[i].name = req_cq[a].from
  <2>1. CASE req_cq[a].to <= m
    <3>1. PICK i \in DOMAIN q : q[i].is_temp /\ q[i].name = req_cq[a].from
      BY <1>1, <1>11, <2>1, Zenon
    <3>2. i \in DOMAIN c /\ c[i] = q[i]
      BY <1>6, <1>8
    <3> QED
      BY <3>1, <3>2, Zenon
  <2>2. CASE ~(req_cq[a].to <= m)
    <3>1. req_cq[a].to > m
      BY <1>4, <2>2
    <3>2. PICK i \in DOMAIN R : R[i].is_temp /\ R[i].name = req_cq[a].from
      BY <1>2, <1>11, <3>1, Zenon
    <3>3. Len(q) + i \in DOMAIN c /\ c[Len(q) + i] = R[i]
      BY <1>6, <1>8
    <3> QED
      BY <3>2, <3>3, Zenon
  <2> QED
    BY <2>1, <2>2
<1>12. LastNamed(c)
  <2> SUFFICES ASSUME NEW i \in DOMAIN c, NEW j \in DOMAIN c, i < j, c[i].is_temp, c[j].type = "file",
                      c[i].name = c[j].name
               PROVE  FALSE
    BY DEF LastNamed
  <2>1. CASE i \in DOMAIN q /\ j \in DOMAIN q
    BY <1>1, <1>6, <2>1 DEF LastNamed
  <2>2. CASE ~(i \in DOMAIN q)
    <3>1. ~(j \in DOMAIN q)
      BY <1>6, <2>2
    <3>2. /\ i - Len(q) \in DOMAIN R /\ c[i] = R[i - Len(q)]
          /\ j - Len(q) \in DOMAIN R /\ c[j] = R[j - Len(q)]
      BY <1>9, <2>2, <3>1, Zenon
    <3>3. i - Len(q) < j - Len(q)
      BY <1>6
    <3> QED
      BY <1>2, <3>2, <3>3 DEF LastNamed
  <2>3. CASE i \in DOMAIN q /\ ~(j \in DOMAIN q)
    <3>1. c[i] = q[i] /\ j - Len(q) \in DOMAIN R /\ c[j] = R[j - Len(q)]
      BY <1>6, <1>9, <2>3, Zenon
    <3>2. c[i].type = "file"
      BY <1>6 DEF QueueOK
    <3>3. PICK a \in DOMAIN req_cq : c[i].name = req_cq[a].from /\ req_cq[a].to <= m
      BY <1>1, <2>3, <3>1, <3>2, Zenon
    <3> DEFINE y == j - Len(q)
    <3> HIDE DEF y
    <3>8. y \in DOMAIN R /\ c[j] = R[y] /\ R[y].type = "file"
      BY <3>1, Zenon DEF y
    <3>4. PICK b \in DOMAIN req_cq : c[j].name = req_cq[b].from /\ req_cq[b].to > m
      BY <1>2, <3>8
    <3>5. /\ req_cq[a].from \in Nat /\ req_cq[a].to \in Nat /\ req_cq[a].from < req_cq[a].to
          /\ req_cq[b].from \in Nat /\ req_cq[b].to \in Nat /\ req_cq[b].from < req_cq[b].to
          /\ a \in Nat /\ b \in Nat
          /\ a < b => req_cq[a].to <= req_cq[b].from
          /\ b < a => req_cq[b].to <= req_cq[a].from
      BY <1>4
    <3>6. req_cq[a].from = req_cq[b].from
      BY <3>3, <3>4
    <3>7. a = b
      BY <3>5, <3>6
    <3> QED
      BY <3>3, <3>4, <3>5, <3>7
  <2> QED
    BY <2>1, <2>2, <2>3
<1> QED
  BY <1>6, <1>7, <1>10, <1>11, <1>12, Zenon DEF Built, c, R

\* c records of f bytes at most for a content of n.
Enough(c, n, f) ==
  /\ c \in Nat /\ (n = 0 => c = 0) /\ (n > 0 => c > 0)
  /\ MinOf(c * f, n) = n
  /\ \A r \in 0..c - 1 : /\ r * f \in Nat /\ r * f < n /\ MinOf(r * f, n) = r * f
                         /\ MinOf((r + 1) * f, n) \in Nat /\ MinOf((r + 1) * f, n) <= n
                         /\ r * f < MinOf((r + 1) * f, n)
                         /\ MinOf((r + 1) * f, n) - r * f <= f

LEMMA RecordCount ==
  ASSUME NEW n \in Nat, NEW f \in Nat \ {0}, NEW c, c = (n + f - 1) \div f
  PROVE  Enough(c, n, f)
<1> DEFINE x == n + f - 1
<1>1. x \in Nat /\ x = n + (f - 1)
  OBVIOUS
<1> HIDE DEF x
<1>2. c \in Nat /\ c * f <= x /\ x < c * f + f
  BY <1>1 DEF x
<1>3. c * f \in Nat /\ n <= c * f
  BY <1>1, <1>2
<1>4. MinOf(c * f, n) = n
  BY <1>3 DEF MinOf
<1>5. n = 0 => c = 0
  BY <1>1, <1>2
<1>6. n > 0 => c > 0
  BY <1>1, <1>2
<1>7. ASSUME NEW r \in 0..c - 1
      PROVE  /\ r * f \in Nat /\ r * f < n /\ MinOf(r * f, n) = r * f
             /\ MinOf((r + 1) * f, n) \in Nat /\ MinOf((r + 1) * f, n) <= n
             /\ r * f < MinOf((r + 1) * f, n)
             /\ MinOf((r + 1) * f, n) - r * f <= f
  <2> DEFINE a == r * f
             b == (r + 1) * f
             e == c * f
  <2>1. a \in Nat /\ b = a + f
    BY <1>2
  <2>2. (r + 1) \in Nat /\ c - (r + 1) \in Nat
    BY <1>2
  <2>3. e = b + (c - (r + 1)) * f /\ (c - (r + 1)) * f \in Nat
    BY <1>2, <2>2
  <2> HIDE DEF a, b, e
  <2>4. b <= e /\ e <= x
    BY <1>2, <2>1, <2>3 DEF e
  <2>5. a < n
    BY <1>1, <2>1, <2>4, <1>3 DEF e
  <2>6. /\ a \in Nat /\ a < n /\ MinOf(a, n) = a
        /\ MinOf(b, n) \in Nat /\ MinOf(b, n) <= n
        /\ a < MinOf(b, n) /\ MinOf(b, n) - a <= f
    BY <2>1, <2>5 DEF MinOf
  <2> QED
    BY <2>6, Zenon DEF a, b
<1> QED
  BY <1>2, <1>4, <1>5, <1>6, <1>7, Zenon DEF Enough

\* The queue before the first record.
LEMMA BuiltFirst ==
  ASSUME content_length \in Nat, Divided(req_cq, content_length)
  PROVE  Built(<<MemChunk(<<Params>>)>>, 0)
<1> DEFINE q == <<MemChunk(<<Params>>)>>
<1>1. <<Params>> \in Seq(Token)
  BY Tokens
<1>2. QueueOK(q) /\ Queued(q) = <<Params>> /\ DOMAIN q = 1..1 /\ q[1].type = "mem" /\ ~q[1].is_temp
  BY <1>1, MemIs
<1> HIDE DEF q
<1>3. \A i \in DOMAIN q : q[i].type # "file" /\ ~q[i].is_temp
  <2>1. \A i \in DOMAIN q : i = 1
    BY <1>2
  <2> QED
    BY <1>2, <2>1
<1>4. LastNamed(q)
  BY <1>3, Zenon DEF LastNamed
<1>5. Stream(Queued(q), 0, content_length)
  BY <1>2, StreamBegins, Zenon
<1>6. \A a \in DOMAIN req_cq : ~(req_cq[a].to <= 0)
  BY Places
<1> QED
  BY <1>2, <1>3, <1>4, <1>5, <1>6, Zenon DEF Built, q

\* All records.
LEMMA RecordsBuilt ==
  ASSUME content_length \in Nat, content_length > 0, Divided(req_cq, content_length)
  PROVE  /\ Built(Cat(<<MemChunk(<<Params>>)>>, Records), content_length)
         /\ Records \in Seq(ChunkRec)
<1> DEFINE n == content_length
           F == FCGI_MAX_LENGTH
           count == (n + F - 1) \div F
           start == <<MemChunk(<<Params>>)>>
           E(r) == MinOf(r * F, n)
           w == [r \in 1..count |-> Record((r - 1) * F, E(r))]
           P(r) == FlattenSeq(SubSeq(w, 1, r))
           T == {r \in Nat : r <= count => P(r) \in Seq(ChunkRec) /\ Built(Cat(start, P(r)), E(r))}
<1>1. Records = FlattenSeq(w)
  BY DEF Records
<1>2. F \in Nat \ {0} /\ n \in Nat /\ n > 0
  BY LengthAssumption
<1>3. Enough(count, n, F)
  <2> HIDE DEF n, F, count
  <2>1. count = (n + F - 1) \div F
    BY DEF count
  <2> QED
    BY <1>2, <2>1, RecordCount
<1>4. Built(start, 0)
  BY BuiltFirst
<1> HIDE DEF count, n, F, start
<1>5. /\ count \in Nat \ {0} /\ E(count) = n
      /\ \A r \in 0..count - 1 : /\ r * F \in Nat /\ E(r) = r * F
                                 /\ E(r + 1) \in Nat /\ E(r + 1) <= n
                                 /\ r * F < E(r + 1)
                                 /\ E(r + 1) - r * F <= F
  <2>1. count \in Nat /\ count > 0
    BY <1>2, <1>3, Zenon DEF Enough
  <2>2. count \in Nat \ {0}
    BY <2>1
  <2> QED
    BY <1>3, <2>2, Zenon DEF Enough
<1> HIDE DEF E
<1>6. ASSUME NEW r \in 1..count
      PROVE  /\ Record((r - 1) * F, E(r)) \in Seq(ChunkRec)
             /\ \A q : Built(q, E(r - 1)) => Built(Cat(q, Record((r - 1) * F, E(r))), E(r))
  <2> DEFINE a == (r - 1) * F
             b == E(r)
  <2>1. r - 1 \in 0..count - 1 /\ (r - 1) + 1 = r
    BY <1>5
  <2>2. a \in Nat /\ E(r - 1) = a /\ b \in Nat /\ b <= n /\ a < b /\ b - a <= F
    BY <1>5, <2>1
  <2> HIDE DEF a, b
  <2>3. RecordOK(Record(a, b), a, b)
    BY <2>2, RecordIs DEF n
  <2>4. Record(a, b) \in Seq(ChunkRec)
    BY <2>3, Zenon DEF RecordOK, QueueOK
  <2>5. ASSUME NEW q, Built(q, a)
        PROVE  Built(Cat(q, Record(a, b)), b)
    BY <2>2, <2>5, BuiltGrows DEF n, F
  <2> QED
    BY <2>2, <2>4, <2>5, Zenon DEF a, b
<1>7. w \in Seq(Seq(ChunkRec)) /\ Len(w) = count /\ \A r \in 1..count : w[r] = Record((r - 1) * F, E(r))
  <2>1. \A r \in 1..count : w[r] = Record((r - 1) * F, E(r))
    OBVIOUS
  <2>2. w = [r \in 1..count |-> w[r]]
    OBVIOUS
  <2> HIDE DEF w
  <2>3. \A r \in 1..count : w[r] \in Seq(ChunkRec)
    BY <1>6, <2>1, Zenon
  <2>4. w \in Seq(Seq(ChunkRec)) /\ Len(w) = count
    BY <1>5, <2>2, <2>3
  <2> QED
    BY <2>1, <2>4, Zenon
<1> HIDE DEF w
<1>8. start \in Seq(ChunkRec)
  BY <1>4, Zenon DEF Built, QueueOK
<1>9. 0 \in T
  <2>1. SubSeq(w, 1, 0) = <<>>
    BY <1>5, <1>7, TakeNext
  <2>2. P(0) = <<>>
    BY <2>1, FlatEmpty, Zenon
  <2>3. Cat(start, <<>>) = start /\ <<>> \in Seq(ChunkRec)
    BY <1>8, CatFacts, EmptySeq
  <2>4. E(0) = 0
    BY <1>2 DEF E, MinOf
  <2>5. P(0) \in Seq(ChunkRec) /\ Built(Cat(start, P(0)), E(0))
    BY <1>4, <2>2, <2>3, <2>4, Zenon
  <2> HIDE DEF P
  <2> QED
    BY <2>5
<1>10. ASSUME NEW r \in Nat, r \in T
       PROVE  r + 1 \in T
  <2> SUFFICES ASSUME r + 1 <= count
               PROVE  P(r + 1) \in Seq(ChunkRec) /\ Built(Cat(start, P(r + 1)), E(r + 1))
    OBVIOUS
  <2> DEFINE s == r + 1
             R == Record((s - 1) * F, E(s))
  <2>1. r < count /\ s \in 1..count /\ s - 1 = r
    BY <1>5
  <2> HIDE DEF P
  <2>2. P(r) \in Seq(ChunkRec) /\ Built(Cat(start, P(r)), E(r))
    <3>1. r <= count
      BY <1>5, <2>1
    <3>2. r <= count => P(r) \in Seq(ChunkRec) /\ Built(Cat(start, P(r)), E(r))
      BY <1>10, Zenon
    <3> QED
      BY <3>1, <3>2, Zenon
  <2>3. /\ SubSeq(w, 1, r) \in Seq(Seq(ChunkRec))
        /\ SubSeq(w, 1, s) = Append(SubSeq(w, 1, r), w[s])
    BY <1>5, <1>7, <2>1, TakeNext
  <2> HIDE DEF s
  <2>4. w[s] = R /\ R \in Seq(ChunkRec)
    BY <1>6, <1>7, <2>1, Zenon
  <2>5. P(s) = Cat(P(r), R)
    BY <2>3, <2>4, FlatAppend, Zenon DEF Cat, P
  <2>6. \A q : Built(q, E(r)) => Built(Cat(q, R), E(s))
    BY <1>6, <2>1, Zenon
  <2> HIDE DEF R
  <2>7. Built(Cat(Cat(start, P(r)), R), E(s))
    BY <2>2, <2>6, Zenon
  <2>8. Cat(Cat(start, P(r)), R) = Cat(start, Cat(P(r), R))
    BY <1>8, <2>2, <2>4, CatAssociative
  <2>9. Cat(P(r), R) \in Seq(ChunkRec)
    BY <2>2, <2>4, CatFacts
  <2> QED
    BY <2>5, <2>7, <2>8, <2>9, Zenon DEF s
<1> HIDE DEF T
<1>11. count \in T
  BY <1>5, <1>9, <1>10, SetInduction
<1>12. P(count) \in Seq(ChunkRec) /\ Built(Cat(start, P(count)), E(count))
  BY <1>5, <1>11 DEF T
<1>13. P(count) = FlattenSeq(w)
  <2>1. SubSeq(w, 1, count) = w
    BY <1>7, SubSeqFull
  <2> QED
    BY <2>1, Zenon
<1> QED
  BY <1>1, <1>5, <1>12, <1>13, Zenon DEF n, start

\* No content.
LEMMA RecordsNone ==
  ASSUME content_length = 0
  PROVE  Records = <<>>
<1> DEFINE F == FCGI_MAX_LENGTH
           count == (content_length + F - 1) \div F
           w == [r \in 1..count |-> Record((r - 1) * F, MinOf(r * F, content_length))]
<1>1. F \in Nat \ {0} /\ content_length \in Nat
  BY LengthAssumption
<1>2. Enough(count, content_length, F)
  <2> HIDE DEF F, count
  <2>1. count = (content_length + F - 1) \div F
    BY DEF count
  <2> QED
    BY <1>1, <2>1, RecordCount
<1>3. count = 0
  BY <1>2, Zenon DEF Enough
<1>4. Records = FlattenSeq(w)
  BY DEF Records
<1> HIDE DEF count
<1>5. w = <<>>
  BY <1>3
<1> QED
  BY <1>4, <1>5, FlatEmpty, Zenon

-----------------------------------------------------------------------------
(* The queue is built, and the invariant holds.                            *)

\* The content is there: a first attempt.
LEMMA FirstCreateKeeps ==
  ASSUME IInv, fcgi_create_env, req_cq # <<>>
  PROVE  IInv'
<1> DEFINE n == content_length
           start == <<MemChunk(<<Params>>)>>
           last == <<MemChunk(<<Stdin(0)>>)>>
           b == Cat(start, Records)
<1>1. /\ content_length \in 0..MaxContent /\ reconnects \in Nat /\ sent \in Seq(Token)
      /\ ContentThere /\ (pc = "INIT" => FilesOwned)
  BY Zenon DEF IInv
<1>2. /\ pc = "INIT" /\ pc' = "WRITE" /\ req_cq' = <<>>
      /\ wb' = wb \o start \o Records \o last
      /\ content_length' = n /\ files' = files /\ sent' = sent /\ reconnects' = reconnects
  BY DEF fcgi_create_env
<1>3. /\ Divided(req_cq, n) /\ n > 0 /\ wb = <<>> /\ reconnects = 0 /\ sent = <<>>
      /\ \A k \in DOMAIN req_cq : req_cq[k].type = "file" => req_cq[k].from \in files
  BY <1>1, <1>2 DEF ContentThere
<1>4. n \in Nat
  BY <1>1, LengthAssumption
<1>5. Built(b, n) /\ Records \in Seq(ChunkRec)
  BY <1>3, <1>4, RecordsBuilt
<1>6. Built(start, 0)
  BY <1>3, <1>4, BuiltFirst
<1>7. start \in Seq(ChunkRec)
  BY <1>6, Zenon DEF Built, QueueOK
<1> HIDE DEF start, last, n
<1>8. wb' = Cat(b, last)
  <2>1. wb' = Cat(Cat(Cat(<<>>, start), Records), last)
    BY <1>2, <1>3, Zenon DEF Cat
  <2>2. Cat(<<>>, start) = start
    BY <1>7, CatFacts
  <2> QED
    BY <2>1, <2>2, Zenon
<1> HIDE DEF b
<1>9. <<Stdin(0)>> \in Seq(Token)
  <2>1. Stdin(0) \in Token
    BY Tokens
  <2> QED
    BY <2>1
<1>10. /\ QueueOK(b) /\ LastNamed(b) /\ Stream(Queued(b), n, n)
       /\ \A i \in DOMAIN b : b[i].type = "file" =>
            \E a \in DOMAIN req_cq : req_cq[a].type = "file" /\ b[i].name = req_cq[a].from
       /\ \A a \in DOMAIN req_cq : req_cq[a].type = "file" /\ req_cq[a].to <= n =>
            \E i \in DOMAIN b : b[i].is_temp /\ b[i].name = req_cq[a].from
  BY <1>5, Zenon DEF Built, n
<1>11. /\ QueueOK(wb') /\ LastNamed(wb') /\ Queued(wb') = Cat(Queued(b), <<Stdin(0)>>)
       /\ \A k \in DOMAIN b : k \in DOMAIN wb' /\ wb'[k] = b[k]
       /\ \A k \in DOMAIN wb' : wb'[k].type = "file" => k \in DOMAIN b /\ wb'[k] = b[k]
  <2> DEFINE t == <<Stdin(0)>>
  <2>1. wb' = Cat(b, <<MemChunk(t)>>)
    BY <1>8, Zenon DEF last
  <2>2. t \in Seq(Token)
    BY <1>9
  <2> HIDE DEF t
  <2> DEFINE c == Cat(b, <<MemChunk(t)>>)
  <2>3. /\ QueueOK(c) /\ LastNamed(c) /\ Queued(c) = Cat(Queued(b), t)
        /\ \A k \in DOMAIN b : k \in DOMAIN c /\ c[k] = b[k]
        /\ \A k \in DOMAIN c : c[k].type = "file" => k \in DOMAIN b /\ c[k] = b[k]
    BY <1>10, <2>2, MemAdded
  <2> HIDE DEF c
  <2>4. wb' = c
    BY <2>1, Zenon DEF c
  <2> QED
    BY <2>3, <2>4, Zenon DEF t
<1>12. Full(Cat(sent', Queued(wb')), n)
  <2>1. Full(Cat(Queued(b), <<Stdin(0)>>), n)
    BY <1>4, <1>10, StreamEnds
  <2>2. Full(Queued(wb'), n) /\ Queued(wb') \in Seq(Token)
    BY <1>11, <2>1, Zenon DEF Full, Begun
  <2>3. Cat(<<>>, Queued(wb')) = Queued(wb')
    BY <2>2, CatFacts
  <2>4. sent' = <<>>
    BY <1>2, <1>3
  <2> QED
    BY <2>2, <2>3, <2>4, Zenon
<1>13. FilesThere'
  <2> SUFFICES ASSUME NEW k \in DOMAIN wb', wb'[k].type = "file"
               PROVE  wb'[k].name \in files'
    BY DEF FilesThere
  <2>1. k \in DOMAIN b /\ b[k].type = "file" /\ wb'[k] = b[k]
    BY <1>11, Zenon
  <2> QED
    BY <1>2, <1>3, <1>10, <2>1, Zenon
<1>14. FilesOwned'
  <2> SUFFICES ASSUME NEW f \in files'
               PROVE  \E k \in DOMAIN wb' : wb'[k].is_temp /\ wb'[k].name = f
    BY DEF FilesOwned
  <2>1. f \in files /\ DOMAIN wb = {}
    BY <1>2, <1>3
  <2>2. PICK a \in DOMAIN req_cq : req_cq[a].type = "file" /\ req_cq[a].from = f
    BY <1>1, <1>2, <2>1 DEF FilesOwned
  <2>3. req_cq[a].to <= n
    BY <1>3, <1>4, Places
  <2>4. PICK k \in DOMAIN b : b[k].is_temp /\ b[k].name = f
    BY <1>10, <2>2, <2>3, Zenon
  <2> QED
    BY <1>11, <2>4, Zenon
<1>15. ContentThere'
  BY <1>2 DEF ContentThere
<1>16. (reconnects = 0 => Begun(sent, content_length))'
  <2>1. reconnects = 0 => Begun(sent, content_length)
    BY Zenon DEF IInv
  <2> QED
    BY <1>2, <2>1, Zenon DEF n
<1>17. (reconnects = 0 /\ pc \in {"WRITE", "READ"} => Full(Cat(sent, Queued(wb)), content_length))'
  BY <1>2, <1>12, Zenon DEF n
<1>18. /\ content_length' \in 0..MaxContent /\ reconnects' \in Nat /\ sent' \in Seq(Token)
       /\ (QueueOK(wb) /\ LastNamed(wb))'
  BY <1>1, <1>2, <1>11, Zenon DEF n
<1>19. pc' \in {"INIT", "WRITE", "READ", "gone", "crash"} /\ ~(pc' \in {"READ", "gone"})
  BY <1>2
<1> QED
  BY <1>13, <1>14, <1>15, <1>16, <1>17, <1>18, <1>19, Zenon DEF IInv

\* No content: what an earlier attempt has left is still in the queue.
LEMMA NoContentKeeps ==
  ASSUME IInv, fcgi_create_env, req_cq = <<>>, ~(content_length > 0)
  PROVE  IInv'
<1> DEFINE p == <<Params>>
           e == <<Stdin(0)>>
           b == Cat(wb, <<MemChunk(p)>>)
           c == Cat(b, <<MemChunk(e)>>)
<1>1. /\ content_length \in 0..MaxContent /\ reconnects \in Nat /\ sent \in Seq(Token)
      /\ ContentThere /\ (pc = "INIT" => FilesOwned) /\ QueueOK(wb) /\ LastNamed(wb) /\ FilesThere
      /\ reconnects = 0 => Begun(sent, content_length)
  BY Zenon DEF IInv
<1>2. content_length = 0
  BY <1>1, LengthAssumption
<1>3. /\ pc = "INIT" /\ pc' = "WRITE" /\ req_cq' = <<>>
      /\ wb' = wb \o <<MemChunk(p)>> \o Records \o <<MemChunk(e)>>
      /\ content_length' = content_length /\ files' = files /\ sent' = sent /\ reconnects' = reconnects
  BY DEF fcgi_create_env
<1>4. p \in Seq(Token) /\ e \in Seq(Token)
  <2>1. Params \in Token /\ Stdin(0) \in Token
    BY Tokens
  <2> QED
    BY <2>1
<1>5. reconnects = 0 => sent = <<>> /\ wb = <<>>
  BY <1>1, <1>3 DEF ContentThere
<1> HIDE DEF p, e
<1>6. /\ QueueOK(b) /\ LastNamed(b) /\ Queued(b) = Cat(Queued(wb), p)
      /\ \A k \in DOMAIN wb : k \in DOMAIN b /\ b[k] = wb[k]
      /\ \A k \in DOMAIN b : b[k].type = "file" => k \in DOMAIN wb /\ b[k] = wb[k]
  BY <1>1, <1>4, MemAdded
<1>7. wb' = c
  <2>1. Records = <<>>
    BY <1>2, RecordsNone
  <2>2. wb' = Cat(Cat(b, <<>>), <<MemChunk(e)>>)
    BY <1>3, <2>1, Zenon DEF Cat
  <2>3. b \in Seq(ChunkRec)
    BY <1>6, Zenon DEF QueueOK
  <2> HIDE DEF b
  <2>4. Cat(b, <<>>) = b
    BY <2>3, CatFacts
  <2> QED
    BY <2>2, <2>4, Zenon
<1> HIDE DEF b
<1>8. /\ QueueOK(c) /\ LastNamed(c) /\ Queued(c) = Cat(Queued(b), e)
      /\ \A k \in DOMAIN b : k \in DOMAIN c /\ c[k] = b[k]
      /\ \A k \in DOMAIN c : c[k].type = "file" => k \in DOMAIN b /\ c[k] = b[k]
  BY <1>4, <1>6, MemAdded
<1> HIDE DEF c
<1>9. /\ \A k \in DOMAIN wb : k \in DOMAIN wb' /\ wb'[k] = wb[k]
      /\ \A k \in DOMAIN wb' : wb'[k].type = "file" => k \in DOMAIN wb /\ wb'[k] = wb[k]
  BY <1>6, <1>7, <1>8, Zenon
<1>10. QueueOK(wb)' /\ LastNamed(wb)'
  BY <1>7, <1>8, Zenon
<1>11. FilesThere'
  BY <1>1, <1>3, <1>9, Zenon DEF FilesThere
<1>12. FilesOwned'
  <2> SUFFICES ASSUME NEW f \in files'
               PROVE  \E k \in DOMAIN wb' : wb'[k].is_temp /\ wb'[k].name = f
    BY DEF FilesOwned
  <2>1. f \in files /\ DOMAIN req_cq = {}
    BY <1>3
  <2>2. PICK k \in DOMAIN wb : wb[k].is_temp /\ wb[k].name = f
    BY <1>1, <1>3, <2>1 DEF FilesOwned
  <2> QED
    BY <1>9, <2>2, Zenon
<1>13. ContentThere'
  BY <1>3 DEF ContentThere
<1>14. ASSUME reconnects = 0
       PROVE  Full(Cat(sent', Queued(wb')), 0)
  <2>1. Stream(p, 0, 0)
    BY StreamBegins DEF p
  <2>2. Full(Cat(p, e), 0)
    BY <2>1, StreamEnds DEF e
  <2>3. Queued(wb) = <<>> /\ Cat(<<>>, p) = p
    BY <1>4, <1>5, <1>14, EmptyQueue, CatFacts
  <2>4. Queued(wb') = Cat(p, e)
    BY <1>6, <1>7, <1>8, <2>3, Zenon
  <2>5. Full(Queued(wb'), 0) /\ Queued(wb') \in Seq(Token)
    BY <2>2, <2>4, Zenon DEF Full, Begun
  <2>6. Cat(<<>>, Queued(wb')) = Queued(wb')
    BY <2>5, CatFacts
  <2>7. sent' = <<>>
    BY <1>3, <1>5, <1>14
  <2> QED
    BY <2>5, <2>6, <2>7, Zenon
<1>15. (reconnects = 0 => Begun(sent, content_length))'
  BY <1>1, <1>3, Zenon
<1>16. (reconnects = 0 /\ pc \in {"WRITE", "READ"} => Full(Cat(sent, Queued(wb)), content_length))'
  BY <1>2, <1>3, <1>14, Zenon
<1>17. content_length' \in 0..MaxContent /\ reconnects' \in Nat /\ sent' \in Seq(Token)
  BY <1>1, <1>3, Zenon
<1>18. pc' \in {"INIT", "WRITE", "READ", "gone", "crash"} /\ ~(pc' \in {"READ", "gone"})
  BY <1>3
<1> QED
  BY <1>10, <1>11, <1>12, <1>13, <1>15, <1>16, <1>17, <1>18, Zenon DEF IInv

LEMMA CreateKeeps ==
  ASSUME IInv, fcgi_create_env
  PROVE  IInv'
<1>1. CASE req_cq # <<>>
  BY <1>1, FirstCreateKeeps
<1>2. CASE req_cq = <<>> /\ ~(content_length > 0)
  BY <1>2, NoContentKeeps
<1>3. CASE req_cq = <<>> /\ content_length > 0
  <2>1. /\ pc' = "crash" /\ wb' = wb /\ req_cq' = req_cq /\ content_length' = content_length
        /\ files' = files /\ sent' = sent /\ reconnects' = reconnects
    BY <1>3 DEF fcgi_create_env
  <2>2. /\ content_length \in 0..MaxContent /\ reconnects \in Nat /\ sent \in Seq(Token)
        /\ QueueOK(wb) /\ LastNamed(wb) /\ FilesThere
        /\ reconnects = 0 => Begun(sent, content_length)
    BY Zenon DEF IInv
  <2>3. FilesThere'
    BY <2>1, <2>2, Zenon DEF FilesThere
  <2>4. ContentThere'
    BY <1>3, <2>1 DEF ContentThere
  <2>5. /\ pc' \in {"INIT", "WRITE", "READ", "gone", "crash"} /\ ~(pc' \in {"READ", "gone"})
        /\ ~(pc' \in {"INIT", "WRITE", "READ"}) /\ ~(pc' \in {"WRITE", "READ"})
    BY <2>1
  <2>6. /\ content_length' \in 0..MaxContent /\ reconnects' \in Nat /\ sent' \in Seq(Token)
        /\ (QueueOK(wb) /\ LastNamed(wb))'
        /\ (reconnects = 0 => Begun(sent, content_length))'
    BY <2>1, <2>2, Zenon
  <2> QED
    BY <2>3, <2>4, <2>5, <2>6, Zenon DEF IInv
<1> QED
  BY <1>1, <1>2, <1>3

-----------------------------------------------------------------------------
(* The content at first.                                                   *)

Below(S, p) == {q \in S : q < p}

\* How many members of a set are below one of them.
LEMMA BelowIs ==
  ASSUME NEW S \in SUBSET Nat, IsFiniteSet(S), NEW p \in S
  PROVE  /\ Cardinality(S) \in Nat /\ Cardinality(Below(S, p)) \in 0..Cardinality(S) - 1
         /\ \A q \in S : p < q => Cardinality(Below(S, p)) < Cardinality(Below(S, q))
         /\ ~(\E q \in S : q < p) => Cardinality(Below(S, p)) = 0
         /\ ~(\E q \in S : p < q) => Cardinality(Below(S, p)) = Cardinality(S) - 1
         /\ \A q \in S : p < q /\ ~(\E r \in S : p < r /\ r < q) =>
              Cardinality(Below(S, q)) = Cardinality(Below(S, p)) + 1
<1> DEFINE B == Below(S, p)
           C == B \cup {p}
<1>1. B \in SUBSET S /\ p \notin B
  BY DEF Below
<1>2. /\ Cardinality(S) \in Nat /\ IsFiniteSet(B) /\ Cardinality(B) \in Nat
  BY <1>1, FS_Subset, FS_CardinalityType
<1>3. IsFiniteSet(C) /\ Cardinality(C) = Cardinality(B) + 1
  BY <1>1, <1>2, FS_AddElement
<1>4. C \in SUBSET S
  BY <1>1
<1>5. Cardinality(C) <= Cardinality(S)
  BY <1>4, FS_Subset
<1>6. ASSUME NEW q \in S, p < q
      PROVE  Cardinality(B) < Cardinality(Below(S, q))
  <2>1. C \in SUBSET Below(S, q) /\ Below(S, q) \in SUBSET S
    <3>1. p \in Nat /\ q \in Nat
      OBVIOUS
    <3>2. \A r \in B : r \in S /\ r \in Nat /\ r < p
      BY DEF Below
    <3> HIDE DEF B
    <3>3. \A r \in C : r \in S /\ r < q
      BY <1>6, <3>1, <3>2
    <3> QED
      BY <3>3 DEF Below
  <2>2. IsFiniteSet(Below(S, q))
    BY <2>1, FS_Subset
  <2>3. Cardinality(C) <= Cardinality(Below(S, q)) /\ Cardinality(Below(S, q)) \in Nat
    BY <2>1, <2>2, FS_Subset, FS_CardinalityType
  <2> QED
    BY <1>2, <1>3, <2>3
<1>7. ASSUME ~(\E q \in S : q < p)
      PROVE  Cardinality(B) = 0
  <2>1. B = {}
    BY <1>7 DEF Below
  <2> QED
    BY <2>1, FS_EmptySet
<1>8. ASSUME ~(\E q \in S : p < q)
      PROVE  Cardinality(B) = Cardinality(S) - 1
  <2>1. \A q \in S : q \in C
    BY <1>8 DEF Below
  <2>2. S = C
    BY <1>4, <2>1
  <2>3. Cardinality(S) = Cardinality(B) + 1
    BY <1>3, <2>2, Zenon
  <2> HIDE DEF B
  <2> QED
    BY <1>2, <2>3
<1>9. ASSUME NEW q \in S, p < q, ~(\E r \in S : p < r /\ r < q)
      PROVE  Cardinality(Below(S, q)) = Cardinality(B) + 1
  <2>1. p \in Nat /\ q \in Nat
    OBVIOUS
  <2>2. \A r : r \in C <=> r \in S /\ (r < p \/ r = p)
    BY DEF Below
  <2>3. \A r : r \in Below(S, q) <=> r \in S /\ r < q
    BY DEF Below
  <2>4. \A r \in S : r < q <=> r < p \/ r = p
    BY <1>9, <2>1
  <2> HIDE DEF C
  <2>5. C = Below(S, q)
    BY <2>2, <2>3, <2>4
  <2> QED
    BY <1>3, <2>5
<1> HIDE DEF B, C
<1>10. Cardinality(B) \in 0..Cardinality(S) - 1
  BY <1>2, <1>3, <1>5
<1> QED
  BY <1>2, <1>6, <1>7, <1>8, <1>9, <1>10, Zenon DEF B

\* Each number of members below is that of one member.
LEMMA BelowAll ==
  ASSUME NEW S \in SUBSET Nat, IsFiniteSet(S), S # {}
  PROVE  \A k \in 0..Cardinality(S) - 1 : \E p \in S : Cardinality(Below(S, p)) = k
<1> DEFINE M == Cardinality(S)
           c(p) == Cardinality(Below(S, p))
           T == {k \in Nat : k < M => \E p \in S : c(p) = k}
<1>1. M \in Nat
  BY FS_CardinalityType
<1>2. 0 \in T
  <2>1. PICK p \in S : \A q \in S : p <= q
    BY Least
  <2>2. ~(\E q \in S : q < p)
    BY <2>1
  <2>3. c(p) = 0
    BY <2>2, BelowIs
  <2> HIDE DEF c
  <2> QED
    BY <2>3
<1>3. ASSUME NEW k \in Nat, k \in T
      PROVE  k + 1 \in T
  <2> SUFFICES ASSUME k + 1 < M
               PROVE  \E p \in S : c(p) = k + 1
    OBVIOUS
  <2>1. k < M
    BY <1>1
  <2>2. PICK p \in S : c(p) = k
    BY <1>3, <2>1
  <2> DEFINE U == {q \in S : p < q}
  <2>3. U # {}
    <3> SUFFICES ASSUME U = {}
                 PROVE  FALSE
      OBVIOUS
    <3>1. ~(\E q \in S : p < q)
      OBVIOUS
    <3>2. c(p) = M - 1
      BY <3>1, BelowIs
    <3> QED
      BY <1>1, <2>2, <3>2
  <2>4. PICK q \in U : \A r \in U : q <= r
    BY <2>3, Least
  <2>5. q \in S /\ p < q /\ ~(\E r \in S : p < r /\ r < q)
    BY <2>4
  <2>6. c(q) = c(p) + 1
    BY <2>5, BelowIs
  <2> HIDE DEF c
  <2> QED
    BY <2>2, <2>5, <2>6
<1> HIDE DEF T
<1>4. \A k \in Nat : k \in T
  BY <1>2, <1>3, SetInduction
<1>5. ASSUME NEW k \in 0..M - 1
      PROVE  \E p \in S : c(p) = k
  <2>1. k \in Nat /\ k < M
    BY <1>1
  <2> QED
    BY <1>4, <2>1 DEF T
<1> QED
  BY <1>5

\* The content is divided at the places.
LEMMA CutIs ==
  ASSUME NEW n \in Nat, NEW type \in {"mem", "file"}, NEW places \in SUBSET (1..n - 1)
  PROVE  /\ n = 0 => Cut(type, n, places) = <<>>
         /\ n > 0 => Divided(Cut(type, n, places), n) /\ Cut(type, n, places) # <<>>
<1> DEFINE S == places \cup {0, n}
           M == Cardinality(S)
           c(p) == Cardinality(Below(S, p))
           At(k) == CHOOSE p \in S : c(p) = k - 1
           w == [k \in 1..M - 1 |-> Chunk(type, At(k), At(k + 1))]
<1>1. S \in SUBSET Nat /\ IsFiniteSet(S) /\ 0 \in S /\ n \in S /\ \A p \in S : p <= n
  <2>1. IsFiniteSet(0..n)
    BY FS_Interval
  <2>2. S \in SUBSET (0..n)
    OBVIOUS
  <2>3. IsFiniteSet(S)
    BY <2>1, <2>2, FS_Subset
  <2> QED
    BY <2>2, <2>3
<1>2. Cut(type, n, places) = w
  BY DEF Cut, Below
<1>3. ASSUME n = 0
      PROVE  S = {0}
  <2>1. 1..n - 1 = {}
    BY <1>3
  <2> QED
    BY <1>3, <2>1
<1> HIDE DEF S
<1>4. ASSUME n = 0
      PROVE  w = <<>>
  <2>1. M = 1
    BY <1>3, <1>4, FS_Singleton
  <2> HIDE DEF M
  <2> QED
    BY <2>1
<1>5. /\ M \in Nat
      /\ \A p \in S : c(p) \in 0..M - 1
      /\ \A p, q \in S : p < q => c(p) < c(q)
      /\ \A p \in S : ~(\E q \in S : q < p) => c(p) = 0
      /\ \A p \in S : ~(\E q \in S : p < q) => c(p) = M - 1
      /\ \A k \in 0..M - 1 : \E p \in S : c(p) = k
  BY <1>1, BelowIs, BelowAll
<1> HIDE DEF c, M
<1>6. ASSUME NEW k \in 1..M
      PROVE  At(k) \in S /\ c(At(k)) = k - 1 /\ At(k) \in Nat
  <2>1. k - 1 \in 0..M - 1
    BY <1>5
  <2>2. \E p \in S : c(p) = k - 1
    BY <1>5, <2>1
  <2>3. At(k) \in S /\ c(At(k)) = k - 1
    BY <2>2
  <2> HIDE DEF At
  <2> QED
    BY <1>1, <2>3
<1>7. c(0) = 0 /\ c(n) = M - 1
  BY <1>1, <1>5
<1> HIDE DEF At
<1>8. ASSUME n > 0
      PROVE  Divided(w, n) /\ w # <<>>
  <2>1. M \in Nat /\ M - 1 \in 1..M /\ M \in 1..M /\ 1 \in 1..M
    BY <1>1, <1>5, <1>7, <1>8
  <2>2. At(1) = 0 /\ At(M) = n
    <3>1. At(1) \in S /\ c(At(1)) = 0 /\ At(M) \in S /\ c(At(M)) = M - 1
      BY <1>6, <2>1
    <3> DEFINE a == At(1)
               b == At(M)
    <3> HIDE DEF a, b
    <3>2. a \in S /\ c(a) = 0 /\ b \in S /\ c(b) = M - 1
      BY <3>1, Zenon DEF a, b
    <3>3. a \in Nat /\ b \in Nat /\ b <= n
      BY <1>1, <3>2
    <3>4. 0 < a => c(0) < c(a)
      BY <1>1, <1>5, <3>2
    <3>5. b < n => c(b) < c(n)
      BY <1>1, <1>5, <3>2
    <3>6. a = 0 /\ b = n
      BY <1>7, <2>1, <3>2, <3>3, <3>4, <3>5
    <3> QED
      BY <3>6, Zenon DEF a, b
  <2>3. ASSUME NEW k \in 1..M - 1
        PROVE  At(k) \in Nat /\ At(k + 1) \in Nat /\ At(k) < At(k + 1)
    <3>1. k \in 1..M /\ k + 1 \in 1..M /\ (k + 1) - 1 = k
      BY <2>1
    <3>2. /\ At(k) \in S /\ c(At(k)) = k - 1 /\ At(k) \in Nat
          /\ At(k + 1) \in S /\ c(At(k + 1)) = k /\ At(k + 1) \in Nat
      BY <1>6, <3>1
    <3>3. ~(At(k + 1) < At(k))
      BY <1>5, <3>1, <3>2
    <3>4. At(k + 1) # At(k)
      BY <3>1, <3>2
    <3> QED
      BY <3>2, <3>3, <3>4
  <2>4. \A k \in 1..M - 1 : w[k] = [type |-> type, from |-> At(k), to |-> At(k + 1)]
    BY DEF Chunk
  <2>5. w = [k \in 1..M - 1 |-> w[k]]
    OBVIOUS
  <2> HIDE DEF w
  <2>6. ASSUME NEW k \in 1..M - 1
        PROVE  /\ w[k].type = type /\ w[k].from = At(k) /\ w[k].to = At(k + 1)
               /\ w[k] \in PartRec
    <3> DEFINE a == At(k)
               b == At(k + 1)
    <3> HIDE DEF a, b
    <3>1. a \in Nat /\ b \in Nat
      BY <2>3, Zenon DEF a, b
    <3>2. w[k] = [type |-> type, from |-> a, to |-> b]
      BY <2>4, Zenon DEF a, b
    <3>3. w[k].type = type /\ w[k].from = a /\ w[k].to = b /\ w[k] \in PartRec
      BY <3>1, <3>2 DEF PartRec
    <3> QED
      BY <3>3, Zenon DEF a, b
  <2>7. w \in Seq(PartRec) /\ Len(w) = M - 1
    BY <2>1, <2>5, <2>6
  <2>8. w[1].from = 0 /\ w[Len(w)].to = n /\ Len(w) > 0 /\ w[1].type = type
    <3>1. 1 \in 1..M - 1 /\ M - 1 \in 1..M - 1 /\ (M - 1) + 1 = M
      BY <2>1
    <3> QED
      BY <2>1, <2>2, <2>6, <2>7, <3>1
  <2>9. \A k \in 1..Len(w) : w[k].from < w[k].to /\ w[k].type = w[1].type
    BY <2>3, <2>6, <2>7, <2>8
  <2>10. \A k \in 1..Len(w) - 1 : w[k].to = w[k + 1].from
    <3> SUFFICES ASSUME NEW k \in 1..Len(w) - 1
                 PROVE  w[k].to = w[k + 1].from
      OBVIOUS
    <3>1. k \in 1..M - 1 /\ k + 1 \in 1..M - 1
      BY <2>1, <2>7
    <3> QED
      BY <2>6, <3>1
  <2>11. w # <<>>
    BY <2>7, <2>8
  <2> QED
    BY <2>7, <2>8, <2>9, <2>10, <2>11 DEF Divided
<1> QED
  BY <1>2, <1>4, <1>8, Zenon

LEMMA InitIInv ==
  ASSUME Init
  PROVE  IInv
<1> DEFINE n == content_length
<1>1. /\ n \in 0..MaxContent /\ n \in Nat
      /\ files = {req_cq[k].from : k \in {j \in DOMAIN req_cq : req_cq[j].type = "file"}}
      /\ wb = <<>> /\ sent = <<>> /\ reconnects = 0 /\ pc = "INIT"
  BY LengthAssumption DEF Init
<1>2. PICK type \in {"mem", "file"}, places \in SUBSET (1..n - 1) : req_cq = Cut(type, n, places)
  BY DEF Init
<1>3. /\ n = 0 => req_cq = <<>>
      /\ n > 0 => Divided(req_cq, n) /\ req_cq # <<>>
  <2> HIDE DEF n
  <2> QED
    BY <1>1, <1>2, CutIs
<1>4. ContentThere
  BY <1>1, <1>3 DEF ContentThere
<1>5. FilesOwned
  BY <1>1 DEF FilesOwned
<1>6. QueueOK(wb) /\ LastNamed(wb)
  BY <1>1, EmptyQueue, Zenon
<1>7. FilesThere
  <2>1. DOMAIN wb = {}
    BY <1>1
  <2> QED
    BY <2>1 DEF FilesThere
<1>8. sent \in Seq(Token) /\ Begun(sent, content_length)
  <2>1. sent \in Seq(Token) /\ Len(sent) = 0 /\ 1..0 = {}
    BY <1>1, EmptySeq
  <2> QED
    BY <2>1, Zenon DEF Begun
<1>9. reconnects \in Nat /\ pc \in {"INIT", "WRITE", "READ", "gone", "crash"} /\ ~(pc \in {"READ", "gone"})
      /\ ~(pc \in {"WRITE", "READ"})
  BY <1>1
<1>10. content_length \in 0..MaxContent
  BY <1>1
<1> QED
  BY <1>4, <1>5, <1>6, <1>7, <1>8, <1>9, <1>10, Zenon DEF IInv

LEMMA StepIInv ==
  ASSUME IInv, [Next]_vars
  PROVE  IInv'
<1>1. CASE fcgi_create_env
  BY <1>1, CreateKeeps
<1>2. CASE fcgi_write
  BY <1>2, WriteKeeps
<1>3. CASE fcgi_connection_close
  BY <1>3, CloseKeeps
<1>4. CASE fcgi_reconnect
  BY <1>4, ReconnectKeeps
<1>5. CASE UNCHANGED vars
  <2>1. /\ content_length' = content_length /\ req_cq' = req_cq /\ wb' = wb /\ files' = files
        /\ sent' = sent /\ reconnects' = reconnects /\ pc' = pc
    BY <1>5 DEF vars
  <2>2. /\ FilesThere => FilesThere'
        /\ ContentThere => ContentThere'
        /\ FilesOwned => FilesOwned'
    BY <2>1 DEF FilesThere, ContentThere, FilesOwned
  <2> QED
    BY <2>1, <2>2, Zenon DEF IInv
<1> QED
  BY <1>1, <1>2, <1>3, <1>4, <1>5, Zenon DEF Next

LEMMA IInvHolds == Spec => []IInv
<1>1. Init => IInv
  BY InitIInv
<1>2. IInv /\ [Next]_vars => IInv'
  BY StepIInv
<1> QED
  BY <1>1, <1>2, PTL DEF Spec

-----------------------------------------------------------------------------
(* The theorems.                                                           *)

\* What a backend has got of a first attempt is at every moment the beginning
\* of a correct request: the parameters, records that are as long as announced,
\* the bytes of the content in order (mod_fastcgi.c:2098-2214).
THEOREM StreamIsRight == Spec => []StreamRight
<1>1. ASSUME IInv
      PROVE  StreamRight
  <2> SUFFICES ASSUME reconnects = 0
               PROVE  /\ \A i \in Headers(sent) :
                           IF i = 1 THEN sent[i] = Params /\ EndOf(sent, i) = 1
                           ELSE /\ sent[i][1] = "stdin" /\ sent[i][2] <= FCGI_MAX_LENGTH
                                /\ EndOf(sent, i) - i <= sent[i][2]
                                /\ EndOf(sent, i) < Len(sent) =>
                                     EndOf(sent, i) - i = sent[i][2] /\ sent[i][2] > 0
                      /\ \A i, j \in Payload(sent) : i < j => sent[i][2] < sent[j][2]
                      /\ \E m \in 0..content_length : Numbers(sent) = 1..m
    BY Zenon DEF StreamRight
  <2>1. sent \in Seq(Token) /\ Begun(sent, content_length) /\ content_length \in 0..MaxContent
    BY <1>1, Zenon DEF IInv
  <2>2. content_length \in Nat
    BY <2>1, LengthAssumption
  <2>3. ASSUME NEW i \in Headers(sent)
        PROVE  IF i = 1 THEN sent[i] = Params /\ EndOf(sent, i) = 1
               ELSE /\ sent[i][1] = "stdin" /\ sent[i][2] <= FCGI_MAX_LENGTH
                    /\ EndOf(sent, i) - i <= sent[i][2]
                    /\ EndOf(sent, i) < Len(sent) =>
                         EndOf(sent, i) - i = sent[i][2] /\ sent[i][2] > 0
    BY <2>1, EndIs DEF IsStdin
  <2>4. /\ \A i, j \in Payload(sent) : i < j => sent[i][2] < sent[j][2]
        /\ \E m \in 0..content_length : Numbers(sent) = 1..m
    BY <2>1, <2>2, NumbersAre
  <2> QED
    BY <2>3, <2>4, Zenon
<1> QED
  BY <1>1, IInvHolds, PTL

\* When the backend answers a first attempt it has the whole request, and no
\* temporary file of it is left (chunk.c:57-76, mod_fastcgi.c:2148-2178).
THEOREM RequestIsComplete == Spec => []CompleteAtEnd
<1>1. ASSUME IInv
      PROVE  CompleteAtEnd
  <2> SUFFICES ASSUME pc = "READ", reconnects = 0
               PROVE  files = {} /\ sent # <<>> /\ Last(sent) = Stdin(0) /\ Numbers(sent) = 1..content_length
    BY DEF CompleteAtEnd
  <2>1. /\ content_length \in 0..MaxContent /\ sent \in Seq(Token) /\ wb = <<>>
        /\ ContentThere /\ FilesOwned /\ Full(Cat(sent, Queued(wb)), content_length)
    BY <1>1, Zenon DEF IInv
  <2>2. content_length \in Nat
    BY <2>1, LengthAssumption
  <2>3. files = {}
    <3>1. req_cq = <<>>
      BY <2>1 DEF ContentThere
    <3>2. DOMAIN req_cq = {} /\ DOMAIN wb = {}
      BY <2>1, <3>1
    <3> QED
      BY <2>1, <3>2 DEF FilesOwned
  <2>4. Full(sent, content_length)
    <3>1. Cat(sent, <<>>) = sent
      BY <2>1, CatFacts
    <3> QED
      BY <2>1, <3>1, EmptyQueue, Zenon
  <2>5. Begun(sent, content_length) /\ Len(sent) > 0 /\ sent[Len(sent)] = Stdin(0) /\ Holds(sent, content_length)
    BY <2>4, Zenon DEF Full
  <2>6. Numbers(sent) = 1..content_length
    BY <2>1, <2>2, <2>5, NumbersAre
  <2>7. sent # <<>>
    BY <2>1, <2>5, EmptySeq
  <2>8. Last(sent) = Stdin(0)
    BY <2>5, Zenon DEF Last
  <2> QED
    BY <2>3, <2>6, <2>7, <2>8
<1> QED
  BY <1>1, IInvHolds, PTL

\* A temporary file that a chunk to be written refers to is on the disk, however
\* many chunks refer to it (mod_fastcgi.c:2150-2159), also after reconnects.
THEOREM FilesAreThere == Spec => []FilesThere
<1>1. IInv => FilesThere
  BY Zenon DEF IInv
<1> QED
  BY <1>1, IInvHolds, PTL

=============================================================================
