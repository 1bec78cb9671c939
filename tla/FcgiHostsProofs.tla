-------------------------- MODULE FcgiHostsProofs --------------------------
(***************************************************************************)
(* The loads of hosts and processes are right, for every number of hosts,  *)
(* processes, requests and reconnects: what a host or a process counts is  *)
(* what the requests hold.  A handler works on a frame in which its own    *)
(* request may hold a host or a process that the state does not know yet;  *)
(* the frame is in order when its loads are those of all other requests    *)
(* and of the context at hand.                                             *)
(***************************************************************************)
EXTENDS FcgiHosts, FiniteSetTheorems, WellFoundedInduction, TLAPS

-----------------------------------------------------------------------------
(* Induction, for a set: the least number that is not in it has no         *)
(* predecessor.                                                            *)

\* Induction.
LEMMA SetInduction ==
  ASSUME NEW T, 0 \in T, \A n \in Nat : n \in T => n + 1 \in T
  PROVE  \A n \in Nat : n \in T
<1> DEFINE R == OpToRel(<, Nat)
           S == Nat \ T
<1>1. IsWellFoundedOn(R, Nat)
  BY NatLessThanWellFounded, Zenon
<1>2. \A x, y \in Nat : x < y => <<x, y>> \in R
  BY Zenon DEF OpToRel
<1>3. SUFFICES ASSUME S # {} PROVE FALSE
  OBVIOUS
<1> HIDE DEF R
<1>4. PICK x \in S : \A y \in S : ~(<<y, x>> \in R)
  <2>1. S \subseteq Nat
    OBVIOUS
  <2> HIDE DEF S
  <2> QED
    BY <1>1, <1>3, <2>1, WFMin
<1>5. x # 0 /\ x \in Nat
  OBVIOUS
<1>6. x - 1 \in Nat /\ x - 1 < x
  BY <1>5
<1>7. x - 1 \in T
  BY <1>2, <1>4, <1>5, <1>6
<1> QED
  BY <1>4, <1>6, <1>7

-----------------------------------------------------------------------------
(* Types. *)

ProcRec == [state : {"RUNNING", "OVERLOADED", "DIED_WAIT_FOR_PID", "DIED"}, load : 0..Wrap - 1,
            disabled : BOOLEAN, up : BOOLEAN, is_local : BOOLEAN,
            child : {"alive", "zombie", "none"}]
HostRec == [load : Int, active_procs : 0..Wrap - 1]
CtxRec == [state : {"NULL", "INIT", "CONNECT_DELAYED", "PREPARE_WRITE", "WRITE", "READ"},
           host : Host \cup {none}, proc : Proc \cup {none}, got_proc : BOOLEAN,
           sent : BOOLEAN, reconnects : 0..max_reconnects]

\* A frame of the handlers.
FrameType ==
  [proc : [Proc -> ProcRec], host : [Host -> HostRec], x : CtxRec, last : Host \cup {0}]

\* The states in which a request counts for its process.
Connected == {"PREPARE_WRITE", "WRITE", "READ"}

\* What a context holds in its state.
CtxOK(x) ==
  /\ x.state = "NULL" => x = NoCtx
  /\ x.state \in Connected \cup {"CONNECT_DELAYED"} => x.host # none /\ x.proc # none
  /\ x.state \in Connected => x.got_proc
  /\ "ENOTCONN" \notin Faults /\ x.got_proc => x.state \in Connected

\* The other requests with a host, and those connected to a process.
AtHost(c, h) == Cardinality({d \in Request \ {c} : hctx[d].host = h})
AtProc(c, p) == Cardinality({d \in Request \ {c} : Uses(d, p)})

\* The loads of frame f of request c: the other requests and the one at hand.
Loads(c, f) ==
  /\ \A h \in Host : f.host[h].load = AtHost(c, h) + (IF f.x.host = h THEN 1 ELSE 0)
  /\ "ENOTCONN" \notin Faults =>
       \A p \in Proc : f.proc[p].load
                         = AtProc(c, p) + (IF f.x.proc = p /\ f.x.got_proc THEN 1 ELSE 0)

Good(c, f) == f \in FrameType /\ Loads(c, f)

\* The inductive invariant.
IInv ==
  /\ conf \in Confs
  /\ proc \in [Proc -> ProcRec] /\ host \in [Host -> HostRec]
  /\ hctx \in [Request -> CtxRec] /\ last_used_ndx \in Host \cup {0}
  /\ \A c \in Request : CtxOK(hctx[c]) /\ hctx[c].state # "PREPARE_WRITE"
  /\ HostLoadRight /\ LoadRight

-----------------------------------------------------------------------------
(* The configurations and the counters. *)

\* The hosts and their processes.
LEMMA ConfFacts ==
  ASSUME conf \in Confs
  PROVE  /\ Host = 1..Len(hosts) /\ Len(hosts) \in Nat \ {0}
         /\ none \notin Proc /\ none \notin Host /\ Proc \subseteq Nat
         /\ \A h \in Host : /\ hosts[h] \in Seq(Proc) /\ Len(hosts[h]) \in 0..Wrap - 1
         /\ Wrap \in Nat /\ Wrap > 0 /\ max_reconnects \in Nat
         /\ IsFiniteSet(Request) /\ Cardinality(Request) \in Nat
<1>1. /\ hosts \in Seq(Seq(1..MaxProc)) /\ hosts # <<>> /\ MaxProc \in Nat
      /\ \A h \in DOMAIN hosts : Len(hosts[h]) < Wrap
  BY ConfAssumption DEF hosts
<1>2. Host = 1..Len(hosts) /\ Len(hosts) \in Nat \ {0}
  BY <1>1 DEF Host
<1>3. \A h \in Host : hosts[h] \in Seq(1..MaxProc) /\ Len(hosts[h]) \in Nat
  BY <1>1, <1>2
<1>4. Proc \subseteq 1..MaxProc
  <2>1. ASSUME NEW h \in Host, NEW j \in DOMAIN hosts[h]
        PROVE  hosts[h][j] \in 1..MaxProc
    <3>1. ASSUME NEW S, NEW s \in Seq(S), NEW m \in DOMAIN s
          PROVE  s[m] \in S
      OBVIOUS
    <3> QED
      BY <1>3, <3>1
  <2> QED
    BY <2>1 DEF Proc, ToSet
<1>5. \A h \in Host : hosts[h] \in Seq(Proc)
  <2> SUFFICES ASSUME NEW h \in Host
               PROVE  hosts[h] \in Seq(Proc)
    OBVIOUS
  <2>1. \A k \in 1..Len(hosts[h]) : hosts[h][k] \in Proc
    BY <1>3 DEF Proc, ToSet
  <2> QED
    BY <1>3, <2>1
<1>6. IsFiniteSet(Request) /\ Cardinality(Request) \in Nat /\ Cardinality(Request) < Wrap
  BY ConfAssumption, FS_CardinalityType
<1> QED
  BY <1>1, <1>2, <1>3, <1>4, <1>5, <1>6, ConfAssumption DEF none, Host

\* What the counters do at their limits, and below.
LEMMA CounterFacts ==
  ASSUME Wrap \in Nat, Wrap > 0, NEW n \in 0..Wrap - 1
  PROVE  /\ Inc(n) \in 0..Wrap - 1 /\ Dec(n) \in 0..Wrap - 1
         /\ n + 1 < Wrap => Inc(n) = n + 1
         /\ n > 0 => Dec(n) = n - 1
BY DEF Inc, Dec

\* The other requests are fewer than a counter can hold.
LEMMA OthersFew ==
  ASSUME conf \in Confs, NEW c \in Request
  PROVE  \A p \in Proc : AtProc(c, p) \in Nat /\ AtProc(c, p) + 1 < Wrap
<1>1. IsFiniteSet(Request) /\ Cardinality(Request) \in Nat /\ Cardinality(Request) < Wrap
      /\ Wrap \in Nat
  BY ConfFacts, ConfAssumption
<1>2. /\ IsFiniteSet(Request \ {c}) /\ Cardinality(Request \ {c}) = Cardinality(Request) - 1
  BY <1>1, FS_RemoveElement
<1>3. ASSUME NEW p \in Proc
      PROVE  AtProc(c, p) \in Nat /\ AtProc(c, p) <= Cardinality(Request \ {c})
  <2>1. {d \in Request \ {c} : Uses(d, p)} \in SUBSET (Request \ {c})
    OBVIOUS
  <2> QED
    BY <1>2, <2>1, FS_Subset, FS_CardinalityType DEF AtProc
<1> QED
  BY <1>1, <1>2, <1>3

-----------------------------------------------------------------------------
(* The processes: a restart leaves every load alone. *)

\* Frame g has the loads and the context of f.
Same(g, f) ==
  /\ g \in FrameType /\ g.x = f.x /\ g.last = f.last
  /\ \A p \in Proc : g.proc[p].load = f.proc[p].load
  /\ \A h \in Host : g.host[h].load = f.host[h].load

\* One change after the other.
LEMMA SameTransitive ==
  ASSUME NEW f, NEW g, NEW k, Same(k, g), Same(g, f)
  PROVE  Same(k, f)
BY DEF Same

\* Another record for a process, with the same load.
LEMMA ProcChanged ==
  ASSUME NEW f \in FrameType, NEW p \in Proc, NEW r \in ProcRec, r.load = f.proc[p].load
  PROVE  Same([f EXCEPT !.proc[p] = r], f)
BY DEF Same, FrameType

\* The states and flags of a process.
LEMMA ProcFields ==
  ASSUME NEW r \in ProcRec,
         NEW s \in {"RUNNING", "OVERLOADED", "DIED_WAIT_FOR_PID", "DIED"}, NEW b \in BOOLEAN,
         NEW w \in {"alive", "zombie", "none"}
  PROVE  /\ [r EXCEPT !.state = s] \in ProcRec /\ [r EXCEPT !.state = s].load = r.load
         /\ [r EXCEPT !.disabled = b] \in ProcRec /\ [r EXCEPT !.disabled = b].load = r.load
         /\ [r EXCEPT !.child = w] \in ProcRec /\ [r EXCEPT !.child = w].load = r.load
         /\ [r EXCEPT !.is_local = b] \in ProcRec /\ [r EXCEPT !.is_local = b].load = r.load
         /\ [r EXCEPT !.up = b] \in ProcRec /\ [r EXCEPT !.up = b].load = r.load
BY DEF ProcRec

\* One field of one process.
LEMMA FieldChanged ==
  ASSUME NEW f \in FrameType, NEW p \in Proc,
         NEW s \in {"RUNNING", "OVERLOADED", "DIED_WAIT_FOR_PID", "DIED"}, NEW b \in BOOLEAN,
         NEW w \in {"alive", "zombie", "none"}
  PROVE  /\ Same([f EXCEPT !.proc[p].state = s], f)
         /\ Same([f EXCEPT !.proc[p].disabled = b], f)
         /\ Same([f EXCEPT !.proc[p].child = w], f)
         /\ Same([f EXCEPT !.proc[p].is_local = b], f)
         /\ Same([f EXCEPT !.proc[p].up = b], f)
<1>1. f.proc[p] \in ProcRec
  BY DEF FrameType
<1> DEFINE r1 == [f.proc[p] EXCEPT !.state = s]
           r2 == [f.proc[p] EXCEPT !.disabled = b]
           r3 == [f.proc[p] EXCEPT !.child = w]
           r4 == [f.proc[p] EXCEPT !.is_local = b]
           r5 == [f.proc[p] EXCEPT !.up = b]
<1>2. /\ r1 \in ProcRec /\ r1.load = f.proc[p].load /\ r2 \in ProcRec /\ r2.load = f.proc[p].load
      /\ r3 \in ProcRec /\ r3.load = f.proc[p].load /\ r4 \in ProcRec /\ r4.load = f.proc[p].load
      /\ r5 \in ProcRec /\ r5.load = f.proc[p].load
  BY <1>1, ProcFields, ZenonT(40)
<1>3. /\ [f EXCEPT !.proc[p].state = s] = [f EXCEPT !.proc[p] = r1]
      /\ [f EXCEPT !.proc[p].disabled = b] = [f EXCEPT !.proc[p] = r2]
      /\ [f EXCEPT !.proc[p].child = w] = [f EXCEPT !.proc[p] = r3]
      /\ [f EXCEPT !.proc[p].is_local = b] = [f EXCEPT !.proc[p] = r4]
      /\ [f EXCEPT !.proc[p].up = b] = [f EXCEPT !.proc[p] = r5]
  BY DEF FrameType
<1> HIDE DEF r1, r2, r3, r4, r5
<1>4. /\ Same([f EXCEPT !.proc[p] = r1], f) /\ Same([f EXCEPT !.proc[p] = r2], f)
      /\ Same([f EXCEPT !.proc[p] = r3], f) /\ Same([f EXCEPT !.proc[p] = r4], f)
      /\ Same([f EXCEPT !.proc[p] = r5], f)
  BY <1>2, ProcChanged
<1> QED
  BY <1>3, <1>4

\* The number of active processes of a host.
LEMMA ActiveChanged ==
  ASSUME NEW f \in FrameType, NEW h \in Host, Wrap \in Nat, Wrap > 0
  PROVE  /\ Same([f EXCEPT !.host[h].active_procs = Inc(@)], f)
         /\ Same([f EXCEPT !.host[h].active_procs = Dec(@)], f)
<1>1. f.host[h] \in HostRec /\ f.host[h].active_procs \in 0..Wrap - 1
  BY DEF FrameType, HostRec
<1>2. Inc(f.host[h].active_procs) \in 0..Wrap - 1 /\ Dec(f.host[h].active_procs) \in 0..Wrap - 1
  BY <1>1, CounterFacts
<1>3. ASSUME NEW m \in 0..Wrap - 1
      PROVE  Same([f EXCEPT !.host[h].active_procs = m], f)
  <2> DEFINE r == [f.host[h] EXCEPT !.active_procs = m]
  <2>1. r \in HostRec /\ r.load = f.host[h].load
    BY <1>1 DEF HostRec
  <2>2. [f EXCEPT !.host[h].active_procs = m] = [f EXCEPT !.host[h] = r]
    BY DEF FrameType
  <2> HIDE DEF r
  <2> QED
    BY <2>1, <2>2 DEF Same, FrameType
<1>4. /\ [f EXCEPT !.host[h].active_procs = Inc(@)]
            = [f EXCEPT !.host[h].active_procs = Inc(f.host[h].active_procs)]
      /\ [f EXCEPT !.host[h].active_procs = Dec(@)]
            = [f EXCEPT !.host[h].active_procs = Dec(f.host[h].active_procs)]
  BY DEF FrameType
<1> QED
  BY <1>2, <1>3, <1>4

\* Running.
LEMMA RunningSame ==
  ASSUME NEW f \in FrameType, NEW h \in Host, NEW p \in Proc, Wrap \in Nat, Wrap > 0
  PROVE  Same(Running(f, h, p), f)
<1> DEFINE g == [f EXCEPT !.proc[p].state = "RUNNING"]
           k == [g EXCEPT !.host[h].active_procs = Inc(@)]
<1>1. Same(g, f)
  BY FieldChanged
<1>2. Running(f, h, p) = k
  BY DEF Running, FrameType
<1> HIDE DEF g
<1>3. g \in FrameType
  BY <1>1 DEF Same
<1>4. Same(k, g)
  BY <1>3, ActiveChanged
<1> QED
  BY <1>1, <1>2, <1>4, SameTransitive

\* What a call returns: outcomes with frames like f.
Outcomes(os, f) == \A o \in os : Same(o.f, f)

\* fcgi_spawn_connection.
LEMMA SpawnedSame ==
  ASSUME NEW f \in FrameType, NEW h \in Host, NEW p \in Proc, Wrap \in Nat, Wrap > 0
  PROVE  Outcomes(Spawned(f, h, p), f)
<1> DEFINE g == Running(f, h, p)
           g1 == [g EXCEPT !.proc[p].is_local = FALSE]
           g2 == [g1 EXCEPT !.proc[p].child = "none"]
           k1 == [g EXCEPT !.proc[p].is_local = TRUE]
           k2 == [k1 EXCEPT !.proc[p].child = "alive"]
           k3 == [k2 EXCEPT !.proc[p].up = TRUE]
<1>1. Same(g, f) /\ g \in FrameType
  BY RunningSame DEF Same
<1>2. Spawned(f, h, p) \subseteq {Outcome(g2, 0), Outcome(f, -1), Outcome(k3, 0), Outcome(g, 0)}
  <2>1. g2 = [g EXCEPT !.proc[p].is_local = FALSE, !.proc[p].child = "none"]
    BY <1>1 DEF FrameType
  <2>2. k3 = [g EXCEPT !.proc[p].is_local = TRUE, !.proc[p].child = "alive", !.proc[p].up = TRUE]
    BY <1>1 DEF FrameType
  <2> HIDE DEF g2, k3
  <2> QED
    BY <2>1, <2>2 DEF Spawned
<1> HIDE DEF g
<1>3. Same(g1, g) /\ g1 \in FrameType /\ Same(k1, g) /\ k1 \in FrameType
  <2>1. Same(g1, g) /\ Same(k1, g)
    BY <1>1, FieldChanged
  <2> QED
    BY <2>1 DEF Same
<1> HIDE DEF g1, k1
<1>4. Same(g2, g1) /\ Same(k2, k1) /\ k2 \in FrameType
  <2>1. Same(g2, g1) /\ Same(k2, k1)
    BY <1>3, FieldChanged
  <2> QED
    BY <2>1 DEF Same
<1> HIDE DEF g2, k2
<1>5. Same(k3, k2)
  BY <1>4, FieldChanged
<1> HIDE DEF k3
<1>6. Same(g2, f) /\ Same(k3, f) /\ Same(f, f)
  <2>1. Same(g1, f) /\ Same(k1, f)
    BY <1>1, <1>3, SameTransitive
  <2>2. Same(g2, f) /\ Same(k2, f)
    BY <1>4, <2>1, SameTransitive
  <2>3. Same(k3, f)
    BY <1>5, <2>2, SameTransitive
  <2> QED
    BY <2>2, <2>3 DEF Same
<1> QED
  BY <1>1, <1>2, <1>6 DEF Outcomes, Outcome

\* fcgi_restart_dead_procs, for one process.
LEMMA RestartProcSame ==
  ASSUME NEW f \in FrameType, NEW h \in Host, NEW p \in Proc, Wrap \in Nat, Wrap > 0
  PROVE  Outcomes(RestartProc(f, h, p), f)
<1>1. Same(f, f) /\ Same(Running(f, h, p), f)
  BY RunningSame DEF Same
<1>2. \A r : Outcomes({Outcome(f, r)}, f)
  BY <1>1 DEF Outcomes, Outcome
<1>3. \A b, r : Outcomes({Outcome(IF b THEN f ELSE Running(f, h, p), r)}, f)
  BY <1>1 DEF Outcomes, Outcome
<1>4. ASSUME NEW g \in FrameType, Same(g, f)
      PROVE  Outcomes(Died(g, h, p), f)
  <2>1. Outcomes(Spawned(g, h, p), g) /\ Same(Running(g, h, p), g) /\ Same(g, g)
    BY SpawnedSame, RunningSame DEF Same
  <2>2. Outcomes(Died(g, h, p), g)
    BY <2>1 DEF Died, Outcomes, Outcome
  <2> QED
    BY <1>4, <2>2, SameTransitive DEF Outcomes
<1>5. Outcomes(DiedWaitForPid(f, h, p), f)
  <2> DEFINE g1 == [f EXCEPT !.proc[p].state = "DIED"]
             g2 == [g1 EXCEPT !.proc[p].child = "none"]
  <2>1. Same(g1, f) /\ g1 \in FrameType
    BY FieldChanged, ZenonT(40) DEF Same
  <2>2. g2 = [f EXCEPT !.proc[p].state = "DIED", !.proc[p].child = "none"]
    BY DEF FrameType
  <2> HIDE DEF g1
  <2>3. Same(g2, g1)
    BY <2>1, FieldChanged
  <2>4. Same(g2, f) /\ g2 \in FrameType
    BY <2>1, <2>3, SameTransitive DEF Same
  <2> HIDE DEF g2
  <2>5. Outcomes(Died(g2, h, p), f)
    BY <1>4, <2>4
  <2> QED
    BY <1>2, <1>3, <2>2, <2>5 DEF DiedWaitForPid
<1>6. Outcomes(Died(f, h, p), f)
  BY <1>1, <1>4
<1>7. f.proc[p].state \in {"RUNNING", "OVERLOADED", "DIED_WAIT_FOR_PID", "DIED"}
  BY DEF FrameType, ProcRec
<1> QED
  BY <1>2, <1>3, <1>5, <1>6, <1>7 DEF RestartProc

\* All processes of a host: by induction on how many have been looked at.
LEMMA RestartSame ==
  ASSUME conf \in Confs, NEW f \in FrameType, NEW h \in Host
  PROVE  \A g \in fcgi_restart_dead_procs(f, h) : Same(g, f)
<1> DEFINE N == Len(hosts[h])
           ps == hosts[h]
           step(os, k) == UNION {IF o.r = 0 THEN RestartProc(o.f, h, ps[k]) ELSE {o} : o \in os}
           Is(after, n) == after = [k \in 0..n |-> IF k = 0 THEN {Outcome(f, 0)} ELSE step(after[k - 1], k)]
<1>1. N \in Nat /\ (\A k \in 1..N : ps[k] \in Proc) /\ Wrap \in Nat /\ Wrap > 0
  BY ConfFacts
<1>2. fcgi_restart_dead_procs(f, h) = {o.f : o \in (CHOOSE after : Is(after, N))[N]}
  BY DEF fcgi_restart_dead_procs
<1> HIDE DEF step
<1>3. \E after : Is(after, N)
  <2> DEFINE T == {n \in Nat : \E after : Is(after, n)}
  <2>1. 0 \in T
    <3>1. Is([k \in 0..0 |-> {Outcome(f, 0)}], 0)
      OBVIOUS
    <3> QED
      BY <3>1
  <2>2. ASSUME NEW n \in Nat, n \in T
        PROVE  n + 1 \in T
    <3>1. PICK a : Is(a, n)
      BY <2>2
    <3> DEFINE b == [k \in 0..n + 1 |-> IF k = n + 1 THEN step(a[n], n + 1) ELSE a[k]]
    <3>2. \A k \in 0..n : a[k] = IF k = 0 THEN {Outcome(f, 0)} ELSE step(a[k - 1], k)
      BY <3>1
    <3>3. (\A k \in 0..n : b[k] = a[k]) /\ b[n + 1] = step(a[n], n + 1)
      OBVIOUS
    <3>4. b = [k \in 0..n + 1 |-> b[k]]
      OBVIOUS
    <3> HIDE DEF b
    <3>5. ASSUME NEW k \in 0..n + 1
          PROVE  b[k] = IF k = 0 THEN {Outcome(f, 0)} ELSE step(b[k - 1], k)
      <4>1. CASE k = n + 1
        BY <3>3, <4>1
      <4>2. CASE k \in 1..n
        <5>1. k - 1 \in 0..n
          BY <4>2
        <5> QED
          BY <3>2, <3>3, <4>2, <5>1
      <4>3. CASE k = 0
        BY <3>2, <3>3, <4>3
      <4> QED
        BY <4>1, <4>2, <4>3
    <3>6. Is(b, n + 1)
      BY <3>4, <3>5
    <3> QED
      BY <3>6
  <2> HIDE DEF T
  <2>3. \A n \in Nat : n \in T
    BY <2>1, <2>2, SetInduction
  <2> QED
    BY <1>1, <2>3 DEF T
<1>4. PICK after : Is(after, N) /\ fcgi_restart_dead_procs(f, h) = {o.f : o \in after[N]}
  BY <1>2, <1>3
<1>5. \A k \in 0..N : after[k] = IF k = 0 THEN {Outcome(f, 0)} ELSE step(after[k - 1], k)
  BY <1>4
<1> DEFINE T == {n \in Nat : n <= N => Outcomes(after[n], f)}
<1>6. 0 \in T
  BY <1>1, <1>4 DEF Outcomes, Outcome, Same
<1>7. ASSUME NEW n \in Nat, n \in T
      PROVE  n + 1 \in T
  <2> SUFFICES ASSUME n + 1 <= N
               PROVE  Outcomes(after[n + 1], f)
    OBVIOUS
  <2>1. Outcomes(after[n], f)
    BY <1>1, <1>7
  <2>2. after[n + 1] = step(after[n], n + 1) /\ ps[n + 1] \in Proc
    <3>1. n + 1 \in 0..N /\ n + 1 \in 1..N /\ n + 1 # 0 /\ (n + 1) - 1 = n
      BY <1>1
    <3> HIDE DEF ps, N
    <3> QED
      BY <1>1, <1>5, <3>1
  <2>3. ASSUME NEW o \in after[n]
        PROVE  \A q \in RestartProc(o.f, h, ps[n + 1]) : Same(q.f, f)
    <3>1. Same(o.f, f) /\ o.f \in FrameType
      BY <2>1 DEF Outcomes, Same
    <3>2. Outcomes(RestartProc(o.f, h, ps[n + 1]), o.f)
      BY <1>1, <2>2, <3>1, RestartProcSame
    <3> QED
      BY <3>1, <3>2, SameTransitive DEF Outcomes
  <2> QED
    BY <2>1, <2>2, <2>3 DEF Outcomes, step
<1> HIDE DEF T
<1>8. N \in T
  BY <1>1, <1>6, <1>7, SetInduction
<1>9. Outcomes(after[N], f)
  BY <1>1, <1>8 DEF T
<1> QED
  BY <1>4, <1>9 DEF Outcomes

\* fcgi_trigger: all hosts in turn.
Triggered(f) ==
  LET after[k \in 0..Len(hosts)] ==
        IF k = 0 THEN {f} ELSE UNION {fcgi_restart_dead_procs(g, k) : g \in after[k - 1]}
  IN after[Len(hosts)]

\* The trigger, by induction on the hosts it has looked at.
LEMMA TriggerSame ==
  ASSUME conf \in Confs, NEW f \in FrameType
  PROVE  \A g \in Triggered(f) : Same(g, f)
<1> DEFINE N == Len(hosts)
           step(fs, k) == UNION {fcgi_restart_dead_procs(g, k) : g \in fs}
           Is(after, n) == after = [k \in 0..n |-> IF k = 0 THEN {f} ELSE step(after[k - 1], k)]
<1>1. N \in Nat /\ Host = 1..N
  BY ConfFacts
<1>2. Triggered(f) = (CHOOSE after : Is(after, N))[N]
  BY DEF Triggered
<1> HIDE DEF step
<1>3. \E after : Is(after, N)
  <2> DEFINE T == {n \in Nat : \E after : Is(after, n)}
  <2>1. 0 \in T
    <3>1. Is([k \in 0..0 |-> {f}], 0)
      OBVIOUS
    <3> QED
      BY <3>1
  <2>2. ASSUME NEW n \in Nat, n \in T
        PROVE  n + 1 \in T
    <3>1. PICK a : Is(a, n)
      BY <2>2
    <3> DEFINE b == [k \in 0..n + 1 |-> IF k = n + 1 THEN step(a[n], n + 1) ELSE a[k]]
    <3>2. \A k \in 0..n : a[k] = IF k = 0 THEN {f} ELSE step(a[k - 1], k)
      BY <3>1
    <3>3. (\A k \in 0..n : b[k] = a[k]) /\ b[n + 1] = step(a[n], n + 1)
      OBVIOUS
    <3>4. b = [k \in 0..n + 1 |-> b[k]]
      OBVIOUS
    <3> HIDE DEF b
    <3>5. ASSUME NEW k \in 0..n + 1
          PROVE  b[k] = IF k = 0 THEN {f} ELSE step(b[k - 1], k)
      <4>1. CASE k = n + 1
        BY <3>3, <4>1
      <4>2. CASE k \in 1..n
        <5>1. k - 1 \in 0..n
          BY <4>2
        <5> QED
          BY <3>2, <3>3, <4>2, <5>1
      <4>3. CASE k = 0
        BY <3>2, <3>3, <4>3
      <4> QED
        BY <4>1, <4>2, <4>3
    <3>6. Is(b, n + 1)
      BY <3>4, <3>5
    <3> QED
      BY <3>6
  <2> HIDE DEF T
  <2>3. \A n \in Nat : n \in T
    BY <2>1, <2>2, SetInduction
  <2> QED
    BY <1>1, <2>3 DEF T
<1>4. PICK after : Is(after, N) /\ Triggered(f) = after[N]
  BY <1>2, <1>3
<1>5. \A k \in 0..N : after[k] = IF k = 0 THEN {f} ELSE step(after[k - 1], k)
  BY <1>4
<1> DEFINE T == {n \in Nat : n <= N => \A g \in after[n] : Same(g, f)}
<1>6. 0 \in T
  BY <1>1, <1>5 DEF Same
<1>7. ASSUME NEW n \in Nat, n \in T
      PROVE  n + 1 \in T
  <2> SUFFICES ASSUME n + 1 <= N
               PROVE  \A g \in after[n + 1] : Same(g, f)
    OBVIOUS
  <2>1. \A g \in after[n] : Same(g, f)
    BY <1>1, <1>7
  <2>2. after[n + 1] = step(after[n], n + 1) /\ n + 1 \in Host
    <3>1. n + 1 \in 0..N /\ n + 1 \in 1..N /\ n + 1 # 0 /\ (n + 1) - 1 = n
      BY <1>1
    <3> HIDE DEF N
    <3> QED
      BY <1>1, <1>5, <3>1
  <2>3. ASSUME NEW g \in after[n]
        PROVE  \A q \in fcgi_restart_dead_procs(g, n + 1) : Same(q, f)
    <3>1. Same(g, f) /\ g \in FrameType
      BY <2>1 DEF Same
    <3> QED
      BY <2>2, <3>1, RestartSame, SameTransitive
  <2> QED
    BY <2>1, <2>2, <2>3 DEF step
<1> HIDE DEF T
<1>8. N \in T
  BY <1>1, <1>6, <1>7, SetInduction
<1> QED
  BY <1>1, <1>4, <1>8 DEF T

-----------------------------------------------------------------------------
(* The context of a request. *)

\* A set of numbers that is not empty has a least one.
LEMMA Least ==
  ASSUME NEW S, S \subseteq Nat, S # {}
  PROVE  \E x \in S : \A y \in S : x <= y
<1> DEFINE R == OpToRel(<, Nat)
<1>1. IsWellFoundedOn(R, Nat)
  BY NatLessThanWellFounded, Zenon
<1>2. \A x, y \in Nat : x < y => <<x, y>> \in R
  BY Zenon DEF OpToRel
<1> HIDE DEF R
<1>3. PICK x \in S : \A y \in S : ~(<<y, x>> \in R)
  BY <1>1, WFMin
<1>4. \A y \in S : ~(y < x)
  BY <1>2, <1>3
<1> QED
  BY <1>4

\* A frame with the same loads is as good.
LEMMA SameGood ==
  ASSUME NEW c, NEW f, NEW g, Good(c, f), Same(g, f)
  PROVE  Good(c, g)
BY DEF Good, Loads, Same

\* The loads of the others are counts.
LEMMA AtHostNat ==
  ASSUME conf \in Confs, NEW c
  PROVE  \A h \in Host : AtHost(c, h) \in Nat
<1> SUFFICES ASSUME NEW h \in Host PROVE AtHost(c, h) \in Nat
  OBVIOUS
<1>1. {d \in Request \ {c} : hctx[d].host = h} \in SUBSET Request
  OBVIOUS
<1> QED
  BY <1>1, ConfFacts, FS_Subset, FS_CardinalityType DEF AtHost

\* The context of a frame.
LEMMA FrameFields ==
  ASSUME conf \in Confs, NEW c, NEW f, Good(c, f)
  PROVE  /\ f \in FrameType /\ f.x \in CtxRec
         /\ \A p \in Proc : f.proc[p] \in ProcRec /\ f.proc[p].load \in 0..Wrap - 1
         /\ \A h \in Host : f.host[h] \in HostRec /\ f.host[h].load \in Nat
<1>1. f \in FrameType /\ \A h \in Host : AtHost(c, h) \in Nat
  BY AtHostNat DEF Good
<1> QED
  BY <1>1 DEF Good, Loads, FrameType, ProcRec

\* Another context that holds the same.
LEMMA CtxChanged ==
  ASSUME NEW c, NEW f, Good(c, f), NEW x \in CtxRec, x.host = f.x.host,
         \/ x.proc = f.x.proc /\ x.got_proc = f.x.got_proc
         \/ "ENOTCONN" \notin Faults => ~x.got_proc /\ ~f.x.got_proc
  PROVE  Good(c, [f EXCEPT !.x = x])
<1> DEFINE g == [f EXCEPT !.x = x]
<1>1. g \in FrameType /\ g.x = x /\ g.host = f.host /\ g.proc = f.proc
  BY DEF Good, FrameType
<1> HIDE DEF g
<1>2. Good(c, g)
  BY <1>1 DEF Good, Loads
<1> QED
  BY <1>2 DEF g

\* fcgi_connection_close: the request holds nothing any more.
LEMMA CloseGood ==
  ASSUME conf \in Confs, NEW c \in Request, NEW f, Good(c, f), CtxOK(f.x)
  PROVE  LET g == fcgi_connection_close(f) IN Good(c, g) /\ g.x = NoCtx
<1> DEFINE x == f.x
           p == x.proc
           h == x.host
           r == [f.proc[p] EXCEPT !.load = Dec(@)]
           s == [f.host[h] EXCEPT !.load = @ - 1]
           a == IF h # none /\ p # none /\ x.got_proc THEN [f.proc EXCEPT ![p] = r] ELSE f.proc
           b == IF h # none THEN [f.host EXCEPT ![h] = s] ELSE f.host
           g == [proc |-> a, host |-> b, x |-> NoCtx, last |-> f.last]
<1>1. /\ f \in FrameType /\ x \in CtxRec /\ Wrap \in Nat /\ Wrap > 0 /\ max_reconnects \in Nat
      /\ p # none => p \in Proc
      /\ h # none => h \in Host
      /\ none \notin Proc /\ none \notin Host
      /\ \A q \in Proc : f.proc[q] \in ProcRec /\ f.proc[q].load \in 0..Wrap - 1
      /\ \A k \in Host : f.host[k] \in HostRec /\ f.host[k].load \in Nat
  BY ConfFacts, FrameFields DEF CtxRec
<1>2. fcgi_connection_close(f) = g
  BY <1>1 DEF fcgi_connection_close, FrameType
<1>3. p # none => r \in ProcRec /\ r.load = Dec(f.proc[p].load)
  BY <1>1, CounterFacts DEF ProcRec
<1>4. h # none => s \in HostRec /\ s.load = f.host[h].load - 1
  BY <1>1 DEF HostRec
<1> HIDE DEF r, s
<1>5. a \in [Proc -> ProcRec] /\ b \in [Host -> HostRec]
  BY <1>1, <1>3, <1>4 DEF FrameType
<1>6. NoCtx \in CtxRec /\ NoCtx.host = none /\ ~NoCtx.got_proc
  BY <1>1 DEF NoCtx, CtxRec
<1>7. \A k \in Host : b[k].load = AtHost(c, k)
  <2> SUFFICES ASSUME NEW k \in Host PROVE b[k].load = AtHost(c, k)
    OBVIOUS
  <2>1. f.host[k].load = AtHost(c, k) + (IF h = k THEN 1 ELSE 0) /\ AtHost(c, k) \in Nat
    BY AtHostNat DEF Good, Loads
  <2>2. b[k] = IF k = h THEN s ELSE f.host[k]
    BY <1>1 DEF FrameType
  <2> HIDE DEF b, x, h
  <2> QED
    BY <1>1, <1>4, <2>1, <2>2
<1>8. ASSUME "ENOTCONN" \notin Faults, NEW q \in Proc
      PROVE  a[q].load = AtProc(c, q)
  <2>1. /\ f.proc[q].load = AtProc(c, q) + (IF p = q /\ x.got_proc THEN 1 ELSE 0)
        /\ AtProc(c, q) \in Nat
    BY <1>8, OthersFew DEF Good, Loads
  <2>2. x.got_proc => h # none /\ p # none
    BY <1>8 DEF CtxOK
  <2>3. a[q] = IF q = p /\ x.got_proc THEN r ELSE f.proc[q]
    BY <1>1, <2>2 DEF FrameType
  <2>4. q = p /\ x.got_proc => Dec(f.proc[p].load) = AtProc(c, q)
    <3> SUFFICES ASSUME q = p, x.got_proc PROVE Dec(f.proc[q].load) = AtProc(c, q)
      OBVIOUS
    <3>1. f.proc[q].load \in 0..Wrap - 1 /\ f.proc[q].load > 0 /\ f.proc[q].load - 1 = AtProc(c, q)
      BY <1>1, <2>1
    <3> QED
      BY <1>1, <3>1, CounterFacts
  <2> HIDE DEF a, x, p
  <2> QED
    BY <1>3, <2>1, <2>2, <2>3, <2>4
<1> HIDE DEF a, b, x, p, h
<1>9. g \in FrameType /\ g.x = NoCtx /\ g.proc = a /\ g.host = b
  BY <1>1, <1>5, <1>6 DEF FrameType
<1> HIDE DEF g
<1>10. Good(c, g)
  <2>1. \A k \in Host : AtHost(c, k) \in Nat /\ k # none
    BY <1>1, AtHostNat
  <2>2. \A q \in Proc : AtProc(c, q) \in Nat
    BY OthersFew
  <2> QED
    BY <1>6, <1>7, <1>8, <1>9, <2>1, <2>2 DEF Good, Loads
<1> QED
  BY <1>2, <1>9, <1>10

\* fcgi_reconnect: the host is given back; without ENOTCONN no process is held.
LEMMA ReconnectGood ==
  ASSUME conf \in Confs, NEW c \in Request, NEW f, Good(c, f), f.x.host # none,
         f.x.reconnects < max_reconnects,
         "ENOTCONN" \notin Faults => ~f.x.got_proc
  PROVE  LET g == fcgi_reconnect(f)
         IN Good(c, g) /\ CtxOK(g.x) /\ g.x.state = "INIT"
<1> DEFINE x == f.x
           p == x.proc
           h == x.host
           r == [f.proc[p] EXCEPT !.load = Dec(@)]
           s == [f.host[h] EXCEPT !.load = @ - 1]
           y == [x EXCEPT !.host = none, !.state = "INIT", !.reconnects = @ + 1]
           a == IF p # none /\ x.got_proc THEN [f.proc EXCEPT ![p] = r] ELSE f.proc
           b == [f.host EXCEPT ![h] = s]
           g == [proc |-> a, host |-> b, x |-> y, last |-> f.last]
<1>1. /\ f \in FrameType /\ x \in CtxRec /\ Wrap \in Nat /\ Wrap > 0 /\ max_reconnects \in Nat
      /\ p # none => p \in Proc
      /\ h \in Host
      /\ none \notin Proc /\ none \notin Host
      /\ \A q \in Proc : f.proc[q] \in ProcRec /\ f.proc[q].load \in 0..Wrap - 1
      /\ \A k \in Host : f.host[k] \in HostRec /\ f.host[k].load \in Nat
  BY ConfFacts, FrameFields DEF CtxRec
<1>2. fcgi_reconnect(f) = g
  <2> DEFINE k == IF p # none /\ x.got_proc THEN [f EXCEPT !.proc[p].load = Dec(@)] ELSE f
  <2>1. k = [proc |-> a, host |-> f.host, x |-> x, last |-> f.last]
    BY <1>1 DEF FrameType
  <2>2. fcgi_reconnect(f) = [k EXCEPT !.host[h].load = @ - 1, !.x.host = none, !.x.state = "INIT",
                                      !.x.reconnects = @ + 1]
    BY DEF fcgi_reconnect
  <2> HIDE DEF k, a
  <2> QED
    BY <1>1, <2>1, <2>2 DEF FrameType, CtxRec
<1>3. p # none => r \in ProcRec /\ r.load = Dec(f.proc[p].load)
  BY <1>1, CounterFacts DEF ProcRec
<1>4. s \in HostRec /\ s.load = f.host[h].load - 1
  BY <1>1 DEF HostRec
<1>5. /\ y \in CtxRec /\ y.host = none /\ y.state = "INIT" /\ y.proc = x.proc
      /\ y.got_proc = x.got_proc
  <2>1. x.reconnects + 1 \in 0..max_reconnects
    BY <1>1 DEF CtxRec
  <2> HIDE DEF x
  <2> QED
    BY <1>1, <2>1 DEF CtxRec
<1> HIDE DEF r, s, y
<1>6. a \in [Proc -> ProcRec] /\ b \in [Host -> HostRec]
  BY <1>1, <1>3, <1>4 DEF FrameType
<1>7. \A k \in Host : b[k].load = AtHost(c, k)
  <2> SUFFICES ASSUME NEW k \in Host PROVE b[k].load = AtHost(c, k)
    OBVIOUS
  <2>1. f.host[k].load = AtHost(c, k) + (IF h = k THEN 1 ELSE 0) /\ AtHost(c, k) \in Nat
    BY AtHostNat DEF Good, Loads
  <2>2. b[k] = IF k = h THEN s ELSE f.host[k]
    BY <1>1 DEF FrameType
  <2> HIDE DEF b, x, h
  <2> QED
    BY <1>1, <1>4, <2>1, <2>2
<1>8. ASSUME "ENOTCONN" \notin Faults, NEW q \in Proc
      PROVE  a[q].load = AtProc(c, q)
  <2>1. f.proc[q].load = AtProc(c, q) /\ ~x.got_proc /\ AtProc(c, q) \in Nat
    BY <1>8, OthersFew DEF Good, Loads
  <2> QED
    BY <2>1
<1> HIDE DEF a, b, x, p, h
<1>9. g \in FrameType /\ g.x = y /\ g.proc = a /\ g.host = b
  BY <1>1, <1>5, <1>6 DEF FrameType
<1> HIDE DEF g
<1>10. Good(c, g)
  <2>1. \A k \in Host : AtHost(c, k) \in Nat /\ k # none
    BY <1>1, AtHostNat
  <2>2. \A q \in Proc : AtProc(c, q) \in Nat
    BY OthersFew
  <2>3. "ENOTCONN" \notin Faults => ~y.got_proc
    BY <1>5 DEF x
  <2> QED
    BY <1>5, <1>7, <1>8, <1>9, <2>1, <2>2, <2>3 DEF Good, Loads
<1>11. CtxOK(g.x) /\ g.x.state = "INIT"
  BY <1>5, <1>9 DEF CtxOK, Connected, x
<1> QED
  BY <1>2, <1>10, <1>11

\* What an attempt leaves; after an error it is closed or tried again.
Tried(c, o) ==
  /\ Good(c, o.f) /\ CtxOK(o.f.x) /\ o.f.x.state # "NULL"
  /\ o.r = "ERROR" => o.f.x.host # none
  /\ o.r # "ERROR" => o.f.x.state # "PREPARE_WRITE"

\* case FCGI_STATE_WRITE.
LEMMA WriteTried ==
  ASSUME conf \in Confs, NEW c \in Request, NEW f, Good(c, f), CtxOK(f.x),
         f.x.state = "WRITE"
  PROVE  \A o \in FcgiWrite(f) : Tried(c, o)
<1> DEFINE x1 == [f.x EXCEPT !.sent = TRUE]
           x2 == [f.x EXCEPT !.state = "READ", !.sent = TRUE]
           g1 == [f EXCEPT !.x = x1]
           g2 == [f EXCEPT !.x = x2]
<1>1. f \in FrameType /\ f.x \in CtxRec
  BY FrameFields
<1>2. /\ x1 \in CtxRec /\ x1.state = "WRITE" /\ x1.host = f.x.host /\ x1.proc = f.x.proc
      /\ x1.got_proc = f.x.got_proc
      /\ x2 \in CtxRec /\ x2.state = "READ" /\ x2.host = f.x.host /\ x2.proc = f.x.proc
      /\ x2.got_proc = f.x.got_proc
  BY <1>1 DEF CtxRec
<1>3. /\ g1 = [f EXCEPT !.x.sent = TRUE] /\ g2 = [f EXCEPT !.x.state = "READ", !.x.sent = TRUE]
      /\ g1.x = x1 /\ g2.x = x2
  BY <1>1 DEF FrameType
<1> HIDE DEF x1, x2
<1>4. Good(c, g1) /\ Good(c, g2)
  BY <1>2, CtxChanged
<1> HIDE DEF g1, g2
<1>5. CtxOK(x1) /\ CtxOK(x2) /\ f.x.host # none /\ f.x.got_proc
  BY <1>2 DEF CtxOK, Connected
<1>6. /\ Tried(c, Outcome(g1, "WAIT")) /\ Tried(c, Outcome(g2, "WAIT"))
      /\ Tried(c, Outcome(f, "WAIT")) /\ Tried(c, Outcome(f, "ERROR"))
  BY <1>2, <1>3, <1>4, <1>5 DEF Tried, Outcome
<1>7. ASSUME "ENOTCONN" \in Faults, f.x.reconnects < max_reconnects
      PROVE  Tried(c, Outcome(fcgi_reconnect(f), "WAIT"))
  <2>1. LET g == fcgi_reconnect(f) IN Good(c, g) /\ CtxOK(g.x) /\ g.x.state = "INIT"
    BY <1>5, <1>7, ReconnectGood
  <2> QED
    BY <2>1 DEF Tried, Outcome
<1> QED
  BY <1>3, <1>6, <1>7 DEF FcgiWrite

\* case FCGI_STATE_PREPARE_WRITE: the request becomes a load of its process.
LEMMA PrepareTried ==
  ASSUME conf \in Confs, NEW c \in Request, NEW f, Good(c, f), CtxOK(f.x),
         f.x.state \in {"INIT", "CONNECT_DELAYED"}, f.x.host # none, f.x.proc # none
  PROVE  \A o \in FcgiPrepareWrite(f) : Tried(c, o)
<1> DEFINE p == f.x.proc
           r == [f.proc[p] EXCEPT !.load = Inc(@)]
           x1 == [f.x EXCEPT !.got_proc = TRUE, !.state = "PREPARE_WRITE"]
           x2 == [f.x EXCEPT !.got_proc = TRUE, !.state = "WRITE"]
           a == [f.proc EXCEPT ![p] = r]
           g1 == [proc |-> a, host |-> f.host, x |-> x1, last |-> f.last]
           g2 == [proc |-> a, host |-> f.host, x |-> x2, last |-> f.last]
<1>1. /\ f \in FrameType /\ f.x \in CtxRec /\ p \in Proc /\ Wrap \in Nat /\ Wrap > 0
      /\ f.proc[p] \in ProcRec /\ f.proc[p].load \in 0..Wrap - 1
  BY ConfFacts, FrameFields DEF CtxRec
<1>2. FcgiPrepareWrite(f) = {Outcome(g1, "ERROR")} \cup FcgiWrite(g2)
  <2> DEFINE k == [proc |-> a, host |-> f.host, x |-> [f.x EXCEPT !.got_proc = TRUE],
                   last |-> f.last]
  <2>1. [f EXCEPT !.proc[p].load = Inc(@), !.x.got_proc = TRUE] = k
    <3> DEFINE r0 == [f EXCEPT !.proc[p].load = Inc(@)]
               y == [f.x EXCEPT !.got_proc = TRUE]
    <3>1. r0 = [proc |-> a, host |-> f.host, x |-> f.x, last |-> f.last]
      BY <1>1 DEF FrameType
    <3>2. [f EXCEPT !.proc[p].load = Inc(@), !.x.got_proc = TRUE]
            = [r0 EXCEPT !.x = [r0.x EXCEPT !.got_proc = TRUE]]
      BY Zenon
    <3> HIDE DEF a, r0
    <3>3. [r0 EXCEPT !.x = [r0.x EXCEPT !.got_proc = TRUE]] = [r0 EXCEPT !.x = y]
      <4>1. r0.x = f.x
        BY <3>1
      <4> QED
        BY <4>1, Zenon
    <3> HIDE DEF y
    <3>4. [r0 EXCEPT !.x = y] = [proc |-> a, host |-> f.host, x |-> y, last |-> f.last]
      BY <3>1
    <3> QED
      BY <3>2, <3>3, <3>4, Zenon DEF y
  <2>2. [k EXCEPT !.x.state = "PREPARE_WRITE"] = g1 /\ [k EXCEPT !.x.state = "WRITE"] = g2
    <3> HIDE DEF a
    <3> QED
      BY <1>1 DEF CtxRec
  <2> HIDE DEF k, g1, g2
  <2> QED
    BY <2>1, <2>2 DEF FcgiPrepareWrite
<1>3. r \in ProcRec /\ r.load = Inc(f.proc[p].load)
  BY <1>1, CounterFacts DEF ProcRec
<1>4. /\ x1 \in CtxRec /\ x1.state = "PREPARE_WRITE" /\ x1.host = f.x.host /\ x1.proc = p /\ x1.got_proc
      /\ x2 \in CtxRec /\ x2.state = "WRITE" /\ x2.host = f.x.host /\ x2.proc = p /\ x2.got_proc
  BY <1>1 DEF CtxRec
<1> HIDE DEF r, x1, x2
<1>5. a \in [Proc -> ProcRec] /\ \A q \in Proc : a[q] = IF q = p THEN r ELSE f.proc[q]
  BY <1>1, <1>3 DEF FrameType
<1>6. ASSUME "ENOTCONN" \notin Faults, NEW q \in Proc
      PROVE  a[q].load = AtProc(c, q) + (IF p = q THEN 1 ELSE 0)
  <2>1. f.proc[q].load = AtProc(c, q) /\ AtProc(c, q) \in Nat /\ AtProc(c, q) + 1 < Wrap
    <3>1. ~f.x.got_proc
      BY <1>6 DEF CtxOK, Connected
    <3> QED
      BY <1>6, <3>1, OthersFew DEF Good, Loads
  <2>2. q = p => Inc(f.proc[p].load) = AtProc(c, q) + 1
    <3> SUFFICES ASSUME q = p PROVE Inc(f.proc[q].load) = AtProc(c, q) + 1
      OBVIOUS
    <3>1. f.proc[q].load \in 0..Wrap - 1 /\ f.proc[q].load + 1 < Wrap
      BY <1>1, <2>1
    <3> QED
      BY <1>1, <2>1, <3>1, CounterFacts
  <2> HIDE DEF a, p
  <2> QED
    BY <1>3, <1>5, <2>1, <2>2
<1> HIDE DEF a
<1>7. g1 \in FrameType /\ g1.x = x1 /\ g2 \in FrameType /\ g2.x = x2
  BY <1>1, <1>4, <1>5 DEF FrameType
<1>8. g1.proc = a /\ g1.host = f.host /\ g2.proc = a /\ g2.host = f.host
  OBVIOUS
<1> HIDE DEF g1, g2
<1>9. Good(c, g1) /\ Good(c, g2)
  BY <1>4, <1>6, <1>7, <1>8 DEF Good, Loads
<1>10. CtxOK(g1.x) /\ CtxOK(g2.x) /\ g2.x.state = "WRITE"
  <2>1. p # none
    BY DEF p
  <2> QED
    BY <1>4, <1>7, <2>1 DEF CtxOK, Connected
<1>11. Tried(c, Outcome(g1, "ERROR"))
  BY <1>4, <1>7, <1>9, <1>10 DEF Tried, Outcome
<1>12. \A o \in FcgiWrite(g2) : Tried(c, o)
  BY <1>9, <1>10, WriteTried
<1> QED
  BY <1>2, <1>11, <1>12

\* What a failed connect() makes of the process.
LEMMA FailedTried ==
  ASSUME conf \in Confs, NEW c \in Request, NEW f, Good(c, f), CtxOK(f.x),
         f.x.state \in {"INIT", "CONNECT_DELAYED"}, f.x.host # none, f.x.proc # none,
         NEW s \in {"OVERLOADED", "DIED_WAIT_FOR_PID", "DIED"}
  PROVE  Tried(c, Outcome(Failed(f, s), "ERROR"))
<1> DEFINE p == f.x.proc
           g == [f EXCEPT !.proc[p].state = s]
           k == [g EXCEPT !.proc[p].disabled = TRUE]
<1>1. f \in FrameType /\ p \in Proc
  BY FrameFields DEF CtxRec
<1>2. Failed(f, s) = k
  BY <1>1 DEF Failed, FrameType
<1>3. Same(g, f) /\ g \in FrameType
  <2>1. s \in {"RUNNING", "OVERLOADED", "DIED_WAIT_FOR_PID", "DIED"}
    OBVIOUS
  <2>2. Same(g, f)
    BY <1>1, <2>1, FieldChanged
  <2> QED
    BY <2>2 DEF Same
<1> HIDE DEF g
<1>4. Same(k, g)
  BY <1>1, <1>3, FieldChanged
<1> HIDE DEF k
<1>5. Same(k, f)
  BY <1>3, <1>4, SameTransitive
<1>6. Good(c, k) /\ k.x = f.x
  BY <1>5, SameGood DEF Same
<1> QED
  BY <1>2, <1>6 DEF Tried, Outcome

\* fcgi_establish_connection.
LEMMA EstablishTried ==
  ASSUME conf \in Confs, NEW c \in Request, NEW f, Good(c, f), CtxOK(f.x),
         f.x.state = "INIT", f.x.host # none, f.x.proc # none
  PROVE  \A o \in fcgi_establish_connection(f) : Tried(c, o)
<1> DEFINE x1 == [f.x EXCEPT !.reconnects = 0]
           x2 == [f.x EXCEPT !.state = "CONNECT_DELAYED"]
           g1 == [f EXCEPT !.x = x1]
           g2 == [f EXCEPT !.x = x2]
<1>1. f \in FrameType /\ f.x \in CtxRec /\ max_reconnects \in Nat
  BY ConfFacts, FrameFields
<1>2. /\ x1 \in CtxRec /\ x1.state = f.x.state /\ x1.host = f.x.host /\ x1.proc = f.x.proc
      /\ x1.got_proc = f.x.got_proc
      /\ x2 \in CtxRec /\ x2.state = "CONNECT_DELAYED" /\ x2.host = f.x.host /\ x2.proc = f.x.proc
      /\ x2.got_proc = f.x.got_proc
  BY <1>1 DEF CtxRec
<1>3. /\ g1 = [f EXCEPT !.x.reconnects = 0] /\ g2 = [f EXCEPT !.x.state = "CONNECT_DELAYED"]
      /\ g1.x = x1 /\ g2.x = x2
  BY <1>1 DEF FrameType
<1> HIDE DEF x1, x2
<1>4. Good(c, g1) /\ Good(c, g2)
  BY <1>2, CtxChanged
<1> HIDE DEF g1, g2
<1>5. CtxOK(x1) /\ CtxOK(x2)
  BY <1>2 DEF CtxOK, Connected
<1>6. \A o \in FcgiPrepareWrite(g1) : Tried(c, o)
  BY <1>2, <1>3, <1>4, <1>5, PrepareTried
<1>7. Tried(c, Outcome(g2, "WAIT"))
  BY <1>2, <1>3, <1>4, <1>5 DEF Tried, Outcome
<1>8. \A s \in {"OVERLOADED", "DIED_WAIT_FOR_PID", "DIED"} : Tried(c, Outcome(Failed(f, s), "ERROR"))
  BY FailedTried
<1> QED
  BY <1>3, <1>6, <1>7, <1>8 DEF fcgi_establish_connection

\* The least loaded running process is one of the host's.
LEMMA LeastLoadedThere ==
  ASSUME conf \in Confs, NEW f \in FrameType, NEW h \in Host, IsRunning(f, h) # {}
  PROVE  LeastLoaded(f, h) \in Proc
<1> DEFINE R == IsRunning(f, h)
           load(j) == f.proc[hosts[h][j]].load
<1>1. hosts[h] \in Seq(Proc) /\ Wrap \in Nat
  BY ConfFacts
<1>2. R \subseteq Nat /\ \A j \in R : hosts[h][j] \in Proc /\ load(j) \in Nat
  BY <1>1 DEF IsRunning, FrameType, ProcRec
<1> HIDE DEF R, load
<1>3. PICK m \in {load(j) : j \in R} : \A n \in {load(j) : j \in R} : m <= n
  BY <1>2, Least DEF R
<1>4. PICK k \in {j \in R : load(j) = m} : \A j \in {i \in R : load(i) = m} : k <= j
  <2>1. {j \in R : load(j) = m} \subseteq Nat /\ {j \in R : load(j) = m} # {}
    BY <1>2, <1>3
  <2> QED
    BY <2>1, Least
<1>5. \A j \in R : load(k) <= load(j) /\ (j < k => load(k) < load(j))
  <2> SUFFICES ASSUME NEW j \in R
               PROVE  load(k) <= load(j) /\ (j < k => load(k) < load(j))
    OBVIOUS
  <2>1. load(k) = m /\ m <= load(j) /\ load(j) \in Nat /\ m \in Nat
    BY <1>2, <1>3, <1>4
  <2>2. load(j) = m => k <= j
    BY <1>4
  <2>3. j \in Nat /\ k \in Nat
    BY <1>2, <1>4
  <2> QED
    BY <2>1, <2>2, <2>3
<1>6. k \in R
  BY <1>4
<1> DEFINE best == CHOOSE i \in R : \A j \in R : load(i) <= load(j) /\ (j < i => load(i) < load(j))
<1>7. best \in R
  BY <1>5, <1>6
<1>8. LeastLoaded(f, h) = hosts[h][best]
  BY DEF LeastLoaded, R, load
<1> QED
  BY <1>2, <1>7, <1>8

\* case FCGI_STATE_INIT.
LEMMA InitTried ==
  ASSUME conf \in Confs, NEW c \in Request, NEW f, Good(c, f), CtxOK(f.x),
         f.x.state = "INIT", f.x.host # none
  PROVE  \A o \in FcgiInit(f) : Tried(c, o)
<1>1. f \in FrameType /\ f.x \in CtxRec /\ f.x.host \in Host /\ none \notin Proc
  BY ConfFacts, FrameFields DEF CtxRec
<1>2. "ENOTCONN" \notin Faults => ~f.x.got_proc
  BY DEF CtxOK, Connected
<1>3. ASSUME NEW p \in Proc \cup {none}
      PROVE  LET g == [f EXCEPT !.x.proc = p]
             IN Good(c, g) /\ CtxOK(g.x) /\ g.x.state = "INIT" /\ g.x.host = f.x.host /\ g.x.proc = p
  <2> DEFINE x == [f.x EXCEPT !.proc = p]
             g == [f EXCEPT !.x = x]
  <2>1. x \in CtxRec /\ x.state = "INIT" /\ x.host = f.x.host /\ x.proc = p /\ x.got_proc = f.x.got_proc
    BY <1>1 DEF CtxRec
  <2>2. g = [f EXCEPT !.x.proc = p] /\ g.x = x
    BY <1>1 DEF FrameType
  <2> HIDE DEF x
  <2>3. Good(c, g)
    BY <1>2, <2>1, CtxChanged
  <2> HIDE DEF g
  <2>4. CtxOK(x)
    BY <1>2, <2>1 DEF CtxOK, Connected
  <2> QED
    BY <2>1, <2>2, <2>3, <2>4
<1>4. Tried(c, Outcome([f EXCEPT !.x.proc = none], "ERROR"))
  <2> DEFINE g == [f EXCEPT !.x.proc = none]
  <2>1. Good(c, g) /\ CtxOK(g.x) /\ g.x.state = "INIT" /\ g.x.host = f.x.host
    BY <1>3
  <2> HIDE DEF g
  <2>2. Tried(c, Outcome(g, "ERROR"))
    BY <2>1 DEF Tried, Outcome
  <2> QED
    BY <2>2 DEF g
<1>5. CASE IsRunning(f, f.x.host) = {}
  BY <1>4, <1>5 DEF FcgiInit
<1>6. CASE IsRunning(f, f.x.host) # {}
  <2> DEFINE p == LeastLoaded(f, f.x.host)
             g == [f EXCEPT !.x.proc = p]
  <2>1. p \in Proc
    BY <1>1, <1>6, LeastLoadedThere
  <2> HIDE DEF p
  <2>2. /\ Good(c, g) /\ CtxOK(g.x) /\ g.x.state = "INIT" /\ g.x.host = f.x.host /\ g.x.proc = p
        /\ p # none
    BY <1>1, <1>3, <2>1
  <2> HIDE DEF g
  <2>3. \A o \in fcgi_establish_connection(g) : Tried(c, o)
    BY <2>2, EstablishTried
  <2>4. Tried(c, Outcome(g, "ERROR")) /\ Tried(c, Outcome(g, "WAIT"))
    BY <2>2 DEF Tried, Outcome
  <2>5. FcgiInit(f) \subseteq fcgi_establish_connection(g) \cup {Outcome(g, "ERROR"), Outcome(g, "WAIT")}
    BY <1>6 DEF FcgiInit, g, p
  <2> QED
    BY <2>3, <2>4, <2>5
<1> QED
  BY <1>5, <1>6

\* The end of a delayed connect().
LEMMA ConnectedTried ==
  ASSUME conf \in Confs, NEW c \in Request, NEW f, Good(c, f), CtxOK(f.x),
         f.x.state = "CONNECT_DELAYED"
  PROVE  \A o \in FcgiConnected(f) : Tried(c, o)
<1>1. f.x.host # none /\ f.x.proc # none
  BY DEF CtxOK
<1>2. \A o \in FcgiPrepareWrite(f) : Tried(c, o)
  BY <1>1, PrepareTried
<1>3. Tried(c, Outcome(Failed(f, "DIED"), "ERROR"))
  BY <1>1, FailedTried
<1> QED
  BY <1>2, <1>3 DEF FcgiConnected

\* fcgi_write_request, and what mod_fastcgi_handle_subrequest does with its
\* error.
LEMMA AttemptGood ==
  ASSUME conf \in Confs, NEW c \in Request, NEW f, Good(c, f), CtxOK(f.x),
         f.x.state \in {"INIT", "CONNECT_DELAYED", "WRITE"}, f.x.host # none
  PROVE  \A g \in WriteOutcomes(f) : Good(c, g) /\ CtxOK(g.x) /\ g.x.state # "PREPARE_WRITE"
<1>1. \A o \in fcgi_write_request(f) : Tried(c, o)
  BY InitTried, ConnectedTried, WriteTried DEF fcgi_write_request
<1>2. ASSUME NEW o, Tried(c, o), o.r = "ERROR"
      PROVE  \A g \in SubrequestError(o.f) : Good(c, g) /\ CtxOK(g.x) /\ g.x.state # "PREPARE_WRITE"
  <2> DEFINE k == o.f
             h == k.x.host
  <2>1. Good(c, k) /\ CtxOK(k.x) /\ k.x \in CtxRec /\ h \in Host /\ k \in FrameType
        /\ Wrap \in Nat /\ Wrap > 0
    BY <1>2, ConfFacts, FrameFields DEF Tried, CtxRec
  <2>2. ASSUME NEW q, Good(c, q), CtxOK(q.x)
        PROVE  LET g == fcgi_connection_close(q)
               IN Good(c, g) /\ CtxOK(g.x) /\ g.x.state # "PREPARE_WRITE"
    <3>1. LET g == fcgi_connection_close(q) IN Good(c, g) /\ g.x = NoCtx
      BY <2>2, CloseGood
    <3> QED
      BY <3>1 DEF CtxOK, Connected, NoCtx
  <2>3. CASE k.x.state \notin {"INIT", "CONNECT_DELAYED"}
    BY <2>1, <2>2, <2>3 DEF SubrequestError
  <2>4. CASE k.x.state \in {"INIT", "CONNECT_DELAYED"}
    <3> DEFINE q == IF k.x.proc # none THEN [k EXCEPT !.host[h].active_procs = Dec(@)] ELSE k
    <3>1. Same(q, k)
      BY <2>1, ActiveChanged DEF Same
    <3>2. SubrequestError(k) = {IF d.x.reconnects < max_reconnects THEN fcgi_reconnect(d)
                                ELSE fcgi_connection_close(d) : d \in fcgi_restart_dead_procs(q, h)}
      BY <2>4 DEF SubrequestError
    <3> HIDE DEF q
    <3>3. ASSUME NEW d \in fcgi_restart_dead_procs(q, h)
          PROVE  Good(c, d) /\ d.x = k.x
      <4>1. Same(d, q)
        BY <2>1, <3>1, RestartSame DEF Same
      <4>2. Same(d, k)
        BY <3>1, <4>1, SameTransitive
      <4> QED
        BY <2>1, <4>2, SameGood DEF Same
    <3>4. ASSUME NEW d, Good(c, d), d.x = k.x, d.x.reconnects < max_reconnects
          PROVE  LET g == fcgi_reconnect(d)
                 IN Good(c, g) /\ CtxOK(g.x) /\ g.x.state # "PREPARE_WRITE"
      <4>1. d.x.host # none /\ ("ENOTCONN" \notin Faults => ~d.x.got_proc)
        BY <1>2, <2>1, <2>4, <3>4 DEF Tried, CtxOK, Connected
      <4>2. LET g == fcgi_reconnect(d) IN Good(c, g) /\ CtxOK(g.x) /\ g.x.state = "INIT"
        BY <3>4, <4>1, ReconnectGood
      <4> QED
        BY <4>2
    <3> QED
      BY <2>1, <2>2, <3>2, <3>3, <3>4
  <2> QED
    BY <2>3, <2>4
<1> QED
  BY <1>1, <1>2 DEF WriteOutcomes, Tried

\* The host that is chosen is one of the extension's, or none.
LEMMA ChosenThere ==
  ASSUME conf \in Confs, NEW c, NEW f, Good(c, f)
  PROVE  ChosenHost(f) \in Host \cup {none}
<1> DEFINE next == IF f.last + 1 > Len(hosts) THEN 1 ELSE f.last + 1
           active == {h \in Host : f.host[h].active_procs # 0}
           load(h) == f.host[h].load
<1>1. Host = 1..Len(hosts) /\ Len(hosts) \in Nat \ {0} /\ f.last \in Host \cup {0}
  BY ConfFacts, FrameFields DEF FrameType
<1>2. next \in Host
  BY <1>1
<1>3. active \subseteq Nat /\ \A h \in active : load(h) \in Nat
  BY <1>1, FrameFields
<1>4. ASSUME active # {}
      PROVE  \E h \in active : /\ \A k \in active : load(h) <= load(k)
                               /\ \A k \in active : k < h => load(h) < load(k)
  <2> HIDE DEF active, load
  <2>1. PICK m \in {load(j) : j \in active} : \A n \in {load(j) : j \in active} : m <= n
    BY <1>3, <1>4, Least
  <2>2. PICK h \in {j \in active : load(j) = m} : \A j \in {i \in active : load(i) = m} : h <= j
    <3>1. {j \in active : load(j) = m} \subseteq Nat /\ {j \in active : load(j) = m} # {}
      BY <1>3, <2>1
    <3> QED
      BY <3>1, Least
  <2>3. \A k \in active : load(h) <= load(k) /\ (k < h => load(h) < load(k))
    <3> SUFFICES ASSUME NEW k \in active
                 PROVE  load(h) <= load(k) /\ (k < h => load(h) < load(k))
      OBVIOUS
    <3>1. load(h) = m /\ m <= load(k) /\ load(k) \in Nat /\ m \in Nat
      BY <1>3, <2>1, <2>2
    <3>2. load(k) = m => h <= k
      BY <2>2
    <3>3. h \in Nat /\ k \in Nat
      BY <1>3, <2>2
    <3> QED
      BY <3>1, <3>2, <3>3
  <2> QED
    BY <2>2, <2>3
<1> DEFINE best == CHOOSE h \in active : /\ \A k \in active : load(h) <= load(k)
                                         /\ \A k \in active : k < h => load(h) < load(k)
<1>5. active # {} => best \in active
  BY <1>4
<1>6. ChosenHost(f) \in {next, none} \/ (active # {} /\ ChosenHost(f) = best)
  BY DEF ChosenHost
<1> QED
  BY <1>2, <1>5, <1>6

\* mod_fastcgi_handle_subrequest: a request without a host gets one.
LEMMA SubrequestedGood ==
  ASSUME conf \in Confs, NEW c \in Request, NEW f, Good(c, f), CtxOK(f.x),
         f.x.state \in {"INIT", "CONNECT_DELAYED", "WRITE"}
  PROVE  \A g \in Subrequested(f) : Good(c, g) /\ CtxOK(g.x) /\ g.x.state # "PREPARE_WRITE"
<1> DEFINE h == ChosenHost(f)
           s == [f.host[h] EXCEPT !.load = @ + 1]
           x == [f.x EXCEPT !.host = h, !.proc = none]
           b == [f.host EXCEPT ![h] = s]
           k == [proc |-> f.proc, host |-> b, x |-> x, last |-> h]
<1>1. /\ f \in FrameType /\ f.x \in CtxRec /\ none \notin Host /\ none \notin Proc
      /\ h \in Host \cup {none}
      /\ \A j \in Host : f.host[j] \in HostRec /\ f.host[j].load \in Nat
  BY ConfFacts, FrameFields, ChosenThere
<1>2. CASE f.x.host # none
  BY <1>2, AttemptGood DEF Subrequested
<1>3. CASE f.x.host = none /\ h = none
  <2>1. LET g == fcgi_connection_close(f) IN Good(c, g) /\ g.x = NoCtx
    BY CloseGood
  <2>2. Subrequested(f) = {fcgi_connection_close(f)}
    BY <1>3 DEF Subrequested
  <2> QED
    BY <2>1, <2>2 DEF CtxOK, Connected, NoCtx
<1>4. CASE f.x.host = none /\ h # none
  <2>1. Subrequested(f) = WriteOutcomes(k)
    <3>1. Subrequested(f) = WriteOutcomes([f EXCEPT !.last = h, !.x.host = h, !.x.proc = none,
                                                    !.host[h].load = @ + 1])
      BY <1>4 DEF Subrequested
    <3> HIDE DEF h
    <3>2. [f EXCEPT !.last = h, !.x.host = h, !.x.proc = none, !.host[h].load = @ + 1] = k
      <4> DEFINE y == [f.x EXCEPT !.host = h]
                 r1 == [f EXCEPT !.last = h]
                 r2 == [r1 EXCEPT !.x.host = h]
                 r3 == [r2 EXCEPT !.x.proc = none]
                 r4 == [r3 EXCEPT !.host[h].load = @ + 1]
      <4>1. [f EXCEPT !.last = h, !.x.host = h, !.x.proc = none, !.host[h].load = @ + 1] = r4
        BY Zenon
      <4>2. r1 = [proc |-> f.proc, host |-> f.host, x |-> f.x, last |-> h]
        BY <1>1 DEF FrameType
      <4> HIDE DEF r1
      <4>3. r2 = [proc |-> f.proc, host |-> f.host, x |-> y, last |-> h]
        BY <4>2
      <4>4. x = [y EXCEPT !.proc = none]
        BY <1>1 DEF CtxRec
      <4> HIDE DEF r2, x, y
      <4>5. r3 = [proc |-> f.proc, host |-> f.host, x |-> x, last |-> h]
        BY <4>3, <4>4
      <4> HIDE DEF r3
      <4>6. r4 = k
        BY <1>1, <1>4, <4>5 DEF FrameType
      <4> QED
        BY <4>1, <4>6, Zenon
    <3> QED
      BY <3>1, <3>2
  <2> HIDE DEF h
  <2>2. s \in HostRec /\ s.load = f.host[h].load + 1
    BY <1>1, <1>4 DEF HostRec
  <2>3. /\ x \in CtxRec /\ x.host = h /\ x.state = f.x.state /\ x.got_proc = f.x.got_proc
        /\ x.proc = none
    BY <1>1, <1>4 DEF CtxRec
  <2> HIDE DEF s, x
  <2>4. b \in [Host -> HostRec] /\ \A j \in Host : b[j] = IF j = h THEN s ELSE f.host[j]
    BY <1>1, <1>4, <2>2 DEF FrameType
  <2> HIDE DEF b
  <2>5. k \in FrameType /\ k.x = x /\ k.proc = f.proc /\ k.host = b
    BY <1>1, <1>4, <2>3, <2>4 DEF FrameType
  <2> HIDE DEF k
  <2>6. x.state = "INIT" /\ ("ENOTCONN" \notin Faults => ~f.x.got_proc)
    BY <1>4, <2>3 DEF CtxOK, Connected
  <2>7. \A j \in Host : b[j].load = AtHost(c, j) + (IF x.host = j THEN 1 ELSE 0)
    <3> SUFFICES ASSUME NEW j \in Host
                 PROVE  b[j].load = AtHost(c, j) + (IF x.host = j THEN 1 ELSE 0)
      OBVIOUS
    <3>1. f.host[j].load = AtHost(c, j) /\ AtHost(c, j) \in Nat
      BY <1>1, <1>4, AtHostNat DEF Good, Loads
    <3> QED
      BY <2>2, <2>3, <2>4, <3>1
  <2>8. "ENOTCONN" \notin Faults =>
          \A p \in Proc : f.proc[p].load = AtProc(c, p) + (IF x.proc = p /\ x.got_proc THEN 1 ELSE 0)
    BY <2>3, <2>6 DEF Good, Loads
  <2>9. Good(c, k)
    BY <2>5, <2>7, <2>8 DEF Good, Loads
  <2>10. CtxOK(k.x) /\ k.x.state = "INIT" /\ k.x.host # none
    BY <1>4, <2>3, <2>5, <2>6 DEF CtxOK, Connected
  <2> QED
    BY <2>1, <2>9, <2>10, AttemptGood
<1> QED
  BY <1>2, <1>3, <1>4

-----------------------------------------------------------------------------
(* The steps. *)

\* Requests that are counted, with one of them apart.
LEMMA OneApart ==
  ASSUME NEW R, IsFiniteSet(R), NEW c \in R, NEW S, S \subseteq R
  PROVE  /\ Cardinality(S \ {c}) \in Nat
         /\ Cardinality(S) = Cardinality(S \ {c}) + (IF c \in S THEN 1 ELSE 0)
<1>1. IsFiniteSet(S)
  BY FS_Subset
<1>2. IsFiniteSet(S \ {c}) /\ Cardinality(S \ {c}) \in Nat /\ Cardinality(S) \in Nat
  BY <1>1, FS_RemoveElement, FS_CardinalityType
<1>3. Cardinality(S \ {c}) = IF c \in S THEN Cardinality(S) - 1 ELSE Cardinality(S)
  BY <1>1, FS_RemoveElement
<1> QED
  BY <1>2, <1>3

\* A context counts for its process when it says so.
LEMMA UsesGot ==
  ASSUME "ENOTCONN" \notin Faults, NEW c \in Request, CtxOK(hctx[c]), hctx[c] \in CtxRec,
         hctx[c].state # "PREPARE_WRITE", NEW p
  PROVE  Uses(c, p) <=> hctx[c].proc = p /\ hctx[c].got_proc
BY DEF Uses, CtxOK, Connected, CtxRec

\* The frame of a handler, before it has done anything.
LEMMA FrameGood ==
  ASSUME IInv, NEW c \in Request
  PROVE  Good(c, Frame(c)) /\ CtxOK(Frame(c).x) /\ Frame(c).x = hctx[c]
<1> DEFINE f == Frame(c)
<1>1. f \in FrameType /\ f.x = hctx[c] /\ f.proc = proc /\ f.host = host
  BY DEF Frame, FrameType, IInv
<1>2. IsFiniteSet(Request)
  BY ConfFacts DEF IInv
<1> HIDE DEF f
<1>3. ASSUME NEW h \in Host
      PROVE  host[h].load = AtHost(c, h) + (IF hctx[c].host = h THEN 1 ELSE 0)
  <2> DEFINE S == {d \in Request : hctx[d].host = h}
  <2>1. S \ {c} = {d \in Request \ {c} : hctx[d].host = h} /\ S \subseteq Request
    OBVIOUS
  <2>2. host[h].load = Cardinality(S)
    BY DEF IInv, HostLoadRight
  <2>3. c \in S <=> hctx[c].host = h
    OBVIOUS
  <2> HIDE DEF S
  <2> QED
    BY <1>2, <2>1, <2>2, <2>3, OneApart DEF AtHost
<1>4. ASSUME "ENOTCONN" \notin Faults, NEW p \in Proc
      PROVE  proc[p].load
               = AtProc(c, p) + (IF hctx[c].proc = p /\ hctx[c].got_proc THEN 1 ELSE 0)
  <2> DEFINE S == {d \in Request : Uses(d, p)}
  <2>1. S \ {c} = {d \in Request \ {c} : Uses(d, p)} /\ S \subseteq Request
    OBVIOUS
  <2>2. proc[p].load = Cardinality(S)
    BY <1>4 DEF IInv, LoadRight
  <2>3. c \in S <=> hctx[c].proc = p /\ hctx[c].got_proc
    BY <1>4, UsesGot DEF IInv
  <2> HIDE DEF S
  <2> QED
    BY <1>2, <2>1, <2>2, <2>3, OneApart DEF AtProc
<1>5. Good(c, f)
  BY <1>1, <1>3, <1>4 DEF Good, Loads
<1> QED
  BY <1>1, <1>5 DEF f, IInv

\* A frame in order that becomes the state.
LEMMA CommitKeeps ==
  ASSUME IInv, NEW c \in Request, NEW f, Good(c, f), CtxOK(f.x), f.x.state # "PREPARE_WRITE",
         Commit(c, f), conf' = conf
  PROVE  IInv'
<1>1. /\ Proc' = Proc /\ Host' = Host /\ Faults' = Faults
      /\ \A x : CtxOK(x)' <=> CtxOK(x)
      /\ CtxRec' = CtxRec
  BY DEF Proc, Host, hosts, Faults, CtxOK, CtxRec
<1>2. /\ f \in FrameType /\ f.x \in CtxRec /\ IsFiniteSet(Request)
      /\ proc' = f.proc /\ host' = f.host /\ last_used_ndx' = f.last
      /\ hctx' = [hctx EXCEPT ![c] = f.x]
  BY ConfFacts DEF IInv, Good, FrameType, Commit
<1>3. /\ proc' \in [Proc -> ProcRec] /\ host' \in [Host -> HostRec]
      /\ last_used_ndx' \in Host \cup {0} /\ hctx' \in [Request -> CtxRec]
      /\ hctx'[c] = f.x /\ \A d \in Request \ {c} : hctx'[d] = hctx[d]
  BY <1>2 DEF FrameType, IInv
<1>4. \A d \in Request : CtxOK(hctx'[d]) /\ hctx'[d].state # "PREPARE_WRITE"
  BY <1>3 DEF IInv
<1>5. ASSUME NEW h \in Host
      PROVE  host'[h].load = Cardinality({d \in Request : hctx'[d].host = h})
  <2> DEFINE S == {d \in Request : hctx'[d].host = h}
  <2>1. S \ {c} = {d \in Request \ {c} : hctx[d].host = h} /\ S \subseteq Request
    BY <1>3
  <2>2. host'[h].load = AtHost(c, h) + (IF f.x.host = h THEN 1 ELSE 0)
    BY <1>2 DEF Good, Loads
  <2>3. c \in S <=> f.x.host = h
    BY <1>3
  <2> HIDE DEF S
  <2>4. Cardinality(S) = Cardinality(S \ {c}) + (IF c \in S THEN 1 ELSE 0)
    BY <1>2, <2>1, OneApart
  <2> QED
    BY <2>1, <2>2, <2>3, <2>4 DEF AtHost, S
<1>6. ASSUME "ENOTCONN" \notin Faults, NEW p \in Proc
      PROVE  proc'[p].load = Cardinality({d \in Request : Uses(d, p)'})
  <2> DEFINE S == {d \in Request : Uses(d, p)'}
  <2>1. S \ {c} = {d \in Request \ {c} : Uses(d, p)} /\ S \subseteq Request
    BY <1>3 DEF Uses
  <2>2. proc'[p].load = AtProc(c, p) + (IF f.x.proc = p /\ f.x.got_proc THEN 1 ELSE 0)
    BY <1>2, <1>6 DEF Good, Loads
  <2>3. c \in S <=> f.x.proc = p /\ f.x.got_proc
    BY <1>2, <1>3, <1>6 DEF Uses, CtxOK, Connected, CtxRec
  <2> HIDE DEF S
  <2>4. Cardinality(S) = Cardinality(S \ {c}) + (IF c \in S THEN 1 ELSE 0)
    BY <1>2, <2>1, OneApart
  <2> QED
    BY <2>1, <2>2, <2>3, <2>4 DEF AtProc, S
<1>7. HostLoadRight' /\ LoadRight'
  BY <1>1, <1>5, <1>6 DEF HostLoadRight, LoadRight
<1>8. conf' \in Confs
  BY DEF IInv
<1> QED
  BY <1>1, <1>3, <1>4, <1>7, <1>8 DEF IInv

\* A step that changes nothing but processes, and no load.
LEMMA ProcessesKeep ==
  ASSUME IInv, NEW f, f.proc = proc, f.host = host, f \in FrameType,
         NEW g, Same(g, f), proc' = g.proc, host' = g.host,
         UNCHANGED <<conf, hctx, last_used_ndx>>
  PROVE  IInv'
<1>1. /\ Proc' = Proc /\ Host' = Host /\ Faults' = Faults /\ CtxRec' = CtxRec
      /\ \A x : CtxOK(x)' <=> CtxOK(x)
      /\ \A c, p : Uses(c, p)' <=> Uses(c, p)
  BY DEF Proc, Host, hosts, Faults, CtxOK, CtxRec, Uses
<1>2. /\ proc' \in [Proc -> ProcRec] /\ host' \in [Host -> HostRec]
      /\ \A p \in Proc : proc'[p].load = proc[p].load
      /\ \A h \in Host : host'[h].load = host[h].load
  BY DEF Same, FrameType
<1>3. HostLoadRight' /\ LoadRight'
  <2>1. \A h \in Host : host'[h].load = Cardinality({c \in Request : hctx'[c].host = h})
    BY <1>2 DEF IInv, HostLoadRight
  <2>2. "ENOTCONN" \notin Faults =>
          \A p \in Proc : proc'[p].load = Cardinality({c \in Request : Uses(c, p)'})
    BY <1>1, <1>2 DEF IInv, LoadRight
  <2> QED
    BY <1>1, <2>1, <2>2 DEF HostLoadRight, LoadRight
<1> QED
  BY <1>1, <1>2, <1>3 DEF IInv

\* The initial states.
LEMMA InitIInv == Init => IInv
<1> SUFFICES ASSUME Init PROVE IInv
  OBVIOUS
<1>1. conf \in Confs
  BY DEF Init
<1>2. /\ Wrap \in Nat /\ Wrap > 0 /\ max_reconnects \in Nat /\ none \notin Host /\ none \notin Proc
      /\ \A h \in Host : Len(hosts[h]) \in 0..Wrap - 1
  BY <1>1, ConfFacts
<1>3. proc \in [Proc -> ProcRec] /\ \A p \in Proc : proc[p].load = 0
  BY <1>2 DEF Init, ProcRec
<1>4. host \in [Host -> HostRec] /\ \A h \in Host : host[h].load = 0
  BY <1>2 DEF Init, HostRec
<1>5. NoCtx \in CtxRec /\ CtxOK(NoCtx) /\ NoCtx.state = "NULL" /\ NoCtx.host = none
  BY <1>2 DEF NoCtx, CtxRec, CtxOK, Connected
<1>6. hctx \in [Request -> CtxRec] /\ \A c \in Request : hctx[c] = NoCtx
  BY <1>5 DEF Init
<1>7. \A h \in Host : {c \in Request : hctx[c].host = h} = {}
  BY <1>2, <1>5, <1>6
<1>8. \A p : {c \in Request : Uses(c, p)} = {}
  BY <1>5, <1>6 DEF Uses
<1>9. HostLoadRight /\ LoadRight
  BY <1>3, <1>4, <1>7, <1>8, FS_EmptySet DEF HostLoadRight, LoadRight
<1> QED
  BY <1>1, <1>3, <1>4, <1>5, <1>6, <1>9 DEF IInv, Init

\* Every step.
LEMMA StepIInv == IInv /\ [Next]_vars => IInv'
<1> SUFFICES ASSUME IInv, [Next]_vars PROVE IInv'
  OBVIOUS
<1>1. /\ conf \in Confs /\ Wrap \in Nat /\ Wrap > 0 /\ max_reconnects \in Nat
      /\ none \notin Host /\ none \notin Proc
  BY ConfFacts DEF IInv
<1>2. ASSUME NEW c \in Request, conf' = conf, fcgi_check_extension(c)
      PROVE  IInv'
  <2> DEFINE x == handler_ctx_init
             f == [Frame(c) EXCEPT !.x = x]
  <2>1. Good(c, Frame(c)) /\ CtxOK(Frame(c).x) /\ Frame(c).x = hctx[c] /\ Frame(c) \in FrameType
    BY FrameGood DEF Good
  <2>2. hctx[c] = NoCtx
    BY <1>2 DEF fcgi_check_extension, IInv, CtxOK
  <2>3. x \in CtxRec /\ x.state = "INIT" /\ x.host = none /\ x.proc = none /\ x.got_proc = FALSE
    <3>1. /\ NoCtx \in CtxRec /\ NoCtx.host = none /\ NoCtx.proc = none
          /\ NoCtx.got_proc = FALSE
      BY <1>1 DEF NoCtx, CtxRec
    <3> QED
      BY <3>1 DEF handler_ctx_init, CtxRec
  <2>4. NoCtx.host = none /\ NoCtx.proc = none /\ NoCtx.got_proc = FALSE
    BY DEF NoCtx
  <2> HIDE DEF x
  <2>5. Good(c, f)
    BY <2>1, <2>2, <2>3, <2>4, CtxChanged
  <2>6. f.x = x /\ f.proc = proc /\ f.host = host /\ f.last = last_used_ndx
    BY <2>1 DEF FrameType, Frame
  <2> HIDE DEF f
  <2>7. Commit(c, f)
    BY <1>2, <2>6 DEF fcgi_check_extension, Commit, x
  <2>8. CtxOK(f.x) /\ f.x.state # "PREPARE_WRITE"
    BY <2>3, <2>6 DEF CtxOK, Connected
  <2> QED
    BY <1>2, <2>5, <2>7, <2>8, CommitKeeps
<1>3. ASSUME NEW c \in Request, conf' = conf, mod_fastcgi_handle_subrequest(c)
      PROVE  IInv'
  <2>1. Good(c, Frame(c)) /\ CtxOK(Frame(c).x) /\ Frame(c).x = hctx[c]
    BY FrameGood
  <2>2. PICK f \in Subrequested(Frame(c)) : Commit(c, f)
    BY <1>3 DEF mod_fastcgi_handle_subrequest
  <2>3. Good(c, f) /\ CtxOK(f.x) /\ f.x.state # "PREPARE_WRITE"
    BY <1>1, <1>3, <2>1, <2>2, SubrequestedGood DEF mod_fastcgi_handle_subrequest
  <2> QED
    BY <1>3, <2>2, <2>3, CommitKeeps
<1>4. ASSUME NEW c \in Request, conf' = conf, NEW f, Good(c, f), CtxOK(f.x),
             Commit(c, fcgi_connection_close(f))
      PROVE  IInv'
  <2>1. LET g == fcgi_connection_close(f) IN Good(c, g) /\ g.x = NoCtx
    BY <1>1, <1>4, CloseGood
  <2>2. CtxOK(NoCtx) /\ NoCtx.state # "PREPARE_WRITE"
    BY DEF CtxOK, Connected, NoCtx
  <2> QED
    BY <1>4, <2>1, <2>2, CommitKeeps
<1>5. ASSUME NEW c \in Request, conf' = conf, Closes(c)
      PROVE  IInv'
  BY <1>4, <1>5, FrameGood DEF Closes
<1>6. ASSUME NEW c \in Request, conf' = conf, BackendClosed(c)
      PROVE  IInv'
  <2> DEFINE f == Frame(c)
             p == f.x.proc
             h == f.x.host
             reaped == [f EXCEPT !.proc[p].child = "none"]
             died(o) == [o.f EXCEPT !.proc[p].state = "DIED"]
  <2>1. Good(c, f) /\ CtxOK(f.x) /\ f \in FrameType /\ f.x \in CtxRec
    BY FrameGood DEF Good, FrameType
  <2>2. PICK o \in Spawned(reaped, h, p) :
          Commit(c, fcgi_connection_close(IF o.r = 0 THEN o.f ELSE died(o)))
    BY <1>6 DEF BackendClosed
  <2>3. p \in Proc /\ h \in Host
    <3>1. f.x.state = "READ"
      BY <1>6 DEF BackendClosed
    <3> QED
      BY <2>1, <3>1 DEF CtxOK, Connected, CtxRec
  <2> HIDE DEF f, p, h
  <2>4. Same(reaped, f)
    BY <2>1, <2>3, FieldChanged
  <2>5. reaped \in FrameType
    BY <2>4 DEF Same
  <2> HIDE DEF reaped
  <2>6. Same(o.f, reaped)
    BY <1>1, <2>2, <2>3, <2>5, SpawnedSame DEF Outcomes
  <2>7. Same(o.f, f) /\ o.f \in FrameType
    BY <2>4, <2>6, SameTransitive DEF Same
  <2>8. Same(died(o), o.f)
    BY <2>3, <2>7, FieldChanged
  <2> DEFINE k == IF o.r = 0 THEN o.f ELSE died(o)
  <2>9. Same(k, f)
    BY <2>7, <2>8, SameTransitive
  <2>10. Commit(c, fcgi_connection_close(k))
    BY <2>2
  <2> HIDE DEF k
  <2>11. Good(c, k) /\ k.x = f.x
    BY <2>1, <2>9, SameGood DEF Same
  <2> QED
    BY <1>4, <1>6, <2>1, <2>10, <2>11
<1> DEFINE b == [proc |-> proc, host |-> host, x |-> NoCtx, last |-> last_used_ndx]
<1>7. b \in FrameType /\ b.proc = proc /\ b.host = host
  BY <1>1 DEF IInv, FrameType, NoCtx, CtxRec
<1>8. ASSUME conf' = conf, mod_fastcgi_handle_trigger
      PROVE  IInv'
  <2>1. PICK g \in Triggered(b) : proc' = g.proc /\ host' = g.host
    BY <1>8 DEF mod_fastcgi_handle_trigger, Triggered
  <2> HIDE DEF b
  <2>2. Same(g, b)
    BY <1>1, <1>7, TriggerSame
  <2> QED
    BY <1>7, <1>8, <2>1, <2>2, ProcessesKeep DEF mod_fastcgi_handle_trigger
<1>9. ASSUME NEW p \in Proc, conf' = conf, Later(p) \/ BackendDies(p) \/ BackendReturns(p)
      PROVE  IInv'
  <2> DEFINE r1 == [proc[p] EXCEPT !.disabled = FALSE]
             r2 == [proc[p] EXCEPT !.up = FALSE, !.child = IF @ = "alive" THEN "zombie" ELSE @]
             r3 == [proc[p] EXCEPT !.up = TRUE]
  <2>1. /\ r1 \in ProcRec /\ r1.load = proc[p].load /\ r2 \in ProcRec /\ r2.load = proc[p].load
        /\ r3 \in ProcRec /\ r3.load = proc[p].load
    BY DEF IInv, ProcRec
  <2>2. PICK r \in ProcRec : r.load = proc[p].load /\ proc' = [proc EXCEPT ![p] = r]
    <3>1. proc' = [proc EXCEPT ![p] = r1] \/ proc' = [proc EXCEPT ![p] = r2]
          \/ proc' = [proc EXCEPT ![p] = r3]
      BY <1>9 DEF IInv, Later, BackendDies, BackendReturns
    <3> HIDE DEF r1, r2, r3
    <3> QED
      BY <2>1, <3>1
  <2> DEFINE g == [b EXCEPT !.proc[p] = r]
  <2>3. g.proc = proc' /\ g.host = host
    BY <2>2
  <2> HIDE DEF b
  <2>4. Same(g, b)
    BY <1>7, <2>2, ProcChanged
  <2> HIDE DEF g
  <2>5. host' = host /\ UNCHANGED <<hctx, last_used_ndx>>
    BY <1>9 DEF Later, BackendDies, BackendReturns
  <2> QED
    BY <1>7, <1>9, <2>3, <2>4, <2>5, ProcessesKeep
<1>10. CASE UNCHANGED vars
  <2>1. /\ Proc' = Proc /\ Host' = Host /\ Faults' = Faults /\ CtxRec' = CtxRec
        /\ \A x : CtxOK(x)' <=> CtxOK(x)
        /\ \A c, p : Uses(c, p)' <=> Uses(c, p)
        /\ conf' = conf /\ proc' = proc /\ host' = host /\ hctx' = hctx
        /\ last_used_ndx' = last_used_ndx
    BY <1>10 DEF vars, Proc, Host, hosts, Faults, CtxOK, CtxRec, Uses
  <2> QED
    BY <1>7, <2>1, ProcessesKeep DEF Same
<1> QED
  BY <1>2, <1>3, <1>5, <1>6, <1>8, <1>9, <1>10 DEF Next, Moves

\* Types and loads follow.
LEMMA IInvLoads == IInv => LoadsRight
<1> SUFFICES ASSUME IInv PROVE LoadsRight
  OBVIOUS
<1>1. TypeOK
  BY DEF IInv, TypeOK, ProcRec, HostRec, CtxRec
<1> QED
  BY <1>1 DEF LoadsRight, IInv

\* The loads are right: what a host or a process counts is what the requests
\* hold, for all configurations (mod_fastcgi.c:1482-1580, 3162-3190).
THEOREM LoadsAreRight == Spec => []LoadsRight
<1>1. Init => IInv
  BY InitIInv
<1>2. IInv /\ [Next]_vars => IInv'
  BY StepIInv
<1>3. IInv => LoadsRight
  BY IInvLoads
<1> QED
  BY <1>1, <1>2, <1>3, PTL DEF Spec

=============================================================================
