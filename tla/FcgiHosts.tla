----------------------------- MODULE FcgiHosts -----------------------------
(***************************************************************************)
(* How mod_fastcgi spreads requests over its hosts and their processes:    *)
(* the loads, the count of active processes, the states a process goes     *)
(* through when it is overloaded or dies, and its restart.  ModFastcgi     *)
(* models one request and its descriptor; here several requests share the  *)
(* hosts and the descriptor is left out.  One extension, responder mode.   *)
(* Adaptive spawning is switched off by the code (mod_fastcgi.c:1322).     *)
(***************************************************************************)
EXTENDS Integers, SequencesExt

CONSTANTS
  Confs,           \* the configurations, and what may happen
  MaxProc,         \* the processes are numbers from 1 to MaxProc
  Request,         \* requests that are handled at a time
  max_reconnects,  \* 5
  Wrap             \* a size_t counts modulo Wrap

VARIABLES
  conf,            \* the configuration
  proc,            \* fcgi_proc
  host,            \* fcgi_extension_host
  hctx,            \* handler_ctx of each request
  last_used_ndx    \* ext->last_used_ndx + 1

vars == <<conf, proc, host, hctx, last_used_ndx>>

none == 0

\* hosts: ext->hosts, each the list of its processes.  Local: the processes
\* started by lighttpd (bin-path).  Broken: local processes that do not start again.
\* Faults: what may fail: "ENOTCONN" at a write, "socket", "fork".  clients: "any" may
\* or may not go away, and nothing is assumed of the time either; they "leave" in the
\* end; they are "patient".
hosts == conf.hosts
Local == conf.Local
Broken == conf.Broken
Faults == conf.Faults

Host == DOMAIN hosts
Proc == UNION {ToSet(hosts[h]) : h \in Host}

\* An extension has hosts, and the counters can hold the number of requests and
\* of the processes of a host.
ASSUME ConfAssumption ==
  /\ \A c \in Confs :
       /\ c.hosts \in Seq(Seq(1..MaxProc)) /\ c.hosts # <<>>
       /\ \A h \in DOMAIN c.hosts : Len(c.hosts[h]) < Wrap
       /\ c.Broken \subseteq c.Local
       /\ c.requests \subseteq Request /\ c.clients \in {"any", "leave", "patient"}
  /\ MaxProc \in Nat /\ max_reconnects \in Nat /\ Wrap \in Nat
  /\ IsFiniteSet(Request) /\ Cardinality(Request) < Wrap

\* No context, and the one handler_ctx_init gives.
NoCtx == [state |-> "NULL", host |-> none, proc |-> none, got_proc |-> FALSE,
          sent |-> FALSE, reconnects |-> 0]
handler_ctx_init == [NoCtx EXCEPT !.state = "INIT"]

\* child: the process behind a local entry, up: it accepts connections.
\* disabled: disabled_until is not over.
Init ==
  /\ conf \in Confs
  /\ proc = [p \in Proc |-> [state |-> "RUNNING", load |-> 0, disabled |-> FALSE, up |-> TRUE,
                             is_local |-> p \in Local,
                             child |-> IF p \in Local THEN "alive" ELSE "none"]]
  /\ host = [h \in Host |-> [load |-> 0, active_procs |-> Len(hosts[h])]]
  /\ hctx = [c \in Request |-> NoCtx]
  /\ last_used_ndx = 0

(***************************************************************************)
(* A call changes a frame f: the processes, the hosts, the context at hand *)
(* and last_used_ndx.  Its outcomes are a set of frames, or of pairs of a  *)
(* frame and the value returned.                                           *)
(***************************************************************************)
Frame(c) == [proc |-> proc, host |-> host, x |-> hctx[c], last |-> last_used_ndx]
Commit(c, f) ==
  /\ proc' = f.proc /\ host' = f.host /\ last_used_ndx' = f.last
  /\ hctx' = [hctx EXCEPT ![c] = f.x]

Outcome(f, r) == [f |-> f, r |-> r]
Inc(n) == (n + 1) % Wrap
Dec(n) == (n - 1) % Wrap

Running(f, h, p) ==
  [f EXCEPT !.proc[p].state = "RUNNING", !.host[h].active_procs = Inc(@)]

-----------------------------------------------------------------------------
(* The processes. *)

\* fcgi_spawn_connection.  A socket that answers belongs to somebody else: the
\* process is a remote one from now on.  A fork() that fails is not noticed.
Spawned(f, h, p) ==
  IF f.proc[p].up
  THEN {Outcome([Running(f, h, p) EXCEPT !.proc[p].is_local = FALSE, !.proc[p].child = "none"], 0)}
  ELSE IF p \in Broken THEN {Outcome(f, -1)}
  ELSE {Outcome([Running(f, h, p) EXCEPT !.proc[p].is_local = TRUE, !.proc[p].child = "alive",
                                         !.proc[p].up = TRUE], 0)}
       \cup (IF "fork" \in Faults THEN {Outcome(Running(f, h, p), 0)} ELSE {})

\* case PROC_STATE_DIED: a local process is started once nobody uses it, a
\* remote one is tried again after a while.
Died(f, h, p) ==
  IF f.proc[p].is_local
  THEN IF f.proc[p].load # 0 THEN {Outcome(f, 0)} ELSE Spawned(f, h, p)
  ELSE {Outcome(IF f.proc[p].disabled THEN f ELSE Running(f, h, p), 0)}

\* case PROC_STATE_DIED_WAIT_FOR_PID
DiedWaitForPid(f, h, p) ==
  CASE ~f.proc[p].is_local -> {Outcome(f, 0)}
    [] f.proc[p].is_local /\ f.proc[p].child = "alive" ->
         {Outcome(IF f.proc[p].disabled THEN f ELSE Running(f, h, p), 0)}
    [] OTHER -> Died([f EXCEPT !.proc[p].state = "DIED", !.proc[p].child = "none"], h, p)

RestartProc(f, h, p) ==
  CASE f.proc[p].state = "RUNNING"           -> {Outcome(f, 0)}
    [] f.proc[p].state = "OVERLOADED"        ->
         {Outcome(IF f.proc[p].disabled THEN f ELSE Running(f, h, p), 0)}
    [] f.proc[p].state = "DIED_WAIT_FOR_PID" -> DiedWaitForPid(f, h, p)
    [] f.proc[p].state = "DIED"              -> Died(f, h, p)

\* All processes of a host in turn, up to the first that cannot be started.
fcgi_restart_dead_procs(f, h) ==
  LET after[k \in 0..Len(hosts[h])] ==
        IF k = 0 THEN {Outcome(f, 0)}
        ELSE UNION {IF o.r = 0 THEN RestartProc(o.f, h, hosts[h][k]) ELSE {o} : o \in after[k - 1]}
  IN {o.f : o \in after[Len(hosts[h])]}

-----------------------------------------------------------------------------
(* The context of a request. *)

\* Gives back what the context holds: the load of its process, which counts
\* from the connect on, and the one of its host.
fcgi_connection_close_host_only(f) ==
  LET x == f.x IN
    IF x.host = none THEN [f EXCEPT !.x = NoCtx]
    ELSE [f EXCEPT !.host[x.host].load = @ - 1, !.x = NoCtx]
fcgi_connection_close_proc_only(f) ==
  LET x == f.x IN
    IF x.host # none /\ x.proc # none /\ x.got_proc
    THEN [f EXCEPT !.proc[x.proc].load = Dec(@), !.x = NoCtx] ELSE [f EXCEPT !.x = NoCtx]
fcgi_connection_close(f) ==
  LET x == f.x
      g == IF x.host # none /\ x.proc # none /\ x.got_proc
           THEN [f EXCEPT !.proc[x.proc].load = Dec(@)] ELSE f
  IN IF x.host = none THEN [g EXCEPT !.x = NoCtx]
     ELSE [g EXCEPT !.host[x.host].load = @ - 1, !.x = NoCtx]

fcgi_reconnect_uncounted(f) ==
  LET x == f.x IN
    [f EXCEPT !.host[x.host].load = @ - 1, !.x.host = none, !.x.state = "INIT"]
\* Before the next attempt.  got_proc and proc stay as they are.
fcgi_reconnect(f) ==
  LET x == f.x
      g == IF x.proc # none /\ x.got_proc
           THEN [f EXCEPT !.proc[x.proc].load = Dec(@)] ELSE f
  IN [g EXCEPT !.host[x.host].load = @ - 1, !.x.host = none, !.x.state = "INIT",
               !.x.reconnects = @ + 1]

\* case FCGI_STATE_WRITE
FcgiWrite(f) ==
  {Outcome([f EXCEPT !.x.state = "READ", !.x.sent = TRUE], "WAIT"),
   Outcome([f EXCEPT !.x.sent = TRUE], "WAIT"), Outcome(f, "WAIT"), Outcome(f, "ERROR")}
  \cup (IF "ENOTCONN" \in Faults /\ ~f.x.sent /\ f.x.reconnects < max_reconnects
        THEN {Outcome(fcgi_reconnect(f), "WAIT")} ELSE {})

\* case FCGI_STATE_PREPARE_WRITE: the request is a load of its process from
\* here on; building it may fail.
FcgiPrepareWrite(f) ==
  LET g == [f EXCEPT !.proc[f.x.proc].load = Inc(@), !.x.got_proc = TRUE] IN
    {Outcome([g EXCEPT !.x.state = "PREPARE_WRITE"], "ERROR")}
    \cup FcgiWrite([g EXCEPT !.x.state = "WRITE"])

\* What a failed connect() makes of the process.
Failed(f, state) == [f EXCEPT !.proc[f.x.proc].state = state, !.proc[f.x.proc].disabled = TRUE]

\* connect() at once, delayed, EAGAIN or refused.
fcgi_establish_connection(f) ==
  LET p == f.x.proc IN
    IF f.proc[p].up
    THEN FcgiPrepareWrite([f EXCEPT !.x.reconnects = 0])
         \cup {Outcome([f EXCEPT !.x.state = "CONNECT_DELAYED"], "WAIT"),
               Outcome(Failed(f, "OVERLOADED"), "ERROR")}
    ELSE {Outcome(Failed(f, IF f.proc[p].is_local THEN "DIED_WAIT_FOR_PID" ELSE "DIED"), "ERROR")}

\* The first running process of the host with the lowest load.
IsRunning(f, h) == {k \in DOMAIN hosts[h] : f.proc[hosts[h][k]].state = "RUNNING"}
LeastLoaded(f, h) ==
  LET Load(k) == f.proc[hosts[h][k]].load
  IN hosts[h][CHOOSE k \in IsRunning(f, h) :
                \A j \in IsRunning(f, h) : Load(k) <= Load(j) /\ (j < k => Load(k) < Load(j))]

\* case FCGI_STATE_INIT: no process runs, socket() fails for good or for want
\* of descriptors, or a connect.
FcgiInit(f) ==
  LET g == [f EXCEPT !.x.proc = LeastLoaded(f, f.x.host)]
  IN IF IsRunning(f, f.x.host) = {} THEN {Outcome([f EXCEPT !.x.proc = none], "ERROR")}
     ELSE fcgi_establish_connection(g)
          \cup (IF "socket" \in Faults THEN {Outcome(g, "ERROR"), Outcome(g, "WAIT")} ELSE {})

\* The end of a delayed connect(): a local process, too, is marked as dead and
\* nobody waits for it.
FcgiConnected(f) ==
  (IF f.proc[f.x.proc].up THEN FcgiPrepareWrite(f) ELSE {})
  \cup {Outcome(Failed(f, "DIED"), "ERROR")}

fcgi_write_request(f) ==
  CASE f.x.state = "CONNECT_DELAYED" -> FcgiConnected(f)
    [] f.x.state = "INIT"            -> FcgiInit(f)
    [] f.x.state = "WRITE"           -> FcgiWrite(f)
    [] OTHER                         -> {Outcome(f, "WAIT")}

\* The next host if it has no load, otherwise the least loaded one of those
\* that have active processes; none if there is none.
ChosenHost(f) ==
  LET next == IF f.last + 1 > Len(hosts) THEN 1 ELSE f.last + 1
      active == {h \in Host : f.host[h].active_procs # 0}
  IN IF f.host[next].load <= 0 THEN next
     ELSE IF active = {} THEN none
     ELSE CHOOSE h \in active :
            /\ \A k \in active : f.host[h].load <= f.host[k].load
            /\ \A k \in active : k < h => f.host[h].load < f.host[k].load

\* A failed attempt: the process counts as lost, dead ones are restarted, and
\* the request starts again or is answered 500.
SubrequestError(f) ==
  IF f.x.state \in {"INIT", "CONNECT_DELAYED"}
  THEN LET h == f.x.host
           g == IF f.x.proc # none THEN [f EXCEPT !.host[h].active_procs = Dec(@)] ELSE f
       IN {IF k.x.reconnects < max_reconnects THEN fcgi_reconnect(k) ELSE fcgi_connection_close(k) :
             k \in fcgi_restart_dead_procs(g, h)}
  ELSE {fcgi_connection_close(f)}

WriteOutcomes(f) ==
  UNION {IF o.r = "ERROR" THEN SubrequestError(o.f) ELSE {o.f} : o \in fcgi_write_request(f)}

\* mod_fastcgi_handle_subrequest
Subrequested(f) ==
  LET h == ChosenHost(f) IN
    IF f.x.host # none THEN WriteOutcomes(f)
    ELSE IF h = none THEN {fcgi_connection_close(f)}
    ELSE WriteOutcomes([f EXCEPT !.last = h, !.x.host = h, !.x.proc = none,
                                 !.host[h].load = @ + 1])

-----------------------------------------------------------------------------
(* The actions: what the connection engine and the event loop call. *)

\* A request for the extension: refused unless some host has active processes.
fcgi_check_extension(c) ==
  /\ hctx[c].state = "NULL" /\ c \in conf.requests
  /\ \E h \in Host : host[h].active_procs # 0
  /\ hctx' = [hctx EXCEPT ![c] = handler_ctx_init]
  /\ UNCHANGED <<proc, host, last_used_ndx>>

mod_fastcgi_handle_subrequest(c) ==
  /\ hctx[c].state \in {"INIT", "CONNECT_DELAYED", "WRITE"}
  /\ \E f \in Subrequested(Frame(c)) : Commit(c, f)

\* The response is complete, the client is gone, the connection is reset, or
\* the backend's descriptor reports HUP or ERR.
Closes(c) ==
  /\ hctx[c].state # "NULL"
  /\ Commit(c, fcgi_connection_close(Frame(c)))

\* The backend closes without an answer: a local child that died is waited for
\* and started again.  All of the request was written, so no other is tried.
BackendClosed(c) ==
  LET f == Frame(c)
      p == f.x.proc
      reaped == [f EXCEPT !.proc[p].child = "none"]
  IN /\ f.x.state = "READ"
     /\ f.proc[p].is_local /\ f.proc[p].state # "DIED" /\ f.proc[p].child = "zombie"
     /\ \E o \in Spawned(reaped, f.x.host, p) :
          Commit(c, fcgi_connection_close(
                      IF o.r = 0 THEN o.f ELSE [o.f EXCEPT !.proc[p].state = "DIED"]))

\* Once a second.
mod_fastcgi_handle_trigger ==
  /\ \E p \in Proc : proc[p].state # "RUNNING"
  /\ LET f == [proc |-> proc, host |-> host, x |-> NoCtx, last |-> last_used_ndx]
         after[k \in 0..Len(hosts)] ==
           IF k = 0 THEN {f} ELSE UNION {fcgi_restart_dead_procs(g, k) : g \in after[k - 1]}
     IN \E g \in after[Len(hosts)] : proc' = g.proc /\ host' = g.host
  /\ UNCHANGED <<hctx, last_used_ndx>>

\* disabled_until is over.
Later(p) ==
  /\ proc[p].disabled
  /\ proc' = [proc EXCEPT ![p].disabled = FALSE]
  /\ UNCHANGED <<host, hctx, last_used_ndx>>

\* A backend dies; one that is not local comes back by itself.
BackendDies(p) ==
  /\ proc[p].up
  /\ proc' = [proc EXCEPT ![p].up = FALSE,
                          ![p].child = IF @ = "alive" THEN "zombie" ELSE @]
  /\ UNCHANGED <<host, hctx, last_used_ndx>>
BackendReturns(p) ==
  /\ ~proc[p].up /\ ~proc[p].is_local
  /\ proc' = [proc EXCEPT ![p].up = TRUE]
  /\ UNCHANGED <<host, hctx, last_used_ndx>>

Moves ==
  \/ \E c \in Request : \/ fcgi_check_extension(c) \/ mod_fastcgi_handle_subrequest(c)
                        \/ Closes(c) \/ BackendClosed(c)
  \/ mod_fastcgi_handle_trigger
  \/ \E p \in Proc : Later(p) \/ BackendDies(p) \/ BackendReturns(p)

Next == Moves /\ UNCHANGED conf

Spec == Init /\ [][Next]_vars

Timely == conf.clients # "any" /\ UNCHANGED conf

\* The trigger is called every second and time goes on.  An attempt that failed is
\* followed by the next one: the connection is in the job list or the fd wait
\* queue.  A client that is not patient leaves in the end.
FairSpec ==
  /\ Spec
  /\ WF_vars(Timely /\ mod_fastcgi_handle_trigger)
  /\ WF_vars(Timely /\ \E p \in Proc : Later(p))
  /\ \A c \in Request :
       /\ WF_vars(Timely /\ mod_fastcgi_handle_subrequest(c))
       /\ WF_vars(Timely /\ conf.clients = "leave" /\ Closes(c))
-----------------------------------------------------------------------------
(* Correctness. *)

\* The types, and the limit of reconnects (mod_fastcgi.c:3184).
TypeOK ==
  /\ \A p \in Proc : /\ proc[p].state \in {"RUNNING", "OVERLOADED", "DIED_WAIT_FOR_PID", "DIED"}
                     /\ proc[p].load \in 0..Wrap - 1
                     /\ proc[p].child \in {"alive", "zombie", "none"}
  /\ \A h \in Host : host[h].load \in Int /\ host[h].active_procs \in 0..Wrap - 1
  /\ \A c \in Request : /\ hctx[c].host \in Host \cup {none} /\ hctx[c].proc \in Proc \cup {none}
                        /\ hctx[c].reconnects \in 0..max_reconnects
  /\ last_used_ndx \in Host \cup {0}

\* The load of a host is the number of requests that are with it, through all
\* failures and attempts (mod_fastcgi.c:3162: "as soon as hctx->host is
\* unassigned, decrease the load again").
HostLoadRight ==
  \A h \in Host : host[h].load = Cardinality({c \in Request : hctx[c].host = h})

Uses(c, p) == hctx[c].proc = p /\ hctx[c].state \in {"WRITE", "READ"}

\* The load of a process is the number of requests that are connected to it
\* (mod_fastcgi.c:78: "number of requests waiting on this process").  It decides
\* who gets the next request and whether a dead process may be started again.
\* (A dropped connection makes it wrong, LoadRightAlways.)
LoadRight ==
  "ENOTCONN" \notin Faults =>
    \A p \in Proc : proc[p].load = Cardinality({c \in Request : Uses(c, p)})

\* Types and loads are right, of hosts and of processes, through all failures,
\* attempts, deaths and restarts (mod_fastcgi.c:1482-1580, 3162-3190).
LoadsRight == TypeOK /\ HostLoadRight /\ LoadRight

\* A host with a running process has active processes, so that requests are
\* sent to it (mod_fastcgi.c:126: "how many of them are really running").
RunningIsActive ==
  \A h \in Host : (\E p \in ToSet(hosts[h]) : proc[p].state = "RUNNING")
                  => host[h].active_procs # 0

\* Processes that were overloaded or died are tried or started again, whatever the
\* requests do: again and again they all run (mod_fastcgi.c:2741: "local procs
\* get restarted by us").
DeadProcsReturn ==
  []<>(conf.clients = "leave" => \A p \in Proc \ Broken : proc[p].state = "RUNNING")

\* A request does not try for ever: it gets a connection or an error
\* (mod_fastcgi.c:1543: "if we have more than 5 reconnects for the same request,
\* die").
AttemptsEnd ==
  []<>(conf.clients = "patient" => \A c \in conf.requests : hctx[c].state # "INIT")

\* LoadRight, also when connections are dropped.
LoadRightAlways ==
  \A p \in Proc : proc[p].load = Cardinality({c \in Request : Uses(c, p)})

\* An entry that is marked as dead has been waited for (mod_fastcgi.c:3267:
\* "only fetch the zombie if it is not already done"): the next start gives the
\* entry another process number.
DiedIsReaped == \A p \in Proc : proc[p].state = "DIED" => proc[p].child # "zombie"
=============================================================================
