------------------------------- MODULE Server -------------------------------
(***************************************************************************)
(* One lighttpd worker: the main loop of server.c with the accept handler  *)
(* of network.c, running the connection engine of module Connections.      *)
(*                                                                         *)
(* The loop goes through the phases                                        *)
(*   alarm, sweep     once a second, the timeouts of all connections       *)
(*   sockets          stop or resume accepting, start a graceful shutdown  *)
(*   graceful         terminate when the last connection is gone           *)
(*   fdwait           retry requests that ran out of descriptors           *)
(*   poll, dispatch   select() and the event handlers (accept: the one of  *)
(*                    the listening socket)                                *)
(*   jobs             run the state machine for the connections touched    *)
(* with pc = "machine"/"arm" while one of them is inside                   *)
(* connection_state_machine.  Signals arrive between any two steps.        *)
(***************************************************************************)
EXTENDS Connections

connVars == <<ev, open, cur_fds, conns, con, hctx, joblist>>
waitVars == <<want_fds, fdwaitqueue>>
vars == <<connVars, waitVars, pc, cur, ret, loopVars, ctrlVars>>

NoReports == [fd \in {} |-> {}]

\* network_register_fdevents has armed the listening socket; cur_fds is the
\* number open("/dev/null") returned.
Init ==
  /\ ev = [fdarray |-> [fd \in AnyFd |-> IF fd = listen_fd
                                         THEN [handler |-> "server", ctx |-> 0]
                                         ELSE NoNode],
           rd |-> {listen_fd}, wr |-> {}]
  /\ open = {} /\ cur_fds = base_fds /\ want_fds = 0
  /\ conns = [ptr |-> [s \in Conn |-> s], used |-> 0, ndx |-> [c \in Conn |-> -1]]
  /\ con = [c \in Conn |-> connection_init]
  /\ hctx = [c \in Conn |-> NoCtx]
  /\ joblist = <<>> /\ fdwaitqueue = <<>>
  /\ pc = "alarm" /\ cur = 0 /\ ret = "none"
  /\ i = 0 /\ k = 0 /\ pending = NoReports /\ n = 0
  /\ sockets_disabled = FALSE /\ listen_open = TRUE /\ pid_file = TRUE
  /\ graceful_shutdown = FALSE /\ srv_shutdown = FALSE
  /\ sigs = 0 /\ forced = FALSE

\* Call connection_state_machine(srv, c); it returns to phase caller.
CallMachine(c, caller) == pc' = "machine" /\ cur' = c /\ ret' = caller

-----------------------------------------------------------------------------
\* Once a second.

Older(age, cap) == IF age = Unset \/ age = cap THEN age ELSE age + 1

\* read_idle_ts and close_timeout_ts are compared in these states only.
Aged(r) ==
  [r EXCEPT
     !.read_idle = IF r.state \in {"READ", "READ_POST"} THEN Older(@, IdleCap) ELSE @,
     !.close_idle = IF r.state = "CLOSE" THEN Older(@, CloseCap) ELSE @,
     !.write_idle = Older(@, WriteCap)]

\* time() has moved on: srv->cur_ts changes and the sweep starts.
NewSecond ==
  /\ pc = "alarm"
  /\ con' = [c \in Conn |-> Aged(con[c])]
  /\ pc' = "sweep" /\ i' = 0
  /\ UNCHANGED <<ev, open, cur_fds, conns, hctx, joblist, waitVars, cur, ret,
                 k, pending, n, ctrlVars>>

SameSecond ==
  /\ pc = "alarm"
  /\ pc' = "sockets"
  /\ UNCHANGED <<connVars, waitVars, cur, ret, loopVars, ctrlVars>>

ReadIdleLimit(r) == IF r.request_count = 1 THEN max_read_idle ELSE max_keep_alive_idle

\* A sweep that has no limit for clients that stop reading.
TimedOut_no_write(r) ==
  r.state \in {"READ", "READ_POST"} /\ r.read_idle > ReadIdleLimit(r)

TimedOut(r) ==
  \/ r.state \in {"READ", "READ_POST"} /\ r.read_idle > ReadIdleLimit(r)
  \/ r.state = "WRITE" /\ r.write_idle # Unset /\ r.write_idle > max_write_idle

\* Whether a connection that reached its traffic limit may write again
\* depends on its average rate.
Reenabled(r) == IF r.traffic_limit_reached THEN BOOLEAN ELSE {FALSE}

\* Whoever may write again is not told.
Changed_timeout(r, enable) == TimedOut(r)

\* The sweep has changed something the state machine has to act upon.
Changed(r, enable) == TimedOut(r) \/ enable

\* The sweep looks at slot i.  A connection that is closed here is replaced
\* by the last one, which the sweep then passes over.
Sweep ==
  /\ pc = "sweep" /\ i < conns.used
  /\ i' = i + 1
  /\ LET c == conns.ptr[i]
         r == IF TimedOut(con[c]) THEN [con[c] EXCEPT !.state = "ERROR"] ELSE con[c]
     IN \E enable \in Reenabled(r) :
          /\ con' = [con EXCEPT ![c] =
                       [r EXCEPT !.traffic_limit_reached = @ /\ ~enable]]
          /\ IF Changed(con[c], enable)
             THEN CallMachine(c, "sweep") ELSE UNCHANGED <<pc, cur, ret>>
  /\ UNCHANGED <<ev, open, cur_fds, conns, hctx, joblist, waitVars,
                 k, pending, n, ctrlVars>>

SweepDone ==
  /\ pc = "sweep" /\ i >= conns.used
  /\ pc' = "sockets" /\ i' = 0
  /\ UNCHANGED <<connVars, waitVars, cur, ret, k, pending, n, ctrlVars>>

-----------------------------------------------------------------------------
\* Accepting, and the graceful shutdown.

MayEnable ==
  /\ 10 * (cur_fds + want_fds) < 8 * max_fds
  /\ 10 * conns.used < 9 * max_conns
  /\ ~graceful_shutdown

MustDisable ==
  \/ 10 * (cur_fds + want_fds) > 9 * max_fds
  \/ conns.used > max_conns
  \/ graceful_shutdown

EnableSockets ==
  /\ pc = "sockets" /\ sockets_disabled /\ MayEnable
  /\ ev' = fdevent_event_add(ev, listen_fd, "IN")
  /\ sockets_disabled' = FALSE /\ pc' = "graceful"
  /\ UNCHANGED <<open, cur_fds, conns, con, hctx, joblist, waitVars, cur, ret, loopVars,
                 listen_open, pid_file, graceful_shutdown, srv_shutdown, sigs, forced>>

\* The socket stays in the select() sets.
StopListening_watched(evs) ==
  IF graceful_shutdown THEN fdevent_unregister(evs, listen_fd) ELSE evs

StopListening(evs) ==
  LET deleted == fdevent_event_del(evs, listen_fd, listen_fd)
  IN IF graceful_shutdown THEN fdevent_unregister(deleted, listen_fd) ELSE deleted

\* In a graceful shutdown the socket is closed and the pid file removed, so
\* that the next lighttpd can take over.
DisableSockets ==
  /\ pc = "sockets" /\ ~sockets_disabled /\ MustDisable
  /\ ev' = StopListening(ev)
  /\ listen_open' = (listen_open /\ ~graceful_shutdown)
  /\ pid_file' = (pid_file /\ ~graceful_shutdown)
  /\ sockets_disabled' = TRUE /\ pc' = "graceful"
  /\ UNCHANGED <<open, cur_fds, conns, con, hctx, joblist, waitVars, cur, ret, loopVars,
                 graceful_shutdown, srv_shutdown, sigs, forced>>

KeepSockets ==
  /\ pc = "sockets"
  /\ IF sockets_disabled THEN ~MayEnable ELSE ~MustDisable
  /\ pc' = "graceful"
  /\ UNCHANGED <<connVars, waitVars, cur, ret, loopVars, ctrlVars>>

\* free_fds is computed here, if somebody waits for a descriptor.
CheckGraceful ==
  /\ pc = "graceful"
  /\ srv_shutdown' = (srv_shutdown \/ (graceful_shutdown /\ conns.used = 0))
  /\ k' = IF want_fds > 0 THEN max_fds - cur_fds - fd_reserve ELSE 0
  /\ pc' = "fdwait"
  /\ UNCHANGED <<connVars, waitVars, cur, ret, i, pending, n, sockets_disabled,
                 listen_open, pid_file, graceful_shutdown, sigs, forced>>

\* fdwaitqueue_unshift, as long as descriptors are free.
FdWait ==
  /\ pc = "fdwait" /\ k > 0 /\ fdwaitqueue # <<>>
  /\ fdwaitqueue' = Tail(fdwaitqueue)
  /\ k' = k - 1
  /\ CallMachine(Head(fdwaitqueue), "fdwait")
  /\ UNCHANGED <<connVars, want_fds, i, pending, n, ctrlVars>>

FdWaitDone ==
  /\ pc = "fdwait" /\ (k <= 0 \/ fdwaitqueue = <<>>)
  /\ pc' = "poll" /\ k' = 0
  /\ UNCHANGED <<connVars, waitVars, cur, ret, i, pending, n, ctrlVars>>

-----------------------------------------------------------------------------
\* Events.

Poll ==
  /\ pc = "poll"
  /\ pending' \in fdevent_select_poll(ev)
  /\ n' = BitCount(pending')
  /\ pc' = "dispatch"
  /\ UNCHANGED <<connVars, waitVars, cur, ret, i, k, ctrlVars>>

\* The dispatch loop is at fd, which has the given handler.
Dispatching(fd, handler) ==
  /\ pc = "dispatch" /\ n > 0
  /\ fd \in fdevent_select_event_next_fdndx(pending)
  /\ ev.fdarray[fd].handler = handler
  /\ pending' = [other \in (DOMAIN pending) \ {fd} |-> pending[other]]
  /\ n' = n - 1

ConnectionEvent ==
  /\ \E fd \in DOMAIN pending :
       LET c == ev.fdarray[fd].ctx
       IN /\ Dispatching(fd, "connection")
          /\ \E g \in connection_handle_fdevent(Frame(c), pending[fd]) : Commit(c, g)
  /\ UNCHANGED <<waitVars, pc, cur, ret, i, k, ctrlVars>>

BackendEvent ==
  /\ \E fd \in DOMAIN pending :
       LET c == ev.fdarray[fd].ctx
       IN /\ Dispatching(fd, "fcgi")
          /\ \E g \in fcgi_handle_fdevent(c, Frame(c), pending[fd]) : Commit(c, g)
  /\ UNCHANGED <<waitVars, pc, cur, ret, i, k, ctrlVars>>

ServerEvent ==
  /\ \E fd \in DOMAIN pending : Dispatching(fd, "server") /\ pending[fd] = {"IN"}
  /\ pc' = "accept" /\ k' = 0
  /\ UNCHANGED <<connVars, waitVars, cur, ret, i, ctrlVars>>

\* The handler of fd can be called.
HandlerFits(fd) ==
  /\ ev.fdarray[fd] # NoNode
  /\ ev.fdarray[fd].handler = "server" => pending[fd] = {"IN"}

\* The loop looks for more descriptors than were reported and takes the slot
\* behind the highest one ever watched, or it asks for the handler of one that
\* has none (SEGFAULT() of fdevent_get_handler), or the listening socket gets
\* a strange event (SEGFAULT() of the loop).
Crash ==
  /\ pc = "dispatch" /\ n > 0
  /\ \A fd \in fdevent_select_event_next_fdndx(pending) : ~HandlerFits(fd)
  /\ pc' = "crashed"
  /\ UNCHANGED <<connVars, waitVars, cur, ret, loopVars, ctrlVars>>

DispatchDone ==
  /\ pc = "dispatch" /\ n = 0
  /\ pc' = "jobs" /\ pending' = NoReports
  /\ UNCHANGED <<connVars, waitVars, cur, ret, i, k, n, ctrlVars>>

\* connection_accept: a structure, a descriptor and a node for the client.
Accepted(c, fd) ==
  LET g == connection_reset(Frame(c))
  IN [g EXCEPT !.r = [@ EXCEPT !.fd = fd, !.fde_ndx = NotArmed, !.state = "REQUEST_START"],
               !.ev = fdevent_register(@, fd, "connection", c),
               !.open = @ \cup {fd}, !.cur_fds = @ + 1,
               !.conns = connections_get_new_connection(@)]

\* connection_accept returns the connection, or NULL if fcntl() fails; the
\* connection is not given back then.
Accept ==
  /\ pc = "accept" /\ k < accept_max /\ conns.used < max_conns
  /\ LET c == conns.ptr[conns.used]
     IN \E fd \in FreeFd(Frame(c)) :
          /\ Commit(c, Accepted(c, fd))
          /\ \/ CallMachine(c, "accept") /\ k' = k + 1
             \/ "fcntl" \in Faults /\ pc' = "dispatch" /\ k' = 0 /\ UNCHANGED <<cur, ret>>
  /\ UNCHANGED <<waitVars, i, pending, n, ctrlVars>>

\* No client is waiting, no descriptor or connection is free, or the
\* handler has accepted enough for now.
AcceptDone ==
  /\ pc = "accept"
  /\ pc' = "dispatch" /\ k' = 0
  /\ UNCHANGED <<connVars, waitVars, cur, ret, i, pending, n, ctrlVars>>

-----------------------------------------------------------------------------
\* The job list, and the end of the loop.

\* joblist holds the entries the loop has not reached yet; the machine may
\* append more while it runs.
Job ==
  /\ pc = "jobs" /\ joblist # <<>>
  /\ joblist' = Tail(joblist)
  /\ CallMachine(Head(joblist), "jobs")
  /\ UNCHANGED <<ev, open, cur_fds, conns, con, hctx, waitVars, loopVars, ctrlVars>>

JobsDone ==
  /\ pc = "jobs" /\ joblist = <<>>
  /\ pc' = IF srv_shutdown THEN "exit" ELSE "alarm"
  /\ UNCHANGED <<connVars, waitVars, cur, ret, loopVars, ctrlVars>>

\* The end of main: the pid file is removed unless the shutdown is graceful.
Exit ==
  /\ pc = "exit"
  /\ pid_file' = (pid_file /\ graceful_shutdown)
  /\ listen_open' = FALSE
  /\ pc' = "done"
  /\ UNCHANGED <<connVars, waitVars, cur, ret, loopVars, sockets_disabled,
                 graceful_shutdown, srv_shutdown, sigs, forced>>

Running == pc \notin {"done", "crashed"}

\* sigaction_handler
Sigint ==
  /\ Running /\ sigs < SigMax /\ sigs' = sigs + 1
  /\ graceful_shutdown' = TRUE
  /\ srv_shutdown' = (srv_shutdown \/ graceful_shutdown)
  /\ forced' = (forced \/ graceful_shutdown)
  /\ UNCHANGED <<connVars, waitVars, pc, cur, ret, loopVars, sockets_disabled,
                 listen_open, pid_file>>

Sigterm ==
  /\ Running /\ sigs < SigMax /\ sigs' = sigs + 1
  /\ srv_shutdown' = TRUE /\ forced' = TRUE
  /\ UNCHANGED <<connVars, waitVars, pc, cur, ret, loopVars, sockets_disabled,
                 listen_open, pid_file, graceful_shutdown>>

Stopped == ~Running /\ UNCHANGED vars

ServerStep ==
  \/ NewSecond \/ SameSecond \/ Sweep \/ SweepDone
  \/ EnableSockets \/ DisableSockets \/ KeepSockets \/ CheckGraceful
  \/ FdWait \/ FdWaitDone
  \/ Poll \/ ConnectionEvent \/ BackendEvent \/ ServerEvent \/ Crash \/ DispatchDone
  \/ Accept \/ AcceptDone
  \/ Job \/ JobsDone \/ Exit
  \/ StateMachine

Next == ServerStep \/ Sigint \/ Sigterm \/ Stopped

Spec == Init /\ [][Next]_vars

\* The worker keeps running, and the clock does not stand still: select()
\* waits for at most a second, so the loop sees a new second again and again.
\* Nothing is assumed of the clients and of the signals.
FairSpec == Spec /\ WF_vars(ServerStep) /\ SF_vars(NewSecond)

-----------------------------------------------------------------------------
\* Properties.

Phases == {"alarm", "sweep", "sockets", "graceful", "fdwait", "poll", "dispatch",
           "accept", "jobs", "machine", "arm", "exit", "done", "crashed"}

EvType ==
  [fdarray : [AnyFd -> [handler : {"NULL", "server", "connection", "fcgi"}, ctx : Conn]],
   rd : SUBSET AnyFd, wr : SUBSET AnyFd]

PoolType ==
  [ptr : [Conn -> Conn], used : 0 .. max_conns, ndx : [Conn -> Conn \cup {-1}]]

\* Every variable has its type; in particular the pool never holds more than
\* max_conns connections and a backend is tried a bounded number of times in a
\* row (mod_fastcgi.c:3184).
TypeOK ==
  /\ ev \in EvType /\ open \subseteq Fd
  /\ cur_fds \in Int /\ want_fds \in Int
  /\ conns \in PoolType
  /\ con \in [Conn -> ConRec] /\ hctx \in [Conn -> CtxRec]
  /\ joblist \in Seq(Conn) /\ fdwaitqueue \in Seq(Conn)
  /\ pc \in Phases /\ cur \in Conn
  /\ ret \in {"none", "sweep", "fdwait", "accept", "jobs"}
  /\ i \in 0 .. max_conns /\ k \in Int /\ n \in Nat
  /\ DOMAIN pending \subseteq AnyFd
  /\ \A fd \in DOMAIN pending : pending[fd] \in Reports
  /\ sockets_disabled \in BOOLEAN /\ listen_open \in BOOLEAN /\ pid_file \in BOOLEAN
  /\ graceful_shutdown \in BOOLEAN /\ srv_shutdown \in BOOLEAN
  /\ sigs \in 0 .. SigMax /\ forced \in BOOLEAN

\* connections.c:43-109: the array and the ndx fields agree at every step of
\* accepting, closing and sweeping: slot s < used holds a connection that
\* knows it is in slot s, and a connection outside the array knows that too.
PoolConsistent ==
  /\ \A s \in Conn : conns.ndx[conns.ptr[s]] = IF s < conns.used THEN s ELSE -1
  /\ \A c \in Conn : conns.ndx[c] # -1 => conns.ptr[conns.ndx[c]] = c

\* The node of a descriptor leads to the connection or the context that has
\* the descriptor open, and the other way round (fdevent.c:71-94,
\* connections.c:111-147, mod_fastcgi.c:1482): no event can reach a
\* connection that was closed, although con->fd and old list entries go stale.
EventsReachOwner ==
  /\ \A fd \in Fd :
       LET node == ev.fdarray[fd]
       IN /\ node.handler = "connection" => InUse(node.ctx) /\ con[node.ctx].fd = fd
          /\ node.handler = "fcgi" => hctx[node.ctx].fd = fd
          /\ fd \in open <=> node # NoNode
          /\ fd \in ev.rd \cup ev.wr => fd \in open
  /\ \A c \in Conn :
       /\ InUse(c) => ev.fdarray[con[c].fd] = [handler |-> "connection", ctx |-> c]
       /\ hctx[c].fd # -1 => ev.fdarray[hctx[c].fd] = [handler |-> "fcgi", ctx |-> c]

\* srv->cur_fds counts the open descriptors, whichever of the ways a
\* connection or a backend ends (server.c:949, connections.c:137,1296,
\* mod_fastcgi.c): the limits of the main loop are computed from it.
FdsCounted == cur_fds = base_fds + Cardinality(open)

\* srv->want_fds counts the entries of fdwaitqueue, and the one being served
\* (server.c:1202-1213, connections.c:1465): otherwise the queue is not
\* looked at although somebody waits in it.
WaitersCounted ==
  want_fds = Len(fdwaitqueue) + (IF ret = "fdwait" THEN 1 ELSE 0)

Queued(c, q) == \E j \in 1 .. Len(q) : q[j] = c

\* The backend of connection c is watched for an event.
BackendWatched(c) == hctx[c].fd # -1 /\ hctx[c].fd \in ev.rd \cup ev.wr

\* Something will make the worker look at connection c again.
HasWakeup(c) ==
  LET r == con[c]
  IN \/ Queued(c, joblist)
     \/ r.state \in {"READ", "READ_POST", "CLOSE"} /\ r.fd \in ev.rd
     \/ /\ r.state = "WRITE" /\ r.write_queue
        /\ r.fd \in ev.wr \/ r.traffic_limit_reached
     \/ r.state = "WRITE" /\ ~r.write_queue /\ ~r.file_finished /\ BackendWatched(c)
     \/ /\ r.state = "HANDLE_REQUEST"
        /\ Queued(c, fdwaitqueue) \/ BackendWatched(c)

\* When the worker goes to sleep in select(), every connection has something
\* that wakes it up again: an event on its socket or its backend's, the sweep
\* (traffic limit), the job list or the queue for descriptors.  In particular
\* nobody sleeps in a transient state, and a finished response is never left
\* in WRITE with nothing to write (connections.c:1767-1789, http_chunk.c:94).
NobodyForgotten == pc = "poll" => \A c \in Conn : InUse(c) => HasWakeup(c)

\* The idle limits are kept (server.c:1037-1107): the sweep may pass over a
\* connection that moves into a freed slot, but only as often as there are
\* other connections, and write_request_ts, which connection_reset leaves
\* alone, never is an older request's when it is looked at.
TimeoutsKept ==
  pc = "poll" =>
    \A c \in Conn :
      LET r == con[c]
      IN InUse(c) =>
           /\ r.state \in {"READ", "READ_POST"} =>
                r.read_idle < ReadIdleLimit(r) + max_conns
           /\ r.state = "WRITE" =>
                r.write_idle # Unset /\ r.write_idle < max_write_idle + max_conns

\* A request never meets leftovers of the one before (connections.c:739-851):
\* no content, no backend, no decision, whatever way the last one ended.  Nor
\* does a client's first request find the keep_alive of the client that had the
\* structure before, which request.c:420 would let it have (connections.c:1741).
CleanStart ==
  \A c \in Conn :
    con[c].state = "REQUEST_START" =>
      /\ ~con[c].write_queue /\ ~con[c].file_finished /\ ~con[c].decided
      /\ con[c].mode = "DIRECT" /\ con[c].is_writable
      /\ hctx[c] = NoCtx
      /\ con[c].request_count = 0 => ~con[c].keep_alive

\* response.c:231, connections.c:1521: a connection past its limit of requests
\* goes on to another one only after a request of an unknown HTTP version
\* (request.c:420).  So whatever else a client sends, and whether the server, a
\* plugin or a backend answers it, refuses it or gives it up, it gets at most
\* max_keep_alive_requests + 1 requests of known versions out of a connection.
KeepAliveLimited ==
  [][\A c \in Conn :
       /\ con[c].state = "RESPONSE_END" /\ con'[c].state = "REQUEST_START"
       /\ con[c].request_count > max_keep_alive_requests
       => con[c].bad_version]_vars

\* fdevent.c:134 "if (ev->fdarray[fd] == NULL) SEGFAULT()": the dispatch loop
\* of server.c never asks for the handler of a descriptor that has none.
NoCrash == pc # "crashed"

\* The state machine works on one connection and leaves the events of the
\* others and of their backends alone, even when it runs for a stale entry of
\* the job list whose descriptor number belongs to somebody else by now
\* (fdevent_select.c:28).
OnlyOwnEvents ==
  [][(pc \in {"machine", "arm"}) =>
       \A c \in Conn \ {cur} : \A fd \in Fd :
         (InUse(c) /\ fd = con[c].fd) \/ fd = hctx[c].fd =>
           /\ fd \in ev.rd <=> fd \in ev.rd'
           /\ fd \in ev.wr <=> fd \in ev.wr']_vars

\* network.c:29 and server.c:1129-1193: a worker that has disabled or given up
\* its listening socket accepts nobody, although the socket's report of an
\* earlier select() or a stale bit of its sets might still be around.
AcceptOnlyWhenOpen ==
  [][(conns.used)' > conns.used => listen_open /\ ~sockets_disabled]_vars

\* A connection the sweep knows no limit for: it waits for its backend, or it was
\* accepted and given up again (network.c:42, connections.c:1296-1340).
Unlimited(c) == InUse(c) /\ con[c].state \in {"HANDLE_REQUEST", "REQUEST_START"}

\* A graceful shutdown ends although no client ever sends or takes another
\* byte (server.c:1037-1107, 1195-1200): the timeouts close what is left, and
\* the last one to go ends the worker.  Only a connection that stays for ever
\* where the sweep knows no limit can hold the worker.
GracefulEnds ==
  (<>graceful_shutdown /\ <>[](pending = NoReports))
    => <>(~Running \/ []\E c \in Conn : Unlimited(c))
=============================================================================
