---------------------------- MODULE Connections ----------------------------
(***************************************************************************)
(* The connection engine (connections.c): reading a request, writing the   *)
(* response, the event handler of a client socket, and one action for      *)
(* every case of connection_state_machine.                                 *)
(*                                                                         *)
(* connection_state_machine(cur) runs while pc = "machine".  Every turn of *)
(* its loop is one action; a turn that leaves the state alone ends the     *)
(* loop (pc = "arm"), and the action Arm asks for the events the           *)
(* connection waits for and returns to the caller ret.                     *)
(***************************************************************************)
EXTENDS ModFastcgi

\* A reset that forgets who handled the last request.
connection_reset_keeps_mode(g) ==
  [fcgi_connection_close(g) EXCEPT
     !.r = [@ EXCEPT !.is_readable = TRUE, !.is_writable = TRUE,
                     !.decided = FALSE, !.bad_version = FALSE,
                     !.file_finished = FALSE, !.file_started = FALSE,
                     !.write_queue = FALSE]]

\* connection_reset; read_queue, request_count, keep_alive, the timestamps
\* and traffic_limit_reached are left as they are.
connection_reset(g) ==
  [fcgi_connection_close(g) EXCEPT
     !.r = [@ EXCEPT !.is_readable = TRUE, !.is_writable = TRUE,
                     !.decided = FALSE, !.bad_version = FALSE,
                     !.file_finished = FALSE, !.file_started = FALSE,
                     !.mode = "DIRECT", !.write_queue = FALSE]]

\* connections_get_new_connection: the first structure behind the used ones.
connections_get_new_connection(p) ==
  [p EXCEPT !.ndx = [@ EXCEPT ![p.ptr[p.used]] = p.used], !.used = @ + 1]

-----------------------------------------------------------------------------
\* Reading.

Read(r, ret_value) == [r |-> r, ret |-> ret_value]

\* What read() may do: EAGAIN, EINTR, an error, end of file, or one more
\* piece of input, which may or may not fill the buffer.
connection_handle_read(r) ==
  LET blocked == [r EXCEPT !.is_readable = FALSE]
  IN {Read(blocked, "ok"), Read(r, "ok"),
      Read([blocked EXCEPT !.state = "ERROR"], "failed"),
      Read(blocked, "eof")}
     \cup (IF r.read_queue <= header_max
           THEN {Read([x EXCEPT !.read_queue = @ + 1], "ok") : x \in {r, blocked}}
           ELSE {})

\* case CON_STATE_READ: a complete header is found, the header is too long,
\* or more input is needed.  What follows the header stays in the queue.
ReadHeader(r) ==
  {[r EXCEPT !.state = "REQUEST_END", !.read_queue = rest]
   : rest \in IF r.read_queue = 0 THEN {} ELSE 0 .. r.read_queue}
  \cup {IF r.read_queue > header_max
        THEN [r EXCEPT !.state = "HANDLE_REQUEST", !.decided = TRUE, !.keep_alive = FALSE]
        ELSE r}

\* case CON_STATE_READ_POST: the input completes the body, is all of it and
\* not enough, or the temporary file for it fails.
ReadContent(r) ==
  IF r.read_queue = 0 THEN {r}
  ELSE {[r EXCEPT !.read_queue = 0]}
       \cup {[r EXCEPT !.state = "HANDLE_REQUEST", !.read_queue = rest]
             : rest \in 0 .. r.read_queue}
       \cup {[r EXCEPT !.state = "HANDLE_REQUEST", !.read_queue = rest,
                       !.decided = TRUE, !.keep_alive = FALSE]
             : rest \in 1 .. r.read_queue}

\* A closed connection that cannot leave the read states is an error.
ReadClosed(r, old) == IF r.state = old THEN [r EXCEPT !.state = "ERROR"] ELSE r

connection_handle_read_state(r) ==
  LET results == IF r.is_readable
                 THEN connection_handle_read([r EXCEPT !.read_idle = 0])
                 ELSE {Read(r, "ok")}
      parsed(x) == IF x.state = "READ" THEN ReadHeader(x) ELSE ReadContent(x)
  IN UNION {CASE x.ret = "failed" -> {x.r}
              [] x.ret = "eof"    -> {ReadClosed(y, r.state) : y \in parsed(x.r)}
              [] OTHER            -> parsed(x.r)
            : x \in results}

-----------------------------------------------------------------------------
\* Writing.

\* network_write_chunkqueue: the global limit stops the call before it
\* writes; the limit of the connection is noticed after the write.
network_write_chunkqueue(g) ==
  LET limited(x) == joblist_append([x EXCEPT !.r.traffic_limit_reached = TRUE])
      written == {Outcome([g EXCEPT !.r.write_queue = FALSE], "0"),
                  Outcome(g, "1"), Outcome(g, "-1")}
  IN written
     \cup (IF kbytes_limited
           THEN {Outcome(limited(g), "1")}
                \cup {Outcome(limited(o.g), o.r) : o \in written}
           ELSE {})

connection_handle_write(g) ==
  {CASE o.r = "0"  -> IF o.g.r.file_finished
                      THEN joblist_append(connection_set_state(o.g, "RESPONSE_END"))
                      ELSE o.g
     [] o.r = "-1" -> joblist_append(connection_set_state(o.g, "ERROR"))
     [] OTHER      -> [o.g EXCEPT !.r.is_writable = FALSE]
   : o \in network_write_chunkqueue(g)}

\* case CON_STATE_WRITE, and the same lines of connection_handle_fdevent.
TryWrite(g) ==
  IF g.r.state = "WRITE" /\ g.r.write_queue /\ g.r.is_writable
  THEN {IF x.r.state = "WRITE" THEN [x EXCEPT !.r.write_idle = 0] ELSE x
        : x \in connection_handle_write(g)}
  ELSE {g}

\* The descriptor is in the exception set: give the connection up.
NoteError(g, revents) ==
  IF "ERR" \in revents THEN connection_set_state(g, "ERROR") ELSE g

\* case CON_STATE_CLOSE of the event handler: flush the input.
FlushClosing(g) ==
  IF g.r.state = "CLOSE" THEN {g, [g EXCEPT !.r.close_idle = CloseCap]} ELSE {g}

\* The state machine has to look at the connection afterwards.
NoteEvents(g, revents) ==
  NoteError([joblist_append(g) EXCEPT !.r.is_readable = @ \/ "IN" \in revents,
                                      !.r.is_writable = @ \/ "OUT" \in revents], revents)

connection_handle_fdevent(g, revents) ==
  LET seen == NoteEvents(g, revents)
      read == IF seen.r.state \in {"READ", "READ_POST"}
              THEN {[seen EXCEPT !.r = x] : x \in connection_handle_read_state(seen.r)}
              ELSE {seen}
  IN UNION {FlushClosing(y) : y \in UNION {TryWrite(x) : x \in read}}

\* connection_handle_write_prepare: the server's own responses are complete;
\* a backend's response may be (no content allowed, or HEAD), and one of
\* unknown length ends the keep-alive.
connection_handle_write_prepare(r) ==
  LET ready == [r EXCEPT !.write_queue = TRUE]
      whole == [ready EXCEPT !.file_finished = TRUE]
  IN IF r.mode = "DIRECT" \/ r.file_finished THEN {whole}
     ELSE {whole, ready} \cup {[x EXCEPT !.keep_alive = FALSE] : x \in {whole, ready}}

-----------------------------------------------------------------------------
\* connection_state_machine.

\* The variables a turn of the machine leaves alone.
loopVars == <<i, k, pending, n>>
ctrlVars == <<sockets_disabled, listen_open, pid_file, graceful_shutdown,
              srv_shutdown, sigs, forced>>

\* One turn for a connection in state s ends with frame g.
Turn(s, g) ==
  /\ Commit(cur, g)
  /\ pc' = IF g.r.state = s THEN "arm" ELSE "machine"
  /\ UNCHANGED <<cur, ret, loopVars, ctrlVars>>

\* The machine is at the case for state s.
At(s) == pc = "machine" /\ con[cur].state = s

StartRequest(r) ==
  [r EXCEPT !.read_idle = 0, !.state = "READ", !.request_count = @ + 1]

SmRequestStart ==
  /\ At("REQUEST_START")
  /\ Turn("REQUEST_START", [Frame(cur) EXCEPT !.r = StartRequest(con[cur])])
  /\ UNCHANGED <<want_fds, fdwaitqueue>>

SmRead ==
  /\ pc = "machine" /\ con[cur].state \in {"READ", "READ_POST"}
  /\ \E r \in connection_handle_read_state(con[cur]) :
       Turn(con[cur].state, [Frame(cur) EXCEPT !.r = r])
  /\ UNCHANGED <<want_fds, fdwaitqueue>>

\* A request of an unknown HTTP version is refused (505), and keep_alive stays
\* as the request before has left it.  Only RequestMax bounds their number.
UnknownVersion(r) ==
  IF r.request_count < RequestMax
  THEN {[r EXCEPT !.state = "HANDLE_REQUEST", !.decided = TRUE, !.bad_version = TRUE]}
  ELSE {}

\* A bad request, one of an unknown version, one without a body, one with a body.
http_request_parse(r) ==
  {[r EXCEPT !.state = "HANDLE_REQUEST", !.decided = TRUE, !.keep_alive = FALSE]}
  \cup UnknownVersion(r)
  \cup {[r EXCEPT !.state = "HANDLE_REQUEST", !.keep_alive = keep] : keep \in BOOLEAN}
  \cup {[r EXCEPT !.state = "READ_POST", !.keep_alive = keep] : keep \in BOOLEAN}

SmRequestEnd ==
  /\ At("REQUEST_END")
  /\ \E r \in http_request_parse(con[cur]) :
       Turn("REQUEST_END", [Frame(cur) EXCEPT !.r = r])
  /\ UNCHANGED <<want_fds, fdwaitqueue>>

\* Keep-alive without end.
CountRequest_unlimited(g) == g

\* The last request a connection may send.
CountRequest(g) ==
  IF g.r.request_count > max_keep_alive_requests
  THEN [g EXCEPT !.r.keep_alive = FALSE] ELSE g

\* http_response_prepare for a request nothing has been decided about: the
\* server answers it itself, a plugin fails, or mod_fastcgi takes it.
\* (HANDLER_COMEBACK and the 404 error handler run the same case again.)
NewRequest(c, g) ==
  LET counted == CountRequest(g)
      answered == {[counted EXCEPT !.r.decided = d, !.r.write_queue = ~d,
                                   !.r.file_finished = ~d] : d \in BOOLEAN}
  IN {Outcome(x, "FINISHED") : x \in answered}
     \cup {Outcome(counted, "ERROR")}
     \cup (IF fastcgi /\ ~g.r.file_started
           THEN mod_fastcgi_handle_subrequest(
                  c, [counted EXCEPT !.h = handler_ctx_init, !.r.mode = "FASTCGI"])
           ELSE {})

http_response_prepare(c, g) ==
  CASE g.r.mode = "DIRECT" /\ g.r.decided ->
         {Outcome(IF g.r.file_finished THEN g ELSE [g EXCEPT !.r.write_queue = FALSE],
                  "FINISHED")}
    [] g.r.mode = "DIRECT" /\ ~g.r.decided -> NewRequest(c, g)
    [] g.r.mode = "FASTCGI" /\ g.h.state = "NULL" -> {Outcome(g, "FINISHED")}
    [] g.r.mode = "FASTCGI" /\ g.h.state # "NULL" -> mod_fastcgi_handle_subrequest(c, g)

AfterPrepare(o) ==
  CASE o.r = "FINISHED" -> connection_set_state(o.g, "RESPONSE_START")
    [] o.r = "ERROR"    -> connection_set_state(o.g, "ERROR")
    [] OTHER            -> connection_set_state(o.g, "HANDLE_REQUEST")

\* Counts a waiting connection once too rarely.
WaitForFd_uncounted(o) ==
  /\ want_fds' = want_fds
  /\ fdwaitqueue' = IF o.r = "WAIT_FOR_FD" THEN Append(fdwaitqueue, cur) ELSE fdwaitqueue

\* case HANDLER_WAIT_FOR_FD: srv->want_fds++ and fdwaitqueue_append.
WaitForFd(o) ==
  IF o.r = "WAIT_FOR_FD"
  THEN want_fds' = want_fds + 1 /\ fdwaitqueue' = Append(fdwaitqueue, cur)
  ELSE UNCHANGED <<want_fds, fdwaitqueue>>

SmHandleRequest ==
  /\ At("HANDLE_REQUEST")
  /\ \E o \in http_response_prepare(cur, Frame(cur)) :
       /\ Turn("HANDLE_REQUEST", AfterPrepare(o))
       /\ WaitForFd(o)

SmResponseStart ==
  /\ At("RESPONSE_START")
  /\ \E r \in connection_handle_write_prepare(con[cur]) :
       Turn("RESPONSE_START", [Frame(cur) EXCEPT !.r = [r EXCEPT !.state = "WRITE"]])
  /\ UNCHANGED <<want_fds, fdwaitqueue>>

SmWrite ==
  /\ At("WRITE")
  /\ \E g \in TryWrite(Frame(cur)) : Turn("WRITE", g)
  /\ UNCHANGED <<want_fds, fdwaitqueue>>

SmResponseEnd ==
  /\ At("RESPONSE_END")
  /\ Turn("RESPONSE_END",
          connection_reset(
            IF con[cur].keep_alive
            THEN connection_set_state(Frame(cur), "REQUEST_START")
            ELSE connection_close(cur, fcgi_connection_close(Frame(cur)))))
  /\ UNCHANGED <<want_fds, fdwaitqueue>>

\* A connection in CONNECT is closed: the machine only clears what is left.
SmConnect ==
  /\ At("CONNECT")
  /\ Turn("CONNECT", [Frame(cur) EXCEPT !.r.read_queue = 0, !.r.request_count = 0])
  /\ UNCHANGED <<want_fds, fdwaitqueue>>

\* shutdown() may fail; keep_alive is cleared in either case.
SmError ==
  /\ At("ERROR")
  /\ \E half_closed \in IF con[cur].keep_alive THEN BOOLEAN ELSE {FALSE} :
       LET reset == connection_reset(Frame(cur))
           left == IF half_closed
                   THEN [connection_set_state(reset, "CLOSE") EXCEPT !.r.close_idle = 0]
                   ELSE connection_close(cur, reset)
       IN Turn("ERROR", [left EXCEPT !.r.keep_alive = FALSE])
  /\ UNCHANGED <<want_fds, fdwaitqueue>>

\* Input is left to read only if keep_alive is set; otherwise, and once
\* there is none, close_timeout_ts is 0.
SmClose ==
  /\ At("CLOSE")
  /\ \E unread \in IF con[cur].keep_alive THEN BOOLEAN ELSE {FALSE} :
       LET g == IF unread THEN Frame(cur)
                ELSE [Frame(cur) EXCEPT !.r.close_idle = CloseCap]
       IN Turn("CLOSE", IF g.r.close_idle > 1 THEN connection_close(cur, g) ELSE g)
  /\ UNCHANGED <<want_fds, fdwaitqueue>>

\* The switch behind the loop: what the connection waits for.
WaitFor(g, events) ==
  [g EXCEPT !.ev = fdevent_event_add(@, g.r.fd, events), !.r.fde_ndx = g.r.fd]

StopWaiting(g) ==
  [g EXCEPT !.ev = fdevent_event_del(@, g.r.fde_ndx, g.r.fd), !.r.fde_ndx = NotArmed]

RequestEvents(g) ==
  CASE g.r.state \in {"READ", "READ_POST", "CLOSE"} -> WaitFor(g, "IN")
    [] /\ g.r.state = "WRITE" /\ g.r.write_queue
       /\ ~g.r.is_writable /\ ~g.r.traffic_limit_reached -> WaitFor(g, "OUT")
    [] OTHER -> StopWaiting(g)

\* Return to the caller: the accept loop and the job loop call the plugins'
\* joblist hook, the loop over fdwaitqueue counts the descriptor as given.
Arm ==
  /\ pc = "arm"
  /\ LET g == RequestEvents(Frame(cur))
     IN Commit(cur, IF ret \in {"accept", "jobs"} THEN mod_fastcgi_handle_joblist(g) ELSE g)
  /\ pc' = ret /\ cur' = 0 /\ ret' = "none"
  /\ want_fds' = IF ret = "fdwait" THEN want_fds - 1 ELSE want_fds
  /\ UNCHANGED <<fdwaitqueue, loopVars, ctrlVars>>

StateMachine ==
  \/ SmRequestStart \/ SmRead \/ SmRequestEnd \/ SmHandleRequest
  \/ SmResponseStart \/ SmWrite \/ SmResponseEnd \/ SmConnect
  \/ SmError \/ SmClose \/ Arm
=============================================================================
