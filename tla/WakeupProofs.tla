---------------------------- MODULE WakeupProofs ----------------------------
(***************************************************************************)
(* Theorems about module Server, on top of ServerProofs: no connection     *)
(* is forgotten when the worker goes to sleep, and the idle limits are     *)
(* kept.                                                                   *)
(*                                                                         *)
(* Live relates a connection, its context and the sets of select(): it     *)
(* says what a response may still be waiting for, and is shown of every    *)
(* frame a handler builds.  Wakeups says that every connection but the one *)
(* the state machine works on has something to wake it up; Times bounds    *)
(* the age of a timestamp by its limit and the number of slots above the   *)
(* connection's: it has come from one of them whenever it was passed over. *)
(***************************************************************************)
EXTENDS ServerProofs

-----------------------------------------------------------------------------
\* Connections that live.

\* Connection r with context h, among events e: a context that waits for its
\* backend has a host and is watched, it is read from when the response has
\* begun, and not before; a response that is not complete has a backend that
\* goes on; what is complete still has something to write.
Live(e, r, h) ==
  /\ h.state # "PREPARE_WRITE"
  /\ h.state \in {"CONNECT_DELAYED", "WRITE", "READ"} => h.host /\ h.fd \in e.rd \cup e.wr
  /\ h.state \in {"INIT", "CONNECT_DELAYED", "WRITE"} => ~r.file_started
  /\ h.state # "NULL" /\ ~r.file_started => r.is_writable
  /\ ~r.is_writable => r.state \in {"WRITE", "ERROR", "CONNECT"}
  /\ r.mode = "FASTCGI" /\ h.state = "NULL" => r.file_finished \/ r.state = "ERROR"
  /\ r.state \in {"RESPONSE_START", "WRITE", "RESPONSE_END"} =>
       h.state = "NULL" \/ (h.state = "READ" /\ r.file_started)
  /\ r.state = "WRITE" =>
       (r.file_finished => r.write_queue) /\ (~r.file_finished => h.state = "READ")

\* The connection of a frame.
Alive(g) == Live(g.ev, g.r, g.h)

\* What joblist_append does.
LEMMA JobFields ==
  ASSUME NEW g, FrameOK(g)
  PROVE  LET f == joblist_append(g)
         IN /\ FrameOK(f) /\ f.ev = g.ev /\ f.open = g.open /\ f.conns = g.conns
            /\ f.r = g.r /\ f.h = g.h /\ f.jobs = g.jobs + 1 /\ g.jobs \in Nat
BY DEF joblist_append, FrameOK, FrameType, CtxReady

\* What FcgiWait does.
LEMMA WaitFields ==
  ASSUME NEW g, FrameOK(g), g.h.fd \in Fd, NEW what
  PROVE  LET f == FcgiWait(g, what)
         IN /\ FrameOK(f) /\ f.r = g.r /\ f.jobs = g.jobs /\ f.conns = g.conns
            /\ f.h.fd = g.h.fd /\ f.h.state = g.h.state /\ f.h.host = g.h.host
            /\ f.h.fd \in f.ev.rd \cup f.ev.wr
<1> DEFINE f == FcgiWait(g, what)
           e == fdevent_event_add(g.ev, g.h.fd, what)
<1>1. FrameOK(f)
  BY FcgiWaitOK DEF Keeps
<1>2. g.h.fd \in e.rd \cup e.wr
  BY DEF fdevent_event_add, FrameOK, FrameType, EvType
<1>3. f.ev = e /\ f.r = g.r /\ f.jobs = g.jobs /\ f.conns = g.conns
  BY DEF FcgiWait, FrameOK, FrameType
<1>4. f.h.fd = g.h.fd /\ f.h.state = g.h.state /\ f.h.host = g.h.host
  BY DEF FcgiWait, FrameOK, FrameType, CtxRec
<1> HIDE DEF f, e
<1> QED
  BY <1>1, <1>2, <1>3, <1>4 DEF f

-----------------------------------------------------------------------------
\* Reaching the backend.

\* What an attempt to write to the backend leaves of frame g: the context waits
\* for a descriptor that is watched, or for the next attempt, or has failed.
Tried(o, g) ==
  /\ o.g.r = g.r /\ o.g.jobs = g.jobs /\ o.g.h.state # "NULL"
  /\ o.r \in {"ERROR", "WAIT_FOR_EVENT", "WAIT_FOR_FD"}
  /\ o.r = "WAIT_FOR_EVENT" =>
       /\ o.g.h.state \in {"CONNECT_DELAYED", "WRITE", "READ"} /\ o.g.h.host = g.h.host
       /\ o.g.h.fd \in o.g.ev.rd \cup o.g.ev.wr
  /\ o.r = "WAIT_FOR_FD" =>
       /\ o.g.h.state = "INIT"
       /\ g.h.state = "INIT" \/ "ENOTCONN" \in Faults

\* fcgi_reconnect: the next attempt begins.
LEMMA ReconnectFields ==
  ASSUME NEW g, FrameOK(g)
  PROVE  LET f == fcgi_reconnect(g)
         IN f.r = g.r /\ f.jobs = g.jobs /\ f.h.state = "INIT" /\ f.h.fd = -1
<1> DEFINE h == NextAttempt(g.h)
           f == [FcgiCloseFd(g) EXCEPT !.h = h]
<1>1. f.r = g.r /\ f.h = h
  BY FcgiCloseFields
<1>2. f.jobs = g.jobs
  BY DEF FcgiCloseFd, CloseFd, FrameOK, FrameType
<1>3. h.state = "INIT" /\ h.fd = -1
  BY DEF NextAttempt, FrameOK, FrameType, CtxRec
<1>4. fcgi_reconnect(g) = f
  BY DEF fcgi_reconnect
<1> HIDE DEF h, f
<1> QED
  BY <1>1, <1>2, <1>3, <1>4

\* Writing the request.
LEMMA WriteTried ==
  ASSUME NEW g, FrameOK(g), g.h.fd \in Fd, g.h.state = "WRITE"
  PROVE  \A o \in FcgiWrite(g) : Tried(o, g)
<1>1. LET f == [FcgiWait(g, "IN") EXCEPT !.h.state = "READ", !.h.bytes_out = TRUE]
      IN /\ f.r = g.r /\ f.jobs = g.jobs /\ f.h.state = "READ" /\ f.h.host = g.h.host
         /\ f.h.fd \in f.ev.rd \cup f.ev.wr
  <2> DEFINE w == FcgiWait(g, "IN")
             f == [w EXCEPT !.h.state = "READ", !.h.bytes_out = TRUE]
  <2>1. /\ FrameOK(w) /\ w.r = g.r /\ w.jobs = g.jobs /\ w.h.host = g.h.host
        /\ w.h.fd \in w.ev.rd \cup w.ev.wr
    BY WaitFields
  <2> HIDE DEF w
  <2>2. f.r = w.r /\ f.jobs = w.jobs /\ f.h.state = "READ" /\ f.h.host = w.h.host
        /\ f.h.fd = w.h.fd /\ f.ev = w.ev
    BY <2>1 DEF FrameOK, FrameType, CtxRec
  <2> HIDE DEF f
  <2> QED
    BY <2>1, <2>2 DEF f, w
<1>2. LET f == FcgiWait(g, "OUT")
      IN /\ f.r = g.r /\ f.jobs = g.jobs /\ f.h.state = "WRITE" /\ f.h.host = g.h.host
         /\ f.h.fd \in f.ev.rd \cup f.ev.wr
  BY WaitFields
<1>3. LET f == [FcgiWait(g, "OUT") EXCEPT !.h.bytes_out = TRUE]
      IN /\ f.r = g.r /\ f.jobs = g.jobs /\ f.h.state = "WRITE" /\ f.h.host = g.h.host
         /\ f.h.fd \in f.ev.rd \cup f.ev.wr
  <2> DEFINE w == FcgiWait(g, "OUT")
             f == [w EXCEPT !.h.bytes_out = TRUE]
  <2>1. /\ FrameOK(w) /\ w.r = g.r /\ w.jobs = g.jobs /\ w.h.host = g.h.host
        /\ w.h.state = "WRITE" /\ w.h.fd \in w.ev.rd \cup w.ev.wr
    BY WaitFields
  <2> HIDE DEF w
  <2>2. f.r = w.r /\ f.jobs = w.jobs /\ f.h.state = w.h.state /\ f.h.host = w.h.host
        /\ f.h.fd = w.h.fd /\ f.ev = w.ev
    BY <2>1 DEF FrameOK, FrameType, CtxRec
  <2> HIDE DEF f
  <2> QED
    BY <2>1, <2>2 DEF f, w
<1>4. ASSUME NEW o \in FcgiWrite(g)
      PROVE  \/ o = Outcome([FcgiWait(g, "IN") EXCEPT !.h.state = "READ", !.h.bytes_out = TRUE],
                            "WAIT_FOR_EVENT")
             \/ o = Outcome([FcgiWait(g, "OUT") EXCEPT !.h.bytes_out = TRUE], "WAIT_FOR_EVENT")
             \/ o = Outcome(FcgiWait(g, "OUT"), "WAIT_FOR_EVENT")
             \/ o = Outcome(g, "ERROR")
             \/ o = Outcome(fcgi_reconnect(g), "WAIT_FOR_FD") /\ "ENOTCONN" \in Faults
  BY <1>4 DEF FcgiWrite
<1>5. ASSUME NEW o \in FcgiWrite(g)
      PROVE  Tried(o, g)
  <2>1. CASE o = Outcome([FcgiWait(g, "IN") EXCEPT !.h.state = "READ", !.h.bytes_out = TRUE],
                         "WAIT_FOR_EVENT")
    <3>1. /\ o.g = [FcgiWait(g, "IN") EXCEPT !.h.state = "READ", !.h.bytes_out = TRUE]
          /\ o.r = "WAIT_FOR_EVENT"
      BY <2>1, OutcomeFields
    <3>2. /\ o.g.r = g.r /\ o.g.jobs = g.jobs /\ o.g.h.state = "READ" /\ o.g.h.host = g.h.host
          /\ o.g.h.fd \in o.g.ev.rd \cup o.g.ev.wr
      BY <1>1, <3>1
    <3> QED
      BY <3>1, <3>2 DEF Tried
  <2>2. CASE o = Outcome([FcgiWait(g, "OUT") EXCEPT !.h.bytes_out = TRUE], "WAIT_FOR_EVENT")
    <3>1. o.g = [FcgiWait(g, "OUT") EXCEPT !.h.bytes_out = TRUE] /\ o.r = "WAIT_FOR_EVENT"
      BY <2>2, OutcomeFields
    <3>2. /\ o.g.r = g.r /\ o.g.jobs = g.jobs /\ o.g.h.state = "WRITE" /\ o.g.h.host = g.h.host
          /\ o.g.h.fd \in o.g.ev.rd \cup o.g.ev.wr
      BY <1>3, <3>1
    <3> QED
      BY <3>1, <3>2 DEF Tried
  <2>3. CASE o = Outcome(FcgiWait(g, "OUT"), "WAIT_FOR_EVENT")
    BY <1>2, <2>3, OutcomeFields DEF Tried
  <2>4. CASE o = Outcome(g, "ERROR")
    BY <2>4, OutcomeFields DEF Tried
  <2>5. CASE o = Outcome(fcgi_reconnect(g), "WAIT_FOR_FD") /\ "ENOTCONN" \in Faults
    BY <2>5, OutcomeFields, ReconnectFields DEF Tried
  <2> QED
    BY <1>4, <1>5, <2>1, <2>2, <2>3, <2>4, <2>5
<1> QED
  BY <1>5

\* Building the request and writing it.
LEMMA PrepareWriteTried ==
  ASSUME NEW g, FrameOK(g), g.h.fd \in Fd
  PROVE  \A o \in FcgiPrepareWrite(g) : Tried(o, g)
<1> DEFINE w == [g EXCEPT !.h.state = "WRITE"]
           q == [g EXCEPT !.h.state = "PREPARE_WRITE"]
<1>1. /\ w.r = g.r /\ w.jobs = g.jobs /\ w.h.state = "WRITE" /\ w.h.host = g.h.host
      /\ w.h.fd \in Fd /\ FrameOK(w)
  BY DEF FrameOK, FrameType, CtxRec, CtxReady, FcgiStates
<1>2. q.r = g.r /\ q.jobs = g.jobs /\ q.h.state = "PREPARE_WRITE"
  BY DEF FrameOK, FrameType, CtxRec
<1>3. FcgiPrepareWrite(g) = {Outcome(q, "ERROR")} \cup FcgiWrite(w)
  BY DEF FcgiPrepareWrite
<1> HIDE DEF w, q
<1>4. \A o \in FcgiWrite(w) : Tried(o, w)
  BY <1>1, WriteTried
<1>5. ASSUME NEW o \in FcgiPrepareWrite(g)
      PROVE  Tried(o, g)
  <2>1. CASE o = Outcome(q, "ERROR")
    BY <1>2, <2>1, OutcomeFields DEF Tried
  <2>2. CASE o \in FcgiWrite(w)
    BY <1>1, <1>4, <2>2 DEF Tried
  <2> QED
    BY <1>3, <1>5, <2>1, <2>2
<1> QED
  BY <1>5

\* connect() and what follows it.
LEMMA EstablishTried ==
  ASSUME NEW g, FrameOK(g), g.h.fd \in Fd, g.h.state # "NULL"
  PROVE  \A o \in fcgi_establish_connection(g) : Tried(o, g)
<1> DEFINE z == [g EXCEPT !.h.reconnects = 0]
           w == FcgiWait(g, "OUT")
           d == [w EXCEPT !.h.state = "CONNECT_DELAYED"]
<1>1. /\ z.r = g.r /\ z.jobs = g.jobs /\ z.h.fd \in Fd /\ FrameOK(z)
      /\ z.h.host = g.h.host /\ z.h.state = g.h.state
  BY RangeFacts DEF FrameOK, FrameType, CtxRec, CtxReady
<1>2. /\ FrameOK(w) /\ w.r = g.r /\ w.jobs = g.jobs /\ w.h.host = g.h.host
      /\ w.h.fd \in w.ev.rd \cup w.ev.wr
  BY WaitFields
<1>3. fcgi_establish_connection(g)
        = FcgiPrepareWrite(z) \cup {Outcome(d, "WAIT_FOR_EVENT"), Outcome(g, "ERROR")}
  BY DEF fcgi_establish_connection
<1> HIDE DEF z, w
<1>4. /\ d.r = w.r /\ d.jobs = w.jobs /\ d.h.host = w.h.host /\ d.h.fd = w.h.fd
      /\ d.h.state = "CONNECT_DELAYED" /\ d.ev = w.ev
  BY <1>2 DEF FrameOK, FrameType, CtxRec
<1> HIDE DEF d
<1>5. \A o \in FcgiPrepareWrite(z) : Tried(o, z)
  BY <1>1, PrepareWriteTried
<1>6. ASSUME NEW o \in fcgi_establish_connection(g)
      PROVE  Tried(o, g)
  <2>1. CASE o \in FcgiPrepareWrite(z)
    BY <1>1, <1>5, <2>1 DEF Tried
  <2>2. CASE o = Outcome(d, "WAIT_FOR_EVENT")
    BY <1>2, <1>4, <2>2, OutcomeFields DEF Tried
  <2>3. CASE o = Outcome(g, "ERROR")
    BY <2>3, OutcomeFields DEF Tried
  <2> QED
    BY <1>3, <1>6, <2>1, <2>2, <2>3
<1> QED
  BY <1>6

\* A new socket for the backend.
LEMMA InitTried ==
  ASSUME NEW g, FrameOK(g), NEW c \in Conn, g.h.state = "INIT"
  PROVE  \A o \in FcgiInit(c, g) : Tried(o, g)
<1> DEFINE q == [g EXCEPT !.h.fde_ndx = NotArmed]
<1>1. q.r = g.r /\ q.jobs = g.jobs /\ q.h.state = "INIT"
  BY DEF FrameOK, FrameType, CtxRec
<1>2. ASSUME NEW fd \in FreeFd(g), NEW o \in fcgi_establish_connection(FcgiSocket(c, g, fd))
      PROVE  Tried(o, g)
  <2> DEFINE f == FcgiSocket(c, g, fd)
  <2>1. fd \in Fd
    BY DEF FreeFd
  <2>2. /\ f.r = g.r /\ f.jobs = g.jobs /\ f.h.fd = fd /\ f.h.state = "INIT"
        /\ f.h.host = g.h.host
    BY DEF FcgiSocket, FrameOK, FrameType, CtxRec
  <2>3. FrameOK(f)
    <3>1. fdevent_register(g.ev, fd, "fcgi", c) \in EvType
      BY <2>1, EvOps, ConstantFacts DEF FrameOK, FrameType
    <3>2. g.cur_fds + 1 \in Int
      BY DEF FrameOK, FrameType
    <3> QED
      BY <2>1, <3>1, <3>2 DEF FrameOK, FrameType, CtxRec, CtxReady, FcgiSocket
  <2> HIDE DEF f
  <2>4. Tried(o, f)
    BY <1>2, <2>1, <2>2, <2>3, EstablishTried DEF f
  <2> QED
    BY <2>2, <2>4 DEF Tried
<1>3. ASSUME NEW o \in FcgiInit(c, g)
      PROVE  Tried(o, g)
  <2>1. \/ o = Outcome(q, "ERROR") \/ o = Outcome(g, "WAIT_FOR_FD")
        \/ \E fd \in FreeFd(g) : o \in fcgi_establish_connection(FcgiSocket(c, g, fd))
    BY <1>3 DEF FcgiInit
  <2> HIDE DEF q
  <2>2. CASE o = Outcome(q, "ERROR") \/ o = Outcome(g, "WAIT_FOR_FD")
    BY <1>1, <2>2, OutcomeFields DEF Tried
  <2> QED
    BY <1>2, <2>1, <2>2
<1> QED
  BY <1>3

\* fcgi_write_request, for a context that is watched if it waits.
LEMMA WriteRequestTried ==
  ASSUME NEW g, FrameOK(g), NEW c \in Conn, g.h.state # "NULL",
         g.h.state = "READ" => g.h.fd \in g.ev.rd \cup g.ev.wr
  PROVE  \A o \in fcgi_write_request(c, g) :
           Tried(o, g) /\ (g.h.state = "READ" => o = Outcome(g, "WAIT_FOR_EVENT"))
<1>1. g.h.state \in FcgiStates
  BY DEF FrameOK, FrameType, CtxRec
<1>2. CASE g.h.state = "INIT"
  <2>1. fcgi_write_request(c, g) = FcgiInit(c, g)
    BY <1>2 DEF fcgi_write_request
  <2> QED
    BY <1>2, <2>1, InitTried
<1>3. CASE g.h.state \in {"CONNECT_DELAYED", "PREPARE_WRITE", "WRITE"}
  <2>1. g.h.fd \in Fd
    BY <1>3 DEF FrameOK, CtxReady
  <2>2. /\ \A o \in FcgiPrepareWrite(g) : Tried(o, g)
        /\ g.h.state = "WRITE" => \A o \in FcgiWrite(g) : Tried(o, g)
    BY <2>1, PrepareWriteTried, WriteTried
  <2>3. Tried(Outcome(g, "ERROR"), g)
    BY OutcomeFields DEF Tried
  <2>4. \/ fcgi_write_request(c, g) = {Outcome(g, "ERROR")} \cup FcgiPrepareWrite(g)
        \/ fcgi_write_request(c, g) = FcgiPrepareWrite(g)
        \/ fcgi_write_request(c, g) = FcgiWrite(g) /\ g.h.state = "WRITE"
    BY <1>3 DEF fcgi_write_request
  <2> QED
    BY <1>3, <2>2, <2>3, <2>4
<1>4. CASE g.h.state = "READ"
  <2>1. fcgi_write_request(c, g) = {Outcome(g, "WAIT_FOR_EVENT")}
    BY <1>4 DEF fcgi_write_request
  <2>2. Tried(Outcome(g, "WAIT_FOR_EVENT"), g)
    BY <1>4, OutcomeFields DEF Tried
  <2> QED
    BY <2>1, <2>2
<1> QED
  BY <1>1, <1>2, <1>3, <1>4 DEF FcgiStates

\* fcgi_connection_close: the context is gone.
LEMMA CloseCtxFields ==
  ASSUME NEW g, FrameOK(g), g.h.state = "NULL" => g.h = NoCtx
  PROVE  LET f == fcgi_connection_close(g)
         IN FrameOK(f) /\ f.r = g.r /\ f.jobs = g.jobs /\ f.h = NoCtx
<1> DEFINE f == [FcgiCloseFd(g) EXCEPT !.h = NoCtx]
<1>1. f.r = g.r /\ f.h = NoCtx
  BY FcgiCloseFields
<1>2. f.jobs = g.jobs
  BY DEF FcgiCloseFd, CloseFd, FrameOK, FrameType
<1>3. FrameOK(fcgi_connection_close(g))
  BY FcgiCloseOK DEF Keeps
<1>4. fcgi_connection_close(g) = f \/ (fcgi_connection_close(g) = g /\ g.h.state = "NULL")
  BY DEF fcgi_connection_close
<1> HIDE DEF f
<1> QED
  BY <1>1, <1>2, <1>3, <1>4

\* What GivenUp leaves of a connection.
LEMMA GivenUpFields ==
  ASSUME NEW r \in ConRec
  PROVE  LET x == GivenUp(r)
         IN /\ x \in ConRec /\ x.mode = "DIRECT" /\ x.state = r.state
            /\ x.is_writable = r.is_writable /\ x.write_queue = r.write_queue
            /\ x.file_started = r.file_started /\ x.file_finished = r.file_finished
            /\ x.write_idle = r.write_idle /\ x.read_idle = r.read_idle
            /\ x.request_count = r.request_count
BY DEF GivenUp, ConRec

\* FcgiGiveUp: the request is answered by the server itself.
LEMMA GiveUpFields ==
  ASSUME NEW g, FrameOK(g), g.h.state = "NULL" => g.h = NoCtx
  PROVE  LET f == FcgiGiveUp(g)
         IN FrameOK(f) /\ f.r = GivenUp(g.r) /\ f.jobs = g.jobs /\ f.h = NoCtx
<1> DEFINE f == fcgi_connection_close(g)
           z == FcgiGiveUp(g)
<1>1. FrameOK(f) /\ f.r = g.r /\ f.jobs = g.jobs /\ f.h = NoCtx
  BY CloseCtxFields
<1>2. z = [f EXCEPT !.r.mode = "DIRECT", !.r.decided = TRUE]
  BY DEF FcgiGiveUp
<1>3. FrameOK(z)
  BY FcgiGiveUpOK DEF Keeps
<1> HIDE DEF f, z
<1>4. z.r = GivenUp(f.r) /\ z.h = f.h /\ z.jobs = f.jobs
  BY <1>1, <1>2 DEF FrameOK, FrameType, GivenUp
<1> QED
  BY <1>1, <1>3, <1>4 DEF z

\* The context of a frame waits for its backend.
Waiting(f) ==
  f.h.state \in {"CONNECT_DELAYED", "WRITE", "READ"} /\ f.h.host /\ f.h.fd \in f.ev.rd \cup f.ev.wr

\* mod_fastcgi_handle_subrequest goes on with the request of frame g: the
\* context waits for its backend, or for the next attempt, for which a job is
\* there or the caller has to wait for a descriptor.
GoesOn(o, g) ==
  /\ o.g.r = g.r
  /\ \/ /\ o.r = "WAIT_FOR_EVENT" /\ Waiting(o.g)
        /\ o.g.h.state = "READ" \/ ~g.r.file_started
     \/ /\ o.r = "FINISHED" /\ Waiting(o.g)
        /\ o.g.h.state = "READ" /\ g.r.file_started
     \/ /\ o.r = "WAIT_FOR_FD" /\ o.g.h.state = "INIT" /\ ~g.r.file_started
        /\ o.g.jobs > g.jobs \/ g.h.state = "INIT" \/ "ENOTCONN" \in Faults

\* It has given the request up.
Ends(o, g) ==
  /\ o.r = "FINISHED" /\ o.g.r = GivenUp(g.r) /\ o.g.h = NoCtx
  /\ o.g.jobs > g.jobs \/ ~g.h.host

\* mod_fastcgi_handle_subrequest (mod_fastcgi.c:3100).
LEMMA SubrequestGoesOn ==
  ASSUME NEW g, FrameOK(g), Alive(g), NEW c \in Conn, g.h.state # "NULL"
  PROVE  \A o \in mod_fastcgi_handle_subrequest(c, g) :
           (GoesOn(o, g) \/ Ends(o, g)) /\ o.g.jobs >= g.jobs
<1> DEFINE f == [g EXCEPT !.h.host = TRUE]
<1>1. /\ f.r = g.r /\ f.jobs = g.jobs /\ f.ev = g.ev /\ f.h.fd = g.h.fd
      /\ f.h.state = g.h.state /\ f.h.host = TRUE
  BY DEF FrameOK, FrameType, CtxRec
<1>2. FrameOK(f) /\ g.jobs \in Nat
  BY DEF FrameOK, FrameType, CtxRec, CtxReady
<1> HIDE DEF f
<1>3. /\ \A o \in fcgi_write_request(c, f) :
           Tried(o, f) /\ (f.h.state = "READ" => o = Outcome(f, "WAIT_FOR_EVENT"))
      /\ g.h.state # "READ" => ~g.r.file_started
  <2>1. g.h.state \in FcgiStates
    BY DEF FrameOK, FrameType, CtxRec
  <2> QED
    BY <1>1, <1>2, <2>1, WriteRequestTried DEF Alive, Live, FcgiStates
<1>4. \A o \in fcgi_write_request(c, f) : FrameOK(o.g)
  BY <1>2, FcgiWriteRequestOK DEF AllKeep, Keeps
<1>5. ASSUME NEW o \in fcgi_write_request(c, f)
      PROVE  LET x == SubrequestResult(o)
             IN (GoesOn(x, g) \/ Ends(x, g)) /\ x.g.jobs >= g.jobs
  <2>1. CASE o.r # "ERROR"
    <3>1. /\ SubrequestResult(o).g = o.g
          /\ SubrequestResult(o).r =
               IF o.r = "WAIT_FOR_EVENT" /\ o.g.r.file_started THEN "FINISHED" ELSE o.r
      BY <2>1, OutcomeFields DEF SubrequestResult, SubrequestWait
    <3>2. Tried(o, f) /\ (f.h.state = "READ" => o.g = f /\ o.r = "WAIT_FOR_EVENT")
      BY <1>3, OutcomeFields
    <3>3. f.h.state = "READ" \/ ~g.r.file_started
      BY <1>1, <1>3
    <3>4. SubrequestResult(o).g.jobs >= g.jobs
      BY <1>1, <1>2, <3>1, <3>2 DEF Tried
    <3>5. GoesOn(SubrequestResult(o), g)
      BY <1>1, <2>1, <3>1, <3>2, <3>3 DEF Tried, GoesOn, Waiting
    <3> QED
      BY <3>4, <3>5
  <2>2. CASE o.r = "ERROR"
    <3> DEFINE a == fcgi_reconnect(o.g)
               b == FcgiGiveUp(o.g)
    <3>1. /\ FrameOK(o.g) /\ o.g.r = g.r /\ o.g.jobs = g.jobs /\ o.g.h.state # "NULL"
          /\ f.h.state # "READ"
      <4>1. Tried(o, f)
        BY <1>3
      <4>2. f.h.state # "READ"
        BY <1>3, <2>2, OutcomeFields
      <4> QED
        BY <1>1, <1>4, <4>1, <4>2 DEF Tried
    <3>2. o.g.h.reconnects < max_reconnects => FrameOK(a)
      BY <3>1, FcgiReconnectOK DEF Keeps
    <3>3. a.r = g.r /\ a.jobs = g.jobs /\ a.h.state = "INIT"
      BY <3>1, ReconnectFields
    <3>4. FrameOK(b) /\ b.r = GivenUp(g.r) /\ b.jobs = g.jobs /\ b.h = NoCtx
      BY <3>1, GiveUpFields
    <3>5. \/ /\ SubrequestResult(o) = Outcome(joblist_append(a), "WAIT_FOR_FD")
             /\ o.g.h.reconnects < max_reconnects
          \/ SubrequestResult(o) = Outcome(joblist_append(b), "FINISHED")
      BY <2>2 DEF SubrequestResult, SubrequestError
    <3> HIDE DEF a, b
    <3>6. ~g.r.file_started
      BY <1>1, <1>3, <3>1
    <3>7. CASE SubrequestResult(o) = Outcome(joblist_append(a), "WAIT_FOR_FD")
               /\ o.g.h.reconnects < max_reconnects
      <4>1. /\ joblist_append(a).r = a.r /\ joblist_append(a).h = a.h
            /\ joblist_append(a).jobs = a.jobs + 1
        BY <3>2, <3>7, JobFields
      <4> QED
        BY <1>2, <3>3, <3>6, <3>7, <4>1, OutcomeFields DEF GoesOn
    <3>8. CASE SubrequestResult(o) = Outcome(joblist_append(b), "FINISHED")
      <4>1. /\ joblist_append(b).r = b.r /\ joblist_append(b).h = b.h
            /\ joblist_append(b).jobs = b.jobs + 1
        BY <3>4, JobFields
      <4> QED
        BY <1>2, <3>4, <3>8, <4>1, OutcomeFields DEF Ends
    <3> QED
      BY <3>5, <3>7, <3>8
  <2> QED
    BY <2>1, <2>2
<1>6. ASSUME NEW o \in mod_fastcgi_handle_subrequest(c, g)
      PROVE  (GoesOn(o, g) \/ Ends(o, g)) /\ o.g.jobs >= g.jobs
  <2>1. \/ o = Outcome(FcgiGiveUp(g), "FINISHED") /\ ~g.h.host
        \/ \E x \in fcgi_write_request(c, f) : o = SubrequestResult(x)
    BY <1>6 DEF mod_fastcgi_handle_subrequest, f
  <2>2. CASE o = Outcome(FcgiGiveUp(g), "FINISHED") /\ ~g.h.host
    BY <1>2, <2>2, GiveUpFields, OutcomeFields DEF Ends
  <2> QED
    BY <1>5, <2>1, <2>2
<1> QED
  BY <1>6

-----------------------------------------------------------------------------
\* http_response_prepare.

\* A connection in another state.
LEMMA StateFields ==
  ASSUME NEW g, FrameOK(g), NEW s \in ConStates
  PROVE  LET f == connection_set_state(g, s)
         IN /\ FrameOK(f) /\ f.ev = g.ev /\ f.h = g.h /\ f.jobs = g.jobs /\ f.conns = g.conns
            /\ f.r.state = s /\ f.r.mode = g.r.mode
            /\ f.r.is_writable = g.r.is_writable /\ f.r.write_queue = g.r.write_queue
            /\ f.r.file_started = g.r.file_started /\ f.r.file_finished = g.r.file_finished
            /\ f.r.write_idle = g.r.write_idle /\ f.r.read_idle = g.r.read_idle
            /\ f.r.request_count = g.r.request_count
<1> DEFINE x == [g.r EXCEPT !.state = s]
           f == [g EXCEPT !.r = x]
<1>1. g.r \in ConRec
  BY DEF FrameOK, FrameType
<1>2. /\ x.state = s /\ x.mode = g.r.mode
      /\ x.is_writable = g.r.is_writable /\ x.write_queue = g.r.write_queue
      /\ x.file_started = g.r.file_started /\ x.file_finished = g.r.file_finished
      /\ x.write_idle = g.r.write_idle /\ x.read_idle = g.r.read_idle
      /\ x.request_count = g.r.request_count
  BY <1>1 DEF ConRec
<1>3. connection_set_state(g, s) = f
  BY DEF connection_set_state, FrameOK, FrameType
<1>4. FrameOK(connection_set_state(g, s))
  BY SetStateOK DEF Keeps
<1> HIDE DEF x
<1>5. f.r = x /\ f.ev = g.ev /\ f.h = g.h /\ f.jobs = g.jobs /\ f.conns = g.conns
  BY DEF FrameOK, FrameType
<1> HIDE DEF f
<1> QED
  BY <1>2, <1>3, <1>4, <1>5

\* What http_response_prepare answers: the request is rid of its context, or
\* the context waits; a response that has begun is read from the backend.
Answered(o) ==
  /\ FrameOK(o.g) /\ o.g.r.is_writable
  /\ \/ /\ o.r \in {"FINISHED", "ERROR"} /\ o.g.h.state = "NULL"
        /\ o.g.r.mode = "FASTCGI" => o.g.r.file_finished
     \/ /\ o.r \in {"FINISHED", "WAIT_FOR_EVENT"} /\ Waiting(o.g)
        /\ o.r = "FINISHED" => o.g.h.state = "READ" /\ o.g.r.file_started
        /\ o.g.h.state = "READ" \/ ~o.g.r.file_started
     \/ o.r = "WAIT_FOR_FD" /\ o.g.h.state = "INIT" /\ ~o.g.r.file_started

\* The state the machine goes to then.
LEMMA AnswerLives ==
  ASSUME NEW o, Answered(o)
  PROVE  LET f == AfterPrepare(o)
         IN /\ Alive(f) /\ f.r.state \in {"HANDLE_REQUEST", "RESPONSE_START", "ERROR"}
            /\ f.r.state = "HANDLE_REQUEST" => o.r = "WAIT_FOR_FD" \/ Waiting(f)
<1>1. FrameOK(o.g) /\ {"RESPONSE_START", "ERROR", "HANDLE_REQUEST"} \subseteq ConStates
  BY DEF Answered, ConStates
<1>2. CASE o.r = "FINISHED"
  <2> DEFINE f == connection_set_state(o.g, "RESPONSE_START")
  <2>1. /\ f.ev = o.g.ev /\ f.h = o.g.h /\ f.r.state = "RESPONSE_START" /\ f.r.mode = o.g.r.mode
        /\ f.r.is_writable = o.g.r.is_writable
        /\ f.r.file_started = o.g.r.file_started /\ f.r.file_finished = o.g.r.file_finished
    BY <1>1, StateFields
  <2>2. AfterPrepare(o) = f
    BY <1>2 DEF AfterPrepare
  <2> HIDE DEF f
  <2> QED
    BY <1>2, <2>1, <2>2 DEF Answered, Alive, Live, Waiting
<1>3. CASE o.r = "ERROR"
  <2> DEFINE f == connection_set_state(o.g, "ERROR")
  <2>1. /\ f.ev = o.g.ev /\ f.h = o.g.h /\ f.r.state = "ERROR" /\ f.r.mode = o.g.r.mode
        /\ f.r.is_writable = o.g.r.is_writable
    BY <1>1, StateFields
  <2>2. AfterPrepare(o) = f
    BY <1>3 DEF AfterPrepare
  <2> HIDE DEF f
  <2> QED
    BY <1>3, <2>1, <2>2 DEF Answered, Alive, Live
<1>4. CASE o.r \in {"WAIT_FOR_EVENT", "WAIT_FOR_FD"}
  <2> DEFINE f == connection_set_state(o.g, "HANDLE_REQUEST")
  <2>1. /\ f.ev = o.g.ev /\ f.h = o.g.h /\ f.r.state = "HANDLE_REQUEST" /\ f.r.mode = o.g.r.mode
        /\ f.r.is_writable = o.g.r.is_writable
        /\ f.r.file_started = o.g.r.file_started
    BY <1>1, StateFields
  <2>2. AfterPrepare(o) = f
    BY <1>4 DEF AfterPrepare
  <2> HIDE DEF f
  <2> QED
    BY <1>4, <2>1, <2>2 DEF Answered, Alive, Live, Waiting
<1> QED
  BY <1>2, <1>3, <1>4 DEF Answered

\* What a subrequest answers.
LEMMA SubrequestAnswers ==
  ASSUME NEW g, FrameOK(g), Alive(g), NEW c \in Conn, g.h.state # "NULL",
         g.r.state = "HANDLE_REQUEST"
  PROVE  \A o \in mod_fastcgi_handle_subrequest(c, g) : Answered(o)
<1>1. g.r.is_writable /\ g.r \in ConRec
  BY DEF Alive, Live, FrameOK, FrameType
<1>2. ASSUME NEW o \in mod_fastcgi_handle_subrequest(c, g)
      PROVE  Answered(o)
  <2>1. FrameOK(o.g)
    BY SubrequestOK DEF AllKeep, Keeps
  <2>2. GoesOn(o, g) \/ Ends(o, g)
    BY SubrequestGoesOn
  <2>3. CASE GoesOn(o, g)
    BY <1>1, <2>1, <2>3 DEF GoesOn, Answered
  <2>4. CASE Ends(o, g)
    <3>1. /\ GivenUp(g.r).mode = "DIRECT" /\ GivenUp(g.r).is_writable = g.r.is_writable
          /\ NoCtx.state = "NULL"
      BY <1>1, GivenUpFields, NoCtxOK
    <3> QED
      BY <1>1, <2>1, <2>4, <3>1 DEF Ends, Answered
  <2> QED
    BY <2>2, <2>3, <2>4
<1> QED
  BY <1>2

\* A request of which nothing is decided.
LEMMA NewRequestAnswers ==
  ASSUME NEW g, FrameOK(g), Alive(g), NEW c \in Conn, g.h = NoCtx,
         g.r.state = "HANDLE_REQUEST", g.r.mode = "DIRECT"
  PROVE  \A o \in NewRequest(c, g) : Answered(o)
<1>1. g.r.is_writable /\ g.r \in ConRec
  BY DEF Alive, Live, FrameOK, FrameType
<1> DEFINE counted == CountRequest(g)
<1>2. /\ FrameOK(counted) /\ counted.ev = g.ev /\ counted.h = NoCtx
      /\ counted.r.state = "HANDLE_REQUEST" /\ counted.r.mode = "DIRECT"
      /\ counted.r.is_writable /\ counted.r.file_started = g.r.file_started
  <2> DEFINE x == [g.r EXCEPT !.keep_alive = FALSE]
             y == [g EXCEPT !.r = x]
  <2>1. counted = g \/ counted = y
    BY DEF CountRequest, FrameOK, FrameType
  <2>2. /\ x \in ConRec /\ x.state = g.r.state /\ x.mode = g.r.mode
        /\ x.is_writable = g.r.is_writable /\ x.file_started = g.r.file_started
    BY <1>1 DEF ConRec
  <2> HIDE DEF x
  <2>3. y.r = x /\ y.h = g.h /\ y.ev = g.ev /\ FrameOK(y)
    BY <2>2 DEF FrameOK, FrameType
  <2> HIDE DEF y, counted
  <2> QED
    BY <1>1, <2>1, <2>2, <2>3
<1> DEFINE answer(d) == [counted EXCEPT !.r.decided = d, !.r.write_queue = ~d,
                                        !.r.file_finished = ~d]
           taken == [counted EXCEPT !.h = handler_ctx_init, !.r.mode = "FASTCGI"]
<1>3. NewRequest(c, g) =
        {Outcome(x, "FINISHED") : x \in {answer(d) : d \in BOOLEAN}}
        \cup {Outcome(counted, "ERROR")}
        \cup (IF fastcgi /\ ~g.r.file_started
              THEN mod_fastcgi_handle_subrequest(c, taken) ELSE {})
  BY DEF NewRequest
<1> HIDE DEF counted
<1>4. counted.r \in ConRec /\ NoCtx.state = "NULL"
  BY <1>2, NoCtxOK DEF FrameOK, FrameType
<1>5. ASSUME NEW d \in BOOLEAN
      PROVE  Answered(Outcome(answer(d), "FINISHED"))
  <2> DEFINE x == [counted.r EXCEPT !.decided = d, !.write_queue = ~d, !.file_finished = ~d]
             y == [counted EXCEPT !.r = x]
  <2>1. x \in ConRec
    BY <1>4, ZenonT(60) DEF ConRec
  <2>2. x.mode = counted.r.mode /\ x.is_writable = counted.r.is_writable
    BY <1>4 DEF ConRec
  <2>3. answer(d) = y
    BY <1>2 DEF FrameOK, FrameType
  <2> HIDE DEF x
  <2>4. y.r = x /\ y.h = counted.h /\ FrameOK(y)
    BY <1>2, <2>1 DEF FrameOK, FrameType
  <2> HIDE DEF y, answer
  <2> DEFINE o == Outcome(answer(d), "FINISHED")
  <2>5. o.g = y /\ o.r = "FINISHED"
    BY <2>3, OutcomeFields
  <2> HIDE DEF o
  <2>6. FrameOK(o.g) /\ o.g.r.is_writable /\ o.g.h.state = "NULL" /\ o.g.r.mode = "DIRECT"
    BY <1>2, <1>4, <2>2, <2>4, <2>5
  <2>7. Answered(o)
    BY <2>5, <2>6 DEF Answered
  <2> QED
    BY <2>7 DEF o
<1>6. ASSUME ~g.r.file_started
      PROVE  /\ FrameOK(taken) /\ taken.h.state = "INIT" /\ Alive(taken)
             /\ taken.r.state = "HANDLE_REQUEST"
  <2> DEFINE x == [counted.r EXCEPT !.mode = "FASTCGI"]
  <2>1. /\ x \in ConRec /\ x.state = counted.r.state /\ x.mode = "FASTCGI"
        /\ x.is_writable = counted.r.is_writable /\ x.file_started = counted.r.file_started
    BY <1>4 DEF ConRec
  <2>2. taken = [counted EXCEPT !.h = handler_ctx_init, !.r = x]
    BY <1>2 DEF FrameOK, FrameType
  <2>3. handler_ctx_init \in CtxRec /\ handler_ctx_init.state = "INIT" /\ CtxReady(handler_ctx_init)
    BY CtxFacts DEF handler_ctx_init, NoCtx, CtxReady
  <2> HIDE DEF x
  <2>4. taken.r = x /\ taken.h = handler_ctx_init /\ taken.ev = counted.ev /\ FrameOK(taken)
    BY <1>2, <2>1, <2>2, <2>3 DEF FrameOK, FrameType
  <2> HIDE DEF taken
  <2> QED
    BY <1>2, <1>6, <2>1, <2>3, <2>4 DEF Alive, Live
<1>7. Answered(Outcome(counted, "ERROR"))
  BY <1>2, <1>4, OutcomeFields DEF Answered
<1> HIDE DEF taken, answer
<1>8. ASSUME NEW o \in NewRequest(c, g)
      PROVE  Answered(o)
  <2>1. \/ \E d \in BOOLEAN : o = Outcome(answer(d), "FINISHED")
        \/ o = Outcome(counted, "ERROR")
        \/ o \in mod_fastcgi_handle_subrequest(c, taken) /\ ~g.r.file_started
    BY <1>3, <1>8
  <2>2. CASE o \in mod_fastcgi_handle_subrequest(c, taken) /\ ~g.r.file_started
    BY <1>6, <2>2, SubrequestAnswers
  <2> QED
    BY <1>5, <1>7, <2>1, <2>2
<1> QED
  BY <1>8

\* http_response_prepare (response.c:120).
LEMMA PrepareAnswers ==
  ASSUME NEW g, FrameOK(g), Alive(g), RequestOK(g.r, g.h), NEW c \in Conn,
         g.r.state = "HANDLE_REQUEST"
  PROVE  \A o \in http_response_prepare(c, g) : Answered(o)
<1>1. g.r.is_writable /\ g.r \in ConRec /\ g.r.mode \in {"DIRECT", "FASTCGI"}
      /\ g.r.decided \in BOOLEAN
  BY DEF Alive, Live, FrameOK, FrameType, ConRec
<1>2. g.r.mode = "DIRECT" => g.h = NoCtx /\ g.h.state = "NULL"
  BY NoCtxOK DEF RequestOK
<1>3. CASE g.r.mode = "DIRECT" /\ g.r.decided
  <2> DEFINE x == [g.r EXCEPT !.write_queue = FALSE]
             y == [g EXCEPT !.r = x]
  <2>1. x \in ConRec /\ x.mode = g.r.mode /\ x.is_writable = g.r.is_writable
    BY <1>1 DEF ConRec
  <2>2. [g EXCEPT !.r.write_queue = FALSE] = y
    BY DEF FrameOK, FrameType
  <2> HIDE DEF x
  <2>3. y.r = x /\ y.h = g.h /\ FrameOK(y)
    BY <2>1 DEF FrameOK, FrameType
  <2>4. \A o \in http_response_prepare(c, g) : o \in {Outcome(g, "FINISHED"), Outcome(y, "FINISHED")}
    BY <1>3, <2>2 DEF http_response_prepare
  <2> HIDE DEF y
  <2>5. ASSUME NEW f \in {g, y}
        PROVE  Answered(Outcome(f, "FINISHED"))
    <3> DEFINE o == Outcome(f, "FINISHED")
    <3>1. o.g = f /\ o.r = "FINISHED"
      BY OutcomeFields
    <3> HIDE DEF o
    <3>2. FrameOK(o.g) /\ o.g.r.is_writable /\ o.g.h.state = "NULL" /\ o.g.r.mode = "DIRECT"
      BY <1>1, <1>2, <1>3, <2>1, <2>3, <2>5, <3>1
    <3>3. Answered(o)
      BY <3>1, <3>2 DEF Answered
    <3> QED
      BY <3>3 DEF o
  <2> QED
    BY <2>4, <2>5
<1>4. CASE g.r.mode = "DIRECT" /\ ~g.r.decided
  <2>1. http_response_prepare(c, g) = NewRequest(c, g)
    BY <1>4 DEF http_response_prepare
  <2> QED
    BY <1>2, <1>4, <2>1, NewRequestAnswers
<1>5. CASE g.r.mode = "FASTCGI" /\ g.h.state = "NULL"
  <2>1. http_response_prepare(c, g) = {Outcome(g, "FINISHED")}
    BY <1>5 DEF http_response_prepare
  <2> QED
    BY <1>1, <1>5, <2>1, OutcomeFields DEF Answered, Alive, Live
<1>6. CASE g.r.mode = "FASTCGI" /\ g.h.state # "NULL"
  <2>1. http_response_prepare(c, g) = mod_fastcgi_handle_subrequest(c, g)
    BY <1>6 DEF http_response_prepare
  <2> QED
    BY <1>6, <2>1, SubrequestAnswers
<1> QED
  BY <1>1, <1>3, <1>4, <1>5, <1>6

-----------------------------------------------------------------------------
\* Reading.

\* What reading may make of a connection r: the timestamp is new or the old one.
Reads(x, r) ==
  Reading(x, r) /\ x.is_writable = r.is_writable /\ x.read_idle \in {0, r.read_idle}

\* connection_handle_read.
LEMMA ReadTimes ==
  ASSUME NEW r, NEW x, Reads(x, r)
  PROVE  \A y \in connection_handle_read(x) :
           Reads(y.r, r) /\ (y.ret # "failed" => y.r.state = x.state)
<1> DEFINE blocked == [x EXCEPT !.is_readable = FALSE]
           failed == [blocked EXCEPT !.state = "ERROR"]
           more(y) == [y EXCEPT !.read_queue = @ + 1]
<1>1. /\ blocked.is_writable = x.is_writable /\ blocked.read_idle = x.read_idle
      /\ failed.is_writable = x.is_writable /\ failed.read_idle = x.read_idle
      /\ more(x).is_writable = x.is_writable /\ more(x).read_idle = x.read_idle
      /\ more(blocked).is_writable = x.is_writable /\ more(blocked).read_idle = x.read_idle
  BY DEF Reads, Reading, ConRec
<1>2. connection_handle_read(x) =
        {Read(blocked, "ok"), Read(x, "ok"), Read(failed, "failed"), Read(blocked, "eof")}
        \cup (IF x.read_queue <= header_max
              THEN {Read(more(y), "ok") : y \in {x, blocked}} ELSE {})
  BY DEF connection_handle_read
<1>3. \A y \in connection_handle_read(x) :
        Reading(y.r, r) /\ (y.ret # "failed" => y.r.state = x.state)
  BY ReadIsReading DEF Reads
<1>4. \A a, b : Read(a, b).r = a
  BY DEF Read
<1> HIDE DEF blocked, failed, more
<1>5. \A y \in connection_handle_read(x) :
        y.r \in {blocked, x, failed, more(x), more(blocked)}
  BY <1>2, <1>4
<1> QED
  BY <1>1, <1>3, <1>5 DEF Reads

\* A header, or a part of the content.
LEMMA ParsedTimes ==
  ASSUME NEW r, NEW x, Reads(x, r)
  PROVE  /\ x.state = "READ" => \A y \in ReadHeader(x) : Reads(y, r)
         /\ x.state = "READ_POST" => \A y \in ReadContent(x) : Reads(y, r)
<1>1. /\ x.state = "READ" => \A y \in ReadHeader(x) : Reading(y, r)
      /\ x.state = "READ_POST" => \A y \in ReadContent(x) : Reading(y, r)
  BY ParsedIsReading DEF Reads
<1>2. ASSUME NEW y \in ReadHeader(x)
      PROVE  y.is_writable = x.is_writable /\ y.read_idle = x.read_idle
  BY <1>2 DEF ReadHeader, Reads, Reading, ConRec
<1>3. ASSUME NEW y \in ReadContent(x)
      PROVE  y.is_writable = x.is_writable /\ y.read_idle = x.read_idle
  BY <1>3 DEF ReadContent, Reads, Reading, ConRec
<1> QED
  BY <1>1, <1>2, <1>3 DEF Reads

\* connection_handle_read_state.
LEMMA ReadStateTimes ==
  ASSUME NEW r \in ConRec, NEW h, RequestOK(r, h), r.state \in {"READ", "READ_POST"}
  PROVE  \A x \in connection_handle_read_state(r) : Reads(x, r)
<1> DEFINE q == [r EXCEPT !.read_idle = 0]
           results == IF r.is_readable THEN connection_handle_read(q) ELSE {Read(r, "ok")}
           parsed(x) == IF x.state = "READ" THEN ReadHeader(x) ELSE ReadContent(x)
           after(y) == CASE y.ret = "failed" -> {y.r}
                         [] y.ret = "eof"    -> {ReadClosed(z, r.state) : z \in parsed(y.r)}
                         [] OTHER            -> parsed(y.r)
<1>1. connection_handle_read_state(r) = UNION {after(y) : y \in results}
  BY DEF connection_handle_read_state
<1>2. ~r.decided /\ ~r.bad_version
  BY DEF RequestOK, Fresh
<1>3. Reads(r, r)
  BY <1>2 DEF Reads, Reading
<1>4. Reads(q, r) /\ q.state = r.state
  BY <1>2, RangeFacts DEF Reads, Reading, ConRec
<1> HIDE DEF q
<1>5. ASSUME NEW y \in results
      PROVE  Reads(y.r, r) /\ (y.ret # "failed" => y.r.state = r.state)
  <2>1. CASE r.is_readable
    BY <1>4, <1>5, <2>1, ReadTimes
  <2>2. CASE ~r.is_readable
    <3>1. y = Read(r, "ok")
      BY <1>5, <2>2
    <3> QED
      BY <1>3, <3>1 DEF Read
  <2> QED
    BY <2>1, <2>2
<1>6. ASSUME NEW x, Reads(x, r), x.state \in {"READ", "READ_POST"}, NEW y \in parsed(x)
      PROVE  Reads(y, r)
  BY <1>6, ParsedTimes
<1> HIDE DEF results, parsed
<1>7. ASSUME NEW z, Reads(z, r)
      PROVE  Reads(ReadClosed(z, r.state), r)
  <2>1. CASE z.state = r.state
    <3>1. ReadClosed(z, r.state) = [z EXCEPT !.state = "ERROR"]
      BY <2>1 DEF ReadClosed
    <3> QED
      BY <1>7, <3>1 DEF Reads, Reading, ConRec, ConStates
  <2>2. CASE z.state # r.state
    BY <1>7, <2>2 DEF ReadClosed
  <2> QED
    BY <2>1, <2>2
<1>8. ASSUME NEW y \in results, NEW x \in after(y)
      PROVE  Reads(x, r)
  <2>1. Reads(y.r, r) /\ (y.ret # "failed" => y.r.state = r.state)
    BY <1>5
  <2>2. \/ x = y.r
        \/ y.ret # "failed" /\ \E z \in parsed(y.r) : x = z \/ x = ReadClosed(z, r.state)
    BY <1>8
  <2> QED
    BY <1>6, <1>7, <2>1, <2>2
<1> QED
  BY <1>1, <1>8

\* A connection without a context waits for nobody.
LEMMA AloneLives ==
  ASSUME NEW e, NEW r, NEW h, h = NoCtx, r.mode = "DIRECT",
         r.state \notin {"WRITE", "ERROR", "CONNECT"} => r.is_writable,
         r.state = "WRITE" => r.file_finished /\ r.write_queue
  PROVE  Live(e, r, h)
BY NoCtxOK DEF Live

\* A request that is being read lives, and so it does afterwards.
LEMMA ReadLives ==
  ASSUME NEW g, FrameOK(g), Alive(g), RequestOK(g.r, g.h), g.r.state \in {"READ", "READ_POST"}
  PROVE  \A x \in connection_handle_read_state(g.r) : Reads(x, g.r) /\ Live(g.ev, x, g.h)
<1>1. g.r \in ConRec /\ g.r.mode = "DIRECT" /\ g.h = NoCtx /\ g.r.is_writable
  BY DEF FrameOK, FrameType, RequestOK, Idle, Alive, Live
<1>2. \A x \in connection_handle_read_state(g.r) : Reads(x, g.r)
  BY <1>1, ReadStateTimes
<1> QED
  BY <1>1, <1>2, AloneLives DEF Reads, Reading

-----------------------------------------------------------------------------
\* Writing.

\* The record of a connection that writes, in the middle of it.
Written(f, g) ==
  /\ FrameOK(f) /\ f.ev = g.ev /\ f.h = g.h /\ f.jobs >= g.jobs
  /\ f.r.mode = g.r.mode /\ f.r.is_writable = g.r.is_writable
  /\ f.r.file_started = g.r.file_started /\ f.r.file_finished = g.r.file_finished
  /\ f.r.state = g.r.state

\* network_write_chunkqueue: 0 says that the queue is empty.
LEMMA QueueWritten ==
  ASSUME NEW g, FrameOK(g)
  PROVE  \A o \in network_write_chunkqueue(g) :
           /\ Written(o.g, g) /\ o.r \in {"0", "1", "-1"}
           /\ o.g.r.write_queue = (o.r # "0" /\ g.r.write_queue)
<1> DEFINE q == [g EXCEPT !.r.write_queue = FALSE]
           limited(x) == joblist_append([x EXCEPT !.r.traffic_limit_reached = TRUE])
           written == {Outcome(q, "0"), Outcome(g, "1"), Outcome(g, "-1")}
<1>1. ASSUME NEW f, Written(f, g)
      PROVE  Written(limited(f), g) /\ limited(f).r.write_queue = f.r.write_queue
  <2> DEFINE x == [f.r EXCEPT !.traffic_limit_reached = TRUE]
             y == [f EXCEPT !.r = x]
  <2>1. f.r \in ConRec /\ FrameOK(f)
    BY <1>1 DEF Written, FrameOK, FrameType
  <2>2. /\ x \in ConRec /\ x.mode = f.r.mode /\ x.is_writable = f.r.is_writable
        /\ x.file_started = f.r.file_started /\ x.file_finished = f.r.file_finished
        /\ x.state = f.r.state /\ x.write_queue = f.r.write_queue
    BY <2>1 DEF ConRec
  <2>3. [f EXCEPT !.r.traffic_limit_reached = TRUE] = y
    BY <2>1 DEF FrameOK, FrameType
  <2> HIDE DEF x
  <2>4. FrameOK(y) /\ y.r = x /\ y.ev = f.ev /\ y.h = f.h /\ y.jobs = f.jobs
    BY <2>1, <2>2 DEF FrameOK, FrameType
  <2> HIDE DEF y
  <2> DEFINE z == joblist_append(y)
  <2>5. FrameOK(z) /\ z.r = y.r /\ z.ev = y.ev /\ z.h = y.h /\ z.jobs = y.jobs + 1
        /\ y.jobs \in Nat
    BY <2>4, JobFields
  <2>6. g.jobs \in Nat
    BY DEF FrameOK, FrameType
  <2> HIDE DEF z
  <2>7. Written(z, g) /\ z.r.write_queue = f.r.write_queue
    BY <1>1, <2>2, <2>4, <2>5, <2>6 DEF Written
  <2> QED
    BY <2>3, <2>7 DEF z
<1>2. Written(g, g) /\ g.r.write_queue \in BOOLEAN
  BY DEF Written, FrameOK, FrameType, ConRec
<1>3. Written(q, g) /\ q.r.write_queue = FALSE
  <2> DEFINE x == [g.r EXCEPT !.write_queue = FALSE]
             y == [g EXCEPT !.r = x]
  <2>1. g.r \in ConRec
    BY DEF FrameOK, FrameType
  <2>2. /\ x \in ConRec /\ x.mode = g.r.mode /\ x.is_writable = g.r.is_writable
        /\ x.file_started = g.r.file_started /\ x.file_finished = g.r.file_finished
        /\ x.state = g.r.state /\ x.write_queue = FALSE
    BY <2>1 DEF ConRec
  <2>3. q = y
    BY DEF FrameOK, FrameType
  <2> HIDE DEF x, q
  <2>4. FrameOK(y) /\ y.r = x /\ y.ev = g.ev /\ y.h = g.h /\ y.jobs = g.jobs /\ g.jobs \in Nat
    BY <2>1, <2>2 DEF FrameOK, FrameType
  <2> QED
    BY <2>2, <2>3, <2>4 DEF Written
<1> DEFINE right(o) == /\ Written(o.g, g) /\ o.r \in {"0", "1", "-1"}
                       /\ o.g.r.write_queue = (o.r # "0" /\ g.r.write_queue)
<1>4. \A o \in network_write_chunkqueue(g) :
        \/ o \in written \/ o = Outcome(limited(g), "1")
        \/ \E w \in written : o = Outcome(limited(w.g), w.r)
  BY DEF network_write_chunkqueue
<1> HIDE DEF limited, q
<1>5. \A o \in written : right(o)
  <2>1. ASSUME NEW o, o = Outcome(q, "0")
        PROVE  right(o)
    <3>1. o.g = q /\ o.r = "0"
      BY <2>1, OutcomeFields
    <3> QED
      BY <1>3, <3>1
  <2>2. ASSUME NEW o, NEW s \in {"1", "-1"}, o = Outcome(g, s)
        PROVE  right(o)
    <3>1. o.g = g /\ o.r = s
      BY <2>2, OutcomeFields
    <3> QED
      BY <1>2, <3>1
  <2> HIDE DEF right
  <2> QED
    BY <2>1, <2>2
<1> HIDE DEF written
<1>6. ASSUME NEW w \in written, NEW o, o = Outcome(limited(w.g), w.r)
      PROVE  right(o)
  <2>1. o.g = limited(w.g) /\ o.r = w.r
    BY <1>6, OutcomeFields
  <2>2. right(w)
    BY <1>5
  <2>3. Written(o.g, g) /\ o.g.r.write_queue = w.g.r.write_queue
    BY <1>1, <2>1, <2>2
  <2> QED
    BY <2>1, <2>2, <2>3
<1>7. ASSUME NEW o, o = Outcome(limited(g), "1")
      PROVE  right(o)
  <2>1. o.g = limited(g) /\ o.r = "1"
    BY <1>7, OutcomeFields
  <2>2. Written(o.g, g) /\ o.g.r.write_queue = g.r.write_queue
    BY <1>1, <1>2, <2>1
  <2> QED
    BY <1>2, <2>1, <2>2
<1> QED
  BY <1>4, <1>5, <1>6, <1>7

\* What an attempt to write leaves: a connection that has ended, or one that
\* waits for its client or for more to write.
Rests(f) ==
  \/ f.r.state \in {"RESPONSE_END", "ERROR"}
  \/ f.r.state = "WRITE" /\ (f.r.write_queue => ~f.r.is_writable)

\* connection_handle_write.
LEMMA HandleWriteLives ==
  ASSUME NEW g, FrameOK(g), Alive(g), g.r.state = "WRITE", g.r.write_queue, g.r.is_writable
  PROVE  \A f \in connection_handle_write(g) :
           FrameOK(f) /\ Alive(f) /\ f.jobs >= g.jobs /\ Rests(f)
<1> DEFINE after(o) == CASE o.r = "0"  -> IF o.g.r.file_finished
                              THEN joblist_append(connection_set_state(o.g, "RESPONSE_END"))
                              ELSE o.g
                         [] o.r = "-1" -> joblist_append(connection_set_state(o.g, "ERROR"))
                         [] OTHER      -> [o.g EXCEPT !.r.is_writable = FALSE]
<1>1. connection_handle_write(g) = {after(o) : o \in network_write_chunkqueue(g)}
  BY DEF connection_handle_write
<1>2. ASSUME NEW o \in network_write_chunkqueue(g)
      PROVE  LET f == after(o) IN FrameOK(f) /\ Alive(f) /\ f.jobs >= g.jobs /\ Rests(f)
  <2>1. /\ Written(o.g, g) /\ o.r \in {"0", "1", "-1"}
        /\ o.g.r.write_queue = (o.r # "0" /\ g.r.write_queue)
    BY QueueWritten
  <2>2. FrameOK(o.g) /\ o.g.r \in ConRec /\ o.g.jobs \in Nat /\ g.jobs \in Nat
    BY <2>1 DEF Written, FrameOK, FrameType
  <2>3. CASE o.r = "-1" \/ (o.r = "0" /\ o.g.r.file_finished)
    <3> DEFINE s == IF o.r = "0" THEN "RESPONSE_END" ELSE "ERROR"
               y == connection_set_state(o.g, s)
               f == joblist_append(y)
    <3>1. s \in ConStates /\ after(o) = f /\ s \in {"RESPONSE_END", "ERROR"}
      BY <2>3 DEF ConStates
    <3>2. s = "RESPONSE_END" => o.g.r.file_finished
      BY <2>3
    <3> HIDE DEF s
    <3>3. /\ FrameOK(y) /\ y.ev = o.g.ev /\ y.h = o.g.h /\ y.jobs = o.g.jobs
          /\ y.r.state = s /\ y.r.mode = o.g.r.mode /\ y.r.is_writable = o.g.r.is_writable
          /\ y.r.file_started = o.g.r.file_started /\ y.r.file_finished = o.g.r.file_finished
      BY <2>2, <3>1, StateFields
    <3> HIDE DEF y
    <3>4. FrameOK(f) /\ f.ev = y.ev /\ f.h = y.h /\ f.r = y.r /\ f.jobs = y.jobs + 1
      BY <3>3, JobFields
    <3> HIDE DEF f
    <3>5. FrameOK(f) /\ f.jobs >= g.jobs
      BY <2>1, <2>2, <3>3, <3>4 DEF Written
    <3>6. /\ f.ev = g.ev /\ f.h = g.h /\ f.r.state = s /\ f.r.mode = g.r.mode
          /\ f.r.is_writable = g.r.is_writable /\ f.r.file_started = g.r.file_started
          /\ f.r.file_finished = g.r.file_finished
      BY <2>1, <3>3, <3>4 DEF Written
    <3>7. s = "RESPONSE_END" => f.r.file_finished
      BY <2>1, <3>2, <3>6 DEF Written
    <3> HIDE DEF after
    <3>8. Alive(f) /\ Rests(f)
      BY <3>1, <3>6, <3>7 DEF Alive, Live, Rests
    <3> QED
      BY <3>1, <3>5, <3>8
  <2>4. CASE o.r = "0" /\ ~o.g.r.file_finished
    <3>1. after(o) = o.g
      BY <2>4
    <3> QED
      BY <2>1, <2>2, <2>4, <3>1 DEF Written, Alive, Live, Rests
  <2>5. CASE o.r = "1"
    <3> DEFINE x == [o.g.r EXCEPT !.is_writable = FALSE]
               f == [o.g EXCEPT !.r = x]
    <3>1. after(o) = f
      BY <2>2, <2>5 DEF FrameOK, FrameType
    <3>2. /\ x \in ConRec /\ x.state = o.g.r.state /\ x.mode = o.g.r.mode /\ ~x.is_writable
          /\ x.file_started = o.g.r.file_started /\ x.file_finished = o.g.r.file_finished
          /\ x.write_queue = o.g.r.write_queue
      BY <2>2 DEF ConRec
    <3> HIDE DEF x
    <3>3. FrameOK(f) /\ f.r = x /\ f.ev = o.g.ev /\ f.h = o.g.h /\ f.jobs = o.g.jobs
      BY <2>2, <3>2 DEF FrameOK, FrameType
    <3> HIDE DEF f, after
    <3>4. FrameOK(f) /\ Alive(f) /\ f.jobs >= g.jobs /\ Rests(f)
      BY <2>1, <2>2, <2>5, <3>2, <3>3 DEF Written, Alive, Live, Rests
    <3> QED
      BY <3>1, <3>4
  <2> QED
    BY <2>1, <2>3, <2>4, <2>5
<1> HIDE DEF after
<1> QED
  BY <1>1, <1>2

\* case CON_STATE_WRITE, and the same lines of connection_handle_fdevent.
LEMMA TryWriteLives ==
  ASSUME NEW g, FrameOK(g), Alive(g)
  PROVE  \A f \in TryWrite(g) :
           /\ FrameOK(f) /\ Alive(f) /\ f.jobs >= g.jobs
           /\ \/ f = g /\ (g.r.state = "WRITE" => Rests(g))
              \/ g.r.state = "WRITE" /\ Rests(f) /\ (f.r.state = "WRITE" => f.r.write_idle = 0)
<1>1. CASE ~(g.r.state = "WRITE" /\ g.r.write_queue /\ g.r.is_writable)
  <2>1. TryWrite(g) = {g} /\ g.jobs \in Nat
    BY <1>1 DEF TryWrite, FrameOK, FrameType
  <2> QED
    BY <1>1, <2>1 DEF Rests
<1>2. CASE g.r.state = "WRITE" /\ g.r.write_queue /\ g.r.is_writable
  <2> DEFINE after(x) == IF x.r.state = "WRITE" THEN [x EXCEPT !.r.write_idle = 0] ELSE x
  <2>1. TryWrite(g) = {after(x) : x \in connection_handle_write(g)}
    BY <1>2 DEF TryWrite
  <2>2. ASSUME NEW x \in connection_handle_write(g)
        PROVE  LET f == after(x)
               IN /\ FrameOK(f) /\ Alive(f) /\ f.jobs >= g.jobs /\ Rests(f)
                  /\ f.r.state = "WRITE" => f.r.write_idle = 0
    <3>1. FrameOK(x) /\ Alive(x) /\ x.jobs >= g.jobs /\ Rests(x)
      BY <1>2, HandleWriteLives
    <3>2. CASE x.r.state # "WRITE"
      BY <3>1, <3>2
    <3>3. CASE x.r.state = "WRITE"
      <4> DEFINE y == [x.r EXCEPT !.write_idle = 0]
                 f == [x EXCEPT !.r = y]
      <4>1. x.r \in ConRec
        BY <3>1 DEF FrameOK, FrameType
      <4>2. /\ y \in ConRec /\ y.state = x.r.state /\ y.mode = x.r.mode
            /\ y.is_writable = x.r.is_writable /\ y.write_idle = 0
            /\ y.file_started = x.r.file_started /\ y.file_finished = x.r.file_finished
            /\ y.write_queue = x.r.write_queue
        BY <4>1, RangeFacts DEF ConRec
      <4>3. after(x) = f
        BY <3>1, <3>3 DEF FrameOK, FrameType
      <4> HIDE DEF y
      <4>4. FrameOK(f) /\ f.r = y /\ f.ev = x.ev /\ f.h = x.h /\ f.jobs = x.jobs
        BY <3>1, <4>2 DEF FrameOK, FrameType
      <4> HIDE DEF f, after
      <4>5. FrameOK(f) /\ Alive(f) /\ f.jobs >= g.jobs /\ Rests(f) /\ f.r.write_idle = 0
        BY <3>1, <3>3, <4>2, <4>4 DEF Alive, Live, Rests
      <4> QED
        BY <4>3, <4>5
    <3> QED
      BY <3>2, <3>3
  <2> HIDE DEF after
  <2> QED
    BY <1>2, <2>1, <2>2
<1> QED
  BY <1>1, <1>2

-----------------------------------------------------------------------------
\* Events.

\* The timestamps of connection x are new or those it had as r.
Ages(x, r) ==
  /\ x.state \in {"READ", "READ_POST", "REQUEST_END"} =>
       \/ x.read_idle = 0
       \/ /\ r.state \in {"READ", "READ_POST", "REQUEST_END"}
          /\ x.read_idle = r.read_idle /\ x.request_count = r.request_count
  /\ x.state = "WRITE" =>
       x.write_idle = 0 \/ (r.state = "WRITE" /\ x.write_idle = r.write_idle)

\* What an event leaves of frame g: a connection that lives.
Lives(f, g) ==
  FrameOK(f) /\ Alive(f) /\ f.jobs >= g.jobs /\ Ages(f.r, g.r)

\* One event may have several parts.
LEMMA LivesTransitive ==
  ASSUME NEW f, NEW g, NEW x, Lives(f, x), Lives(x, g), FrameOK(g)
  PROVE  Lives(f, g)
<1>1. f.jobs \in Nat /\ x.jobs \in Nat /\ g.jobs \in Nat
  BY DEF Lives, FrameOK, FrameType
<1> QED
  BY <1>1 DEF Lives, Ages

\* A frame with another record for the connection.
LEMMA RecordLives ==
  ASSUME NEW g, FrameOK(g), NEW x \in ConRec, Live(g.ev, x, g.h), Ages(x, g.r)
  PROVE  LET f == [g EXCEPT !.r = x]
         IN Lives(f, g) /\ f.r = x /\ f.ev = g.ev /\ f.h = g.h /\ f.jobs = g.jobs
<1> DEFINE f == [g EXCEPT !.r = x]
<1>1. FrameOK(f) /\ f.r = x /\ f.ev = g.ev /\ f.h = g.h /\ f.jobs = g.jobs /\ g.jobs \in Nat
  BY DEF FrameOK, FrameType
<1> HIDE DEF f
<1> QED
  BY <1>1 DEF Lives, Alive, f

\* The reports of an event are noted, and the state machine is called for.
LEMMA NoteLives ==
  ASSUME NEW g, FrameOK(g), Alive(g), NEW revents
  PROVE  LET f == NoteEvents(g, revents) IN Lives(f, g) /\ f.jobs > g.jobs
<1> DEFINE j == joblist_append(g)
           x == [j.r EXCEPT !.is_readable = @ \/ "IN" \in revents,
                            !.is_writable = @ \/ "OUT" \in revents]
           y == [x EXCEPT !.state = "ERROR"]
           seen == NoteEvents(g, revents)
<1>1. FrameOK(j) /\ j.r = g.r /\ j.ev = g.ev /\ j.h = g.h /\ j.jobs > g.jobs /\ j.r \in ConRec
  BY JobFields DEF FrameOK, FrameType
<1> HIDE DEF j
<1>2. seen = [j EXCEPT !.r = x] \/ seen = [j EXCEPT !.r = y]
  BY <1>1 DEF NoteEvents, NoteError, connection_set_state, FrameOK, FrameType, j
<1>3. /\ x.state = j.r.state /\ x.mode = j.r.mode /\ x.write_queue = j.r.write_queue
      /\ j.r.is_writable => x.is_writable
      /\ x.file_started = j.r.file_started /\ x.file_finished = j.r.file_finished
      /\ x.read_idle = j.r.read_idle /\ x.write_idle = j.r.write_idle
      /\ x.request_count = j.r.request_count
  BY <1>1 DEF ConRec
<1>4. x \in ConRec
  BY <1>1, ZenonT(60) DEF ConRec
<1> HIDE DEF x
<1>5. /\ y \in ConRec /\ y.state = "ERROR" /\ y.mode = x.mode /\ y.is_writable = x.is_writable
      /\ y.file_started = x.file_started /\ y.file_finished = x.file_finished
  BY <1>4 DEF ConRec, ConStates
<1> HIDE DEF y
<1>6. Live(j.ev, x, j.h) /\ Ages(x, j.r) /\ Live(j.ev, y, j.h) /\ Ages(y, j.r)
  BY <1>1, <1>3, <1>5 DEF Alive, Live, Ages
<1>7. Lives(seen, j) /\ seen.jobs = j.jobs
  <2> DEFINE p == [j EXCEPT !.r = x]
             q == [j EXCEPT !.r = y]
  <2>1. Lives(p, j) /\ p.jobs = j.jobs
    BY <1>1, <1>4, <1>6, RecordLives
  <2>2. Lives(q, j) /\ q.jobs = j.jobs
    BY <1>1, <1>5, <1>6, RecordLives
  <2> QED
    BY <1>2, <2>1, <2>2
<1>8. Lives(j, g)
  BY <1>1 DEF Lives, Alive, Ages, FrameOK, FrameType
<1> HIDE DEF seen
<1>9. Lives(seen, g) /\ seen.jobs > g.jobs
  BY <1>1, <1>7, <1>8, LivesTransitive
<1> QED
  BY <1>9 DEF seen

\* connection_handle_fdevent (connections.c:1153): the connection lives, and
\* the state machine will look at it.
LEMMA ConnectionEventLives ==
  ASSUME NEW g, FrameOK(g), Alive(g), RequestOK(g.r, g.h), g.r.state # "CONNECT", NEW revents
  PROVE  \A f \in connection_handle_fdevent(g, revents) : Lives(f, g) /\ f.jobs > g.jobs
<1> DEFINE seen == NoteEvents(g, revents)
           read == IF seen.r.state \in {"READ", "READ_POST"}
                   THEN {[seen EXCEPT !.r = x] : x \in connection_handle_read_state(seen.r)}
                   ELSE {seen}
<1>1. Lives(seen, g) /\ seen.jobs > g.jobs
  BY NoteLives
<1>2. connection_handle_fdevent(g, revents)
        = UNION {FlushClosing(y) : y \in UNION {TryWrite(x) : x \in read}}
  BY DEF connection_handle_fdevent
<1>3. seen.r.state \in {"READ", "READ_POST"} => RequestOK(seen.r, seen.h)
  <2> DEFINE j == joblist_append(g)
             x == [j.r EXCEPT !.is_readable = @ \/ "IN" \in revents,
                              !.is_writable = @ \/ "OUT" \in revents]
  <2>1. FrameOK(j) /\ j.r = g.r /\ j.h = g.h /\ j.r \in ConRec
    BY JobFields DEF FrameOK, FrameType
  <2> HIDE DEF j
  <2>2. \/ seen = [j EXCEPT !.r = x]
        \/ seen = [j EXCEPT !.r = [x EXCEPT !.state = "ERROR"]]
    BY <2>1 DEF NoteEvents, NoteError, connection_set_state, FrameOK, FrameType, j
  <2>3. /\ x.state = j.r.state /\ SameRequest(x, j.r) /\ [x EXCEPT !.state = "ERROR"].state = "ERROR"
    BY <2>1 DEF ConRec, SameRequest
  <2> HIDE DEF x, seen
  <2>4. seen.r.state \in {"READ", "READ_POST"} =>
          /\ seen.r = x /\ seen.h = g.h /\ x.state = g.r.state /\ SameRequest(x, g.r)
    BY <2>1, <2>2, <2>3 DEF FrameOK, FrameType
  <2> QED
    BY <2>4, RequestStays
<1> HIDE DEF seen
<1>4. ASSUME NEW x \in read
      PROVE  Lives(x, g) /\ x.jobs > g.jobs
  <2>1. CASE x = seen
    BY <1>1, <2>1
  <2>2. CASE seen.r.state \in {"READ", "READ_POST"}
    <3>1. PICK y \in connection_handle_read_state(seen.r) : x = [seen EXCEPT !.r = y]
      BY <1>4, <2>2
    <3>2. FrameOK(seen) /\ Alive(seen)
      BY <1>1 DEF Lives
    <3>3. Reads(y, seen.r) /\ Live(seen.ev, y, seen.h)
      BY <1>3, <2>2, <3>2, ReadLives
    <3>4. y \in ConRec /\ Ages(y, seen.r)
      BY <2>2, <3>3 DEF Reads, Reading, Ages
    <3>5. Lives(x, seen) /\ x.jobs = seen.jobs
      BY <3>1, <3>2, <3>3, <3>4, RecordLives
    <3> QED
      BY <1>1, <3>5, LivesTransitive
  <2> QED
    BY <1>4, <2>1, <2>2
<1> HIDE DEF read
<1>5. ASSUME NEW x \in read, NEW y \in TryWrite(x)
      PROVE  Lives(y, g) /\ y.jobs > g.jobs
  <2>1. Lives(x, g) /\ x.jobs > g.jobs
    BY <1>4
  <2>2. /\ FrameOK(y) /\ Alive(y) /\ y.jobs >= x.jobs
        /\ y = x \/ (x.r.state = "WRITE" /\ Rests(y) /\ (y.r.state = "WRITE" => y.r.write_idle = 0))
    BY <2>1, TryWriteLives DEF Lives
  <2>3. Lives(y, x)
    BY <2>1, <2>2 DEF Lives, Ages, Rests
  <2>4. y.jobs \in Nat /\ x.jobs \in Nat /\ g.jobs \in Nat
    BY <2>1, <2>2 DEF Lives, FrameOK, FrameType
  <2> QED
    BY <2>1, <2>2, <2>3, <2>4, LivesTransitive
<1>6. ASSUME NEW y, Lives(y, g), y.jobs > g.jobs, NEW z \in FlushClosing(y)
      PROVE  Lives(z, g) /\ z.jobs > g.jobs
  <2> DEFINE x == [y.r EXCEPT !.close_idle = CloseCap]
  <2>1. y.r \in ConRec /\ FrameOK(y) /\ Alive(y)
    BY <1>6 DEF Lives, FrameOK, FrameType
  <2>2. /\ x \in ConRec /\ x.state = y.r.state /\ x.mode = y.r.mode
        /\ x.write_queue = y.r.write_queue /\ x.is_writable = y.r.is_writable
        /\ x.file_started = y.r.file_started /\ x.file_finished = y.r.file_finished
        /\ x.read_idle = y.r.read_idle /\ x.write_idle = y.r.write_idle
        /\ x.request_count = y.r.request_count
    BY <2>1, RangeFacts DEF ConRec
  <2>3. z = y \/ z = [y EXCEPT !.r = x]
    BY <1>6, <2>1 DEF FlushClosing, FrameOK, FrameType
  <2> HIDE DEF x
  <2>4. Live(y.ev, x, y.h) /\ Ages(x, y.r)
    BY <2>1, <2>2 DEF Alive, Live, Ages
  <2>5. Lives([y EXCEPT !.r = x], y) /\ [y EXCEPT !.r = x].jobs = y.jobs
    BY <2>1, <2>2, <2>4, RecordLives
  <2> QED
    BY <1>6, <2>3, <2>5, LivesTransitive
<1>7. ASSUME NEW f \in connection_handle_fdevent(g, revents)
      PROVE  Lives(f, g) /\ f.jobs > g.jobs
  <2>1. PICK x \in read : \E y \in TryWrite(x) : f \in FlushClosing(y)
    BY <1>2, <1>7
  <2> QED
    BY <1>5, <1>6, <2>1
<1> QED
  BY <1>7

\* Connection x is r but for what its response has come to.
Like(x, r) ==
  /\ x \in ConRec /\ x.state = r.state /\ x.mode = r.mode /\ x.is_writable = r.is_writable
  /\ x.read_idle = r.read_idle /\ x.write_idle = r.write_idle
  /\ x.request_count = r.request_count

\* Frame f has nothing that would wake the connection of g up less than before.
Untroubled(f, g) ==
  /\ f.ev = g.ev /\ f.h = g.h /\ f.r.fd = g.r.fd /\ f.r.state = g.r.state
  /\ f.r.write_queue = g.r.write_queue /\ f.r.file_finished = g.r.file_finished
  /\ f.r.traffic_limit_reached = g.r.traffic_limit_reached

\* The parts of a response.
LEMMA PartFields ==
  ASSUME NEW g, FrameOK(g)
  PROVE  /\ LET f == FcgiHeader(g)
            IN /\ FrameOK(f) /\ Like(f.r, g.r) /\ Untroubled(f, g) /\ f.jobs = g.jobs
               /\ f.r.file_started
         /\ LET f == FcgiContent(g)
            IN /\ FrameOK(f) /\ Like(f.r, g.r) /\ f.ev = g.ev /\ f.h = g.h /\ f.jobs > g.jobs
               /\ f.r.file_started /\ f.r.write_queue
               /\ f.r.file_finished = g.r.file_finished
         /\ LET f == FcgiEndRequest(g)
            IN /\ FrameOK(f) /\ Like(f.r, g.r) /\ f.ev = g.ev /\ f.h = g.h /\ f.jobs > g.jobs
               /\ f.r.file_started = g.r.file_started /\ f.r.write_queue /\ f.r.file_finished
<1>1. g.r \in ConRec /\ g.jobs \in Nat
  BY DEF FrameOK, FrameType
<1>2. ASSUME NEW x \in ConRec
      PROVE  LET f == [g EXCEPT !.r = x]
             IN FrameOK(f) /\ f.r = x /\ f.ev = g.ev /\ f.h = g.h /\ f.jobs = g.jobs
  BY DEF FrameOK, FrameType
<1> DEFINE a == [g.r EXCEPT !.file_started = TRUE]
           b == [g.r EXCEPT !.file_started = TRUE, !.write_queue = TRUE]
           d == [g.r EXCEPT !.file_finished = TRUE, !.write_queue = TRUE]
<1>3. /\ FcgiHeader(g) = [g EXCEPT !.r = a]
      /\ FcgiContent(g) = joblist_append([g EXCEPT !.r = b])
      /\ FcgiEndRequest(g) = joblist_append([g EXCEPT !.r = d])
  BY <1>1 DEF FcgiHeader, FcgiContent, FcgiEndRequest, FrameOK, FrameType
<1>4. /\ Like(a, g.r) /\ a.fd = g.r.fd /\ a.write_queue = g.r.write_queue
      /\ a.file_finished = g.r.file_finished
      /\ a.traffic_limit_reached = g.r.traffic_limit_reached /\ a.file_started
  BY <1>1 DEF Like, ConRec
<1>5. b \in ConRec /\ d \in ConRec
  BY <1>1, ZenonT(60) DEF ConRec
<1>6. /\ Like(b, g.r) /\ b.file_started /\ b.write_queue /\ b.file_finished = g.r.file_finished
      /\ Like(d, g.r) /\ d.file_started = g.r.file_started /\ d.write_queue /\ d.file_finished
  BY <1>1, <1>5 DEF Like, ConRec
<1> HIDE DEF a, b, d
<1>7. CASE TRUE
  <2> DEFINE p == [g EXCEPT !.r = a]
             q == [g EXCEPT !.r = b]
             s == [g EXCEPT !.r = d]
  <2>1. FrameOK(p) /\ p.r = a /\ p.ev = g.ev /\ p.h = g.h /\ p.jobs = g.jobs
    BY <1>2, <1>4 DEF Like
  <2>2. FrameOK(q) /\ q.r = b /\ q.ev = g.ev /\ q.h = g.h /\ q.jobs = g.jobs
    BY <1>2, <1>5
  <2>3. FrameOK(s) /\ s.r = d /\ s.ev = g.ev /\ s.h = g.h /\ s.jobs = g.jobs
    BY <1>2, <1>5
  <2> HIDE DEF p, q, s
  <2> DEFINE t == joblist_append(q)
             u == joblist_append(s)
  <2>4. FrameOK(t) /\ t.r = q.r /\ t.ev = q.ev /\ t.h = q.h /\ t.jobs = q.jobs + 1
    BY <2>2, JobFields
  <2>5. FrameOK(u) /\ u.r = s.r /\ u.ev = s.ev /\ u.h = s.h /\ u.jobs = s.jobs + 1
    BY <2>3, JobFields
  <2>6. FcgiHeader(g) = p /\ FcgiContent(g) = t /\ FcgiEndRequest(g) = u
    BY <1>3 DEF p, q, s
  <2> HIDE DEF t, u
  <2>7. FrameOK(p) /\ Like(p.r, g.r) /\ Untroubled(p, g) /\ p.jobs = g.jobs /\ p.r.file_started
    BY <1>4, <2>1 DEF Untroubled, Like
  <2>8. /\ FrameOK(t) /\ Like(t.r, g.r) /\ t.ev = g.ev /\ t.h = g.h /\ t.jobs > g.jobs
        /\ t.r.file_started /\ t.r.write_queue /\ t.r.file_finished = g.r.file_finished
    BY <1>1, <1>6, <2>2, <2>4
  <2>9. /\ FrameOK(u) /\ Like(u.r, g.r) /\ u.ev = g.ev /\ u.h = g.h /\ u.jobs > g.jobs
        /\ u.r.file_started = g.r.file_started /\ u.r.write_queue /\ u.r.file_finished
    BY <1>1, <1>6, <2>3, <2>5
  <2> QED
    BY <2>6, <2>7, <2>8, <2>9
<1> QED
  BY <1>7

\* The connection is given up, or its request given back.
LEMMA GivenBack ==
  ASSUME NEW g, FrameOK(g), g.h.state = "NULL" => g.h = NoCtx
  PROVE  /\ LET f == joblist_append(fcgi_connection_close(g))
            IN FrameOK(f) /\ f.r = g.r /\ f.h = NoCtx /\ f.jobs > g.jobs
         /\ LET f == joblist_append(connection_set_state(fcgi_connection_close(g), "ERROR"))
            IN FrameOK(f) /\ f.r.state = "ERROR" /\ f.h = NoCtx /\ f.jobs > g.jobs
         /\ LET f == joblist_append(fcgi_connection_close(connection_set_state(g, "ERROR")))
            IN FrameOK(f) /\ f.r.state = "ERROR" /\ f.h = NoCtx /\ f.jobs > g.jobs
         /\ LET f == joblist_append(connection_set_state(FcgiGiveUp(g), "HANDLE_REQUEST"))
            IN /\ FrameOK(f) /\ f.r.state = "HANDLE_REQUEST" /\ f.h = NoCtx /\ f.jobs > g.jobs
               /\ f.r.mode = "DIRECT" /\ f.r.is_writable = g.r.is_writable
<1>1. g.r \in ConRec /\ g.jobs \in Nat /\ {"ERROR", "HANDLE_REQUEST"} \subseteq ConStates
  BY DEF FrameOK, FrameType, ConStates
<1> DEFINE a == fcgi_connection_close(g)
           b == connection_set_state(a, "ERROR")
           d == connection_set_state(g, "ERROR")
           p == fcgi_connection_close(d)
           q == FcgiGiveUp(g)
           s == connection_set_state(q, "HANDLE_REQUEST")
<1>2. FrameOK(a) /\ a.r = g.r /\ a.jobs = g.jobs /\ a.h = NoCtx
  BY CloseCtxFields
<1> HIDE DEF a
<1>3. FrameOK(b) /\ b.r.state = "ERROR" /\ b.jobs = a.jobs /\ b.h = a.h
  BY <1>1, <1>2, StateFields
<1>4. FrameOK(d) /\ d.r.state = "ERROR" /\ d.jobs = g.jobs /\ d.h = g.h
  BY <1>1, StateFields
<1> HIDE DEF d
<1>5. FrameOK(p) /\ p.r = d.r /\ p.jobs = d.jobs /\ p.h = NoCtx
  BY <1>4, CloseCtxFields
<1>6. FrameOK(q) /\ q.r = GivenUp(g.r) /\ q.jobs = g.jobs /\ q.h = NoCtx
  BY GiveUpFields
<1> HIDE DEF q
<1>7. FrameOK(s) /\ s.r.state = "HANDLE_REQUEST" /\ s.jobs = q.jobs /\ s.h = q.h
      /\ s.r.mode = q.r.mode /\ s.r.is_writable = q.r.is_writable
  BY <1>1, <1>6, StateFields
<1>8. GivenUp(g.r).mode = "DIRECT" /\ GivenUp(g.r).is_writable = g.r.is_writable
  BY <1>1, GivenUpFields
<1> HIDE DEF b, p, s
<1>9. ASSUME NEW f, FrameOK(f), f.jobs = g.jobs
      PROVE  LET x == joblist_append(f)
             IN FrameOK(x) /\ x.r = f.r /\ x.h = f.h /\ x.jobs > g.jobs
  BY <1>1, <1>9, JobFields
<1>10. /\ LET f == joblist_append(a)
          IN FrameOK(f) /\ f.r = g.r /\ f.h = NoCtx /\ f.jobs > g.jobs
       /\ LET f == joblist_append(b)
          IN FrameOK(f) /\ f.r.state = "ERROR" /\ f.h = NoCtx /\ f.jobs > g.jobs
       /\ LET f == joblist_append(p)
          IN FrameOK(f) /\ f.r.state = "ERROR" /\ f.h = NoCtx /\ f.jobs > g.jobs
       /\ LET f == joblist_append(s)
          IN /\ FrameOK(f) /\ f.r.state = "HANDLE_REQUEST" /\ f.h = NoCtx /\ f.jobs > g.jobs
             /\ f.r.mode = "DIRECT" /\ f.r.is_writable = g.r.is_writable
  BY <1>2, <1>3, <1>4, <1>5, <1>6, <1>7, <1>8, <1>9
<1> QED
  BY <1>10 DEF a, b, d, p, q, s

\* Connection c is woken up after frame f if it was in g: the state machine is
\* called for, a backend is waited for, or nothing that matters has changed.
Woken(f, g) ==
  \/ f.jobs > g.jobs
  \/ f.r.state = "HANDLE_REQUEST" /\ Waiting(f)
  \/ g.r.state = "ERROR"
  \/ Untroubled(f, g)

\* fcgi_demux_response: the backend goes on, or the response is complete, or
\* the request is rid of its context.
LEMMA DemuxLives ==
  ASSUME NEW g, FrameOK(g), Alive(g), g.h.state = "READ", g.r.mode = "FASTCGI"
  PROVE  \A f \in fcgi_demux_response(g) :
           Lives(f, g) /\ Woken(f, g) /\ f.h.state \in {"READ", "NULL"}
<1>1. g.r \in ConRec /\ g.jobs \in Nat /\ NoCtx.state = "NULL"
  BY NoCtxOK DEF FrameOK, FrameType
<1>2. Lives(g, g) /\ Woken(g, g)
  BY <1>1 DEF Lives, Ages, Woken, Untroubled
<1>3. ASSUME NEW f, FrameOK(f), Like(f.r, g.r), f.ev = g.ev, f.h = g.h, f.jobs >= g.jobs,
             f.r.file_started, f.r.file_finished = g.r.file_finished,
             f.r.write_queue \/ f.r.write_queue = g.r.write_queue
      PROVE  Lives(f, g) /\ f.h.state = "READ"
  BY <1>3 DEF Lives, Alive, Live, Like, Ages
<1>4. ASSUME NEW x \in {g, FcgiHeader(g), FcgiContent(g)}
      PROVE  LET f == joblist_append(fcgi_connection_close(FcgiEndRequest(x)))
             IN Lives(f, g) /\ f.jobs > g.jobs /\ f.h = NoCtx
  <2> DEFINE y == FcgiEndRequest(x)
             f == joblist_append(fcgi_connection_close(y))
  <2>1. FrameOK(x) /\ Like(x.r, g.r) /\ x.h = g.h /\ x.jobs >= g.jobs /\ x.jobs \in Nat
    <3>1. Like(g.r, g.r) /\ g.jobs >= g.jobs
      BY <1>1 DEF Like
    <3>2. FrameOK(x) /\ Like(x.r, g.r) /\ x.h = g.h /\ (x.jobs = g.jobs \/ x.jobs > g.jobs)
      BY <3>1, PartFields DEF Untroubled
    <3> QED
      BY <1>1, <3>2 DEF FrameOK, FrameType
  <2>2. /\ FrameOK(y) /\ Like(y.r, x.r) /\ y.h = x.h /\ y.jobs > x.jobs
        /\ y.r.write_queue /\ y.r.file_finished
    BY <2>1, PartFields
  <2> HIDE DEF y
  <2>3. FrameOK(f) /\ f.r = y.r /\ f.h = NoCtx /\ f.jobs > y.jobs
    BY <2>1, <2>2, GivenBack
  <2> HIDE DEF f
  <2>4. f.jobs \in Nat /\ y.jobs \in Nat
    BY <2>2, <2>3 DEF FrameOK, FrameType
  <2>5. Lives(f, g)
    BY <1>1, <2>1, <2>2, <2>3, <2>4 DEF Lives, Alive, Live, Like, Ages
  <2>6. f.jobs > g.jobs
    BY <1>1, <2>1, <2>2, <2>3, <2>4
  <2> QED
    BY <2>3, <2>5, <2>6 DEF f, y
<1>5. LET f == FcgiReadError(g) IN Lives(f, g) /\ f.jobs > g.jobs /\ f.h = NoCtx
  <2> DEFINE f == FcgiReadError(g)
  <2>1. \/ f = joblist_append(connection_set_state(fcgi_connection_close(g), "ERROR"))
        \/ /\ f = joblist_append(connection_set_state(FcgiGiveUp(g), "HANDLE_REQUEST"))
           /\ ~g.r.file_started
    BY DEF FcgiReadError
  <2>2. /\ FrameOK(f) /\ f.h = NoCtx /\ f.jobs > g.jobs
        /\ \/ f.r.state = "ERROR"
           \/ /\ f.r.state = "HANDLE_REQUEST" /\ f.r.mode = "DIRECT"
              /\ f.r.is_writable = g.r.is_writable /\ ~g.r.file_started
    BY <2>1, GivenBack
  <2> HIDE DEF f
  <2>3. f.jobs \in Nat
    BY <2>2 DEF FrameOK, FrameType
  <2>4. Lives(f, g)
    BY <1>1, <2>2, <2>3 DEF Lives, Alive, Live, Ages
  <2> QED
    BY <2>2, <2>4 DEF f
<1>6. LET f == FcgiHeader(g) IN Lives(f, g) /\ Woken(f, g) /\ f.h.state = "READ"
  <2> DEFINE f == FcgiHeader(g)
  <2>1. FrameOK(f) /\ Like(f.r, g.r) /\ Untroubled(f, g) /\ f.jobs = g.jobs /\ f.r.file_started
    BY PartFields
  <2> HIDE DEF f
  <2>2. Lives(f, g) /\ f.h.state = "READ"
    BY <1>1, <1>3, <2>1 DEF Untroubled
  <2> QED
    BY <2>1, <2>2 DEF Woken, f
<1>7. LET f == FcgiContent(g) IN Lives(f, g) /\ f.jobs > g.jobs /\ f.h.state = "READ"
  <2> DEFINE f == FcgiContent(g)
  <2>1. /\ FrameOK(f) /\ Like(f.r, g.r) /\ f.ev = g.ev /\ f.h = g.h /\ f.jobs > g.jobs
        /\ f.r.file_started /\ f.r.write_queue /\ f.r.file_finished = g.r.file_finished
    BY PartFields
  <2> HIDE DEF f
  <2>2. f.jobs >= g.jobs
    BY <1>1, <2>1 DEF FrameOK, FrameType
  <2>3. Lives(f, g) /\ f.h.state = "READ"
    BY <1>3, <2>1, <2>2
  <2> QED
    BY <2>1, <2>3 DEF f
<1>8. \A f \in fcgi_demux_response(g) :
        \/ f \in {g, FcgiHeader(g), FcgiContent(g), FcgiReadError(g)}
        \/ \E x \in {g, FcgiHeader(g), FcgiContent(g)} :
             f = joblist_append(fcgi_connection_close(FcgiEndRequest(x)))
  BY DEF fcgi_demux_response
<1> QED
  BY <1>1, <1>2, <1>4, <1>5, <1>6, <1>7, <1>8 DEF Woken

\* A request on its way to the backend is sent on.
LEMMA SentLives ==
  ASSUME NEW g, FrameOK(g), Alive(g), RequestOK(g.r, g.h), NEW c \in Conn,
         g.h.state \in {"CONNECT_DELAYED", "WRITE"}
  PROVE  \A o \in mod_fastcgi_handle_subrequest(c, g) :
           Lives(o.g, g) /\ (Faults = {} => Woken(o.g, g))
<1>1. g.r \in ConRec /\ g.jobs \in Nat /\ g.h.host /\ ~g.r.file_started /\ g.r.is_writable
  BY DEF FrameOK, FrameType, Alive, Live
<1>2. g.r.state \in {"HANDLE_REQUEST", "ERROR"}
  <2>1. g.h # NoCtx /\ g.r.state \in ConStates
    BY <1>1, NoCtxOK DEF ConRec
  <2> QED
    BY <1>1, <2>1 DEF Alive, Live, RequestOK, Idle, ConStates
<1>3. ASSUME NEW o \in mod_fastcgi_handle_subrequest(c, g)
      PROVE  Lives(o.g, g) /\ (Faults = {} => Woken(o.g, g))
  <2>1. FrameOK(o.g) /\ o.g.jobs >= g.jobs
    BY SubrequestOK, SubrequestGoesOn DEF AllKeep, Keeps
  <2>2. GoesOn(o, g) \/ Ends(o, g)
    BY SubrequestGoesOn
  <2>3. CASE GoesOn(o, g)
    <3>1. Lives(o.g, g)
      BY <1>1, <1>2, <2>1, <2>3 DEF GoesOn, Waiting, Lives, Alive, Live, Ages
    <3>2. Faults = {} => Woken(o.g, g)
      BY <1>1, <1>2, <2>3 DEF GoesOn, Woken
    <3> QED
      BY <3>1, <3>2
  <2>4. CASE Ends(o, g)
    <3>1. /\ GivenUp(g.r).mode = "DIRECT" /\ GivenUp(g.r).is_writable = g.r.is_writable
          /\ GivenUp(g.r).state = g.r.state /\ NoCtx.state = "NULL"
      BY <1>1, GivenUpFields, NoCtxOK
    <3>2. Lives(o.g, g)
      BY <1>1, <1>2, <2>1, <2>4, <3>1 DEF Ends, Lives, Alive, Live, Ages
    <3> QED
      BY <1>1, <2>4, <3>2 DEF Ends, Woken
  <2> QED
    BY <2>2, <2>3, <2>4
<1> QED
  BY <1>3

\* fcgi_handle_fdevent (mod_fastcgi.c:3223).
LEMMA BackendEventLives ==
  ASSUME NEW g, FrameOK(g), Alive(g), RequestOK(g.r, g.h), g.r.mode = "FASTCGI",
         NEW c \in Conn, NEW revents
  PROVE  \A f \in fcgi_handle_fdevent(c, g, revents) :
           Lives(f, g) /\ (Faults = {} => Woken(f, g))
<1> DEFINE read == IF "IN" \in revents /\ g.h.state = "READ" THEN fcgi_demux_response(g) ELSE {g}
           sent(x) == IF "OUT" \in revents /\ x.h.state \in {"CONNECT_DELAYED", "WRITE"}
                      THEN {o.g : o \in mod_fastcgi_handle_subrequest(c, x)}
                      ELSE IF "ERR" \in revents /\ x.h.state # "NULL" THEN {FcgiError(x)}
                      ELSE {x}
<1>1. fcgi_handle_fdevent(c, g, revents) = UNION {sent(x) : x \in read}
  BY DEF fcgi_handle_fdevent
<1>2. Lives(g, g) /\ Woken(g, g) /\ g.jobs \in Nat
  BY DEF Lives, Ages, Woken, Untroubled, FrameOK, FrameType
<1>3. ASSUME NEW x \in read
      PROVE  /\ Lives(x, g) /\ Woken(x, g)
             /\ x = g \/ x.h.state \in {"READ", "NULL"}
  <2>1. CASE x = g
    BY <1>2, <2>1
  <2>2. CASE g.h.state = "READ" /\ x \in fcgi_demux_response(g)
    BY <2>2, DemuxLives
  <2> QED
    BY <1>3, <2>1, <2>2
<1> HIDE DEF read
<1>4. ASSUME NEW x, Lives(x, g), x.h.state # "NULL"
      PROVE  Lives(FcgiError(x), g) /\ FcgiError(x).jobs > g.jobs
  <2> DEFINE f == FcgiError(x)
  <2>1. FrameOK(x) /\ x.jobs \in Nat
    BY <1>4 DEF Lives, FrameOK, FrameType
  <2>2. FrameOK(f) /\ f.r.state = "ERROR" /\ f.h = NoCtx /\ f.jobs > x.jobs
    BY <1>4, <2>1, GivenBack DEF FcgiError
  <2> HIDE DEF f
  <2>3. f.jobs \in Nat
    BY <2>2 DEF FrameOK, FrameType
  <2>4. f.jobs > g.jobs
    BY <1>2, <1>4, <2>1, <2>2, <2>3 DEF Lives
  <2>5. Lives(f, g)
    BY <1>2, <2>2, <2>3, <2>4, NoCtxOK DEF Lives, Alive, Live, Ages
  <2> QED
    BY <2>4, <2>5 DEF f
<1>5. ASSUME NEW x \in read, NEW f \in sent(x)
      PROVE  Lives(f, g) /\ (Faults = {} => Woken(f, g))
  <2>1. Lives(x, g) /\ Woken(x, g) /\ (x = g \/ x.h.state \in {"READ", "NULL"})
    BY <1>3
  <2>2. CASE f = x
    BY <2>1, <2>2
  <2>3. CASE x.h.state # "NULL" /\ f = FcgiError(x)
    BY <1>4, <2>1, <2>3 DEF Woken
  <2>4. CASE /\ x.h.state \in {"CONNECT_DELAYED", "WRITE"}
             /\ \E o \in mod_fastcgi_handle_subrequest(c, x) : f = o.g
    <3>1. x = g
      BY <2>1, <2>4
    <3> QED
      BY <2>4, <3>1, SentLives
  <2> QED
    BY <1>5, <2>2, <2>3, <2>4
<1> HIDE DEF sent
<1> QED
  BY <1>1, <1>5

-----------------------------------------------------------------------------
\* The turns of the state machine.

\* Nobody but c and the connection that takes its slot has moved.
Shifted(q, p, c) ==
  \A d \in Conn \ {c} :
    q.ndx[d] = p.ndx[d] \/ (0 <= q.ndx[d] /\ q.ndx[d] < p.ndx[d])

\* connection_del (connections.c:76) moves the last one down.
LEMMA DelShifts ==
  ASSUME NEW p, PoolOK(p), NEW c \in Conn, p.ndx[c] # -1
  PROVE  Shifted(connection_del(p, c), p, c)
<1> DEFINE at == p.ndx[c]
           last == p.used - 1
           moved == p.ptr[last]
           q == connection_del(p, c)
<1>1. /\ p.used \in 0 .. max_conns /\ p.ptr \in [Conn -> Conn]
      /\ p.ndx \in [Conn -> Conn \cup {-1}] /\ max_conns \in Nat
  BY ServerAssumption DEF PoolOK, PoolType
<1>2. at \in Conn /\ p.ptr[at] = c /\ at < p.used
  BY <1>1 DEF PoolOK
<1>3. last \in Conn /\ moved \in Conn /\ p.ndx[moved] = last
  <2>1. last \in Conn /\ last < p.used
    BY <1>1, <1>2, SMTT(40) DEF Conn
  <2> HIDE DEF last
  <2> QED
    BY <1>1, <2>1 DEF PoolOK
<1>4. q.ndx = [p.ndx EXCEPT ![moved] = at, ![c] = -1]
  BY DEF connection_del
<1>5. moved # c => at < last
  BY <1>1, <1>2, <1>3 DEF Conn
<1>6. 0 <= at
  BY <1>1, <1>2 DEF Conn
<1> HIDE DEF at, last, moved, q
<1>7. ASSUME NEW d \in Conn \ {c}
      PROVE  q.ndx[d] = p.ndx[d] \/ (0 <= q.ndx[d] /\ q.ndx[d] < p.ndx[d])
  <2>1. q.ndx[d] = IF d = moved THEN at ELSE p.ndx[d]
    BY <1>1, <1>4
  <2> QED
    BY <1>3, <1>5, <1>6, <1>7, <2>1
<1> QED
  BY <1>7 DEF Shifted, q

\* A frame after which the machine may wait: its connection is read from,
\* closing, closed, or it waits for its client or its backend.
Calm(f) ==
  \/ f.r.state \in {"CONNECT", "READ", "READ_POST", "CLOSE"}
  \/ f.r.state = "WRITE" /\ Rests(f)
  \/ f.r.state = "HANDLE_REQUEST" /\ Waiting(f)

\* What a turn of the machine for connection c makes of frame g: the connection
\* lives, its timestamps are new or those of before, or it is about to write;
\* if it stays in its state, it can wait.
Turned(c, f, g) ==
  /\ Alive(f) /\ Shifted(f.conns, g.conns, c)
  /\ f.r.state \in {"READ", "READ_POST", "REQUEST_END"} =>
       \/ f.r.read_idle = 0
       \/ /\ g.r.state \in {"READ", "READ_POST", "REQUEST_END"}
          /\ f.r.read_idle = g.r.read_idle /\ f.r.request_count = g.r.request_count
  /\ f.r.state = "WRITE" =>
       \/ f.r.write_idle = 0
       \/ g.r.state = "WRITE" /\ Rests(g) /\ f.r.write_idle = g.r.write_idle
       \/ g.r.state = "RESPONSE_START" /\ f.r.write_queue /\ f.r.is_writable
  /\ f.r.state = g.r.state /\ g.r.state # "HANDLE_REQUEST" => Calm(f)

\* Nobody has moved.
LEMMA NobodyShifts == \A p, c : Shifted(p, p, c)
BY DEF Shifted

\* A turn that only changes the record of the connection.
LEMMA RecordTurned ==
  ASSUME NEW c \in Conn, NEW g, FrameOK(g), NEW x \in ConRec, Live(g.ev, x, g.h), Ages(x, g.r),
         x.state = "WRITE" => x.write_queue /\ x.is_writable /\ g.r.state = "RESPONSE_START",
         x.state = g.r.state => x.state \in {"CONNECT", "READ", "READ_POST", "CLOSE"}
  PROVE  Turned(c, [g EXCEPT !.r = x], g)
<1> DEFINE f == [g EXCEPT !.r = x]
<1>1. f.r = x /\ f.ev = g.ev /\ f.h = g.h /\ f.conns = g.conns
  BY DEF FrameOK, FrameType
<1> HIDE DEF f
<1>2. Turned(c, f, g)
  BY <1>1, NobodyShifts DEF Turned, Alive, Ages, Calm
<1> QED
  BY <1>2 DEF f

\* The cases for REQUEST_START, READ, READ_POST, REQUEST_END, RESPONSE_START and CONNECT.
LEMMA RecordTurns ==
  ASSUME NEW c \in Conn, NEW g, FrameOK(g), Alive(g), RequestOK(g.r, g.h)
  PROVE  /\ g.r.state = "REQUEST_START" => Turned(c, [g EXCEPT !.r = StartRequest(g.r)], g)
         /\ g.r.state \in {"READ", "READ_POST"} =>
              \A x \in connection_handle_read_state(g.r) : Turned(c, [g EXCEPT !.r = x], g)
         /\ g.r.state = "REQUEST_END" =>
              \A x \in http_request_parse(g.r) : Turned(c, [g EXCEPT !.r = x], g)
         /\ g.r.state = "RESPONSE_START" =>
              \A x \in connection_handle_write_prepare(g.r) :
                Turned(c, [g EXCEPT !.r = [x EXCEPT !.state = "WRITE"]], g)
         /\ g.r.state = "CONNECT" =>
              Turned(c, [g EXCEPT !.r.read_queue = 0, !.r.request_count = 0], g)
<1>1. g.r \in ConRec /\ g.r.request_count + 1 \in Nat
  BY DEF FrameOK, FrameType, ConRec
<1>2. g.r.state \in Idle => g.r.mode = "DIRECT" /\ g.h = NoCtx
  BY DEF RequestOK
<1>3. CASE g.r.state = "REQUEST_START"
  <2> DEFINE x == StartRequest(g.r)
  <2>1. /\ x \in ConRec /\ x.state = "READ" /\ x.read_idle = 0 /\ x.mode = g.r.mode
        /\ x.is_writable = g.r.is_writable
    BY <1>1, RangeFacts DEF StartRequest, ConRec, ConStates
  <2> HIDE DEF x
  <2>2. g.r.is_writable /\ g.r.mode = "DIRECT" /\ g.h = NoCtx
    BY <1>2, <1>3 DEF Alive, Live, Idle
  <2>3. Live(g.ev, x, g.h) /\ Ages(x, g.r)
    BY <2>1, <2>2, AloneLives DEF Ages
  <2>4. Turned(c, [g EXCEPT !.r = x], g)
    BY <1>3, <2>1, <2>3, RecordTurned
  <2> QED
    BY <1>3, <2>4 DEF x
<1>4. CASE g.r.state \in {"READ", "READ_POST"}
  <2>1. ASSUME NEW x \in connection_handle_read_state(g.r)
        PROVE  Turned(c, [g EXCEPT !.r = x], g)
    <3>1. Reads(x, g.r) /\ Live(g.ev, x, g.h)
      BY <1>4, ReadLives
    <3>2. x \in ConRec /\ Ages(x, g.r) /\ x.state # "WRITE"
      BY <1>4, <3>1 DEF Reads, Reading, Ages
    <3> QED
      BY <1>4, <3>1, <3>2, RecordTurned
  <2> QED
    BY <1>4, <2>1
<1>5. CASE g.r.state = "REQUEST_END"
  <2>1. ASSUME NEW x \in http_request_parse(g.r)
        PROVE  Turned(c, [g EXCEPT !.r = x], g)
    <3>1. /\ x.state \in {"HANDLE_REQUEST", "READ_POST"} /\ x.mode = g.r.mode
          /\ x.is_writable = g.r.is_writable /\ x.read_idle = g.r.read_idle
          /\ x.request_count = g.r.request_count
      <4>1. \/ x = [g.r EXCEPT !.state = "HANDLE_REQUEST", !.decided = TRUE, !.keep_alive = FALSE]
            \/ x = [g.r EXCEPT !.state = "HANDLE_REQUEST", !.decided = TRUE, !.bad_version = TRUE]
            \/ \E keep \in BOOLEAN :
                 x = [g.r EXCEPT !.state = "HANDLE_REQUEST", !.keep_alive = keep]
            \/ \E keep \in BOOLEAN :
                 x = [g.r EXCEPT !.state = "READ_POST", !.keep_alive = keep]
        BY <2>1 DEF http_request_parse, UnknownVersion
      <4> QED
        BY ZenonT(60), <1>1, <4>1 DEF ConRec
    <3>2. x \in ConRec
      BY <1>1, ParseOK
    <3>3. g.r.is_writable /\ g.r.mode = "DIRECT" /\ g.h = NoCtx
      BY <1>2, <1>5 DEF Alive, Live, Idle
    <3>4. Live(g.ev, x, g.h) /\ Ages(x, g.r)
      BY <1>5, <3>1, <3>3, AloneLives DEF Ages
    <3> QED
      BY <1>5, <3>1, <3>2, <3>4, RecordTurned
  <2> QED
    BY <1>5, <2>1
<1>6. CASE g.r.state = "RESPONSE_START"
  <2>1. ASSUME NEW y \in connection_handle_write_prepare(g.r)
        PROVE  Turned(c, [g EXCEPT !.r = [y EXCEPT !.state = "WRITE"]], g)
    <3> DEFINE x == [y EXCEPT !.state = "WRITE"]
               f == [g EXCEPT !.r = x]
    <3>1. y \in ConRec
      BY <1>1, WritePrepareOK
    <3>2. /\ y.mode = g.r.mode /\ y.is_writable = g.r.is_writable /\ y.write_queue
          /\ y.file_started = g.r.file_started
          /\ y.file_finished \/ (g.r.mode = "FASTCGI" /\ ~g.r.file_finished)
      <4> DEFINE ready == [g.r EXCEPT !.write_queue = TRUE]
                 whole == [ready EXCEPT !.file_finished = TRUE]
      <4>1. /\ ready \in ConRec /\ ready.mode = g.r.mode /\ ready.is_writable = g.r.is_writable
            /\ ready.write_queue /\ ready.file_started = g.r.file_started
        BY <1>1 DEF ConRec
      <4>2. /\ whole \in ConRec /\ whole.mode = ready.mode /\ whole.file_finished
            /\ whole.is_writable = ready.is_writable /\ whole.write_queue = ready.write_queue
            /\ whole.file_started = ready.file_started
        <5> HIDE DEF ready
        <5> QED
          BY <4>1 DEF ConRec
      <4>3. \/ y = whole \/ y = [whole EXCEPT !.keep_alive = FALSE]
            \/ /\ y = ready \/ y = [ready EXCEPT !.keep_alive = FALSE]
               /\ g.r.mode # "DIRECT" /\ ~g.r.file_finished
        BY DEF connection_handle_write_prepare
      <4>4. g.r.mode \in {"DIRECT", "FASTCGI"}
        BY <1>1 DEF ConRec
      <4> HIDE DEF ready, whole
      <4>5. y = whole \/ y = [whole EXCEPT !.keep_alive = FALSE] =>
              /\ y.mode = whole.mode /\ y.is_writable = whole.is_writable
              /\ y.write_queue = whole.write_queue /\ y.file_started = whole.file_started
              /\ y.file_finished = whole.file_finished
        BY <4>2 DEF ConRec
      <4>6. y = ready \/ y = [ready EXCEPT !.keep_alive = FALSE] =>
              /\ y.mode = ready.mode /\ y.is_writable = ready.is_writable
              /\ y.write_queue = ready.write_queue /\ y.file_started = ready.file_started
        BY <4>1 DEF ConRec
      <4> QED
        BY <4>1, <4>2, <4>3, <4>4, <4>5, <4>6
    <3>3. /\ x \in ConRec /\ x.state = "WRITE" /\ x.mode = y.mode
          /\ x.is_writable = y.is_writable /\ x.write_queue = y.write_queue
          /\ x.file_started = y.file_started /\ x.file_finished = y.file_finished
      BY <3>1 DEF ConRec, ConStates
    <3> HIDE DEF x
    <3>4. x.is_writable
      BY <1>6, <3>2, <3>3 DEF Alive, Live
    <3>5. g.r.mode = "FASTCGI" /\ ~g.r.file_finished => g.h.state = "READ"
      BY <1>6 DEF Alive, Live
    <3>6. Live(g.ev, x, g.h)
      BY <1>6, <3>2, <3>3, <3>4, <3>5 DEF Alive, Live
    <3>7. f.r = x /\ f.ev = g.ev /\ f.h = g.h /\ f.conns = g.conns
      BY DEF FrameOK, FrameType
    <3> HIDE DEF f
    <3>8. Turned(c, f, g)
      BY <1>6, <3>2, <3>3, <3>4, <3>6, <3>7, NobodyShifts DEF Turned, Alive
    <3> QED
      BY <3>8 DEF f, x
  <2> QED
    BY <1>6, <2>1
<1>7. CASE g.r.state = "CONNECT"
  <2> DEFINE x == [g.r EXCEPT !.read_queue = 0, !.request_count = 0]
  <2>1. x \in ConRec /\ x.state = "CONNECT" /\ x.mode = g.r.mode
    BY <1>1, <1>7, RangeFacts DEF ConRec
  <2>2. [g EXCEPT !.r.read_queue = 0, !.r.request_count = 0] = [g EXCEPT !.r = x]
    BY DEF FrameOK, FrameType
  <2> HIDE DEF x
  <2>3. Live(g.ev, x, g.h) /\ Ages(x, g.r)
    BY <1>2, <1>7, <2>1, AloneLives DEF Ages, Idle
  <2>4. Turned(c, [g EXCEPT !.r = x], g)
    BY <1>7, <2>1, <2>3, RecordTurned
  <2> QED
    BY <1>7, <2>2, <2>4
<1> QED
  BY <1>3, <1>4, <1>5, <1>6, <1>7

\* The cases for WRITE and HANDLE_REQUEST.
LEMMA AnsweringTurns ==
  ASSUME NEW c \in Conn, NEW g, FrameOK(g), Alive(g), RequestOK(g.r, g.h)
  PROVE  /\ g.r.state = "WRITE" => \A f \in TryWrite(g) : Turned(c, f, g)
         /\ g.r.state = "HANDLE_REQUEST" =>
              \A o \in http_response_prepare(c, g) :
                LET f == AfterPrepare(o)
                IN /\ Turned(c, f, g)
                   /\ f.r.state = "HANDLE_REQUEST" => o.r = "WAIT_FOR_FD" \/ Calm(f)
<1>1. CASE g.r.state = "WRITE"
  <2>1. ASSUME NEW f \in TryWrite(g)
        PROVE  Turned(c, f, g)
    <3>1. /\ FrameOK(f) /\ Alive(f)
          /\ \/ f = g /\ Rests(g)
             \/ Rests(f) /\ (f.r.state = "WRITE" => f.r.write_idle = 0)
      BY <1>1, TryWriteLives
    <3>2. f.conns = g.conns
      BY WriteOK DEF AllFramesKeep, Keeps
    <3>3. Shifted(f.conns, g.conns, c)
      BY <3>2, NobodyShifts
    <3>4. Rests(f)
      BY <3>1
    <3> QED
      BY <1>1, <3>1, <3>3, <3>4 DEF Turned, Calm, Rests
  <2> QED
    BY <1>1, <2>1
<1>2. CASE g.r.state = "HANDLE_REQUEST"
  <2>1. ASSUME NEW o \in http_response_prepare(c, g)
        PROVE  LET f == AfterPrepare(o)
               IN /\ Turned(c, f, g)
                  /\ f.r.state = "HANDLE_REQUEST" => o.r = "WAIT_FOR_FD" \/ Calm(f)
    <3> DEFINE f == AfterPrepare(o)
    <3>1. Answered(o)
      BY <1>2, PrepareAnswers
    <3>2. /\ Alive(f) /\ f.r.state \in {"HANDLE_REQUEST", "RESPONSE_START", "ERROR"}
          /\ f.r.state = "HANDLE_REQUEST" => o.r = "WAIT_FOR_FD" \/ Waiting(f)
      BY <3>1, AnswerLives
    <3>3. f.conns = g.conns
      BY PrepareOK DEF Keeps
    <3> HIDE DEF f
    <3>4. Shifted(f.conns, g.conns, c)
      BY <3>3, NobodyShifts
    <3> QED
      BY <1>2, <3>2, <3>4 DEF Turned, Calm, f
  <2> QED
    BY <1>2, <2>1
<1> QED
  BY <1>1, <1>2

\* connection_reset leaves no context and a connection that lives.
LEMMA ResetFields ==
  ASSUME NEW g, FrameOK(g), g.h.state = "NULL" => g.h = NoCtx
  PROVE  LET f == connection_reset(g)
         IN /\ FrameOK(f) /\ f.h = NoCtx /\ f.conns = g.conns
            /\ f.r.state = g.r.state /\ f.r.mode = "DIRECT" /\ f.r.is_writable
<1> DEFINE x == fcgi_connection_close(g)
           r == [x.r EXCEPT !.is_readable = TRUE, !.is_writable = TRUE,
                            !.decided = FALSE, !.bad_version = FALSE,
                            !.file_finished = FALSE, !.file_started = FALSE,
                            !.mode = "DIRECT", !.write_queue = FALSE]
           f == connection_reset(g)
<1>1. FrameOK(x) /\ x.r = g.r /\ x.h = NoCtx
  BY CloseCtxFields
<1>2. x.conns = g.conns
  BY FcgiCloseOK DEF Keeps
<1>3. f = [x EXCEPT !.r = r]
  BY DEF connection_reset
<1>4. FrameOK(f)
  BY ResetOK DEF Keeps
<1> HIDE DEF x
<1>5. x.r \in ConRec
  BY <1>1 DEF FrameOK, FrameType
<1>6. r.state = x.r.state /\ r.mode = "DIRECT" /\ r.is_writable = TRUE
  BY <1>5 DEF ConRec
<1> HIDE DEF r, f
<1>7. f.r = r /\ f.h = x.h /\ f.conns = x.conns
  BY <1>1, <1>3 DEF FrameOK, FrameType
<1> QED
  BY <1>1, <1>2, <1>4, <1>6, <1>7 DEF f

\* connection_close frees the slot of connection c.
LEMMA CloseConFields ==
  ASSUME NEW c \in Conn, NEW g, Good(g)
  PROVE  LET f == connection_close(c, g)
         IN /\ Good(f) /\ f.h = g.h /\ Shifted(f.conns, g.conns, c)
            /\ f.r.state = "CONNECT" /\ f.r.mode = g.r.mode
<1> DEFINE closed == CloseFd(g, g.r.fde_ndx, g.r.fd)
           p == connection_del(g.conns, c)
           r == [g.r EXCEPT !.fde_ndx = NotArmed, !.state = "CONNECT"]
           f == connection_close(c, g)
<1>1. FrameOK(g) /\ g \in FrameType
  BY DEF Good, FrameOK
<1>2. /\ closed.conns = g.conns /\ closed.r = g.r /\ closed.h = g.h
  BY <1>1 DEF FrameType, CloseFd
<1>3. closed \in FrameType
  <2>1. g.r.fd \in AnyFd
    BY <1>1, ConstantFacts DEF FrameType, ConRec
  <2> QED
    BY <1>1, <2>1, CloseFdOK
<1>4. f = [closed EXCEPT !.conns = p, !.r = r]
  BY <1>2 DEF connection_close
<1> HIDE DEF closed
<1>5. Shifted(p, g.conns, c)
  <2>1. CASE g.conns.ndx[c] = -1
    BY <2>1, NobodyShifts DEF connection_del
  <2>2. CASE g.conns.ndx[c] # -1
    BY <2>2, DelShifts DEF Good
  <2> QED
    BY <2>1, <2>2
<1>6. r.state = "CONNECT" /\ r.mode = g.r.mode
  BY <1>1 DEF FrameType, ConRec
<1>7. Good(f)
  BY ConnectionCloseOK
<1> HIDE DEF p, r, f
<1>8. f.conns = p /\ f.r = r /\ f.h = closed.h
  BY <1>3, <1>4 DEF FrameType
<1> QED
  BY <1>2, <1>5, <1>6, <1>7, <1>8 DEF f

\* A turn after which there is no context, and no response is left.
LEMMA ResetTurned ==
  ASSUME NEW c \in Conn, NEW g, NEW f, f.h = NoCtx, f.r.mode = "DIRECT",
         Shifted(f.conns, g.conns, c), f.r.state \in {"REQUEST_START", "CONNECT", "CLOSE"},
         f.r.state # "CONNECT" => f.r.is_writable, g.r.state # "REQUEST_START"
  PROVE  Turned(c, f, g)
<1>1. Alive(f)
  BY AloneLives DEF Alive
<1> QED
  BY <1>1 DEF Turned, Calm

\* The cases for RESPONSE_END, ERROR and CLOSE.
LEMMA ClosingTurns ==
  ASSUME NEW c \in Conn, NEW g, Good(g), Alive(g), RequestOK(g.r, g.h)
  PROVE  /\ g.r.state = "RESPONSE_END" =>
              \A f \in {connection_set_state(g, "REQUEST_START"),
                        connection_close(c, fcgi_connection_close(g))} :
                Turned(c, connection_reset(f), g)
         /\ g.r.state = "ERROR" =>
              \A f \in {[connection_set_state(connection_reset(g), "CLOSE")
                           EXCEPT !.r.close_idle = 0],
                        connection_close(c, connection_reset(g))} :
                Turned(c, [f EXCEPT !.r.keep_alive = FALSE], g)
         /\ g.r.state = "CLOSE" =>
              \A f \in {g, [g EXCEPT !.r.close_idle = CloseCap]} :
                Turned(c, f, g) /\ Turned(c, connection_close(c, f), g)
<1>1. FrameOK(g) /\ g.r \in ConRec
  BY DEF Good, FrameOK, FrameType
<1>2. g.h.state = "NULL" => g.h = NoCtx
  BY DEF RequestOK, CtxOK
<1>3. CASE g.r.state = "RESPONSE_END"
  <2> DEFINE a == connection_set_state(g, "REQUEST_START")
             x == fcgi_connection_close(g)
             b == connection_close(c, x)
  <2>1. FrameOK(a) /\ a.h = g.h /\ a.conns = g.conns /\ a.r.state = "REQUEST_START"
    BY <1>1, StateFields DEF ConStates
  <2>2. FrameOK(x) /\ x.h = NoCtx /\ x.conns = g.conns
    BY <1>1, <1>2, CloseCtxFields, FcgiCloseOK DEF Keeps
  <2>3. Good(x)
    BY <2>2 DEF Good
  <2> HIDE DEF a, x
  <2>4. Good(b) /\ b.h = x.h /\ Shifted(b.conns, x.conns, c) /\ b.r.state = "CONNECT"
    BY <2>3, CloseConFields
  <2> HIDE DEF b
  <2>5. FrameOK(b)
    BY <2>4 DEF Good
  <2> DEFINE p == connection_reset(a)
             q == connection_reset(b)
  <2>6. p.h = NoCtx /\ p.conns = a.conns /\ p.r.state = a.r.state /\ p.r.mode = "DIRECT"
        /\ p.r.is_writable
    BY <1>2, <2>1, ResetFields
  <2>7. q.h = NoCtx /\ q.conns = b.conns /\ q.r.state = b.r.state /\ q.r.mode = "DIRECT"
    BY <2>2, <2>4, <2>5, ResetFields
  <2> HIDE DEF p, q
  <2>8. Turned(c, p, g)
    BY <1>3, <2>1, <2>6, ResetTurned, NobodyShifts
  <2>9. Turned(c, q, g)
    BY <1>3, <2>2, <2>4, <2>7, ResetTurned
  <2> QED
    BY <1>3, <2>8, <2>9 DEF a, b, x, p, q
<1>4. CASE g.r.state = "ERROR"
  <2> DEFINE reset == connection_reset(g)
             closing == [connection_set_state(reset, "CLOSE") EXCEPT !.r.close_idle = 0]
             gone == connection_close(c, reset)
  <2>1. FrameOK(reset) /\ reset.h = NoCtx /\ reset.conns = g.conns
        /\ reset.r.mode = "DIRECT" /\ reset.r.is_writable
    BY <1>1, <1>2, ResetFields
  <2> HIDE DEF reset
  <2>2. Good(reset) /\ reset.r \in ConRec
    BY <2>1 DEF Good, FrameOK, FrameType
  <2>3. Turned(c, [closing EXCEPT !.r.keep_alive = FALSE], g)
    <3> DEFINE x == [reset.r EXCEPT !.state = "CLOSE", !.close_idle = 0, !.keep_alive = FALSE]
               f == [reset EXCEPT !.r = x]
    <3>1. [closing EXCEPT !.r.keep_alive = FALSE] = f
      BY <2>1, <2>2 DEF connection_set_state, FrameOK, FrameType, ConRec
    <3>2. x.state = "CLOSE" /\ x.mode = reset.r.mode /\ x.is_writable = reset.r.is_writable
      BY <2>2 DEF ConRec
    <3> HIDE DEF x
    <3>3. f.r = x /\ f.h = reset.h /\ f.conns = reset.conns
      BY <2>1 DEF FrameOK, FrameType
    <3> HIDE DEF f
    <3>4. Turned(c, f, g)
      BY <1>4, <2>1, <3>2, <3>3, ResetTurned, NobodyShifts
    <3> QED
      BY <3>1, <3>4
  <2>4. Turned(c, [gone EXCEPT !.r.keep_alive = FALSE], g)
    <3> DEFINE x == [gone.r EXCEPT !.keep_alive = FALSE]
               f == [gone EXCEPT !.r = x]
    <3>1. Good(gone) /\ gone.h = reset.h /\ Shifted(gone.conns, reset.conns, c)
          /\ gone.r.state = "CONNECT" /\ gone.r.mode = reset.r.mode
      BY <2>2, CloseConFields
    <3> HIDE DEF gone
    <3>2. [gone EXCEPT !.r.keep_alive = FALSE] = f /\ gone.r \in ConRec
      BY <3>1 DEF Good, FrameOK, FrameType
    <3>3. x.state = gone.r.state /\ x.mode = gone.r.mode
      BY <3>2 DEF ConRec
    <3> HIDE DEF x
    <3>4. f.r = x /\ f.h = gone.h /\ f.conns = gone.conns
      BY <3>1 DEF Good, FrameOK, FrameType
    <3> HIDE DEF f
    <3>5. Turned(c, f, g)
      BY <1>4, <2>1, <3>1, <3>3, <3>4, ResetTurned
    <3> QED
      BY <3>2, <3>5
  <2> QED
    BY <1>4, <2>3, <2>4 DEF reset, closing, gone
<1>5. CASE g.r.state = "CLOSE"
  <2> DEFINE x == [g.r EXCEPT !.close_idle = CloseCap]
             late == [g EXCEPT !.r = x]
  <2>1. g.r.mode = "DIRECT" /\ g.h = NoCtx /\ g.r.is_writable
    BY <1>5 DEF RequestOK, Idle, Alive, Live
  <2>2. /\ x \in ConRec /\ x.state = g.r.state /\ x.mode = g.r.mode
        /\ x.is_writable = g.r.is_writable
    BY <1>1, RangeFacts DEF ConRec
  <2>3. [g EXCEPT !.r.close_idle = CloseCap] = late
    BY <1>1 DEF FrameOK, FrameType
  <2> HIDE DEF x
  <2>4. Good(late) /\ late.r = x /\ late.h = g.h /\ late.conns = g.conns
    BY <1>1, <2>2 DEF Good, FrameOK, FrameType
  <2> HIDE DEF late
  <2>5. ASSUME NEW f, Good(f), f.h = NoCtx, f.conns = g.conns, f.r.state = "CLOSE",
               f.r.mode = "DIRECT", f.r.is_writable
        PROVE  Turned(c, f, g) /\ Turned(c, connection_close(c, f), g)
    <3> DEFINE gone == connection_close(c, f)
    <3>1. Turned(c, f, g)
      BY <1>5, <2>5, ResetTurned, NobodyShifts
    <3>2. gone.h = f.h /\ Shifted(gone.conns, f.conns, c)
          /\ gone.r.state = "CONNECT" /\ gone.r.mode = f.r.mode
      BY <2>5, CloseConFields
    <3> HIDE DEF gone
    <3>3. Turned(c, gone, g)
      BY <1>5, <2>5, <3>2, ResetTurned
    <3> QED
      BY <3>1, <3>3 DEF gone
  <2>6. Turned(c, g, g) /\ Turned(c, connection_close(c, g), g)
    BY <1>5, <2>1, <2>5
  <2>7. Turned(c, late, g) /\ Turned(c, connection_close(c, late), g)
    BY <1>5, <2>1, <2>2, <2>4, <2>5
  <2> QED
    BY <1>5, <2>3, <2>6, <2>7
<1> QED
  BY <1>3, <1>4, <1>5

-----------------------------------------------------------------------------
\* The state machine.

\* Every connection lives.
Responses == \A c \in Conn : Live(ev, con[c], hctx[c])

\* The machine has taken a turn and made frame f of its connection.
TurnTo(f) ==
  /\ Commit(cur, f) /\ Turned(cur, f, Frame(cur))
  /\ pc' = IF f.r.state = con[cur].state THEN "arm" ELSE "machine"
  /\ cur' = cur /\ ret' = ret /\ i' = i
  /\ fdwaitqueue' \in {fdwaitqueue, Append(fdwaitqueue, cur)}
  /\ f.r.state = con[cur].state => Calm(f) \/ fdwaitqueue' = Append(fdwaitqueue, cur)

\* One turn of the loop of connection_state_machine, for every state.
LEMMA MachineTurns ==
  ASSUME IInv, Holdings, FdsCounted, Requests, Responses, StateMachine, pc = "machine"
  PROVE  \E f : TurnTo(f)
<1> DEFINE g == Frame(cur)
<1>1. cur \in Conn /\ TablesInv
  BY DEF IInv, CallInv
<1>2. /\ Good(g) /\ FrameOK(g) /\ RequestOK(g.r, g.h)
      /\ g.r = con[cur] /\ g.h = hctx[cur] /\ g.ev = ev
  BY <1>1, FrameHolds
<1> HIDE DEF g
<1>3. Alive(g)
  BY <1>1, <1>2 DEF Responses, Alive
<1>4. ASSUME NEW s, NEW f, s = con[cur].state, Turn(s, f), Turned(cur, f, g),
             fdwaitqueue' \in {fdwaitqueue, Append(fdwaitqueue, cur)},
             f.r.state = s => Calm(f) \/ fdwaitqueue' = Append(fdwaitqueue, cur)
      PROVE  TurnTo(f)
  BY <1>4 DEF TurnTo, Turn, loopVars, g
<1>5. ASSUME NEW s, NEW f, s = con[cur].state, s # "HANDLE_REQUEST", Turn(s, f),
             Turned(cur, f, g), fdwaitqueue' = fdwaitqueue
      PROVE  TurnTo(f)
  BY <1>2, <1>4, <1>5 DEF Turned
<1>6. CASE SmRequestStart
  <2>1. Turned(cur, [g EXCEPT !.r = StartRequest(g.r)], g)
    BY <1>1, <1>2, <1>3, <1>6, RecordTurns DEF SmRequestStart, At
  <2>2. Turn("REQUEST_START", [g EXCEPT !.r = StartRequest(g.r)])
    BY <1>2, <1>6 DEF SmRequestStart, g
  <2> QED
    BY <1>5, <1>6, <2>1, <2>2 DEF SmRequestStart, At
<1>7. CASE SmRead
  <2>1. PICK x \in connection_handle_read_state(g.r) :
          Turn(con[cur].state, [g EXCEPT !.r = x])
    BY <1>2, <1>7 DEF SmRead, g
  <2>2. Turned(cur, [g EXCEPT !.r = x], g)
    BY <1>1, <1>2, <1>3, <1>7, RecordTurns DEF SmRead
  <2> QED
    BY <1>5, <1>7, <2>1, <2>2 DEF SmRead
<1>8. CASE SmRequestEnd
  <2>1. PICK x \in http_request_parse(g.r) : Turn("REQUEST_END", [g EXCEPT !.r = x])
    BY <1>2, <1>8 DEF SmRequestEnd, g
  <2>2. Turned(cur, [g EXCEPT !.r = x], g)
    BY <1>1, <1>2, <1>3, <1>8, RecordTurns DEF SmRequestEnd, At
  <2> QED
    BY <1>5, <1>8, <2>1, <2>2 DEF SmRequestEnd, At
<1>9. CASE SmHandleRequest
  <2>1. PICK o \in http_response_prepare(cur, g) :
          Turn("HANDLE_REQUEST", AfterPrepare(o)) /\ WaitForFd(o)
    BY <1>9 DEF SmHandleRequest, g
  <2> DEFINE f == AfterPrepare(o)
  <2>2. Turned(cur, f, g) /\ (f.r.state = "HANDLE_REQUEST" => o.r = "WAIT_FOR_FD" \/ Calm(f))
    BY <1>1, <1>2, <1>3, <1>9, AnsweringTurns DEF SmHandleRequest, At
  <2>3. /\ fdwaitqueue' \in {fdwaitqueue, Append(fdwaitqueue, cur)}
        /\ o.r = "WAIT_FOR_FD" => fdwaitqueue' = Append(fdwaitqueue, cur)
    BY <2>1 DEF WaitForFd
  <2> QED
    BY <1>4, <1>9, <2>1, <2>2, <2>3 DEF SmHandleRequest, At
<1>10. CASE SmResponseStart
  <2>1. PICK x \in connection_handle_write_prepare(g.r) :
          Turn("RESPONSE_START", [g EXCEPT !.r = [x EXCEPT !.state = "WRITE"]])
    BY <1>2, <1>10 DEF SmResponseStart, g
  <2>2. Turned(cur, [g EXCEPT !.r = [x EXCEPT !.state = "WRITE"]], g)
    BY <1>1, <1>2, <1>3, <1>10, RecordTurns DEF SmResponseStart, At
  <2> QED
    BY <1>5, <1>10, <2>1, <2>2 DEF SmResponseStart, At
<1>11. CASE SmWrite
  <2>1. PICK f \in TryWrite(g) : Turn("WRITE", f)
    BY <1>11 DEF SmWrite, g
  <2>2. Turned(cur, f, g)
    BY <1>1, <1>2, <1>3, <1>11, AnsweringTurns DEF SmWrite, At
  <2> QED
    BY <1>5, <1>11, <2>1, <2>2 DEF SmWrite, At
<1>12. CASE SmResponseEnd
  <2> DEFINE next == connection_set_state(g, "REQUEST_START")
             gone == connection_close(cur, fcgi_connection_close(g))
  <2>1. PICK f \in {next, gone} : Turn("RESPONSE_END", connection_reset(f))
    BY <1>12 DEF SmResponseEnd, g
  <2>2. Turned(cur, connection_reset(f), g)
    BY <1>1, <1>2, <1>3, <1>12, ClosingTurns DEF SmResponseEnd, At
  <2> QED
    BY <1>5, <1>12, <2>1, <2>2 DEF SmResponseEnd, At
<1>13. CASE SmConnect
  <2>1. Turned(cur, [g EXCEPT !.r.read_queue = 0, !.r.request_count = 0], g)
    BY <1>1, <1>2, <1>3, <1>13, RecordTurns DEF SmConnect, At
  <2>2. Turn("CONNECT", [g EXCEPT !.r.read_queue = 0, !.r.request_count = 0])
    BY <1>13 DEF SmConnect, g
  <2> QED
    BY <1>5, <1>13, <2>1, <2>2 DEF SmConnect, At
<1>14. CASE SmError
  <2> DEFINE closing == [connection_set_state(connection_reset(g), "CLOSE")
                           EXCEPT !.r.close_idle = 0]
             gone == connection_close(cur, connection_reset(g))
  <2>1. PICK f \in {closing, gone} : Turn("ERROR", [f EXCEPT !.r.keep_alive = FALSE])
    BY <1>14 DEF SmError, g
  <2>2. Turned(cur, [f EXCEPT !.r.keep_alive = FALSE], g)
    BY <1>1, <1>2, <1>3, <1>14, ClosingTurns DEF SmError, At
  <2> QED
    BY <1>5, <1>14, <2>1, <2>2 DEF SmError, At
<1>15. CASE SmClose
  <2> DEFINE late == [g EXCEPT !.r.close_idle = CloseCap]
  <2>1. PICK x \in {g, late} :
          Turn("CLOSE", IF x.r.close_idle > 1 THEN connection_close(cur, x) ELSE x)
    BY <1>15 DEF SmClose, g
  <2>2. Turned(cur, x, g) /\ Turned(cur, connection_close(cur, x), g)
    BY <1>1, <1>2, <1>3, <1>15, ClosingTurns DEF SmClose, At
  <2>3. PICK f : Turn("CLOSE", f) /\ Turned(cur, f, g)
    BY <2>1, <2>2
  <2> QED
    BY <1>5, <1>15, <2>3 DEF SmClose, At
<1> QED
  BY <1>6, <1>7, <1>8, <1>9, <1>10, <1>11, <1>12, <1>13, <1>14, <1>15 DEF StateMachine, Arm

\* Frame f is g but for the sets of select(), in which the backend, if it
\* was watched, still is.
Settles(f, g) ==
  /\ FrameOK(f) /\ f.jobs = g.jobs /\ f.conns = g.conns
  /\ Like(f.r, g.r) /\ f.r.fd = g.r.fd
  /\ f.r.file_started = g.r.file_started /\ f.r.file_finished = g.r.file_finished
  /\ f.r.write_queue = g.r.write_queue
  /\ f.r.traffic_limit_reached = g.r.traffic_limit_reached
  /\ f.h.state = g.h.state /\ f.h.host = g.h.host /\ f.h.fd = g.h.fd
  /\ g.h.fd \in g.ev.rd \cup g.ev.wr => f.h.fd \in f.ev.rd \cup f.ev.wr

\* The client of frame f is watched for what its connection waits for.
ClientWatched(f) ==
  /\ f.r.state \in {"READ", "READ_POST", "CLOSE"} => f.r.fd \in f.ev.rd
  /\ /\ f.r.state = "WRITE" /\ f.r.write_queue
     /\ ~f.r.is_writable /\ ~f.r.traffic_limit_reached
     => f.r.fd \in f.ev.wr

\* The switch behind the loop (connections.c:1725-1760).
LEMMA RequestEventsSettle ==
  ASSUME NEW g, FrameOK(g), g.h.fd # g.r.fd
  PROVE  Settles(RequestEvents(g), g) /\ ClientWatched(RequestEvents(g))
<1>1. g.r \in ConRec /\ g.ev \in EvType /\ g.r.fd \in AnyFd
  BY ConstantFacts DEF FrameOK, FrameType, ConRec
<1>2. FrameOK(RequestEvents(g)) /\ RequestEvents(g).conns = g.conns
  BY RequestEventsOK DEF Keeps
<1>3. ASSUME NEW e \in EvType, NEW ndx \in Fd \cup {0, NotArmed},
             Differs(e, g.ev, g.r.fd), RequestEvents(g) = [g EXCEPT !.ev = e, !.r.fde_ndx = ndx]
      PROVE  Settles(RequestEvents(g), g) /\ RequestEvents(g).ev = e
  <2> DEFINE x == [g.r EXCEPT !.fde_ndx = ndx]
             f == [g EXCEPT !.ev = e, !.r = x]
  <2>1. RequestEvents(g) = f
    BY <1>3 DEF FrameOK, FrameType
  <2>2. /\ x \in ConRec /\ Like(x, g.r) /\ x.fd = g.r.fd
        /\ x.file_started = g.r.file_started /\ x.file_finished = g.r.file_finished
        /\ x.write_queue = g.r.write_queue
        /\ x.traffic_limit_reached = g.r.traffic_limit_reached
    BY <1>1 DEF ConRec, Like
  <2> HIDE DEF x
  <2>3. /\ f.r = x /\ f.ev = e /\ f.h = g.h /\ f.jobs = g.jobs /\ f.conns = g.conns
    BY DEF FrameOK, FrameType
  <2>4. FrameOK(f)
    BY <1>2, <2>1
  <2> HIDE DEF f
  <2>5. g.h.fd \in g.ev.rd \cup g.ev.wr => g.h.fd \in e.rd \cup e.wr
    BY <1>1, <1>3 DEF Differs, EvType
  <2>6. Settles(f, g)
    BY <2>2, <2>3, <2>4, <2>5 DEF Settles, Like
  <2> QED
    BY <2>1, <2>3, <2>6
<1>4. ASSUME NEW what \in {"IN", "OUT"}, RequestEvents(g) = WaitFor(g, what)
      PROVE  /\ Settles(RequestEvents(g), g)
             /\ what = "IN" => g.r.fd \in RequestEvents(g).ev.rd
             /\ what = "OUT" => g.r.fd \in RequestEvents(g).ev.wr
  <2> DEFINE e == fdevent_event_add(g.ev, g.r.fd, what)
  <2>1. e \in EvType
    BY <1>1, EvOps, ConstantFacts
  <2>2. Differs(e, g.ev, g.r.fd)
    BY <1>1 DEF EvType, Differs, fdevent_event_add
  <2>3. (what = "IN" => g.r.fd \in e.rd) /\ (what = "OUT" => g.r.fd \in e.wr)
    BY <1>1 DEF EvType, fdevent_event_add
  <2>4. RequestEvents(g) = [g EXCEPT !.ev = e, !.r.fde_ndx = g.r.fd]
    BY <1>4 DEF WaitFor
  <2>5. g.r.fd \in Fd \cup {0, NotArmed}
    BY <1>1 DEF ConRec
  <2> HIDE DEF e
  <2> QED
    BY <1>3, <2>1, <2>2, <2>3, <2>4, <2>5
<1>5. ASSUME RequestEvents(g) = StopWaiting(g)
      PROVE  Settles(RequestEvents(g), g)
  <2> DEFINE e == fdevent_event_del(g.ev, g.r.fde_ndx, g.r.fd)
  <2>1. e \in EvType
    BY <1>1, EvOps, ConstantFacts
  <2>2. Differs(e, g.ev, g.r.fd)
    BY <1>1 DEF EvType, Differs, fdevent_event_del
  <2>3. RequestEvents(g) = [g EXCEPT !.ev = e, !.r.fde_ndx = NotArmed]
    BY <1>5 DEF StopWaiting
  <2> HIDE DEF e
  <2> QED
    BY <1>3, <2>1, <2>2, <2>3
<1>6. CASE g.r.state \in {"READ", "READ_POST", "CLOSE"}
  <2>1. RequestEvents(g) = WaitFor(g, "IN")
    BY <1>6 DEF RequestEvents
  <2> QED
    BY <1>4, <1>6, <2>1 DEF ClientWatched, Settles, Like
<1>7. CASE /\ g.r.state = "WRITE" /\ g.r.write_queue
           /\ ~g.r.is_writable /\ ~g.r.traffic_limit_reached
  <2>1. RequestEvents(g) = WaitFor(g, "OUT")
    BY <1>7 DEF RequestEvents
  <2> QED
    BY <1>4, <1>7, <2>1 DEF ClientWatched, Settles, Like
<1>8. CASE /\ g.r.state \notin {"READ", "READ_POST", "CLOSE"}
           /\ ~(/\ g.r.state = "WRITE" /\ g.r.write_queue
                /\ ~g.r.is_writable /\ ~g.r.traffic_limit_reached)
  <2>1. RequestEvents(g) = StopWaiting(g)
    BY <1>8 DEF RequestEvents
  <2> QED
    BY <1>5, <1>8, <2>1 DEF ClientWatched, Settles, Like
<1> QED
  BY <1>6, <1>7, <1>8

\* mod_fastcgi_handle_joblist (mod_fastcgi.c:3688) watches the backend again.
LEMMA JoblistSettles ==
  ASSUME NEW g, FrameOK(g), g.h.fd # g.r.fd, ClientWatched(g)
  PROVE  /\ Settles(mod_fastcgi_handle_joblist(g), g)
         /\ ClientWatched(mod_fastcgi_handle_joblist(g))
<1>1. /\ g.r \in ConRec /\ g.ev \in EvType /\ g.r.fd \in AnyFd /\ g.h \in CtxRec
      /\ g.h.fd # -1 => g.h.fd \in AnyFd
  BY ConstantFacts DEF FrameOK, FrameType, ConRec, CtxRec
<1>2. FrameOK(mod_fastcgi_handle_joblist(g))
  BY FcgiJoblistOK DEF Keeps
<1>3. Settles(g, g)
  BY <1>1 DEF Settles, Like
<1>4. ASSUME NEW what \in {"IN", "OUT"}, g.h.fd # -1,
             mod_fastcgi_handle_joblist(g) = FcgiWait(g, what)
      PROVE  /\ Settles(mod_fastcgi_handle_joblist(g), g)
             /\ ClientWatched(mod_fastcgi_handle_joblist(g))
  <2> DEFINE e == fdevent_event_add(g.ev, g.h.fd, what)
             x == [g.h EXCEPT !.fde_ndx = g.h.fd]
             f == [g EXCEPT !.ev = e, !.h = x]
  <2>1. mod_fastcgi_handle_joblist(g) = f
    BY <1>4 DEF FcgiWait, FrameOK, FrameType
  <2>2. Differs(e, g.ev, g.h.fd) /\ g.h.fd \in e.rd \cup e.wr
    BY <1>1, <1>4 DEF EvType, Differs, fdevent_event_add
  <2>3. x.state = g.h.state /\ x.host = g.h.host /\ x.fd = g.h.fd
    BY <1>1 DEF CtxRec
  <2> HIDE DEF e, x
  <2>4. f.r = g.r /\ f.ev = e /\ f.h = x /\ f.jobs = g.jobs /\ f.conns = g.conns
    BY DEF FrameOK, FrameType
  <2>5. FrameOK(f)
    BY <1>2, <2>1
  <2> HIDE DEF f
  <2>6. Settles(f, g)
    BY <1>3, <2>2, <2>3, <2>4, <2>5 DEF Settles
  <2>7. ClientWatched(f)
    BY <1>1, <2>2, <2>4 DEF ClientWatched, Differs
  <2> QED
    BY <2>1, <2>6, <2>7
<1>5. CASE g.h.fd = -1 \/ g.h.state \notin {"READ", "CONNECT_DELAYED", "WRITE"}
  <2>1. mod_fastcgi_handle_joblist(g) = g
    BY <1>5 DEF mod_fastcgi_handle_joblist
  <2> QED
    BY <1>3, <2>1
<1>6. CASE g.h.fd # -1 /\ g.h.state = "READ"
  <2>1. mod_fastcgi_handle_joblist(g) = FcgiWait(g, "IN")
    BY <1>6 DEF mod_fastcgi_handle_joblist
  <2> QED
    BY <1>4, <1>6, <2>1
<1>7. CASE g.h.fd # -1 /\ g.h.state \in {"CONNECT_DELAYED", "WRITE"}
  <2>1. mod_fastcgi_handle_joblist(g) = FcgiWait(g, "OUT")
    BY <1>7 DEF mod_fastcgi_handle_joblist
  <2> QED
    BY <1>4, <1>7, <2>1
<1> QED
  BY <1>5, <1>6, <1>7

\* Whoever waits for the machine to come back has its events.
LEMMA ArmSettles ==
  ASSUME IInv, Holdings, FdsCounted, Requests, Arm
  PROVE  \E f : /\ Commit(cur, f) /\ Settles(f, Frame(cur)) /\ ClientWatched(f)
                /\ pc' = ret /\ ret' = "none" /\ i' = i /\ fdwaitqueue' = fdwaitqueue
<1> DEFINE g == Frame(cur)
           a == RequestEvents(g)
           b == mod_fastcgi_handle_joblist(a)
<1>1. cur \in Conn /\ TablesInv
  BY DEF IInv, CallInv
<1>2. /\ FrameOK(g) /\ Holds(cur, g) /\ RequestOK(g.r, g.h)
      /\ g.r.state = "CONNECT" <=> g.conns.ndx[cur] = -1
  BY <1>1, FrameHolds
<1>3. PICK f \in {a, b} : Commit(cur, f)
  BY DEF Arm
<1>4. pc' = ret /\ ret' = "none" /\ i' = i /\ fdwaitqueue' = fdwaitqueue
  BY DEF Arm, loopVars
<1> HIDE DEF g
<1>5. g.h.fd # g.r.fd
  <2>1. CASE g.conns.ndx[cur] = -1
    <3>1. g.h.fd = -1
      BY <1>2, <2>1 DEF RequestOK, CtxOK, Idle, NoCtx
    <3>2. g.r.fd \in Nat
      BY <1>2, ConstantFacts DEF FrameOK, FrameType, ConRec
    <3> QED
      BY <3>1, <3>2
  <2>2. CASE g.conns.ndx[cur] # -1 /\ g.h.fd # -1
    <3>1. /\ g.ev.fdarray[g.r.fd] = Node("connection", cur)
          /\ g.ev.fdarray[g.h.fd] = Node("fcgi", cur)
      BY <1>1, <1>2, <2>2, FrameFds DEF Holds, Own
    <3> QED
      BY <3>1, NodesDiffer
  <2>3. CASE g.h.fd = -1
    BY <1>2, <2>3, ConstantFacts DEF FrameOK, FrameType, ConRec
  <2> QED
    BY <2>1, <2>2, <2>3
<1>6. Settles(a, g) /\ ClientWatched(a)
  BY <1>2, <1>5, RequestEventsSettle
<1> HIDE DEF a
<1>7. FrameOK(a) /\ a.h.fd # a.r.fd
  BY <1>5, <1>6 DEF Settles
<1>8. Settles(b, a) /\ ClientWatched(b)
  BY <1>6, <1>7, JoblistSettles
<1> HIDE DEF b
<1>9. Settles(b, g)
  BY <1>6, <1>8 DEF Settles, Like
<1> QED
  BY <1>3, <1>4, <1>6, <1>8, <1>9 DEF g

-----------------------------------------------------------------------------
\* The queues, and the other connections.

\* Whoever is in a queue stays there when entries are added.
LEMMA RepeatQueues ==
  ASSUME NEW q \in Seq(Conn), NEW c \in Conn, NEW m \in Nat
  PROVE  /\ \A d : Queued(d, q) => Queued(d, q \o Repeat(c, m))
         /\ m > 0 => Queued(c, q \o Repeat(c, m))
<1> DEFINE t == Repeat(c, m)
<1>1. t \in Seq(Conn) /\ Len(t) = m /\ \A j \in 1 .. m : t[j] = c
  BY DEF Repeat
<1> HIDE DEF t
<1>2. /\ Len(q \o t) = Len(q) + m
      /\ \A j \in 1 .. Len(q) : (q \o t)[j] = q[j]
      /\ m > 0 => (q \o t)[Len(q) + 1] = c
  BY <1>1
<1>3. Len(q) \in Nat
  OBVIOUS
<1> HIDE DEF Queued
<1>4. \A d : Queued(d, q) => Queued(d, q \o t)
  BY <1>2, <1>3 DEF Queued
<1>5. m > 0 => Queued(c, q \o t)
  <2> SUFFICES ASSUME m > 0 PROVE Queued(c, q \o t)
    OBVIOUS
  <2>1. Len(q) + 1 \in 1 .. Len(q \o t)
    BY <1>2, <1>3
  <2> QED
    BY <1>2, <2>1 DEF Queued
<1> QED
  BY <1>4, <1>5 DEF t

\* fdwaitqueue_append, and what the loops over the queues take out.
LEMMA QueueEnds ==
  ASSUME NEW q \in Seq(Conn), NEW c \in Conn
  PROVE  /\ \A d : Queued(d, q) => Queued(d, Append(q, c))
         /\ Queued(c, Append(q, c))
         /\ q # <<>> => Head(q) \in Conn /\ \A d : Queued(d, q) => d = Head(q) \/ Queued(d, Tail(q))
<1>1. /\ Len(Append(q, c)) = Len(q) + 1 /\ Len(q) \in Nat
      /\ \A j \in 1 .. Len(q) : Append(q, c)[j] = q[j]
      /\ Append(q, c)[Len(q) + 1] = c
  OBVIOUS
<1>2. (\A d : Queued(d, q) => Queued(d, Append(q, c))) /\ Queued(c, Append(q, c))
  BY <1>1 DEF Queued
<1>3. ASSUME q # <<>>
      PROVE  Head(q) \in Conn /\ \A d : Queued(d, q) => d = Head(q) \/ Queued(d, Tail(q))
  <2>1. /\ Len(q) \in Nat /\ Len(q) > 0 /\ Len(Tail(q)) = Len(q) - 1
        /\ Head(q) = q[1] /\ Head(q) \in Conn
        /\ \A j \in 1 .. (Len(q) - 1) : Tail(q)[j] = q[j + 1]
    BY <1>3
  <2>2. ASSUME NEW d, NEW j \in 1 .. Len(q), q[j] = d, d # Head(q)
        PROVE  Queued(d, Tail(q))
    <3>1. j - 1 \in 1 .. (Len(q) - 1)
      BY <2>1, <2>2
    <3>2. Tail(q)[j - 1] = d
      BY <2>1, <2>2, <3>1
    <3> QED
      BY <2>1, <3>1, <3>2 DEF Queued
  <2> QED
    BY <2>1, <2>2 DEF Queued
<1> QED
  BY <1>2, <1>3

\* The step has left connection d and its events alone.
Same(d) ==
  /\ con'[d] = con[d] /\ hctx'[d] = hctx[d]
  /\ InUse(d) => /\ con[d].fd \in ev'.rd <=> con[d].fd \in ev.rd
                 /\ con[d].fd \in ev'.wr <=> con[d].fd \in ev.wr
  /\ hctx[d].fd # -1 => /\ hctx[d].fd \in ev'.rd <=> hctx[d].fd \in ev.rd
                        /\ hctx[d].fd \in ev'.wr <=> hctx[d].fd \in ev.wr

\* Such a connection lives on and keeps what wakes it up.
LEMMA SameKeeps ==
  ASSUME TablesInv, NEW d \in Conn, Same(d),
         Queued(d, joblist) => Queued(d, joblist'),
         Queued(d, fdwaitqueue) => Queued(d, fdwaitqueue')
  PROVE  /\ Live(ev, con[d], hctx[d]) => Live(ev', con'[d], hctx'[d])
         /\ InUse(d) /\ HasWakeup(d) => HasWakeup(d)'
<1>1. -1 \notin ev.rd \cup ev.wr
  BY ConstantFacts DEF TablesInv, EvType
<1>2. hctx[d].fd \in ev.rd \cup ev.wr => hctx[d].fd \in ev'.rd \cup ev'.wr
  BY <1>1 DEF Same
<1>3. Live(ev, con[d], hctx[d]) => Live(ev', con'[d], hctx'[d])
  BY <1>2 DEF Live, Same
<1>4. BackendWatched(d) => BackendWatched(d)'
  BY <1>2 DEF Same, BackendWatched
<1>5. InUse(d) /\ HasWakeup(d) => HasWakeup(d)'
  <2> HIDE DEF Queued, BackendWatched
  <2> QED
    BY <1>4 DEF HasWakeup, Same
<1> QED
  BY <1>3, <1>5

\* A handler leaves the connections it was not called for alone.
LEMMA OthersKeep ==
  ASSUME TablesInv, Holdings, Requests, NEW c \in Conn, NEW g, Step(c, g), Commit(c, g),
         NEW d \in Conn \ {c}, Queued(d, fdwaitqueue) => Queued(d, fdwaitqueue')
  PROVE  /\ Live(ev, con[d], hctx[d]) => Live(ev', con'[d], hctx'[d])
         /\ InUse(d)' = InUse(d) /\ con'[d] = con[d]
         /\ InUse(d) /\ HasWakeup(d) => HasWakeup(d)'
<1>1. Same(d) /\ InUse(d)' = InUse(d)
  BY StepKeeps DEF Same
<1>2. g.jobs \in Nat /\ joblist \in Seq(Conn)
  BY DEF Step, Good, FrameOK, FrameType, TablesInv
<1>3. Queued(d, joblist) => Queued(d, joblist')
  BY <1>2, RepeatQueues DEF Commit
<1> QED
  BY <1>1, <1>3, SameKeeps DEF Same

-----------------------------------------------------------------------------
\* Nobody is forgotten.

\* The state machine has not come to an end with connection c.
AtWork(c) == pc \in {"machine", "arm"} /\ cur = c

\* Connection c waits for its client or its backend, or it is closed.
AtRest(c) ==
  LET r == con[c]
  IN \/ r.state \in {"CONNECT", "READ", "READ_POST", "CLOSE"}
     \/ r.state = "WRITE" /\ (r.write_queue => ~r.is_writable)
     \/ r.state = "HANDLE_REQUEST" /\ (Queued(c, fdwaitqueue) \/ BackendWatched(c))

\* Every connection has something that wakes it up, or the machine is at work
\* with it, and will find it at rest in the end.
Wakeups ==
  /\ \A c \in Conn : InUse(c) => HasWakeup(c) \/ AtWork(c)
  /\ pc = "arm" => AtRest(cur)

\* A turn of the machine.
LEMMA MachineWakes ==
  ASSUME IInv, OwnInv, Responses, StateMachine, pc = "machine"
  PROVE  Responses' /\ (Wakeups => Wakeups')
<1>1. cur \in Conn /\ TablesInv /\ Holdings /\ FdsCounted /\ Requests /\ Counters
      /\ fdwaitqueue \in Seq(Conn)
  BY DEF IInv, CallInv, OwnInv, WaitInv
<1>2. PICK f : TurnTo(f)
  BY <1>1, MachineTurns
<1>3. PICK g : Commit(cur, g) /\ Step(cur, g)
  BY <1>1, MachineSteps
<1>4. /\ con'[cur] = f.r /\ hctx'[cur] = f.h /\ ev' = f.ev
      /\ Alive(f) /\ cur' = cur /\ pc' \in {"machine", "arm"}
      /\ \A d : Queued(d, fdwaitqueue) => Queued(d, fdwaitqueue')
  <2>1. con'[cur] = f.r /\ hctx'[cur] = f.h /\ ev' = f.ev
    BY <1>1, <1>2 DEF TurnTo, Commit, TablesInv
  <2>2. \A d : Queued(d, fdwaitqueue) => Queued(d, fdwaitqueue')
    BY <1>1, <1>2, QueueEnds DEF TurnTo
  <2> QED
    BY <1>2, <2>1, <2>2 DEF TurnTo, Turned
<1>5. ASSUME NEW d \in Conn \ {cur}
      PROVE  /\ Live(ev, con[d], hctx[d]) => Live(ev', con'[d], hctx'[d])
             /\ InUse(d)' = InUse(d) /\ (InUse(d) /\ HasWakeup(d) => HasWakeup(d)')
  BY <1>1, <1>3, <1>4, OthersKeep
<1>6. Responses'
  BY <1>4, <1>5 DEF Responses, Alive
<1>7. pc' = "arm" => AtRest(cur)'
  <2>0. SUFFICES ASSUME pc' = "arm" PROVE AtRest(cur)'
    OBVIOUS
  <2>1. f.r.state = con[cur].state
    BY <1>2, <2>0 DEF TurnTo
  <2>2. Frame(cur).r = con[cur]
    BY DEF Frame
  <2>3. Calm(f) \/ (f.r.state = "HANDLE_REQUEST" /\ Queued(cur, fdwaitqueue'))
    BY <1>1, <1>2, <2>1, <2>2, QueueEnds DEF TurnTo, Turned
  <2>4. -1 \notin ev'.rd \cup ev'.wr
    <3>1. TablesInv'
      BY <1>1, <1>3, StepKeeps
    <3> QED
      BY <3>1, ConstantFacts DEF TablesInv, EvType
  <2>5. Waiting(f) => BackendWatched(cur)'
    BY <1>4, <2>4 DEF Waiting, BackendWatched
  <2> HIDE DEF Queued, BackendWatched
  <2> QED
    BY <1>4, <2>3, <2>5 DEF AtRest, Calm, Rests
<1>8. Wakeups => Wakeups'
  <2> SUFFICES ASSUME Wakeups, NEW c \in Conn, InUse(c)'
               PROVE  HasWakeup(c)' \/ AtWork(c)'
    BY <1>7 DEF Wakeups
  <2>1. CASE c = cur
    BY <1>4, <2>1 DEF AtWork
  <2>2. CASE c # cur
    BY <1>5, <2>2 DEF Wakeups, AtWork
  <2> QED
    BY <2>1, <2>2
<1> QED
  BY <1>6, <1>8

\* The machine returns.
LEMMA ArmWakes ==
  ASSUME IInv, OwnInv, Responses, Arm
  PROVE  Responses' /\ (Wakeups => Wakeups')
<1>1. cur \in Conn /\ TablesInv /\ Holdings /\ FdsCounted /\ Requests /\ Counters
      /\ pc = "arm" /\ ret \in {"sweep", "fdwait", "accept", "jobs"}
  BY DEF IInv, CallInv, OwnInv, Arm
<1> DEFINE b == Frame(cur)
<1>2. PICK f : /\ Commit(cur, f) /\ Settles(f, b) /\ ClientWatched(f)
               /\ pc' = ret /\ ret' = "none" /\ i' = i /\ fdwaitqueue' = fdwaitqueue
  BY <1>1, ArmSettles
<1>3. PICK g : Commit(cur, g) /\ Step(cur, g)
  BY <1>1, MachineSteps DEF StateMachine
<1>4. con'[cur] = f.r /\ hctx'[cur] = f.h /\ ev' = f.ev
  BY <1>1, <1>2 DEF Commit, TablesInv
<1>5. b.r = con[cur] /\ b.h = hctx[cur] /\ b.ev = ev
  BY DEF Frame
<1>6. TablesInv' /\ -1 \notin ev'.rd \cup ev'.wr
  <2>1. TablesInv'
    BY <1>1, <1>3, StepKeeps
  <2> QED
    BY <2>1, ConstantFacts DEF TablesInv, EvType
<1> HIDE DEF b
<1>7. ASSUME NEW d \in Conn \ {cur}
      PROVE  /\ Live(ev, con[d], hctx[d]) => Live(ev', con'[d], hctx'[d])
             /\ InUse(d)' = InUse(d) /\ (InUse(d) /\ HasWakeup(d) => HasWakeup(d)')
  BY <1>1, <1>2, <1>3, OthersKeep
<1>8. Live(ev', con'[cur], hctx'[cur])
  <2>1. Live(ev, con[cur], hctx[cur])
    BY <1>1 DEF Responses
  <2> QED
    BY <1>2, <1>4, <1>5, <2>1 DEF Settles, Like, Live
<1>9. Responses'
  BY <1>7, <1>8 DEF Responses
<1>10. PICK c \in Conn : c = cur
  BY <1>1
<1>11. AtRest(cur) => HasWakeup(c)' \/ con'[cur].state = "CONNECT"
  <2> SUFFICES ASSUME AtRest(cur) PROVE HasWakeup(c)' \/ con'[cur].state = "CONNECT"
    OBVIOUS
  <2> DEFINE r == con[cur]
             h == hctx[cur]
  <2>1. /\ f.r.state = r.state /\ f.r.write_queue = r.write_queue
        /\ f.r.is_writable = r.is_writable /\ f.r.file_finished = r.file_finished
        /\ f.r.traffic_limit_reached = r.traffic_limit_reached
        /\ f.h.state = h.state /\ f.h.fd = h.fd
    BY <1>2, <1>5 DEF Settles, Like
  <2>2. BackendWatched(cur) => BackendWatched(c)'
    BY <1>2, <1>4, <1>5, <1>6, <1>10 DEF BackendWatched, Settles
  <2>3. CASE r.state \in {"READ", "READ_POST", "CLOSE"}
    BY <1>2, <1>4, <1>10, <2>1, <2>3 DEF ClientWatched, HasWakeup
  <2>4. CASE r.state = "WRITE" /\ r.write_queue /\ ~r.is_writable
    BY <1>2, <1>4, <1>10, <2>1, <2>4 DEF ClientWatched, HasWakeup
  <2>5. CASE r.state = "WRITE" /\ ~r.write_queue
    <3>1. ~f.r.write_queue /\ f.r.state = "WRITE"
      BY <2>1, <2>5
    <3>2. ~f.r.file_finished /\ f.h.fd \in f.ev.rd \cup f.ev.wr
      BY <1>4, <1>8, <3>1 DEF Live
    <3>3. BackendWatched(c)'
      BY <1>4, <1>6, <1>10, <3>2 DEF BackendWatched
    <3> HIDE DEF BackendWatched
    <3> QED
      BY <1>4, <1>10, <3>1, <3>2, <3>3 DEF HasWakeup
  <2>6. CASE r.state = "HANDLE_REQUEST" /\ (Queued(cur, fdwaitqueue) \/ BackendWatched(cur))
    <3> HIDE DEF BackendWatched, Queued
    <3> QED
      BY <1>2, <1>4, <1>10, <2>1, <2>2, <2>6 DEF HasWakeup
  <2>7. CASE r.state = "CONNECT"
    BY <1>4, <2>1, <2>7
  <2> QED
    BY <2>3, <2>4, <2>5, <2>6, <2>7 DEF AtRest
<1>12. Wakeups => Wakeups'
  <2> SUFFICES ASSUME Wakeups, NEW d \in Conn, InUse(d)' PROVE HasWakeup(d)'
    BY <1>1, <1>2 DEF Wakeups
  <2>1. CASE d = cur
    <3>1. con'[cur].state # "CONNECT"
      <4>1. Requests'
        BY <1>1, <1>3, StepKeeps
      <4> QED
        BY <1>1, <2>1, <4>1 DEF Requests
    <3> QED
      BY <1>1, <1>11, <1>10, <2>1, <3>1 DEF Wakeups
  <2>2. CASE d # cur
    BY <1>7, <2>2 DEF Wakeups, AtWork
  <2> QED
    BY <2>1, <2>2
<1> QED
  BY <1>9, <1>12

\* The connection an event is for.
LEMMA EventLives ==
  ASSUME IInv, OwnInv, Responses, NEW c \in Conn, NEW g, NEW fd \in DOMAIN pending,
         NEW handler, EventStep(c, g, fd, handler)
  PROVE  /\ Lives(g, Frame(c)) /\ (Faults = {} => Woken(g, Frame(c)))
         /\ con'[c] = g.r /\ hctx'[c] = g.h /\ ev' = g.ev /\ InUse(c)
<1> DEFINE b == Frame(c)
<1>1. TablesInv /\ Holdings /\ FdsCounted /\ Requests
  BY DEF IInv, OwnInv
<1>2. /\ FrameOK(b) /\ RequestOK(b.r, b.h) /\ b.r = con[c] /\ b.h = hctx[c] /\ b.ev = ev
  BY <1>1, FrameHolds
<1>3. Alive(b)
  BY <1>2 DEF Responses, Alive
<1>4. con'[c] = g.r /\ hctx'[c] = g.h /\ ev' = g.ev /\ InUse(c)
  BY <1>1 DEF EventStep, Commit, TablesInv, Requests
<1>5. CASE handler = "connection" /\ g \in connection_handle_fdevent(b, pending[fd])
  <2>1. Lives(g, b) /\ g.jobs > b.jobs
    BY <1>2, <1>3, <1>5, ConnectionEventLives DEF EventStep
  <2> QED
    BY <1>4, <2>1 DEF Woken
<1>6. CASE con[c].mode = "FASTCGI" /\ g \in fcgi_handle_fdevent(c, b, pending[fd])
  <2>1. Lives(g, b) /\ (Faults = {} => Woken(g, b))
    BY <1>2, <1>3, <1>6, BackendEventLives
  <2> QED
    BY <1>4, <2>1
<1> QED
  BY <1>5, <1>6 DEF EventStep

\* select()'s reports.
LEMMA EventWakes ==
  ASSUME IInv, OwnInv, Responses, ConnectionEvent \/ BackendEvent
  PROVE  Responses' /\ (Faults = {} /\ Wakeups => Wakeups')
<1>1. TablesInv /\ Holdings /\ Requests
  BY DEF IInv, OwnInv
<1>2. PICK c \in Conn, fd \in DOMAIN pending, handler \in {"connection", "fcgi"} :
        \E g : EventStep(c, g, fd, handler)
  BY EventSteps
<1>3. PICK g : EventStep(c, g, fd, handler)
  BY <1>2
<1>4. pc = "dispatch" /\ pc' = pc /\ fdwaitqueue' = fdwaitqueue
  BY <1>3 DEF EventStep, Dispatching, ConnectionEvent, BackendEvent, waitVars
<1> DEFINE b == Frame(c)
<1>5. /\ Lives(g, b) /\ (Faults = {} => Woken(g, b))
      /\ con'[c] = g.r /\ hctx'[c] = g.h /\ ev' = g.ev /\ InUse(c)
  BY <1>1, <1>3, EventLives
<1>6. b.r = con[c] /\ b.h = hctx[c] /\ b.ev = ev /\ b.jobs = 0
  BY DEF Frame
<1> HIDE DEF b
<1>7. ASSUME NEW d \in Conn \ {c}
      PROVE  /\ Live(ev, con[d], hctx[d]) => Live(ev', con'[d], hctx'[d])
             /\ InUse(d)' = InUse(d) /\ (InUse(d) /\ HasWakeup(d) => HasWakeup(d)')
  <2>1. Step(c, g) /\ Commit(c, g)
    BY <1>3 DEF EventStep
  <2> QED
    BY <1>1, <1>4, <2>1, OthersKeep
<1>8. Responses'
  BY <1>5, <1>7 DEF Responses, Lives, Alive
<1>9. Faults = {} /\ HasWakeup(c) => HasWakeup(c)'
  <2> SUFFICES ASSUME Faults = {}, HasWakeup(c) PROVE HasWakeup(c)'
    OBVIOUS
  <2>1. joblist \in Seq(Conn) /\ g.jobs \in Nat /\ joblist' = joblist \o Repeat(c, g.jobs)
    BY <1>1, <1>3, <1>5 DEF TablesInv, Lives, FrameOK, FrameType, EventStep, Commit
  <2>2. /\ Queued(c, joblist) => Queued(c, joblist')
        /\ g.jobs > 0 => Queued(c, joblist')
    BY <2>1, RepeatQueues
  <2>3. -1 \notin ev'.rd \cup ev'.wr
    BY <1>5, ConstantFacts DEF Lives, FrameOK, FrameType, EvType
  <2>4. CASE g.jobs > b.jobs
    BY <1>6, <2>2, <2>4 DEF HasWakeup
  <2>5. CASE g.r.state = "HANDLE_REQUEST" /\ Waiting(g)
    <3>1. BackendWatched(c)'
      BY <1>5, <2>3, <2>5 DEF Waiting, BackendWatched
    <3> HIDE DEF BackendWatched
    <3> QED
      BY <1>5, <2>5, <3>1 DEF HasWakeup
  <2>6. CASE b.r.state = "ERROR"
    <3>1. Queued(c, joblist)
      BY <1>6, <2>6 DEF HasWakeup
    <3> QED
      BY <2>2, <3>1 DEF HasWakeup
  <2>7. CASE Untroubled(g, b)
    <3>1. BackendWatched(c) => BackendWatched(c)'
      BY <1>5, <1>6, <2>7 DEF Untroubled, BackendWatched
    <3> HIDE DEF BackendWatched, Queued
    <3> QED
      BY <1>4, <1>5, <1>6, <2>2, <2>7, <3>1 DEF Untroubled, HasWakeup
  <2> QED
    BY <1>5, <2>4, <2>5, <2>6, <2>7 DEF Woken
<1>10. Faults = {} /\ Wakeups => Wakeups'
  <2> SUFFICES ASSUME Faults = {}, Wakeups, NEW d \in Conn, InUse(d)'
               PROVE  HasWakeup(d)'
    BY <1>4 DEF Wakeups
  <2>1. HasWakeup(c)
    BY <1>4, <1>5 DEF Wakeups, AtWork
  <2>2. CASE d # c
    BY <1>4, <1>7, <2>2 DEF Wakeups, AtWork
  <2> QED
    BY <1>9, <2>1, <2>2
<1> QED
  BY <1>8, <1>10

\* A client is accepted.
LEMMA AcceptWakes ==
  ASSUME IInv, OwnInv, Responses, Accept
  PROVE  Responses' /\ (Faults = {} /\ Wakeups => Wakeups')
<1> DEFINE slot == conns.ptr[conns.used]
<1>1. pc = "accept" /\ conns.used < max_conns /\ slot \in Conn /\ TablesInv
  BY FreeSlot DEF Accept, IInv
<1>2. PICK fd \in FreeFd(Frame(slot)) :
        /\ Commit(slot, Accepted(slot, fd))
        /\ \/ CallMachine(slot, "accept") /\ k' = k + 1
           \/ "fcntl" \in Faults /\ pc' = "dispatch" /\ k' = 0 /\ UNCHANGED <<cur, ret>>
  BY DEF Accept
<1>3. fdwaitqueue' = fdwaitqueue
  BY DEF Accept, waitVars
<1>4. PICK c \in Conn : c = slot
  BY <1>1
<1> DEFINE f == Accepted(c, fd)
<1>5. fd \in FreeFd(Frame(c)) /\ c = conns.ptr[conns.used]
  BY <1>2, <1>4
<1>6. /\ Good(f) /\ Holds(c, f) /\ RequestOK(f.r, f.h)
      /\ f.r.state = "REQUEST_START" /\ f.h = NoCtx
  BY <1>1, <1>5, AcceptedHolds
<1>7. Commit(c, f)
  BY <1>2, <1>4
<1>8. pc' \in {"machine", "dispatch"} /\ (Faults = {} => pc' = "machine" /\ cur' = c)
  BY <1>2, <1>4 DEF CallMachine
<1> HIDE DEF f, slot
<1>9. Alive(f)
  BY <1>6, AloneLives DEF Alive, RequestOK, Idle
<1>10. con'[c] = f.r /\ hctx'[c] = f.h /\ ev' = f.ev /\ conns' = f.conns
  BY <1>1, <1>7 DEF Commit, TablesInv
<1>11. ASSUME NEW d \in Conn \ {c}
       PROVE  /\ Live(ev, con[d], hctx[d]) => Live(ev', con'[d], hctx'[d])
              /\ InUse(d)' = InUse(d) /\ (InUse(d) /\ HasWakeup(d) => HasWakeup(d)')
  <2>1. Same(d) /\ InUse(d)' = InUse(d)
    <3>1. con'[d] = con[d] /\ hctx'[d] = hctx[d]
      BY <1>1, <1>7 DEF Commit, TablesInv
    <3> QED
      BY <1>6, <1>10, <3>1 DEF Same, Holds, Aside, InUse
  <2>2. Queued(d, joblist) => Queued(d, joblist')
    <3>1. joblist \in Seq(Conn) /\ f.jobs \in Nat /\ joblist' = joblist \o Repeat(c, f.jobs)
      BY <1>1, <1>6, <1>7 DEF TablesInv, Good, FrameOK, FrameType, Commit
    <3> QED
      BY <3>1, RepeatQueues
  <2> QED
    BY <1>1, <1>3, <2>1, <2>2, SameKeeps
<1>12. Responses'
  BY <1>9, <1>10, <1>11 DEF Responses, Alive
<1>13. Faults = {} /\ Wakeups => Wakeups'
  <2> SUFFICES ASSUME Faults = {}, Wakeups, NEW d \in Conn, InUse(d)'
               PROVE  HasWakeup(d)' \/ AtWork(d)'
    BY <1>8 DEF Wakeups
  <2>1. CASE d = c
    BY <1>8, <2>1 DEF AtWork
  <2>2. CASE d # c
    BY <1>1, <1>11, <2>2 DEF Wakeups, AtWork
  <2> QED
    BY <2>1, <2>2
<1> QED
  BY <1>12, <1>13

\* The loops over the two queues call the machine for those they take out.
LEMMA QueueWakes ==
  ASSUME IInv, OwnInv, Responses, FdWait \/ Job
  PROVE  Responses' /\ (Wakeups => Wakeups')
<1>1. /\ UNCHANGED <<ev, con, hctx, conns>> /\ pc' = "machine" /\ pc \in {"fdwait", "jobs"}
      /\ TablesInv /\ joblist \in Seq(Conn) /\ fdwaitqueue \in Seq(Conn)
  BY DEF FdWait, Job, CallMachine, connVars, IInv, TablesInv, WaitInv
<1>2. \A c \in Conn \ {cur'} : /\ Queued(c, joblist) => Queued(c, joblist')
                               /\ Queued(c, fdwaitqueue) => Queued(c, fdwaitqueue')
  <2>1. CASE FdWait
    <3>1. /\ fdwaitqueue # <<>> /\ fdwaitqueue' = Tail(fdwaitqueue)
          /\ cur' = Head(fdwaitqueue) /\ joblist' = joblist
      BY <2>1 DEF FdWait, CallMachine, connVars
    <3>2. cur' \in Conn /\ \A d : Queued(d, fdwaitqueue) => d = cur' \/ Queued(d, fdwaitqueue')
      BY <1>1, <3>1, QueueEnds, ConstantFacts
    <3> QED
      BY <3>1, <3>2
  <2>2. CASE Job
    <3>1. /\ joblist # <<>> /\ joblist' = Tail(joblist)
          /\ cur' = Head(joblist) /\ fdwaitqueue' = fdwaitqueue
      BY <2>2 DEF Job, CallMachine, waitVars
    <3>2. cur' \in Conn /\ \A d : Queued(d, joblist) => d = cur' \/ Queued(d, joblist')
      BY <1>1, <3>1, QueueEnds, ConstantFacts
    <3> QED
      BY <3>1, <3>2
  <2> QED
    BY <2>1, <2>2
<1>3. Responses'
  BY <1>1 DEF Responses
<1>4. Wakeups => Wakeups'
  <2> SUFFICES ASSUME Wakeups, NEW c \in Conn, InUse(c)', c # cur'
               PROVE  HasWakeup(c)'
    BY <1>1 DEF Wakeups, AtWork
  <2>1. InUse(c) /\ Same(c)
    BY <1>1 DEF InUse, Same
  <2>2. HasWakeup(c)
    BY <1>1, <2>1 DEF Wakeups, AtWork
  <2> QED
    BY <1>1, <1>2, <2>1, <2>2, SameKeeps
<1> QED
  BY <1>3, <1>4

\* A step that moves no connection, queue or event.
LEMMA QuietWakes ==
  ASSUME Responses, UNCHANGED <<ev, con, hctx, conns, joblist, fdwaitqueue>>,
         UNCHANGED <<pc, cur>> \/ (pc \notin {"machine", "arm"} /\ pc' # "arm")
  PROVE  Responses' /\ (Wakeups => Wakeups')
<1>1. Responses'
  BY DEF Responses
<1>2. \A c : (HasWakeup(c) <=> HasWakeup(c)') /\ (InUse(c) <=> InUse(c)')
             /\ (AtRest(c) <=> AtRest(c)')
  BY DEF HasWakeup, InUse, AtRest, Queued, BackendWatched
<1>3. Wakeups => Wakeups'
  <2> HIDE DEF HasWakeup, InUse, AtRest
  <2> QED
    BY <1>2 DEF Wakeups, AtWork
<1> QED
  BY <1>1, <1>3

\* The clock, and a connection the sweep has found too old.
LEMMA SweepWakes ==
  ASSUME IInv, OwnInv, Responses, NewSecond \/ Sweep
  PROVE  Responses' /\ (Wakeups => Wakeups')
<1>1. TablesInv /\ con \in [Conn -> ConRec]
  BY DEF IInv, TablesInv
<1>2. CASE NewSecond
  <2>1. /\ \A c \in Conn : con'[c] = Aged(con[c]) /\ con[c] \in ConRec
        /\ UNCHANGED <<ev, hctx, conns, joblist, fdwaitqueue>>
        /\ pc = "alarm" /\ pc' = "sweep"
    BY <1>1, <1>2 DEF NewSecond, waitVars
  <2>2. ASSUME NEW c \in Conn
        PROVE  /\ con'[c].state = con[c].state /\ con'[c].fd = con[c].fd
               /\ con'[c].is_writable = con[c].is_writable /\ con'[c].mode = con[c].mode
               /\ con'[c].file_started = con[c].file_started
               /\ con'[c].file_finished = con[c].file_finished
               /\ con'[c].write_queue = con[c].write_queue
               /\ con'[c].traffic_limit_reached = con[c].traffic_limit_reached
    <3> SUFFICES ASSUME NEW r \in ConRec
                 PROVE  /\ Aged(r).state = r.state /\ Aged(r).fd = r.fd
                        /\ Aged(r).is_writable = r.is_writable /\ Aged(r).mode = r.mode
                        /\ Aged(r).file_started = r.file_started
                        /\ Aged(r).file_finished = r.file_finished
                        /\ Aged(r).write_queue = r.write_queue
                        /\ Aged(r).traffic_limit_reached = r.traffic_limit_reached
      BY <2>1
    <3> QED
      BY DEF Aged, ConRec
  <2>3. Responses'
    BY <2>1, <2>2 DEF Responses, Live
  <2>4. ASSUME NEW c \in Conn, HasWakeup(c)
        PROVE  HasWakeup(c)'
    <3>1. BackendWatched(c) => BackendWatched(c)'
      BY <2>1 DEF BackendWatched
    <3> HIDE DEF BackendWatched, Queued
    <3> QED
      BY <2>1, <2>2, <2>4, <3>1 DEF HasWakeup
  <2>5. Wakeups => Wakeups'
    BY <2>1, <2>4 DEF Wakeups, AtWork, InUse
  <2> QED
    BY <2>3, <2>5
<1>3. CASE Sweep
  <2> DEFINE slot == conns.ptr[i]
             r == IF TimedOut(con[slot]) THEN [con[slot] EXCEPT !.state = "ERROR"] ELSE con[slot]
             x(enable) == [r EXCEPT !.traffic_limit_reached = @ /\ ~enable]
  <2>1. pc = "sweep" /\ UNCHANGED <<ev, hctx, conns, joblist, fdwaitqueue>> /\ slot \in Conn
    <3>1. /\ i \in 0 .. max_conns /\ conns.used \in 0 .. max_conns /\ i < conns.used
          /\ max_conns \in Nat
      BY <1>3, ServerAssumption DEF Sweep, IInv, LoopInv, TablesInv, PoolOK, PoolType
    <3>2. i \in Conn
      BY <3>1 DEF Conn
    <3> QED
      BY <1>1, <1>3, <3>2 DEF Sweep, waitVars, TablesInv, PoolOK, PoolType
  <2>2. PICK enable \in Reenabled(r) :
          /\ con' = [con EXCEPT ![slot] = x(enable)]
          /\ IF Changed(con[slot], enable)
             THEN CallMachine(slot, "sweep") ELSE UNCHANGED <<pc, cur, ret>>
    BY <1>3 DEF Sweep
  <2>3. enable \in BOOLEAN /\ con[slot] \in ConRec
    BY <1>1, <2>1 DEF Reenabled
  <2>4. PICK c \in Conn : c = slot
    BY <2>1
  <2>5. con'[c] = x(enable) /\ \A d \in Conn \ {c} : con'[d] = con[d]
    BY <1>1, <2>2, <2>4
  <2>6. r.state \in {con[c].state, "ERROR"} /\ r.mode = con[c].mode
        /\ r.is_writable = con[c].is_writable /\ r.write_queue = con[c].write_queue
        /\ r.file_started = con[c].file_started /\ r.file_finished = con[c].file_finished
        /\ r \in ConRec
    BY <2>3, <2>4 DEF ConRec, ConStates
  <2>7. /\ x(enable).state = r.state /\ x(enable).mode = r.mode
        /\ x(enable).is_writable = r.is_writable /\ x(enable).write_queue = r.write_queue
        /\ x(enable).file_started = r.file_started /\ x(enable).file_finished = r.file_finished
    BY <2>6 DEF ConRec
  <2>8. Live(ev, con[c], hctx[c]) => Live(ev', con'[c], hctx'[c])
    <3> HIDE DEF r, x
    <3> QED
      BY <2>1, <2>5, <2>6, <2>7 DEF Live
  <2>9. Responses'
    BY <2>1, <2>5, <2>8 DEF Responses
  <2>10. Changed(con[c], enable) => pc' = "machine" /\ cur' = c
    BY <2>2, <2>4 DEF CallMachine
  <2>11. ~Changed(con[c], enable) => con'[c] = con[c] /\ pc' = pc
    <3> SUFFICES ASSUME ~Changed(con[c], enable) PROVE con'[c] = con[c] /\ pc' = pc
      OBVIOUS
    <3>1. enable = FALSE /\ r = con[c] /\ pc' = pc
      BY <2>2, <2>3, <2>4 DEF Changed
    <3>2. x(enable) = con[c]
      BY <2>3, <2>4, <3>1 DEF ConRec
    <3> QED
      BY <2>5, <3>1, <3>2
  <2> HIDE DEF slot, r, x
  <2>12. ASSUME NEW d \in Conn, d # c \/ ~Changed(con[c], enable), InUse(d), HasWakeup(d)
         PROVE  HasWakeup(d)'
    <3>1. Same(d)
      BY <2>1, <2>5, <2>11, <2>12 DEF Same
    <3> QED
      BY <1>1, <2>1, <2>12, <3>1, SameKeeps
  <2>13. Wakeups => Wakeups'
    <3> SUFFICES ASSUME Wakeups, NEW d \in Conn, InUse(d)'
                 PROVE  HasWakeup(d)' \/ AtWork(d)'
      BY <2>1, <2>10, <2>11 DEF Wakeups
    <3>1. InUse(d) /\ HasWakeup(d)
      BY <2>1 DEF Wakeups, AtWork, InUse
    <3>2. CASE d = c /\ Changed(con[c], enable)
      BY <2>10, <3>2 DEF AtWork
    <3> QED
      BY <2>12, <3>1, <3>2
  <2> QED
    BY <2>9, <2>13
<1> QED
  BY <1>2, <1>3

\* Accepting on and off concerns the listening socket.
LEMMA SocketsWake ==
  ASSUME IInv, OwnInv, Responses, EnableSockets \/ DisableSockets
  PROVE  Responses' /\ (Wakeups => Wakeups')
<1>1. /\ TablesInv /\ Untouched /\ pc = "sockets" /\ pc' = "graceful"
      /\ UNCHANGED <<con, hctx, conns, joblist, fdwaitqueue>>
  BY SocketsUntouched DEF IInv, EnableSockets, DisableSockets, waitVars
<1>2. ASSUME NEW c \in Conn
      PROVE  Same(c)
  <2>1. con[c].fd \in Fd \cup {0} /\ hctx[c].fd \in Fd \cup {-1}
    BY <1>1 DEF TablesInv, ConRec, CtxRec
  <2>2. listen_fd # 0
    BY FdAssumption DEF listen_fd
  <2>3. con[c].fd \in AnyFd \ {listen_fd} /\ (hctx[c].fd # -1 => hctx[c].fd \in AnyFd \ {listen_fd})
    BY <2>1, <2>2, ConstantFacts
  <2> QED
    BY <1>1, <2>3 DEF Same, Untouched
<1>3. \A c \in Conn : /\ Live(ev, con[c], hctx[c]) => Live(ev', con'[c], hctx'[c])
                      /\ InUse(c) /\ HasWakeup(c) => HasWakeup(c)'
  BY <1>1, <1>2, SameKeeps
<1>4. Responses'
  BY <1>3 DEF Responses
<1>5. Wakeups => Wakeups'
  <2>1. \A c : InUse(c)' = InUse(c)
    BY <1>1 DEF InUse
  <2> QED
    BY <1>1, <1>3, <2>1 DEF Wakeups, AtWork
<1> QED
  BY <1>4, <1>5

\* Every step of the worker.
LEMMA NextWakes ==
  ASSUME IInv, OwnInv, Responses, [Next]_vars
  PROVE  Responses' /\ (Faults = {} /\ Wakeups => Wakeups')
<1>1. CASE StateMachine
  <2>1. pc \in {"machine", "arm"} /\ (pc = "arm" => Arm)
    BY <1>1 DEF StateMachine, SmRequestStart, SmRead, SmRequestEnd, SmHandleRequest,
       SmResponseStart, SmWrite, SmResponseEnd, SmConnect, SmError, SmClose, Arm, At
  <2> QED
    BY <1>1, <2>1, MachineWakes, ArmWakes
<1>2. CASE ConnectionEvent \/ BackendEvent
  BY <1>2, EventWakes
<1>3. CASE Accept
  BY <1>3, AcceptWakes
<1>4. CASE FdWait \/ Job
  BY <1>4, QueueWakes
<1>5. CASE NewSecond \/ Sweep
  BY <1>5, SweepWakes
<1>6. CASE EnableSockets \/ DisableSockets
  BY <1>6, SocketsWake
<1>7. CASE \/ SameSecond \/ SweepDone \/ KeepSockets \/ CheckGraceful \/ FdWaitDone
           \/ Poll \/ ServerEvent \/ Crash \/ DispatchDone \/ AcceptDone \/ JobsDone \/ Exit
  <2>1. /\ UNCHANGED <<ev, con, hctx, conns, joblist, fdwaitqueue>>
        /\ pc \notin {"machine", "arm"} /\ pc' # "arm"
    BY <1>7 DEF connVars, waitVars, SameSecond, SweepDone, KeepSockets, CheckGraceful,
       FdWaitDone, Poll, ServerEvent, Crash, DispatchDone, AcceptDone, JobsDone, Exit,
       Dispatching
  <2> QED
    BY <2>1, QuietWakes
<1>8. CASE Sigint \/ Sigterm \/ Stopped \/ UNCHANGED vars
  <2>1. UNCHANGED <<ev, con, hctx, conns, joblist, fdwaitqueue, pc, cur>>
    BY <1>8 DEF connVars, waitVars, Sigint, Sigterm, Stopped, vars
  <2> QED
    BY <2>1, QuietWakes
<1> QED
  BY <1>1, <1>2, <1>3, <1>4, <1>5, <1>6, <1>7, <1>8 DEF Next, ServerStep

\* At the start nobody is connected.
LEMMA InitWakes ==
  ASSUME Init
  PROVE  Responses /\ Wakeups
<1>1. /\ \A c \in Conn : con[c] = connection_init /\ hctx[c] = NoCtx /\ conns.ndx[c] = -1
      /\ pc = "alarm"
  BY DEF Init
<1>2. Responses
  <2>1. Live(ev, connection_init, NoCtx)
    BY AloneLives DEF connection_init
  <2> QED
    BY <1>1, <2>1 DEF Responses
<1>3. Wakeups
  BY <1>1 DEF Wakeups, InUse
<1> QED
  BY <1>2, <1>3

\* Every response has somebody who goes on with it, whatever system calls fail:
\* a backend that is watched, or content that is still to be written.
THEOREM ResponsesGoOn == Spec => []Responses
<1>1. Init => Responses
  BY InitWakes
<1>2. IInv /\ OwnInv /\ Responses /\ [Next]_vars => Responses'
  BY NextWakes
<1> QED
  BY <1>1, <1>2, Invariance, Ownership, PTL DEF Spec

\* As long as fcntl() does not fail for an accepted client (network.c:42), and
\* no backend drops a connection before it has taken a byte
\* (mod_fastcgi.c:3031), no connection is forgotten when the worker goes to
\* sleep in select() (server.c:1215).
THEOREM NobodyIsForgotten == ASSUME Faults = {} PROVE Spec => []NobodyForgotten
<1>1. Init => Wakeups
  BY InitWakes
<1>2. IInv /\ OwnInv /\ Responses /\ Wakeups /\ [Next]_vars => Wakeups'
  BY NextWakes
<1>3. Wakeups => NobodyForgotten
  BY DEF Wakeups, AtWork, NobodyForgotten
<1> QED
  BY <1>1, <1>2, <1>3, ResponsesGoOn, Invariance, Ownership, PTL DEF Spec

-----------------------------------------------------------------------------
\* The idle limits.

\* How often connection c may have been passed over by the sweep: each time it
\* was moved down from a slot above its own.
Slack(c) == max_conns - 1 - conns.ndx[c]

\* The sweep of this second has not come to connection c.
SweepSlack(c) == IF (pc = "sweep" \/ ret = "sweep") /\ conns.ndx[c] >= i THEN 1 ELSE 0

\* The machine is about to write the first piece of c's response; only then
\* write_request_ts is set.
AboutToWrite(c) == pc = "machine" /\ cur = c /\ con[c].write_queue /\ con[c].is_writable

\* The timestamps of connection r, as ages, are within their limits and the
\* given slack; in a state the sweep does not look at there is no other.
Timely(r, slack, extra, writing) ==
  /\ r.state \in {"READ", "READ_POST"} => r.read_idle <= ReadIdleLimit(r) + slack + extra
  /\ r.state = "REQUEST_END" => r.read_idle <= ReadIdleLimit(r) + slack
  /\ r.state = "WRITE" /\ ~writing =>
       r.write_idle # Unset /\ r.write_idle <= max_write_idle + slack + extra

\* Every connection is timely; one the sweep calls the machine for is in the
\* slot it has just looked at, until it is closed.
TimeInv ==
  /\ \A c \in Conn : InUse(c) => Timely(con[c], Slack(c), SweepSlack(c), AboutToWrite(c))
  /\ ret = "sweep" => i >= 1 /\ conns.ndx[cur] \in {i - 1, -1}

\* The limits and ages are numbers.
LEMMA TimeTypes ==
  ASSUME IInv, NEW c \in Conn
  PROVE  /\ Slack(c) \in Int /\ SweepSlack(c) \in {0, 1} /\ conns.ndx[c] \in Conn \cup {-1}
         /\ InUse(c) => Slack(c) \in Nat
         /\ con[c] \in ConRec /\ con[c].read_idle \in Nat /\ con[c].write_idle \in Int
         /\ con[c].write_idle >= -1 /\ max_write_idle \in Nat
         /\ ReadIdleLimit(con[c]) \in Nat /\ i \in Nat
<1>1. conns.ndx[c] \in Conn \cup {-1} /\ con[c] \in ConRec /\ i \in Nat
  BY ServerAssumption DEF IInv, TablesInv, PoolOK, PoolType, LoopInv
<1>2. con[c].read_idle \in Nat /\ con[c].write_idle \in Int /\ con[c].write_idle >= -1
  BY <1>1, RangeFacts DEF ConRec, Unset
<1>3. max_write_idle \in Nat /\ ReadIdleLimit(con[c]) \in Nat
  BY ServerAssumption DEF ReadIdleLimit
<1>4. Slack(c) \in Int /\ (InUse(c) => Slack(c) \in Nat)
  BY <1>1, ServerAssumption DEF Slack, Conn, InUse
<1> QED
  BY <1>1, <1>2, <1>3, <1>4 DEF SweepSlack

\* More slack does no harm.
LEMMA TimelyMore ==
  ASSUME NEW r \in ConRec, NEW s \in Int, NEW x \in {0, 1}, NEW s2 \in Int, NEW x2 \in {0, 1},
         NEW w, NEW w2, Timely(r, s, x, w), s2 >= s, s2 + x2 >= s + x, w => w2
  PROVE  Timely(r, s2, x2, w2)
<1>1. /\ r.read_idle \in Int /\ r.write_idle \in Int /\ max_write_idle \in Int
      /\ ReadIdleLimit(r) \in Int
  BY ServerAssumption, RangeFacts DEF ConRec, ReadIdleLimit, Unset
<1> HIDE DEF ReadIdleLimit
<1> QED
  BY <1>1 DEF Timely

\* What is new, or was timely before, is timely.
LEMMA AgesTimely ==
  ASSUME NEW x \in ConRec, NEW r \in ConRec, NEW s \in Nat, Ages(x, r), Timely(r, s, 0, FALSE)
  PROVE  Timely(x, s, 0, FALSE)
<1>1. /\ max_write_idle \in Nat /\ ReadIdleLimit(r) \in Nat /\ ReadIdleLimit(x) \in Nat
      /\ r.read_idle \in Int /\ r.write_idle \in Int
  BY ServerAssumption, RangeFacts DEF ReadIdleLimit, ConRec, Unset
<1>2. x.request_count = r.request_count => ReadIdleLimit(x) = ReadIdleLimit(r)
  BY DEF ReadIdleLimit
<1> HIDE DEF ReadIdleLimit
<1>3. x.state \in {"READ", "READ_POST", "REQUEST_END"} => x.read_idle <= ReadIdleLimit(x) + s
  BY <1>1, <1>2 DEF Ages, Timely
<1>4. x.state = "WRITE" => x.write_idle # Unset /\ x.write_idle <= max_write_idle + s
  BY <1>1 DEF Ages, Timely, Unset
<1> QED
  BY <1>1, <1>3, <1>4 DEF Timely

\* A turn of the machine: its connection is timely or about to write, and the
\* one that takes its slot comes closer to the front.
LEMMA MachineTimes ==
  ASSUME IInv, OwnInv, Responses, TimeInv, StateMachine, pc = "machine"
  PROVE  TimeInv'
<1>1. cur \in Conn /\ TablesInv /\ Holdings /\ FdsCounted /\ Requests /\ Counters /\ IInv'
  BY StateMachineOK DEF IInv, CallInv, OwnInv
<1>2. PICK f : TurnTo(f)
  BY <1>1, MachineTurns
<1>3. PICK g : Commit(cur, g) /\ Step(cur, g)
  BY <1>1, MachineSteps
<1> DEFINE b == Frame(cur)
<1>4. b.r = con[cur] /\ b.conns = conns
  BY DEF Frame
<1>5. /\ con'[cur] = f.r /\ conns' = f.conns /\ Turned(cur, f, b)
      /\ cur' = cur /\ ret' = ret /\ i' = i
      /\ pc' = IF f.r.state = con[cur].state THEN "arm" ELSE "machine"
  BY <1>1, <1>2 DEF TurnTo, Commit, TablesInv
<1>6. InUse(cur)' => InUse(cur) /\ conns' = conns
  BY <1>3, <1>5 DEF Step, Commit, InUse
<1>7. \A d \in Conn \ {cur} : con'[d] = con[d] /\ InUse(d)' = InUse(d)
  BY <1>1, <1>3, StepKeeps
<1> HIDE DEF b
<1>8. ret' = "sweep" => i' >= 1 /\ conns'.ndx[cur'] \in {i' - 1, -1}
  BY <1>1, <1>5, <1>6 DEF TimeInv, InUse
<1>9. SweepSlack(cur) = 0 /\ (InUse(cur)' => SweepSlack(cur)' = 0)
  <2>1. i \in Nat
    BY <1>1, TimeTypes
  <2>2. SweepSlack(cur) = 0
    BY <1>1, <2>1 DEF TimeInv, SweepSlack
  <2>3. InUse(cur)' => SweepSlack(cur)' = 0
    BY <1>5, <1>8, <2>1 DEF SweepSlack, InUse
  <2> QED
    BY <2>2, <2>3
<1>10. InUse(cur)' => Timely(con[cur], Slack(cur), SweepSlack(cur), AboutToWrite(cur))'
  <2> SUFFICES ASSUME InUse(cur)'
               PROVE  Timely(f.r, Slack(cur)', SweepSlack(cur)', AboutToWrite(cur)')
    BY <1>5
  <2>1. /\ Slack(cur)' = Slack(cur) /\ Slack(cur) \in Nat /\ con[cur] \in ConRec
        /\ Timely(con[cur], Slack(cur), 0, AboutToWrite(cur))
    BY <1>1, <1>5, <1>6, <1>9, TimeTypes DEF Slack, TimeInv
  <2>2. f.r \in ConRec
    BY <1>1, <1>5 DEF IInv, TablesInv
  <2> DEFINE s == Slack(cur)
             r == con[cur]
  <2>3. /\ max_write_idle \in Nat /\ ReadIdleLimit(r) \in Nat /\ ReadIdleLimit(f.r) \in Nat
        /\ r.read_idle \in Int /\ r.write_idle \in Int
        /\ f.r.request_count = r.request_count => ReadIdleLimit(f.r) = ReadIdleLimit(r)
    BY <2>1, <2>2, ServerAssumption, RangeFacts DEF ReadIdleLimit, ConRec, Unset
  <2>4. f.r.state \in {"READ", "READ_POST", "REQUEST_END"} => f.r.read_idle <= ReadIdleLimit(f.r) + s
    <3> HIDE DEF ReadIdleLimit, s
    <3> QED
      BY <1>4, <1>5, <2>1, <2>3 DEF Turned, Timely, s
  <2>5. f.r.state = "WRITE" =>
          AboutToWrite(cur)' \/ (f.r.write_idle # Unset /\ f.r.write_idle <= max_write_idle + s)
    <3> SUFFICES ASSUME f.r.state = "WRITE", ~AboutToWrite(cur)'
                 PROVE  f.r.write_idle # Unset /\ f.r.write_idle <= max_write_idle + s
      OBVIOUS
    <3>1. \/ f.r.write_idle = 0
          \/ r.state = "WRITE" /\ Rests(b) /\ f.r.write_idle = r.write_idle
      <4>1. ~(r.state = "RESPONSE_START" /\ f.r.write_queue /\ f.r.is_writable)
        BY <1>1, <1>5 DEF AboutToWrite
      <4> QED
        BY <1>4, <1>5, <4>1 DEF Turned
    <3>2. Rests(b) /\ r.state = "WRITE" => ~AboutToWrite(cur)
      BY <1>4 DEF Rests, AboutToWrite
    <3> HIDE DEF s
    <3> QED
      BY <2>1, <2>3, <3>1, <3>2 DEF Timely, Unset, s
  <2> HIDE DEF ReadIdleLimit
  <2> QED
    BY <1>9, <2>1, <2>3, <2>4, <2>5 DEF Timely
<1>11. ASSUME NEW d \in Conn \ {cur}, InUse(d)'
       PROVE  Timely(con[d], Slack(d), SweepSlack(d), AboutToWrite(d))'
  <2>1. /\ InUse(d) /\ Timely(con[d], Slack(d), SweepSlack(d), AboutToWrite(d))
        /\ con'[d] = con[d] /\ ~AboutToWrite(d)
    BY <1>7, <1>11 DEF TimeInv, AboutToWrite
  <2>2. /\ Slack(d) \in Int /\ SweepSlack(d) \in {0, 1} /\ con[d] \in ConRec
        /\ conns.ndx[d] \in Conn \cup {-1} /\ i \in Nat
    BY <1>1, TimeTypes
  <2>3. Slack(d)' \in Int /\ SweepSlack(d)' \in {0, 1} /\ conns'.ndx[d] \in Conn \cup {-1}
    <3>1. conns'.ndx[d] \in Conn \cup {-1} /\ max_conns \in Nat
      BY <1>1, ServerAssumption DEF IInv, TablesInv, PoolOK, PoolType
    <3>2. conns'.ndx[d] \in Int
      BY <3>1, ConstantFacts
    <3> QED
      BY <3>1, <3>2 DEF Slack, SweepSlack
  <2>4. conns'.ndx[d] = conns.ndx[d] \/ conns'.ndx[d] < conns.ndx[d]
    BY <1>4, <1>5 DEF Turned, Shifted
  <2>5. Slack(d)' >= Slack(d) /\ Slack(d)' + SweepSlack(d)' >= Slack(d) + SweepSlack(d)
    <3>1. max_conns \in Nat /\ conns.ndx[d] \in Int /\ conns'.ndx[d] \in Int
      BY <2>2, <2>3, ServerAssumption DEF Conn
    <3>2. conns'.ndx[d] = conns.ndx[d] => SweepSlack(d)' = SweepSlack(d)
      BY <1>1, <1>5, <2>2 DEF SweepSlack, StateMachine
    <3> QED
      BY <2>2, <2>3, <2>4, <3>1, <3>2 DEF Slack
  <2> QED
    BY <2>1, <2>2, <2>3, <2>5, TimelyMore
<1> QED
  BY <1>5, <1>8, <1>10, <1>11 DEF TimeInv

\* A connection that keeps its timestamps, its slot and its part of the sweep.
LEMMA KeptTimely ==
  ASSUME IInv, TimeInv, NEW c \in Conn, InUse(c), conns'.ndx[c] = conns.ndx[c],
         SweepSlack(c)' = SweepSlack(c), AboutToWrite(c) => AboutToWrite(c)',
         con'[c].state = con[c].state, con'[c].read_idle = con[c].read_idle,
         con'[c].write_idle = con[c].write_idle, con'[c].request_count = con[c].request_count
  PROVE  Timely(con[c], Slack(c), SweepSlack(c), AboutToWrite(c))'
<1>1. Timely(con[c], Slack(c), SweepSlack(c), AboutToWrite(c))
  BY DEF TimeInv
<1>2. Slack(c)' = Slack(c) /\ ReadIdleLimit(con[c])' = ReadIdleLimit(con[c])
  BY DEF Slack, ReadIdleLimit
<1> HIDE DEF ReadIdleLimit, AboutToWrite
<1> QED
  BY <1>1, <1>2 DEF Timely

\* A step that leaves the connections, their slots and the sweep alone.
LEMMA QuietTimes ==
  ASSUME IInv, TimeInv, UNCHANGED <<con, conns>>,
         \/ UNCHANGED <<pc, cur, ret, i>>
         \/ pc \notin {"machine", "arm", "sweep"} /\ pc' # "sweep" /\ ret' # "sweep"
  PROVE  TimeInv'
<1>1. pc \notin {"machine", "arm"} => ret # "sweep"
  BY DEF IInv, CallInv
<1>2. \A c : /\ SweepSlack(c)' = SweepSlack(c)
             /\ AboutToWrite(c) => AboutToWrite(c)'
  BY <1>1 DEF SweepSlack, AboutToWrite
<1>3. ASSUME NEW c \in Conn, InUse(c)'
      PROVE  Timely(con[c], Slack(c), SweepSlack(c), AboutToWrite(c))'
  <2>1. InUse(c)
    BY <1>3 DEF InUse
  <2> QED
    BY <1>2, <2>1, KeptTimely
<1>4. ret' = "sweep" => i' >= 1 /\ conns'.ndx[cur'] \in {i' - 1, -1}
  BY DEF TimeInv
<1> QED
  BY <1>3, <1>4 DEF TimeInv

\* The machine returns.
LEMMA ArmTimes ==
  ASSUME IInv, OwnInv, TimeInv, Arm
  PROVE  TimeInv'
<1>1. cur \in Conn /\ TablesInv /\ Holdings /\ FdsCounted /\ Requests /\ Counters
      /\ pc = "arm" /\ ret \in {"sweep", "fdwait", "accept", "jobs"}
  BY DEF IInv, CallInv, OwnInv, Arm
<1> DEFINE b == Frame(cur)
<1>2. PICK f : /\ Commit(cur, f) /\ Settles(f, b) /\ ClientWatched(f)
               /\ pc' = ret /\ ret' = "none" /\ i' = i /\ fdwaitqueue' = fdwaitqueue
  BY <1>1, ArmSettles
<1>3. con'[cur] = f.r /\ conns' = f.conns /\ \A d \in Conn \ {cur} : con'[d] = con[d]
  BY <1>1, <1>2 DEF Commit, TablesInv
<1>4. b.r = con[cur] /\ b.conns = conns
  BY DEF Frame
<1> HIDE DEF b
<1>5. ASSUME NEW c \in Conn, InUse(c)'
      PROVE  Timely(con[c], Slack(c), SweepSlack(c), AboutToWrite(c))'
  <2>1. conns' = conns /\ InUse(c)
    BY <1>2, <1>3, <1>4, <1>5 DEF Settles, InUse
  <2>2. SweepSlack(c)' = SweepSlack(c) /\ ~AboutToWrite(c)
    BY <1>1, <1>2, <2>1 DEF SweepSlack, AboutToWrite
  <2>3. /\ con'[c].state = con[c].state /\ con'[c].read_idle = con[c].read_idle
        /\ con'[c].write_idle = con[c].write_idle
        /\ con'[c].request_count = con[c].request_count
    BY <1>2, <1>3, <1>4 DEF Settles, Like
  <2> QED
    BY <2>1, <2>2, <2>3, KeptTimely
<1> QED
  BY <1>2, <1>5 DEF TimeInv

\* An event that brings input or takes output makes the connection younger.
LEMMA EventTimes ==
  ASSUME IInv, OwnInv, Responses, TimeInv, ConnectionEvent \/ BackendEvent
  PROVE  TimeInv'
<1>1. TablesInv /\ Holdings /\ Requests
  BY DEF IInv, OwnInv
<1>2. PICK c \in Conn, fd \in DOMAIN pending, handler \in {"connection", "fcgi"} :
        \E g : EventStep(c, g, fd, handler)
  BY EventSteps
<1>3. PICK g : EventStep(c, g, fd, handler)
  BY <1>2
<1>4. pc = "dispatch" /\ pc' = pc /\ ret = "none" /\ ret' = "none" /\ i' = i
  BY <1>3 DEF EventStep, Dispatching, ConnectionEvent, BackendEvent, IInv, CallInv
<1>5. Lives(g, Frame(c)) /\ con'[c] = g.r /\ InUse(c)
  BY <1>1, <1>3, EventLives
<1>6. \A d \in Conn \ {c} : con'[d] = con[d]
  BY <1>1, <1>3 DEF EventStep, Commit, TablesInv
<1>7. conns' = conns
  BY <1>3 DEF EventStep, Step, Commit
<1>8. \A d : ~AboutToWrite(d) /\ SweepSlack(d) = 0 /\ SweepSlack(d)' = 0
  BY <1>4 DEF AboutToWrite, SweepSlack
<1>9. ASSUME NEW d \in Conn, InUse(d)'
      PROVE  Timely(con[d], Slack(d), SweepSlack(d), AboutToWrite(d))'
  <2>1. CASE d # c
    BY <1>6, <1>7, <1>8, <1>9, <2>1, KeptTimely DEF InUse
  <2>2. CASE d = c
    <3>1. Slack(c)' = Slack(c) /\ Slack(c) \in Nat /\ con[c] \in ConRec
      BY <1>5, <1>7, TimeTypes DEF Slack
    <3>2. Timely(con[c], Slack(c), 0, FALSE)
      BY <1>5, <1>8 DEF TimeInv, Timely
    <3>3. g.r \in ConRec /\ Ages(g.r, con[c])
      BY <1>5 DEF Lives, FrameOK, FrameType, Frame
    <3>4. Timely(g.r, Slack(c), 0, FALSE)
      BY <3>1, <3>2, <3>3, AgesTimely
    <3>5. Timely(con'[c], Slack(c)', SweepSlack(c)', AboutToWrite(c)')
      BY <1>5, <1>8, <3>1, <3>4 DEF Timely
    <3> QED
      BY <2>2, <3>5
  <2> QED
    BY <2>1, <2>2
<1> QED
  BY <1>4, <1>9 DEF TimeInv

\* A client is accepted: it has no timestamp yet that matters.
LEMMA AcceptTimes ==
  ASSUME IInv, OwnInv, TimeInv, Accept
  PROVE  TimeInv'
<1> DEFINE slot == conns.ptr[conns.used]
<1>1. /\ pc = "accept" /\ conns.used < max_conns /\ slot \in Conn /\ TablesInv /\ ret = "none"
  BY FreeSlot DEF Accept, IInv, CallInv
<1>2. PICK fd \in FreeFd(Frame(slot)) :
        /\ Commit(slot, Accepted(slot, fd))
        /\ \/ CallMachine(slot, "accept") /\ k' = k + 1
           \/ "fcntl" \in Faults /\ pc' = "dispatch" /\ k' = 0 /\ UNCHANGED <<cur, ret>>
  BY DEF Accept
<1>3. PICK c \in Conn : c = slot
  BY <1>1
<1> DEFINE f == Accepted(c, fd)
<1>4. fd \in FreeFd(Frame(c)) /\ c = conns.ptr[conns.used]
  BY <1>2, <1>3
<1>5. f.r.state = "REQUEST_START"
  BY <1>1, <1>4, AcceptedHolds
<1>6. f.conns = connections_get_new_connection(conns)
  <2> DEFINE x == connection_reset(Frame(c))
  <2>1. FrameOK(x) /\ x.conns = conns
    <3>1. Good(Frame(c)) /\ Frame(c).conns = conns
      BY <1>1, FrameGood
    <3> QED
      BY <3>1, ResetOK DEF Good, Keeps
  <2>2. f = [x EXCEPT !.r = [@ EXCEPT !.fd = fd, !.fde_ndx = NotArmed,
                                      !.state = "REQUEST_START"],
                      !.ev = fdevent_register(@, fd, "connection", c),
                      !.open = @ \cup {fd}, !.cur_fds = @ + 1,
                      !.conns = connections_get_new_connection(@)]
    BY DEF Accepted
  <2> HIDE DEF x, f
  <2> QED
    BY <2>1, <2>2 DEF FrameOK, FrameType
<1>7. Commit(c, f) /\ pc' \in {"machine", "dispatch"} /\ ret' # "sweep" /\ i' = i
  BY <1>1, <1>2, <1>3 DEF CallMachine, Accept
<1> HIDE DEF f, slot
<1>8. con'[c] = f.r /\ conns' = f.conns /\ \A d \in Conn \ {c} : con'[d] = con[d]
  BY <1>1, <1>7 DEF Commit, TablesInv
<1>9. \A d \in Conn \ {c} : conns'.ndx[d] = conns.ndx[d]
  BY <1>1, <1>4, <1>6, <1>8, FreeSlot
<1>10. \A d : ~AboutToWrite(d) /\ SweepSlack(d) = 0 /\ SweepSlack(d)' = 0
  BY <1>1, <1>7 DEF AboutToWrite, SweepSlack
<1>11. ASSUME NEW d \in Conn, InUse(d)'
       PROVE  Timely(con[d], Slack(d), SweepSlack(d), AboutToWrite(d))'
  <2>1. CASE d = c
    BY <1>5, <1>8, <2>1 DEF Timely
  <2>2. CASE d # c
    BY <1>8, <1>9, <1>10, <1>11, <2>2, KeptTimely DEF InUse
  <2> QED
    BY <2>1, <2>2
<1> QED
  BY <1>7, <1>11 DEF TimeInv

\* A second passes: everybody is a second older, and due to be looked at.
LEMMA SecondTimes ==
  ASSUME IInv, TimeInv, NewSecond
  PROVE  TimeInv'
<1>1. /\ pc = "alarm" /\ pc' = "sweep" /\ ret = "none" /\ ret' = "none" /\ i' = 0
      /\ conns' = conns /\ \A c \in Conn : con'[c] = Aged(con[c])
  BY DEF NewSecond, IInv, CallInv
<1>2. ASSUME NEW c \in Conn, InUse(c)'
      PROVE  Timely(con[c], Slack(c), SweepSlack(c), AboutToWrite(c))'
  <2> DEFINE r == con[c]
             s == Slack(c)
  <2>1. InUse(c) /\ Slack(c)' = s /\ conns'.ndx[c] = conns.ndx[c]
    BY <1>1, <1>2 DEF InUse, Slack
  <2>2. /\ s \in Nat /\ conns.ndx[c] \in Conn /\ r \in ConRec /\ r.read_idle \in Nat
        /\ r.write_idle \in Int /\ r.write_idle >= -1 /\ max_write_idle \in Nat
        /\ ReadIdleLimit(r) \in Nat
    BY <2>1, TimeTypes DEF InUse
  <2>3. Timely(r, s, 0, FALSE)
    BY <1>1, <2>1 DEF TimeInv, SweepSlack, AboutToWrite
  <2>4. SweepSlack(c)' = 1
    <3>1. pc' = "sweep" /\ i' = 0 /\ conns'.ndx[c] \in Nat
      BY <1>1, <2>1, <2>2, ConstantFacts
    <3> QED
      BY <3>1 DEF SweepSlack
  <2> DEFINE x == Aged(r)
  <2>5. /\ x.state = r.state /\ x.request_count = r.request_count
        /\ r.state \in {"READ", "READ_POST"} => x.read_idle = Older(r.read_idle, IdleCap)
        /\ r.state = "REQUEST_END" => x.read_idle = r.read_idle
        /\ x.write_idle = Older(r.write_idle, WriteCap)
    BY <2>2 DEF Aged, ConRec
  <2>6. /\ r.read_idle <= Older(r.read_idle, IdleCap) /\ Older(r.read_idle, IdleCap) <= r.read_idle + 1
        /\ r.write_idle # Unset => Older(r.write_idle, WriteCap) # Unset
        /\ Older(r.write_idle, WriteCap) <= r.write_idle + 1
        /\ Older(r.read_idle, IdleCap) \in Int /\ Older(r.write_idle, WriteCap) \in Int
    BY <2>2 DEF Older, Unset
  <2>7. ReadIdleLimit(x) = ReadIdleLimit(r)
    BY <2>5 DEF ReadIdleLimit
  <2> HIDE DEF x, s, ReadIdleLimit, Older
  <2>8. Timely(x, s, 1, FALSE)
    BY <2>2, <2>3, <2>5, <2>6, <2>7 DEF Timely
  <2>9. con'[c] = x
    BY <1>1 DEF x
  <2> QED
    BY <2>1, <2>4, <2>8, <2>9 DEF Timely
<1> QED
  BY <1>1, <1>2 DEF TimeInv

\* The sweep has looked at a connection: it is within its limit, or it will
\* be closed.
LEMMA SweepTimes ==
  ASSUME IInv, TimeInv, Sweep
  PROVE  TimeInv'
<1> DEFINE slot == conns.ptr[i]
           r == IF TimedOut(con[slot]) THEN [con[slot] EXCEPT !.state = "ERROR"] ELSE con[slot]
           x(enable) == [r EXCEPT !.traffic_limit_reached = @ /\ ~enable]
<1>1. /\ pc = "sweep" /\ ret = "none" /\ conns' = conns /\ i' = i + 1 /\ i \in Conn
      /\ i < conns.used /\ TablesInv /\ con \in [Conn -> ConRec] /\ PoolOK(conns)
  <2>1. /\ i \in 0 .. max_conns /\ conns.used \in 0 .. max_conns /\ i < conns.used
        /\ max_conns \in Nat
    BY ServerAssumption DEF Sweep, IInv, LoopInv, TablesInv, PoolOK, PoolType
  <2>2. i \in Conn
    BY <2>1 DEF Conn
  <2> QED
    BY <2>2 DEF Sweep, IInv, CallInv, TablesInv
<1>2. slot \in Conn /\ conns.ndx[slot] = i
  BY <1>1 DEF PoolOK, PoolType
<1>3. PICK enable \in Reenabled(r) :
        /\ con' = [con EXCEPT ![slot] = x(enable)]
        /\ IF Changed(con[slot], enable)
           THEN CallMachine(slot, "sweep") ELSE UNCHANGED <<pc, cur, ret>>
  BY DEF Sweep
<1>4. PICK c \in Conn : c = slot
  BY <1>2
<1>5. con'[c] = x(enable) /\ con[c] \in ConRec /\ \A d \in Conn \ {c} : con'[d] = con[d]
  BY <1>1, <1>3, <1>4
<1>6. \/ pc' = "machine" /\ cur' = c /\ ret' = "sweep"
      \/ pc' = "sweep" /\ ret' = "none"
  BY <1>1, <1>3, <1>4 DEF CallMachine
<1>7. /\ TimedOut(con[c]) => con'[c].state = "ERROR"
      /\ ~TimedOut(con[c]) => /\ con'[c].state = con[c].state
                              /\ con'[c].read_idle = con[c].read_idle
                              /\ con'[c].write_idle = con[c].write_idle
                              /\ con'[c].request_count = con[c].request_count
  <2>1. r \in ConRec
    BY <1>4, <1>5 DEF ConRec, ConStates
  <2>2. /\ x(enable).state = r.state /\ x(enable).read_idle = r.read_idle
        /\ x(enable).write_idle = r.write_idle /\ x(enable).request_count = r.request_count
    BY <2>1 DEF ConRec
  <2>3. (TimedOut(con[c]) => r.state = "ERROR") /\ (~TimedOut(con[c]) => r = con[c])
    BY <1>4, <1>5 DEF ConRec
  <2> HIDE DEF r, x
  <2> QED
    BY <1>5, <2>2, <2>3
<1> HIDE DEF slot, r, x
<1>8. ASSUME NEW d \in Conn, InUse(d)'
      PROVE  Timely(con[d], Slack(d), SweepSlack(d), AboutToWrite(d))'
  <2>1. InUse(d) /\ ~AboutToWrite(d)
    BY <1>1, <1>8 DEF InUse, AboutToWrite
  <2>2. CASE d # c
    <3>1. conns.ndx[d] # i /\ conns.ndx[d] \in Conn
      BY <1>1, <1>2, <1>4, <2>1, <2>2 DEF PoolOK, PoolType, InUse
    <3>2. SweepSlack(d)' = SweepSlack(d)
      <4>1. i \in Nat /\ conns.ndx[d] \in Nat /\ conns'.ndx[d] = conns.ndx[d]
        BY <1>1, <3>1, ConstantFacts
      <4>2. conns.ndx[d] >= i + 1 <=> conns.ndx[d] >= i
        BY <3>1, <4>1
      <4> QED
        BY <1>1, <1>6, <4>1, <4>2 DEF SweepSlack
    <3> QED
      BY <1>1, <1>5, <2>1, <2>2, <3>2, KeptTimely
  <2>3. CASE d = c
    <3>1. SweepSlack(c)' = 0
      BY <1>1, <1>2, <1>4, ConstantFacts DEF SweepSlack
    <3>2. Slack(c)' = Slack(c) /\ Slack(c) \in Nat /\ con[c].read_idle \in Nat
          /\ con[c].write_idle \in Int /\ max_write_idle \in Nat /\ ReadIdleLimit(con[c]) \in Nat
      BY <1>1, <2>1, <2>3, TimeTypes DEF Slack
    <3>3. Timely(con[c], Slack(c), SweepSlack(c), FALSE)
      BY <2>1, <2>3 DEF TimeInv, Timely
    <3>4. SweepSlack(c) \in {0, 1}
      BY TimeTypes
    <3>5. CASE TimedOut(con[c])
      BY <1>7, <2>3, <3>5 DEF Timely
    <3>6. CASE ~TimedOut(con[c])
      <4>1. ReadIdleLimit(con'[c]) = ReadIdleLimit(con[c])
        BY <1>7, <3>6 DEF ReadIdleLimit
      <4> HIDE DEF ReadIdleLimit
      <4>2. Timely(con'[c], Slack(c), 0, FALSE)
        BY <1>7, <3>2, <3>3, <3>4, <3>6, <4>1 DEF Timely, TimedOut
      <4> QED
        BY <2>3, <3>1, <3>2, <4>2 DEF Timely
    <3> QED
      BY <3>5, <3>6
  <2> QED
    BY <2>2, <2>3
<1>9. ret' = "sweep" => i' >= 1 /\ conns'.ndx[cur'] \in {i' - 1, -1}
  BY <1>1, <1>2, <1>4, <1>6, ConstantFacts
<1> QED
  BY <1>8, <1>9 DEF TimeInv

\* The sweep has looked at everybody.
LEMMA SweepDoneTimes ==
  ASSUME IInv, TimeInv, SweepDone
  PROVE  TimeInv'
<1>1. /\ pc = "sweep" /\ ret = "none" /\ pc' = "sockets" /\ ret' = "none"
      /\ con' = con /\ conns' = conns /\ i >= conns.used /\ PoolOK(conns)
  BY DEF SweepDone, connVars, IInv, CallInv, TablesInv
<1>2. ASSUME NEW c \in Conn, InUse(c)'
      PROVE  Timely(con[c], Slack(c), SweepSlack(c), AboutToWrite(c))'
  <2>1. InUse(c) /\ ~AboutToWrite(c)
    BY <1>1, <1>2 DEF InUse, AboutToWrite
  <2>2. conns.ndx[c] \in Conn /\ conns.ndx[c] < conns.used
    BY <1>1, <2>1 DEF PoolOK, PoolType, InUse
  <2>3. SweepSlack(c)' = SweepSlack(c)
    <3>1. i \in Nat /\ conns.used \in Nat /\ conns.ndx[c] \in Nat
      <4>1. i \in 0 .. max_conns /\ conns.used \in 0 .. max_conns
        BY <1>1 DEF IInv, LoopInv, PoolOK, PoolType
      <4>2. Conn \subseteq Nat /\ 0 .. max_conns \subseteq Nat
        BY ConstantFacts
      <4> QED
        BY <2>2, <4>1, <4>2, Zenon
    <3> QED
      BY <1>1, <2>2, <3>1 DEF SweepSlack
  <2> QED
    BY <1>1, <2>1, <2>3, KeptTimely
<1> QED
  BY <1>1, <1>2 DEF TimeInv

\* Every step of the worker.
LEMMA NextTimes ==
  ASSUME IInv, OwnInv, Responses, TimeInv, [Next]_vars
  PROVE  TimeInv'
<1>1. CASE StateMachine
  <2>1. pc \in {"machine", "arm"} /\ (pc = "arm" => Arm)
    BY <1>1 DEF StateMachine, SmRequestStart, SmRead, SmRequestEnd, SmHandleRequest,
       SmResponseStart, SmWrite, SmResponseEnd, SmConnect, SmError, SmClose, Arm, At
  <2> QED
    BY <1>1, <2>1, MachineTimes, ArmTimes
<1>2. CASE ConnectionEvent \/ BackendEvent \/ Accept
  BY <1>2, EventTimes, AcceptTimes
<1>3. CASE NewSecond \/ Sweep \/ SweepDone
  BY <1>3, SecondTimes, SweepTimes, SweepDoneTimes
<1>4. CASE \/ SameSecond \/ EnableSockets \/ DisableSockets \/ KeepSockets \/ CheckGraceful
           \/ FdWait \/ FdWaitDone \/ Poll \/ ServerEvent \/ Crash \/ DispatchDone
           \/ AcceptDone \/ Job \/ JobsDone \/ Exit
  <2>1. pc \notin {"machine", "arm"} => ret # "sweep"
    BY DEF IInv, CallInv
  <2>2. /\ UNCHANGED <<con, conns>> /\ pc \notin {"machine", "arm", "sweep"}
        /\ pc' # "sweep" /\ ret' # "sweep"
    BY <1>4, <2>1 DEF connVars, SameSecond, EnableSockets, DisableSockets, KeepSockets,
       CheckGraceful, FdWait, FdWaitDone, Poll, ServerEvent, Crash, DispatchDone, AcceptDone,
       Job, JobsDone, Exit, Dispatching, CallMachine
  <2> QED
    BY <2>2, QuietTimes
<1>5. CASE Sigint \/ Sigterm \/ Stopped \/ UNCHANGED vars
  <2>1. UNCHANGED <<con, conns, pc, cur, ret, i>>
    BY <1>5 DEF connVars, loopVars, Sigint, Sigterm, Stopped, vars
  <2> QED
    BY <2>1, QuietTimes
<1> QED
  BY <1>1, <1>2, <1>3, <1>4, <1>5 DEF Next, ServerStep

\* The idle limits are kept (server.c:1037-1107): when the worker goes to
\* sleep, no timestamp is older than its limit and one second for every slot
\* the connection may have moved down while the sweep passed.
THEOREM TimeoutsAreKept == Spec => []TimeoutsKept
<1>1. Init => TimeInv
  BY DEF Init, TimeInv, InUse
<1>2. IInv /\ OwnInv /\ Responses /\ TimeInv /\ [Next]_vars => TimeInv'
  BY NextTimes
<1>3. IInv /\ TimeInv => TimeoutsKept
  <2> SUFFICES ASSUME IInv, TimeInv, pc = "poll", NEW c \in Conn, InUse(c)
               PROVE  /\ con[c].state \in {"READ", "READ_POST"} =>
                           con[c].read_idle < ReadIdleLimit(con[c]) + max_conns
                      /\ con[c].state = "WRITE" =>
                           con[c].write_idle # Unset /\ con[c].write_idle < max_write_idle + max_conns
    BY DEF TimeoutsKept
  <2>1. /\ Timely(con[c], Slack(c), SweepSlack(c), AboutToWrite(c))
        /\ SweepSlack(c) = 0 /\ ~AboutToWrite(c)
    BY DEF TimeInv, SweepSlack, AboutToWrite, IInv, CallInv
  <2>2. /\ con[c].read_idle \in Nat /\ con[c].write_idle \in Int
        /\ max_write_idle \in Nat /\ ReadIdleLimit(con[c]) \in Nat
        /\ Slack(c) \in Int /\ conns.ndx[c] \in Conn
    BY TimeTypes DEF InUse
  <2>3. Slack(c) < max_conns /\ max_conns \in Nat
    BY <2>2, ConstantFacts, ServerAssumption DEF Slack, Conn
  <2> HIDE DEF ReadIdleLimit, Slack
  <2> QED
    BY <2>1, <2>2, <2>3 DEF Timely
<1> QED
  BY <1>1, <1>2, <1>3, ResponsesGoOn, Invariance, Ownership, PTL DEF Spec

=============================================================================
