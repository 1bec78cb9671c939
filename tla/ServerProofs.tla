---------------------------- MODULE ServerProofs ----------------------------
(***************************************************************************)
(* Theorems about module Server, for every value of its constants.         *)
(*                                                                         *)
(* The first part, up to WaitersAreCounted, is about types, the pool and   *)
(* the queue of those who wait for a descriptor; its invariant is IInv.    *)
(*                                                                         *)
(* The second part is about owners: who owns which descriptor, whom the    *)
(* event handlers reach, how requests start and how many there are, when   *)
(* clients are accepted, and that the worker implements Descriptors.       *)
(*                                                                         *)
(* Its invariant is OwnInv.  Own says which descriptors the clients and    *)
(* the backends hold, and is shown of every frame a handler builds;        *)
(* RequestOK relates a connection to its context, and holds when a frame   *)
(* is committed; Listening and Dispatch tie the listening socket and the   *)
(* reports still to be handled to them.                                    *)
(***************************************************************************)
EXTENDS Server, ServerDescriptors, FiniteSetTheorems, FunctionTheorems, TLAPS

-----------------------------------------------------------------------------
\* Frames: what every handler keeps.

\* A context that has left FCGI_STATE_INIT has a descriptor.
CtxReady(h) == h.state \notin {"NULL", "INIT"} => h.fd \in Fd

FrameType ==
  [ev : EvType, open : SUBSET Fd, cur_fds : Int, conns : PoolType,
   r : ConRec, h : CtxRec, jobs : Nat]

FrameOK(g) == g \in FrameType /\ CtxReady(g.h)

\* f results from g by steps that leave the pool alone.
Keeps(f, g) == FrameOK(f) /\ f.conns = g.conns

\* Facts about the constants.
LEMMA ConstantFacts ==
  /\ Fd \subseteq Nat /\ Fd \subseteq AnyFd /\ listen_fd \in AnyFd /\ 0 \in AnyFd
  /\ AnyFd \subseteq Nat /\ 0 \notin Fd /\ -1 \notin AnyFd /\ listen_fd \notin Fd
  /\ Conn \subseteq Nat /\ 0 \in Conn /\ -1 \notin Conn
  /\ AnyFd = Fd \cup {listen_fd, 0}
BY FdAssumption, ServerAssumption DEF Fd, AnyFd, listen_fd, Conn

\* Facts about the ranges of the ages and counters.
LEMMA RangeFacts ==
  /\ IdleCap \in Nat /\ WriteCap \in Nat
  /\ 0 \in 0 .. IdleCap /\ 0 \in Unset .. WriteCap /\ Unset \in Unset .. WriteCap
  /\ 0 \in 0 .. CloseCap /\ CloseCap \in 0 .. CloseCap
  /\ 0 \in 0 .. (header_max + 1) /\ 0 \in 0 .. max_reconnects
BY ServerAssumption DEF IdleCap, WriteCap, CloseCap, Unset

\* Keeping is transitive: the steps of a handler add up.
LEMMA KeepsTransitive ==
  ASSUME NEW f, NEW g, NEW h, Keeps(f, g), Keeps(g, h)
  PROVE  Keeps(f, h)
BY DEF Keeps

\* The operations on the select() sets and on the table of nodes.
LEMMA EvOps ==
  ASSUME NEW e \in EvType, NEW fd \in AnyFd, NEW ndx, NEW c \in Conn,
         NEW h \in {"server", "connection", "fcgi"}, NEW what
  PROVE  /\ fdevent_register(e, fd, h, c) \in EvType
         /\ fdevent_unregister(e, fd) \in EvType
         /\ fdevent_event_add(e, fd, what) \in EvType
         /\ fdevent_event_del(e, ndx, fd) \in EvType
BY ConstantFacts DEF EvType, fdevent_register, fdevent_unregister, fdevent_event_add,
   fdevent_event_del, NoNode

\* Giving up a descriptor changes the event table and the counters only.
LEMMA CloseFdOK ==
  ASSUME NEW g \in FrameType, NEW ndx, NEW fd \in AnyFd
  PROVE  /\ CloseFd(g, ndx, fd) \in FrameType
         /\ CloseFd(g, ndx, fd).conns = g.conns
         /\ CloseFd(g, ndx, fd).h = g.h
         /\ CloseFd(g, ndx, fd).r = g.r
<1>1. fdevent_unregister(fdevent_event_del(g.ev, ndx, fd), fd) \in EvType
  BY EvOps, ConstantFacts DEF FrameType
<1>2. g.cur_fds - 1 \in Int
  BY DEF FrameType
<1> QED
  BY <1>1, <1>2 DEF FrameType, CloseFd

\* joblist_append only counts.
LEMMA JobOK ==
  ASSUME NEW g, FrameOK(g)
  PROVE  /\ Keeps(joblist_append(g), g)
         /\ joblist_append(g).r = g.r /\ joblist_append(g).h = g.h
<1>1. g.jobs + 1 \in Nat
  BY DEF FrameOK, FrameType
<1> QED
  BY <1>1 DEF FrameOK, FrameType, joblist_append, Keeps, CtxReady

\* connection_set_state.
LEMMA SetStateOK ==
  ASSUME NEW g, FrameOK(g), NEW s \in ConStates
  PROVE  /\ Keeps(connection_set_state(g, s), g)
         /\ connection_set_state(g, s).h = g.h
BY DEF FrameOK, FrameType, connection_set_state, Keeps, CtxReady, ConRec

-----------------------------------------------------------------------------
\* mod_fastcgi.

\* No context, and a new one.
LEMMA CtxFacts ==
  /\ NoCtx \in CtxRec /\ CtxReady(NoCtx)
  /\ handler_ctx_init \in CtxRec /\ CtxReady(handler_ctx_init)
BY RangeFacts DEF NoCtx, handler_ctx_init, CtxRec, CtxReady, FcgiStates, NotArmed

\* A context without descriptor has nothing to close.
LEMMA FcgiCloseFdOK ==
  ASSUME NEW g, FrameOK(g)
  PROVE  /\ FcgiCloseFd(g) \in FrameType /\ FcgiCloseFd(g).conns = g.conns
         /\ FcgiCloseFd(g).h = g.h /\ FcgiCloseFd(g).r = g.r
<1>1. g.h.fd # -1 => g.h.fd \in AnyFd
  BY ConstantFacts DEF FrameOK, FrameType, CtxRec
<1> QED
  BY <1>1, CloseFdOK DEF FrameOK, FcgiCloseFd

\* fcgi_connection_close (mod_fastcgi.c:1482).
LEMMA FcgiCloseOK ==
  ASSUME NEW g, FrameOK(g)
  PROVE  /\ Keeps(fcgi_connection_close(g), g)
         /\ fcgi_connection_close(g).r = g.r
BY FcgiCloseFdOK, CtxFacts DEF FrameOK, FrameType, Keeps, fcgi_connection_close

\* fcgi_reconnect (mod_fastcgi.c:1529); its callers have looked at the counter.
LEMMA FcgiReconnectOK ==
  ASSUME NEW g, FrameOK(g), g.h.reconnects < max_reconnects
  PROVE  Keeps(fcgi_reconnect(g), g)
<1>1. g.h.reconnects + 1 \in 0 .. max_reconnects
  BY ServerAssumption DEF FrameOK, FrameType, CtxRec
<1>2. NextAttempt(g.h) \in CtxRec /\ NextAttempt(g.h).state = "INIT"
  BY <1>1 DEF FrameOK, FrameType, CtxRec, FcgiStates, NotArmed, NextAttempt
<1> QED
  BY <1>2, FcgiCloseFdOK DEF fcgi_reconnect, FrameOK, FrameType, Keeps, CtxReady

\* Only a context that has a descriptor may wait for events.
LEMMA FcgiWaitOK ==
  ASSUME NEW g, FrameOK(g), g.h.fd \in Fd, NEW what
  PROVE  /\ Keeps(FcgiWait(g, what), g)
         /\ FcgiWait(g, what).h.fd = g.h.fd
<1>1. fdevent_event_add(g.ev, g.h.fd, what) \in EvType
  BY EvOps, ConstantFacts DEF FrameOK, FrameType
<1> QED
  BY <1>1 DEF FrameOK, FrameType, FcgiWait, Keeps, CtxReady, CtxRec

\* Every outcome of a set of outcomes keeps frame g.
AllKeep(outcomes, g) == \A o \in outcomes : Keeps(o.g, g)

\* The fields of an outcome.
LEMMA OutcomeFields ==
  ASSUME NEW g, NEW r
  PROVE  Outcome(g, r).g = g /\ Outcome(g, r).r = r
BY DEF Outcome

\* Writing the request to the backend.
LEMMA FcgiWriteOK ==
  ASSUME NEW g, FrameOK(g), g.h.fd \in Fd
  PROVE  AllKeep(FcgiWrite(g), g)
<1> DEFINE w == FcgiWait(g, "IN")
<1>1. Keeps([w EXCEPT !.h.state = "READ", !.h.bytes_out = TRUE], g)
  <2>1. Keeps(w, g) /\ w.h.fd \in Fd
    BY FcgiWaitOK
  <2> HIDE DEF w
  <2>2. [w EXCEPT !.h.state = "READ", !.h.bytes_out = TRUE]
          = [w EXCEPT !.h = [w.h EXCEPT !.state = "READ", !.bytes_out = TRUE]]
    BY <2>1 DEF Keeps, FrameOK, FrameType
  <2>3. [w.h EXCEPT !.state = "READ", !.bytes_out = TRUE] \in CtxRec
    BY <2>1 DEF Keeps, FrameOK, FrameType, CtxRec, FcgiStates
  <2>4. [w.h EXCEPT !.state = "READ", !.bytes_out = TRUE].fd \in Fd
    BY <2>1 DEF Keeps, FrameOK, FrameType, CtxRec
  <2> QED
    BY <2>1, <2>2, <2>3, <2>4 DEF Keeps, FrameOK, FrameType, CtxReady
<1>2. Keeps([FcgiWait(g, "OUT") EXCEPT !.h.bytes_out = TRUE], g)
  BY FcgiWaitOK, ZenonT(60) DEF Keeps, FrameOK, FrameType, CtxRec, CtxReady
<1>3. Keeps(FcgiWait(g, "OUT"), g) /\ Keeps(g, g)
  BY FcgiWaitOK DEF Keeps
<1>4. g.h.reconnects < max_reconnects => Keeps(fcgi_reconnect(g), g)
  BY FcgiReconnectOK
<1>5. ASSUME NEW o \in FcgiWrite(g)
      PROVE  Keeps(o.g, g)
  BY <1>1, <1>2, <1>3, <1>4, <1>5, OutcomeFields DEF FcgiWrite
<1> QED
  BY <1>5 DEF AllKeep

\* Building the request.
LEMMA FcgiPrepareWriteOK ==
  ASSUME NEW g, FrameOK(g), g.h.fd \in Fd
  PROVE  AllKeep(FcgiPrepareWrite(g), g)
<1>1. \A s \in FcgiStates : /\ Keeps([g EXCEPT !.h.state = s], g)
                           /\ [g EXCEPT !.h.state = s].h.fd \in Fd
  BY DEF Keeps, FrameOK, FrameType, CtxRec, CtxReady
<1>2. AllKeep(FcgiWrite([g EXCEPT !.h.state = "WRITE"]), [g EXCEPT !.h.state = "WRITE"])
  BY <1>1, FcgiWriteOK DEF FcgiStates, Keeps
<1>3. Keeps([g EXCEPT !.h.state = "WRITE"], g) /\ Keeps([g EXCEPT !.h.state = "PREPARE_WRITE"], g)
  BY <1>1 DEF FcgiStates
<1> QED
  BY <1>2, <1>3, KeepsTransitive, OutcomeFields DEF AllKeep, FcgiPrepareWrite

\* connect() and what follows it.
LEMMA FcgiEstablishOK ==
  ASSUME NEW g, FrameOK(g), g.h.fd \in Fd
  PROVE  AllKeep(fcgi_establish_connection(g), g)
<1> DEFINE zero == [g EXCEPT !.h.reconnects = 0]
<1>1. Keeps(zero, g) /\ zero.h.fd \in Fd
  BY RangeFacts DEF Keeps, FrameOK, FrameType, CtxRec, CtxReady
<1>2. AllKeep(FcgiPrepareWrite(zero), g)
  BY <1>1, FcgiPrepareWriteOK, KeepsTransitive DEF AllKeep, Keeps
<1>3. Keeps([FcgiWait(g, "OUT") EXCEPT !.h.state = "CONNECT_DELAYED"], g)
  BY FcgiWaitOK DEF Keeps, FrameOK, FrameType, CtxRec, CtxReady, FcgiStates
<1>4. Keeps(g, g)
  BY DEF Keeps
<1> HIDE DEF zero
<1> QED
  BY <1>2, <1>3, <1>4, OutcomeFields DEF AllKeep, fcgi_establish_connection, Outcome, zero

\* A new socket for the backend.
LEMMA FcgiInitOK ==
  ASSUME NEW g, FrameOK(g), NEW c \in Conn
  PROVE  AllKeep(FcgiInit(c, g), g)
<1>1. Keeps([g EXCEPT !.h.fde_ndx = NotArmed], g) /\ Keeps(g, g)
  BY DEF Keeps, FrameOK, FrameType, CtxRec, CtxReady
<1>2. ASSUME NEW fd \in FreeFd(g)
      PROVE  AllKeep(fcgi_establish_connection(FcgiSocket(c, g, fd)), g)
  <2>1. fd \in Fd
    BY DEF FreeFd
  <2>2. fdevent_register(g.ev, fd, "fcgi", c) \in EvType
    BY <2>1, EvOps, ConstantFacts DEF FrameOK, FrameType
  <2>3. g.cur_fds + 1 \in Int
    BY DEF FrameOK, FrameType
  <2>4. Keeps(FcgiSocket(c, g, fd), g) /\ FcgiSocket(c, g, fd).h.fd = fd
    BY <2>1, <2>2, <2>3 DEF Keeps, FrameOK, FrameType, CtxRec, CtxReady, FcgiSocket
  <2> QED
    BY <2>1, <2>4, FcgiEstablishOK, KeepsTransitive DEF Keeps, AllKeep
<1>3. ASSUME NEW o \in FcgiInit(c, g)
      PROVE  Keeps(o.g, g)
  BY <1>1, <1>2, <1>3, OutcomeFields DEF AllKeep, FcgiInit
<1> QED
  BY <1>3 DEF AllKeep

\* fcgi_write_request, in every state of the context.
LEMMA FcgiWriteRequestOK ==
  ASSUME NEW g, FrameOK(g), NEW c \in Conn
  PROVE  AllKeep(fcgi_write_request(c, g), g)
<1>1. Keeps(g, g)
  BY DEF Keeps
<1>2. CASE g.h.state \in {"CONNECT_DELAYED", "PREPARE_WRITE", "WRITE"}
  BY <1>1, <1>2, FcgiPrepareWriteOK, FcgiWriteOK, OutcomeFields
     DEF AllKeep, fcgi_write_request, Outcome, FrameOK, CtxReady
<1>3. CASE g.h.state \notin {"CONNECT_DELAYED", "PREPARE_WRITE", "WRITE"}
  BY <1>1, <1>3, FcgiInitOK, OutcomeFields DEF AllKeep, fcgi_write_request
<1> QED
  BY <1>2, <1>3

\* The request falls back to the server's own error page.
LEMMA FcgiGiveUpOK ==
  ASSUME NEW g, FrameOK(g)
  PROVE  Keeps(FcgiGiveUp(g), g)
<1> DEFINE f == fcgi_connection_close(g)
<1>1. Keeps(f, g)
  BY FcgiCloseOK
<1>2. FcgiGiveUp(g) = [f EXCEPT !.r.mode = "DIRECT", !.r.decided = TRUE]
  BY DEF FcgiGiveUp
<1> HIDE DEF f
<1>3. f \in FrameType /\ CtxReady(f.h) /\ f.conns = g.conns
  BY <1>1 DEF Keeps, FrameOK
<1> DEFINE r == [f.r EXCEPT !.mode = "DIRECT", !.decided = TRUE]
<1>4. r \in ConRec
  BY <1>3 DEF FrameType, ConRec
<1>5. FcgiGiveUp(g) = [f EXCEPT !.r = r]
  BY <1>2, <1>3 DEF FrameType, ConRec
<1> HIDE DEF r
<1>6. FcgiGiveUp(g) \in FrameType /\ FcgiGiveUp(g).h = f.h /\ FcgiGiveUp(g).conns = f.conns
  BY <1>3, <1>4, <1>5 DEF FrameType
<1> QED
  BY <1>3, <1>6 DEF Keeps, FrameOK

\* mod_fastcgi_handle_subrequest (mod_fastcgi.c:3100).
LEMMA SubrequestOK ==
  ASSUME NEW g, FrameOK(g), NEW c \in Conn
  PROVE  AllKeep(mod_fastcgi_handle_subrequest(c, g), g)
<1> DEFINE f == [g EXCEPT !.h.host = TRUE]
<1>1. Keeps(f, g)
  BY DEF Keeps, FrameOK, FrameType, CtxRec, CtxReady
<1> HIDE DEF f
<1>2. \A o \in fcgi_write_request(c, f) : Keeps(o.g, g)
  BY <1>1, FcgiWriteRequestOK, KeepsTransitive DEF AllKeep, Keeps
<1>3. ASSUME NEW o \in fcgi_write_request(c, f)
      PROVE  Keeps(SubrequestError(o.g).g, g) /\ Keeps(SubrequestWait(o).g, g)
  <2>1. FrameOK(o.g)
    BY <1>2 DEF Keeps
  <2>2. Keeps(joblist_append(FcgiGiveUp(o.g)), o.g)
    BY <2>1, FcgiGiveUpOK, JobOK, KeepsTransitive DEF Keeps
  <2>3. o.g.h.reconnects < max_reconnects => Keeps(joblist_append(fcgi_reconnect(o.g)), o.g)
    BY <2>1, FcgiReconnectOK, JobOK, KeepsTransitive DEF Keeps
  <2>4. Keeps(SubrequestError(o.g).g, o.g)
    BY <2>2, <2>3, OutcomeFields DEF SubrequestError
  <2> QED
    BY <1>2, <2>4, KeepsTransitive, OutcomeFields DEF SubrequestWait
<1>4. Keeps(FcgiGiveUp(g), g)
  BY FcgiGiveUpOK
<1>5. \A o \in fcgi_write_request(c, f) : Keeps(SubrequestResult(o).g, g)
  BY <1>3 DEF SubrequestResult
<1>6. ASSUME NEW o \in mod_fastcgi_handle_subrequest(c, g)
      PROVE  Keeps(o.g, g)
  <2>1. \/ o = Outcome(FcgiGiveUp(g), "FINISHED")
        \/ \E x \in fcgi_write_request(c, f) : o = SubrequestResult(x)
    BY <1>6 DEF mod_fastcgi_handle_subrequest, f
  <2> QED
    BY <1>4, <1>5, <2>1, OutcomeFields
<1> QED
  BY <1>6 DEF AllKeep

\* Every frame of a set keeps frame g.
AllFramesKeep(frames, g) == \A f \in frames : Keeps(f, g)

\* fcgi_demux_response (mod_fastcgi.c:2439).
LEMMA DemuxOK ==
  ASSUME NEW g, FrameOK(g)
  PROVE  AllFramesKeep(fcgi_demux_response(g), g)
<1>1. \A f : FrameOK(f) => Keeps(FcgiHeader(f), f)
  BY ZenonT(60) DEF FcgiHeader, Keeps, FrameOK, FrameType, ConRec
<1>2. \A f : FrameOK(f) => Keeps([f EXCEPT !.r.write_queue = TRUE], f)
  BY ZenonT(60) DEF Keeps, FrameOK, FrameType, ConRec
<1>3. \A f : FrameOK(f) => Keeps([f EXCEPT !.r.file_finished = TRUE, !.r.write_queue = TRUE], f)
  BY ZenonT(60) DEF Keeps, FrameOK, FrameType, ConRec
<1>4. \A f : FrameOK(f) => Keeps(FcgiContent(f), f)
  BY <1>1, <1>2, JobOK, KeepsTransitive DEF FcgiContent, Keeps
<1>5. \A f : FrameOK(f) => Keeps(FcgiEndRequest(f), f)
  BY <1>3, JobOK, KeepsTransitive DEF FcgiEndRequest, Keeps
<1>6. Keeps(FcgiReadError(g), g)
  <2>1. Keeps(connection_set_state(fcgi_connection_close(g), "ERROR"), g)
    BY FcgiCloseOK, SetStateOK, KeepsTransitive DEF Keeps, ConStates
  <2>2. Keeps(connection_set_state(FcgiGiveUp(g), "HANDLE_REQUEST"), g)
    BY FcgiGiveUpOK, SetStateOK, KeepsTransitive DEF Keeps, ConStates
  <2> QED
    BY <2>1, <2>2, JobOK, KeepsTransitive DEF FcgiReadError, Keeps
<1>7. \A f : FrameOK(f) => Keeps(joblist_append(fcgi_connection_close(f)), f)
  BY FcgiCloseOK, JobOK, KeepsTransitive DEF Keeps
<1>8. \A x \in {g, FcgiHeader(g), FcgiContent(g)} : Keeps(x, g)
  BY <1>1, <1>4 DEF Keeps
<1>9. \A x \in {g, FcgiHeader(g), FcgiContent(g)} :
        Keeps(joblist_append(fcgi_connection_close(FcgiEndRequest(x))), g)
  BY <1>5, <1>7, <1>8, KeepsTransitive DEF Keeps
<1> QED
  BY <1>6, <1>8, <1>9 DEF AllFramesKeep, fcgi_demux_response

\* fcgi_handle_fdevent (mod_fastcgi.c:3223).
LEMMA FcgiEventOK ==
  ASSUME NEW g, FrameOK(g), NEW c \in Conn, NEW revents
  PROVE  AllFramesKeep(fcgi_handle_fdevent(c, g, revents), g)
<1> DEFINE sent(x) == IF "OUT" \in revents /\ x.h.state \in {"CONNECT_DELAYED", "WRITE"}
                      THEN {o.g : o \in mod_fastcgi_handle_subrequest(c, x)}
                      ELSE IF "ERR" \in revents /\ x.h.state # "NULL" THEN {FcgiError(x)}
                      ELSE {x}
<1>1. ASSUME NEW x, FrameOK(x)
      PROVE  AllFramesKeep(sent(x), x)
  <2>1. Keeps(FcgiError(x), x)
    BY <1>1, SetStateOK, FcgiCloseOK, JobOK, KeepsTransitive DEF FcgiError, Keeps, ConStates
  <2>2. AllFramesKeep({o.g : o \in mod_fastcgi_handle_subrequest(c, x)}, x)
    BY <1>1, SubrequestOK DEF AllKeep, AllFramesKeep
  <2> QED
    BY <1>1, <2>1, <2>2 DEF AllFramesKeep, Keeps
<1> DEFINE read == IF "IN" \in revents /\ g.h.state = "READ"
                   THEN fcgi_demux_response(g) ELSE {g}
<1>2. AllFramesKeep(read, g)
  BY DemuxOK DEF AllFramesKeep, Keeps
<1>3. fcgi_handle_fdevent(c, g, revents) = UNION {sent(x) : x \in read}
  BY DEF fcgi_handle_fdevent
<1> HIDE DEF sent, read
<1> QED
  BY <1>1, <1>2, <1>3, KeepsTransitive DEF AllFramesKeep, Keeps

\* mod_fastcgi_handle_joblist (mod_fastcgi.c:3688).
LEMMA FcgiJoblistOK ==
  ASSUME NEW g, FrameOK(g)
  PROVE  Keeps(mod_fastcgi_handle_joblist(g), g)
<1>1. g.h.fd # -1 => g.h.fd \in Fd
  BY DEF FrameOK, FrameType, CtxRec
<1> QED
  BY <1>1, FcgiWaitOK DEF mod_fastcgi_handle_joblist, Keeps

-----------------------------------------------------------------------------
\* Reading and writing.

\* connection_reset (connections.c:739).
LEMMA ResetOK ==
  ASSUME NEW g, FrameOK(g)
  PROVE  Keeps(connection_reset(g), g)
<1> DEFINE f == fcgi_connection_close(g)
           r == [f.r EXCEPT !.is_readable = TRUE, !.is_writable = TRUE,
                            !.decided = FALSE, !.bad_version = FALSE,
                            !.file_finished = FALSE, !.file_started = FALSE,
                            !.mode = "DIRECT", !.write_queue = FALSE]
<1>1. Keeps(f, g)
  BY FcgiCloseOK
<1>2. connection_reset(g) = [f EXCEPT !.r = r]
  BY DEF connection_reset
<1> HIDE DEF f
<1>3. r \in ConRec
  BY <1>1, ZenonT(60) DEF Keeps, FrameOK, FrameType, ConRec
<1> HIDE DEF r
<1> QED
  BY <1>1, <1>2, <1>3 DEF Keeps, FrameOK, FrameType

\* connection_handle_read_state: the read queue never grows beyond its limit.
LEMMA ReadStateOK ==
  ASSUME NEW r \in ConRec
  PROVE  connection_handle_read_state(r) \subseteq ConRec
<1> USE RangeFacts
<1>1. ASSUME NEW x \in ConRec
      PROVE  \A y \in connection_handle_read(x) : y.r \in ConRec
  <2> DEFINE blocked == [x EXCEPT !.is_readable = FALSE]
  <2>1. blocked \in ConRec /\ blocked.read_queue = x.read_queue
    BY DEF ConRec
  <2>2. connection_handle_read(x) =
          {Read(blocked, "ok"), Read(x, "ok"),
           Read([blocked EXCEPT !.state = "ERROR"], "failed"), Read(blocked, "eof")}
          \cup (IF x.read_queue <= header_max
                THEN {Read([y EXCEPT !.read_queue = @ + 1], "ok") : y \in {x, blocked}}
                ELSE {})
    BY DEF connection_handle_read
  <2> HIDE DEF blocked
  <2>3. [blocked EXCEPT !.state = "ERROR"] \in ConRec
    BY <2>1 DEF ConRec, ConStates
  <2>4. ASSUME NEW y \in ConRec, y.read_queue <= header_max
        PROVE  [y EXCEPT !.read_queue = @ + 1] \in ConRec
    <3>1. y.read_queue + 1 \in 0 .. (header_max + 1)
      BY <2>4, ServerAssumption DEF ConRec
    <3> QED
      BY <3>1 DEF ConRec
  <2>5. \A a, b : Read(a, b).r = a
    BY DEF Read
  <2>6. ASSUME NEW o \in connection_handle_read(x)
        PROVE  o.r \in ConRec
    <3>1. CASE o \in {Read(blocked, "ok"), Read(x, "ok"),
                      Read([blocked EXCEPT !.state = "ERROR"], "failed"), Read(blocked, "eof")}
      BY <2>1, <2>3, <2>5, <3>1
    <3>2. CASE /\ x.read_queue <= header_max
               /\ \E y \in {x, blocked} : o = Read([y EXCEPT !.read_queue = @ + 1], "ok")
      <4>1. PICK y \in {x, blocked} : o = Read([y EXCEPT !.read_queue = @ + 1], "ok")
        BY <3>2
      <4>2. [y EXCEPT !.read_queue = @ + 1] \in ConRec
        BY <2>1, <2>4, <3>2, SMTT(30)
      <4> QED
        BY <2>5, <4>1, <4>2
    <3> QED
      BY <2>2, <2>6, <3>1, <3>2
  <2> QED
    BY <2>6
<1>2. ASSUME NEW x \in ConRec
      PROVE  ReadHeader(x) \subseteq ConRec /\ ReadContent(x) \subseteq ConRec
  <2>1. \A rest \in 0 .. x.read_queue : rest \in 0 .. (header_max + 1)
    BY ServerAssumption DEF ConRec
  <2>2. 0 .. x.read_queue \subseteq 0 .. (header_max + 1)
        /\ 1 .. x.read_queue \subseteq 0 .. (header_max + 1)
    BY <2>1
  <2>3. \A rest \in 0 .. (header_max + 1) :
          /\ [x EXCEPT !.state = "REQUEST_END", !.read_queue = rest] \in ConRec
          /\ [x EXCEPT !.state = "HANDLE_REQUEST", !.read_queue = rest] \in ConRec
          /\ [x EXCEPT !.read_queue = rest] \in ConRec
          /\ [x EXCEPT !.state = "HANDLE_REQUEST", !.read_queue = rest,
                       !.decided = TRUE, !.keep_alive = FALSE] \in ConRec
    BY ZenonT(60) DEF ConRec, ConStates
  <2>4. [x EXCEPT !.state = "HANDLE_REQUEST", !.decided = TRUE, !.keep_alive = FALSE] \in ConRec
    BY ZenonT(60) DEF ConRec, ConStates
  <2> QED
    BY <2>2, <2>3, <2>4 DEF ReadHeader, ReadContent
<1>3. ASSUME NEW x \in ConRec, NEW old
      PROVE  ReadClosed(x, old) \in ConRec
  BY DEF ReadClosed, ConRec, ConStates
<1> DEFINE results == IF r.is_readable
                      THEN connection_handle_read([r EXCEPT !.read_idle = 0])
                      ELSE {Read(r, "ok")}
           parsed(x) == IF x.state = "READ" THEN ReadHeader(x) ELSE ReadContent(x)
<1>4. \A y \in results : y.r \in ConRec
  <2>1. [r EXCEPT !.read_idle = 0] \in ConRec
    BY DEF ConRec
  <2> QED
    BY <1>1, <2>1 DEF Read
<1>5. \A x \in ConRec : parsed(x) \subseteq ConRec
  BY <1>2
<1> DEFINE after(y) == CASE y.ret = "failed" -> {y.r}
                         [] y.ret = "eof"    -> {ReadClosed(z, r.state) : z \in parsed(y.r)}
                         [] OTHER            -> parsed(y.r)
<1>6. connection_handle_read_state(r) = UNION {after(y) : y \in results}
  BY DEF connection_handle_read_state
<1> HIDE DEF results, parsed
<1>7. \A y \in results : after(y) \subseteq ConRec
  BY <1>3, <1>4, <1>5
<1> QED
  BY <1>6, <1>7

\* connection_handle_write and its callers' lines around it.
LEMMA WriteOK ==
  ASSUME NEW g, FrameOK(g)
  PROVE  AllFramesKeep(TryWrite(g), g)
<1>1. ASSUME NEW f, FrameOK(f), NEW b \in BOOLEAN
      PROVE  /\ Keeps([f EXCEPT !.r.traffic_limit_reached = b], f)
             /\ Keeps([f EXCEPT !.r.write_queue = b], f)
             /\ Keeps([f EXCEPT !.r.is_writable = b], f)
  BY <1>1 DEF Keeps, FrameOK, FrameType, ConRec
<1>2. ASSUME NEW f, FrameOK(f)
      PROVE  Keeps([f EXCEPT !.r.write_idle = 0], f)
  BY <1>2, RangeFacts DEF Keeps, FrameOK, FrameType, ConRec
<1>3. \A o \in network_write_chunkqueue(g) : Keeps(o.g, g)
  <2> DEFINE limited(x) == joblist_append([x EXCEPT !.r.traffic_limit_reached = TRUE])
             written == {Outcome([g EXCEPT !.r.write_queue = FALSE], "0"),
                         Outcome(g, "1"), Outcome(g, "-1")}
  <2>1. \A f : FrameOK(f) => Keeps(limited(f), f)
    BY <1>1, JobOK, KeepsTransitive DEF Keeps
  <2>2. \A o \in written : Keeps(o.g, g)
    <3>1. Keeps([g EXCEPT !.r.write_queue = FALSE], g) /\ Keeps(g, g)
      BY <1>1 DEF Keeps
    <3> QED
      BY <3>1, OutcomeFields
  <2>3. \A o \in network_write_chunkqueue(g) :
          \/ o \in written
          \/ o = Outcome(limited(g), "1")
          \/ \E w \in written : o = Outcome(limited(w.g), w.r)
    BY DEF network_write_chunkqueue
  <2> HIDE DEF limited, written
  <2> QED
    BY <2>1, <2>2, <2>3, OutcomeFields, KeepsTransitive DEF Keeps
<1>4. \A f \in connection_handle_write(g) : Keeps(f, g)
  <2> DEFINE after(o) == CASE o.r = "0"  -> IF o.g.r.file_finished
                                THEN joblist_append(connection_set_state(o.g, "RESPONSE_END"))
                                ELSE o.g
                           [] o.r = "-1" -> joblist_append(connection_set_state(o.g, "ERROR"))
                           [] OTHER      -> [o.g EXCEPT !.r.is_writable = FALSE]
  <2>1. ASSUME NEW o \in network_write_chunkqueue(g)
        PROVE  Keeps(after(o), g)
    <3>1. FrameOK(o.g) /\ Keeps(o.g, g)
      BY <1>3 DEF Keeps
    <3>2. \A s \in {"RESPONSE_END", "ERROR"} :
            Keeps(joblist_append(connection_set_state(o.g, s)), o.g)
      BY <3>1, SetStateOK, JobOK, KeepsTransitive DEF Keeps, ConStates
    <3>3. Keeps([o.g EXCEPT !.r.is_writable = FALSE], o.g)
      BY <3>1, <1>1
    <3> QED
      BY <3>1, <3>2, <3>3, KeepsTransitive
  <2>2. connection_handle_write(g) = {after(o) : o \in network_write_chunkqueue(g)}
    BY DEF connection_handle_write
  <2> HIDE DEF after
  <2> QED
    BY <2>1, <2>2
<1> QED
  BY <1>2, <1>4, KeepsTransitive DEF AllFramesKeep, TryWrite, Keeps

\* connection_handle_fdevent (connections.c:1153).
LEMMA ConnectionEventOK ==
  ASSUME NEW g, FrameOK(g), NEW revents
  PROVE  AllFramesKeep(connection_handle_fdevent(g, revents), g)
<1> DEFINE seen == NoteEvents(g, revents)
<1>1. Keeps(seen, g)
  <2> DEFINE j == joblist_append(g)
             f == [j EXCEPT !.r.is_readable = @ \/ "IN" \in revents,
                            !.r.is_writable = @ \/ "OUT" \in revents]
  <2>1. Keeps(j, g)
    BY JobOK
  <2> HIDE DEF j
  <2>2. Keeps(f, j)
    BY <2>1, ZenonT(60) DEF Keeps, FrameOK, FrameType, ConRec
  <2>3. seen = NoteError(f, revents)
    BY DEF NoteEvents, j
  <2> HIDE DEF f, seen
  <2> QED
    BY <2>1, <2>2, <2>3, SetStateOK, KeepsTransitive DEF NoteError, Keeps, ConStates
<1> DEFINE read == IF seen.r.state \in {"READ", "READ_POST"}
                   THEN {[seen EXCEPT !.r = x] : x \in connection_handle_read_state(seen.r)}
                   ELSE {seen}
<1>2. connection_handle_fdevent(g, revents)
        = UNION {FlushClosing(y) : y \in UNION {TryWrite(x) : x \in read}}
  BY DEF connection_handle_fdevent
<1>3. AllFramesKeep(read, g)
  <2> HIDE DEF seen
  <2>1. connection_handle_read_state(seen.r) \subseteq ConRec
    BY <1>1, ReadStateOK DEF Keeps, FrameOK, FrameType
  <2>2. \A x \in ConRec : Keeps([seen EXCEPT !.r = x], seen)
    BY <1>1 DEF Keeps, FrameOK, FrameType
  <2> QED
    BY <1>1, <2>1, <2>2, KeepsTransitive DEF AllFramesKeep
<1> HIDE DEF read
<1>4. \A y \in UNION {TryWrite(x) : x \in read} : Keeps(y, g)
  BY <1>3, WriteOK, KeepsTransitive DEF AllFramesKeep, Keeps
<1>5. \A y : FrameOK(y) => \A z \in FlushClosing(y) : Keeps(z, y)
  <2>1. \A y : FrameOK(y) => Keeps([y EXCEPT !.r.close_idle = CloseCap], y)
    BY RangeFacts DEF Keeps, FrameOK, FrameType, ConRec
  <2> QED
    BY <2>1 DEF FlushClosing, Keeps
<1> QED
  BY <1>2, <1>4, <1>5, KeepsTransitive DEF AllFramesKeep, Keeps

\* connection_handle_write_prepare.
LEMMA WritePrepareOK ==
  ASSUME NEW r \in ConRec
  PROVE  connection_handle_write_prepare(r) \subseteq ConRec
<1> DEFINE ready == [r EXCEPT !.write_queue = TRUE]
           whole == [ready EXCEPT !.file_finished = TRUE]
<1>1. ready \in ConRec
  BY DEF ConRec
<1>2. connection_handle_write_prepare(r)
        \subseteq {whole, ready} \cup {[x EXCEPT !.keep_alive = FALSE] : x \in {whole, ready}}
  BY DEF connection_handle_write_prepare
<1> HIDE DEF ready
<1>3. whole \in ConRec
  BY <1>1 DEF ConRec
<1> HIDE DEF whole
<1>4. \A x \in ConRec : [x EXCEPT !.keep_alive = FALSE] \in ConRec
  BY DEF ConRec
<1> QED
  BY <1>1, <1>2, <1>3, <1>4

-----------------------------------------------------------------------------
\* The pool.

\* No structure is in two slots, and the ndx fields agree with the slots.
PoolOK(p) ==
  /\ p \in PoolType
  /\ \A s, t \in Conn : p.ptr[s] = p.ptr[t] => s = t
  /\ \A s \in Conn : p.ndx[p.ptr[s]] = IF s < p.used THEN s ELSE -1
  /\ \A c \in Conn : p.ndx[c] # -1 => p.ptr[p.ndx[c]] = c

\* connection_del (connections.c:76): the swap with the last slot keeps the pool in order.
LEMMA PoolDel ==
  ASSUME NEW p, PoolOK(p), NEW c \in Conn
  PROVE  PoolOK(connection_del(p, c))
<1>1. CASE p.ndx[c] = -1
  BY <1>1 DEF connection_del
<1>2. CASE p.ndx[c] # -1
  <2> DEFINE at == p.ndx[c]
             last == p.used - 1
             moved == p.ptr[last]
             ptr == [p.ptr EXCEPT ![at] = moved, ![last] = c]
             ndx == [p.ndx EXCEPT ![moved] = at, ![c] = -1]
  <2>1. /\ p.ptr \in [Conn -> Conn] /\ p.ndx \in [Conn -> Conn \cup {-1}]
        /\ p.used \in 0 .. max_conns
    BY DEF PoolOK, PoolType
  <2>2. at \in Conn /\ p.ptr[at] = c
    BY <1>2, <2>1 DEF PoolOK
  <2>3. at < p.used
    BY <1>2, <2>2 DEF PoolOK
  <2>4. last \in Conn /\ last \in 0 .. max_conns /\ at <= last
    <3>1. ASSUME NEW a, NEW u, a \in Conn, u \in 0 .. max_conns, a < u
          PROVE  u - 1 \in Conn /\ u - 1 \in 0 .. max_conns /\ a <= u - 1
      BY <3>1, ServerAssumption DEF Conn
    <3> QED
      BY <2>1, <2>2, <2>3, <3>1
  <2>5. moved \in Conn /\ p.ndx[moved] = last
    BY <2>1, <2>4 DEF PoolOK
  <2>6. connection_del(p, c) = [ptr |-> ptr, used |-> last, ndx |-> ndx]
    BY <1>2 DEF connection_del
  <2>7. ptr \in [Conn -> Conn] /\ ndx \in [Conn -> Conn \cup {-1}]
    BY <2>1, <2>2, <2>5
  <2>8. \A s \in Conn : ptr[s] = IF s = last THEN c ELSE IF s = at THEN moved ELSE p.ptr[s]
    BY <2>1, <2>2, <2>4
  <2>9. \A d \in Conn : ndx[d] = IF d = c THEN -1 ELSE IF d = moved THEN at ELSE p.ndx[d]
    BY <2>1, <2>2, <2>5
  <2>10. \A s, t \in Conn : p.ptr[s] = p.ptr[t] => s = t
    BY DEF PoolOK
  <2>11. \A s \in Conn : p.ndx[p.ptr[s]] = IF s < p.used THEN s ELSE -1
    BY DEF PoolOK
  <2>12. \A d \in Conn : p.ndx[d] # -1 => p.ptr[p.ndx[d]] = d
    BY DEF PoolOK
  <2>13. Conn \subseteq Nat /\ -1 \notin Conn
    BY ConstantFacts
  <2>14. p.ptr[last] = moved
    OBVIOUS
  <2> HIDE DEF at, last, moved, ptr, ndx
  <2>15. \A s, t \in Conn : ptr[s] = ptr[t] => s = t
    BY <2>1, <2>2, <2>4, <2>5, <2>8, <2>10, <2>14
  <2>16. \A s \in Conn : s < p.used /\ s # last => s < last
    BY <2>1, <2>13 DEF last
  <2>17. \A s \in Conn : ndx[ptr[s]] = IF s < last THEN s ELSE -1
    <3> TAKE s \in Conn
    <3>1. CASE s = last
      BY <2>2, <2>4, <2>8, <2>9, <2>13, <3>1
    <3>2. CASE s # last /\ s = at
      <4>1. moved # c
        BY <2>2, <2>4, <2>10, <2>14, <3>2
      <4>2. ndx[ptr[s]] = at
        BY <2>2, <2>5, <2>8, <2>9, <3>2, <4>1
      <4> QED
        BY <2>2, <2>4, <2>13, <3>2, <4>2
    <3>3. CASE s # last /\ s # at
      <4>1. ptr[s] = p.ptr[s] /\ p.ptr[s] # c /\ p.ptr[s] # moved
        BY <2>2, <2>4, <2>8, <2>10, <2>14, <3>3
      <4>2. ndx[ptr[s]] = p.ndx[p.ptr[s]]
        BY <2>1, <2>9, <4>1
      <4>3. s < last <=> s < p.used
        BY <2>1, <2>13, <3>3 DEF last
      <4> QED
        BY <2>11, <4>2, <4>3
    <3> QED
      BY <3>1, <3>2, <3>3
  <2>18. \A d \in Conn : ndx[d] # -1 => ptr[ndx[d]] = d
    <3> SUFFICES ASSUME NEW d \in Conn, ndx[d] # -1
                 PROVE  ptr[ndx[d]] = d
      OBVIOUS
    <3>1. d # c
      BY <2>9
    <3>2. CASE d = moved
      BY <2>2, <2>4, <2>8, <2>9, <2>14, <3>1, <3>2
    <3>3. CASE d # moved
      <4>1. ndx[d] = p.ndx[d] /\ p.ndx[d] \in Conn /\ p.ptr[p.ndx[d]] = d
        BY <2>1, <2>9, <2>12, <3>1, <3>3
      <4> QED
        BY <2>2, <2>8, <2>14, <3>1, <3>3, <4>1
    <3> QED
      BY <3>2, <3>3
  <2>19. [ptr |-> ptr, used |-> last, ndx |-> ndx] \in PoolType
    BY <2>4, <2>7 DEF PoolType
  <2> QED
    BY <2>6, <2>15, <2>17, <2>18, <2>19 DEF PoolOK
<1> QED
  BY <1>1, <1>2

\* connections_get_new_connection (connections.c:43), with a slot free.
LEMMA PoolNew ==
  ASSUME NEW p, PoolOK(p), p.used < max_conns
  PROVE  PoolOK(connections_get_new_connection(p))
<1> DEFINE c == p.ptr[p.used]
           ndx == [p.ndx EXCEPT ![c] = p.used]
<1>1. /\ p.ptr \in [Conn -> Conn] /\ p.ndx \in [Conn -> Conn \cup {-1}]
      /\ p.used \in 0 .. max_conns
  BY DEF PoolOK, PoolType
<1>2. p.used \in Conn /\ p.used + 1 \in 0 .. max_conns
  <2> DEFINE u == p.used
  <2>1. u \in 0 .. max_conns /\ u < max_conns
    BY <1>1
  <2> HIDE DEF u
  <2>2. u \in Conn /\ u + 1 \in 0 .. max_conns
    BY <2>1, ServerAssumption DEF Conn
  <2> QED
    BY <2>2 DEF u
<1>3. c \in Conn
  BY <1>1, <1>2
<1>4. connections_get_new_connection(p) = [ptr |-> p.ptr, used |-> p.used + 1, ndx |-> ndx]
  <2>1. connections_get_new_connection(p) = [p EXCEPT !.ndx = ndx, !.used = p.used + 1]
    BY DEF connections_get_new_connection
  <2> HIDE DEF ndx
  <2> QED
    BY <2>1 DEF PoolOK, PoolType
<1>5. \A d \in Conn : ndx[d] = IF d = c THEN p.used ELSE p.ndx[d]
  BY <1>1, <1>3
<1>6. ndx \in [Conn -> Conn \cup {-1}]
  BY <1>1, <1>2, <1>3
<1>7. p.ptr[p.used] = c
  OBVIOUS
<1> HIDE DEF c, ndx
<1>8. \A s \in Conn : ndx[p.ptr[s]] = IF s < p.used + 1 THEN s ELSE -1
  <2> TAKE s \in Conn
  <2>1. CASE s = p.used
    BY <1>1, <1>2, <1>3, <1>5, <1>7, <2>1
  <2>2. CASE s # p.used
    <3>1. p.ptr[s] # c /\ p.ptr[s] \in Conn
      BY <1>1, <1>2, <1>7, <2>2 DEF PoolOK
    <3>2. s < p.used + 1 <=> s < p.used
      BY <1>1, <2>2, ConstantFacts
    <3> QED
      BY <1>5, <3>1, <3>2 DEF PoolOK
  <2> QED
    BY <2>1, <2>2
<1>9. \A d \in Conn : ndx[d] # -1 => p.ptr[ndx[d]] = d
  BY <1>5, <1>7 DEF PoolOK
<1>10. [ptr |-> p.ptr, used |-> p.used + 1, ndx |-> ndx] \in PoolType
  BY <1>1, <1>2, <1>6 DEF PoolType
<1> QED
  BY <1>4, <1>8, <1>9, <1>10 DEF PoolOK

-----------------------------------------------------------------------------
\* The inductive invariant, in the parts the actions disturb together.

\* What a frame holds, for all connections.  The pool needs more than
\* PoolConsistent: that says nothing of the slots that are not used, from
\* which the next connection is taken.
TablesInv ==
  /\ ev \in EvType /\ open \subseteq Fd /\ cur_fds \in Int
  /\ PoolOK(conns)
  /\ con \in [Conn -> ConRec]
  /\ hctx \in [Conn -> CtxRec] /\ \A c \in Conn : CtxReady(hctx[c])
  /\ joblist \in Seq(Conn)

WaitInv ==
  /\ want_fds \in Int /\ fdwaitqueue \in Seq(Conn)
  /\ WaitersCounted

\* The state machine has a caller to return to as long as it runs.
CallInv ==
  /\ pc \in Phases /\ cur \in Conn
  /\ ret \in {"none", "sweep", "fdwait", "accept", "jobs"}
  /\ pc \in {"machine", "arm"} <=> ret # "none"

LoopInv ==
  /\ i \in 0 .. max_conns /\ k \in Int /\ n \in Nat
  /\ DOMAIN pending \subseteq AnyFd
  /\ \A fd \in DOMAIN pending : pending[fd] \in Reports

CtrlInv ==
  /\ sockets_disabled \in BOOLEAN /\ listen_open \in BOOLEAN /\ pid_file \in BOOLEAN
  /\ graceful_shutdown \in BOOLEAN /\ srv_shutdown \in BOOLEAN
  /\ sigs \in 0 .. SigMax /\ forced \in BOOLEAN

IInv == TablesInv /\ WaitInv /\ CallInv /\ LoopInv /\ CtrlInv

\* A frame that may become the state.
Good(g) == FrameOK(g) /\ PoolOK(g.conns)

\* Whatever a handler keeps can be committed.
LEMMA KeepsGood ==
  ASSUME NEW f, NEW g, Keeps(f, g), Good(g)
  PROVE  Good(f)
BY DEF Keeps, Good

\* The frame of a connection is one.
LEMMA FrameGood ==
  ASSUME TablesInv, NEW c \in Conn
  PROVE  /\ Good(Frame(c)) /\ Frame(c).r = con[c] /\ Frame(c).h = hctx[c]
         /\ Frame(c).conns = conns /\ Frame(c).ev = ev
BY DEF TablesInv, Frame, Good, FrameOK, FrameType, PoolOK

\* Commit makes a good frame a good state.
LEMMA CommitOK ==
  ASSUME TablesInv, NEW c \in Conn, NEW g, Good(g), Commit(c, g)
  PROVE  TablesInv'
<1>1. /\ g.ev \in EvType /\ g.open \subseteq Fd /\ g.cur_fds \in Int
      /\ g.r \in ConRec /\ g.h \in CtxRec /\ CtxReady(g.h) /\ g.jobs \in Nat
  BY DEF Good, FrameOK, FrameType
<1>2. joblist' \in Seq(Conn)
  <2>1. Repeat(c, g.jobs) \in Seq(Conn)
    BY <1>1 DEF Repeat
  <2> QED
    BY <2>1 DEF Commit, TablesInv
<1>3. con' \in [Conn -> ConRec]
  BY <1>1 DEF Commit, TablesInv
<1>4. hctx' \in [Conn -> CtxRec] /\ \A d \in Conn : CtxReady(hctx'[d])
  BY <1>1 DEF Commit, TablesInv
<1>5. ev' \in EvType /\ open' \subseteq Fd /\ cur_fds' \in Int
  BY <1>1 DEF Commit
<1>6. PoolOK(conns')
  BY DEF Commit, Good
<1> QED
  BY <1>2, <1>3, <1>4, <1>5, <1>6 DEF TablesInv, CtxReady

\* connection_close gives up the descriptor and the slot.
LEMMA ConnectionCloseOK ==
  ASSUME NEW g, Good(g), NEW c \in Conn
  PROVE  Good(connection_close(c, g))
<1> DEFINE closed == CloseFd(g, g.r.fde_ndx, g.r.fd)
           p == connection_del(closed.conns, c)
           r == [closed.r EXCEPT !.fde_ndx = NotArmed, !.state = "CONNECT"]
<1>1. g.r.fd \in AnyFd
  BY ConstantFacts DEF Good, FrameOK, FrameType, ConRec
<1>2. closed \in FrameType /\ closed.conns = g.conns /\ closed.h = g.h /\ closed.r = g.r
  BY <1>1, CloseFdOK DEF Good, FrameOK
<1>3. PoolOK(p)
  BY <1>2, PoolDel DEF Good
<1>4. connection_close(c, g) = [closed EXCEPT !.conns = p, !.r = r]
  BY DEF connection_close
<1> HIDE DEF closed
<1>5. r \in ConRec
  BY <1>2 DEF FrameType, ConRec, ConStates, NotArmed
<1> HIDE DEF p, r
<1>6. [closed EXCEPT !.conns = p, !.r = r] \in FrameType
  BY <1>2, <1>3, <1>5 DEF FrameType, PoolOK
<1>7. CtxReady([closed EXCEPT !.conns = p, !.r = r].h)
  BY <1>2 DEF FrameType, Good, FrameOK
<1>8. [closed EXCEPT !.conns = p, !.r = r].conns = p
  BY <1>2 DEF FrameType
<1> QED
  BY <1>3, <1>4, <1>6, <1>7, <1>8 DEF Good, FrameOK

\* http_response_prepare, and the state the machine goes to afterwards.
LEMMA PrepareOK ==
  ASSUME NEW g, FrameOK(g), NEW c \in Conn
  PROVE  \A o \in http_response_prepare(c, g) : Keeps(AfterPrepare(o), g)
<1>1. Keeps(g, g)
  BY DEF Keeps
<1>2. Keeps([g EXCEPT !.r.write_queue = FALSE], g)
  BY DEF Keeps, FrameOK, FrameType, ConRec
<1>3. \A o \in NewRequest(c, g) : Keeps(o.g, g)
  <2> DEFINE counted == CountRequest(g)
             answer(d) == [counted EXCEPT !.r.decided = d, !.r.write_queue = ~d,
                                          !.r.file_finished = ~d]
             taken == [counted EXCEPT !.h = handler_ctx_init, !.r.mode = "FASTCGI"]
  <2>1. Keeps(counted, g)
    <3>1. Keeps([g EXCEPT !.r.keep_alive = FALSE], g)
      BY DEF Keeps, FrameOK, FrameType, ConRec
    <3> QED
      BY <1>1, <3>1 DEF CountRequest
  <2>2. NewRequest(c, g) =
          {Outcome(x, "FINISHED") : x \in {answer(d) : d \in BOOLEAN}}
          \cup {Outcome(counted, "ERROR")}
          \cup (IF fastcgi /\ ~g.r.file_started
                THEN mod_fastcgi_handle_subrequest(c, taken) ELSE {})
    BY DEF NewRequest
  <2> HIDE DEF counted
  <2>3. ASSUME NEW d \in BOOLEAN
        PROVE  Keeps(answer(d), counted)
    <3> DEFINE r == [counted.r EXCEPT !.decided = d, !.write_queue = ~d,
                                      !.file_finished = ~d]
    <3>1. r \in ConRec
      BY <2>1, ZenonT(60) DEF Keeps, FrameOK, FrameType, ConRec
    <3>2. answer(d) = [counted EXCEPT !.r = r]
      BY <2>1 DEF Keeps, FrameOK, FrameType
    <3> HIDE DEF r
    <3> QED
      BY <2>1, <3>1, <3>2 DEF Keeps, FrameOK, FrameType
  <2>4. Keeps(taken, counted)
    BY <2>1, CtxFacts DEF Keeps, FrameOK, FrameType, ConRec
  <2> HIDE DEF answer, taken
  <2>5. \A d \in BOOLEAN : Keeps(answer(d), g)
    BY <2>1, <2>3, KeepsTransitive
  <2>6. \A o \in mod_fastcgi_handle_subrequest(c, taken) : Keeps(o.g, g)
    BY <2>1, <2>4, SubrequestOK, KeepsTransitive DEF AllKeep, Keeps
  <2>7. ASSUME NEW o \in NewRequest(c, g)
        PROVE  Keeps(o.g, g)
    <3>1. \/ \E d \in BOOLEAN : o = Outcome(answer(d), "FINISHED")
          \/ o = Outcome(counted, "ERROR")
          \/ o \in mod_fastcgi_handle_subrequest(c, taken)
      BY <2>2, <2>7
    <3> QED
      BY <2>1, <2>5, <2>6, <3>1, OutcomeFields
  <2> QED
    BY <2>7
<1>4. \A o \in mod_fastcgi_handle_subrequest(c, g) : Keeps(o.g, g)
  BY SubrequestOK DEF AllKeep
<1>5. g.r.mode \in {"DIRECT", "FASTCGI"} /\ g.r.decided \in BOOLEAN
  BY DEF FrameOK, FrameType, ConRec
<1>6. \A o \in http_response_prepare(c, g) : Keeps(o.g, g)
  <2>1. CASE g.r.mode = "DIRECT" /\ g.r.decided
    BY <1>1, <1>2, <2>1, OutcomeFields DEF http_response_prepare
  <2>2. CASE g.r.mode = "DIRECT" /\ ~g.r.decided
    BY <1>3, <2>2 DEF http_response_prepare
  <2>3. CASE g.r.mode = "FASTCGI"
    BY <1>1, <1>4, <2>3, OutcomeFields DEF http_response_prepare
  <2> QED
    BY <1>5, <2>1, <2>2, <2>3
<1>7. ASSUME NEW o \in http_response_prepare(c, g)
      PROVE  Keeps(AfterPrepare(o), g)
  <2>1. \A s \in ConStates : Keeps(connection_set_state(o.g, s), g)
    BY <1>6, SetStateOK, KeepsTransitive DEF Keeps
  <2> QED
    BY <2>1 DEF AfterPrepare, ConStates
<1> QED
  BY <1>7

\* The switch behind the loop of the state machine.
LEMMA RequestEventsOK ==
  ASSUME NEW g, FrameOK(g)
  PROVE  Keeps(RequestEvents(g), g)
<1>1. g.r.fd \in AnyFd /\ g.r.fd \in Fd \cup {0, NotArmed}
  BY ConstantFacts DEF FrameOK, FrameType, ConRec
<1>2. Keeps(StopWaiting(g), g)
  <2>1. ASSUME NEW ndx
        PROVE  fdevent_event_del(g.ev, ndx, g.r.fd) \in EvType
    BY <1>1, EvOps, ConstantFacts DEF FrameOK, FrameType
  <2> QED
    BY <2>1 DEF StopWaiting, Keeps, FrameOK, FrameType, ConRec, NotArmed
<1>3. ASSUME NEW what
      PROVE  Keeps(WaitFor(g, what), g)
  <2>1. fdevent_event_add(g.ev, g.r.fd, what) \in EvType
    BY <1>1, EvOps, ConstantFacts DEF FrameOK, FrameType
  <2> QED
    BY <1>1, <2>1 DEF WaitFor, Keeps, FrameOK, FrameType, ConRec
<1> QED
  BY <1>2, <1>3 DEF RequestEvents

\* A new connection.
LEMMA AcceptedOK ==
  ASSUME TablesInv, conns.used < max_conns, NEW c \in Conn, NEW fd \in Fd
  PROVE  Good(Accepted(c, fd))
<1> DEFINE g == connection_reset(Frame(c))
           r == [g.r EXCEPT !.fd = fd, !.fde_ndx = NotArmed, !.state = "REQUEST_START"]
           e == fdevent_register(g.ev, fd, "connection", c)
           p == connections_get_new_connection(g.conns)
<1>1. FrameOK(g) /\ g.conns = conns
  BY FrameGood, ResetOK DEF Good, Keeps
<1>2. PoolOK(p)
  BY <1>1, PoolNew DEF TablesInv
<1>3. Accepted(c, fd) = [g EXCEPT !.r = r, !.ev = e, !.open = @ \cup {fd},
                                  !.cur_fds = @ + 1, !.conns = p]
  BY DEF Accepted
<1> HIDE DEF g
<1>4. r \in ConRec
  BY <1>1 DEF FrameOK, FrameType, ConRec, ConStates, NotArmed
<1>5. e \in EvType
  BY <1>1, EvOps, ConstantFacts DEF FrameOK, FrameType
<1>6. g.cur_fds + 1 \in Int /\ g.open \cup {fd} \subseteq Fd
  BY <1>1 DEF FrameOK, FrameType
<1> HIDE DEF r, e, p
<1>7. [g EXCEPT !.r = r, !.ev = e, !.open = @ \cup {fd}, !.cur_fds = @ + 1, !.conns = p]
        \in FrameType
  BY <1>1, <1>2, <1>4, <1>5, <1>6 DEF FrameOK, FrameType, PoolOK
<1>8. /\ Accepted(c, fd).h = g.h /\ Accepted(c, fd).conns = p
  BY <1>1, <1>3 DEF FrameOK, FrameType
<1> QED
  BY <1>1, <1>2, <1>3, <1>7, <1>8 DEF Good, FrameOK

-----------------------------------------------------------------------------
\* The steps of connection_state_machine.

\* A turn of the machine that ends with a good frame.
LEMMA TurnOK ==
  ASSUME IInv, pc = "machine", NEW s, NEW g, Good(g), Turn(s, g)
  PROVE  TablesInv' /\ CallInv' /\ LoopInv' /\ CtrlInv' /\ ret' = ret
<1>1. TablesInv'
  BY CommitOK DEF IInv, CallInv, Turn
<1>2. CallInv'
  BY DEF IInv, CallInv, Turn, Phases
<1>3. LoopInv' /\ CtrlInv' /\ ret' = ret
  BY DEF IInv, LoopInv, CtrlInv, Turn, loopVars, ctrlVars
<1> QED
  BY <1>1, <1>2, <1>3

\* The request line and the headers only decide where the connection goes next.
LEMMA ParseOK ==
  ASSUME NEW r \in ConRec
  PROVE  http_request_parse(r) \subseteq ConRec
<1>1. ASSUME NEW s \in {"HANDLE_REQUEST", "READ_POST"}, NEW keep \in BOOLEAN
      PROVE  [r EXCEPT !.state = s, !.keep_alive = keep] \in ConRec
  BY DEF ConRec, ConStates
<1>2. [r EXCEPT !.state = "HANDLE_REQUEST", !.decided = TRUE, !.keep_alive = FALSE] \in ConRec
  BY DEF ConRec, ConStates
<1>3. [r EXCEPT !.state = "HANDLE_REQUEST", !.decided = TRUE, !.bad_version = TRUE] \in ConRec
  BY DEF ConRec, ConStates
<1> QED
  BY <1>1, <1>2, <1>3 DEF http_request_parse, UnknownVersion

\* Nobody joins or leaves the queue for descriptors.
LEMMA QueueAlone ==
  ASSUME WaitInv, want_fds' = want_fds, fdwaitqueue' = fdwaitqueue,
         ret' = "fdwait" <=> ret = "fdwait"
  PROVE  WaitInv'
BY DEF WaitInv, WaitersCounted

\* One turn of the loop of connection_state_machine, for every state.
LEMMA StateMachineOK ==
  ASSUME IInv, StateMachine
  PROVE  IInv'
<1> DEFINE g == Frame(cur)
<1>1. Good(g) /\ g.r = con[cur] /\ cur \in Conn
  BY FrameGood DEF IInv, CallInv
<1>2. FrameOK(g) /\ con[cur] \in ConRec /\ WaitInv
  BY <1>1 DEF Good, IInv, TablesInv
<1> HIDE DEF g
<1>3. ASSUME NEW r \in ConRec
      PROVE  Good([g EXCEPT !.r = r])
  BY <1>1 DEF Good, FrameOK, FrameType
<1>4. ASSUME NEW s, NEW f, Good(f), pc = "machine", Turn(s, f),
             want_fds' = want_fds, fdwaitqueue' = fdwaitqueue
      PROVE  IInv'
  BY <1>2, <1>4, TurnOK, QueueAlone DEF IInv
<1>5. CASE SmRequestStart
  <2>1. con[cur].request_count + 1 \in Nat
    BY <1>2 DEF ConRec
  <2>2. StartRequest(con[cur]) \in ConRec
    BY <1>2, <2>1, RangeFacts DEF StartRequest, ConRec, ConStates
  <2>3. Turn("REQUEST_START", [g EXCEPT !.r = StartRequest(con[cur])])
    BY <1>5 DEF SmRequestStart, g
  <2> QED
    BY <1>3, <1>4, <1>5, <2>2, <2>3 DEF SmRequestStart, At
<1>6. CASE SmRead
  <2>1. PICK r \in connection_handle_read_state(con[cur]) :
          Turn(con[cur].state, [g EXCEPT !.r = r])
    BY <1>6 DEF SmRead, g
  <2>2. r \in ConRec
    BY <1>2, ReadStateOK
  <2> QED
    BY <1>3, <1>4, <1>6, <2>1, <2>2 DEF SmRead
<1>7. CASE SmRequestEnd
  <2>1. PICK r \in http_request_parse(con[cur]) : Turn("REQUEST_END", [g EXCEPT !.r = r])
    BY <1>7 DEF SmRequestEnd, g
  <2>2. r \in ConRec
    BY <1>2, <2>1, ParseOK
  <2> QED
    BY <1>3, <1>4, <1>7, <2>1, <2>2 DEF SmRequestEnd, At
<1>8. CASE SmHandleRequest
  <2>1. PICK o \in http_response_prepare(cur, g) :
          Turn("HANDLE_REQUEST", AfterPrepare(o)) /\ WaitForFd(o)
    BY <1>8 DEF SmHandleRequest, g
  <2>2. Good(AfterPrepare(o))
    BY <1>1, <1>2, PrepareOK, KeepsGood
  <2>3. TablesInv' /\ CallInv' /\ LoopInv' /\ CtrlInv' /\ ret' = ret
    BY <1>8, <2>1, <2>2, TurnOK DEF SmHandleRequest, At
  <2>4. WaitInv'
    BY <1>1, <1>2, <2>1, <2>3 DEF WaitForFd, WaitInv, WaitersCounted
  <2> QED
    BY <2>3, <2>4 DEF IInv
<1>9. CASE SmResponseStart
  <2>1. PICK r \in connection_handle_write_prepare(con[cur]) :
          Turn("RESPONSE_START", [g EXCEPT !.r = [r EXCEPT !.state = "WRITE"]])
    BY <1>9 DEF SmResponseStart, g
  <2>2. r \in ConRec
    BY <1>2, WritePrepareOK
  <2>3. [r EXCEPT !.state = "WRITE"] \in ConRec
    BY <2>2 DEF ConRec, ConStates
  <2> QED
    BY <1>3, <1>4, <1>9, <2>1, <2>3 DEF SmResponseStart, At
<1>10. CASE SmWrite
  <2>1. PICK f \in TryWrite(g) : Turn("WRITE", f)
    BY <1>10 DEF SmWrite, g
  <2>2. Good(f)
    BY <1>1, <1>2, WriteOK, KeepsGood DEF AllFramesKeep
  <2> QED
    BY <1>4, <1>10, <2>1, <2>2 DEF SmWrite, At
<1>11. CASE SmResponseEnd
  <2> DEFINE next == connection_set_state(g, "REQUEST_START")
             gone == connection_close(cur, fcgi_connection_close(g))
             f == IF con[cur].keep_alive THEN next ELSE gone
  <2>1. Good(next)
    BY <1>1, <1>2, SetStateOK, KeepsGood DEF ConStates
  <2>2. Good(gone)
    BY <1>1, <1>2, FcgiCloseOK, KeepsGood, ConnectionCloseOK
  <2>3. Good(f)
    BY <2>1, <2>2
  <2>4. Turn("RESPONSE_END", connection_reset(f))
    BY <1>11 DEF SmResponseEnd, g
  <2> HIDE DEF f
  <2>5. Good(connection_reset(f))
    BY <2>3, ResetOK, KeepsGood DEF Good
  <2> QED
    BY <1>4, <1>11, <2>4, <2>5 DEF SmResponseEnd, At
<1>12. CASE SmConnect
  <2> DEFINE r == [con[cur] EXCEPT !.read_queue = 0, !.request_count = 0]
  <2>1. r \in ConRec
    BY <1>2, RangeFacts DEF ConRec
  <2>2. [g EXCEPT !.r.read_queue = 0, !.r.request_count = 0] = [g EXCEPT !.r = r]
    BY <1>1, <1>2 DEF FrameOK, FrameType
  <2>3. Turn("CONNECT", [g EXCEPT !.r = r])
    BY <1>12, <2>2 DEF SmConnect, g
  <2> HIDE DEF r
  <2> QED
    BY <1>3, <1>4, <1>12, <2>1, <2>3 DEF SmConnect, At
<1>13. CASE SmError
  <2> DEFINE reset == connection_reset(g)
             closing == [connection_set_state(reset, "CLOSE") EXCEPT !.r.close_idle = 0]
             gone == connection_close(cur, reset)
  <2>1. Good(reset)
    BY <1>1, <1>2, ResetOK, KeepsGood
  <2>2. Good(gone)
    BY <1>1, <2>1, ConnectionCloseOK
  <2>3. Good(closing)
    <3>1. Good(connection_set_state(reset, "CLOSE"))
      BY <2>1, SetStateOK, KeepsGood DEF Good, ConStates
    <3>2. \A f : FrameOK(f) => Keeps([f EXCEPT !.r.close_idle = 0], f)
      BY RangeFacts DEF Keeps, FrameOK, FrameType, ConRec
    <3> QED
      BY <3>1, <3>2, KeepsGood DEF Good
  <2>4. PICK left \in {closing, gone} : Turn("ERROR", [left EXCEPT !.r.keep_alive = FALSE])
    BY <1>13 DEF SmError, g
  <2> HIDE DEF closing, gone
  <2>5. \A f : FrameOK(f) => Keeps([f EXCEPT !.r.keep_alive = FALSE], f)
    BY ZenonT(60) DEF Keeps, FrameOK, FrameType, ConRec
  <2>6. Good([left EXCEPT !.r.keep_alive = FALSE])
    BY <2>2, <2>3, <2>5, KeepsGood DEF Good
  <2> QED
    BY <1>4, <1>13, <2>4, <2>6 DEF SmError, At
<1>14. CASE SmClose
  <2> DEFINE late == [g EXCEPT !.r.close_idle = CloseCap]
  <2>1. Good(late)
    BY <1>1, RangeFacts DEF Good, FrameOK, FrameType, ConRec
  <2>2. \E x \in {g, late} :
          Turn("CLOSE", IF x.r.close_idle > 1 THEN connection_close(cur, x) ELSE x)
    BY <1>14 DEF SmClose, g
  <2> HIDE DEF late
  <2>3. \A x \in {g, late} : Good(x) /\ Good(connection_close(cur, x))
    BY <1>1, <2>1, ConnectionCloseOK
  <2>4. PICK f : Turn("CLOSE", f) /\ Good(f)
    BY <2>2, <2>3
  <2> QED
    BY <1>4, <1>14, <2>4 DEF SmClose, At
<1>15. CASE Arm
  <2> DEFINE waiting == RequestEvents(g)
             f == IF ret \in {"accept", "jobs"} THEN mod_fastcgi_handle_joblist(waiting)
                  ELSE waiting
  <2>1. Good(waiting)
    BY <1>1, <1>2, RequestEventsOK, KeepsGood
  <2>2. Good(f)
    BY <2>1, FcgiJoblistOK, KeepsGood DEF Good
  <2>3. TablesInv'
    <3>1. Commit(cur, f)
      BY <1>15 DEF Arm, g
    <3> HIDE DEF f
    <3> QED
      BY <1>1, <2>2, <3>1, CommitOK DEF IInv
  <2>4. CallInv'
    BY <1>15, ConstantFacts DEF IInv, CallInv, Arm, Phases
  <2>5. WaitInv'
    BY <1>15 DEF IInv, WaitInv, WaitersCounted, Arm
  <2>6. LoopInv' /\ CtrlInv'
    BY <1>15 DEF IInv, LoopInv, CtrlInv, Arm, loopVars, ctrlVars
  <2> QED
    BY <2>3, <2>4, <2>5, <2>6 DEF IInv
<1> QED
  BY <1>5, <1>6, <1>7, <1>8, <1>9, <1>10, <1>11, <1>12, <1>13, <1>14, <1>15 DEF StateMachine

-----------------------------------------------------------------------------
\* The steps of the main loop.

\* Once a second: the clock and the sweep.
LEMMA SweepOK ==
  ASSUME IInv, NewSecond \/ SameSecond \/ Sweep \/ SweepDone
  PROVE  IInv'
<1> USE DEF loopVars, ctrlVars, connVars, waitVars
<1>1. CASE NewSecond
  <2>1. ASSUME NEW c \in Conn
        PROVE  Aged(con[c]) \in ConRec
    <3> DEFINE r == con[c]
    <3>1. r \in ConRec
      BY DEF IInv, TablesInv
    <3> HIDE DEF r
    <3>2. /\ r.read_idle \in 0 .. IdleCap /\ r.write_idle \in Unset .. WriteCap
          /\ r.close_idle \in 0 .. CloseCap
      BY <3>1 DEF ConRec
    <3>3. /\ Older(r.read_idle, IdleCap) \in 0 .. IdleCap
          /\ Older(r.write_idle, WriteCap) \in Unset .. WriteCap
          /\ Older(r.close_idle, CloseCap) \in 0 .. CloseCap
      BY <3>2, RangeFacts DEF Older, Unset, CloseCap
    <3>4. Aged(r) \in ConRec
      BY <3>1, <3>2, <3>3 DEF Aged, ConRec
    <3> QED
      BY <3>4 DEF r
  <2>2. TablesInv'
    BY <1>1, <2>1 DEF IInv, TablesInv, NewSecond, CtxReady
  <2>3. WaitInv' /\ CallInv' /\ CtrlInv'
    BY <1>1 DEF IInv, WaitInv, WaitersCounted, CallInv, CtrlInv, NewSecond, Phases
  <2>4. LoopInv'
    BY <1>1, ServerAssumption DEF IInv, LoopInv, NewSecond
  <2> QED
    BY <2>2, <2>3, <2>4 DEF IInv
<1>2. CASE SameSecond
  BY <1>2 DEF IInv, TablesInv, WaitInv, WaitersCounted, CallInv, LoopInv, CtrlInv,
     SameSecond, Phases, CtxReady
<1>3. CASE Sweep
  <2> DEFINE c == conns.ptr[i]
             r == IF TimedOut(con[c]) THEN [con[c] EXCEPT !.state = "ERROR"] ELSE con[c]
             swept(enable) == [r EXCEPT !.traffic_limit_reached = @ /\ ~enable]
  <2>1. i \in Conn /\ i + 1 \in 0 .. max_conns
    <3>1. conns.used \in 0 .. max_conns
      BY DEF IInv, TablesInv, PoolOK, PoolType
    <3>2. i \in 0 .. max_conns /\ i < conns.used
      BY <1>3 DEF IInv, LoopInv, Sweep
    <3>3. max_conns \in Nat
      BY ServerAssumption
    <3> QED
      BY <3>1, <3>2, <3>3 DEF Conn
  <2>2. c \in Conn
    BY <2>1 DEF IInv, TablesInv, PoolOK, PoolType
  <2>3. con[c] \in ConRec
    BY <2>2 DEF IInv, TablesInv
  <2>4. r \in ConRec
    BY <2>3, SMTT(30) DEF ConRec, ConStates
  <2>5. PICK enable : /\ con' = [con EXCEPT ![c] = swept(enable)]
                      /\ IF Changed(con[c], enable)
                         THEN CallMachine(c, "sweep") ELSE UNCHANGED <<pc, cur, ret>>
    BY <1>3 DEF Sweep
  <2> HIDE DEF c, r
  <2>6. swept(enable) \in ConRec
    BY <2>4, ZenonT(60) DEF ConRec
  <2>7. TablesInv'
    BY <1>3, <2>2, <2>5, <2>6 DEF IInv, TablesInv, Sweep, CtxReady
  <2>8. CallInv' /\ (ret' = "fdwait" <=> ret = "fdwait")
    BY <1>3, <2>2, <2>5 DEF IInv, CallInv, CallMachine, Sweep, Phases
  <2>9. WaitInv' /\ CtrlInv'
    BY <1>3, <2>8, QueueAlone DEF IInv, CtrlInv, Sweep
  <2>10. LoopInv'
    BY <1>3, <2>1 DEF IInv, LoopInv, Sweep
  <2> QED
    BY <2>7, <2>8, <2>9, <2>10 DEF IInv
<1>4. CASE SweepDone
  BY <1>4, ServerAssumption DEF IInv, TablesInv, WaitInv, WaitersCounted, CallInv, LoopInv,
     CtrlInv, SweepDone, Phases, CtxReady
<1> QED
  BY <1>1, <1>2, <1>3, <1>4

\* Accepting on and off, the graceful shutdown, the queue for descriptors.
LEMMA SocketsOK ==
  ASSUME IInv, \/ EnableSockets \/ DisableSockets \/ KeepSockets \/ CheckGraceful
               \/ FdWait \/ FdWaitDone
  PROVE  IInv'
<1> USE DEF loopVars, ctrlVars, connVars, waitVars
<1>1. CASE EnableSockets
  <2>1. ev' \in EvType
    BY <1>1, EvOps, ConstantFacts DEF IInv, TablesInv, EnableSockets
  <2>2. TablesInv'
    BY <1>1, <2>1 DEF IInv, TablesInv, EnableSockets, CtxReady
  <2> QED
    BY <1>1, <2>2 DEF IInv, WaitInv, WaitersCounted, CallInv, LoopInv, CtrlInv,
       EnableSockets, Phases
<1>2. CASE DisableSockets
  <2>1. StopListening(ev) \in EvType
    BY EvOps, ConstantFacts DEF IInv, TablesInv, StopListening
  <2>2. TablesInv'
    BY <1>2, <2>1 DEF IInv, TablesInv, DisableSockets, CtxReady
  <2> QED
    BY <1>2, <2>2 DEF IInv, WaitInv, WaitersCounted, CallInv, LoopInv, CtrlInv,
       DisableSockets, Phases
<1>3. CASE KeepSockets
  BY <1>3 DEF IInv, TablesInv, WaitInv, WaitersCounted, CallInv, LoopInv, CtrlInv,
     KeepSockets, Phases, CtxReady
<1>4. CASE CheckGraceful
  <2>1. k' \in Int
    BY <1>4, FdAssumption, ServerAssumption DEF IInv, TablesInv, CheckGraceful
  <2> QED
    BY <1>4, <2>1 DEF IInv, TablesInv, WaitInv, WaitersCounted, CallInv, LoopInv, CtrlInv,
       CheckGraceful, Phases, CtxReady
<1>5. CASE FdWait
  <2>1. /\ fdwaitqueue \in Seq(Conn) /\ fdwaitqueue # <<>>
    BY <1>5 DEF IInv, WaitInv, FdWait
  <2>2. /\ Head(fdwaitqueue) \in Conn /\ Tail(fdwaitqueue) \in Seq(Conn)
        /\ Len(Tail(fdwaitqueue)) = Len(fdwaitqueue) - 1
        /\ Len(fdwaitqueue) \in Nat
    BY <2>1
  <2>3. TablesInv' /\ CtrlInv'
    BY <1>5 DEF IInv, TablesInv, CtrlInv, FdWait, CtxReady
  <2>4. WaitInv'
    <3>1. ret = "none" /\ ret' = "fdwait"
      BY <1>5 DEF IInv, CallInv, FdWait, CallMachine
    <3>2. want_fds = Len(fdwaitqueue) + 0 /\ want_fds \in Int
      BY <3>1 DEF IInv, WaitInv, WaitersCounted
    <3>3. want_fds' = want_fds /\ fdwaitqueue' = Tail(fdwaitqueue)
      BY <1>5 DEF FdWait
    <3>4. want_fds' = Len(fdwaitqueue') + 1
      BY <2>2, <3>2, <3>3
    <3> QED
      BY <2>2, <3>1, <3>2, <3>3, <3>4 DEF WaitInv, WaitersCounted
  <2>5. CallInv' /\ LoopInv'
    BY <1>5, <2>2 DEF IInv, CallInv, LoopInv, FdWait, CallMachine, Phases
  <2> QED
    BY <2>3, <2>4, <2>5 DEF IInv
<1>6. CASE FdWaitDone
  BY <1>6 DEF IInv, TablesInv, WaitInv, WaitersCounted, CallInv, LoopInv, CtrlInv,
     FdWaitDone, Phases, CtxReady
<1> QED
  BY <1>1, <1>2, <1>3, <1>4, <1>5, <1>6

\* What select() answers, and the number the dispatch loop starts with.
LEMMA PollOK ==
  ASSUME ev \in EvType, NEW p \in fdevent_select_poll(ev)
  PROVE  /\ DOMAIN p \subseteq AnyFd /\ \A fd \in DOMAIN p : p[fd] \in Reports
         /\ BitCount(p) \in Nat
<1>1. PICK S \in SUBSET (ev.rd \cup ev.wr) : p \in [S -> Reports]
  BY DEF fdevent_select_poll
<1>2. DOMAIN p \subseteq AnyFd /\ \A fd \in DOMAIN p : p[fd] \in Reports
  BY <1>1 DEF EvType
<1>3. IsFiniteSet(AnyFd)
  <2>1. IsFiniteSet(Fd)
    BY FS_Interval, FdAssumption DEF Fd
  <2>2. IsFiniteSet(Fd \cup {listen_fd})
    BY <2>1, FS_AddElement
  <2>3. IsFiniteSet((Fd \cup {listen_fd}) \cup {0})
    BY <2>2, FS_AddElement
  <2>4. AnyFd = (Fd \cup {listen_fd}) \cup {0}
    BY DEF AnyFd
  <2> QED
    BY <2>3, <2>4
<1>4. IsFiniteSet({"IN", "OUT", "ERR"})
  <2>1. IsFiniteSet({"IN"} \cup {"OUT"})
    BY FS_Singleton, FS_AddElement
  <2>2. IsFiniteSet(({"IN"} \cup {"OUT"}) \cup {"ERR"})
    BY <2>1, FS_AddElement
  <2>3. {"IN", "OUT", "ERR"} = ({"IN"} \cup {"OUT"}) \cup {"ERR"}
    OBVIOUS
  <2> QED
    BY <2>2, <2>3
<1>5. IsFiniteSet((DOMAIN p) \X {"IN", "OUT", "ERR"})
  <2>1. IsFiniteSet(DOMAIN p)
    BY <1>2, <1>3, FS_Subset
  <2> QED
    BY <1>4, <2>1, FS_Product
<1> DEFINE bits == {b \in (DOMAIN p) \X {"IN", "OUT", "ERR"} : b[2] \in p[b[1]]}
<1>6. bits \in SUBSET ((DOMAIN p) \X {"IN", "OUT", "ERR"})
  OBVIOUS
<1> HIDE DEF bits
<1>7. Cardinality(bits) \in Nat
  BY <1>5, <1>6, FS_Subset, FS_CardinalityType
<1> QED
  BY <1>2, <1>7 DEF BitCount, bits

\* The dispatch loop takes one report.
LEMMA DispatchingOK ==
  ASSUME LoopInv, NEW fd \in DOMAIN pending, NEW handler, Dispatching(fd, handler)
  PROVE  /\ n' \in Nat /\ DOMAIN pending' \subseteq AnyFd
         /\ \A other \in DOMAIN pending' : pending'[other] \in Reports
         /\ fd \in AnyFd
<1>1. n' \in Nat
  BY DEF LoopInv, Dispatching
<1>2. pending' = [other \in (DOMAIN pending) \ {fd} |-> pending[other]]
  BY DEF Dispatching
<1> QED
  BY <1>1, <1>2 DEF LoopInv

\* select() and the event handlers.
LEMMA EventsOK ==
  ASSUME IInv, \/ Poll \/ ConnectionEvent \/ BackendEvent \/ ServerEvent \/ Crash
               \/ DispatchDone
  PROVE  IInv'
<1> USE DEF loopVars, ctrlVars, connVars, waitVars
<1>0. \A fd \in AnyFd : ev.fdarray[fd].ctx \in Conn
  BY DEF IInv, TablesInv, EvType
<1>1. CASE Poll
  <2>1. LoopInv'
    BY <1>1, PollOK DEF IInv, TablesInv, LoopInv, Poll
  <2> QED
    BY <1>1, <2>1 DEF IInv, TablesInv, WaitInv, WaitersCounted, CallInv, CtrlInv,
       Poll, Phases, CtxReady
<1>2. CASE ConnectionEvent
  <2>1. PICK fd \in DOMAIN pending :
          /\ Dispatching(fd, "connection")
          /\ \E g \in connection_handle_fdevent(Frame(ev.fdarray[fd].ctx), pending[fd]) :
               Commit(ev.fdarray[fd].ctx, g)
    BY <1>2 DEF ConnectionEvent
  <2> DEFINE c == ev.fdarray[fd].ctx
  <2>2. PICK g \in connection_handle_fdevent(Frame(c), pending[fd]) : Commit(c, g)
    BY <2>1
  <2>3. LoopInv' /\ c \in Conn
    BY <1>0, <1>2, <2>1, DispatchingOK DEF IInv, LoopInv, ConnectionEvent
  <2> HIDE DEF c
  <2>4. Good(g)
    BY <2>2, <2>3, FrameGood, ConnectionEventOK, KeepsGood DEF IInv, AllFramesKeep, Good
  <2>5. TablesInv'
    BY <2>2, <2>3, <2>4, CommitOK DEF IInv
  <2> QED
    BY <1>2, <2>3, <2>5 DEF IInv, WaitInv, WaitersCounted, CallInv, CtrlInv, ConnectionEvent
<1>3. CASE BackendEvent
  <2>1. PICK fd \in DOMAIN pending :
          /\ Dispatching(fd, "fcgi")
          /\ \E g \in fcgi_handle_fdevent(ev.fdarray[fd].ctx, Frame(ev.fdarray[fd].ctx),
                                          pending[fd]) :
               Commit(ev.fdarray[fd].ctx, g)
    BY <1>3 DEF BackendEvent
  <2> DEFINE c == ev.fdarray[fd].ctx
  <2>2. PICK g \in fcgi_handle_fdevent(c, Frame(c), pending[fd]) : Commit(c, g)
    BY <2>1
  <2>3. LoopInv' /\ c \in Conn
    BY <1>0, <1>3, <2>1, DispatchingOK DEF IInv, LoopInv, BackendEvent
  <2> HIDE DEF c
  <2>4. Good(g)
    BY <2>2, <2>3, FrameGood, FcgiEventOK, KeepsGood DEF IInv, AllFramesKeep, Good
  <2>5. TablesInv'
    BY <2>2, <2>3, <2>4, CommitOK DEF IInv
  <2> QED
    BY <1>3, <2>3, <2>5 DEF IInv, WaitInv, WaitersCounted, CallInv, CtrlInv, BackendEvent
<1>4. CASE ServerEvent
  <2>1. PICK fd \in DOMAIN pending : Dispatching(fd, "server")
    BY <1>4 DEF ServerEvent
  <2>2. LoopInv'
    BY <1>4, <2>1, DispatchingOK DEF IInv, LoopInv, ServerEvent
  <2>3. pc = "dispatch"
    BY <2>1 DEF Dispatching
  <2> QED
    BY <1>4, <2>2, <2>3 DEF IInv, TablesInv, WaitInv, WaitersCounted, CallInv, CtrlInv,
       ServerEvent, Phases, CtxReady
<1>5. CASE Crash
  BY <1>5 DEF IInv, TablesInv, WaitInv, WaitersCounted, CallInv, LoopInv, CtrlInv,
     Crash, Phases, CtxReady
<1>6. CASE DispatchDone
  <2>1. LoopInv'
    BY <1>6 DEF IInv, LoopInv, DispatchDone, NoReports
  <2> QED
    BY <1>6, <2>1 DEF IInv, TablesInv, WaitInv, WaitersCounted, CallInv, CtrlInv,
       DispatchDone, Phases, CtxReady
<1> QED
  BY <1>1, <1>2, <1>3, <1>4, <1>5, <1>6

\* The accept handler, the job list and the end of the loop.
LEMMA JobsOK ==
  ASSUME IInv, Accept \/ AcceptDone \/ Job \/ JobsDone \/ Exit
  PROVE  IInv'
<1> USE DEF loopVars, ctrlVars, connVars, waitVars
<1>1. CASE Accept
  <2> DEFINE c == conns.ptr[conns.used]
  <2>1. conns.used < max_conns /\ conns.used \in Conn
    <3> DEFINE u == conns.used
    <3>1. u \in 0 .. max_conns /\ u < max_conns
      BY <1>1 DEF IInv, TablesInv, PoolOK, PoolType, Accept
    <3> HIDE DEF u
    <3>2. u \in Conn
      BY <3>1, ServerAssumption DEF Conn
    <3> QED
      BY <3>1, <3>2 DEF u
  <2>2. c \in Conn
    BY <2>1 DEF IInv, TablesInv, PoolOK, PoolType
  <2>3. PICK fd \in FreeFd(Frame(c)) :
          /\ Commit(c, Accepted(c, fd))
          /\ \/ CallMachine(c, "accept") /\ k' = k + 1
             \/ "fcntl" \in Faults /\ pc' = "dispatch" /\ k' = 0 /\ UNCHANGED <<cur, ret>>
    BY <1>1 DEF Accept
  <2> HIDE DEF c
  <2>4. fd \in Fd
    BY <2>3 DEF FreeFd
  <2>5. TablesInv'
    BY <2>1, <2>2, <2>3, <2>4, AcceptedOK, CommitOK DEF IInv
  <2>6. CallInv' /\ (ret' = "fdwait" <=> ret = "fdwait")
    BY <1>1, <2>2, <2>3 DEF IInv, CallInv, CallMachine, Accept, Phases
  <2>7. WaitInv' /\ CtrlInv'
    BY <1>1, <2>6, QueueAlone DEF IInv, CtrlInv, Accept
  <2>8. LoopInv'
    BY <1>1, <2>3 DEF IInv, LoopInv, Accept
  <2> QED
    BY <2>5, <2>6, <2>7, <2>8 DEF IInv
<1>2. CASE AcceptDone
  BY <1>2 DEF IInv, TablesInv, WaitInv, WaitersCounted, CallInv, LoopInv, CtrlInv,
     AcceptDone, Phases, CtxReady
<1>3. CASE Job
  <2>1. joblist \in Seq(Conn) /\ joblist # <<>>
    BY <1>3 DEF IInv, TablesInv, Job
  <2>2. Head(joblist) \in Conn /\ Tail(joblist) \in Seq(Conn)
    BY <2>1
  <2>3. TablesInv'
    BY <1>3, <2>2 DEF IInv, TablesInv, Job, CtxReady
  <2>4. CallInv' /\ (ret' = "fdwait" <=> ret = "fdwait")
    BY <1>3, <2>2 DEF IInv, CallInv, CallMachine, Job, Phases
  <2>5. WaitInv' /\ LoopInv' /\ CtrlInv'
    BY <1>3, <2>4, QueueAlone DEF IInv, LoopInv, CtrlInv, Job
  <2> QED
    BY <2>3, <2>4, <2>5 DEF IInv
<1>4. CASE JobsDone
  BY <1>4 DEF IInv, TablesInv, WaitInv, WaitersCounted, CallInv, LoopInv, CtrlInv,
     JobsDone, Phases, CtxReady
<1>5. CASE Exit
  BY <1>5 DEF IInv, TablesInv, WaitInv, WaitersCounted, CallInv, LoopInv, CtrlInv,
     Exit, Phases, CtxReady
<1> QED
  BY <1>1, <1>2, <1>3, <1>4, <1>5

\* Signals, and the worker that has stopped.
LEMMA SignalsOK ==
  ASSUME IInv, Sigint \/ Sigterm \/ Stopped \/ UNCHANGED vars
  PROVE  IInv'
<1> USE DEF loopVars, ctrlVars, connVars, waitVars, vars
<1>1. CASE Sigint \/ Sigterm
  <2>1. CtrlInv'
    <3>1. sigs' \in 0 .. SigMax
      BY <1>1, ServerAssumption DEF IInv, CtrlInv, Sigint, Sigterm
    <3>2. graceful_shutdown' \in BOOLEAN /\ srv_shutdown' \in BOOLEAN /\ forced' \in BOOLEAN
      BY <1>1, Zenon DEF IInv, CtrlInv, Sigint, Sigterm
    <3> QED
      BY <1>1, <3>1, <3>2 DEF IInv, CtrlInv, Sigint, Sigterm
  <2> QED
    BY <1>1, <2>1 DEF IInv, TablesInv, WaitInv, WaitersCounted, CallInv, LoopInv,
       Sigint, Sigterm, CtxReady
<1>2. CASE Stopped \/ UNCHANGED vars
  BY <1>2 DEF IInv, TablesInv, WaitInv, WaitersCounted, CallInv, LoopInv, CtrlInv,
     Stopped, CtxReady
<1> QED
  BY <1>1, <1>2

-----------------------------------------------------------------------------
\* The theorems.

\* The worker main() has set up is in order (server.c:948-960).
LEMMA InitOK == Init => IInv
<1> SUFFICES ASSUME Init PROVE IInv
  OBVIOUS
<1>1. TablesInv
  <2>1. ev \in EvType
    BY ConstantFacts DEF Init, EvType, NoNode
  <2>2. PoolOK(conns)
    BY ConstantFacts, ServerAssumption DEF Init, PoolOK, PoolType, Conn
  <2>3. connection_init \in ConRec
    BY RangeFacts DEF connection_init, ConRec, ConStates, NotArmed
  <2>4. open \subseteq Fd /\ cur_fds \in Int /\ joblist \in Seq(Conn)
    BY FdAssumption DEF Init
  <2> QED
    BY <2>1, <2>2, <2>3, <2>4, CtxFacts DEF Init, TablesInv
<1>2. WaitInv
  BY DEF Init, WaitInv, WaitersCounted
<1>3. CallInv
  BY ConstantFacts DEF Init, CallInv, Phases
<1>4. LoopInv
  BY ServerAssumption DEF Init, LoopInv, NoReports
<1>5. CtrlInv
  <2>1. sigs \in 0 .. SigMax
    BY ServerAssumption DEF Init
  <2> QED
    BY <2>1, Zenon DEF Init, CtrlInv
<1> QED
  BY <1>1, <1>2, <1>3, <1>4, <1>5 DEF IInv

\* No step of the worker, and no signal, leaves the invariant.
LEMMA NextOK == IInv /\ [Next]_vars => IInv'
<1> SUFFICES ASSUME IInv, [Next]_vars PROVE IInv'
  OBVIOUS
<1>1. CASE ServerStep
  BY <1>1, SweepOK, SocketsOK, EventsOK, JobsOK, StateMachineOK DEF ServerStep
<1>2. CASE Sigint \/ Sigterm \/ Stopped \/ UNCHANGED vars
  BY <1>2, SignalsOK
<1> QED
  BY <1>1, <1>2 DEF Next

\* The invariant holds in every state of every behaviour.
THEOREM Invariance == Spec => []IInv
BY InitOK, NextOK, PTL DEF Spec

\* Every variable of the worker keeps its type, for all values of the limits:
\* no handler indexes a table outside its bounds, the pool never holds more
\* than max_conns connections, and no backend is tried more than
\* max_reconnects times in a row (mod_fastcgi.c:3184).
THEOREM TypeCorrect == Spec => []TypeOK
<1>1. IInv => TypeOK
  BY DEF IInv, TablesInv, WaitInv, CallInv, LoopInv, CtrlInv, TypeOK, PoolOK
<1> QED
  BY <1>1, Invariance, PTL

\* The array of connections and their ndx fields agree (connections.c:43-108),
\* however many connections there are and in whatever order they come and go.
THEOREM PoolIsConsistent == Spec => []PoolConsistent
<1>1. IInv => PoolConsistent
  BY DEF IInv, TablesInv, PoolOK, PoolConsistent
<1> QED
  BY <1>1, Invariance, PTL

\* srv->want_fds is the length of the queue of waiting connections, and the
\* one that is being served (server.c:1202-1213, connections.c:1465).
THEOREM WaitersAreCounted == Spec => []WaitersCounted
<1>1. IInv => WaitersCounted
  BY DEF IInv, WaitInv
<1> QED
  BY <1>1, Invariance, PTL

-----------------------------------------------------------------------------
\* Owners.

Node(handler, c) == [handler |-> handler, ctx |-> c]

\* e is the event table, o the open descriptors, ndx the slots; connection d
\* has cfd[d] and cndx[d] as fd and fde_ndx, its context hfd[d] and hndx[d].
\* Every open descriptor has one owner, its node leads there, and whoever
\* says it waits for nothing is not watched (fdevent_event_del clears nothing
\* then, fdevent_select.c:28).
Own(e, o, ndx, cfd, cndx, hfd, hndx) ==
  /\ \A d \in Conn :
       /\ ndx[d] # -1 => /\ cfd[d] \in Fd
                         /\ e.fdarray[cfd[d]] = Node("connection", d)
                         /\ cndx[d] = NotArmed => cfd[d] \notin e.rd \cup e.wr
       /\ ndx[d] = -1 => cndx[d] = NotArmed
       /\ hfd[d] # -1 => /\ e.fdarray[hfd[d]] = Node("fcgi", d)
                         /\ hndx[d] = NotArmed => hfd[d] \notin e.rd \cup e.wr
  /\ \A fd \in Fd :
       /\ e.fdarray[fd].handler # "server"
       /\ e.fdarray[fd].handler = "NULL" => e.fdarray[fd] = NoNode
       /\ e.fdarray[fd].handler = "connection" =>
            ndx[e.fdarray[fd].ctx] # -1 /\ cfd[e.fdarray[fd].ctx] = fd
       /\ e.fdarray[fd].handler = "fcgi" => hfd[e.fdarray[fd].ctx] = fd
       /\ fd \in o <=> e.fdarray[fd] # NoNode
       /\ fd \in e.rd \cup e.wr => fd \in o
  /\ 0 \notin e.rd \cup e.wr

\* The arguments of Own have the types the state gives them.
OwnTypes(e, o, ndx, cfd, cndx, hfd, hndx) ==
  /\ e \in EvType /\ o \subseteq Fd /\ ndx \in [Conn -> Conn \cup {-1}]
  /\ cfd \in [Conn -> Fd \cup {0}] /\ cndx \in [Conn -> Fd \cup {0, NotArmed}]
  /\ hfd \in [Conn -> Fd \cup {-1}] /\ hndx \in [Conn -> Fd \cup {NotArmed}]

\* The tables differ for fd only.
Differs(e2, e, fd) ==
  \A x \in AnyFd \ {fd} : /\ e2.fdarray[x] = e.fdarray[x]
                          /\ x \in e2.rd <=> x \in e.rd
                          /\ x \in e2.wr <=> x \in e.wr

CloseEv(e, ndx, fd) == fdevent_unregister(fdevent_event_del(e, ndx, fd), fd)

\* What the operations on the event table do to their own descriptor.
LEMMA EvEffects ==
  ASSUME NEW e \in EvType, NEW fd \in AnyFd, NEW ndx \in Int, NEW c, NEW h, NEW what
  PROVE  /\ Differs(fdevent_register(e, fd, h, c), e, fd)
         /\ fdevent_register(e, fd, h, c).fdarray[fd] = Node(h, c)
         /\ fdevent_register(e, fd, h, c).rd = e.rd
         /\ fdevent_register(e, fd, h, c).wr = e.wr
         /\ Differs(CloseEv(e, ndx, fd), e, fd)
         /\ CloseEv(e, ndx, fd).fdarray[fd] = NoNode
         /\ ndx >= 0 => fd \notin CloseEv(e, ndx, fd).rd \cup CloseEv(e, ndx, fd).wr
         /\ ndx < 0 => CloseEv(e, ndx, fd).rd = e.rd /\ CloseEv(e, ndx, fd).wr = e.wr
         /\ Differs(fdevent_event_add(e, fd, what), e, fd)
         /\ fdevent_event_add(e, fd, what).fdarray = e.fdarray
         /\ Differs(fdevent_event_del(e, ndx, fd), e, fd)
         /\ fdevent_event_del(e, ndx, fd).fdarray = e.fdarray
         /\ ndx >= 0 => fd \notin fdevent_event_del(e, ndx, fd).rd \cup fdevent_event_del(e, ndx, fd).wr
         /\ ndx < 0 => fdevent_event_del(e, ndx, fd) = e
<1>1. /\ Differs(fdevent_register(e, fd, h, c), e, fd)
      /\ fdevent_register(e, fd, h, c).fdarray[fd] = Node(h, c)
      /\ fdevent_register(e, fd, h, c).rd = e.rd
      /\ fdevent_register(e, fd, h, c).wr = e.wr
  BY DEF EvType, Differs, fdevent_register, Node
<1>2. /\ Differs(fdevent_event_add(e, fd, what), e, fd)
      /\ fdevent_event_add(e, fd, what).fdarray = e.fdarray
  BY DEF EvType, Differs, fdevent_event_add
<1> DEFINE d == fdevent_event_del(e, ndx, fd)
<1>3. /\ Differs(d, e, fd) /\ d.fdarray = e.fdarray
      /\ ndx >= 0 => fd \notin d.rd \cup d.wr
      /\ ndx < 0 => d = e
  BY DEF EvType, Differs, fdevent_event_del
<1>4. d \in EvType
  BY DEF EvType, fdevent_event_del
<1> HIDE DEF d
<1>5. /\ \A x \in AnyFd \ {fd} : fdevent_unregister(d, fd).fdarray[x] = d.fdarray[x]
      /\ fdevent_unregister(d, fd).fdarray[fd] = NoNode
      /\ fdevent_unregister(d, fd).rd = d.rd /\ fdevent_unregister(d, fd).wr = d.wr
  BY <1>4 DEF EvType, fdevent_unregister
<1>6. CloseEv(e, ndx, fd) = fdevent_unregister(d, fd)
  BY DEF CloseEv, d
<1>7. Differs(fdevent_unregister(d, fd), e, fd)
  BY <1>3, <1>5 DEF Differs
<1> QED
  BY <1>1, <1>2, <1>3, <1>5, <1>6, <1>7 DEF d

\* The events of the other descriptors, when one is closed or registered.
LEMMA EvElsewhere ==
  ASSUME NEW e \in EvType, NEW fd \in Fd
  PROVE  /\ \A ndx \in Int : Differs(CloseEv(e, ndx, fd), e, fd)
         /\ \A h, c : Differs(fdevent_register(e, fd, h, c), e, fd)
<1>1. fd \in AnyFd /\ 0 \in Int
  BY ConstantFacts
<1>2. ASSUME NEW ndx \in Int
      PROVE  Differs(CloseEv(e, ndx, fd), e, fd)
  BY <1>1, EvEffects
<1>3. ASSUME NEW h, NEW c
      PROVE  Differs(fdevent_register(e, fd, h, c), e, fd)
  BY <1>1, EvEffects
<1> QED
  BY <1>2, <1>3

\* The values of fde_ndx.
LEMMA IndexFacts ==
  \A x \in Fd \cup {0, NotArmed} : x \in Int /\ (x < 0 <=> x = NotArmed)
<1>1. \A x \in Fd : x \in Nat
  BY ConstantFacts
<1> QED
  BY <1>1 DEF NotArmed

\* A node tells its kind and its owner.
LEMMA NodesDiffer ==
  ASSUME NEW c, NEW d
  PROVE  /\ Node("connection", c) # Node("fcgi", d)
         /\ c # d => Node("connection", c) # Node("connection", d)
         /\ c # d => Node("fcgi", c) # Node("fcgi", d)
         /\ Node("connection", c) # NoNode /\ Node("fcgi", c) # NoNode
<1>1. /\ Node("connection", c).handler = "connection" /\ Node("fcgi", d).handler = "fcgi"
      /\ Node("connection", c).ctx = c /\ Node("connection", d).ctx = d
      /\ Node("fcgi", c).ctx = c /\ Node("fcgi", d).ctx = d
      /\ Node("fcgi", c).handler = "fcgi" /\ NoNode.handler = "NULL"
  BY DEF Node, NoNode
<1> QED
  BY <1>1

\* A context gives up its descriptor.
LEMMA OwnDrop ==
  ASSUME NEW e, NEW o, NEW ndx, NEW cfd, NEW cndx, NEW hfd, NEW hndx,
         OwnTypes(e, o, ndx, cfd, cndx, hfd, hndx), Own(e, o, ndx, cfd, cndx, hfd, hndx),
         NEW c \in Conn, hfd[c] # -1, NEW hfd2, NEW hndx2,
         hfd2[c] = -1, \A d \in Conn \ {c} : hfd2[d] = hfd[d] /\ hndx2[d] = hndx[d]
  PROVE  Own(CloseEv(e, hndx[c], hfd[c]), o \ {hfd[c]}, ndx, cfd, cndx, hfd2, hndx2)
<1> DEFINE fd == hfd[c]
           e2 == CloseEv(e, hndx[c], fd)
<1>1. fd \in Fd /\ hndx[c] \in Int /\ (hndx[c] < 0 => hndx[c] = NotArmed)
  BY IndexFacts DEF OwnTypes
<1>2. fd \in AnyFd
  BY <1>1, ConstantFacts
<1>3. Differs(e2, e, fd) /\ e2.fdarray[fd] = NoNode /\ fd \notin e2.rd \cup e2.wr
  BY SMTT(30), <1>1, <1>2, EvEffects DEF OwnTypes, Own
<1>4. e.fdarray[fd] = Node("fcgi", c)
  BY DEF Own
<1> HIDE DEF fd, e2
<1>5. \A d \in Conn : ndx[d] # -1 => cfd[d] # fd
  BY <1>4, NodesDiffer DEF Own
<1>6. \A d \in Conn \ {c} : hfd[d] # -1 => hfd[d] # fd
  BY <1>4, NodesDiffer DEF Own
<1>7. \A x \in Fd : e.fdarray[x].handler # "NULL" => e.fdarray[x].ctx \in Conn
  BY ConstantFacts DEF OwnTypes, EvType
<1>8. ASSUME NEW d \in Conn
      PROVE  /\ ndx[d] # -1 => /\ cfd[d] \in Fd
                               /\ e2.fdarray[cfd[d]] = Node("connection", d)
                               /\ cndx[d] = NotArmed => cfd[d] \notin e2.rd \cup e2.wr
             /\ ndx[d] = -1 => cndx[d] = NotArmed
             /\ hfd2[d] # -1 => /\ e2.fdarray[hfd2[d]] = Node("fcgi", d)
                                /\ hndx2[d] = NotArmed => hfd2[d] \notin e2.rd \cup e2.wr
  <2>1. hfd[d] # -1 => hfd[d] \in AnyFd
    BY ConstantFacts DEF OwnTypes
  <2>2. ndx[d] # -1 => cfd[d] \in AnyFd \ {fd}
    BY <1>5, ConstantFacts DEF Own
  <2> QED
    BY <1>3, <1>5, <1>6, <2>1, <2>2 DEF Own, Differs
<1>9. ASSUME NEW x \in Fd
      PROVE  /\ e2.fdarray[x].handler # "server"
             /\ e2.fdarray[x].handler = "NULL" => e2.fdarray[x] = NoNode
             /\ e2.fdarray[x].handler = "connection" =>
                  ndx[e2.fdarray[x].ctx] # -1 /\ cfd[e2.fdarray[x].ctx] = x
             /\ e2.fdarray[x].handler = "fcgi" => hfd2[e2.fdarray[x].ctx] = x
             /\ x \in o \ {fd} <=> e2.fdarray[x] # NoNode
             /\ x \in e2.rd \cup e2.wr => x \in o \ {fd}
  <2>1. CASE x = fd
    BY <1>3, <2>1 DEF NoNode
  <2>2. CASE x # fd
    <3>1. e2.fdarray[x] = e.fdarray[x]
      BY <1>3, <2>2, ConstantFacts DEF Differs
    <3>2. e.fdarray[x].handler = "fcgi" => hfd2[e.fdarray[x].ctx] = x
      BY <1>7, <2>2 DEF Own, fd
    <3>3. x \in e.rd \cup e.wr <=> x \in e2.rd \cup e2.wr
      BY <1>3, <2>2, ConstantFacts DEF Differs
    <3> QED
      BY <2>2, <3>1, <3>2, <3>3 DEF Own
  <2> QED
    BY <2>1, <2>2
<1>10. 0 \notin e2.rd \cup e2.wr
  BY <1>1, <1>3, ConstantFacts DEF Differs, Own
<1> QED
  BY <1>8, <1>9, <1>10 DEF Own, fd, e2

\* A connection leaves the pool and gives up its descriptor.
LEMMA OwnHangUp ==
  ASSUME NEW e, NEW o, NEW ndx, NEW cfd, NEW cndx, NEW hfd, NEW hndx,
         OwnTypes(e, o, ndx, cfd, cndx, hfd, hndx), Own(e, o, ndx, cfd, cndx, hfd, hndx),
         NEW c \in Conn, ndx[c] # -1, NEW ndx2, NEW cndx2,
         ndx2[c] = -1, cndx2[c] = NotArmed,
         \A d \in Conn \ {c} : (ndx2[d] = -1 <=> ndx[d] = -1) /\ cndx2[d] = cndx[d]
  PROVE  Own(CloseEv(e, cndx[c], cfd[c]), o \ {cfd[c]}, ndx2, cfd, cndx2, hfd, hndx)
<1> DEFINE fd == cfd[c]
           e2 == CloseEv(e, cndx[c], fd)
<1>1. fd \in Fd /\ cndx[c] \in Int /\ (cndx[c] < 0 => cndx[c] = NotArmed)
  BY IndexFacts DEF OwnTypes, Own
<1>2. fd \in AnyFd
  BY <1>1, ConstantFacts
<1>3. Differs(e2, e, fd) /\ e2.fdarray[fd] = NoNode /\ fd \notin e2.rd \cup e2.wr
  <2>1. cndx[c] = NotArmed => fd \notin e.rd \cup e.wr
    BY DEF Own
  <2> QED
    BY <1>1, <1>2, <2>1, EvEffects DEF OwnTypes
<1>4. e.fdarray[fd] = Node("connection", c)
  BY DEF Own
<1> HIDE DEF fd, e2
<1>5. \A d \in Conn \ {c} : ndx[d] # -1 => cfd[d] # fd
  BY <1>4, NodesDiffer DEF Own
<1>6. \A d \in Conn : hfd[d] # -1 => hfd[d] # fd
  BY <1>4, NodesDiffer DEF Own
<1>7. \A x \in Fd : e.fdarray[x].handler # "NULL" => e.fdarray[x].ctx \in Conn
  BY ConstantFacts DEF OwnTypes, EvType
<1>8. ASSUME NEW d \in Conn
      PROVE  /\ ndx2[d] # -1 => /\ cfd[d] \in Fd
                                /\ e2.fdarray[cfd[d]] = Node("connection", d)
                                /\ cndx2[d] = NotArmed => cfd[d] \notin e2.rd \cup e2.wr
             /\ ndx2[d] = -1 => cndx2[d] = NotArmed
             /\ hfd[d] # -1 => /\ e2.fdarray[hfd[d]] = Node("fcgi", d)
                               /\ hndx[d] = NotArmed => hfd[d] \notin e2.rd \cup e2.wr
  <2>1. hfd[d] # -1 => hfd[d] \in AnyFd \ {fd}
    BY <1>6, ConstantFacts DEF OwnTypes
  <2>2. d # c /\ ndx[d] # -1 => cfd[d] \in AnyFd \ {fd}
    BY <1>5, ConstantFacts DEF Own
  <2> QED
    BY <1>3, <2>1, <2>2 DEF Own, Differs
<1>9. ASSUME NEW x \in Fd
      PROVE  /\ e2.fdarray[x].handler # "server"
             /\ e2.fdarray[x].handler = "NULL" => e2.fdarray[x] = NoNode
             /\ e2.fdarray[x].handler = "connection" =>
                  ndx2[e2.fdarray[x].ctx] # -1 /\ cfd[e2.fdarray[x].ctx] = x
             /\ e2.fdarray[x].handler = "fcgi" => hfd[e2.fdarray[x].ctx] = x
             /\ x \in o \ {fd} <=> e2.fdarray[x] # NoNode
             /\ x \in e2.rd \cup e2.wr => x \in o \ {fd}
  <2>1. CASE x = fd
    BY <1>3, <2>1 DEF NoNode
  <2>2. CASE x # fd
    <3>1. e2.fdarray[x] = e.fdarray[x]
      BY <1>3, <2>2, ConstantFacts DEF Differs
    <3>2. e.fdarray[x].handler = "connection" =>
            ndx2[e.fdarray[x].ctx] # -1 /\ cfd[e.fdarray[x].ctx] = x
      BY <1>7, <2>2 DEF Own, fd
    <3>3. x \in e.rd \cup e.wr <=> x \in e2.rd \cup e2.wr
      BY <1>3, <2>2, ConstantFacts DEF Differs
    <3> QED
      BY <2>2, <3>1, <3>2, <3>3 DEF Own
  <2> QED
    BY <2>1, <2>2
<1>10. 0 \notin e2.rd \cup e2.wr
  BY <1>1, <1>3, ConstantFacts DEF Differs, Own
<1> QED
  BY <1>8, <1>9, <1>10 DEF Own, fd, e2

\* A context takes a descriptor that nobody has.
LEMMA OwnConnect ==
  ASSUME NEW e, NEW o, NEW ndx, NEW cfd, NEW cndx, NEW hfd, NEW hndx,
         OwnTypes(e, o, ndx, cfd, cndx, hfd, hndx), Own(e, o, ndx, cfd, cndx, hfd, hndx),
         NEW c \in Conn, hfd[c] = -1, NEW fd \in Fd \ o, NEW hfd2, NEW hndx2, hfd2[c] = fd,
         \A d \in Conn \ {c} : hfd2[d] = hfd[d] /\ hndx2[d] = hndx[d]
  PROVE  Own(fdevent_register(e, fd, "fcgi", c), o \cup {fd}, ndx, cfd, cndx, hfd2, hndx2)
<1> DEFINE e2 == fdevent_register(e, fd, "fcgi", c)
<1>1. fd \in AnyFd /\ 0 \in Int
  BY ConstantFacts
<1>2. /\ Differs(e2, e, fd) /\ e2.fdarray[fd] = Node("fcgi", c)
      /\ e2.rd = e.rd /\ e2.wr = e.wr
  BY <1>1, EvEffects DEF OwnTypes
<1>3. e.fdarray[fd] = NoNode /\ fd \notin e.rd \cup e.wr
  BY DEF Own
<1> HIDE DEF e2
<1>4. \A x \in Fd : e.fdarray[x].handler # "NULL" => e.fdarray[x].ctx \in Conn
  BY ConstantFacts DEF OwnTypes, EvType
<1>5. ASSUME NEW d \in Conn
      PROVE  /\ ndx[d] # -1 => /\ cfd[d] \in Fd
                               /\ e2.fdarray[cfd[d]] = Node("connection", d)
                               /\ cndx[d] = NotArmed => cfd[d] \notin e2.rd \cup e2.wr
             /\ ndx[d] = -1 => cndx[d] = NotArmed
             /\ hfd2[d] # -1 => /\ e2.fdarray[hfd2[d]] = Node("fcgi", d)
                                /\ hndx2[d] = NotArmed => hfd2[d] \notin e2.rd \cup e2.wr
  <2>1. hfd[d] # -1 => hfd[d] \in AnyFd \ {fd}
    BY <1>3, NodesDiffer, ConstantFacts DEF OwnTypes, Own
  <2>2. ndx[d] # -1 => cfd[d] \in AnyFd \ {fd}
    BY <1>3, NodesDiffer, ConstantFacts DEF Own
  <2> QED
    BY <1>2, <1>3, <2>1, <2>2 DEF Own, Differs
<1>6. ASSUME NEW x \in Fd
      PROVE  /\ e2.fdarray[x].handler # "server"
             /\ e2.fdarray[x].handler = "NULL" => e2.fdarray[x] = NoNode
             /\ e2.fdarray[x].handler = "connection" =>
                  ndx[e2.fdarray[x].ctx] # -1 /\ cfd[e2.fdarray[x].ctx] = x
             /\ e2.fdarray[x].handler = "fcgi" => hfd2[e2.fdarray[x].ctx] = x
             /\ x \in o \cup {fd} <=> e2.fdarray[x] # NoNode
             /\ x \in e2.rd \cup e2.wr => x \in o \cup {fd}
  <2>1. CASE x = fd
    <3>1. e2.fdarray[x].handler = "fcgi" /\ e2.fdarray[x].ctx = c
      BY <1>2, <2>1 DEF Node
    <3>2. e2.fdarray[x] # NoNode
      BY <3>1 DEF NoNode
    <3> QED
      BY <1>2, <2>1, <3>1, <3>2
  <2>2. CASE x # fd
    <3>1. e2.fdarray[x] = e.fdarray[x]
      BY <1>2, <2>2, ConstantFacts DEF Differs
    <3>2. e.fdarray[x].handler = "fcgi" => hfd2[e.fdarray[x].ctx] = x
      <4> SUFFICES ASSUME e.fdarray[x].handler = "fcgi" PROVE hfd2[e.fdarray[x].ctx] = x
        OBVIOUS
      <4>1. e.fdarray[x].ctx \in Conn /\ hfd[e.fdarray[x].ctx] = x
        BY <1>4 DEF Own
      <4>2. e.fdarray[x].ctx # c
        BY <4>1, ConstantFacts
      <4> QED
        BY <4>1, <4>2
    <3> QED
      BY <1>2, <2>2, <3>1, <3>2 DEF Own
  <2> QED
    BY <2>1, <2>2
<1> QED
  BY <1>2, <1>5, <1>6 DEF Own, e2

\* A connection enters the pool with a descriptor that nobody has.
LEMMA OwnAccept ==
  ASSUME NEW e, NEW o, NEW ndx, NEW cfd, NEW cndx, NEW hfd, NEW hndx,
         OwnTypes(e, o, ndx, cfd, cndx, hfd, hndx), Own(e, o, ndx, cfd, cndx, hfd, hndx),
         NEW c \in Conn, ndx[c] = -1, NEW fd \in Fd \ o, NEW ndx2, NEW cfd2, NEW cndx2,
         ndx2[c] # -1, cfd2[c] = fd,
         \A d \in Conn \ {c} : ndx2[d] = ndx[d] /\ cfd2[d] = cfd[d] /\ cndx2[d] = cndx[d]
  PROVE  Own(fdevent_register(e, fd, "connection", c), o \cup {fd}, ndx2, cfd2, cndx2, hfd, hndx)
<1> DEFINE e2 == fdevent_register(e, fd, "connection", c)
<1>1. fd \in AnyFd /\ 0 \in Int
  BY ConstantFacts
<1>2. /\ Differs(e2, e, fd) /\ e2.fdarray[fd] = Node("connection", c)
      /\ e2.rd = e.rd /\ e2.wr = e.wr
  BY <1>1, EvEffects DEF OwnTypes
<1>3. e.fdarray[fd] = NoNode /\ fd \notin e.rd \cup e.wr
  BY DEF Own
<1> HIDE DEF e2
<1>4. \A x \in Fd : e.fdarray[x].handler # "NULL" => e.fdarray[x].ctx \in Conn
  BY ConstantFacts DEF OwnTypes, EvType
<1>5. ASSUME NEW d \in Conn
      PROVE  /\ ndx2[d] # -1 => /\ cfd2[d] \in Fd
                                /\ e2.fdarray[cfd2[d]] = Node("connection", d)
                                /\ cndx2[d] = NotArmed => cfd2[d] \notin e2.rd \cup e2.wr
             /\ ndx2[d] = -1 => cndx2[d] = NotArmed
             /\ hfd[d] # -1 => /\ e2.fdarray[hfd[d]] = Node("fcgi", d)
                               /\ hndx[d] = NotArmed => hfd[d] \notin e2.rd \cup e2.wr
  <2>1. hfd[d] # -1 => hfd[d] \in AnyFd \ {fd}
    BY <1>3, NodesDiffer, ConstantFacts DEF OwnTypes, Own
  <2>2. ndx[d] # -1 => cfd[d] \in AnyFd \ {fd}
    BY <1>3, NodesDiffer, ConstantFacts DEF Own
  <2> QED
    BY <1>2, <1>3, <2>1, <2>2 DEF Own, Differs
<1>6. ASSUME NEW x \in Fd
      PROVE  /\ e2.fdarray[x].handler # "server"
             /\ e2.fdarray[x].handler = "NULL" => e2.fdarray[x] = NoNode
             /\ e2.fdarray[x].handler = "connection" =>
                  ndx2[e2.fdarray[x].ctx] # -1 /\ cfd2[e2.fdarray[x].ctx] = x
             /\ e2.fdarray[x].handler = "fcgi" => hfd[e2.fdarray[x].ctx] = x
             /\ x \in o \cup {fd} <=> e2.fdarray[x] # NoNode
             /\ x \in e2.rd \cup e2.wr => x \in o \cup {fd}
  <2>1. CASE x = fd
    <3>1. e2.fdarray[x].handler = "connection" /\ e2.fdarray[x].ctx = c
      BY <1>2, <2>1 DEF Node
    <3>2. e2.fdarray[x] # NoNode
      BY <3>1 DEF NoNode
    <3> QED
      BY <1>2, <2>1, <3>1, <3>2
  <2>2. CASE x # fd
    <3>1. e2.fdarray[x] = e.fdarray[x]
      BY <1>2, <2>2, ConstantFacts DEF Differs
    <3>2. e.fdarray[x].handler = "connection" =>
            ndx2[e.fdarray[x].ctx] # -1 /\ cfd2[e.fdarray[x].ctx] = x
      BY <1>4 DEF Own
    <3> QED
      BY <1>2, <2>2, <3>1, <3>2 DEF Own
  <2> QED
    BY <2>1, <2>2
<1> QED
  BY <1>2, <1>5, <1>6 DEF Own, e2

\* A connection or a context begins or ends to wait for events.
LEMMA OwnWatch ==
  ASSUME NEW e, NEW o, NEW ndx, NEW cfd, NEW cndx, NEW hfd, NEW hndx,
         OwnTypes(e, o, ndx, cfd, cndx, hfd, hndx), Own(e, o, ndx, cfd, cndx, hfd, hndx),
         NEW c \in Conn, NEW fd \in Fd, NEW e2, NEW cndx2, NEW hndx2,
         Differs(e2, e, fd), e2.fdarray = e.fdarray,
         \A d \in Conn \ {c} : cndx2[d] = cndx[d] /\ hndx2[d] = hndx[d],
         \/ /\ ndx[c] # -1 /\ cfd[c] = fd /\ hndx2[c] = hndx[c]
            /\ cndx2[c] = NotArmed => fd \notin e2.rd \cup e2.wr
         \/ /\ hfd[c] = fd /\ cndx2[c] = cndx[c]
            /\ hndx2[c] = NotArmed => fd \notin e2.rd \cup e2.wr
  PROVE  Own(e2, o, ndx, cfd, cndx2, hfd, hndx2)
<1>1. \/ e.fdarray[fd] = Node("connection", c) /\ ndx[c] # -1 /\ cfd[c] = fd
      \/ e.fdarray[fd] = Node("fcgi", c) /\ hfd[c] = fd
  BY ConstantFacts DEF Own
<1>2. ASSUME NEW d \in Conn
      PROVE  /\ ndx[d] # -1 => /\ cfd[d] \in Fd
                               /\ e2.fdarray[cfd[d]] = Node("connection", d)
                               /\ cndx2[d] = NotArmed => cfd[d] \notin e2.rd \cup e2.wr
             /\ ndx[d] = -1 => cndx2[d] = NotArmed
             /\ hfd[d] # -1 => /\ e2.fdarray[hfd[d]] = Node("fcgi", d)
                               /\ hndx2[d] = NotArmed => hfd[d] \notin e2.rd \cup e2.wr
  <2>1. hfd[d] # -1 => hfd[d] \in AnyFd
    BY ConstantFacts DEF OwnTypes
  <2>2. ndx[d] # -1 => cfd[d] \in AnyFd
    BY ConstantFacts DEF Own
  <2>3. CASE e.fdarray[fd] = Node("connection", c) /\ ndx[c] # -1 /\ cfd[c] = fd
    <3>1. (hfd[d] # -1 => hfd[d] # fd) /\ (ndx[d] # -1 /\ d # c => cfd[d] # fd)
      BY <2>3, NodesDiffer DEF Own
    <3>2. hfd[c] # fd
      BY <2>3, NodesDiffer, ConstantFacts DEF Own
    <3> QED
      BY <2>1, <2>2, <2>3, <3>1, <3>2 DEF Own, Differs
  <2>4. CASE e.fdarray[fd] = Node("fcgi", c) /\ hfd[c] = fd
    <3>1. (hfd[d] # -1 /\ d # c => hfd[d] # fd) /\ (ndx[d] # -1 => cfd[d] # fd)
      BY <2>4, NodesDiffer DEF Own
    <3>2. ndx[c] # -1 => cfd[c] # fd
      BY <2>4, NodesDiffer DEF Own
    <3> QED
      BY <2>1, <2>2, <2>4, <3>1, <3>2 DEF Own, Differs
  <2> QED
    BY <1>1, <2>3, <2>4
<1>3. e.fdarray[fd] # NoNode
  BY <1>1, NodesDiffer
<1>4. ASSUME NEW x \in Fd
      PROVE  x \in e2.rd \cup e2.wr => x \in o
  BY <1>3, ConstantFacts DEF Own, Differs
<1>5. 0 \notin e2.rd \cup e2.wr
  BY ConstantFacts DEF Own, Differs
<1> QED
  BY <1>2, <1>4, <1>5 DEF Own

-----------------------------------------------------------------------------
\* Frames.

\* The descriptors of all connections when connection c has frame g.
Cfd(c, g)  == [d \in Conn |-> IF d = c THEN g.r.fd ELSE con[d].fd]
Cndx(c, g) == [d \in Conn |-> IF d = c THEN g.r.fde_ndx ELSE con[d].fde_ndx]
Hfd(c, g)  == [d \in Conn |-> IF d = c THEN g.h.fd ELSE hctx[d].fd]
Hndx(c, g) == [d \in Conn |-> IF d = c THEN g.h.fde_ndx ELSE hctx[d].fde_ndx]

\* The handler has not touched the slots and the events of the other
\* connections and of their backends, nor the listening socket.
Aside(c, g) ==
  /\ \A d \in Conn \ {c} :
       /\ g.conns.ndx[d] = -1 <=> conns.ndx[d] = -1
       /\ conns.ndx[d] # -1 => /\ con[d].fd \in g.ev.rd <=> con[d].fd \in ev.rd
                               /\ con[d].fd \in g.ev.wr <=> con[d].fd \in ev.wr
       /\ hctx[d].fd # -1 => /\ hctx[d].fd \in g.ev.rd <=> hctx[d].fd \in ev.rd
                             /\ hctx[d].fd \in g.ev.wr <=> hctx[d].fd \in ev.wr
  /\ g.ev.fdarray[listen_fd] = ev.fdarray[listen_fd]
  /\ listen_fd \in g.ev.rd <=> listen_fd \in ev.rd
  /\ listen_fd \in g.ev.wr <=> listen_fd \in ev.wr

\* If c had frame g, every descriptor would have its owner and be counted.
Holds(c, g) ==
  /\ Own(g.ev, g.open, g.conns.ndx, Cfd(c, g), Cndx(c, g), Hfd(c, g), Hndx(c, g))
  /\ g.cur_fds = base_fds + Cardinality(g.open)
  /\ Aside(c, g)

\* f and g have the same descriptors, slots and events.
SameFds(f, g) ==
  /\ f.ev = g.ev /\ f.open = g.open /\ f.cur_fds = g.cur_fds /\ f.conns = g.conns
  /\ f.r.fd = g.r.fd /\ f.r.fde_ndx = g.r.fde_ndx
  /\ f.h.fd = g.h.fd /\ (f.h.fde_ndx = g.h.fde_ndx \/ g.h.fd = -1)

\* Nothing else matters for who holds what.
LEMMA HoldsSame ==
  ASSUME NEW c \in Conn, NEW g, NEW f, Holds(c, g), SameFds(f, g)
  PROVE  Holds(c, f)
<1>1. Cfd(c, f) = Cfd(c, g) /\ Cndx(c, f) = Cndx(c, g) /\ Hfd(c, f) = Hfd(c, g)
  BY DEF SameFds, Cfd, Cndx, Hfd
<1>2. \A d \in Conn : Hfd(c, g)[d] # -1 => Hndx(c, f)[d] = Hndx(c, g)[d]
  BY DEF SameFds, Hfd, Hndx
<1>3. Own(g.ev, g.open, g.conns.ndx, Cfd(c, g), Cndx(c, g), Hfd(c, g), Hndx(c, f))
  BY <1>2 DEF Holds, Own
<1>4. Aside(c, f)
  BY DEF SameFds, Holds, Aside
<1> QED
  BY <1>1, <1>3, <1>4 DEF SameFds, Holds

\* The types of a frame's descriptors.
LEMMA FrameFds ==
  ASSUME TablesInv, NEW c \in Conn, NEW g, FrameOK(g)
  PROVE  /\ OwnTypes(g.ev, g.open, g.conns.ndx, Cfd(c, g), Cndx(c, g), Hfd(c, g), Hndx(c, g))
         /\ Cfd(c, g)[c] = g.r.fd /\ Cndx(c, g)[c] = g.r.fde_ndx
         /\ Hfd(c, g)[c] = g.h.fd /\ Hndx(c, g)[c] = g.h.fde_ndx
         /\ \A d \in Conn \ {c} : /\ Cfd(c, g)[d] = con[d].fd /\ Cndx(c, g)[d] = con[d].fde_ndx
                                  /\ Hfd(c, g)[d] = hctx[d].fd /\ Hndx(c, g)[d] = hctx[d].fde_ndx
         /\ IsFiniteSet(g.open) /\ g.cur_fds \in Int /\ Cardinality(g.open) \in Nat
<1>1. /\ g.r.fd \in Fd \cup {0} /\ g.r.fde_ndx \in Fd \cup {0, NotArmed}
      /\ \A d \in Conn : con[d].fd \in Fd \cup {0} /\ con[d].fde_ndx \in Fd \cup {0, NotArmed}
  BY DEF FrameOK, FrameType, TablesInv, ConRec
<1>2. /\ g.h.fd \in Fd \cup {-1} /\ g.h.fde_ndx \in Fd \cup {NotArmed}
      /\ \A d \in Conn : hctx[d].fd \in Fd \cup {-1} /\ hctx[d].fde_ndx \in Fd \cup {NotArmed}
  BY DEF FrameOK, FrameType, TablesInv, CtxRec
<1>3. g.ev \in EvType /\ g.open \subseteq Fd /\ g.conns.ndx \in [Conn -> Conn \cup {-1}]
  BY DEF FrameOK, FrameType, PoolType
<1>4. /\ Cfd(c, g) \in [Conn -> Fd \cup {0}] /\ Cndx(c, g) \in [Conn -> Fd \cup {0, NotArmed}]
      /\ Hfd(c, g) \in [Conn -> Fd \cup {-1}] /\ Hndx(c, g) \in [Conn -> Fd \cup {NotArmed}]
  BY <1>1, <1>2 DEF Cfd, Cndx, Hfd, Hndx
<1>5. IsFiniteSet(Fd)
  BY FS_Interval, FdAssumption DEF Fd
<1>6. IsFiniteSet(g.open) /\ Cardinality(g.open) \in Nat
  BY <1>3, <1>5, FS_Subset, FS_CardinalityType
<1>7. g.cur_fds \in Int
  BY DEF FrameOK, FrameType
<1> QED
  BY <1>3, <1>4, <1>6, <1>7 DEF OwnTypes, Cfd, Cndx, Hfd, Hndx

\* Whoever touches a descriptor of its own or one that nobody has leaves the
\* others aside.
LEMMA AsideKept ==
  ASSUME TablesInv, NEW c \in Conn, NEW g, FrameOK(g), Holds(c, g),
         NEW f, NEW fd \in Fd, Differs(f.ev, g.ev, fd),
         g.ev.fdarray[fd] \in {Node("connection", c), Node("fcgi", c), NoNode},
         \A d \in Conn \ {c} : f.conns.ndx[d] = -1 <=> g.conns.ndx[d] = -1
  PROVE  Aside(c, f)
<1>1. ASSUME NEW d \in Conn \ {c}, conns.ndx[d] # -1
      PROVE  con[d].fd \in AnyFd \ {fd}
  <2>1. g.ev.fdarray[con[d].fd] = Node("connection", d) /\ con[d].fd \in Fd
    BY <1>1, FrameFds DEF Holds, Own, Aside
  <2>2. con[d].fd # fd
    BY <2>1, NodesDiffer
  <2> QED
    BY <2>1, <2>2, ConstantFacts
<1>2. ASSUME NEW d \in Conn \ {c}, hctx[d].fd # -1
      PROVE  hctx[d].fd \in AnyFd \ {fd}
  <2>1. g.ev.fdarray[hctx[d].fd] = Node("fcgi", d)
    BY <1>2, FrameFds DEF Holds, Own
  <2>2. hctx[d].fd \in Fd
    BY <1>2 DEF TablesInv, CtxRec
  <2>3. hctx[d].fd # fd
    BY <2>1, NodesDiffer
  <2> QED
    BY <2>2, <2>3, ConstantFacts
<1>3. listen_fd \in AnyFd \ {fd}
  BY ConstantFacts
<1> QED
  BY <1>1, <1>2, <1>3 DEF Holds, Aside, Differs

\* The context of a frame gives up its descriptor.
LEMMA HoldsDrop ==
  ASSUME TablesInv, NEW c \in Conn, NEW g, FrameOK(g), Holds(c, g), g.h.fd # -1,
         NEW f, f.ev = CloseEv(g.ev, g.h.fde_ndx, g.h.fd), f.open = g.open \ {g.h.fd},
         f.cur_fds = g.cur_fds - 1, f.conns = g.conns,
         f.r.fd = g.r.fd, f.r.fde_ndx = g.r.fde_ndx, f.h.fd = -1
  PROVE  Holds(c, f)
<1> DEFINE fd == g.h.fd
<1>1. fd \in Fd /\ g.ev.fdarray[fd] = Node("fcgi", c) /\ fd \in g.open
  <2>1. fd \in Fd
    BY DEF FrameOK, FrameType, CtxRec
  <2>2. g.ev.fdarray[fd] = Node("fcgi", c)
    BY FrameFds DEF Holds, Own
  <2> QED
    BY <2>1, <2>2, NodesDiffer DEF Holds, Own
<1>2. Own(f.ev, f.open, f.conns.ndx, Cfd(c, f), Cndx(c, f), Hfd(c, f), Hndx(c, f))
  <2>1. Cfd(c, f) = Cfd(c, g) /\ Cndx(c, f) = Cndx(c, g)
    BY DEF Cfd, Cndx
  <2>2. /\ Hfd(c, f)[c] = -1
        /\ \A d \in Conn \ {c} : Hfd(c, f)[d] = Hfd(c, g)[d] /\ Hndx(c, f)[d] = Hndx(c, g)[d]
    BY DEF Hfd, Hndx
  <2>3. /\ OwnTypes(g.ev, g.open, g.conns.ndx, Cfd(c, g), Cndx(c, g), Hfd(c, g), Hndx(c, g))
        /\ Hfd(c, g)[c] = g.h.fd /\ Hndx(c, g)[c] = g.h.fde_ndx
    BY FrameFds
  <2>4. Own(g.ev, g.open, g.conns.ndx, Cfd(c, g), Cndx(c, g), Hfd(c, g), Hndx(c, g))
    BY DEF Holds
  <2>5. Own(CloseEv(g.ev, Hndx(c, g)[c], Hfd(c, g)[c]), g.open \ {Hfd(c, g)[c]}, g.conns.ndx,
            Cfd(c, g), Cndx(c, g), Hfd(c, f), Hndx(c, f))
    BY <2>2, <2>3, <2>4, OwnDrop
  <2> QED
    BY <2>1, <2>3, <2>5
<1>3. Aside(c, f)
  <2>1. g.h.fde_ndx \in Int
    BY IndexFacts DEF FrameOK, FrameType, CtxRec
  <2>2. g.ev \in EvType
    BY DEF FrameOK, FrameType
  <2>3. Differs(f.ev, g.ev, fd)
    BY <1>1, <2>1, <2>2, EvElsewhere
  <2> QED
    BY <1>1, <2>3, AsideKept
<1>4. f.cur_fds = base_fds + Cardinality(f.open)
  <2>1. Cardinality(g.open \ {fd}) = Cardinality(g.open) - 1
    BY <1>1, FrameFds, FS_RemoveElement
  <2> QED
    BY <2>1, FrameFds, FdAssumption DEF Holds
<1> QED
  BY <1>2, <1>3, <1>4 DEF Holds

\* The context of a frame takes a free descriptor.
LEMMA HoldsConnect ==
  ASSUME TablesInv, NEW c \in Conn, NEW g, FrameOK(g), Holds(c, g), g.h.fd = -1,
         NEW fd \in Fd \ g.open,
         NEW f, f.ev = fdevent_register(g.ev, fd, "fcgi", c), f.open = g.open \cup {fd},
         f.cur_fds = g.cur_fds + 1, f.conns = g.conns,
         f.r.fd = g.r.fd, f.r.fde_ndx = g.r.fde_ndx, f.h.fd = fd
  PROVE  Holds(c, f)
<1>1. g.ev.fdarray[fd] = NoNode
  BY DEF Holds, Own
<1>2. Own(f.ev, f.open, f.conns.ndx, Cfd(c, f), Cndx(c, f), Hfd(c, f), Hndx(c, f))
  <2>1. Cfd(c, f) = Cfd(c, g) /\ Cndx(c, f) = Cndx(c, g)
    BY DEF Cfd, Cndx
  <2>2. /\ Hfd(c, f)[c] = fd
        /\ \A d \in Conn \ {c} : Hfd(c, f)[d] = Hfd(c, g)[d] /\ Hndx(c, f)[d] = Hndx(c, g)[d]
    BY DEF Hfd, Hndx
  <2>3. /\ OwnTypes(g.ev, g.open, g.conns.ndx, Cfd(c, g), Cndx(c, g), Hfd(c, g), Hndx(c, g))
        /\ Hfd(c, g)[c] = -1
    BY FrameFds
  <2>4. Own(g.ev, g.open, g.conns.ndx, Cfd(c, g), Cndx(c, g), Hfd(c, g), Hndx(c, g))
    BY DEF Holds
  <2> QED
    BY <2>1, <2>2, <2>3, <2>4, OwnConnect
<1>3. Aside(c, f)
  <2>1. g.ev \in EvType
    BY DEF FrameOK, FrameType
  <2>2. Differs(f.ev, g.ev, fd)
    BY <2>1, EvElsewhere
  <2> QED
    BY <1>1, <2>2, AsideKept
<1>4. f.cur_fds = base_fds + Cardinality(f.open)
  <2>1. Cardinality(g.open \cup {fd}) = Cardinality(g.open) + 1
    BY FrameFds, FS_AddElement
  <2> QED
    BY <2>1, FrameFds, FdAssumption DEF Holds
<1> QED
  BY <1>2, <1>3, <1>4 DEF Holds

\* The client or the context of a frame changes what it waits for.
LEMMA HoldsWatch ==
  ASSUME TablesInv, NEW c \in Conn, NEW g, FrameOK(g), Holds(c, g), NEW fd \in Fd,
         NEW f, Differs(f.ev, g.ev, fd), f.ev.fdarray = g.ev.fdarray, f.open = g.open,
         f.cur_fds = g.cur_fds, f.conns = g.conns, f.r.fd = g.r.fd, f.h.fd = g.h.fd,
         \/ /\ g.conns.ndx[c] # -1 /\ g.r.fd = fd /\ f.h.fde_ndx = g.h.fde_ndx
            /\ f.r.fde_ndx = NotArmed => fd \notin f.ev.rd \cup f.ev.wr
         \/ /\ g.h.fd = fd /\ f.r.fde_ndx = g.r.fde_ndx
            /\ f.h.fde_ndx = NotArmed => fd \notin f.ev.rd \cup f.ev.wr
  PROVE  Holds(c, f)
<1>1. Cfd(c, f) = Cfd(c, g) /\ Hfd(c, f) = Hfd(c, g)
  BY DEF Cfd, Hfd
<1>2. \A d \in Conn \ {c} : Cndx(c, f)[d] = Cndx(c, g)[d] /\ Hndx(c, f)[d] = Hndx(c, g)[d]
  BY DEF Cndx, Hndx
<1>3. Cndx(c, f)[c] = f.r.fde_ndx /\ Hndx(c, f)[c] = f.h.fde_ndx
  BY DEF Cndx, Hndx
<1>4. /\ OwnTypes(g.ev, g.open, g.conns.ndx, Cfd(c, g), Cndx(c, g), Hfd(c, g), Hndx(c, g))
      /\ Cfd(c, g)[c] = g.r.fd /\ Cndx(c, g)[c] = g.r.fde_ndx
      /\ Hfd(c, g)[c] = g.h.fd /\ Hndx(c, g)[c] = g.h.fde_ndx
  BY FrameFds
<1>5. Own(g.ev, g.open, g.conns.ndx, Cfd(c, g), Cndx(c, g), Hfd(c, g), Hndx(c, g))
  BY DEF Holds
<1>6. Own(f.ev, g.open, g.conns.ndx, Cfd(c, g), Cndx(c, f), Hfd(c, g), Hndx(c, f))
  BY <1>2, <1>3, <1>4, <1>5, OwnWatch
<1>7. g.ev.fdarray[fd] \in {Node("connection", c), Node("fcgi", c), NoNode}
  <2>1. CASE g.conns.ndx[c] # -1 /\ g.r.fd = fd
    BY <1>4, <1>5, <2>1, Zenon DEF Own
  <2>2. CASE g.h.fd = fd
    <3>1. Hfd(c, g)[c] = fd /\ fd # -1
      BY <1>4, <2>2, ConstantFacts
    <3> QED
      BY <1>5, <3>1, Zenon DEF Own
  <2> QED
    BY <2>1, <2>2
<1>8. Aside(c, f)
  BY <1>7, AsideKept
<1> QED
  BY <1>1, <1>6, <1>8 DEF Holds

\* The connection of a frame leaves the pool.
LEMMA HoldsHangUp ==
  ASSUME TablesInv, NEW c \in Conn, NEW g, FrameOK(g), Holds(c, g), g.conns.ndx[c] # -1,
         NEW f, f.ev = CloseEv(g.ev, g.r.fde_ndx, g.r.fd), f.open = g.open \ {g.r.fd},
         f.cur_fds = g.cur_fds - 1, f.conns.ndx[c] = -1,
         \A d \in Conn \ {c} : f.conns.ndx[d] = -1 <=> g.conns.ndx[d] = -1,
         f.r.fd = g.r.fd, f.r.fde_ndx = NotArmed, f.h.fd = g.h.fd, f.h.fde_ndx = g.h.fde_ndx
  PROVE  Holds(c, f)
<1> DEFINE fd == g.r.fd
<1>1. fd \in Fd /\ g.ev.fdarray[fd] = Node("connection", c) /\ fd \in g.open
  <2>1. fd \in Fd /\ g.ev.fdarray[fd] = Node("connection", c)
    BY FrameFds DEF Holds, Own
  <2> QED
    BY <2>1, NodesDiffer DEF Holds, Own
<1>2. Own(f.ev, f.open, f.conns.ndx, Cfd(c, f), Cndx(c, f), Hfd(c, f), Hndx(c, f))
  <2>1. Cfd(c, f) = Cfd(c, g) /\ Hfd(c, f) = Hfd(c, g) /\ Hndx(c, f) = Hndx(c, g)
    BY DEF Cfd, Hfd, Hndx
  <2>2. /\ Cndx(c, f)[c] = NotArmed
        /\ \A d \in Conn \ {c} : Cndx(c, f)[d] = Cndx(c, g)[d]
    BY DEF Cndx
  <2>3. /\ OwnTypes(g.ev, g.open, g.conns.ndx, Cfd(c, g), Cndx(c, g), Hfd(c, g), Hndx(c, g))
        /\ Cfd(c, g)[c] = g.r.fd /\ Cndx(c, g)[c] = g.r.fde_ndx
    BY FrameFds
  <2>4. Own(g.ev, g.open, g.conns.ndx, Cfd(c, g), Cndx(c, g), Hfd(c, g), Hndx(c, g))
    BY DEF Holds
  <2>5. Own(CloseEv(g.ev, Cndx(c, g)[c], Cfd(c, g)[c]), g.open \ {Cfd(c, g)[c]}, f.conns.ndx,
            Cfd(c, g), Cndx(c, f), Hfd(c, g), Hndx(c, g))
    BY SMTT(30), <2>2, <2>3, <2>4, OwnHangUp
  <2> QED
    BY <2>1, <2>3, <2>5
<1>3. Aside(c, f)
  <2>1. g.r.fde_ndx \in Int
    BY IndexFacts DEF FrameOK, FrameType, ConRec
  <2>2. g.ev \in EvType
    BY DEF FrameOK, FrameType
  <2>3. Differs(f.ev, g.ev, fd)
    BY <1>1, <2>1, <2>2, EvElsewhere
  <2> QED
    BY <1>1, <2>3, AsideKept
<1>4. f.cur_fds = base_fds + Cardinality(f.open)
  <2>1. Cardinality(g.open \ {fd}) = Cardinality(g.open) - 1
    BY <1>1, FrameFds, FS_RemoveElement
  <2> QED
    BY <2>1, FrameFds, FdAssumption DEF Holds
<1> QED
  BY <1>2, <1>3, <1>4 DEF Holds

\* The connection of a frame enters the pool with a free descriptor.
LEMMA HoldsAccept ==
  ASSUME TablesInv, NEW c \in Conn, NEW g, FrameOK(g), Holds(c, g), g.conns.ndx[c] = -1,
         NEW fd \in Fd \ g.open,
         NEW f, f.ev = fdevent_register(g.ev, fd, "connection", c), f.open = g.open \cup {fd},
         f.cur_fds = g.cur_fds + 1, f.conns.ndx[c] # -1,
         \A d \in Conn \ {c} : f.conns.ndx[d] = g.conns.ndx[d],
         f.r.fd = fd, f.h.fd = g.h.fd, f.h.fde_ndx = g.h.fde_ndx
  PROVE  Holds(c, f)
<1>1. g.ev.fdarray[fd] = NoNode
  BY DEF Holds, Own
<1>2. Own(f.ev, f.open, f.conns.ndx, Cfd(c, f), Cndx(c, f), Hfd(c, f), Hndx(c, f))
  <2>1. Hfd(c, f) = Hfd(c, g) /\ Hndx(c, f) = Hndx(c, g)
    BY DEF Hfd, Hndx
  <2>2. /\ Cfd(c, f)[c] = fd
        /\ \A d \in Conn \ {c} : Cfd(c, f)[d] = Cfd(c, g)[d] /\ Cndx(c, f)[d] = Cndx(c, g)[d]
    BY DEF Cfd, Cndx
  <2>3. OwnTypes(g.ev, g.open, g.conns.ndx, Cfd(c, g), Cndx(c, g), Hfd(c, g), Hndx(c, g))
    BY FrameFds
  <2>4. Own(g.ev, g.open, g.conns.ndx, Cfd(c, g), Cndx(c, g), Hfd(c, g), Hndx(c, g))
    BY DEF Holds
  <2> QED
    BY <2>1, <2>2, <2>3, <2>4, OwnAccept
<1>3. Aside(c, f)
  <2>1. g.ev \in EvType
    BY DEF FrameOK, FrameType
  <2>2. Differs(f.ev, g.ev, fd)
    BY <2>1, EvElsewhere
  <2> QED
    BY <1>1, <2>2, AsideKept
<1>4. f.cur_fds = base_fds + Cardinality(f.open)
  <2>1. Cardinality(g.open \cup {fd}) = Cardinality(g.open) + 1
    BY FrameFds, FS_AddElement
  <2> QED
    BY <2>1, FrameFds, FdAssumption DEF Holds
<1> QED
  BY <1>2, <1>3, <1>4 DEF Holds

-----------------------------------------------------------------------------
\* mod_fastcgi.

\* Without an attempt there is no descriptor; no context is NoCtx.
CtxOK(h) ==
  /\ h.state \in {"NULL", "INIT"} => h.fd = -1
  /\ h.state = "NULL" => h = NoCtx

\* The descriptor of the context is kept, given up, or one that was free.
Moves(f, g) ==
  \/ f.h.fd \in {g.h.fd, -1}
  \/ g.h.fd = -1 /\ f.h.fd \in Fd \ g.open

\* The fields of a frame whose context has given up its descriptor.
LEMMA FcgiCloseFields ==
  ASSUME NEW g, FrameOK(g), NEW h
  PROVE  LET f == [FcgiCloseFd(g) EXCEPT !.h = h]
         IN /\ f.r = g.r /\ f.h = h /\ f.conns = g.conns
            /\ g.h.fd # -1 => /\ f.ev = CloseEv(g.ev, g.h.fde_ndx, g.h.fd)
                              /\ f.open = g.open \ {g.h.fd} /\ f.cur_fds = g.cur_fds - 1
            /\ g.h.fd = -1 => f.ev = g.ev /\ f.open = g.open /\ f.cur_fds = g.cur_fds
BY DEF FrameOK, FrameType, FcgiCloseFd, CloseFd, CloseEv

\* Whatever the context becomes, it holds nothing after that.
LEMMA FcgiDropOwn ==
  ASSUME TablesInv, NEW c \in Conn, NEW g, FrameOK(g), Holds(c, g), NEW h, h.fd = -1
  PROVE  Holds(c, [FcgiCloseFd(g) EXCEPT !.h = h])
<1> DEFINE f == [FcgiCloseFd(g) EXCEPT !.h = h]
<1>1. /\ f.r = g.r /\ f.h = h /\ f.conns = g.conns
      /\ g.h.fd # -1 => /\ f.ev = CloseEv(g.ev, g.h.fde_ndx, g.h.fd)
                        /\ f.open = g.open \ {g.h.fd} /\ f.cur_fds = g.cur_fds - 1
      /\ g.h.fd = -1 => f.ev = g.ev /\ f.open = g.open /\ f.cur_fds = g.cur_fds
  BY FcgiCloseFields
<1> HIDE DEF f
<1>2. CASE g.h.fd = -1
  BY <1>1, <1>2, HoldsSame DEF SameFds, f
<1>3. CASE g.h.fd # -1
  BY <1>1, <1>3, HoldsDrop DEF f
<1> QED
  BY <1>2, <1>3

\* fcgi_connection_close: no context and no descriptor is left.
LEMMA FcgiCloseOwn ==
  ASSUME TablesInv, NEW c \in Conn, NEW g, FrameOK(g), Holds(c, g),
         g.h.state = "NULL" => g.h = NoCtx
  PROVE  /\ Holds(c, fcgi_connection_close(g)) /\ fcgi_connection_close(g).r = g.r
         /\ fcgi_connection_close(g).h = NoCtx /\ fcgi_connection_close(g).conns = g.conns
<1>1. NoCtx.fd = -1
  BY DEF NoCtx
<1>2. Holds(c, [FcgiCloseFd(g) EXCEPT !.h = NoCtx])
  BY <1>1, FcgiDropOwn
<1>3. [FcgiCloseFd(g) EXCEPT !.h = NoCtx].h = NoCtx
  BY FcgiCloseFields
<1> QED
  BY <1>2, <1>3, FcgiCloseOK DEF fcgi_connection_close, Keeps

\* fcgi_reconnect: the context has no descriptor until the next attempt.
LEMMA FcgiReconnectOwn ==
  ASSUME TablesInv, NEW c \in Conn, NEW g, FrameOK(g), Holds(c, g)
  PROVE  /\ Holds(c, fcgi_reconnect(g)) /\ fcgi_reconnect(g).r = g.r
         /\ fcgi_reconnect(g).h.fd = -1 /\ fcgi_reconnect(g).h.state = "INIT"
<1>1. NextAttempt(g.h).fd = -1 /\ NextAttempt(g.h).state = "INIT"
  BY DEF NextAttempt, FrameOK, FrameType, CtxRec
<1>2. Holds(c, [FcgiCloseFd(g) EXCEPT !.h = NextAttempt(g.h)])
  BY <1>1, FcgiDropOwn
<1>3. /\ [FcgiCloseFd(g) EXCEPT !.h = NextAttempt(g.h)].h = NextAttempt(g.h)
      /\ [FcgiCloseFd(g) EXCEPT !.h = NextAttempt(g.h)].r = g.r
  BY FcgiCloseFields
<1> QED
  BY <1>1, <1>2, <1>3 DEF fcgi_reconnect

\* The context waits for events on its own descriptor.
LEMMA FcgiWaitOwn ==
  ASSUME TablesInv, NEW c \in Conn, NEW g, FrameOK(g), Holds(c, g), g.h.fd \in Fd, NEW what
  PROVE  /\ Holds(c, FcgiWait(g, what)) /\ FcgiWait(g, what).r = g.r
         /\ FcgiWait(g, what).h = [g.h EXCEPT !.fde_ndx = g.h.fd]
         /\ FcgiWait(g, what).open = g.open
<1> DEFINE e == fdevent_event_add(g.ev, g.h.fd, what)
           f == FcgiWait(g, what)
<1>1. /\ f.ev = e /\ f.open = g.open /\ f.cur_fds = g.cur_fds /\ f.conns = g.conns
      /\ f.r = g.r /\ f.h = [g.h EXCEPT !.fde_ndx = g.h.fd]
  BY DEF FrameOK, FrameType, FcgiWait
<1>2. f.h.fd = g.h.fd /\ f.h.fde_ndx = g.h.fd
  BY <1>1 DEF FrameOK, FrameType, CtxRec
<1>3. Differs(e, g.ev, g.h.fd) /\ e.fdarray = g.ev.fdarray
  <2>1. g.h.fd \in AnyFd /\ g.ev \in EvType /\ 0 \in Int
    BY ConstantFacts DEF FrameOK, FrameType
  <2> QED
    BY <2>1, EvEffects
<1>4. g.h.fd # NotArmed
  BY ConstantFacts DEF NotArmed
<1> HIDE DEF e, f
<1>5. Holds(c, f)
  BY <1>1, <1>2, <1>3, <1>4, HoldsWatch
<1> QED
  BY <1>1, <1>5 DEF f

\* What every outcome of a step towards the backend does.
AllHold(c, outcomes, g) ==
  \A o \in outcomes :
    /\ Holds(c, o.g) /\ o.g.r = g.r /\ Moves(o.g, g) /\ o.g.h.state # "NULL"
    /\ o.r # "ERROR" => CtxOK(o.g.h)

\* Writing the request: the context keeps its descriptor or starts again.
LEMMA FcgiWriteOwn ==
  ASSUME TablesInv, NEW c \in Conn, NEW g, FrameOK(g), Holds(c, g), g.h.fd \in Fd,
         g.h.state \notin {"NULL", "INIT"}
  PROVE  AllHold(c, FcgiWrite(g), g)
<1>1. ASSUME NEW what
      PROVE  LET f == FcgiWait(g, what)
             IN /\ Holds(c, f) /\ f.r = g.r /\ f.open = g.open /\ FrameOK(f)
                /\ f.h.fd = g.h.fd /\ f.h.state = g.h.state /\ f.h \in CtxRec
  <2> DEFINE f == FcgiWait(g, what)
  <2>1. Holds(c, f) /\ f.r = g.r /\ f.h = [g.h EXCEPT !.fde_ndx = g.h.fd] /\ f.open = g.open
    BY FcgiWaitOwn
  <2>2. FrameOK(f)
    BY FcgiWaitOK DEF Keeps
  <2> HIDE DEF f
  <2>3. f.h.fd = g.h.fd /\ f.h.state = g.h.state /\ f.h \in CtxRec
    BY <2>1, <2>2 DEF FrameOK, FrameType, CtxRec
  <2> QED
    BY <2>1, <2>2, <2>3 DEF f
<1>2. ASSUME NEW what
      PROVE  LET f == [FcgiWait(g, what) EXCEPT !.h.bytes_out = TRUE]
             IN /\ Holds(c, f) /\ f.r = g.r
                /\ f.h.fd = g.h.fd /\ f.h.state = g.h.state
  <2> DEFINE w == FcgiWait(g, what)
             f == [w EXCEPT !.h.bytes_out = TRUE]
  <2>1. /\ Holds(c, w) /\ w.r = g.r /\ w.open = g.open /\ FrameOK(w)
        /\ w.h.fd = g.h.fd /\ w.h.state = g.h.state /\ w.h \in CtxRec
    BY <1>1
  <2> HIDE DEF w
  <2>2. SameFds(f, w) /\ f.r = w.r /\ f.h.fd = w.h.fd /\ f.h.state = w.h.state
    BY <2>1 DEF SameFds, FrameOK, FrameType, CtxRec
  <2> HIDE DEF f
  <2>3. Holds(c, f)
    BY <2>1, <2>2, HoldsSame
  <2> QED
    BY <2>1, <2>2, <2>3 DEF w, f
<1>3. LET f == [FcgiWait(g, "IN") EXCEPT !.h.state = "READ", !.h.bytes_out = TRUE]
      IN /\ Holds(c, f) /\ f.r = g.r
         /\ f.h.fd = g.h.fd /\ f.h.state = "READ"
  <2> DEFINE w == FcgiWait(g, "IN")
             f == [w EXCEPT !.h.state = "READ", !.h.bytes_out = TRUE]
             h == [w.h EXCEPT !.state = "READ", !.bytes_out = TRUE]
  <2>1. /\ Holds(c, w) /\ w.r = g.r /\ w.open = g.open /\ FrameOK(w)
        /\ w.h.fd = g.h.fd /\ w.h.state = g.h.state /\ w.h \in CtxRec
    BY <1>1
  <2> HIDE DEF w
  <2>2. h.fd = w.h.fd /\ h.fde_ndx = w.h.fde_ndx /\ h.state = "READ"
    BY <2>1 DEF CtxRec
  <2>3. f = [w EXCEPT !.h = h]
    BY <2>1 DEF FrameOK, FrameType
  <2> HIDE DEF h, f
  <2>4. SameFds(f, w) /\ f.r = w.r /\ f.h = h
    BY <2>1, <2>2, <2>3 DEF SameFds, FrameOK, FrameType
  <2>5. Holds(c, f)
    BY <2>1, <2>4, HoldsSame
  <2> QED
    BY <2>1, <2>2, <2>4, <2>5 DEF f, w
<1>4. Holds(c, fcgi_reconnect(g)) /\ fcgi_reconnect(g).r = g.r
      /\ fcgi_reconnect(g).h.fd = -1 /\ fcgi_reconnect(g).h.state = "INIT"
  BY FcgiReconnectOwn
<1>5. ASSUME NEW o \in FcgiWrite(g)
      PROVE  \/ o = Outcome([FcgiWait(g, "IN") EXCEPT !.h.state = "READ", !.h.bytes_out = TRUE],
                            "WAIT_FOR_EVENT")
             \/ o = Outcome([FcgiWait(g, "OUT") EXCEPT !.h.bytes_out = TRUE], "WAIT_FOR_EVENT")
             \/ o = Outcome(FcgiWait(g, "OUT"), "WAIT_FOR_EVENT")
             \/ o = Outcome(g, "ERROR")
             \/ o = Outcome(fcgi_reconnect(g), "WAIT_FOR_FD")
  BY <1>5 DEF FcgiWrite
<1>6. ASSUME NEW o \in FcgiWrite(g)
      PROVE  /\ Holds(c, o.g) /\ o.g.r = g.r /\ Moves(o.g, g) /\ o.g.h.state # "NULL"
             /\ o.r # "ERROR" => CtxOK(o.g.h)
  <2>1. CASE o = Outcome([FcgiWait(g, "IN") EXCEPT !.h.state = "READ", !.h.bytes_out = TRUE],
                         "WAIT_FOR_EVENT")
    <3>1. /\ o.g = [FcgiWait(g, "IN") EXCEPT !.h.state = "READ", !.h.bytes_out = TRUE]
          /\ o.r = "WAIT_FOR_EVENT"
      BY <2>1, OutcomeFields
    <3>2. Holds(c, o.g) /\ o.g.r = g.r /\ o.g.h.fd = g.h.fd /\ o.g.h.state = "READ"
      BY <1>3, <3>1
    <3> QED
      BY <3>1, <3>2 DEF Moves, CtxOK
  <2>2. CASE o = Outcome([FcgiWait(g, "OUT") EXCEPT !.h.bytes_out = TRUE], "WAIT_FOR_EVENT")
    <3>1. o.g = [FcgiWait(g, "OUT") EXCEPT !.h.bytes_out = TRUE] /\ o.r = "WAIT_FOR_EVENT"
      BY <2>2, OutcomeFields
    <3>2. Holds(c, o.g) /\ o.g.r = g.r /\ o.g.h.fd = g.h.fd /\ o.g.h.state = g.h.state
      BY <1>2, <3>1
    <3> QED
      BY <3>1, <3>2 DEF Moves, CtxOK
  <2>3. CASE o = Outcome(FcgiWait(g, "OUT"), "WAIT_FOR_EVENT")
    <3>1. o.g = FcgiWait(g, "OUT") /\ o.r = "WAIT_FOR_EVENT"
      BY <2>3, OutcomeFields
    <3>2. Holds(c, o.g) /\ o.g.r = g.r /\ o.g.h.fd = g.h.fd /\ o.g.h.state = g.h.state
      BY <1>1, <3>1
    <3> QED
      BY <3>1, <3>2 DEF Moves, CtxOK
  <2>4. CASE o = Outcome(g, "ERROR")
    BY <2>4, OutcomeFields DEF Moves
  <2>5. CASE o = Outcome(fcgi_reconnect(g), "WAIT_FOR_FD")
    BY <1>4, <2>5, OutcomeFields DEF Moves, CtxOK
  <2> QED
    BY <1>5, <1>6, <2>1, <2>2, <2>3, <2>4, <2>5
<1> QED
  BY <1>6 DEF AllHold

\* Building the request and writing it.
LEMMA FcgiPrepareWriteOwn ==
  ASSUME TablesInv, NEW c \in Conn, NEW g, FrameOK(g), Holds(c, g), g.h.fd \in Fd
  PROVE  AllHold(c, FcgiPrepareWrite(g), g)
<1>1. ASSUME NEW s \in FcgiStates \ {"NULL"}
      PROVE  LET f == [g EXCEPT !.h.state = s]
             IN /\ Holds(c, f) /\ f.r = g.r /\ f.open = g.open /\ FrameOK(f)
                /\ f.h.fd = g.h.fd /\ f.h.state = s
  <2> DEFINE f == [g EXCEPT !.h.state = s]
  <2>1. SameFds(f, g) /\ f.r = g.r /\ f.open = g.open /\ f.h.fd = g.h.fd /\ f.h.state = s
    BY DEF SameFds, FrameOK, FrameType, CtxRec
  <2>2. FrameOK(f)
    BY <1>1 DEF FrameOK, FrameType, CtxRec, CtxReady
  <2> HIDE DEF f
  <2>3. Holds(c, f)
    BY <2>1, HoldsSame
  <2> QED
    BY <2>1, <2>2, <2>3 DEF f
<1> DEFINE w == [g EXCEPT !.h.state = "WRITE"]
           q == [g EXCEPT !.h.state = "PREPARE_WRITE"]
<1>2. /\ Holds(c, w) /\ w.r = g.r /\ w.open = g.open /\ FrameOK(w)
      /\ w.h.fd = g.h.fd /\ w.h.state = "WRITE"
  BY <1>1 DEF FcgiStates
<1>3. /\ Holds(c, q) /\ q.r = g.r /\ q.h.fd = g.h.fd /\ q.h.state = "PREPARE_WRITE"
  BY <1>1 DEF FcgiStates
<1>4. FcgiPrepareWrite(g) = {Outcome(q, "ERROR")} \cup FcgiWrite(w)
  BY DEF FcgiPrepareWrite
<1> HIDE DEF w, q
<1>5. AllHold(c, FcgiWrite(w), w)
  BY <1>2, FcgiWriteOwn
<1> QED
  BY <1>2, <1>3, <1>4, <1>5, OutcomeFields DEF AllHold, Moves

\* connect() and what follows it.
LEMMA FcgiEstablishOwn ==
  ASSUME TablesInv, NEW c \in Conn, NEW g, FrameOK(g), Holds(c, g), g.h.fd \in Fd,
         g.h.state # "NULL"
  PROVE  AllHold(c, fcgi_establish_connection(g), g)
<1> DEFINE z == [g EXCEPT !.h.reconnects = 0]
           w == FcgiWait(g, "OUT")
           d == [w EXCEPT !.h.state = "CONNECT_DELAYED"]
<1>1. SameFds(z, g) /\ z.r = g.r /\ z.open = g.open /\ z.h.fd = g.h.fd
  BY DEF SameFds, FrameOK, FrameType, CtxRec
<1>2. FrameOK(z)
  BY RangeFacts DEF FrameOK, FrameType, CtxRec, CtxReady
<1>3. Holds(c, w) /\ w.r = g.r /\ w.h = [g.h EXCEPT !.fde_ndx = g.h.fd] /\ FrameOK(w)
  BY FcgiWaitOwn, FcgiWaitOK DEF Keeps
<1>4. w.h.fd = g.h.fd
  BY <1>3 DEF FrameOK, FrameType, CtxRec
<1>5. fcgi_establish_connection(g)
        = FcgiPrepareWrite(z) \cup {Outcome(d, "WAIT_FOR_EVENT"), Outcome(g, "ERROR")}
  BY DEF fcgi_establish_connection
<1> HIDE DEF z, w
<1>6. SameFds(d, w) /\ d.r = w.r /\ d.h.fd = w.h.fd /\ d.h.state = "CONNECT_DELAYED"
  BY <1>3 DEF SameFds, FrameOK, FrameType, CtxRec
<1> HIDE DEF d
<1>7. Holds(c, z) /\ Holds(c, d) /\ d.r = g.r /\ d.h.fd = g.h.fd
  BY <1>1, <1>3, <1>4, <1>6, HoldsSame
<1>8. AllHold(c, FcgiPrepareWrite(z), z)
  BY <1>1, <1>2, <1>7, FcgiPrepareWriteOwn
<1>9. ASSUME NEW o \in fcgi_establish_connection(g)
      PROVE  /\ Holds(c, o.g) /\ o.g.r = g.r /\ Moves(o.g, g) /\ o.g.h.state # "NULL"
             /\ o.r # "ERROR" => CtxOK(o.g.h)
  <2>1. CASE o \in FcgiPrepareWrite(z)
    BY <1>1, <1>2, <1>8, <2>1 DEF AllHold, Moves
  <2>2. CASE o = Outcome(d, "WAIT_FOR_EVENT")
    BY <1>6, <1>7, <2>2, OutcomeFields DEF Moves, CtxOK
  <2>3. CASE o = Outcome(g, "ERROR")
    BY <2>3, OutcomeFields DEF Moves
  <2> QED
    BY <1>5, <1>9, <2>1, <2>2, <2>3
<1> QED
  BY <1>9 DEF AllHold

\* A new socket for the backend: the descriptor was free.
LEMMA FcgiInitOwn ==
  ASSUME TablesInv, NEW c \in Conn, NEW g, FrameOK(g), Holds(c, g), g.h.state = "INIT",
         g.h.fd = -1
  PROVE  AllHold(c, FcgiInit(c, g), g)
<1> DEFINE q == [g EXCEPT !.h.fde_ndx = NotArmed]
<1>1. /\ Holds(c, q) /\ q.r = g.r /\ q.h.fd = -1 /\ q.h.state = "INIT"
  <2>1. SameFds(q, g) /\ q.r = g.r /\ q.h.fd = -1 /\ q.h.state = "INIT"
    BY DEF SameFds, FrameOK, FrameType, CtxRec
  <2> HIDE DEF q
  <2> QED
    BY <2>1, HoldsSame
<1>2. ASSUME NEW fd \in FreeFd(g)
      PROVE  AllHold(c, fcgi_establish_connection(FcgiSocket(c, g, fd)), g)
  <2> DEFINE f == FcgiSocket(c, g, fd)
  <2>1. fd \in Fd \ g.open
    BY DEF FreeFd
  <2>2. /\ f.ev = fdevent_register(g.ev, fd, "fcgi", c) /\ f.open = g.open \cup {fd}
        /\ f.cur_fds = g.cur_fds + 1 /\ f.conns = g.conns /\ f.r = g.r
        /\ f.h.fd = fd /\ f.h.state = "INIT"
    BY DEF FcgiSocket, FrameOK, FrameType, CtxRec
  <2>3. FrameOK(f)
    <3>1. fdevent_register(g.ev, fd, "fcgi", c) \in EvType
      BY <2>1, EvOps, ConstantFacts DEF FrameOK, FrameType
    <3>2. g.cur_fds + 1 \in Int
      BY DEF FrameOK, FrameType
    <3> QED
      BY <2>1, <3>1, <3>2 DEF FrameOK, FrameType, CtxRec, CtxReady, FcgiSocket
  <2> HIDE DEF f
  <2>4. Holds(c, f)
    BY <2>1, <2>2, HoldsConnect
  <2>5. AllHold(c, fcgi_establish_connection(f), f)
    BY <2>1, <2>2, <2>3, <2>4, FcgiEstablishOwn
  <2>6. \A o : Moves(o, f) => Moves(o, g)
    BY <2>1, <2>2, ConstantFacts DEF Moves
  <2> QED
    BY <2>2, <2>5, <2>6 DEF AllHold, f
<1>3. CtxOK(g.h)
  BY DEF CtxOK
<1>4. ASSUME NEW o \in FcgiInit(c, g)
      PROVE  /\ Holds(c, o.g) /\ o.g.r = g.r /\ Moves(o.g, g) /\ o.g.h.state # "NULL"
             /\ o.r # "ERROR" => CtxOK(o.g.h)
  <2>1. \/ o = Outcome(q, "ERROR") \/ o = Outcome(g, "WAIT_FOR_FD")
        \/ \E fd \in FreeFd(g) : o \in fcgi_establish_connection(FcgiSocket(c, g, fd))
    BY <1>4 DEF FcgiInit
  <2> HIDE DEF q
  <2>2. CASE o = Outcome(q, "ERROR") \/ o = Outcome(g, "WAIT_FOR_FD")
    BY <1>1, <1>3, <2>2, OutcomeFields DEF Moves
  <2>3. CASE \E fd \in FreeFd(g) : o \in fcgi_establish_connection(FcgiSocket(c, g, fd))
    BY <1>2, <2>3 DEF AllHold
  <2> QED
    BY <2>1, <2>2, <2>3
<1> QED
  BY <1>4 DEF AllHold

\* fcgi_write_request, for a context in order.
LEMMA FcgiWriteRequestOwn ==
  ASSUME TablesInv, NEW c \in Conn, NEW g, FrameOK(g), Holds(c, g), CtxOK(g.h),
         g.h.state # "NULL"
  PROVE  AllHold(c, fcgi_write_request(c, g), g)
<1>1. g.h.state \in FcgiStates
  BY DEF FrameOK, FrameType, CtxRec
<1>2. CASE g.h.state = "INIT"
  <2>1. fcgi_write_request(c, g) = FcgiInit(c, g)
    BY <1>2 DEF fcgi_write_request
  <2> QED
    BY <1>2, <2>1, FcgiInitOwn DEF CtxOK
<1>3. CASE g.h.state \in {"CONNECT_DELAYED", "PREPARE_WRITE", "WRITE"}
  <2>1. g.h.fd \in Fd
    BY <1>3 DEF FrameOK, CtxReady
  <2>2. AllHold(c, FcgiPrepareWrite(g), g) /\ AllHold(c, FcgiWrite(g), g)
    BY <1>3, <2>1, FcgiPrepareWriteOwn, FcgiWriteOwn
  <2>3. AllHold(c, {Outcome(g, "ERROR")}, g)
    BY <1>3, OutcomeFields DEF AllHold, Moves
  <2>4. \/ fcgi_write_request(c, g) = {Outcome(g, "ERROR")} \cup FcgiPrepareWrite(g)
        \/ fcgi_write_request(c, g) = FcgiPrepareWrite(g)
        \/ fcgi_write_request(c, g) = FcgiWrite(g)
    BY <1>3 DEF fcgi_write_request
  <2> QED
    BY <2>2, <2>3, <2>4 DEF AllHold
<1>4. CASE g.h.state = "READ"
  <2>1. fcgi_write_request(c, g) = {Outcome(g, "WAIT_FOR_EVENT")}
    BY <1>4 DEF fcgi_write_request
  <2> QED
    BY <1>4, <2>1, OutcomeFields DEF AllHold, Moves
<1> QED
  BY <1>1, <1>2, <1>3, <1>4 DEF FcgiStates

\* The request is given back to the server.
GivenUp(r) == [r EXCEPT !.mode = "DIRECT", !.decided = TRUE]

\* FcgiGiveUp leaves no context.
LEMMA FcgiGiveUpOwn ==
  ASSUME TablesInv, NEW c \in Conn, NEW g, FrameOK(g), Holds(c, g),
         g.h.state = "NULL" => g.h = NoCtx
  PROVE  /\ Holds(c, FcgiGiveUp(g)) /\ FcgiGiveUp(g).r = GivenUp(g.r)
         /\ FcgiGiveUp(g).h = NoCtx
<1> DEFINE f == fcgi_connection_close(g)
           z == FcgiGiveUp(g)
<1>1. Holds(c, f) /\ f.r = g.r /\ f.h = NoCtx
  BY FcgiCloseOwn
<1>2. FrameOK(f)
  BY FcgiCloseOK DEF Keeps
<1>3. z = [f EXCEPT !.r.mode = "DIRECT", !.r.decided = TRUE]
  BY DEF FcgiGiveUp
<1> HIDE DEF f, z
<1>4. z.r = GivenUp(f.r) /\ z.h = f.h /\ z.ev = f.ev /\ z.open = f.open
      /\ z.cur_fds = f.cur_fds /\ z.conns = f.conns
  BY <1>2, <1>3 DEF FrameOK, FrameType, GivenUp
<1>5. GivenUp(f.r).fd = f.r.fd /\ GivenUp(f.r).fde_ndx = f.r.fde_ndx
  BY <1>2 DEF FrameOK, FrameType, ConRec, GivenUp
<1>6. SameFds(z, f)
  BY <1>4, <1>5 DEF SameFds
<1> QED
  BY <1>1, <1>4, <1>6, HoldsSame DEF z

\* joblist_append does not touch descriptors.
LEMMA JobOwn ==
  ASSUME NEW c \in Conn, NEW g, FrameOK(g), Holds(c, g)
  PROVE  /\ Holds(c, joblist_append(g)) /\ joblist_append(g).r = g.r
         /\ joblist_append(g).h = g.h /\ joblist_append(g).open = g.open
<1> DEFINE f == joblist_append(g)
<1>1. SameFds(f, g) /\ f.r = g.r /\ f.h = g.h /\ f.open = g.open
  BY DEF joblist_append, SameFds, FrameOK, FrameType
<1> HIDE DEF f
<1>2. Holds(c, f)
  BY <1>1, HoldsSame
<1> QED
  BY <1>1, <1>2 DEF f

\* What every outcome of mod_fastcgi_handle_subrequest does: the request goes
\* on with a context in order, or it is given up and has none.
SubHold(c, f, g) ==
  /\ Holds(c, f) /\ Moves(f, g)
  /\ \/ f.r = g.r /\ CtxOK(f.h)
     \/ f.r = GivenUp(g.r) /\ f.h = NoCtx

\* mod_fastcgi_handle_subrequest (mod_fastcgi.c:3100).
LEMMA SubrequestOwn ==
  ASSUME TablesInv, NEW c \in Conn, NEW g, FrameOK(g), Holds(c, g), CtxOK(g.h),
         g.h.state # "NULL"
  PROVE  \A o \in mod_fastcgi_handle_subrequest(c, g) : SubHold(c, o.g, g)
<1> DEFINE f == [g EXCEPT !.h.host = TRUE]
<1>1. /\ SameFds(f, g) /\ f.r = g.r /\ f.open = g.open /\ f.h.fd = g.h.fd
      /\ f.h.state = g.h.state
  BY DEF SameFds, FrameOK, FrameType, CtxRec
<1>2. FrameOK(f)
  BY DEF FrameOK, FrameType, CtxRec, CtxReady
<1> HIDE DEF f
<1>3. Holds(c, f) /\ CtxOK(f.h) /\ f.h.state # "NULL"
  BY <1>1, HoldsSame DEF CtxOK
<1>4. AllHold(c, fcgi_write_request(c, f), f)
  BY <1>2, <1>3, FcgiWriteRequestOwn
<1>5. NoCtx.fd = -1
  BY DEF NoCtx
<1>6. SubHold(c, FcgiGiveUp(g), g)
  BY <1>5, FcgiGiveUpOwn DEF SubHold, Moves
<1>7. ASSUME NEW o \in fcgi_write_request(c, f)
      PROVE  SubHold(c, SubrequestResult(o).g, g)
  <2>1. /\ Holds(c, o.g) /\ o.g.r = g.r /\ Moves(o.g, g) /\ o.g.h.state # "NULL"
        /\ o.r # "ERROR" => CtxOK(o.g.h)
    BY <1>1, <1>4, <1>7 DEF AllHold, Moves
  <2>2. FrameOK(o.g)
    BY <1>2, <1>7, FcgiWriteRequestOK DEF AllKeep, Keeps
  <2>3. CASE o.r # "ERROR"
    <3>1. SubrequestResult(o).g = o.g
      BY <2>3, OutcomeFields DEF SubrequestResult, SubrequestWait
    <3> QED
      BY <2>1, <2>3, <3>1 DEF SubHold
  <2>4. CASE o.r = "ERROR"
    <3> DEFINE a == joblist_append(fcgi_reconnect(o.g))
               b == joblist_append(FcgiGiveUp(o.g))
    <3>1. o.g.h.reconnects < max_reconnects => SubHold(c, a, g)
      <4> SUFFICES ASSUME o.g.h.reconnects < max_reconnects PROVE SubHold(c, a, g)
        OBVIOUS
      <4> DEFINE x == fcgi_reconnect(o.g)
      <4>1. FrameOK(x)
        BY <2>2, FcgiReconnectOK DEF Keeps
      <4>2. Holds(c, x) /\ x.r = g.r /\ x.h.fd = -1 /\ x.h.state = "INIT"
        BY <2>1, <2>2, FcgiReconnectOwn
      <4> HIDE DEF x
      <4>3. Holds(c, joblist_append(x)) /\ joblist_append(x).r = x.r /\ joblist_append(x).h = x.h
        BY <4>1, <4>2, JobOwn
      <4>4. SubHold(c, joblist_append(x), g)
        BY <4>2, <4>3 DEF SubHold, Moves, CtxOK
      <4> QED
        BY <4>4 DEF x
    <3>2. SubHold(c, b, g)
      <4> DEFINE x == FcgiGiveUp(o.g)
      <4>1. FrameOK(x)
        BY <2>2, FcgiGiveUpOK DEF Keeps
      <4>2. Holds(c, x) /\ x.r = GivenUp(g.r) /\ x.h = NoCtx
        BY <2>1, <2>2, FcgiGiveUpOwn
      <4> HIDE DEF x
      <4>3. Holds(c, joblist_append(x)) /\ joblist_append(x).r = x.r /\ joblist_append(x).h = x.h
        BY <4>1, <4>2, JobOwn
      <4>4. SubHold(c, joblist_append(x), g)
        BY <1>5, <4>2, <4>3 DEF SubHold, Moves
      <4> QED
        BY <4>4 DEF x
    <3>3. \/ SubrequestResult(o).g = a /\ o.g.h.reconnects < max_reconnects
          \/ SubrequestResult(o).g = b
      BY <2>4, OutcomeFields DEF SubrequestResult, SubrequestError
    <3> HIDE DEF a, b
    <3> QED
      BY <3>1, <3>2, <3>3
  <2> QED
    BY <2>3, <2>4
<1>8. ASSUME NEW o \in mod_fastcgi_handle_subrequest(c, g)
      PROVE  SubHold(c, o.g, g)
  <2>1. \/ o = Outcome(FcgiGiveUp(g), "FINISHED")
        \/ \E x \in fcgi_write_request(c, f) : o = SubrequestResult(x)
    BY <1>8 DEF mod_fastcgi_handle_subrequest, f
  <2> QED
    BY <1>6, <1>7, <2>1, OutcomeFields
<1> QED
  BY <1>8

-----------------------------------------------------------------------------
\* Requests.

\* Between two requests, and while one is read, nobody handles it.
Idle == {"CONNECT", "REQUEST_START", "READ", "REQUEST_END", "READ_POST", "CLOSE"}

\* Nothing has been decided about the request.
Fresh == {"REQUEST_START", "READ", "REQUEST_END", "READ_POST"}

\* http_response_prepare has seen the request, and whether it is the last one,
\* or it was refused before that: then keep_alive is cleared, except for a
\* request of an unknown HTTP version.
Prepared(r) ==
  r.mode = "FASTCGI" \/ r.decided \/ r.state \in {"RESPONSE_START", "WRITE", "RESPONSE_END"}

\* A connection r with context h between two steps.
RequestOK(r, h) ==
  /\ CtxOK(h)
  /\ r.mode = "DIRECT" => h = NoCtx
  /\ r.state \in Idle => r.mode = "DIRECT"
  /\ r.state \in Fresh => ~r.decided
  /\ r.bad_version => r.decided
  /\ r.state = "REQUEST_START" => ~r.write_queue /\ ~r.file_finished /\ r.is_writable
  /\ r.keep_alive => r.request_count # 0
  /\ r.state \in Fresh => r.request_count # 0 \/ r.state = "REQUEST_START"
  /\ r.state \in {"CONNECT", "CLOSE"} => ~r.keep_alive
  /\ Prepared(r) /\ r.keep_alive =>
       r.request_count <= max_keep_alive_requests \/ r.bad_version

\* What reading may make of a connection r.
Reading(x, r) ==
  /\ x \in ConRec
  /\ x.fd = r.fd /\ x.fde_ndx = r.fde_ndx
  /\ x.mode = r.mode /\ x.request_count = r.request_count
  /\ x.state \in {"READ", "READ_POST", "REQUEST_END", "HANDLE_REQUEST", "ERROR"}
  /\ x.keep_alive => r.keep_alive
  /\ ~x.bad_version
  /\ x.decided => ~x.keep_alive /\ x.state \in {"HANDLE_REQUEST", "ERROR"}

\* connection_handle_read leaves a connection that is read.
LEMMA ReadIsReading ==
  ASSUME NEW r, NEW x, Reading(x, r)
  PROVE  \A y \in connection_handle_read(x) :
           Reading(y.r, r) /\ (y.ret # "failed" => y.r.state = x.state)
<1> DEFINE blocked == [x EXCEPT !.is_readable = FALSE]
<1>1. Reading(blocked, r) /\ blocked.read_queue = x.read_queue /\ blocked.state = x.state
  BY DEF Reading, ConRec
<1>2. connection_handle_read(x) =
        {Read(blocked, "ok"), Read(x, "ok"),
         Read([blocked EXCEPT !.state = "ERROR"], "failed"), Read(blocked, "eof")}
        \cup (IF x.read_queue <= header_max
              THEN {Read([y EXCEPT !.read_queue = @ + 1], "ok") : y \in {x, blocked}}
              ELSE {})
  BY DEF connection_handle_read
<1> HIDE DEF blocked
<1>3. Reading([blocked EXCEPT !.state = "ERROR"], r)
  BY <1>1 DEF Reading, ConRec, ConStates
<1>4. ASSUME NEW y, Reading(y, r), y.read_queue <= header_max
      PROVE  /\ Reading([y EXCEPT !.read_queue = @ + 1], r)
             /\ [y EXCEPT !.read_queue = @ + 1].state = y.state
  <2>1. y.read_queue + 1 \in 0 .. (header_max + 1)
    BY <1>4, ServerAssumption DEF Reading, ConRec
  <2> QED
    BY <1>4, <2>1 DEF Reading, ConRec
<1>5. \A a, b : Read(a, b).r = a /\ Read(a, b).ret = b
  BY DEF Read
<1>6. ASSUME NEW o \in connection_handle_read(x)
      PROVE  Reading(o.r, r) /\ (o.ret # "failed" => o.r.state = x.state)
  <2>1. CASE o \in {Read(blocked, "ok"), Read(x, "ok"),
                    Read([blocked EXCEPT !.state = "ERROR"], "failed"), Read(blocked, "eof")}
    BY <1>1, <1>3, <1>5, <2>1
  <2>2. CASE /\ x.read_queue <= header_max
             /\ \E y \in {x, blocked} : o = Read([y EXCEPT !.read_queue = @ + 1], "ok")
    <3>1. PICK y \in {x, blocked} : o = Read([y EXCEPT !.read_queue = @ + 1], "ok")
      BY <2>2
    <3>2. Reading(y, r) /\ y.read_queue <= header_max /\ y.state = x.state
      BY <1>1, <2>2
    <3>3. /\ Reading([y EXCEPT !.read_queue = @ + 1], r)
          /\ [y EXCEPT !.read_queue = @ + 1].state = x.state
      BY <1>4, <3>2
    <3> QED
      BY <1>5, <3>1, <3>3
  <2> QED
    BY <1>2, <1>6, <2>1, <2>2
<1> QED
  BY <1>6

\* What a header or a part of the content makes of it.
LEMMA ParsedIsReading ==
  ASSUME NEW r, NEW x, Reading(x, r)
  PROVE  /\ x.state = "READ" => \A y \in ReadHeader(x) : Reading(y, r)
         /\ x.state = "READ_POST" => \A y \in ReadContent(x) : Reading(y, r)
<1>1. \A rest \in 0 .. x.read_queue : rest \in 0 .. (header_max + 1)
  BY ServerAssumption DEF Reading, ConRec
<1>2. ASSUME NEW rest \in 0 .. x.read_queue
      PROVE  /\ Reading([x EXCEPT !.state = "REQUEST_END", !.read_queue = rest], r)
                  \/ x.decided
             /\ Reading([x EXCEPT !.state = "HANDLE_REQUEST", !.read_queue = rest], r)
             /\ Reading([x EXCEPT !.read_queue = rest], r)
  BY ZenonT(30), <1>1 DEF Reading, ConRec, ConStates
<1> DEFINE bad == [x EXCEPT !.state = "HANDLE_REQUEST", !.decided = TRUE, !.keep_alive = FALSE]
<1>3. Reading(bad, r) /\ bad.read_queue = x.read_queue
  <2>1. bad \in ConRec
    BY ZenonT(60) DEF Reading, ConRec, ConStates
  <2>2. /\ bad.fd = x.fd /\ bad.fde_ndx = x.fde_ndx /\ bad.mode = x.mode
        /\ bad.request_count = x.request_count /\ bad.state = "HANDLE_REQUEST"
        /\ bad.keep_alive = FALSE /\ bad.read_queue = x.read_queue
        /\ bad.bad_version = x.bad_version
    BY DEF Reading, ConRec
  <2> QED
    BY <2>1, <2>2 DEF Reading
<1>4. ASSUME NEW rest \in 0 .. x.read_queue
      PROVE  Reading([x EXCEPT !.state = "HANDLE_REQUEST", !.read_queue = rest,
                               !.decided = TRUE, !.keep_alive = FALSE], r)
  <2>1. [x EXCEPT !.state = "HANDLE_REQUEST", !.read_queue = rest,
                  !.decided = TRUE, !.keep_alive = FALSE] = [bad EXCEPT !.read_queue = rest]
    BY DEF Reading, ConRec
  <2> HIDE DEF bad
  <2>2. Reading([bad EXCEPT !.read_queue = rest], r)
    BY <1>1, <1>3 DEF Reading, ConRec, ConStates
  <2> QED
    BY <2>1, <2>2
<1>5. x.state \in {"READ", "READ_POST"} => ~x.decided
  BY DEF Reading
<1>6. x.read_queue \in Nat
  BY ServerAssumption DEF Reading, ConRec
<1>7. ASSUME x.state = "READ", NEW y \in ReadHeader(x)
      PROVE  Reading(y, r)
  <2>1. \/ \E rest \in 0 .. x.read_queue :
             y = [x EXCEPT !.state = "REQUEST_END", !.read_queue = rest]
        \/ y = [x EXCEPT !.state = "HANDLE_REQUEST", !.decided = TRUE, !.keep_alive = FALSE]
        \/ y = x
    BY <1>7 DEF ReadHeader
  <2> QED
    BY <1>2, <1>3, <1>5, <1>7, <2>1
<1>8. ASSUME x.state = "READ_POST", NEW y \in ReadContent(x)
      PROVE  Reading(y, r)
  <2>1. CASE x.read_queue = 0
    BY <1>8, <2>1 DEF ReadContent
  <2>2. CASE x.read_queue # 0
    <3>1. 0 \in 0 .. x.read_queue /\ 1 .. x.read_queue \subseteq 0 .. x.read_queue
      BY <1>6
    <3>2. \/ y = [x EXCEPT !.read_queue = 0]
          \/ \E rest \in 0 .. x.read_queue :
               y = [x EXCEPT !.state = "HANDLE_REQUEST", !.read_queue = rest]
          \/ \E rest \in 1 .. x.read_queue :
               y = [x EXCEPT !.state = "HANDLE_REQUEST", !.read_queue = rest,
                             !.decided = TRUE, !.keep_alive = FALSE]
      BY <1>8, <2>2 DEF ReadContent
    <3> QED
      BY <1>2, <1>4, <3>1, <3>2
  <2> QED
    BY <2>1, <2>2
<1> QED
  BY <1>7, <1>8

\* connection_handle_read_state: a request that is read stays in order.
LEMMA ReadStateRequest ==
  ASSUME NEW r \in ConRec, NEW h, RequestOK(r, h), r.state \in {"READ", "READ_POST"}
  PROVE  \A x \in connection_handle_read_state(r) :
           /\ RequestOK(x, h) /\ x.state \notin {"CONNECT", "REQUEST_START"} /\ x \in ConRec
           /\ x.fd = r.fd /\ x.fde_ndx = r.fde_ndx
<1> DEFINE q == [r EXCEPT !.read_idle = 0]
           results == IF r.is_readable THEN connection_handle_read(q) ELSE {Read(r, "ok")}
           parsed(x) == IF x.state = "READ" THEN ReadHeader(x) ELSE ReadContent(x)
           after(y) == CASE y.ret = "failed" -> {y.r}
                         [] y.ret = "eof"    -> {ReadClosed(z, r.state) : z \in parsed(y.r)}
                         [] OTHER            -> parsed(y.r)
<1>1. connection_handle_read_state(r) = UNION {after(y) : y \in results}
  BY DEF connection_handle_read_state
<1>2. ~r.decided /\ ~r.bad_version
  BY DEF RequestOK, Fresh
<1>3. Reading(r, r)
  BY <1>2 DEF Reading
<1>4. Reading(q, r) /\ q.state = r.state
  BY <1>2, RangeFacts DEF Reading, ConRec
<1> HIDE DEF q
<1>5. ASSUME NEW y \in results
      PROVE  Reading(y.r, r) /\ (y.ret # "failed" => y.r.state = r.state)
  <2>1. CASE r.is_readable
    BY <1>4, <1>5, <2>1, ReadIsReading
  <2>2. CASE ~r.is_readable
    <3>1. y = Read(r, "ok")
      BY <1>5, <2>2
    <3> QED
      BY <1>3, <3>1 DEF Read
  <2> QED
    BY <2>1, <2>2
<1>6. ASSUME NEW x, Reading(x, r), x.state \in {"READ", "READ_POST"}, NEW y \in parsed(x)
      PROVE  Reading(y, r)
  BY <1>6, ParsedIsReading
<1> HIDE DEF results, parsed
<1>7. ASSUME NEW z, Reading(z, r)
      PROVE  Reading(ReadClosed(z, r.state), r)
  <2>1. CASE z.state = r.state
    <3>1. ReadClosed(z, r.state) = [z EXCEPT !.state = "ERROR"]
      BY <2>1 DEF ReadClosed
    <3> QED
      BY <1>7, <3>1 DEF Reading, ConRec, ConStates
  <2>2. CASE z.state # r.state
    BY <1>7, <2>2 DEF ReadClosed
  <2> QED
    BY <2>1, <2>2
<1>8. ASSUME NEW y \in results, NEW x \in after(y)
      PROVE  Reading(x, r)
  <2>1. Reading(y.r, r) /\ (y.ret # "failed" => y.r.state = r.state)
    BY <1>5
  <2>2. \/ x = y.r
        \/ y.ret # "failed" /\ \E z \in parsed(y.r) : x = z \/ x = ReadClosed(z, r.state)
    BY <1>8
  <2> QED
    BY <1>6, <1>7, <2>1, <2>2
<1> HIDE DEF after
<1>9. ASSUME NEW x, Reading(x, r)
      PROVE  RequestOK(x, h) /\ x.state \notin {"CONNECT", "REQUEST_START"}
  BY <1>9 DEF Reading, RequestOK, Prepared, Idle, Fresh
<1> QED
  BY <1>1, <1>8, <1>9 DEF Reading

\* The parts of a connection that most handlers leave alone.
SameRequest(x, r) ==
  /\ x.fd = r.fd /\ x.fde_ndx = r.fde_ndx
  /\ x.mode = r.mode /\ x.request_count = r.request_count
  /\ x.decided = r.decided /\ x.keep_alive = r.keep_alive
  /\ x.bad_version = r.bad_version

\* It stays in order when it goes on to write, fails, or stays where it is.
LEMMA RequestStays ==
  ASSUME NEW r, NEW x, NEW h, RequestOK(r, h), SameRequest(x, r),
         \/ x.state = r.state /\ r.state # "REQUEST_START"
         \/ /\ x.state = "REQUEST_START" /\ r.state = "REQUEST_START"
            /\ x.write_queue = r.write_queue /\ x.file_finished = r.file_finished
            /\ r.is_writable => x.is_writable
         \/ x.state \in {"HANDLE_REQUEST", "ERROR"}
         \/ x.state \in {"RESPONSE_START", "WRITE", "RESPONSE_END"} /\ Prepared(r)
  PROVE  RequestOK(x, h)
BY DEF RequestOK, SameRequest, Prepared, Idle, Fresh

\* Frame f differs from g in things that nobody holds.
Stays(f, g) ==
  /\ FrameOK(f) /\ SameFds(f, g) /\ f.h = g.h
  /\ RequestOK(f.r, f.h) /\ f.r.state # "CONNECT"
  /\ f.r.state = "REQUEST_START" => g.r.state = "REQUEST_START"

\* Two such steps make one.
LEMMA StaysTransitive ==
  ASSUME NEW f, NEW g, NEW x, Stays(f, g), Stays(g, x)
  PROVE  Stays(f, x)
BY DEF Stays, SameFds

\* While the response is written.
Writing(f, g) ==
  /\ FrameOK(f) /\ SameFds(f, g) /\ f.h = g.h /\ SameRequest(f.r, g.r)
  /\ f.r.state \in {"WRITE", "RESPONSE_END", "ERROR"}

\* joblist_append, connection_set_state and the fields that writing changes.
LEMMA WritingSteps ==
  ASSUME NEW g, NEW f, Writing(f, g), NEW b \in BOOLEAN
  PROVE  /\ Writing(joblist_append(f), g)
         /\ \A s \in {"RESPONSE_END", "ERROR"} : Writing(connection_set_state(f, s), g)
         /\ Writing([f EXCEPT !.r.traffic_limit_reached = b], g)
         /\ Writing([f EXCEPT !.r.write_queue = b], g)
         /\ Writing([f EXCEPT !.r.is_writable = b], g)
         /\ Writing([f EXCEPT !.r.write_idle = 0], g)
<1>1. ASSUME NEW x \in ConRec, SameRequest(x, f.r), x.state \in {"WRITE", "RESPONSE_END", "ERROR"}
      PROVE  Writing([f EXCEPT !.r = x], g)
  <2> DEFINE y == [f EXCEPT !.r = x]
  <2>1. y.r = x /\ y.h = f.h /\ y.ev = f.ev /\ y.open = f.open /\ y.cur_fds = f.cur_fds
        /\ y.conns = f.conns
    BY DEF Writing, FrameOK, FrameType
  <2>2. FrameOK(y)
    BY <1>1 DEF Writing, FrameOK, FrameType
  <2> HIDE DEF y
  <2>3. SameFds(y, g) /\ SameRequest(y.r, g.r) /\ y.h = g.h
    BY <1>1, <2>1 DEF Writing, SameFds, SameRequest
  <2> QED
    BY <1>1, <2>1, <2>2, <2>3 DEF Writing, y
<1>2. f.r \in ConRec /\ f.r.state \in {"WRITE", "RESPONSE_END", "ERROR"}
  BY DEF Writing, FrameOK, FrameType
<1>3. Writing(joblist_append(f), g)
  <2> DEFINE y == joblist_append(f)
  <2>1. FrameOK(y) /\ y.r = f.r /\ y.h = f.h
    BY JobOK DEF Writing, Keeps
  <2>2. y.ev = f.ev /\ y.open = f.open /\ y.cur_fds = f.cur_fds /\ y.conns = f.conns
    BY DEF joblist_append, Writing, FrameOK, FrameType
  <2> HIDE DEF y
  <2> QED
    BY <2>1, <2>2 DEF Writing, SameFds, y
<1>4. ASSUME NEW s \in {"RESPONSE_END", "ERROR"}
      PROVE  Writing(connection_set_state(f, s), g)
  <2> DEFINE x == [f.r EXCEPT !.state = s]
  <2>1. x \in ConRec /\ SameRequest(x, f.r) /\ x.state = s
    BY <1>2 DEF ConRec, ConStates, SameRequest
  <2>2. connection_set_state(f, s) = [f EXCEPT !.r = x]
    BY DEF connection_set_state, Writing, FrameOK, FrameType
  <2> HIDE DEF x
  <2> QED
    BY <1>1, <2>1, <2>2
<1>5. Writing([f EXCEPT !.r.traffic_limit_reached = b], g)
  <2> DEFINE x == [f.r EXCEPT !.traffic_limit_reached = b]
  <2>1. x \in ConRec /\ SameRequest(x, f.r) /\ x.state = f.r.state
    BY <1>2 DEF ConRec, SameRequest
  <2>2. [f EXCEPT !.r.traffic_limit_reached = b] = [f EXCEPT !.r = x]
    BY DEF Writing, FrameOK, FrameType
  <2> HIDE DEF x
  <2> QED
    BY <1>1, <1>2, <2>1, <2>2
<1>6. Writing([f EXCEPT !.r.write_queue = b], g)
  <2> DEFINE x == [f.r EXCEPT !.write_queue = b]
  <2>1. x \in ConRec /\ SameRequest(x, f.r) /\ x.state = f.r.state
    BY <1>2 DEF ConRec, SameRequest
  <2>2. [f EXCEPT !.r.write_queue = b] = [f EXCEPT !.r = x]
    BY DEF Writing, FrameOK, FrameType
  <2> HIDE DEF x
  <2> QED
    BY <1>1, <1>2, <2>1, <2>2
<1>7. Writing([f EXCEPT !.r.is_writable = b], g)
  <2> DEFINE x == [f.r EXCEPT !.is_writable = b]
  <2>1. x \in ConRec /\ SameRequest(x, f.r) /\ x.state = f.r.state
    BY <1>2 DEF ConRec, SameRequest
  <2>2. [f EXCEPT !.r.is_writable = b] = [f EXCEPT !.r = x]
    BY DEF Writing, FrameOK, FrameType
  <2> HIDE DEF x
  <2> QED
    BY <1>1, <1>2, <2>1, <2>2
<1>8. Writing([f EXCEPT !.r.write_idle = 0], g)
  <2> DEFINE x == [f.r EXCEPT !.write_idle = 0]
  <2>1. x \in ConRec /\ SameRequest(x, f.r) /\ x.state = f.r.state
    BY <1>2, RangeFacts DEF ConRec, SameRequest
  <2>2. [f EXCEPT !.r.write_idle = 0] = [f EXCEPT !.r = x]
    BY DEF Writing, FrameOK, FrameType
  <2> HIDE DEF x
  <2> QED
    BY <1>1, <1>2, <2>1, <2>2
<1> QED
  BY <1>3, <1>4, <1>5, <1>6, <1>7, <1>8

\* connection_handle_write and its callers' lines around it.
LEMMA WriteRequest ==
  ASSUME NEW g, FrameOK(g), RequestOK(g.r, g.h), g.r.state # "CONNECT"
  PROVE  \A f \in TryWrite(g) : Stays(f, g)
<1>1. CASE g.r.state # "WRITE"
  <2>1. TryWrite(g) = {g}
    BY <1>1 DEF TryWrite
  <2> QED
    BY <2>1 DEF Stays, SameFds
<1>2. CASE g.r.state = "WRITE"
  <2>1. Writing(g, g)
    BY <1>2 DEF Writing, SameFds, SameRequest
  <2>2. \A o \in network_write_chunkqueue(g) : Writing(o.g, g)
    <3> DEFINE limited(x) == joblist_append([x EXCEPT !.r.traffic_limit_reached = TRUE])
               written == {Outcome([g EXCEPT !.r.write_queue = FALSE], "0"),
                           Outcome(g, "1"), Outcome(g, "-1")}
    <3>1. \A f : Writing(f, g) => Writing(limited(f), g)
      BY WritingSteps
    <3>2. \A o \in written : Writing(o.g, g)
      <4>1. Writing([g EXCEPT !.r.write_queue = FALSE], g)
        BY <2>1, WritingSteps
      <4> QED
        BY <2>1, <4>1, OutcomeFields
    <3>3. \A o \in network_write_chunkqueue(g) :
            \/ o \in written
            \/ o = Outcome(limited(g), "1")
            \/ \E w \in written : o = Outcome(limited(w.g), w.r)
      BY DEF network_write_chunkqueue
    <3> HIDE DEF limited, written
    <3> QED
      BY <2>1, <3>1, <3>2, <3>3, OutcomeFields
  <2>3. \A f \in connection_handle_write(g) : Writing(f, g)
    <3> DEFINE after(o) == CASE o.r = "0"  -> IF o.g.r.file_finished
                                  THEN joblist_append(connection_set_state(o.g, "RESPONSE_END"))
                                  ELSE o.g
                             [] o.r = "-1" -> joblist_append(connection_set_state(o.g, "ERROR"))
                             [] OTHER      -> [o.g EXCEPT !.r.is_writable = FALSE]
    <3>1. ASSUME NEW o \in network_write_chunkqueue(g)
          PROVE  Writing(after(o), g)
      <4>1. Writing(o.g, g)
        BY <2>2
      <4>2. \A s \in {"RESPONSE_END", "ERROR"} :
              Writing(joblist_append(connection_set_state(o.g, s)), g)
        BY <4>1, WritingSteps
      <4>3. Writing([o.g EXCEPT !.r.is_writable = FALSE], g)
        BY <4>1, WritingSteps
      <4> QED
        BY <4>1, <4>2, <4>3
    <3>2. connection_handle_write(g) = {after(o) : o \in network_write_chunkqueue(g)}
      BY DEF connection_handle_write
    <3> HIDE DEF after
    <3> QED
      BY <3>1, <3>2
  <2>4. ASSUME NEW f \in TryWrite(g)
        PROVE  Writing(f, g)
    <3>1. f = g \/ \E x \in connection_handle_write(g) : f = x \/ f = [x EXCEPT !.r.write_idle = 0]
      BY <2>4 DEF TryWrite
    <3> QED
      BY <2>1, <2>3, <3>1, WritingSteps
  <2>5. ASSUME NEW f, Writing(f, g)
        PROVE  Stays(f, g)
    <3>1. Prepared(g.r)
      BY <1>2 DEF Prepared
    <3>2. RequestOK(f.r, f.h)
      BY <2>5, <3>1, RequestStays DEF Writing
    <3> QED
      BY <2>5, <3>2 DEF Writing, Stays
  <2> QED
    BY <2>4, <2>5
<1> QED
  BY <1>1, <1>2

\* A frame with another record for the connection.
LEMMA RecordStays ==
  ASSUME NEW g, FrameOK(g), NEW x \in ConRec, x.fd = g.r.fd, x.fde_ndx = g.r.fde_ndx,
         RequestOK(x, g.h), x.state # "CONNECT",
         x.state = "REQUEST_START" => g.r.state = "REQUEST_START"
  PROVE  /\ Stays([g EXCEPT !.r = x], g)
         /\ [g EXCEPT !.r = x].r = x
<1> DEFINE f == [g EXCEPT !.r = x]
<1>1. /\ f.r = x /\ f.h = g.h /\ f.ev = g.ev /\ f.open = g.open /\ f.cur_fds = g.cur_fds
      /\ f.conns = g.conns /\ FrameOK(f)
  BY DEF FrameOK, FrameType
<1> HIDE DEF f
<1>2. Stays(f, g)
  BY <1>1 DEF Stays, SameFds
<1> QED
  BY <1>1, <1>2 DEF f

\* joblist_append changes nothing that is held.
LEMMA JobStays ==
  ASSUME NEW g, FrameOK(g), RequestOK(g.r, g.h), g.r.state # "CONNECT"
  PROVE  Stays(joblist_append(g), g) /\ joblist_append(g).r = g.r
<1> DEFINE y == joblist_append(g)
<1>1. FrameOK(y) /\ y.r = g.r /\ y.h = g.h
  BY JobOK DEF Keeps
<1>2. y.ev = g.ev /\ y.open = g.open /\ y.cur_fds = g.cur_fds /\ y.conns = g.conns
  BY DEF joblist_append, FrameOK, FrameType
<1> HIDE DEF y
<1>3. Stays(y, g)
  BY <1>1, <1>2 DEF Stays, SameFds
<1> QED
  BY <1>1, <1>3 DEF y

\* connection_set_state(g, "ERROR") is always possible.
LEMMA ErrorStays ==
  ASSUME NEW g, FrameOK(g), RequestOK(g.r, g.h)
  PROVE  Stays(connection_set_state(g, "ERROR"), g)
<1> DEFINE x == [g.r EXCEPT !.state = "ERROR"]
<1>1. g.r \in ConRec
  BY DEF FrameOK, FrameType
<1>2. x \in ConRec /\ SameRequest(x, g.r) /\ x.state = "ERROR"
  BY <1>1 DEF ConRec, ConStates, SameRequest
<1>3. connection_set_state(g, "ERROR") = [g EXCEPT !.r = x]
  BY DEF connection_set_state, FrameOK, FrameType
<1> HIDE DEF x
<1>4. RequestOK(x, g.h)
  BY <1>2, RequestStays
<1> QED
  BY <1>2, <1>3, <1>4, RecordStays DEF SameRequest

\* connection_handle_fdevent (connections.c:1153).
LEMMA ConnectionEventRequest ==
  ASSUME NEW g, FrameOK(g), RequestOK(g.r, g.h), g.r.state # "CONNECT", NEW revents
  PROVE  \A f \in connection_handle_fdevent(g, revents) : Stays(f, g)
<1> DEFINE seen == NoteEvents(g, revents)
<1>1. Stays(seen, g)
  <2> DEFINE j == joblist_append(g)
             x == [j.r EXCEPT !.is_readable = @ \/ "IN" \in revents,
                              !.is_writable = @ \/ "OUT" \in revents]
             f == [j EXCEPT !.r = x]
  <2>1. Stays(j, g) /\ FrameOK(j)
    BY JobStays DEF Stays
  <2>2. seen = NoteError(f, revents)
    BY <2>1 DEF NoteEvents, Stays, FrameOK, FrameType
  <2> HIDE DEF j, seen
  <2>3. j.r \in ConRec
    BY <2>1 DEF FrameOK, FrameType
  <2>4. x \in ConRec
    BY <2>3, ZenonT(60) DEF ConRec
  <2>5. /\ SameRequest(x, j.r) /\ x.state = j.r.state /\ x.write_queue = j.r.write_queue
        /\ x.file_finished = j.r.file_finished
    BY <2>3 DEF ConRec, SameRequest
  <2>6. j.r.is_writable => x.is_writable
    BY <2>3 DEF ConRec
  <2> HIDE DEF x
  <2>7. RequestOK(x, j.h)
    BY <2>1, <2>5, <2>6, RequestStays DEF Stays
  <2>8. Stays(f, j)
    BY <2>1, <2>4, <2>5, <2>7, RecordStays DEF SameRequest, Stays
  <2> HIDE DEF f
  <2>9. Stays(connection_set_state(f, "ERROR"), f)
    BY <2>8, ErrorStays DEF Stays
  <2>10. seen = f \/ seen = connection_set_state(f, "ERROR")
    BY <2>2 DEF NoteError
  <2> QED
    BY <2>1, <2>8, <2>9, <2>10, StaysTransitive
<1> DEFINE read == IF seen.r.state \in {"READ", "READ_POST"}
                   THEN {[seen EXCEPT !.r = x] : x \in connection_handle_read_state(seen.r)}
                   ELSE {seen}
<1>2. connection_handle_fdevent(g, revents)
        = UNION {FlushClosing(y) : y \in UNION {TryWrite(x) : x \in read}}
  BY DEF connection_handle_fdevent
<1> HIDE DEF seen
<1>3. ASSUME NEW x \in read
      PROVE  Stays(x, g)
  <2>1. CASE x = seen
    BY <1>1, <2>1
  <2>2. CASE seen.r.state \in {"READ", "READ_POST"}
    <3>1. PICK y \in connection_handle_read_state(seen.r) : x = [seen EXCEPT !.r = y]
      BY <1>3, <2>2
    <3>2. seen.r \in ConRec /\ FrameOK(seen) /\ RequestOK(seen.r, seen.h)
      BY <1>1 DEF Stays, FrameOK, FrameType
    <3>3. /\ RequestOK(y, seen.h) /\ y.state \notin {"CONNECT", "REQUEST_START"} /\ y \in ConRec
          /\ y.fd = seen.r.fd /\ y.fde_ndx = seen.r.fde_ndx
      BY <2>2, <3>2, ReadStateRequest
    <3>4. Stays(x, seen)
      BY <3>1, <3>2, <3>3, RecordStays
    <3> QED
      BY <1>1, <3>4, StaysTransitive
  <2> QED
    BY <1>3, <2>1, <2>2
<1> HIDE DEF read
<1>4. ASSUME NEW x \in read, NEW y \in TryWrite(x)
      PROVE  Stays(y, g)
  <2>1. Stays(x, g)
    BY <1>3
  <2>2. Stays(y, x)
    BY <2>1, WriteRequest DEF Stays
  <2> QED
    BY <2>1, <2>2, StaysTransitive
<1>5. ASSUME NEW y, Stays(y, g), NEW z \in FlushClosing(y)
      PROVE  Stays(z, g)
  <2> DEFINE x == [y.r EXCEPT !.close_idle = CloseCap]
  <2>1. y.r \in ConRec /\ FrameOK(y)
    BY <1>5 DEF Stays, FrameOK, FrameType
  <2>2. /\ x \in ConRec /\ SameRequest(x, y.r) /\ x.state = y.r.state
        /\ x.write_queue = y.r.write_queue /\ x.file_finished = y.r.file_finished
        /\ x.is_writable = y.r.is_writable
    BY <2>1, RangeFacts DEF ConRec, SameRequest
  <2>3. z = y \/ z = [y EXCEPT !.r = x]
    BY <1>5, <2>1 DEF FlushClosing, FrameOK, FrameType
  <2> HIDE DEF x
  <2>4. RequestOK(x, y.h)
    BY <1>5, <2>2, RequestStays DEF Stays
  <2>5. Stays([y EXCEPT !.r = x], y)
    BY <1>5, <2>1, <2>2, <2>4, RecordStays DEF Stays, SameRequest
  <2> QED
    BY <1>5, <2>3, <2>5, StaysTransitive
<1>6. ASSUME NEW f \in connection_handle_fdevent(g, revents)
      PROVE  Stays(f, g)
  <2>1. PICK x \in read : \E y \in TryWrite(x) : f \in FlushClosing(y)
    BY <1>2, <1>6
  <2> QED
    BY <1>4, <1>5, <2>1
<1> QED
  BY <1>6

\* The turns of the machine that only change the connection.
LEMMA TurnRequests ==
  ASSUME NEW r \in ConRec, NEW h, RequestOK(r, h)
  PROVE  /\ r.state = "REQUEST_START" =>
              RequestOK(StartRequest(r), h) /\ StartRequest(r).state = "READ"
         /\ r.state = "REQUEST_END" =>
              \A x \in http_request_parse(r) :
                /\ RequestOK(x, h) /\ x.state \notin {"CONNECT", "REQUEST_START"}
                /\ x.fd = r.fd /\ x.fde_ndx = r.fde_ndx
         /\ r.state = "RESPONSE_START" =>
              \A x \in connection_handle_write_prepare(r) :
                /\ RequestOK([x EXCEPT !.state = "WRITE"], h)
                /\ [x EXCEPT !.state = "WRITE"].state = "WRITE"
                /\ [x EXCEPT !.state = "WRITE"].fd = r.fd
                /\ [x EXCEPT !.state = "WRITE"].fde_ndx = r.fde_ndx
         /\ StartRequest(r).fd = r.fd /\ StartRequest(r).fde_ndx = r.fde_ndx
<1>1. StartRequest(r).fd = r.fd /\ StartRequest(r).fde_ndx = r.fde_ndx
  BY DEF StartRequest, ConRec
<1>2. ASSUME r.state = "REQUEST_START"
      PROVE  RequestOK(StartRequest(r), h) /\ StartRequest(r).state = "READ"
  <2> DEFINE x == StartRequest(r)
  <2>1. /\ x.state = "READ" /\ x.mode = r.mode /\ x.decided = r.decided
        /\ x.request_count = r.request_count + 1 /\ x.bad_version = r.bad_version
    BY DEF StartRequest, ConRec
  <2>2. r.request_count \in Nat
    BY DEF ConRec
  <2> HIDE DEF x
  <2>3. RequestOK(x, h)
    BY <1>2, <2>1, <2>2 DEF RequestOK, Idle, Fresh, Prepared
  <2> QED
    BY <2>1, <2>3 DEF x
<1>3. ASSUME r.state = "REQUEST_END", NEW x \in http_request_parse(r)
      PROVE  /\ RequestOK(x, h) /\ x.state \notin {"CONNECT", "REQUEST_START"}
             /\ x.fd = r.fd /\ x.fde_ndx = r.fde_ndx
  <2>1. /\ x.fd = r.fd /\ x.fde_ndx = r.fde_ndx /\ x.mode = r.mode
        /\ x.request_count = r.request_count
        /\ x.state \in {"HANDLE_REQUEST", "READ_POST"}
        /\ \/ x.decided = r.decided /\ x.bad_version = r.bad_version
           \/ /\ x.state = "HANDLE_REQUEST" /\ x.keep_alive = FALSE
              /\ x.decided /\ x.bad_version = r.bad_version
           \/ x.state = "HANDLE_REQUEST" /\ x.decided /\ x.bad_version
    <3>1. \/ x = [r EXCEPT !.state = "HANDLE_REQUEST", !.decided = TRUE, !.keep_alive = FALSE]
          \/ x = [r EXCEPT !.state = "HANDLE_REQUEST", !.decided = TRUE, !.bad_version = TRUE]
          \/ \E keep \in BOOLEAN :
               x = [r EXCEPT !.state = "HANDLE_REQUEST", !.keep_alive = keep]
          \/ \E keep \in BOOLEAN :
               x = [r EXCEPT !.state = "READ_POST", !.keep_alive = keep]
      BY <1>3 DEF http_request_parse, UnknownVersion
    <3> QED
      BY ZenonT(60), <3>1 DEF ConRec
  <2> QED
    BY <1>3, <2>1 DEF RequestOK, Idle, Fresh, Prepared
<1>4. ASSUME r.state = "RESPONSE_START", NEW x \in connection_handle_write_prepare(r)
      PROVE  /\ RequestOK([x EXCEPT !.state = "WRITE"], h)
             /\ [x EXCEPT !.state = "WRITE"].state = "WRITE"
             /\ [x EXCEPT !.state = "WRITE"].fd = r.fd
             /\ [x EXCEPT !.state = "WRITE"].fde_ndx = r.fde_ndx
  <2> DEFINE ready == [r EXCEPT !.write_queue = TRUE]
             whole == [ready EXCEPT !.file_finished = TRUE]
             next == [x EXCEPT !.state = "WRITE"]
  <2>1. \/ x = whole \/ x = ready
        \/ x = [whole EXCEPT !.keep_alive = FALSE]
        \/ x = [ready EXCEPT !.keep_alive = FALSE]
    BY <1>4 DEF connection_handle_write_prepare
  <2>2. /\ x \in ConRec /\ x.fd = r.fd /\ x.fde_ndx = r.fde_ndx /\ x.mode = r.mode
        /\ x.request_count = r.request_count /\ x.decided = r.decided
        /\ x.bad_version = r.bad_version /\ (x.keep_alive => r.keep_alive)
    <3>1. x \in ConRec
      BY <1>4, WritePrepareOK
    <3> QED
      BY ZenonT(30), <2>1, <3>1 DEF ConRec
  <2>3. /\ next.state = "WRITE" /\ next.fd = r.fd /\ next.fde_ndx = r.fde_ndx
        /\ next.mode = r.mode /\ next.request_count = r.request_count
        /\ next.decided = r.decided /\ (next.keep_alive => r.keep_alive)
        /\ next.bad_version = r.bad_version
    BY <2>2 DEF ConRec
  <2> HIDE DEF next
  <2>4. RequestOK(next, h)
    BY <1>4, <2>3 DEF RequestOK, Idle, Fresh, Prepared
  <2> QED
    BY <2>3, <2>4 DEF next
<1> QED
  BY <1>1, <1>2, <1>3, <1>4

-----------------------------------------------------------------------------
\* Closing and resetting.

\* connection_del frees one slot: nobody else leaves the pool.
LEMMA DelFacts ==
  ASSUME NEW p, PoolOK(p), NEW c \in Conn, p.ndx[c] # -1
  PROVE  /\ connection_del(p, c).ndx[c] = -1
         /\ \A d \in Conn \ {c} : connection_del(p, c).ndx[d] = -1 <=> p.ndx[d] = -1
         /\ connection_del(p, c).used = p.used - 1 /\ p.used \in Nat
<1> DEFINE at == p.ndx[c]
           last == p.used - 1
           moved == p.ptr[last]
           ptr == [p.ptr EXCEPT ![at] = moved, ![last] = c]
           ndx == [p.ndx EXCEPT ![moved] = at, ![c] = -1]
<1>1. /\ p.ptr \in [Conn -> Conn] /\ p.ndx \in [Conn -> Conn \cup {-1}]
      /\ p.used \in 0 .. max_conns
  BY DEF PoolOK, PoolType
<1>2. at \in Conn /\ p.ptr[at] = c /\ at # -1
  BY <1>1, ConstantFacts DEF PoolOK
<1>3. at < p.used
  BY <1>2 DEF PoolOK
<1>4. last \in Conn
  <2> DEFINE u == p.used
  <2>1. u \in 0 .. max_conns /\ at < u /\ last = u - 1
    BY <1>1, <1>3
  <2> HIDE DEF at, last, u
  <2>2. at \in Nat
    BY <1>2, ConstantFacts
  <2> QED
    BY <2>1, <2>2, ServerAssumption DEF Conn
<1>5. moved \in Conn /\ p.ndx[moved] = last
  BY <1>1, <1>4 DEF PoolOK
<1>6. connection_del(p, c) = [ptr |-> ptr, used |-> last, ndx |-> ndx]
  BY DEF connection_del
<1>7. connection_del(p, c).ndx = ndx /\ connection_del(p, c).used = p.used - 1
  <2> HIDE DEF ptr, ndx
  <2> QED
    BY <1>6
<1>8. \A d \in Conn : ndx[d] = IF d = c THEN -1 ELSE IF d = moved THEN at ELSE p.ndx[d]
  BY <1>1, <1>2, <1>5
<1>9. last # -1
  BY <1>4, ConstantFacts
<1> HIDE DEF ndx, moved, at, last
<1>10. p.used \in Nat
  BY <1>1
<1> QED
  BY <1>2, <1>5, <1>7, <1>8, <1>9, <1>10

\* connection_close (connections.c:111): a connection of the pool gives up its
\* descriptor and its slot.
LEMMA CloseOwn ==
  ASSUME TablesInv, NEW c \in Conn, NEW g, Good(g), Holds(c, g), g.conns.ndx[c] # -1
  PROVE  LET f == connection_close(c, g)
         IN /\ Holds(c, f) /\ f.h = g.h /\ f.conns.ndx[c] = -1
            /\ f.conns.used <= g.conns.used
            /\ f.r.fd = g.r.fd /\ f.r.state = "CONNECT" /\ f.r.mode = g.r.mode
            /\ f.r.decided = g.r.decided /\ f.r.keep_alive = g.r.keep_alive
            /\ f.r.request_count = g.r.request_count /\ f.r.bad_version = g.r.bad_version
<1> DEFINE closed == CloseFd(g, g.r.fde_ndx, g.r.fd)
           p == connection_del(g.conns, c)
           r == [g.r EXCEPT !.fde_ndx = NotArmed, !.state = "CONNECT"]
           f == connection_close(c, g)
<1>1. FrameOK(g) /\ g \in FrameType
  BY DEF Good, FrameOK
<1>2. /\ closed.ev = CloseEv(g.ev, g.r.fde_ndx, g.r.fd) /\ closed.open = g.open \ {g.r.fd}
      /\ closed.cur_fds = g.cur_fds - 1 /\ closed.conns = g.conns /\ closed.r = g.r
      /\ closed.h = g.h
  BY <1>1 DEF FrameType, CloseFd, CloseEv
<1>3. closed \in FrameType
  <2>1. g.r.fd \in AnyFd
    BY <1>1, ConstantFacts DEF FrameType, ConRec
  <2> QED
    BY <1>1, <2>1, CloseFdOK
<1>4. f = [closed EXCEPT !.conns = p, !.r = r]
  BY <1>2 DEF connection_close
<1> HIDE DEF closed
<1>5. /\ p.ndx[c] = -1 /\ \A d \in Conn \ {c} : p.ndx[d] = -1 <=> g.conns.ndx[d] = -1
      /\ p.used = g.conns.used - 1 /\ g.conns.used \in Nat
  BY DelFacts DEF Good
<1>6. /\ r.fd = g.r.fd /\ r.fde_ndx = NotArmed /\ r.state = "CONNECT" /\ r.mode = g.r.mode
      /\ r.decided = g.r.decided /\ r.keep_alive = g.r.keep_alive
      /\ r.request_count = g.r.request_count /\ r.bad_version = g.r.bad_version
  BY <1>1 DEF FrameType, ConRec
<1> HIDE DEF p, r, f
<1>7. /\ f.ev = closed.ev /\ f.open = closed.open /\ f.cur_fds = closed.cur_fds
      /\ f.conns = p /\ f.r = r /\ f.h = closed.h
  BY <1>3, <1>4 DEF FrameType
<1>8. Holds(c, f)
  BY <1>1, <1>2, <1>5, <1>6, <1>7, HoldsHangUp
<1>9. f.conns.used <= g.conns.used
  BY <1>5, <1>7
<1> QED
  BY <1>2, <1>5, <1>6, <1>7, <1>8, <1>9 DEF f

\* connection_reset (connections.c:739): nothing of the last request is left.
LEMMA ResetOwn ==
  ASSUME TablesInv, NEW c \in Conn, NEW g, FrameOK(g), Holds(c, g),
         g.h.state = "NULL" => g.h = NoCtx
  PROVE  LET f == connection_reset(g)
         IN /\ FrameOK(f) /\ Holds(c, f) /\ f.h = NoCtx /\ f.conns = g.conns
            /\ f.r.fd = g.r.fd /\ f.r.fde_ndx = g.r.fde_ndx /\ f.r.state = g.r.state
            /\ f.r.keep_alive = g.r.keep_alive /\ f.r.request_count = g.r.request_count
            /\ f.r.mode = "DIRECT" /\ f.r.decided = FALSE /\ f.r.write_queue = FALSE
            /\ f.r.file_finished = FALSE /\ f.r.is_writable = TRUE
            /\ f.r.bad_version = FALSE
<1> DEFINE x == fcgi_connection_close(g)
           r == [x.r EXCEPT !.is_readable = TRUE, !.is_writable = TRUE,
                            !.decided = FALSE, !.bad_version = FALSE,
                            !.file_finished = FALSE, !.file_started = FALSE,
                            !.mode = "DIRECT", !.write_queue = FALSE]
           f == connection_reset(g)
<1>1. Holds(c, x) /\ x.r = g.r /\ x.h = NoCtx /\ x.conns = g.conns
  BY FcgiCloseOwn
<1>2. FrameOK(x)
  BY FcgiCloseOK DEF Keeps
<1>3. f = [x EXCEPT !.r = r]
  BY DEF connection_reset
<1>4. FrameOK(f)
  BY ResetOK DEF Keeps
<1> HIDE DEF x
<1>5. x.r \in ConRec
  BY <1>2 DEF FrameOK, FrameType
<1>6. /\ r.fd = x.r.fd /\ r.fde_ndx = x.r.fde_ndx /\ r.state = x.r.state
      /\ r.keep_alive = x.r.keep_alive /\ r.request_count = x.r.request_count
      /\ r.mode = "DIRECT" /\ r.decided = FALSE /\ r.write_queue = FALSE
      /\ r.file_finished = FALSE /\ r.is_writable = TRUE /\ r.bad_version = FALSE
  BY <1>5 DEF ConRec
<1> HIDE DEF r, f
<1>7. /\ f.r = r /\ f.h = x.h /\ f.ev = x.ev /\ f.open = x.open /\ f.cur_fds = x.cur_fds
      /\ f.conns = x.conns
  BY <1>2, <1>3 DEF FrameOK, FrameType
<1>8. SameFds(f, x)
  BY <1>6, <1>7 DEF SameFds
<1>9. Holds(c, f)
  BY <1>1, <1>8, HoldsSame
<1> QED
  BY <1>1, <1>4, <1>6, <1>7, <1>9 DEF f

-----------------------------------------------------------------------------
\* Requests that a backend handles.

\* A handler for connection c has turned frame g into f: the descriptors have
\* their owners, the request is in order, the connection stays in the pool.
Follows(c, f, g) ==
  /\ FrameOK(f) /\ f.conns = g.conns /\ Holds(c, f) /\ f.r.fd = g.r.fd
  /\ RequestOK(f.r, f.h) /\ f.r.state # "CONNECT"
  /\ f.r.state = "REQUEST_START" => g.r.state = "REQUEST_START"
  /\ Moves(f, g)

\* A frame that differs in nothing that is held follows.
LEMMA StaysFollows ==
  ASSUME NEW c \in Conn, NEW f, NEW g, Holds(c, g), Stays(f, g)
  PROVE  Follows(c, f, g)
BY HoldsSame DEF Stays, Follows, SameFds, Moves

\* Follows after Stays.
LEMMA FollowsStays ==
  ASSUME NEW c \in Conn, NEW f, NEW x, NEW g, Follows(c, f, x), Stays(x, g)
  PROVE  Follows(c, f, g)
BY DEF Stays, Follows, SameFds, Moves

\* No context and a context in order.
LEMMA NoCtxOK == CtxOK(NoCtx) /\ NoCtx.fd = -1 /\ NoCtx.state = "NULL"
BY DEF CtxOK, NoCtx

\* A request without its context.
LEMMA CloseFollows ==
  ASSUME TablesInv, NEW c \in Conn, NEW g, FrameOK(g), Holds(c, g), RequestOK(g.r, g.h),
         g.r.state # "CONNECT"
  PROVE  LET f == joblist_append(fcgi_connection_close(g))
         IN Follows(c, f, g) /\ f.h = NoCtx
<1> DEFINE x == fcgi_connection_close(g)
<1>1. Holds(c, x) /\ x.r = g.r /\ x.h = NoCtx /\ x.conns = g.conns
  BY FcgiCloseOwn DEF RequestOK, CtxOK
<1>2. FrameOK(x)
  BY FcgiCloseOK DEF Keeps
<1> HIDE DEF x
<1>3. RequestOK(x.r, x.h)
  BY <1>1, NoCtxOK DEF RequestOK
<1>4. Stays(joblist_append(x), x)
  BY <1>1, <1>2, <1>3, JobStays
<1>5. Follows(c, x, g)
  BY <1>1, <1>2, <1>3, NoCtxOK DEF Follows, Moves
<1>6. Follows(c, joblist_append(x), x) /\ joblist_append(x).h = NoCtx
  BY <1>1, <1>4, StaysFollows DEF Stays
<1>7. Follows(c, joblist_append(x), g)
  BY <1>1, <1>5, <1>6, NoCtxOK DEF Follows, Moves
<1> QED
  BY <1>6, <1>7 DEF x

\* A request that is given back to the server.
LEMMA GivenUpRequest ==
  ASSUME NEW r \in ConRec, NEW h, RequestOK(r, h), r.mode = "FASTCGI"
  PROVE  /\ RequestOK(GivenUp(r), NoCtx) /\ GivenUp(r).state = r.state
         /\ GivenUp(r).fd = r.fd /\ GivenUp(r).fde_ndx = r.fde_ndx
         /\ GivenUp(r).keep_alive = r.keep_alive
         /\ GivenUp(r).request_count = r.request_count
         /\ GivenUp(r).bad_version = r.bad_version
         /\ GivenUp(r) \in ConRec
<1> DEFINE x == GivenUp(r)
<1>1. x \in ConRec
  BY ZenonT(60) DEF GivenUp, ConRec
<1>2. /\ x.state = r.state /\ x.fd = r.fd /\ x.fde_ndx = r.fde_ndx
      /\ x.keep_alive = r.keep_alive /\ x.request_count = r.request_count
      /\ x.mode = "DIRECT" /\ x.decided /\ x.bad_version = r.bad_version
  BY DEF GivenUp, ConRec
<1> HIDE DEF x
<1>3. RequestOK(x, NoCtx)
  BY <1>2, NoCtxOK DEF RequestOK, Prepared, Idle, Fresh
<1> QED
  BY <1>1, <1>2, <1>3 DEF x

\* A request of mod_fastcgi that goes on.
Backed(f, g) == Stays(f, g) /\ f.r.mode = "FASTCGI"

\* What the parts of a response do to it.
LEMMA ResponseParts ==
  ASSUME NEW g, NEW f, Backed(f, g)
  PROVE  /\ Backed(FcgiHeader(f), g) /\ Backed(FcgiContent(f), g)
         /\ Backed(FcgiEndRequest(f), g)
<1>1. ASSUME NEW y, Backed(y, g), NEW x \in ConRec, SameRequest(x, y.r), x.state = y.r.state
      PROVE  Backed([y EXCEPT !.r = x], g)
  <2>1. y.r.state # "REQUEST_START" /\ y.r.state # "CONNECT"
    BY <1>1 DEF Backed, Stays, RequestOK, Idle
  <2>2. RequestOK(x, y.h)
    BY <1>1, <2>1, RequestStays DEF Backed, Stays
  <2>3. Stays([y EXCEPT !.r = x], y) /\ [y EXCEPT !.r = x].r = x
    BY <1>1, <2>1, <2>2, RecordStays DEF Backed, Stays, SameRequest
  <2> QED
    BY <1>1, <2>3, StaysTransitive DEF Backed, SameRequest
<1>2. ASSUME NEW y, Backed(y, g)
      PROVE  Backed(joblist_append(y), g)
  <2>1. Stays(joblist_append(y), y) /\ joblist_append(y).r = y.r
    BY <1>2, JobStays DEF Backed, Stays
  <2> QED
    BY <1>2, <2>1, StaysTransitive DEF Backed
<1>3. ASSUME NEW y, Backed(y, g)
      PROVE  y.r \in ConRec /\ y \in FrameType
  BY <1>3 DEF Backed, Stays, FrameOK, FrameType
<1>4. Backed(FcgiHeader(f), g)
  <2> DEFINE x == [f.r EXCEPT !.file_started = TRUE]
  <2>1. x \in ConRec /\ SameRequest(x, f.r) /\ x.state = f.r.state
    BY <1>3 DEF ConRec, SameRequest
  <2>2. FcgiHeader(f) = [f EXCEPT !.r = x]
    BY <1>3 DEF FcgiHeader, FrameType
  <2> HIDE DEF x
  <2> QED
    BY <1>1, <2>1, <2>2
<1>5. Backed(FcgiContent(f), g)
  <2> DEFINE y == FcgiHeader(f)
             x == [y.r EXCEPT !.write_queue = TRUE]
  <2> HIDE DEF y
  <2>1. y.r \in ConRec /\ y \in FrameType
    BY <1>3, <1>4 DEF y
  <2>2. x \in ConRec /\ SameRequest(x, y.r) /\ x.state = y.r.state
    BY <2>1 DEF ConRec, SameRequest
  <2>3. FcgiContent(f) = joblist_append([y EXCEPT !.r = x])
    BY <2>1 DEF FcgiContent, FrameType, y
  <2> HIDE DEF x
  <2>4. Backed([y EXCEPT !.r = x], g)
    BY <1>1, <1>4, <2>2 DEF y
  <2> QED
    BY <1>2, <2>3, <2>4
<1>6. Backed(FcgiEndRequest(f), g)
  <2> DEFINE x == [f.r EXCEPT !.file_finished = TRUE, !.write_queue = TRUE]
  <2>1. x \in ConRec /\ SameRequest(x, f.r) /\ x.state = f.r.state
    BY ZenonT(30), <1>3 DEF ConRec, SameRequest
  <2>2. FcgiEndRequest(f) = joblist_append([f EXCEPT !.r = x])
    BY <1>3 DEF FcgiEndRequest, FrameType
  <2> HIDE DEF x
  <2>3. Backed([f EXCEPT !.r = x], g)
    BY <1>1, <2>1
  <2> QED
    BY <1>2, <2>2, <2>3
<1> QED
  BY <1>4, <1>5, <1>6

\* fcgi_demux_response: the request goes on, or it is rid of its context.
LEMMA DemuxOwn ==
  ASSUME TablesInv, NEW c \in Conn, NEW g, FrameOK(g), Holds(c, g), RequestOK(g.r, g.h),
         g.r.mode = "FASTCGI"
  PROVE  \A f \in fcgi_demux_response(g) :
           Backed(f, g) \/ (Follows(c, f, g) /\ f.h = NoCtx)
<1>0. g.r.state # "CONNECT"
  BY DEF RequestOK, Idle
<1>1. Backed(g, g)
  BY <1>0 DEF Backed, Stays, SameFds
<1>2. Backed(FcgiHeader(g), g) /\ Backed(FcgiContent(g), g)
  BY <1>1, ResponseParts
<1>3. ASSUME NEW x, Backed(x, g)
      PROVE  LET f == joblist_append(fcgi_connection_close(FcgiEndRequest(x)))
             IN Follows(c, f, g) /\ f.h = NoCtx
  <2> DEFINE y == FcgiEndRequest(x)
  <2>1. Backed(y, g)
    BY <1>3, ResponseParts
  <2> HIDE DEF y
  <2>2. Holds(c, y)
    BY <2>1, HoldsSame DEF Backed, Stays
  <2>3. /\ Follows(c, joblist_append(fcgi_connection_close(y)), y)
        /\ joblist_append(fcgi_connection_close(y)).h = NoCtx
    BY <2>1, <2>2, CloseFollows DEF Backed, Stays
  <2>4. Follows(c, joblist_append(fcgi_connection_close(y)), g)
    BY <2>1, <2>3, FollowsStays DEF Backed
  <2> QED
    BY <2>3, <2>4 DEF y
<1>4. Follows(c, FcgiReadError(g), g) /\ FcgiReadError(g).h = NoCtx
  <2>1. CASE g.r.file_started
    <3> DEFINE x == fcgi_connection_close(g)
               y == connection_set_state(x, "ERROR")
    <3>1. Holds(c, x) /\ x.r = g.r /\ x.h = NoCtx /\ x.conns = g.conns
      BY FcgiCloseOwn DEF RequestOK, CtxOK
    <3>2. FrameOK(x)
      BY FcgiCloseOK DEF Keeps
    <3>3. FcgiReadError(g) = joblist_append(y)
      BY <2>1 DEF FcgiReadError
    <3> HIDE DEF x
    <3>4. RequestOK(x.r, x.h)
      BY <3>1, NoCtxOK DEF RequestOK
    <3>5. Stays(y, x)
      BY <3>2, <3>4, ErrorStays
    <3> HIDE DEF y
    <3>6. Stays(joblist_append(y), y)
      BY <3>5, JobStays DEF Stays
    <3>7. Follows(c, joblist_append(y), x) /\ joblist_append(y).h = NoCtx
      BY <3>1, <3>5, <3>6, StaysTransitive, StaysFollows DEF Stays
    <3>8. Follows(c, joblist_append(y), g)
      BY <3>1, <3>7, NoCtxOK DEF Follows, Moves
    <3> QED
      BY <3>3, <3>7, <3>8
  <2>2. CASE ~g.r.file_started
    <3> DEFINE x == FcgiGiveUp(g)
               r == [x.r EXCEPT !.state = "HANDLE_REQUEST"]
               y == [x EXCEPT !.r = r]
    <3>1. Holds(c, x) /\ x.r = GivenUp(g.r) /\ x.h = NoCtx
      BY FcgiGiveUpOwn DEF RequestOK, CtxOK
    <3>2. FrameOK(x) /\ x.conns = g.conns
      BY FcgiGiveUpOK DEF Keeps
    <3>3. FcgiReadError(g) = joblist_append(y)
      BY <2>2, <3>2 DEF FcgiReadError, connection_set_state, FrameOK, FrameType
    <3>4. /\ RequestOK(x.r, x.h) /\ x.r \in ConRec /\ x.r.fd = g.r.fd
          /\ x.r.state = g.r.state
      <4>1. g.r \in ConRec
        BY DEF FrameOK, FrameType
      <4> HIDE DEF x
      <4> QED
        BY <3>1, <4>1, GivenUpRequest
    <3> HIDE DEF x
    <3>5. r \in ConRec /\ SameRequest(r, x.r) /\ r.state = "HANDLE_REQUEST"
      BY <3>4 DEF ConRec, ConStates, SameRequest
    <3> HIDE DEF r
    <3>6. RequestOK(r, x.h)
      BY <3>4, <3>5, RequestStays
    <3>7. Stays(y, x)
      BY <3>2, <3>5, <3>6, RecordStays DEF SameRequest
    <3> HIDE DEF y
    <3>8. Stays(joblist_append(y), y)
      BY <3>7, JobStays DEF Stays
    <3>9. Follows(c, joblist_append(y), x) /\ joblist_append(y).h = NoCtx
      BY <3>1, <3>7, <3>8, StaysTransitive, StaysFollows DEF Stays
    <3>10. Follows(c, joblist_append(y), g)
      BY <3>1, <3>2, <3>4, <3>9, NoCtxOK DEF Follows, Moves
    <3> QED
      BY <3>3, <3>9, <3>10
  <2> QED
    BY <2>1, <2>2
<1>5. ASSUME NEW f \in fcgi_demux_response(g)
      PROVE  Backed(f, g) \/ (Follows(c, f, g) /\ f.h = NoCtx)
  <2>1. \/ f = g \/ f = FcgiHeader(g) \/ f = FcgiContent(g) \/ f = FcgiReadError(g)
        \/ \E x \in {g, FcgiHeader(g), FcgiContent(g)} :
             f = joblist_append(fcgi_connection_close(FcgiEndRequest(x)))
    BY <1>5 DEF fcgi_demux_response
  <2> QED
    BY <1>1, <1>2, <1>3, <1>4, <2>1
<1> QED
  BY <1>5

\* What mod_fastcgi_handle_subrequest leaves.
LEMMA SubrequestFollows ==
  ASSUME TablesInv, NEW c \in Conn, NEW g, FrameOK(g), Holds(c, g), RequestOK(g.r, g.h),
         g.r.mode = "FASTCGI", g.h.state # "NULL", NEW o \in mod_fastcgi_handle_subrequest(c, g)
  PROVE  /\ Follows(c, o.g, g) /\ o.g.r.state = g.r.state
         /\ o.g.r.keep_alive = g.r.keep_alive /\ o.g.r.request_count = g.r.request_count
         /\ o.g.r.bad_version = g.r.bad_version
<1>1. FrameOK(o.g) /\ o.g.conns = g.conns
  BY SubrequestOK DEF AllKeep, Keeps
<1>2. SubHold(c, o.g, g)
  BY SubrequestOwn DEF RequestOK
<1>3. g.r \in ConRec /\ g.r.state # "CONNECT"
  BY DEF FrameOK, FrameType, RequestOK, Idle
<1>4. CASE o.g.r = g.r /\ CtxOK(o.g.h)
  <2>1. RequestOK(o.g.r, o.g.h)
    BY <1>4 DEF RequestOK
  <2> QED
    BY <1>1, <1>2, <1>3, <1>4, <2>1 DEF Follows, SubHold
<1>5. CASE o.g.r = GivenUp(g.r) /\ o.g.h = NoCtx
  <2>1. /\ RequestOK(o.g.r, o.g.h) /\ o.g.r.state = g.r.state /\ o.g.r.fd = g.r.fd
        /\ o.g.r.keep_alive = g.r.keep_alive /\ o.g.r.request_count = g.r.request_count
        /\ o.g.r.bad_version = g.r.bad_version
    BY <1>3, <1>5, GivenUpRequest
  <2> QED
    BY <1>1, <1>2, <1>3, <2>1 DEF Follows, SubHold
<1> QED
  BY <1>2, <1>4, <1>5 DEF SubHold

\* fcgi_handle_fdevent (mod_fastcgi.c:3223).
LEMMA BackendEventOwn ==
  ASSUME TablesInv, NEW c \in Conn, NEW g, FrameOK(g), Holds(c, g), RequestOK(g.r, g.h),
         g.r.mode = "FASTCGI", NEW revents
  PROVE  \A f \in fcgi_handle_fdevent(c, g, revents) : Follows(c, f, g)
<1> DEFINE sent(x) == IF "OUT" \in revents /\ x.h.state \in {"CONNECT_DELAYED", "WRITE"}
                      THEN {o.g : o \in mod_fastcgi_handle_subrequest(c, x)}
                      ELSE IF "ERR" \in revents /\ x.h.state # "NULL" THEN {FcgiError(x)}
                      ELSE {x}
           read == IF "IN" \in revents /\ g.h.state = "READ"
                   THEN fcgi_demux_response(g) ELSE {g}
<1>1. fcgi_handle_fdevent(c, g, revents) = UNION {sent(x) : x \in read}
  BY DEF fcgi_handle_fdevent
<1>2. ASSUME NEW x \in read
      PROVE  Backed(x, g) \/ (Follows(c, x, g) /\ x.h = NoCtx)
  <2>1. Backed(g, g)
    BY DEF Backed, Stays, SameFds, RequestOK, Idle
  <2> QED
    BY <1>2, <2>1, DemuxOwn
<1>3. ASSUME NEW x, Backed(x, g), NEW f \in sent(x)
      PROVE  Follows(c, f, x)
  <2>1. FrameOK(x) /\ RequestOK(x.r, x.h) /\ x.r.mode = "FASTCGI" /\ x.r.state # "CONNECT"
    BY <1>3 DEF Backed, Stays
  <2>2. Holds(c, x)
    BY <1>3, HoldsSame DEF Backed, Stays
  <2>3. CASE "OUT" \in revents /\ x.h.state \in {"CONNECT_DELAYED", "WRITE"}
    <3>1. PICK o \in mod_fastcgi_handle_subrequest(c, x) : f = o.g
      BY <1>3, <2>3
    <3> QED
      BY <2>1, <2>2, <2>3, <3>1, SubrequestFollows
  <2>4. Follows(c, FcgiError(x), x)
    <3> DEFINE y == connection_set_state(x, "ERROR")
    <3>1. Stays(y, x)
      BY <2>1, ErrorStays
    <3>2. FcgiError(x) = joblist_append(fcgi_connection_close(y))
      BY DEF FcgiError
    <3> HIDE DEF y
    <3>3. Holds(c, y)
      BY <2>2, <3>1, HoldsSame DEF Stays
    <3>4. Follows(c, joblist_append(fcgi_connection_close(y)), y)
      BY <3>1, <3>3, CloseFollows DEF Stays
    <3> QED
      BY <3>1, <3>2, <3>4, FollowsStays
  <2>5. Follows(c, x, x)
    BY <2>1, <2>2 DEF Follows, Moves
  <2>6. f = FcgiError(x) \/ f = x \/ ("OUT" \in revents /\ x.h.state \in {"CONNECT_DELAYED", "WRITE"})
    BY <1>3
  <2> QED
    BY <2>3, <2>4, <2>5, <2>6
<1>4. ASSUME NEW x, x.h = NoCtx, NEW f \in sent(x)
      PROVE  f = x
  BY <1>4, NoCtxOK
<1> HIDE DEF sent, read
<1>5. ASSUME NEW f \in fcgi_handle_fdevent(c, g, revents)
      PROVE  Follows(c, f, g)
  <2>1. PICK x \in read : f \in sent(x)
    BY <1>1, <1>5
  <2>2. CASE Backed(x, g)
    BY <1>3, <2>1, <2>2, FollowsStays DEF Backed
  <2>3. CASE Follows(c, x, g) /\ x.h = NoCtx
    BY <1>4, <2>1, <2>3
  <2> QED
    BY <1>2, <2>2, <2>3
<1> QED
  BY <1>5

-----------------------------------------------------------------------------
\* What connections and backends wait for.

\* Frame f is g with other events.
Armed(c, f, g) ==
  /\ FrameOK(f) /\ f.conns = g.conns /\ Holds(c, f) /\ RequestOK(f.r, f.h)
  /\ f.r.fd = g.r.fd /\ f.r.state = g.r.state /\ f.r.request_count = g.r.request_count
  /\ f.h.fd = g.h.fd

\* The switch behind the loop of the state machine (connections.c:1725-1760).
LEMMA RequestEventsOwn ==
  ASSUME TablesInv, NEW c \in Conn, NEW g, FrameOK(g), Holds(c, g), RequestOK(g.r, g.h),
         g.r.state = "CONNECT" <=> g.conns.ndx[c] = -1
  PROVE  Armed(c, RequestEvents(g), g)
<1>1. g.r \in ConRec /\ g.ev \in EvType
  BY DEF FrameOK, FrameType
<1>2. g.conns.ndx[c] # -1 => g.r.fd \in Fd /\ g.r.fd \in AnyFd
  BY FrameFds, ConstantFacts DEF Holds, Own
<1>3. g.conns.ndx[c] = -1 => g.r.fde_ndx = NotArmed
  BY FrameFds DEF Holds, Own
<1>4. g.r.fde_ndx \in Int /\ (g.r.fde_ndx < 0 <=> g.r.fde_ndx = NotArmed)
  BY <1>1, IndexFacts DEF ConRec
<1>5. ASSUME NEW x \in ConRec, NEW e \in EvType,
             x.fd = g.r.fd, x.state = g.r.state, x.request_count = g.r.request_count,
             x.mode = g.r.mode, x.decided = g.r.decided, x.keep_alive = g.r.keep_alive,
             x.write_queue = g.r.write_queue, x.file_finished = g.r.file_finished,
             x.is_writable = g.r.is_writable, x.bad_version = g.r.bad_version,
             Holds(c, [g EXCEPT !.ev = e, !.r = x])
      PROVE  Armed(c, [g EXCEPT !.ev = e, !.r = x], g)
  <2> DEFINE f == [g EXCEPT !.ev = e, !.r = x]
  <2>1. f.r = x /\ f.h = g.h /\ f.conns = g.conns /\ FrameOK(f)
    BY <1>5 DEF FrameOK, FrameType
  <2>2. RequestOK(x, g.h)
    BY <1>5 DEF RequestOK, Prepared
  <2>3. Holds(c, f)
    BY <1>5
  <2> HIDE DEF f
  <2>4. Armed(c, f, g)
    BY <1>5, <2>1, <2>2, <2>3 DEF Armed
  <2> QED
    BY <2>4 DEF f
<1>6. ASSUME NEW what, g.conns.ndx[c] # -1
      PROVE  Armed(c, WaitFor(g, what), g)
  <2> DEFINE e == fdevent_event_add(g.ev, g.r.fd, what)
             x == [g.r EXCEPT !.fde_ndx = g.r.fd]
             f == [g EXCEPT !.ev = e, !.r = x]
  <2>1. WaitFor(g, what) = f
    BY DEF WaitFor, FrameOK, FrameType
  <2>2. e \in EvType
    BY <1>1, <1>2, <1>6, EvOps, ConstantFacts
  <2>3. Differs(e, g.ev, g.r.fd) /\ e.fdarray = g.ev.fdarray
    BY <1>1, <1>2, <1>6 DEF EvType, Differs, fdevent_event_add
  <2>4. /\ x \in ConRec /\ x.fd = g.r.fd /\ x.state = g.r.state
        /\ x.request_count = g.r.request_count /\ x.mode = g.r.mode
        /\ x.decided = g.r.decided /\ x.keep_alive = g.r.keep_alive
        /\ x.write_queue = g.r.write_queue /\ x.file_finished = g.r.file_finished
        /\ x.is_writable = g.r.is_writable /\ x.bad_version = g.r.bad_version
    BY <1>1, <1>2, <1>6 DEF ConRec
  <2>5. x.fde_ndx # NotArmed
    BY <1>1, <1>2, <1>6, ConstantFacts DEF ConRec, NotArmed
  <2> HIDE DEF e, x
  <2>6. /\ f.ev = e /\ f.open = g.open /\ f.cur_fds = g.cur_fds /\ f.conns = g.conns
        /\ f.r = x /\ f.h = g.h
    BY DEF FrameOK, FrameType
  <2> HIDE DEF f
  <2>7. Holds(c, f)
    BY <1>2, <1>6, <2>3, <2>4, <2>5, <2>6, HoldsWatch
  <2>8. Armed(c, [g EXCEPT !.ev = e, !.r = x], g)
    <3>1. Holds(c, [g EXCEPT !.ev = e, !.r = x])
      BY <2>7 DEF f
    <3> QED
      BY <1>5, <2>2, <2>4, <3>1
  <2> QED
    BY <2>1, <2>8 DEF f
<1>7. Armed(c, StopWaiting(g), g)
  <2> DEFINE e == fdevent_event_del(g.ev, g.r.fde_ndx, g.r.fd)
             x == [g.r EXCEPT !.fde_ndx = NotArmed]
             f == [g EXCEPT !.ev = e, !.r = x]
  <2>1. StopWaiting(g) = f
    BY DEF StopWaiting, FrameOK, FrameType
  <2>2. e \in EvType
    <3>1. g.r.fd \in AnyFd
      BY <1>1, ConstantFacts DEF ConRec
    <3> QED
      BY <1>1, <3>1 DEF EvType, fdevent_event_del
  <2>3. /\ x \in ConRec /\ x.fd = g.r.fd /\ x.state = g.r.state
        /\ x.request_count = g.r.request_count /\ x.mode = g.r.mode
        /\ x.decided = g.r.decided /\ x.keep_alive = g.r.keep_alive
        /\ x.write_queue = g.r.write_queue /\ x.file_finished = g.r.file_finished
        /\ x.is_writable = g.r.is_writable /\ x.bad_version = g.r.bad_version
        /\ x.fde_ndx = NotArmed
    BY <1>1 DEF ConRec
  <2>4. CASE g.conns.ndx[c] = -1
    <3>1. e = g.ev
      BY <1>3, <1>4, <2>4 DEF fdevent_event_del
    <3> HIDE DEF e, x
    <3>2. /\ f.ev = g.ev /\ f.open = g.open /\ f.cur_fds = g.cur_fds /\ f.conns = g.conns
          /\ f.r = x /\ f.h = g.h
      BY <3>1 DEF FrameOK, FrameType
    <3> HIDE DEF f
    <3>3. SameFds(f, g)
      BY <1>3, <2>3, <2>4, <3>2 DEF SameFds
    <3>4. Holds(c, f)
      BY <3>3, HoldsSame
    <3>5. Armed(c, [g EXCEPT !.ev = e, !.r = x], g)
      <4>1. Holds(c, [g EXCEPT !.ev = e, !.r = x])
        BY <3>4 DEF f
      <4> QED
        BY <1>5, <2>2, <2>3, <4>1
    <3> QED
      BY <2>1, <3>5 DEF f
  <2>5. CASE g.conns.ndx[c] # -1
    <3>1. /\ Differs(e, g.ev, g.r.fd) /\ e.fdarray = g.ev.fdarray
          /\ g.r.fde_ndx >= 0 => g.r.fd \notin e.rd \cup e.wr
          /\ g.r.fde_ndx < 0 => e = g.ev
      BY <1>1, <1>4 DEF EvType, Differs, fdevent_event_del
    <3>2. g.r.fde_ndx = NotArmed => g.r.fd \notin g.ev.rd \cup g.ev.wr
      BY <2>5, FrameFds DEF Holds, Own
    <3>3. g.r.fd \notin e.rd \cup e.wr
      BY <1>4, <3>1, <3>2
    <3> HIDE DEF e, x
    <3>4. /\ f.ev = e /\ f.open = g.open /\ f.cur_fds = g.cur_fds /\ f.conns = g.conns
          /\ f.r = x /\ f.h = g.h
      BY DEF FrameOK, FrameType
    <3> HIDE DEF f
    <3>5. Holds(c, f)
      BY <1>2, <2>3, <2>5, <3>1, <3>3, <3>4, HoldsWatch
    <3>6. Armed(c, [g EXCEPT !.ev = e, !.r = x], g)
      <4>1. Holds(c, [g EXCEPT !.ev = e, !.r = x])
        BY <3>5 DEF f
      <4> QED
        BY <1>5, <2>2, <2>3, <4>1
    <3> QED
      BY <2>1, <3>6 DEF f
  <2> QED
    BY <2>4, <2>5
<1> QED
  BY <1>6, <1>7 DEF RequestEvents

\* mod_fastcgi_handle_joblist (mod_fastcgi.c:3688).
LEMMA JoblistOwn ==
  ASSUME TablesInv, NEW c \in Conn, NEW g, FrameOK(g), Holds(c, g), RequestOK(g.r, g.h)
  PROVE  Armed(c, mod_fastcgi_handle_joblist(g), g)
<1>1. Armed(c, g, g)
  BY DEF Armed
<1>2. ASSUME NEW what \in {"IN", "OUT"}, g.h.fd # -1
      PROVE  Armed(c, FcgiWait(g, what), g)
  <2> DEFINE f == FcgiWait(g, what)
  <2>1. g.h.fd \in Fd /\ g.h \in CtxRec
    BY <1>2 DEF FrameOK, FrameType, CtxRec
  <2>2. Holds(c, f) /\ f.r = g.r /\ f.h = [g.h EXCEPT !.fde_ndx = g.h.fd]
    BY <2>1, FcgiWaitOwn
  <2>3. FrameOK(f) /\ f.conns = g.conns
    BY <2>1, FcgiWaitOK DEF Keeps
  <2> HIDE DEF f
  <2>4. f.h.fd = g.h.fd /\ f.h.state = g.h.state
    BY <2>1, <2>2 DEF CtxRec
  <2>5. g.h.state # "NULL" /\ g.r.mode # "DIRECT"
    BY <1>2, NoCtxOK DEF RequestOK, CtxOK
  <2>6. RequestOK(f.r, f.h)
    BY <2>2, <2>4, <2>5 DEF RequestOK, CtxOK
  <2>7. Armed(c, f, g)
    BY <2>2, <2>3, <2>4, <2>6 DEF Armed
  <2> QED
    BY <2>7 DEF f
<1> QED
  BY <1>1, <1>2 DEF mod_fastcgi_handle_joblist

-----------------------------------------------------------------------------
\* http_response_prepare.

\* What is known of keep_alive when a request r has been looked at.
Counted(r) ==
  /\ r.bad_version => r.decided
  /\ r.keep_alive => r.request_count # 0
  /\ r.keep_alive => r.request_count <= max_keep_alive_requests \/ r.bad_version

\* A frame from which the machine can go to RESPONSE_START, ERROR or back to
\* HANDLE_REQUEST: what has to be known of keep_alive is known.
Handled(c, f, g) ==
  /\ FrameOK(f) /\ f.conns = g.conns /\ Holds(c, f) /\ f.r.fd = g.r.fd
  /\ Moves(f, g) /\ CtxOK(f.h)
  /\ f.r.mode = "DIRECT" => f.h = NoCtx
  /\ Counted(f.r)

\* Wherever it goes, the request is in order.
LEMMA HandledFollows ==
  ASSUME NEW c \in Conn, NEW f, NEW g, Handled(c, f, g),
         NEW s \in {"RESPONSE_START", "ERROR", "HANDLE_REQUEST"}
  PROVE  Follows(c, connection_set_state(f, s), g)
<1> DEFINE x == [f.r EXCEPT !.state = s]
           y == connection_set_state(f, s)
<1>1. f.r \in ConRec
  BY DEF Handled, FrameOK, FrameType
<1>2. x \in ConRec /\ SameRequest(x, f.r) /\ x.state = s
  BY <1>1 DEF ConRec, ConStates, SameRequest
<1>3. y = [f EXCEPT !.r = x]
  BY DEF connection_set_state, Handled, FrameOK, FrameType
<1> HIDE DEF x
<1>4. RequestOK(x, f.h)
  BY <1>2 DEF Handled, Counted, SameRequest, RequestOK, Idle, Fresh
<1>5. Stays(y, f) /\ y.r.state = s
  BY <1>2, <1>3, <1>4, RecordStays DEF Handled, SameRequest
<1> HIDE DEF y
<1>6. Follows(c, y, f)
  BY <1>5, StaysFollows DEF Handled
<1>7. Moves(y, g)
  BY <1>5 DEF Stays, SameFds, Handled, Moves
<1>8. Follows(c, y, g)
  BY <1>5, <1>6, <1>7 DEF Follows, Handled
<1> QED
  BY <1>8 DEF y

\* http_response_prepare, and the state the machine goes to afterwards.
LEMMA PrepareOwn ==
  ASSUME TablesInv, NEW c \in Conn, NEW g, FrameOK(g), Holds(c, g), RequestOK(g.r, g.h),
         g.r.state = "HANDLE_REQUEST"
  PROVE  \A o \in http_response_prepare(c, g) : Follows(c, AfterPrepare(o), g)
<1>1. g.r \in ConRec /\ g.r.mode \in {"DIRECT", "FASTCGI"} /\ g.r.decided \in BOOLEAN
      /\ g.r.request_count \in Nat /\ max_keep_alive_requests \in Nat
  BY ServerAssumption DEF FrameOK, FrameType, ConRec
<1>2. Prepared(g.r) => Handled(c, g, g)
  BY DEF Handled, Counted, Moves, RequestOK
\* A frame with another record for the connection.
<1>3. ASSUME NEW f, Handled(c, f, g), NEW x \in ConRec, x.fd = f.r.fd,
             x.fde_ndx = f.r.fde_ndx, x.mode = f.r.mode, Counted(x)
      PROVE  Handled(c, [f EXCEPT !.r = x], g)
  <2> DEFINE y == [f EXCEPT !.r = x]
  <2>1. /\ y.r = x /\ y.h = f.h /\ y.ev = f.ev /\ y.open = f.open /\ y.cur_fds = f.cur_fds
        /\ y.conns = f.conns /\ FrameOK(y)
    BY <1>3 DEF Handled, FrameOK, FrameType
  <2> HIDE DEF y
  <2>2. SameFds(y, f)
    BY <1>3, <2>1 DEF SameFds
  <2>3. Holds(c, y)
    BY <1>3, <2>2, HoldsSame DEF Handled
  <2>4. Handled(c, y, g)
    BY <1>3, <2>1, <2>3 DEF Handled, Moves
  <2> QED
    BY <2>4 DEF y
<1> DEFINE counted == CountRequest(g)
<1>4. Handled(c, counted, g) /\ (g.r.mode = "DIRECT" => counted.h = NoCtx)
  <2>1. CASE g.r.request_count > max_keep_alive_requests
    <3> DEFINE x == [g.r EXCEPT !.keep_alive = FALSE]
               y == [g EXCEPT !.r = x]
    <3>1. counted = y
      BY <2>1 DEF CountRequest, FrameOK, FrameType
    <3>2. /\ x \in ConRec /\ x.fd = g.r.fd /\ x.fde_ndx = g.r.fde_ndx /\ x.mode = g.r.mode
          /\ x.decided = g.r.decided /\ x.bad_version = g.r.bad_version
          /\ x.keep_alive = FALSE
      BY <1>1 DEF ConRec
    <3> HIDE DEF x
    <3>3. /\ y.r = x /\ y.h = g.h /\ y.ev = g.ev /\ y.open = g.open /\ y.cur_fds = g.cur_fds
          /\ y.conns = g.conns /\ FrameOK(y)
      BY <3>2 DEF FrameOK, FrameType
    <3> HIDE DEF y
    <3>4. SameFds(y, g)
      BY <3>2, <3>3 DEF SameFds
    <3>5. Holds(c, y)
      BY <3>4, HoldsSame
    <3> QED
      BY <3>1, <3>2, <3>3, <3>5 DEF Handled, Counted, Moves, RequestOK
  <2>2. CASE ~(g.r.request_count > max_keep_alive_requests)
    <3>1. counted = g
      BY <2>2 DEF CountRequest
    <3> QED
      BY <1>1, <2>2, <3>1 DEF Handled, Counted, Moves, RequestOK
  <2> QED
    BY <2>1, <2>2
<1>5. counted.r.mode = g.r.mode /\ counted.r.bad_version = g.r.bad_version
  <2>1. /\ [g EXCEPT !.r.keep_alive = FALSE].r.mode = g.r.mode
        /\ [g EXCEPT !.r.keep_alive = FALSE].r.bad_version = g.r.bad_version
    BY DEF FrameOK, FrameType, ConRec
  <2> QED
    BY <2>1 DEF CountRequest
<1> DEFINE answer(d) == [counted EXCEPT !.r.decided = d, !.r.write_queue = ~d,
                                        !.r.file_finished = ~d]
           taken == [counted EXCEPT !.h = handler_ctx_init, !.r.mode = "FASTCGI"]
<1>6. NewRequest(c, g) =
        {Outcome(x, "FINISHED") : x \in {answer(d) : d \in BOOLEAN}}
        \cup {Outcome(counted, "ERROR")}
        \cup (IF fastcgi /\ ~g.r.file_started
              THEN mod_fastcgi_handle_subrequest(c, taken) ELSE {})
  BY DEF NewRequest
<1> HIDE DEF counted
<1>7. FrameOK(counted) /\ counted.r \in ConRec /\ counted.conns = g.conns
  BY <1>4 DEF Handled, FrameOK, FrameType
<1>8. ASSUME ~g.r.decided, NEW d \in BOOLEAN
      PROVE  Handled(c, answer(d), g)
  <2> DEFINE x == [counted.r EXCEPT !.decided = d, !.write_queue = ~d, !.file_finished = ~d]
  <2>1. x \in ConRec
    BY <1>7, ZenonT(60) DEF ConRec
  <2>2. /\ x.fd = counted.r.fd /\ x.fde_ndx = counted.r.fde_ndx /\ x.mode = counted.r.mode
        /\ x.request_count = counted.r.request_count /\ x.keep_alive = counted.r.keep_alive
        /\ x.bad_version = counted.r.bad_version
    BY <1>7 DEF ConRec
  <2>3. answer(d) = [counted EXCEPT !.r = x]
    BY <1>7 DEF FrameOK, FrameType
  <2> HIDE DEF x, answer
  <2>4. Counted(x)
    BY <1>4, <1>5, <1>8, <2>2 DEF Handled, Counted, RequestOK
  <2>5. Handled(c, [counted EXCEPT !.r = x], g)
    BY <1>3, <1>4, <2>1, <2>2, <2>4
  <2> QED
    BY <2>3, <2>5
<1>9. ASSUME g.r.mode = "DIRECT", ~g.r.decided, NEW o \in mod_fastcgi_handle_subrequest(c, taken)
      PROVE  Handled(c, o.g, g)
  <2> DEFINE x == [counted.r EXCEPT !.mode = "FASTCGI"]
  <2>1. taken = [counted EXCEPT !.h = handler_ctx_init, !.r = x]
    BY <1>7 DEF FrameOK, FrameType
  <2>2. /\ x \in ConRec /\ x.fd = counted.r.fd /\ x.fde_ndx = counted.r.fde_ndx
        /\ x.mode = "FASTCGI" /\ x.state = counted.r.state
        /\ x.request_count = counted.r.request_count /\ x.keep_alive = counted.r.keep_alive
        /\ x.decided = counted.r.decided /\ x.bad_version = counted.r.bad_version
    BY <1>7 DEF ConRec
  <2>3. handler_ctx_init.fd = -1 /\ handler_ctx_init.state = "INIT"
    BY DEF handler_ctx_init, NoCtx
  <2> HIDE DEF x, taken
  <2>4. /\ taken.r = x /\ taken.h = handler_ctx_init /\ taken.ev = counted.ev
        /\ taken.open = counted.open /\ taken.cur_fds = counted.cur_fds
        /\ taken.conns = counted.conns
    BY <1>7, <2>1 DEF FrameOK, FrameType
  <2>5. FrameOK(taken)
    BY <1>7, <2>1, <2>2, CtxFacts DEF FrameOK, FrameType
  <2>6. SameFds(taken, counted)
    BY <1>4, <1>9, <2>2, <2>3, <2>4, NoCtxOK DEF SameFds
  <2>7. Holds(c, taken)
    BY <1>4, <2>6, HoldsSame DEF Handled
  <2>8. counted.r.state = "HANDLE_REQUEST"
    <3>1. [g EXCEPT !.r.keep_alive = FALSE].r.state = g.r.state
      BY DEF FrameOK, FrameType, ConRec
    <3> QED
      BY <3>1 DEF CountRequest, counted
  <2>9. RequestOK(taken.r, taken.h)
    BY <1>4, <2>2, <2>3, <2>4, <2>8 DEF RequestOK, Handled, Counted, CtxOK, Idle, Fresh
  <2>10. /\ Follows(c, o.g, taken)
         /\ o.g.r.keep_alive = taken.r.keep_alive /\ o.g.r.request_count = taken.r.request_count
         /\ o.g.r.bad_version = taken.r.bad_version
    BY <1>9, <2>2, <2>3, <2>4, <2>5, <2>7, <2>9, SubrequestFollows
  <2>11. taken.open = g.open /\ g.h.fd = -1 /\ taken.h.fd = -1
    <3>1. [g EXCEPT !.r.keep_alive = FALSE].open = g.open
      BY DEF FrameOK, FrameType
    <3>2. counted.open = g.open
      BY <3>1 DEF CountRequest, counted
    <3> QED
      BY <1>9, <2>3, <2>4, <3>2, NoCtxOK DEF RequestOK
  <2>12. Moves(o.g, g)
    BY <2>10, <2>11 DEF Follows, Moves
  <2>13. o.g.r.fd = g.r.fd /\ o.g.conns = g.conns
    BY <1>4, <1>7, <2>2, <2>4, <2>10 DEF Follows, Handled
  <2> QED
    <3>1. ~taken.r.bad_version
      BY <1>5, <1>9, <2>2, <2>4 DEF RequestOK
    <3>2. o.g.r.keep_alive => o.g.r.request_count <= max_keep_alive_requests
      BY <1>4, <2>2, <2>4, <2>10, <3>1 DEF Handled, Counted
    <3> QED
      BY <2>10, <2>12, <2>13, <3>2 DEF Follows, Handled, Counted, RequestOK
<1> HIDE DEF answer, taken
<1>10. ASSUME NEW o \in http_response_prepare(c, g)
       PROVE  Handled(c, o.g, g)
  <2>1. CASE g.r.mode = "DIRECT" /\ g.r.decided
    <3> DEFINE x == [g.r EXCEPT !.write_queue = FALSE]
               y == [g EXCEPT !.r = x]
    <3>1. o = Outcome(g, "FINISHED") \/ o = Outcome(y, "FINISHED")
      BY <1>10, <2>1 DEF http_response_prepare, FrameOK, FrameType
    <3>2. Handled(c, g, g)
      BY <1>2, <2>1 DEF Prepared
    <3>3. /\ x \in ConRec /\ x.fd = g.r.fd /\ x.fde_ndx = g.r.fde_ndx /\ x.mode = g.r.mode
          /\ x.request_count = g.r.request_count /\ x.keep_alive = g.r.keep_alive
          /\ x.decided = g.r.decided /\ x.bad_version = g.r.bad_version
      BY <1>1 DEF ConRec
    <3> HIDE DEF x
    <3>4. Counted(x)
      BY <3>2, <3>3 DEF Handled, Counted
    <3>5. Handled(c, y, g)
      BY <1>3, <3>2, <3>3, <3>4
    <3> HIDE DEF y
    <3> QED
      BY <3>1, <3>2, <3>5, OutcomeFields
  <2>2. CASE g.r.mode = "DIRECT" /\ ~g.r.decided
    <3>1. o \in NewRequest(c, g)
      BY <1>10, <2>2 DEF http_response_prepare
    <3>2. \/ \E d \in BOOLEAN : o = Outcome(answer(d), "FINISHED")
          \/ o = Outcome(counted, "ERROR")
          \/ o \in mod_fastcgi_handle_subrequest(c, taken)
      BY <1>6, <3>1
    <3> QED
      BY <1>4, <1>8, <1>9, <2>2, <3>2, OutcomeFields
  <2>3. CASE g.r.mode = "FASTCGI" /\ g.h.state = "NULL"
    <3>1. o = Outcome(g, "FINISHED")
      BY <1>10, <2>3 DEF http_response_prepare
    <3> QED
      BY <1>2, <2>3, <3>1, OutcomeFields DEF Prepared
  <2>4. CASE g.r.mode = "FASTCGI" /\ g.h.state # "NULL"
    <3>1. o \in mod_fastcgi_handle_subrequest(c, g)
      BY <1>10, <2>4 DEF http_response_prepare
    <3>2. /\ Follows(c, o.g, g)
          /\ o.g.r.keep_alive = g.r.keep_alive /\ o.g.r.request_count = g.r.request_count
          /\ o.g.r.bad_version = g.r.bad_version
      BY <2>4, <3>1, SubrequestFollows
    <3>3. Handled(c, g, g)
      BY <1>2, <2>4 DEF Prepared
    <3>4. Counted(o.g.r)
      BY <3>2, <3>3 DEF Follows, Handled, Counted, RequestOK
    <3> QED
      BY <3>2, <3>3, <3>4 DEF Follows, Handled, RequestOK
  <2> QED
    BY <1>1, <2>1, <2>2, <2>3, <2>4
<1>11. ASSUME NEW o \in http_response_prepare(c, g)
       PROVE  Follows(c, AfterPrepare(o), g)
  <2>1. Handled(c, o.g, g)
    BY <1>10
  <2>2. AfterPrepare(o) \in {connection_set_state(o.g, s) :
                              s \in {"RESPONSE_START", "ERROR", "HANDLE_REQUEST"}}
    BY DEF AfterPrepare
  <2> QED
    BY <2>1, <2>2, HandledFollows
<1> QED
  BY <1>11

-----------------------------------------------------------------------------
\* The invariant.

\* Every descriptor has its owner.
Holdings ==
  Own(ev, open, conns.ndx, [d \in Conn |-> con[d].fd], [d \in Conn |-> con[d].fde_ndx],
      [d \in Conn |-> hctx[d].fd], [d \in Conn |-> hctx[d].fde_ndx])

\* Every request is in order, and the connections in CONNECT are the ones
\* outside the pool.
Requests ==
  \A c \in Conn : RequestOK(con[c], hctx[c]) /\ (con[c].state = "CONNECT" <=> ~InUse(c))

\* The case for CONNECT clears the counter before the next client comes
\* (connections.c:1561).
Counters ==
  \A c \in Conn :
    con[c].state = "CONNECT" => con[c].request_count = 0 \/ (pc = "machine" /\ cur = c)

\* The listening socket is watched and has its handler exactly while the
\* worker accepts (server.c:1129-1193).
Listening ==
  /\ listen_fd \notin ev.wr
  /\ listen_fd \in ev.rd <=> ~sockets_disabled
  /\ ~(graceful_shutdown /\ sockets_disabled) => ev.fdarray[listen_fd].handler = "server"
  /\ ~listen_open => (graceful_shutdown /\ sockets_disabled) \/ pc = "done"

\* The dispatch loop is running, maybe inside the accept handler.
InDispatch == pc \in {"dispatch", "accept"} \/ ret = "accept"

\* select() sets one bit for each descriptor that it reports.
OneBit == \A rep \in Reports : \E b \in {"IN", "OUT", "ERR"} : rep = {b}

\* What is still to be dispatched is open: a handler closes the descriptor it
\* was called for or new ones, never one whose report is still to come.
Dispatch ==
  /\ InDispatch =>
       /\ DOMAIN pending \subseteq open \cup {listen_fd}
       /\ listen_fd \in DOMAIN pending => ~sockets_disabled /\ pending[listen_fd] = {"IN"}
       /\ OneBit => n = Cardinality(DOMAIN pending)
  /\ pc = "accept" \/ ret = "accept" => ~sockets_disabled
  /\ ret = "accept" => con[cur].fd \notin DOMAIN pending /\ hctx[cur].fd \notin DOMAIN pending

OwnInv == Holdings /\ FdsCounted /\ Requests /\ Counters /\ Listening /\ Dispatch

\* A handler may turn the frame of connection c into g.
Step(c, g) ==
  /\ Good(g) /\ Holds(c, g) /\ RequestOK(g.r, g.h)
  /\ g.r.state = "CONNECT" <=> g.conns.ndx[c] = -1
  /\ g.r.state = "REQUEST_START" /\ con[c].state = "RESPONSE_END" => con[c].keep_alive
  /\ g.r.fd = con[c].fd
  /\ g.conns.used <= conns.used
  /\ \/ /\ g.conns = conns /\ (g.h.fd # hctx[c].fd => InUse(c))
        /\ \/ g.h.fd \in {hctx[c].fd, -1}
           \/ hctx[c].fd = -1 /\ g.h.fd \in Fd \ open
     \/ InUse(c) /\ g.conns.ndx[c] = -1 /\ g.h.fd = -1

\* The frame of a connection, before the handler has done anything.
LEMMA FrameHolds ==
  ASSUME TablesInv, Holdings, FdsCounted, Requests, NEW c \in Conn
  PROVE  LET g == Frame(c)
         IN /\ Good(g) /\ FrameOK(g) /\ Holds(c, g) /\ RequestOK(g.r, g.h)
            /\ g.r = con[c] /\ g.h = hctx[c] /\ g.conns = conns /\ g.ev = ev /\ g.open = open
            /\ g.r.state = "CONNECT" <=> g.conns.ndx[c] = -1
<1> DEFINE g == Frame(c)
<1>1. /\ g.r = con[c] /\ g.h = hctx[c] /\ g.conns = conns /\ g.ev = ev
      /\ g.open = open /\ g.cur_fds = cur_fds
  BY DEF Frame
<1>2. Good(g) /\ FrameOK(g)
  BY FrameGood DEF Good
<1> HIDE DEF g
<1>3. /\ Cfd(c, g) = [d \in Conn |-> con[d].fd]
      /\ Cndx(c, g) = [d \in Conn |-> con[d].fde_ndx]
      /\ Hfd(c, g) = [d \in Conn |-> hctx[d].fd]
      /\ Hndx(c, g) = [d \in Conn |-> hctx[d].fde_ndx]
  BY <1>1 DEF Cfd, Cndx, Hfd, Hndx
<1>4. Own(g.ev, g.open, g.conns.ndx, Cfd(c, g), Cndx(c, g), Hfd(c, g), Hndx(c, g))
  BY <1>1, <1>3 DEF Holdings
<1>5. Aside(c, g)
  BY <1>1 DEF Aside
<1>6. Holds(c, g)
  BY <1>1, <1>4, <1>5 DEF Holds, FdsCounted
<1>7. RequestOK(g.r, g.h) /\ (g.r.state = "CONNECT" <=> g.conns.ndx[c] = -1)
  BY <1>1 DEF Requests, InUse
<1> QED
  BY <1>1, <1>2, <1>6, <1>7 DEF g

\* When a handler returns, everything that is held has its owner again.
LEMMA CommitHolds ==
  ASSUME TablesInv, NEW c \in Conn, NEW g, FrameOK(g), Holds(c, g), Commit(c, g)
  PROVE  /\ Holdings' /\ FdsCounted'
         /\ con'[c] = g.r /\ hctx'[c] = g.h
         /\ \A d \in Conn \ {c} : con'[d] = con[d] /\ hctx'[d] = hctx[d]
<1>1. /\ con' = [con EXCEPT ![c] = g.r] /\ hctx' = [hctx EXCEPT ![c] = g.h]
      /\ ev' = g.ev /\ open' = g.open /\ cur_fds' = g.cur_fds /\ conns' = g.conns
  BY DEF Commit
<1>2. /\ con'[c] = g.r /\ hctx'[c] = g.h
      /\ \A d \in Conn \ {c} : con'[d] = con[d] /\ hctx'[d] = hctx[d]
  BY <1>1 DEF TablesInv
<1>3. /\ [d \in Conn |-> con'[d].fd] = Cfd(c, g)
      /\ [d \in Conn |-> con'[d].fde_ndx] = Cndx(c, g)
      /\ [d \in Conn |-> hctx'[d].fd] = Hfd(c, g)
      /\ [d \in Conn |-> hctx'[d].fde_ndx] = Hndx(c, g)
  BY <1>2 DEF Cfd, Cndx, Hfd, Hndx
<1>4. Holdings'
  BY <1>1, <1>3 DEF Holds, Holdings
<1>5. FdsCounted'
  BY <1>1 DEF Holds, FdsCounted
<1> QED
  BY <1>2, <1>4, <1>5

-----------------------------------------------------------------------------
\* The steps of connection_state_machine.

\* A handler that leaves the connection in the pool.
LEMMA FollowsStep ==
  ASSUME TablesInv, Holdings, FdsCounted, Requests, NEW c \in Conn, con[c].state # "CONNECT",
         NEW f, Follows(c, f, Frame(c))
  PROVE  Step(c, f) /\ f.r.state # "CONNECT"
<1> DEFINE g == Frame(c)
<1>1. /\ Good(g) /\ g.r = con[c] /\ g.h = hctx[c] /\ g.conns = conns /\ g.open = open
      /\ g.r.state = "CONNECT" <=> g.conns.ndx[c] = -1
  BY FrameHolds
<1> HIDE DEF g
<1>2. Follows(c, f, g)
  BY DEF g
<1>3. Good(f) /\ f.conns = conns
  BY <1>1, <1>2 DEF Follows, Good
<1>4. conns.used \in Nat
  BY DEF TablesInv, PoolOK, PoolType
<1>5. InUse(c) /\ f.conns.ndx[c] # -1
  BY <1>1, <1>3 DEF InUse
<1> QED
  BY <1>1, <1>2, <1>3, <1>4, <1>5 DEF Follows, Moves, Step

\* A handler that changes nothing that is held.
LEMMA StaysStep ==
  ASSUME TablesInv, Holdings, FdsCounted, Requests, NEW c \in Conn, con[c].state # "CONNECT",
         NEW f, Stays(f, Frame(c))
  PROVE  Step(c, f) /\ f.r.state # "CONNECT"
BY FrameHolds, StaysFollows, FollowsStep

\* A handler that gives up the context and the connection.
LEMMA ClosingStep ==
  ASSUME TablesInv, NEW c \in Conn, InUse(c), NEW f, Good(f), Holds(c, f),
         f.conns.ndx[c] = -1, f.conns.used <= conns.used, f.r.fd = con[c].fd,
         f.h = NoCtx, f.r.state = "CONNECT", f.r.mode = "DIRECT",
         ~f.r.keep_alive, f.r.bad_version => f.r.decided
  PROVE  Step(c, f)
<1>1. RequestOK(f.r, f.h)
  BY NoCtxOK DEF RequestOK, Idle, Fresh, Prepared
<1> QED
  BY <1>1, NoCtxOK DEF Step

\* RESPONSE_END (connections.c:1491): the next request, or the end.
LEMMA ResponseEndStep ==
  ASSUME TablesInv, Holdings, FdsCounted, Requests, NEW c \in Conn, con[c].state = "RESPONSE_END"
  PROVE  /\ con[c].keep_alive =>
              Step(c, connection_reset(connection_set_state(Frame(c), "REQUEST_START")))
         /\ ~con[c].keep_alive =>
              Step(c, connection_reset(connection_close(c, fcgi_connection_close(Frame(c)))))
         /\ connection_reset(connection_set_state(Frame(c), "REQUEST_START")).r.state = "REQUEST_START"
<1> DEFINE g == Frame(c)
           next == connection_set_state(g, "REQUEST_START")
           again == connection_reset(next)
           x == fcgi_connection_close(g)
           gone == connection_close(c, x)
           f == connection_reset(gone)
<1>1. /\ Good(g) /\ FrameOK(g) /\ Holds(c, g) /\ RequestOK(g.r, g.h)
      /\ g.r = con[c] /\ g.h = hctx[c] /\ g.conns = conns /\ g.open = open
      /\ g.r.state = "CONNECT" <=> g.conns.ndx[c] = -1
  BY FrameHolds
<1> HIDE DEF g
<1>2. InUse(c) /\ conns.used \in Nat /\ g.conns.ndx[c] # -1
  BY <1>1 DEF InUse, TablesInv, PoolOK, PoolType
<1>3. g.h.state = "NULL" => g.h = NoCtx
  BY <1>1 DEF RequestOK, CtxOK
<1>4. again.r.state = "REQUEST_START" /\ (con[c].keep_alive => Step(c, again))
  <2>1. FrameOK(next) /\ next.conns = g.conns
    BY <1>1, SetStateOK DEF Keeps, ConStates
  <2>2. /\ next.h = g.h /\ next.ev = g.ev /\ next.open = g.open /\ next.cur_fds = g.cur_fds
        /\ next.r = [g.r EXCEPT !.state = "REQUEST_START"]
    BY <1>1 DEF connection_set_state, FrameOK, FrameType
  <2>3. /\ next.r.fd = g.r.fd /\ next.r.fde_ndx = g.r.fde_ndx /\ next.r.state = "REQUEST_START"
        /\ next.r.keep_alive = g.r.keep_alive /\ next.r.request_count = g.r.request_count
    BY <1>1, <2>2 DEF FrameOK, FrameType, ConRec
  <2> HIDE DEF next
  <2>4. Holds(c, next)
    BY <1>1, <2>1, <2>2, <2>3, HoldsSame DEF SameFds
  <2>9. next.h.state = "NULL" => next.h = NoCtx
    BY <1>3, <2>2
  <2>5. /\ FrameOK(again) /\ Holds(c, again) /\ again.h = NoCtx /\ again.conns = next.conns
        /\ again.r.fd = next.r.fd /\ again.r.state = next.r.state
        /\ again.r.keep_alive = next.r.keep_alive
        /\ again.r.request_count = next.r.request_count
        /\ again.r.mode = "DIRECT" /\ again.r.decided = FALSE /\ again.r.write_queue = FALSE
        /\ again.r.file_finished = FALSE /\ again.r.is_writable = TRUE
        /\ again.r.bad_version = FALSE
    BY ZenonT(30), <2>1, <2>4, <2>9, ResetOwn
  <2> HIDE DEF again
  <2>6. ASSUME con[c].keep_alive
        PROVE  Step(c, again)
    <3>1. RequestOK(again.r, again.h)
      BY <1>1, <2>3, <2>5, NoCtxOK DEF RequestOK, Idle, Fresh, Prepared
    <3>2. Good(again)
      BY <1>1, <2>1, <2>5 DEF Good
    <3> QED
      BY <1>1, <1>2, <2>1, <2>3, <2>5, <2>6, <3>1, <3>2, NoCtxOK DEF Step
  <2> QED
    BY <2>3, <2>5, <2>6
<1>5. ASSUME ~con[c].keep_alive
      PROVE  Step(c, f)
  <2>1. Holds(c, x) /\ x.r = g.r /\ x.h = NoCtx /\ x.conns = g.conns
    BY <1>1, <1>3, FcgiCloseOwn
  <2>2. Good(x)
    BY <1>1, FcgiCloseOK, KeepsGood
  <2> HIDE DEF x
  <2>3. /\ Holds(c, gone) /\ gone.h = x.h /\ gone.conns.ndx[c] = -1
        /\ gone.conns.used <= x.conns.used /\ gone.r.fd = x.r.fd
        /\ gone.r.state = "CONNECT" /\ gone.r.keep_alive = x.r.keep_alive
    BY <1>2, <2>1, <2>2, CloseOwn
  <2>4. Good(gone)
    BY <2>2, ConnectionCloseOK
  <2> HIDE DEF gone
  <2>6. /\ FrameOK(f) /\ Holds(c, f) /\ f.h = NoCtx /\ f.conns = gone.conns
        /\ f.r.fd = gone.r.fd /\ f.r.state = gone.r.state
        /\ f.r.keep_alive = gone.r.keep_alive
        /\ f.r.mode = "DIRECT" /\ f.r.bad_version = FALSE
    BY <2>1, <2>3, <2>4, ResetOwn DEF Good
  <2> HIDE DEF f
  <2>7. Good(f)
    BY <2>4, <2>6 DEF Good
  <2>8. f.r.keep_alive = con[c].keep_alive
    BY <1>1, <2>1, <2>3, <2>6
  <2> QED
    BY <1>1, <1>2, <1>5, <2>1, <2>3, <2>6, <2>7, <2>8, ClosingStep
<1> QED
  BY <1>4, <1>5 DEF g

\* A frame with another record that holds the same.
LEMMA RecordHolds ==
  ASSUME TablesInv, NEW c \in Conn, NEW g, Good(g), Holds(c, g),
         NEW x \in ConRec, x.fd = g.r.fd, x.fde_ndx = g.r.fde_ndx
  PROVE  LET f == [g EXCEPT !.r = x]
         IN Good(f) /\ Holds(c, f) /\ f.r = x /\ f.h = g.h /\ f.conns = g.conns
<1> DEFINE f == [g EXCEPT !.r = x]
<1>1. /\ f.r = x /\ f.h = g.h /\ f.ev = g.ev /\ f.open = g.open /\ f.cur_fds = g.cur_fds
      /\ f.conns = g.conns /\ Good(f)
  BY DEF Good, FrameOK, FrameType
<1> HIDE DEF f
<1>2. Holds(c, f)
  BY <1>1, HoldsSame DEF SameFds
<1> QED
  BY <1>1, <1>2 DEF f

\* ERROR (connections.c:1611): closed at once, or after the client had time to
\* read the end of the response.
LEMMA ErrorStep ==
  ASSUME TablesInv, Holdings, FdsCounted, Requests, NEW c \in Conn, con[c].state = "ERROR"
  PROVE  LET reset == connection_reset(Frame(c))
         IN \A left \in {[connection_set_state(reset, "CLOSE") EXCEPT !.r.close_idle = 0],
                         connection_close(c, reset)} :
              Step(c, [left EXCEPT !.r.keep_alive = FALSE])
<1> DEFINE g == Frame(c)
           reset == connection_reset(g)
           closing == [connection_set_state(reset, "CLOSE") EXCEPT !.r.close_idle = 0]
           gone == connection_close(c, reset)
<1>1. /\ Good(g) /\ FrameOK(g) /\ Holds(c, g) /\ RequestOK(g.r, g.h)
      /\ g.r = con[c] /\ g.h = hctx[c] /\ g.conns = conns /\ g.open = open
      /\ g.r.state = "CONNECT" <=> g.conns.ndx[c] = -1
  BY FrameHolds
<1> HIDE DEF g
<1>2. InUse(c) /\ conns.used \in Nat /\ g.conns.ndx[c] # -1
  BY <1>1 DEF InUse, TablesInv, PoolOK, PoolType
<1>3. g.h.state = "NULL" => g.h = NoCtx
  BY <1>1 DEF RequestOK, CtxOK
<1>4. /\ FrameOK(reset) /\ Holds(c, reset) /\ reset.h = NoCtx /\ reset.conns = g.conns
      /\ reset.r.fd = g.r.fd /\ reset.r.mode = "DIRECT"
      /\ reset.r.decided = FALSE /\ reset.r.bad_version = FALSE
  BY <1>1, <1>3, ResetOwn
<1> HIDE DEF reset
<1>5. Good(reset) /\ reset.r \in ConRec
  BY <1>1, <1>4 DEF Good, FrameOK, FrameType
<1>6. Step(c, [closing EXCEPT !.r.keep_alive = FALSE])
  <2> DEFINE x == [reset.r EXCEPT !.state = "CLOSE", !.close_idle = 0, !.keep_alive = FALSE]
             f == [reset EXCEPT !.r = x]
  <2>1. [closing EXCEPT !.r.keep_alive = FALSE] = f
    BY <1>4, <1>5 DEF connection_set_state, FrameOK, FrameType, ConRec
  <2>2. /\ x \in ConRec /\ x.fd = reset.r.fd /\ x.fde_ndx = reset.r.fde_ndx
        /\ x.state = "CLOSE" /\ x.mode = "DIRECT" /\ x.keep_alive = FALSE
        /\ x.bad_version = FALSE
    BY <1>4, <1>5, RangeFacts DEF ConRec, ConStates
  <2> HIDE DEF x
  <2>3. Good(f) /\ Holds(c, f) /\ f.r = x /\ f.h = reset.h /\ f.conns = reset.conns
    BY <1>4, <1>5, <2>2, RecordHolds
  <2> HIDE DEF f
  <2>4. RequestOK(f.r, f.h)
    BY <1>1, <1>4, <2>2, <2>3, NoCtxOK DEF RequestOK, Idle, Fresh, Prepared
  <2>5. Step(c, f)
    BY <1>1, <1>2, <1>4, <2>2, <2>3, <2>4, NoCtxOK DEF Step
  <2> QED
    BY <2>1, <2>5
<1>7. Step(c, [gone EXCEPT !.r.keep_alive = FALSE])
  <2> DEFINE x == [gone.r EXCEPT !.keep_alive = FALSE]
             f == [gone EXCEPT !.r = x]
  <2>1. /\ Holds(c, gone) /\ gone.h = reset.h /\ gone.conns.ndx[c] = -1
        /\ gone.conns.used <= reset.conns.used /\ gone.r.fd = reset.r.fd
        /\ gone.r.state = "CONNECT" /\ gone.r.mode = reset.r.mode
        /\ gone.r.bad_version = reset.r.bad_version
    BY <1>2, <1>4, <1>5, CloseOwn
  <2>2. Good(gone)
    BY <1>5, ConnectionCloseOK
  <2> HIDE DEF gone
  <2>3. [gone EXCEPT !.r.keep_alive = FALSE] = f /\ gone.r \in ConRec
    BY <2>2 DEF Good, FrameOK, FrameType
  <2>4. /\ x \in ConRec /\ x.fd = gone.r.fd /\ x.fde_ndx = gone.r.fde_ndx
        /\ x.state = "CONNECT" /\ x.mode = gone.r.mode /\ x.keep_alive = FALSE
        /\ x.bad_version = gone.r.bad_version
    BY <2>1, <2>3 DEF ConRec
  <2> HIDE DEF x
  <2>5. Good(f) /\ Holds(c, f) /\ f.r = x /\ f.h = gone.h /\ f.conns = gone.conns
    BY <2>1, <2>2, <2>4, RecordHolds
  <2> HIDE DEF f
  <2>6. Step(c, f)
    BY <1>1, <1>2, <1>4, <2>1, <2>4, <2>5, ClosingStep
  <2> QED
    BY <2>3, <2>6
<1> QED
  BY <1>6, <1>7 DEF g, reset, closing, gone

\* CLOSE (connections.c:1573): the connection lingers or is closed.
LEMMA CloseStep ==
  ASSUME TablesInv, Holdings, FdsCounted, Requests, NEW c \in Conn, con[c].state = "CLOSE"
  PROVE  \A g \in {Frame(c), [Frame(c) EXCEPT !.r.close_idle = CloseCap]} :
           Step(c, g) /\ g.r.state = "CLOSE" /\ Step(c, connection_close(c, g))
<1> DEFINE g == Frame(c)
           x == [g.r EXCEPT !.close_idle = CloseCap]
<1>1. /\ Good(g) /\ FrameOK(g) /\ Holds(c, g) /\ RequestOK(g.r, g.h)
      /\ g.r = con[c] /\ g.h = hctx[c] /\ g.conns = conns /\ g.open = open
      /\ g.r.state = "CONNECT" <=> g.conns.ndx[c] = -1
  BY FrameHolds
<1> HIDE DEF g
<1>2. /\ InUse(c) /\ conns.used \in Nat /\ g.conns.ndx[c] # -1
      /\ g.r \in ConRec /\ g.r.mode = "DIRECT" /\ g.h = NoCtx
  BY <1>1 DEF InUse, TablesInv, PoolOK, PoolType, FrameOK, FrameType, RequestOK, Idle
<1>3. ASSUME NEW f, Good(f), Holds(c, f), f.h = g.h, f.conns = g.conns, f.r.fd = g.r.fd,
             SameRequest(f.r, g.r), f.r.state = "CLOSE"
      PROVE  Step(c, f) /\ Step(c, connection_close(c, f))
  <2> DEFINE gone == connection_close(c, f)
  <2>1. RequestOK(f.r, f.h)
    BY <1>1, <1>3, RequestStays
  <2>2. Step(c, f)
    BY <1>1, <1>2, <1>3, <2>1 DEF Step
  <2>3. /\ Holds(c, gone) /\ gone.h = f.h /\ gone.conns.ndx[c] = -1
        /\ gone.conns.used <= f.conns.used /\ gone.r.fd = f.r.fd
        /\ gone.r.state = "CONNECT" /\ gone.r.mode = f.r.mode
        /\ gone.r.decided = f.r.decided /\ gone.r.keep_alive = f.r.keep_alive
        /\ gone.r.bad_version = f.r.bad_version
    BY <1>2, <1>3, CloseOwn
  <2>4. Good(gone)
    BY <1>3, ConnectionCloseOK
  <2> HIDE DEF gone
  <2>5. ~gone.r.keep_alive /\ (gone.r.bad_version => gone.r.decided)
    BY <1>3, <2>1, <2>3 DEF RequestOK
  <2>6. Step(c, gone)
    BY <1>1, <1>2, <1>3, <2>3, <2>4, <2>5, ClosingStep DEF SameRequest
  <2> QED
    BY <2>2, <2>6 DEF gone
<1>4. Step(c, g) /\ Step(c, connection_close(c, g)) /\ g.r.state = "CLOSE"
  BY <1>1, <1>3 DEF SameRequest
<1>5. /\ Step(c, [g EXCEPT !.r = x]) /\ Step(c, connection_close(c, [g EXCEPT !.r = x]))
      /\ [g EXCEPT !.r = x].r.state = "CLOSE"
  <2>1. x \in ConRec /\ SameRequest(x, g.r) /\ x.state = "CLOSE" /\ x.fd = g.r.fd
    BY <1>1, <1>2, RangeFacts DEF ConRec, SameRequest
  <2> HIDE DEF x
  <2> DEFINE f == [g EXCEPT !.r = x]
  <2>2. Good(f) /\ Holds(c, f) /\ f.r = x /\ f.h = g.h /\ f.conns = g.conns
    BY <1>1, <2>1, RecordHolds DEF SameRequest
  <2> HIDE DEF f
  <2>3. Step(c, f) /\ Step(c, connection_close(c, f)) /\ f.r.state = "CLOSE"
    BY <1>3, <2>1, <2>2
  <2> QED
    BY <2>3 DEF f
<1>6. [g EXCEPT !.r.close_idle = CloseCap] = [g EXCEPT !.r = x]
  BY <1>1 DEF FrameOK, FrameType
<1> QED
  BY <1>4, <1>5, <1>6 DEF g

\* The switch behind the loop, and the plugins' joblist hook.
LEMMA ArmStep ==
  ASSUME TablesInv, Holdings, FdsCounted, Requests, NEW c \in Conn
  PROVE  LET g == RequestEvents(Frame(c))
         IN \A f \in {g, mod_fastcgi_handle_joblist(g)} :
              /\ Step(c, f) /\ f.r.state = con[c].state
              /\ f.r.request_count = con[c].request_count
<1> DEFINE b == Frame(c)
           g == RequestEvents(b)
<1>1. /\ Good(b) /\ FrameOK(b) /\ Holds(c, b) /\ RequestOK(b.r, b.h)
      /\ b.r = con[c] /\ b.h = hctx[c] /\ b.conns = conns /\ b.open = open
      /\ b.r.state = "CONNECT" <=> b.conns.ndx[c] = -1
  BY FrameHolds
<1> HIDE DEF b
<1>2. Armed(c, g, b)
  BY <1>1, RequestEventsOwn
<1> HIDE DEF g
<1>3. Armed(c, mod_fastcgi_handle_joblist(g), g)
  BY <1>2, JoblistOwn DEF Armed
<1>4. conns.used \in Nat
  BY DEF TablesInv, PoolOK, PoolType
<1>5. ASSUME NEW f, Armed(c, f, g) \/ f = g
      PROVE  Step(c, f) /\ f.r.state = con[c].state /\ f.r.request_count = con[c].request_count
  BY <1>1, <1>2, <1>4, <1>5 DEF Armed, Step, Good
<1> QED
  BY <1>3, <1>5 DEF g, b

\* Every turn of the machine is a step of its connection; one that closes it
\* leads to the case for CONNECT.
LEMMA MachineSteps ==
  ASSUME IInv, Holdings, FdsCounted, Requests, Counters, StateMachine
  PROVE  \E g : /\ Commit(cur, g) /\ Step(cur, g)
                /\ g.r.state = "CONNECT" => g.r.request_count = 0 \/ pc' = "machine"
<1> DEFINE b == Frame(cur)
<1>0. cur \in Conn /\ TablesInv
  BY DEF IInv, CallInv
<1>1. /\ Good(b) /\ FrameOK(b) /\ Holds(cur, b) /\ RequestOK(b.r, b.h)
      /\ b.r = con[cur] /\ b.h = hctx[cur] /\ b.conns = conns /\ b.open = open
      /\ b.r.state = "CONNECT" <=> b.conns.ndx[cur] = -1
  BY <1>0, FrameHolds
<1>2. con[cur] \in ConRec
  BY <1>0 DEF TablesInv
<1> HIDE DEF b
<1>3. ASSUME con[cur].state # "CONNECT", NEW f, Stays(f, b), NEW s, Turn(s, f)
      PROVE  Commit(cur, f) /\ Step(cur, f) /\ f.r.state # "CONNECT"
  BY <1>0, <1>3, StaysStep DEF Turn, b
<1>4. ASSUME NEW x \in ConRec, x.fd = con[cur].fd, x.fde_ndx = con[cur].fde_ndx,
             RequestOK(x, hctx[cur]), x.state \notin {"CONNECT", "REQUEST_START"}
      PROVE  Stays([b EXCEPT !.r = x], b)
  BY <1>1, <1>4, RecordStays
<1>5. ASSUME NEW f, Step(cur, f), NEW s, s # "CONNECT", Turn(s, f)
      PROVE  /\ Commit(cur, f) /\ Step(cur, f)
             /\ f.r.state = "CONNECT" => pc' = "machine"
  BY <1>5 DEF Turn
<1>6. CASE SmRequestStart
  <2>1. /\ Turn("REQUEST_START", [b EXCEPT !.r = StartRequest(con[cur])])
        /\ con[cur].state = "REQUEST_START"
    BY <1>6 DEF SmRequestStart, At, b
  <2>2. StartRequest(con[cur]) \in ConRec
    <3>1. con[cur].request_count + 1 \in Nat
      BY <1>2 DEF ConRec
    <3> QED
      BY <1>2, <3>1, RangeFacts DEF StartRequest, ConRec, ConStates
  <2>3. Stays([b EXCEPT !.r = StartRequest(con[cur])], b)
    BY <1>1, <1>2, <1>4, <2>1, <2>2, TurnRequests
  <2> QED
    BY <1>3, <2>1, <2>3
<1>7. CASE SmRead
  <2>1. PICK x \in connection_handle_read_state(con[cur]) :
          Turn(con[cur].state, [b EXCEPT !.r = x])
    BY <1>7 DEF SmRead, b
  <2>2. con[cur].state \in {"READ", "READ_POST"}
    BY <1>7 DEF SmRead
  <2>3. Stays([b EXCEPT !.r = x], b)
    BY <1>1, <1>2, <1>4, <2>2, ReadStateRequest
  <2> QED
    BY <1>3, <2>1, <2>2, <2>3
<1>8. CASE SmRequestEnd
  <2>1. PICK x \in http_request_parse(con[cur]) : Turn("REQUEST_END", [b EXCEPT !.r = x])
    BY <1>8 DEF SmRequestEnd, b
  <2>2. con[cur].state = "REQUEST_END"
    BY <1>8 DEF SmRequestEnd, At
  <2>3. x \in ConRec
    BY <1>2, <2>1, ParseOK
  <2>4. Stays([b EXCEPT !.r = x], b)
    BY <1>1, <1>2, <1>4, <2>2, <2>3, TurnRequests
  <2> QED
    BY <1>3, <2>1, <2>2, <2>4
<1>9. CASE SmHandleRequest
  <2>1. PICK o \in http_response_prepare(cur, b) : Turn("HANDLE_REQUEST", AfterPrepare(o))
    BY <1>9 DEF SmHandleRequest, b
  <2>2. con[cur].state = "HANDLE_REQUEST"
    BY <1>9 DEF SmHandleRequest, At
  <2>3. Follows(cur, AfterPrepare(o), b)
    BY <1>0, <1>1, <2>2, PrepareOwn
  <2>4. Step(cur, AfterPrepare(o)) /\ AfterPrepare(o).r.state # "CONNECT"
    BY <1>0, <2>2, <2>3, FollowsStep DEF b
  <2> QED
    BY <1>5, <2>1, <2>4
<1>10. CASE SmResponseStart
  <2>1. PICK y \in connection_handle_write_prepare(con[cur]) :
          Turn("RESPONSE_START", [b EXCEPT !.r = [y EXCEPT !.state = "WRITE"]])
    BY <1>10 DEF SmResponseStart, b
  <2>2. con[cur].state = "RESPONSE_START"
    BY <1>10 DEF SmResponseStart, At
  <2> DEFINE x == [y EXCEPT !.state = "WRITE"]
  <2>3. y \in ConRec
    BY <1>2, WritePrepareOK
  <2>4. x \in ConRec
    BY <2>3 DEF ConRec, ConStates
  <2>5. RequestOK(x, hctx[cur]) /\ x.state = "WRITE" /\ x.fd = con[cur].fd
        /\ x.fde_ndx = con[cur].fde_ndx
    BY <1>1, <1>2, <2>2, TurnRequests
  <2> HIDE DEF x
  <2>6. Stays([b EXCEPT !.r = x], b)
    BY <1>4, <2>4, <2>5
  <2> QED
    BY <1>3, <2>1, <2>2, <2>6 DEF x
<1>11. CASE SmWrite
  <2>1. PICK f \in TryWrite(b) : Turn("WRITE", f)
    BY <1>11 DEF SmWrite, b
  <2>2. con[cur].state = "WRITE"
    BY <1>11 DEF SmWrite, At
  <2>3. Stays(f, b)
    BY <1>1, <2>2, WriteRequest
  <2> QED
    BY <1>3, <2>1, <2>2, <2>3
<1>12. CASE SmResponseEnd
  <2> DEFINE next == connection_set_state(b, "REQUEST_START")
             gone == connection_close(cur, fcgi_connection_close(b))
  <2>1. Turn("RESPONSE_END", connection_reset(IF con[cur].keep_alive THEN next ELSE gone))
    BY <1>12 DEF SmResponseEnd, b
  <2>2. con[cur].state = "RESPONSE_END"
    BY <1>12 DEF SmResponseEnd, At
  <2>3. /\ con[cur].keep_alive => Step(cur, connection_reset(next))
        /\ ~con[cur].keep_alive => Step(cur, connection_reset(gone))
    BY <1>0, <2>2, ResponseEndStep DEF b
  <2> HIDE DEF next, gone
  <2> QED
    BY <1>5, <2>1, <2>3
<1>13. CASE SmConnect
  <2> DEFINE x == [con[cur] EXCEPT !.read_queue = 0, !.request_count = 0]
             f == [b EXCEPT !.r = x]
  <2>1. Turn("CONNECT", f) /\ con[cur].state = "CONNECT"
    BY <1>1, <1>13 DEF SmConnect, At, b, FrameOK, FrameType
  <2>2. /\ x \in ConRec /\ x.state = "CONNECT" /\ x.fd = b.r.fd /\ x.fde_ndx = b.r.fde_ndx
        /\ x.mode = b.r.mode /\ x.request_count = 0 /\ x.decided = b.r.decided
        /\ x.keep_alive = b.r.keep_alive /\ x.bad_version = b.r.bad_version
    BY <1>1, <1>2, <2>1, RangeFacts DEF ConRec
  <2> HIDE DEF x
  <2>3. Good(f) /\ Holds(cur, f) /\ f.r = x /\ f.h = b.h /\ f.conns = b.conns
    BY <1>0, <1>1, <2>2, RecordHolds
  <2> HIDE DEF f
  <2>4. RequestOK(f.r, f.h)
    BY <1>1, <2>1, <2>2, <2>3 DEF RequestOK, Idle, Fresh
  <2>5. conns.used \in Nat
    BY <1>0 DEF TablesInv, PoolOK, PoolType
  <2>6. Step(cur, f)
    BY <1>1, <2>1, <2>2, <2>3, <2>4, <2>5 DEF Step
  <2> QED
    BY <2>1, <2>2, <2>3, <2>6 DEF Turn
<1>14. CASE SmError
  <2> DEFINE reset == connection_reset(b)
             closing == [connection_set_state(reset, "CLOSE") EXCEPT !.r.close_idle = 0]
             gone == connection_close(cur, reset)
  <2>1. PICK left \in {closing, gone} : Turn("ERROR", [left EXCEPT !.r.keep_alive = FALSE])
    BY <1>14 DEF SmError, b
  <2>2. Step(cur, [left EXCEPT !.r.keep_alive = FALSE])
    BY <1>0, <1>14, ErrorStep DEF SmError, At, b
  <2> QED
    BY <1>5, <2>1, <2>2
<1>15. CASE SmClose
  <2>1. PICK g \in {b, [b EXCEPT !.r.close_idle = CloseCap]} :
          Turn("CLOSE", IF g.r.close_idle > 1 THEN connection_close(cur, g) ELSE g)
    BY <1>15 DEF SmClose, b
  <2>2. con[cur].state = "CLOSE"
    BY <1>15 DEF SmClose, At
  <2>3. Step(cur, g) /\ Step(cur, connection_close(cur, g))
    BY <1>0, <2>2, CloseStep DEF b
  <2> QED
    BY <1>5, <2>1, <2>3
<1>16. CASE Arm
  <2> DEFINE g == RequestEvents(b)
  <2>1. PICK f \in {g, mod_fastcgi_handle_joblist(g)} : Commit(cur, f)
    BY <1>16 DEF Arm, b
  <2>2. /\ Step(cur, f) /\ f.r.state = con[cur].state
        /\ f.r.request_count = con[cur].request_count
    BY <1>0, ArmStep DEF b
  <2>3. con[cur].state = "CONNECT" => con[cur].request_count = 0
    BY <1>0, <1>16 DEF Counters, Arm
  <2> QED
    BY <2>1, <2>2, <2>3
<1> QED
  BY <1>6, <1>7, <1>8, <1>9, <1>10, <1>11, <1>12, <1>13, <1>14, <1>15, <1>16
     DEF StateMachine

-----------------------------------------------------------------------------
\* What a step of a connection leaves.

\* An open descriptor is the one of a client or of a backend.
OpenOwned ==
  /\ \A fd \in open :
       fd \in Fd /\ \E d \in Conn : (InUse(d) /\ con[d].fd = fd) \/ hctx[d].fd = fd
  /\ \A d \in Conn : /\ InUse(d) => con[d].fd \in open
                     /\ hctx[d].fd # -1 => hctx[d].fd \in open

\* It follows from the owners.
LEMMA OpenFacts == TablesInv /\ Holdings => OpenOwned
<1> SUFFICES ASSUME TablesInv, Holdings PROVE OpenOwned
  OBVIOUS
<1>1. ASSUME NEW fd \in open
      PROVE  /\ fd \in Fd
             /\ \E d \in Conn : (InUse(d) /\ con[d].fd = fd) \/ hctx[d].fd = fd
  <2>1. fd \in Fd /\ fd \in AnyFd
    BY ConstantFacts DEF TablesInv
  <2>2. /\ ev.fdarray[fd].handler \in {"NULL", "server", "connection", "fcgi"}
        /\ ev.fdarray[fd].ctx \in Conn
    BY <2>1 DEF TablesInv, EvType
  <2>3. ev.fdarray[fd] # NoNode
    BY <2>1 DEF Holdings, Own
  <2> QED
    BY <2>1, <2>2, <2>3 DEF Holdings, Own, InUse
<1>2. ASSUME NEW d \in Conn
      PROVE  /\ InUse(d) => con[d].fd \in open
             /\ hctx[d].fd # -1 => hctx[d].fd \in open
  <2>1. hctx[d].fd \in Fd \cup {-1}
    BY DEF TablesInv, CtxRec
  <2>2. /\ InUse(d) => con[d].fd \in Fd /\ ev.fdarray[con[d].fd] = Node("connection", d)
        /\ hctx[d].fd # -1 => ev.fdarray[hctx[d].fd] = Node("fcgi", d)
    BY DEF Holdings, Own, InUse
  <2>3. Node("connection", d) # NoNode /\ Node("fcgi", d) # NoNode
    BY NodesDiffer
  <2>4. \A fd \in Fd : fd \in open <=> ev.fdarray[fd] # NoNode
    BY DEF Holdings, Own
  <2> QED
    BY <2>1, <2>2, <2>3, <2>4
<1> QED
  BY <1>1, <1>2 DEF OpenOwned

\* The step of connection c closes at most its own descriptors, leaves the
\* others and the listening socket alone, and takes no descriptor in use.
LEMMA StepKeeps ==
  ASSUME TablesInv, Holdings, Requests, NEW c \in Conn, NEW g, Step(c, g), Commit(c, g)
  PROVE  /\ TablesInv' /\ Holdings' /\ FdsCounted' /\ Requests'
         /\ (conns.used)' <= conns.used
         /\ con'[c] = g.r /\ hctx'[c] = g.h
         /\ \A d \in Conn \ {c} : con'[d] = con[d] /\ hctx'[d] = hctx[d] /\ InUse(d)' = InUse(d)
         /\ con'[c].fd = con[c].fd
         /\ hctx'[c].fd = hctx[c].fd \/ hctx'[c].fd = -1 \/ hctx'[c].fd \in Fd \ open
         /\ open \subseteq open' \cup {con[c].fd, hctx[c].fd}
         /\ ev'.fdarray[listen_fd] = ev.fdarray[listen_fd]
         /\ listen_fd \in ev'.rd <=> listen_fd \in ev.rd
         /\ listen_fd \in ev'.wr <=> listen_fd \in ev.wr
         /\ \A d \in Conn \ {c} : InUse(d) => /\ con[d].fd \in ev'.rd <=> con[d].fd \in ev.rd
                                              /\ con[d].fd \in ev'.wr <=> con[d].fd \in ev.wr
         /\ \A d \in Conn \ {c} :
              hctx[d].fd # -1 => /\ hctx[d].fd \in ev'.rd <=> hctx[d].fd \in ev.rd
                                 /\ hctx[d].fd \in ev'.wr <=> hctx[d].fd \in ev.wr
<1>1. Good(g) /\ FrameOK(g) /\ Holds(c, g)
  BY DEF Step, Good
<1>2. TablesInv'
  BY <1>1, CommitOK
<1>3. /\ Holdings' /\ FdsCounted' /\ con'[c] = g.r /\ hctx'[c] = g.h
      /\ \A d \in Conn \ {c} : con'[d] = con[d] /\ hctx'[d] = hctx[d]
  BY <1>1, CommitHolds
<1>4. conns' = g.conns /\ ev' = g.ev
  BY DEF Commit
<1>5. \A d \in Conn \ {c} : InUse(d)' = InUse(d)
  BY <1>1, <1>4 DEF Holds, Aside, InUse
<1>6. Requests'
  BY <1>3, <1>4, <1>5 DEF Requests, Step, InUse
<1>7. open \subseteq open' \cup {con[c].fd, hctx[c].fd}
  <2> SUFFICES ASSUME NEW fd \in open, fd # con[c].fd, fd # hctx[c].fd PROVE fd \in open'
    OBVIOUS
  <2>1. PICK d \in Conn : (InUse(d) /\ con[d].fd = fd) \/ hctx[d].fd = fd
    BY OpenFacts DEF OpenOwned
  <2>2. d # c /\ fd # -1
    BY <2>1, ConstantFacts DEF TablesInv
  <2>3. OpenOwned'
    BY <1>2, <1>3, OpenFacts, PTL
  <2> QED
    BY <1>3, <1>5, <2>1, <2>2, <2>3 DEF OpenOwned
<1> QED
  BY <1>1, <1>2, <1>3, <1>4, <1>5, <1>6, <1>7 DEF Step, Holds, Aside, InUse

-----------------------------------------------------------------------------
\* The invariant is inductive: one lemma for each phase of the main loop.

\* The turns of the state machine.
LEMMA MachineOwn ==
  ASSUME IInv, OwnInv, StateMachine
  PROVE  OwnInv'
<1>1. cur \in Conn /\ TablesInv /\ pc \in {"machine", "arm"} /\ (pc = "machine" \/ Arm)
  BY DEF IInv, CallInv, StateMachine, SmRequestStart, SmRead, SmRequestEnd, SmHandleRequest,
     SmResponseStart, SmWrite, SmResponseEnd, SmConnect, SmError, SmClose, Arm, At
<1>2. PICK g : /\ Commit(cur, g) /\ Step(cur, g)
               /\ g.r.state = "CONNECT" => g.r.request_count = 0 \/ pc' = "machine"
  BY MachineSteps DEF OwnInv
<1>3. /\ TablesInv' /\ Holdings' /\ FdsCounted' /\ Requests'
      /\ con'[cur] = g.r
      /\ \A d \in Conn \ {cur} : con'[d] = con[d]
      /\ con'[cur].fd = con[cur].fd
      /\ hctx'[cur].fd = hctx[cur].fd \/ hctx'[cur].fd = -1 \/ hctx'[cur].fd \in Fd \ open
      /\ open \subseteq open' \cup {con[cur].fd, hctx[cur].fd}
      /\ ev'.fdarray[listen_fd] = ev.fdarray[listen_fd]
      /\ listen_fd \in ev'.rd <=> listen_fd \in ev.rd
      /\ listen_fd \in ev'.wr <=> listen_fd \in ev.wr
  BY <1>1, <1>2, StepKeeps DEF OwnInv
<1>4. /\ UNCHANGED <<loopVars, ctrlVars>>
      /\ \/ pc' \in {"machine", "arm"} /\ cur' = cur /\ ret' = ret
         \/ pc' = ret /\ ret' = "none" /\ ret \notin {"machine", "arm", "none"}
  <2>1. \A s, f : Turn(s, f) => /\ UNCHANGED <<loopVars, ctrlVars>>
                                /\ pc' \in {"machine", "arm"} /\ cur' = cur /\ ret' = ret
    BY DEF Turn
  <2>2. Arm => /\ UNCHANGED <<loopVars, ctrlVars>>
               /\ pc' = ret /\ ret' = "none" /\ ret \notin {"machine", "arm", "none"}
    BY <1>1 DEF Arm, IInv, CallInv
  <2>3. Arm \/ \E s, f : Turn(s, f)
    BY DEF StateMachine, SmRequestStart, SmRead, SmRequestEnd, SmHandleRequest,
       SmResponseStart, SmWrite, SmResponseEnd, SmConnect, SmError, SmClose
  <2> QED
    BY <2>1, <2>2, <2>3
<1>5. Counters'
  <2> SUFFICES ASSUME NEW d \in Conn, con'[d].state = "CONNECT"
               PROVE  con'[d].request_count = 0 \/ (pc' = "machine" /\ cur' = d)
    BY DEF Counters
  <2>1. CASE d = cur
    BY <1>2, <1>3, <1>4, <2>1
  <2>2. CASE d # cur
    BY <1>3, <2>2 DEF OwnInv, Counters
  <2> QED
    BY <2>1, <2>2
<1>6. Listening'
  BY <1>1, <1>3, <1>4 DEF OwnInv, Listening, ctrlVars
<1>7. Dispatch'
  <2>1. pending' = pending /\ n' = n /\ sockets_disabled' = sockets_disabled
    BY <1>4 DEF loopVars, ctrlVars
  <2>2. InDispatch' \/ pc' = "accept" \/ ret' = "accept" => ret = "accept"
    BY <1>1, <1>4 DEF InDispatch, IInv, CallInv
  <2>3. ret = "accept" =>
          /\ DOMAIN pending \subseteq open \cup {listen_fd}
          /\ listen_fd \in DOMAIN pending => ~sockets_disabled /\ pending[listen_fd] = {"IN"}
          /\ OneBit => n = Cardinality(DOMAIN pending)
          /\ ~sockets_disabled
          /\ con[cur].fd \notin DOMAIN pending /\ hctx[cur].fd \notin DOMAIN pending
    BY DEF OwnInv, Dispatch, InDispatch
  <2>4. ret = "accept" => DOMAIN pending \subseteq open' \cup {listen_fd}
    BY <1>3, <2>3
  <2>5. ret' = "accept" => cur' = cur
    BY <1>4
  <2>6. -1 \notin DOMAIN pending
    BY ConstantFacts DEF IInv, LoopInv
  <2>7. ret = "accept" => con'[cur].fd \notin DOMAIN pending /\ hctx'[cur].fd \notin DOMAIN pending
    BY <1>3, <2>3, <2>6, ConstantFacts
  <2> QED
    BY <2>1, <2>2, <2>3, <2>4, <2>5, <2>7 DEF Dispatch
<1> QED
  BY <1>3, <1>5, <1>6, <1>7 DEF OwnInv

\* A signal, or an action that changes neither connections nor events nor
\* what is to be dispatched.
LEMMA QuietOwn ==
  ASSUME IInv, OwnInv, UNCHANGED <<ev, open, cur_fds, conns, con, hctx, sockets_disabled>>,
         graceful_shutdown => graceful_shutdown',
         listen_open' = listen_open \/ pc' = "done", pc = "done" => pc' = "done",
         pc = "machine" => pc' = "machine" /\ cur' = cur,
         InDispatch' => InDispatch /\ pending' = pending /\ n' = n,
         pc' = "accept" => pc = "accept",
         ret' = "accept" => ret = "accept" /\ cur' = cur
  PROVE  OwnInv'
<1>1. Holdings' /\ FdsCounted' /\ Requests'
  BY DEF OwnInv, Holdings, FdsCounted, Requests, InUse
<1>2. Counters'
  BY DEF OwnInv, Counters
<1>3. Listening'
  BY DEF OwnInv, Listening
<1>4. Dispatch'
  BY DEF OwnInv, Dispatch, InDispatch
<1> QED
  BY <1>1, <1>2, <1>3, <1>4 DEF OwnInv

\* The phases between two select() calls that touch no connection.
LEMMA PhasesOwn ==
  ASSUME IInv, OwnInv,
         \/ SameSecond \/ SweepDone \/ KeepSockets \/ CheckGraceful \/ FdWait \/ FdWaitDone
         \/ Crash \/ DispatchDone \/ AcceptDone \/ Job \/ JobsDone \/ Exit
         \/ Sigint \/ Sigterm \/ Stopped \/ UNCHANGED vars
  PROVE  OwnInv'
<1> USE DEF connVars, waitVars, loopVars, ctrlVars
<1>1. ret # "accept" \/ pc \in {"machine", "arm"}
  BY DEF IInv, CallInv
<1>2. CASE SameSecond \/ SweepDone
  BY <1>1, <1>2, QuietOwn DEF SameSecond, SweepDone, InDispatch
<1>3. CASE KeepSockets \/ CheckGraceful
  BY <1>1, <1>3, QuietOwn DEF KeepSockets, CheckGraceful, InDispatch
<1>4. CASE FdWait \/ FdWaitDone
  BY <1>1, <1>4, QuietOwn DEF FdWait, FdWaitDone, CallMachine, InDispatch
<1>5. CASE Crash
  BY <1>1, <1>5, QuietOwn DEF Crash, InDispatch
<1>6. CASE DispatchDone
  BY <1>1, <1>6, QuietOwn DEF DispatchDone, InDispatch
<1>7. CASE AcceptDone
  BY <1>1, <1>7, QuietOwn DEF AcceptDone, InDispatch
<1>8. CASE Job
  BY <1>1, <1>8, QuietOwn DEF Job, CallMachine, InDispatch
<1>9. CASE JobsDone
  BY <1>1, <1>9, QuietOwn DEF JobsDone, InDispatch
<1>10. CASE Exit
  BY <1>1, <1>10, QuietOwn DEF Exit, InDispatch
<1>11. CASE Sigint \/ Sigterm
  BY <1>11, QuietOwn DEF Sigint, Sigterm, InDispatch, Running
<1>12. CASE Stopped \/ UNCHANGED vars
  BY <1>12, QuietOwn DEF Stopped, vars, InDispatch
<1> QED
  BY <1>2, <1>3, <1>4, <1>5, <1>6, <1>7, <1>8, <1>9, <1>10, <1>11, <1>12

\* Only fields that are not held change, and the requests stay in order.
LEMMA TimesOwn ==
  ASSUME IInv, OwnInv, UNCHANGED <<ev, open, cur_fds, conns, hctx, ctrlVars, pending, n>>,
         pc \in {"alarm", "sweep"}, pc' \in {"sweep", "machine"}, ret' \in {"none", "sweep"},
         \A d \in Conn : /\ con'[d].fd = con[d].fd /\ con'[d].fde_ndx = con[d].fde_ndx
                         /\ RequestOK(con'[d], hctx[d])
                         /\ con'[d].state = "CONNECT" <=> con[d].state = "CONNECT"
                         /\ con'[d].request_count = con[d].request_count
  PROVE  OwnInv'
<1>1. /\ [d \in Conn |-> con'[d].fd] = [d \in Conn |-> con[d].fd]
      /\ [d \in Conn |-> con'[d].fde_ndx] = [d \in Conn |-> con[d].fde_ndx]
      /\ [d \in Conn |-> hctx'[d].fd] = [d \in Conn |-> hctx[d].fd]
      /\ [d \in Conn |-> hctx'[d].fde_ndx] = [d \in Conn |-> hctx[d].fde_ndx]
  OBVIOUS
<1>2. Holdings'
  BY <1>1 DEF OwnInv, Holdings
<1>3. FdsCounted' /\ Requests'
  BY DEF OwnInv, FdsCounted, Requests, InUse
<1>4. Counters'
  BY DEF OwnInv, Counters
<1>5. Listening'
  BY DEF OwnInv, Listening, ctrlVars
<1>6. Dispatch'
  BY DEF OwnInv, Dispatch, InDispatch, ctrlVars
<1> QED
  BY <1>2, <1>3, <1>4, <1>5, <1>6 DEF OwnInv

\* Once a second.
LEMMA SecondOwn ==
  ASSUME IInv, OwnInv, NewSecond
  PROVE  OwnInv'
<1>1. \A d \in Conn : con[d] \in ConRec /\ RequestOK(con[d], hctx[d])
  BY DEF IInv, TablesInv, OwnInv, Requests
<1>2. ASSUME NEW r \in ConRec, NEW h, RequestOK(r, h)
      PROVE  /\ Aged(r).fd = r.fd /\ Aged(r).fde_ndx = r.fde_ndx /\ Aged(r).state = r.state
             /\ Aged(r).request_count = r.request_count
             /\ RequestOK(Aged(r), h)
  <2> DEFINE x == Aged(r)
  <2>1. SameRequest(x, r) /\ x.state = r.state
    BY DEF SameRequest, Aged, ConRec
  <2>2. /\ x.write_queue = r.write_queue /\ x.file_finished = r.file_finished
        /\ x.is_writable = r.is_writable
    BY DEF Aged, ConRec
  <2> HIDE DEF x
  <2>3. RequestOK(x, h)
    BY <1>2, <2>1, <2>2, RequestStays
  <2> QED
    BY <2>1, <2>3 DEF SameRequest, x
<1>3. \A d \in Conn : con'[d] = Aged(con[d])
  BY DEF NewSecond
<1>4. \A d \in Conn : /\ con'[d].fd = con[d].fd /\ con'[d].fde_ndx = con[d].fde_ndx
                      /\ con'[d].state = con[d].state
                      /\ con'[d].request_count = con[d].request_count
                      /\ RequestOK(con'[d], hctx[d])
  BY <1>1, <1>2, <1>3
<1>5. ret' = "none"
  BY DEF IInv, CallInv, NewSecond
<1> QED
  BY <1>4, <1>5, TimesOwn DEF NewSecond

\* The sweep gives up a connection or lets it write again.
LEMMA SweepOwn ==
  ASSUME IInv, OwnInv, Sweep
  PROVE  OwnInv'
<1> DEFINE c == conns.ptr[i]
           r == IF TimedOut(con[c]) THEN [con[c] EXCEPT !.state = "ERROR"] ELSE con[c]
           swept(enable) == [r EXCEPT !.traffic_limit_reached = @ /\ ~enable]
<1>1. i \in Conn
  <2> DEFINE u == conns.used
  <2>1. u \in 0 .. max_conns /\ i \in 0 .. max_conns /\ i < u
    BY DEF IInv, TablesInv, PoolOK, PoolType, LoopInv, Sweep
  <2> HIDE DEF u
  <2> QED
    BY <2>1, ServerAssumption DEF Conn
<1>2. c \in Conn
  BY <1>1 DEF IInv, TablesInv, PoolOK, PoolType
<1>3. con[c] \in ConRec /\ RequestOK(con[c], hctx[c]) /\ con \in [Conn -> ConRec]
  BY <1>2 DEF IInv, TablesInv, OwnInv, Requests
<1>4. PICK enable : /\ con' = [con EXCEPT ![c] = swept(enable)]
                    /\ IF Changed(con[c], enable)
                       THEN CallMachine(c, "sweep") ELSE UNCHANGED <<pc, cur, ret>>
  BY DEF Sweep
<1> HIDE DEF c
<1>5. /\ r \in ConRec /\ SameRequest(r, con[c]) /\ r.write_queue = con[c].write_queue
      /\ r.file_finished = con[c].file_finished /\ r.is_writable = con[c].is_writable
      /\ \/ r.state = con[c].state
         \/ r.state = "ERROR" /\ con[c].state # "CONNECT"
  BY <1>3, SMTT(30) DEF ConRec, ConStates, TimedOut, SameRequest
<1> HIDE DEF r
<1>6. /\ SameRequest(swept(enable), r) /\ swept(enable).state = r.state
      /\ swept(enable).write_queue = r.write_queue
      /\ swept(enable).file_finished = r.file_finished
      /\ swept(enable).is_writable = r.is_writable
  BY <1>5 DEF ConRec, SameRequest
<1>7. con'[c] = swept(enable) /\ \A d \in Conn \ {c} : con'[d] = con[d]
  BY <1>2, <1>3, <1>4
<1> HIDE DEF swept
<1>8. RequestOK(con'[c], hctx[c])
  BY <1>3, <1>5, <1>6, <1>7, RequestStays DEF SameRequest
<1>9. /\ con'[c].fd = con[c].fd /\ con'[c].fde_ndx = con[c].fde_ndx
      /\ con'[c].state = "CONNECT" <=> con[c].state = "CONNECT"
      /\ con'[c].request_count = con[c].request_count
  BY <1>5, <1>6, <1>7 DEF SameRequest
<1>10. \A d \in Conn : /\ con'[d].fd = con[d].fd /\ con'[d].fde_ndx = con[d].fde_ndx
                       /\ RequestOK(con'[d], hctx[d])
                       /\ con'[d].state = "CONNECT" <=> con[d].state = "CONNECT"
                       /\ con'[d].request_count = con[d].request_count
  BY <1>7, <1>8, <1>9 DEF OwnInv, Requests
<1>11. pc' \in {"sweep", "machine"} /\ ret' \in {"none", "sweep"}
  BY <1>4 DEF CallMachine, IInv, CallInv, Sweep
<1> QED
  BY <1>10, <1>11, TimesOwn DEF Sweep

\* The listening socket belongs to nobody that Own speaks of.
LEMMA OwnListener ==
  ASSUME TablesInv, Holdings, ev' \in EvType, Differs(ev', ev, listen_fd),
         UNCHANGED <<open, cur_fds, conns, con, hctx>>
  PROVE  Holdings'
<1>1. listen_fd \notin Fd /\ listen_fd # 0
  BY FdAssumption DEF listen_fd, Fd
<1>2. \A fd \in Fd \cup {0} : /\ ev'.fdarray[fd] = ev.fdarray[fd]
                              /\ fd \in ev'.rd <=> fd \in ev.rd
                              /\ fd \in ev'.wr <=> fd \in ev.wr
  BY <1>1, ConstantFacts DEF Differs
<1>3. \A d \in Conn : hctx[d].fd \in Fd \cup {-1}
  BY DEF TablesInv, CtxRec
<1>4. \A d \in Conn : InUse(d) => con[d].fd \in Fd
  BY DEF Holdings, Own, InUse
<1> QED
  BY <1>2, <1>3, <1>4 DEF Holdings, Own, InUse

\* Accepting on and off (server.c:1129-1193).
LEMMA SocketsOwn ==
  ASSUME IInv, OwnInv, EnableSockets \/ DisableSockets
  PROVE  OwnInv'
<1> DEFINE on == fdevent_event_add(ev, listen_fd, "IN")
           off == fdevent_event_del(ev, listen_fd, listen_fd)
<1>1. /\ TablesInv /\ ev \in EvType /\ listen_fd \in AnyFd /\ listen_fd \in Int
      /\ listen_fd >= 0 /\ 0 \in Conn
  BY FdAssumption, ConstantFacts DEF IInv, TablesInv, listen_fd
<1>2. /\ Differs(on, ev, listen_fd) /\ on.fdarray = ev.fdarray /\ on \in EvType
      /\ listen_fd \in on.rd /\ listen_fd \notin on.wr
  BY <1>1 DEF Differs, EvType, fdevent_event_add
<1>3. /\ Differs(off, ev, listen_fd) /\ off.fdarray = ev.fdarray /\ off \in EvType
      /\ listen_fd \notin off.rd /\ listen_fd \notin off.wr
  <2>1. off = [ev EXCEPT !.rd = @ \ {listen_fd}, !.wr = @ \ {listen_fd}]
    BY <1>1 DEF fdevent_event_del
  <2> HIDE DEF off
  <2> QED
    BY <1>1, <2>1 DEF Differs, EvType
<1> HIDE DEF on, off
<1>4. /\ Differs(fdevent_unregister(off, listen_fd), ev, listen_fd)
      /\ fdevent_unregister(off, listen_fd) \in EvType
      /\ fdevent_unregister(off, listen_fd).rd = off.rd
      /\ fdevent_unregister(off, listen_fd).wr = off.wr
  BY <1>1, <1>3 DEF Differs, EvType, fdevent_unregister, NoNode
<1>5. /\ Differs(StopListening(ev), ev, listen_fd) /\ StopListening(ev) \in EvType
      /\ listen_fd \notin StopListening(ev).rd /\ listen_fd \notin StopListening(ev).wr
      /\ ~graceful_shutdown => StopListening(ev).fdarray = ev.fdarray
  BY <1>3, <1>4 DEF StopListening, off
<1>6. /\ UNCHANGED <<open, cur_fds, conns, con, hctx, cur, ret, graceful_shutdown, pending, n>>
      /\ pc = "sockets" /\ pc' = "graceful" /\ ret = "none"
  BY DEF IInv, CallInv, EnableSockets, DisableSockets, loopVars
<1>7. Differs(ev', ev, listen_fd) /\ ev' \in EvType
  BY <1>2, <1>5 DEF EnableSockets, DisableSockets, on
<1>8. Holdings'
  BY <1>1, <1>6, <1>7, OwnListener DEF OwnInv
<1>9. FdsCounted' /\ Requests' /\ Counters'
  BY <1>6 DEF OwnInv, FdsCounted, Requests, InUse, Counters
<1>10. Dispatch'
  BY <1>6 DEF Dispatch, InDispatch
<1>11. CASE EnableSockets
  <2>1. /\ ev' = on /\ ~graceful_shutdown /\ sockets_disabled' = FALSE
        /\ listen_open' = listen_open
    BY <1>11 DEF EnableSockets, MayEnable, on
  <2>3. listen_open
    BY <1>6, <2>1 DEF OwnInv, Listening
  <2>4. ev'.fdarray[listen_fd].handler = "server" /\ graceful_shutdown' = graceful_shutdown
    BY <1>2, <1>6, <2>1 DEF OwnInv, Listening
  <2>5. listen_fd \in ev'.rd /\ listen_fd \notin ev'.wr
    BY <1>2, <2>1
  <2>6. listen_open' /\ ~sockets_disabled'
    BY <2>1, <2>3
  <2>2. Listening'
    BY <2>4, <2>5, <2>6 DEF Listening
  <2> QED
    BY <1>8, <1>9, <1>10, <2>2 DEF OwnInv
<1>12. CASE DisableSockets
  <2>1. ev' = StopListening(ev) /\ ~sockets_disabled /\ sockets_disabled' = TRUE
    BY <1>12 DEF DisableSockets
  <2>2. listen_open' = (listen_open /\ ~graceful_shutdown) /\ listen_open
    BY <1>6, <1>12, <2>1 DEF OwnInv, Listening, DisableSockets
  <2>3. ~listen_open' => graceful_shutdown
    BY <2>2
  <2>4. ~graceful_shutdown => ev'.fdarray[listen_fd].handler = "server"
    BY <1>5, <2>1 DEF OwnInv, Listening
  <2>5. listen_fd \notin ev'.rd /\ listen_fd \notin ev'.wr
    BY <1>5, <2>1
  <2>6. sockets_disabled' /\ (graceful_shutdown' <=> graceful_shutdown)
    BY <1>6, <2>1
  <2>7. Listening'
    BY <2>3, <2>4, <2>5, <2>6 DEF Listening
  <2> QED
    BY <1>8, <1>9, <1>10, <2>7 DEF OwnInv
<1> QED
  BY <1>11, <1>12

\* With one bit for each descriptor, select() returns the number of descriptors.
LEMMA BitsAreDescriptors ==
  ASSUME OneBit, NEW p, IsFiniteSet(DOMAIN p), \A fd \in DOMAIN p : p[fd] \in Reports
  PROVE  BitCount(p) = Cardinality(DOMAIN p)
<1> DEFINE S == DOMAIN p
           B == {b \in S \X {"IN", "OUT", "ERR"} : b[2] \in p[b[1]]}
           f == [b \in B |-> b[1]]
<1>1. f \in [B -> S]
  OBVIOUS
<1>2. ASSUME NEW a \in B, NEW b \in B, f[a] = f[b]
      PROVE  a = b
  <2>1. a[1] = b[1] /\ a[1] \in S /\ a[2] \in p[a[1]] /\ b[2] \in p[a[1]]
    BY <1>2
  <2>2. PICK x : p[a[1]] = {x}
    BY <2>1 DEF OneBit
  <2>3. a[2] = b[2]
    BY <2>1, <2>2
  <2>4. a = <<a[1], a[2]>> /\ b = <<b[1], b[2]>>
    OBVIOUS
  <2> QED
    BY <2>1, <2>3, <2>4
<1>3. ASSUME NEW fd \in S
      PROVE  \E b \in B : f[b] = fd
  <2>1. PICK x \in {"IN", "OUT", "ERR"} : p[fd] = {x}
    BY DEF OneBit
  <2>2. <<fd, x>> \in B
    BY <2>1
  <2> QED
    BY <2>2
<1>4. f \in Bijection(B, S)
  BY <1>1, <1>2, <1>3 DEF Bijection, Injection, Surjection, IsInjective
<1>5. ExistsBijection(B, S)
  BY <1>4 DEF ExistsBijection
<1>6. Cardinality(B) = Cardinality(S)
  <2> HIDE DEF B, S
  <2>1. IsFiniteSet(S)
    BY DEF S
  <2>2. ExistsBijection(S, B)
    BY <1>5, Fun_ExistsBijSymmetric
  <2> QED
    BY <2>1, <2>2, FS_Bijection
<1> QED
  BY <1>6 DEF BitCount

\* select() reports open descriptors that somebody waits for (server.c:1231).
LEMMA PollOwn ==
  ASSUME IInv, OwnInv, Poll
  PROVE  OwnInv'
<1>1. /\ UNCHANGED <<ev, open, cur_fds, conns, con, hctx, ctrlVars, cur, ret>>
      /\ pc = "poll" /\ pc' = "dispatch" /\ ret = "none"
      /\ pending' \in fdevent_select_poll(ev) /\ n' = BitCount(pending')
  BY DEF Poll, connVars, IInv, CallInv
<1>2. PICK reported \in SUBSET (ev.rd \cup ev.wr) :
        pending' \in [reported -> Reports] /\ \A fd \in reported : pending'[fd] \in ReportsFor(ev, fd)
  BY <1>1 DEF fdevent_select_poll
<1>3. DOMAIN pending' = reported /\ \A fd \in reported : pending'[fd] \in Reports
  BY <1>2
<1>4. reported \subseteq open \cup {listen_fd} /\ reported \subseteq AnyFd
  <2>1. ev.rd \cup ev.wr \subseteq AnyFd /\ 0 \notin ev.rd \cup ev.wr
    BY DEF IInv, TablesInv, EvType, OwnInv, Holdings, Own
  <2>2. \A fd \in Fd : fd \in ev.rd \cup ev.wr => fd \in open
    BY DEF OwnInv, Holdings, Own
  <2> QED
    BY <2>1, <2>2, ConstantFacts
<1>5. listen_fd \in reported => ~sockets_disabled /\ pending'[listen_fd] = {"IN"}
  <2> SUFFICES ASSUME listen_fd \in reported PROVE ~sockets_disabled /\ pending'[listen_fd] = {"IN"}
    OBVIOUS
  <2>1. listen_fd \notin ev.wr /\ ~sockets_disabled
    BY <1>2 DEF OwnInv, Listening
  <2>2. pending'[listen_fd] \in ReportsFor(ev, listen_fd)
    BY <1>2
  <2>3. /\ "OUT" \notin pending'[listen_fd] /\ "ERR" \notin pending'[listen_fd]
        /\ pending'[listen_fd] \in SUBSET {"IN", "OUT", "ERR"} /\ pending'[listen_fd] # {}
    BY <2>1, <2>2, FdAssumption DEF ReportsFor
  <2> QED
    BY <2>1, <2>3
<1>6. OneBit => n' = Cardinality(DOMAIN pending')
  <2>1. IsFiniteSet(DOMAIN pending')
    <3>1. IsFiniteSet(Fd)
      BY FS_Interval, FdAssumption DEF Fd
    <3>2. IsFiniteSet(Fd \cup {listen_fd})
      BY <3>1, FS_AddElement
    <3>3. IsFiniteSet((Fd \cup {listen_fd}) \cup {0})
      BY <3>2, FS_AddElement
    <3>4. reported \subseteq (Fd \cup {listen_fd}) \cup {0}
      BY <1>4 DEF AnyFd
    <3>5. IsFiniteSet(reported)
      BY <3>3, <3>4, FS_Subset
    <3> QED
      BY <1>3, <3>5
  <2>2. \A fd \in DOMAIN pending' : pending'[fd] \in Reports
    BY <1>3
  <2> QED
    BY <1>1, <2>1, <2>2, BitsAreDescriptors
<1>7. Holdings' /\ FdsCounted' /\ Requests'
  BY <1>1 DEF OwnInv, Holdings, FdsCounted, Requests, InUse
<1>8. Counters' /\ Listening'
  BY <1>1 DEF OwnInv, Counters, Listening, ctrlVars
<1>9. Dispatch'
  BY <1>1, <1>3, <1>4, <1>5, <1>6 DEF Dispatch, InDispatch, ctrlVars
<1> QED
  BY <1>7, <1>8, <1>9 DEF OwnInv

\* The dispatch loop takes the report of fd out.
LEMMA TakeReport ==
  ASSUME IInv, OwnInv, NEW fd \in DOMAIN pending, NEW handler, Dispatching(fd, handler)
  PROVE  /\ pc = "dispatch" /\ ret = "none"
         /\ DOMAIN pending' = (DOMAIN pending) \ {fd}
         /\ \A other \in DOMAIN pending' : pending'[other] = pending[other]
         /\ OneBit => n' = Cardinality(DOMAIN pending')
         /\ DOMAIN pending \subseteq open \cup {listen_fd}
         /\ listen_fd \in DOMAIN pending => ~sockets_disabled /\ pending[listen_fd] = {"IN"}
         /\ ev.fdarray[fd].handler = handler
         /\ fd \in Fd \/ handler = "server"
<1>1. /\ pc = "dispatch" /\ n' = n - 1 /\ ev.fdarray[fd].handler = handler
      /\ pending' = [other \in (DOMAIN pending) \ {fd} |-> pending[other]]
  BY DEF Dispatching
<1>2. /\ DOMAIN pending' = (DOMAIN pending) \ {fd}
      /\ \A other \in DOMAIN pending' : pending'[other] = pending[other]
  BY <1>1
<1>3. /\ DOMAIN pending \subseteq open \cup {listen_fd}
      /\ listen_fd \in DOMAIN pending => ~sockets_disabled /\ pending[listen_fd] = {"IN"}
      /\ OneBit => n = Cardinality(DOMAIN pending)
  BY <1>1 DEF OwnInv, Dispatch, InDispatch
<1>4. Cardinality((DOMAIN pending) \ {fd}) = Cardinality(DOMAIN pending) - 1
  <2>1. IsFiniteSet(Fd)
    BY FS_Interval, FdAssumption DEF Fd
  <2>2. IsFiniteSet(Fd \cup {listen_fd})
    BY <2>1, FS_AddElement
  <2>3. DOMAIN pending \subseteq Fd \cup {listen_fd}
    BY <1>3 DEF IInv, TablesInv
  <2>4. IsFiniteSet(DOMAIN pending)
    BY <2>2, <2>3, FS_Subset
  <2> QED
    BY <2>4, FS_RemoveElement
<1>5. fd \in Fd \/ handler = "server"
  BY <1>1, <1>3 DEF OwnInv, Listening, IInv, TablesInv
<1>6. ret = "none"
  BY <1>1 DEF IInv, CallInv
<1> QED
  BY <1>1, <1>2, <1>3, <1>4, <1>5, <1>6

\* A handler that closes nothing but the descriptor it was called for.
LEMMA EventOwn ==
  ASSUME IInv, OwnInv, NEW fd \in DOMAIN pending, NEW handler, Dispatching(fd, handler),
         NEW c \in Conn, NEW g, Step(c, g), g.r.state # "CONNECT", Commit(c, g),
         open \ {fd} \subseteq open', UNCHANGED <<pc, cur, ret, ctrlVars>>
  PROVE  OwnInv'
<1>1. /\ pc = "dispatch" /\ ret = "none"
      /\ DOMAIN pending' = (DOMAIN pending) \ {fd}
      /\ \A other \in DOMAIN pending' : pending'[other] = pending[other]
      /\ OneBit => n' = Cardinality(DOMAIN pending')
      /\ DOMAIN pending \subseteq open \cup {listen_fd}
      /\ listen_fd \in DOMAIN pending => ~sockets_disabled /\ pending[listen_fd] = {"IN"}
  BY TakeReport
<1>2. /\ Holdings' /\ FdsCounted' /\ Requests'
      /\ con'[c] = g.r
      /\ \A d \in Conn \ {c} : con'[d] = con[d]
      /\ ev'.fdarray[listen_fd] = ev.fdarray[listen_fd]
      /\ listen_fd \in ev'.rd <=> listen_fd \in ev.rd
      /\ listen_fd \in ev'.wr <=> listen_fd \in ev.wr
  BY StepKeeps DEF OwnInv, IInv
<1>3. Counters'
  <2> SUFFICES ASSUME NEW d \in Conn, con'[d].state = "CONNECT"
               PROVE  con'[d].request_count = 0
    BY DEF Counters
  <2> QED
    BY <1>1, <1>2 DEF OwnInv, Counters
<1>4. Listening'
  BY <1>1, <1>2 DEF OwnInv, Listening, ctrlVars
<1>5. Dispatch'
  <2>1. /\ DOMAIN pending' \subseteq open' \cup {listen_fd}
        /\ listen_fd \in DOMAIN pending' => ~sockets_disabled /\ pending'[listen_fd] = {"IN"}
    BY <1>1
  <2> QED
    BY <1>1, <2>1 DEF Dispatch, InDispatch, ctrlVars
<1> QED
  BY <1>2, <1>3, <1>4, <1>5 DEF OwnInv

\* The handler of fd has made frame g of connection c.
EventStep(c, g, fd, handler) ==
  /\ Step(c, g) /\ g.r.state # "CONNECT" /\ Commit(c, g)
  /\ Dispatching(fd, handler) /\ open \ {fd} \subseteq open'
  /\ con[c].state # "CONNECT"
  /\ \/ handler = "connection" /\ g \in connection_handle_fdevent(Frame(c), pending[fd])
     \/ /\ handler = "fcgi" /\ con[c].mode = "FASTCGI"
        /\ g \in fcgi_handle_fdevent(c, Frame(c), pending[fd])

\* The handlers of clients and backends are such.
LEMMA EventSteps ==
  ASSUME IInv, OwnInv, ConnectionEvent \/ BackendEvent
  PROVE  \E c \in Conn, fd \in DOMAIN pending, handler \in {"connection", "fcgi"} :
           \E g : EventStep(c, g, fd, handler)
<1>0. TablesInv /\ Holdings /\ FdsCounted /\ Requests
  BY DEF IInv, OwnInv
<1>1. \A fd \in AnyFd : ev.fdarray[fd].ctx \in Conn
  BY <1>0 DEF TablesInv, EvType
<1>2. CASE ConnectionEvent
  <2>1. PICK fd \in DOMAIN pending :
          /\ Dispatching(fd, "connection")
          /\ \E g \in connection_handle_fdevent(Frame(ev.fdarray[fd].ctx), pending[fd]) :
               Commit(ev.fdarray[fd].ctx, g)
    BY <1>2 DEF ConnectionEvent
  <2>2. Dispatching(fd, "connection")
    BY <2>1
  <2>3. fd \in Fd /\ ev.fdarray[fd].handler = "connection"
    BY <2>2, TakeReport
  <2>4. PICK c \in Conn : c = ev.fdarray[fd].ctx
    BY <1>1, <2>3, ConstantFacts
  <2> DEFINE b == Frame(c)
  <2>5. PICK g \in connection_handle_fdevent(b, pending[fd]) : Commit(c, g)
    BY <2>1, <2>4
  <2>6. InUse(c)
    BY <1>0, <2>3, <2>4 DEF Holdings, Own, InUse
  <2>7. con[c].state # "CONNECT"
    BY <1>0, <2>6 DEF Requests
  <2>8. FrameOK(b) /\ RequestOK(b.r, b.h) /\ b.r = con[c] /\ b.open = open
    BY <1>0, FrameHolds
  <2> HIDE DEF b
  <2>9. Stays(g, b)
    BY <2>5, <2>7, <2>8, ConnectionEventRequest
  <2>10. Step(c, g) /\ g.r.state # "CONNECT"
    BY <1>0, <2>7, <2>9, StaysStep DEF b
  <2>11. open' = open
    BY <2>5, <2>8, <2>9 DEF Commit, Stays, SameFds
  <2>12. EventStep(c, g, fd, "connection")
    BY <2>2, <2>5, <2>7, <2>10, <2>11 DEF EventStep, b
  <2> QED
    BY <2>12
<1>3. CASE BackendEvent
  <2>1. PICK fd \in DOMAIN pending :
          /\ Dispatching(fd, "fcgi")
          /\ \E g \in fcgi_handle_fdevent(ev.fdarray[fd].ctx, Frame(ev.fdarray[fd].ctx),
                                          pending[fd]) :
               Commit(ev.fdarray[fd].ctx, g)
    BY <1>3 DEF BackendEvent
  <2>2. Dispatching(fd, "fcgi")
    BY <2>1
  <2>3. fd \in Fd /\ ev.fdarray[fd].handler = "fcgi"
    BY <2>2, TakeReport
  <2>4. PICK c \in Conn : c = ev.fdarray[fd].ctx
    BY <1>1, <2>3, ConstantFacts
  <2> DEFINE b == Frame(c)
  <2>5. PICK g \in fcgi_handle_fdevent(c, b, pending[fd]) : Commit(c, g)
    BY <2>1, <2>4
  <2>6. hctx[c].fd = fd /\ hctx[c].fd # -1
    <3> DEFINE hfd == [d \in Conn |-> hctx[d].fd]
    <3>1. hfd[c] = hctx[c].fd
      OBVIOUS
    <3> HIDE DEF hfd
    <3>2. hfd[c] = fd
      BY <1>0, <2>3, <2>4 DEF Holdings, Own, hfd
    <3>3. fd # -1
      BY <2>3, ConstantFacts
    <3> QED
      BY <3>1, <3>2, <3>3
  <2>7. con[c] \in ConRec
    BY <1>0 DEF TablesInv
  <2>8. con[c].mode = "FASTCGI" /\ con[c].state # "CONNECT"
    BY <1>0, <2>6, <2>7, NoCtxOK DEF Requests, RequestOK, ConRec, Idle
  <2>9. FrameOK(b) /\ Holds(c, b) /\ RequestOK(b.r, b.h) /\ b.r = con[c]
    BY <1>0, FrameHolds
  <2> HIDE DEF b
  <2>10. Follows(c, g, b)
    BY <1>0, <2>5, <2>8, <2>9, BackendEventOwn
  <2>11. Step(c, g) /\ g.r.state # "CONNECT"
    BY <1>0, <2>8, <2>10, FollowsStep DEF b
  <2>12. open \ {fd} \subseteq open'
    <3>1. /\ TablesInv' /\ Holdings' /\ Requests' /\ con'[c] = g.r
          /\ con'[c].fd = con[c].fd /\ open \subseteq open' \cup {con[c].fd, hctx[c].fd}
      BY <1>0, <2>5, <2>11, StepKeeps
    <3>2. OpenOwned'
      BY <3>1, OpenFacts, PTL
    <3>3. InUse(c)'
      BY <2>11, <3>1 DEF Requests
    <3> QED
      BY <2>6, <3>1, <3>2, <3>3 DEF OpenOwned
  <2>13. EventStep(c, g, fd, "fcgi")
    BY <2>2, <2>5, <2>8, <2>11, <2>12 DEF EventStep, b
  <2> QED
    BY <2>13
<1> QED
  BY <1>2, <1>3

\* select()'s reports are handled one by one.
LEMMA EventsOwn ==
  ASSUME IInv, OwnInv, ConnectionEvent \/ BackendEvent \/ ServerEvent
  PROVE  OwnInv'
<1>1. CASE ConnectionEvent \/ BackendEvent
  <2>1. PICK c \in Conn, fd \in DOMAIN pending, handler \in {"connection", "fcgi"} :
          \E g : EventStep(c, g, fd, handler)
    BY <1>1, EventSteps
  <2>2. UNCHANGED <<pc, cur, ret, ctrlVars>>
    BY <1>1 DEF ConnectionEvent, BackendEvent
  <2>3. PICK g : EventStep(c, g, fd, handler)
    BY <2>1
  <2> QED
    BY <2>2, <2>3, EventOwn DEF EventStep
<1>2. CASE ServerEvent
  <2>1. PICK fd \in DOMAIN pending : Dispatching(fd, "server")
    BY <1>2 DEF ServerEvent
  <2>2. /\ pc = "dispatch" /\ ret = "none"
        /\ DOMAIN pending' = (DOMAIN pending) \ {fd}
        /\ \A other \in DOMAIN pending' : pending'[other] = pending[other]
        /\ OneBit => n' = Cardinality(DOMAIN pending')
        /\ DOMAIN pending \subseteq open \cup {listen_fd}
        /\ listen_fd \in DOMAIN pending => ~sockets_disabled /\ pending[listen_fd] = {"IN"}
        /\ ev.fdarray[fd].handler = "server"
    BY <2>1, TakeReport
  <2>3. /\ UNCHANGED <<ev, open, cur_fds, conns, con, hctx, cur, ret, ctrlVars>>
        /\ pc' = "accept"
    BY <1>2 DEF ServerEvent, connVars
  <2>4. fd = listen_fd
    <3>1. \A x \in Fd : ev.fdarray[x].handler # "server"
      BY DEF OwnInv, Holdings, Own
    <3> QED
      BY <2>2, <3>1 DEF IInv, TablesInv
  <2>5. ~sockets_disabled
    BY <2>2, <2>4
  <2>6. Holdings' /\ FdsCounted' /\ Requests' /\ Counters' /\ Listening'
    BY <2>2, <2>3 DEF OwnInv, Holdings, FdsCounted, Requests, InUse, Counters, Listening, ctrlVars
  <2>7. Dispatch'
    BY <2>2, <2>3, <2>5 DEF Dispatch, InDispatch, ctrlVars
  <2> QED
    BY <2>6, <2>7 DEF OwnInv
<1> QED
  BY <1>1, <1>2

\* A connection outside the pool has no backend, and no keep-alive is left.
LEMMA OutsideFacts ==
  ASSUME IInv, OwnInv, NEW c \in Conn, ~InUse(c), pc # "machine"
  PROVE  /\ con[c].state = "CONNECT" /\ con[c].mode = "DIRECT" /\ hctx[c] = NoCtx
         /\ con[c].request_count = 0 /\ ~con[c].keep_alive
<1>1. RequestOK(con[c], hctx[c]) /\ con[c].state = "CONNECT"
  BY DEF OwnInv, Requests
<1>2. con[c].mode = "DIRECT"
  BY <1>1 DEF RequestOK, Idle
<1>3. hctx[c] = NoCtx
  BY <1>1, <1>2 DEF RequestOK
<1>4. con[c].request_count = 0 /\ ~con[c].keep_alive
  BY <1>1 DEF OwnInv, Counters, RequestOK
<1> QED
  BY <1>1, <1>2, <1>3, <1>4

\* The slot that connections_get_new_connection takes (connections.c:43).
LEMMA FreeSlot ==
  ASSUME TablesInv, conns.used < max_conns
  PROVE  LET c == conns.ptr[conns.used]
             p == connections_get_new_connection(conns)
         IN /\ c \in Conn /\ conns.ndx[c] = -1 /\ p.ndx[c] # -1
            /\ \A d \in Conn \ {c} : p.ndx[d] = conns.ndx[d]
            /\ p.used = conns.used + 1
<1> DEFINE u == conns.used
           c == conns.ptr[u]
           p == connections_get_new_connection(conns)
           ndx == [conns.ndx EXCEPT ![c] = u]
<1>1. PoolOK(conns) /\ conns \in PoolType
  BY DEF TablesInv, PoolOK
<1>2. u \in 0 .. max_conns /\ u < max_conns
  BY <1>1 DEF PoolType
<1>3. p = [conns EXCEPT !.ndx = ndx, !.used = u + 1]
  BY DEF connections_get_new_connection
<1> HIDE DEF u, ndx, p
<1>4. u \in Conn
  BY <1>2, ServerAssumption DEF Conn
<1>5. c \in Conn
  BY <1>1, <1>4 DEF PoolType
<1>6. conns.ndx[c] = -1
  <2>1. conns.ndx[conns.ptr[u]] = IF u < conns.used THEN u ELSE -1
    BY <1>1, <1>4 DEF PoolOK
  <2>2. ~(u < conns.used)
    BY <1>2 DEF u
  <2> QED
    BY <2>1, <2>2
<1>7. p.ndx = ndx /\ p.used = u + 1
  BY <1>1, <1>3 DEF PoolType
<1>8. /\ ndx[c] = u
      /\ \A d \in Conn \ {c} : ndx[d] = conns.ndx[d]
  BY <1>1, <1>5 DEF PoolType, ndx
<1>9. u # -1
  BY <1>4, ConstantFacts
<1> QED
  BY <1>5, <1>6, <1>7, <1>8, <1>9 DEF p, u

\* A connection outside the pool is reset again.
LEMMA ResetOutside ==
  ASSUME TablesInv, Holdings, FdsCounted, Requests, NEW c \in Conn,
         ~con[c].keep_alive, hctx[c] = NoCtx
  PROVE  LET g == connection_reset(Frame(c))
         IN /\ FrameOK(g) /\ Holds(c, g) /\ g.h = NoCtx /\ g.conns = conns /\ g.open = open
            /\ ~g.r.keep_alive /\ g.r.mode = "DIRECT" /\ g.r.decided = FALSE
            /\ g.r.write_queue = FALSE /\ g.r.file_finished = FALSE /\ g.r.is_writable = TRUE
            /\ g.r.bad_version = FALSE
<1> DEFINE b == Frame(c)
           x == fcgi_connection_close(b)
           q == [x.r EXCEPT !.is_readable = TRUE, !.is_writable = TRUE,
                            !.decided = FALSE, !.bad_version = FALSE,
                            !.file_finished = FALSE, !.file_started = FALSE,
                            !.mode = "DIRECT", !.write_queue = FALSE]
           g == connection_reset(b)
<1>1. /\ FrameOK(b) /\ Holds(c, b) /\ b.r = con[c] /\ b.h = NoCtx
      /\ b.conns = conns /\ b.open = open
  BY FrameHolds
<1>2. g = [x EXCEPT !.r = q]
  BY DEF connection_reset
<1> HIDE DEF b
<1>3. x = b
  BY <1>1, NoCtxOK DEF fcgi_connection_close
<1>4. b.h.state = "NULL" => b.h = NoCtx
  BY <1>1
<1>5. /\ FrameOK(g) /\ Holds(c, g) /\ g.h = NoCtx /\ g.conns = b.conns
      /\ g.r.keep_alive = b.r.keep_alive /\ g.r.bad_version = FALSE
      /\ g.r.mode = "DIRECT" /\ g.r.decided = FALSE /\ g.r.write_queue = FALSE
      /\ g.r.file_finished = FALSE /\ g.r.is_writable = TRUE
  <2> HIDE DEF x, q
  <2> QED
    BY <1>1, <1>4, ResetOwn
<1> HIDE DEF q, x, g
<1>6. g.open = open
  BY <1>1, <1>2, <1>3 DEF FrameOK, FrameType
<1> QED
  BY <1>1, <1>5, <1>6 DEF b, g

\* connection_accept (connections.c:1296): the client's descriptor has its
\* owner and is counted, and the connection starts clean.
LEMMA AcceptedHolds ==
  ASSUME IInv, OwnInv, pc = "accept", conns.used < max_conns,
         NEW c \in Conn, c = conns.ptr[conns.used], NEW fd \in FreeFd(Frame(c))
  PROVE  LET f == Accepted(c, fd)
         IN /\ Good(f) /\ Holds(c, f) /\ RequestOK(f.r, f.h)
            /\ f.r.state = "REQUEST_START" /\ f.r.fd = fd /\ f.h = NoCtx
            /\ fd \in Fd \ open /\ f.open = open \cup {fd}
            /\ f.conns.ndx[c] # -1 /\ ~InUse(c)
            /\ f.conns.used = conns.used + 1
<1> DEFINE b == Frame(c)
           g == connection_reset(b)
           r == [g.r EXCEPT !.fd = fd, !.fde_ndx = NotArmed, !.state = "REQUEST_START"]
           e == fdevent_register(g.ev, fd, "connection", c)
           p == connections_get_new_connection(g.conns)
           f == Accepted(c, fd)
<1>1. /\ ~InUse(c) /\ conns.ndx[c] = -1
      /\ connections_get_new_connection(conns).ndx[c] # -1
      /\ \A d \in Conn \ {c} : connections_get_new_connection(conns).ndx[d] = conns.ndx[d]
      /\ connections_get_new_connection(conns).used = conns.used + 1
  BY FreeSlot DEF IInv, InUse
<1>2. con[c].mode = "DIRECT" /\ hctx[c] = NoCtx /\ ~con[c].keep_alive
  BY <1>1, OutsideFacts
<1>3. /\ Good(b) /\ FrameOK(b) /\ Holds(c, b) /\ b.r = con[c] /\ b.h = NoCtx
      /\ b.conns = conns /\ b.open = open /\ b.ev = ev
  BY <1>2, FrameHolds DEF IInv, OwnInv
<1>4. fd \in Fd \ open
  BY <1>3 DEF FreeFd
<1>5. f = [g EXCEPT !.r = r, !.ev = e, !.open = @ \cup {fd},
                    !.cur_fds = @ + 1, !.conns = p]
  BY DEF Accepted
<1>6. Good(f)
  BY <1>4, AcceptedOK DEF IInv
<1>7. /\ FrameOK(g) /\ Holds(c, g) /\ g.h = NoCtx /\ g.conns = conns /\ g.open = open
      /\ ~g.r.keep_alive /\ g.r.mode = "DIRECT" /\ g.r.decided = FALSE
      /\ g.r.write_queue = FALSE /\ g.r.file_finished = FALSE /\ g.r.is_writable = TRUE
      /\ g.r.bad_version = FALSE
  BY <1>2, ResetOutside DEF IInv, OwnInv
<1> HIDE DEF b, g
<1>9. /\ r.fd = fd /\ r.fde_ndx = NotArmed /\ r.state = "REQUEST_START"
      /\ ~r.keep_alive /\ r.mode = "DIRECT" /\ r.decided = FALSE
      /\ r.write_queue = FALSE /\ r.file_finished = FALSE /\ r.is_writable = TRUE
      /\ r.bad_version = FALSE
  BY <1>7 DEF FrameOK, FrameType, ConRec
<1>10. p = connections_get_new_connection(conns)
  BY <1>7
<1> HIDE DEF r, e, p, f
<1>11. /\ f.r = r /\ f.ev = e /\ f.open = g.open \cup {fd} /\ f.cur_fds = g.cur_fds + 1
       /\ f.conns = p /\ f.h = g.h
  BY <1>5, <1>7 DEF FrameOK, FrameType
<1>12. Holds(c, f)
  <2>1. f.ev = fdevent_register(g.ev, fd, "connection", c)
    BY <1>11 DEF e
  <2>2. /\ fd \in Fd \ g.open /\ f.conns.ndx[c] # -1 /\ g.conns.ndx[c] = -1
        /\ \A d \in Conn \ {c} : f.conns.ndx[d] = g.conns.ndx[d]
        /\ f.r.fd = fd /\ f.h.fd = g.h.fd /\ f.h.fde_ndx = g.h.fde_ndx
    BY <1>1, <1>4, <1>7, <1>9, <1>10, <1>11
  <2> QED
    BY <1>7, <1>11, <2>1, <2>2, HoldsAccept DEF IInv
<1>13. RequestOK(f.r, f.h)
  BY <1>7, <1>9, <1>11, NoCtxOK, ServerAssumption DEF RequestOK, Idle, Fresh, Prepared
<1> QED
  BY <1>1, <1>4, <1>6, <1>7, <1>9, <1>10, <1>11, <1>12, <1>13 DEF f

\* A client is accepted, or given up again because of fcntl().
LEMMA AcceptOwn ==
  ASSUME IInv, OwnInv, Accept
  PROVE  OwnInv'
<1> DEFINE slot == conns.ptr[conns.used]
<1>1. pc = "accept" /\ conns.used < max_conns /\ slot \in Conn
  BY FreeSlot DEF Accept, IInv
<1>2. PICK fd \in FreeFd(Frame(slot)) :
        /\ Commit(slot, Accepted(slot, fd))
        /\ \/ CallMachine(slot, "accept") /\ k' = k + 1
           \/ "fcntl" \in Faults /\ pc' = "dispatch" /\ k' = 0 /\ UNCHANGED <<cur, ret>>
  BY DEF Accept
<1>3. UNCHANGED <<waitVars, i, pending, n, ctrlVars>>
  BY DEF Accept
<1>4. PICK c \in Conn : c = slot
  BY <1>1
<1> DEFINE f == Accepted(c, fd)
<1>5. fd \in FreeFd(Frame(c)) /\ c = conns.ptr[conns.used]
  BY <1>2, <1>4
<1>6. /\ Good(f) /\ Holds(c, f) /\ RequestOK(f.r, f.h)
      /\ f.r.state = "REQUEST_START" /\ f.r.fd = fd /\ f.h = NoCtx
      /\ fd \in Fd \ open /\ f.open = open \cup {fd}
      /\ f.conns.ndx[c] # -1
  BY <1>1, <1>5, AcceptedHolds
<1>7. Commit(c, f)
  BY <1>2, <1>4
<1>8. \/ pc' = "machine" /\ cur' = c /\ ret' = "accept"
      \/ pc' = "dispatch" /\ cur' = cur /\ ret' = ret
  BY <1>2, <1>4 DEF CallMachine
<1> HIDE DEF f, slot
<1>9. /\ Holdings' /\ FdsCounted' /\ con'[c] = f.r /\ hctx'[c] = f.h
      /\ \A d \in Conn \ {c} : con'[d] = con[d] /\ hctx'[d] = hctx[d]
  BY <1>6, <1>7, CommitHolds DEF IInv, Good
<1>10. conns' = f.conns /\ ev' = f.ev /\ open' = f.open
  BY <1>7 DEF Commit
<1>11. /\ \A d \in Conn \ {c} : conns'.ndx[d] = -1 <=> conns.ndx[d] = -1
       /\ ev'.fdarray[listen_fd] = ev.fdarray[listen_fd]
       /\ listen_fd \in ev'.rd <=> listen_fd \in ev.rd
       /\ listen_fd \in ev'.wr <=> listen_fd \in ev.wr
  BY <1>6, <1>10 DEF Holds, Aside
<1>12. Requests'
  BY <1>6, <1>9, <1>10, <1>11 DEF OwnInv, Requests, InUse
<1>13. Counters'
  BY <1>1, <1>6, <1>9 DEF OwnInv, Counters
<1>14. Listening'
  BY <1>1, <1>3, <1>8, <1>11 DEF OwnInv, Listening, ctrlVars
<1>15. Dispatch'
  <2>1. /\ DOMAIN pending \subseteq open \cup {listen_fd}
        /\ listen_fd \in DOMAIN pending => ~sockets_disabled /\ pending[listen_fd] = {"IN"}
        /\ OneBit => n = Cardinality(DOMAIN pending)
        /\ ~sockets_disabled
    BY <1>1 DEF OwnInv, Dispatch, InDispatch
  <2>2. pending' = pending /\ n' = n /\ (sockets_disabled' <=> sockets_disabled)
    BY <1>3 DEF ctrlVars
  <2>3. DOMAIN pending \subseteq open' \cup {listen_fd}
    BY <1>6, <1>10, <2>1
  <2>4. con'[c].fd \notin DOMAIN pending /\ hctx'[c].fd \notin DOMAIN pending
    <3>1. -1 \notin DOMAIN pending /\ fd # listen_fd
      BY <1>6, ConstantFacts DEF IInv, LoopInv
    <3> QED
      BY <1>6, <1>9, <2>1, <3>1, NoCtxOK
  <2>5. ret = "none"
    BY <1>1 DEF IInv, CallInv
  <2>6. CASE pc' = "machine" /\ cur' = c /\ ret' = "accept"
    BY <2>1, <2>2, <2>3, <2>4, <2>6 DEF Dispatch
  <2>7. CASE pc' = "dispatch" /\ cur' = cur /\ ret' = ret
    BY <2>1, <2>2, <2>3, <2>5, <2>7 DEF Dispatch
  <2> QED
    BY <1>8, <2>6, <2>7
<1> QED
  BY <1>9, <1>12, <1>13, <1>14, <1>15 DEF OwnInv

-----------------------------------------------------------------------------
\* The theorems.

\* When the worker starts nothing is held, and the listening socket is watched.
LEMMA OwnInit == Init => OwnInv
<1> SUFFICES ASSUME Init PROVE OwnInv
  OBVIOUS
<1>1. /\ con = [c \in Conn |-> connection_init] /\ hctx = [c \in Conn |-> NoCtx]
      /\ conns.ndx = [c \in Conn |-> -1] /\ open = {} /\ cur_fds = base_fds
      /\ ev.rd = {listen_fd} /\ ev.wr = {}
      /\ ev.fdarray = [fd \in AnyFd |-> IF fd = listen_fd
                                        THEN [handler |-> "server", ctx |-> 0]
                                        ELSE NoNode]
      /\ pc = "alarm" /\ ret = "none"
  BY DEF Init
<1>2. \A fd \in Fd : ev.fdarray[fd] = NoNode
  BY <1>1, ConstantFacts
<1>3. ev.fdarray[listen_fd].handler = "server"
  BY <1>1, ConstantFacts
<1>4. NoNode.handler = "NULL"
  BY DEF NoNode
<1>5. Holdings
  <2>1. 0 \notin ev.rd \cup ev.wr
    BY <1>1, FdAssumption DEF listen_fd
  <2>2. \A c \in Conn : conns.ndx[c] = -1 /\ con[c].fde_ndx = NotArmed /\ hctx[c].fd = -1
    BY <1>1 DEF connection_init, NoCtx
  <2> QED
    BY <1>1, <1>2, <1>4, <2>1, <2>2, ConstantFacts DEF Holdings, Own
<1>6. FdsCounted
  BY <1>1, FS_EmptySet, FdAssumption DEF FdsCounted
<1>7. Requests
  <2>1. RequestOK(connection_init, NoCtx)
    BY NoCtxOK, ServerAssumption DEF RequestOK, Idle, Fresh, Prepared, connection_init
  <2> QED
    BY <1>1, <2>1 DEF Requests, InUse, connection_init
<1>8. Counters
  BY <1>1 DEF Counters, connection_init
<1>9. Listening
  BY <1>1, <1>3 DEF Init, Listening
<1>10. Dispatch
  BY <1>1 DEF Dispatch, InDispatch
<1> QED
  BY <1>5, <1>6, <1>7, <1>8, <1>9, <1>10 DEF OwnInv

\* Every step keeps it.
LEMMA OwnNext == IInv /\ OwnInv /\ [Next]_vars => OwnInv'
<1> SUFFICES ASSUME IInv, OwnInv, [Next]_vars PROVE OwnInv'
  OBVIOUS
<1>1. CASE ServerStep
  BY <1>1, MachineOwn, PhasesOwn, SecondOwn, SweepOwn, SocketsOwn, PollOwn, EventsOwn,
     AcceptOwn DEF ServerStep
<1>2. CASE Sigint \/ Sigterm \/ Stopped \/ UNCHANGED vars
  BY <1>2, PhasesOwn
<1> QED
  BY <1>1, <1>2 DEF Next

\* Descriptors, requests and the listening socket are in order in every state
\* of every behaviour, for all values of the limits.
THEOREM Ownership == Spec => []OwnInv
BY Invariance, OwnInit, OwnNext, PTL DEF Spec

\* srv->cur_fds counts the open descriptors (server.c:949, connections.c:137,
\* 1296, mod_fastcgi.c), whatever way connections and backends end.
THEOREM DescriptorsAreCounted == Spec => []FdsCounted
<1>1. OwnInv => FdsCounted
  BY DEF OwnInv
<1> QED
  BY <1>1, Ownership, PTL

\* An event reaches the connection or the context that has the descriptor
\* open, and no other (fdevent.c:71-94, connections.c:111, mod_fastcgi.c:1482).
THEOREM EventsReachTheirOwner == Spec => []EventsReachOwner
<1>1. IInv /\ OwnInv => EventsReachOwner
  <2> SUFFICES ASSUME IInv, OwnInv PROVE EventsReachOwner
    OBVIOUS
  <2>1. \A fd \in Fd :
          /\ ev.fdarray[fd].handler = "connection" =>
               InUse(ev.fdarray[fd].ctx) /\ con[ev.fdarray[fd].ctx].fd = fd
          /\ ev.fdarray[fd].handler = "fcgi" => hctx[ev.fdarray[fd].ctx].fd = fd
          /\ fd \in open <=> ev.fdarray[fd] # NoNode
          /\ fd \in ev.rd \cup ev.wr => fd \in open
    <3> SUFFICES ASSUME NEW fd \in Fd
                 PROVE  /\ ev.fdarray[fd].handler = "connection" =>
                             InUse(ev.fdarray[fd].ctx) /\ con[ev.fdarray[fd].ctx].fd = fd
                        /\ ev.fdarray[fd].handler = "fcgi" => hctx[ev.fdarray[fd].ctx].fd = fd
                        /\ fd \in open <=> ev.fdarray[fd] # NoNode
                        /\ fd \in ev.rd \cup ev.wr => fd \in open
      OBVIOUS
    <3>1. PICK c \in Conn : c = ev.fdarray[fd].ctx
      BY ConstantFacts DEF IInv, TablesInv, EvType
    <3> QED
      BY <3>1 DEF OwnInv, Holdings, Own, InUse
  <2>2. \A c \in Conn :
          /\ InUse(c) => ev.fdarray[con[c].fd] = [handler |-> "connection", ctx |-> c]
          /\ hctx[c].fd # -1 => ev.fdarray[hctx[c].fd] = [handler |-> "fcgi", ctx |-> c]
    BY DEF OwnInv, Holdings, Own, InUse, Node
  <2> QED
    BY <2>1, <2>2 DEF EventsReachOwner
<1> QED
  BY <1>1, Invariance, Ownership, PTL

\* Nothing of one request is left when the next one begins, and no keep_alive
\* of an earlier client when the first one does (connections.c:739, 1741).
THEOREM RequestsStartClean == Spec => []CleanStart
<1>1. OwnInv => CleanStart
  <2> SUFFICES ASSUME OwnInv, NEW c \in Conn, con[c].state = "REQUEST_START"
               PROVE  /\ ~con[c].write_queue /\ ~con[c].file_finished /\ ~con[c].decided
                      /\ con[c].mode = "DIRECT" /\ con[c].is_writable
                      /\ hctx[c] = NoCtx
                      /\ con[c].request_count = 0 => ~con[c].keep_alive
    BY DEF CleanStart
  <2>1. RequestOK(con[c], hctx[c])
    BY DEF OwnInv, Requests
  <2> QED
    BY <2>1 DEF RequestOK, Idle, Fresh
<1> QED
  BY <1>1, Ownership, PTL

-----------------------------------------------------------------------------
\* What every step of the worker is, seen from the descriptors.

\* Only the listening socket may have changed in the sets of select(), and a
\* connection has at most been given up.
Untouched ==
  /\ UNCHANGED <<open, cur_fds, conns, hctx>>
  /\ \A c \in Conn : con'[c].fd = con[c].fd /\ con'[c].state \in {con[c].state, "ERROR"}
  /\ \A fd \in AnyFd \ {listen_fd} : /\ fd \in ev'.rd <=> fd \in ev.rd
                                     /\ fd \in ev'.wr <=> fd \in ev.wr

\* Accepting on and off touches the listening socket only.
LEMMA SocketsUntouched ==
  ASSUME IInv, EnableSockets \/ DisableSockets
  PROVE  Untouched
<1> DEFINE off == fdevent_event_del(ev, listen_fd, listen_fd)
<1>1. ev \in EvType /\ listen_fd \in AnyFd /\ listen_fd \in Int
  BY FdAssumption, ConstantFacts DEF IInv, TablesInv, listen_fd
<1>2. Differs(fdevent_event_add(ev, listen_fd, "IN"), ev, listen_fd)
  BY <1>1 DEF Differs, EvType, fdevent_event_add
<1>3. Differs(off, ev, listen_fd)
  BY <1>1 DEF Differs, EvType, fdevent_event_del
<1>4. Differs(fdevent_unregister(off, listen_fd), ev, listen_fd)
  BY <1>1 DEF Differs, EvType, fdevent_event_del, fdevent_unregister
<1> HIDE DEF off
<1>5. Differs(StopListening(ev), ev, listen_fd)
  BY <1>3, <1>4 DEF StopListening, off
<1> QED
  BY <1>2, <1>5 DEF Untouched, EnableSockets, DisableSockets, Differs

\* The clock and the sweep look at connections only.
LEMMA SweepUntouched ==
  ASSUME IInv, OwnInv, NewSecond \/ Sweep
  PROVE  Untouched
<1>1. CASE NewSecond
  <2>1. \A c \in Conn : con'[c] = Aged(con[c]) /\ con[c] \in ConRec
    BY <1>1 DEF NewSecond, IInv, TablesInv
  <2>2. \A r \in ConRec : Aged(r).fd = r.fd /\ Aged(r).state = r.state
    BY DEF Aged, ConRec
  <2> QED
    BY <1>1, <2>1, <2>2 DEF NewSecond, Untouched
<1>2. CASE Sweep
  <2> DEFINE s == conns.ptr[i]
             r == IF TimedOut(con[s]) THEN [con[s] EXCEPT !.state = "ERROR"] ELSE con[s]
             swept(enable) == [r EXCEPT !.traffic_limit_reached = @ /\ ~enable]
  <2>1. PICK enable : con' = [con EXCEPT ![s] = swept(enable)]
    BY <1>2 DEF Sweep
  <2>2. con \in [Conn -> ConRec]
    BY DEF IInv, TablesInv
  <2>3. s \in Conn => /\ swept(enable).fd = con[s].fd
                      /\ swept(enable).state \in {con[s].state, "ERROR"}
    <3> SUFFICES ASSUME con[s] \in ConRec
                 PROVE  /\ swept(enable).fd = con[s].fd
                        /\ swept(enable).state \in {con[s].state, "ERROR"}
      BY <2>2
    <3>1. r.fd = con[s].fd /\ r.state \in {con[s].state, "ERROR"}
      BY DEF ConRec
    <3> QED
      BY <3>1
  <2> HIDE DEF s, swept
  <2>4. \A c \in Conn : con'[c].fd = con[c].fd /\ con'[c].state \in {con[c].state, "ERROR"}
    BY <2>1, <2>2, <2>3
  <2> QED
    BY <1>2, <2>4 DEF Sweep, Untouched
<1> QED
  BY <1>1, <1>2

\* A handler has taken connection c a step further, a client has been
\* accepted, or nothing has happened to the descriptors.
LEMMA EveryStep ==
  ASSUME IInv, OwnInv, [Next]_vars
  PROVE  \/ \E c \in Conn : /\ \E g : Step(c, g) /\ Commit(c, g)
                            /\ pc \in {"machine", "arm"} => c = cur
         \/ Accept
         \/ Untouched
<1>1. CASE StateMachine
  <2>1. cur \in Conn
    BY <1>1 DEF IInv, CallInv, StateMachine, SmRequestStart, SmRead, SmRequestEnd,
       SmHandleRequest, SmResponseStart, SmWrite, SmResponseEnd, SmConnect, SmError, SmClose,
       Arm, At
  <2>2. PICK g : Commit(cur, g) /\ Step(cur, g)
    BY <1>1, <2>1, MachineSteps DEF OwnInv
  <2> QED
    BY <2>1, <2>2
<1>2. CASE ConnectionEvent \/ BackendEvent
  <2>1. PICK c \in Conn, fd \in DOMAIN pending, handler \in {"connection", "fcgi"} :
          \E g : EventStep(c, g, fd, handler)
    BY <1>2, EventSteps
  <2> QED
    BY <2>1 DEF EventStep, Dispatching
<1>3. CASE NewSecond \/ Sweep \/ EnableSockets \/ DisableSockets
  BY <1>3, SweepUntouched, SocketsUntouched
<1>4. CASE \/ SameSecond \/ SweepDone \/ KeepSockets \/ CheckGraceful \/ FdWait \/ FdWaitDone
           \/ Poll \/ ServerEvent \/ Crash \/ DispatchDone \/ AcceptDone \/ Job \/ JobsDone
           \/ Exit
  BY <1>4 DEF Untouched, connVars, SameSecond, SweepDone, KeepSockets, CheckGraceful, FdWait,
     FdWaitDone, Poll, ServerEvent, Crash, DispatchDone, AcceptDone, Job, JobsDone, Exit
<1>5. CASE Sigint \/ Sigterm \/ Stopped \/ UNCHANGED vars
  BY <1>5 DEF Untouched, connVars, Sigint, Sigterm, Stopped, vars
<1>6. CASE Accept
  BY <1>6
<1> QED
  BY <1>1, <1>2, <1>3, <1>4, <1>5, <1>6 DEF Next, ServerStep

\* The state machine leaves the events of the other connections and of their
\* backends alone, even for a stale entry of the job list (fdevent_select.c:28).
THEOREM OthersKeepTheirEvents == Spec => OnlyOwnEvents
<1>1. IInv /\ OwnInv /\ [Next]_vars =>
        [(pc \in {"machine", "arm"}) =>
           \A c \in Conn \ {cur} : \A fd \in Fd :
             (InUse(c) /\ fd = con[c].fd) \/ fd = hctx[c].fd =>
               /\ fd \in ev.rd <=> fd \in ev.rd'
               /\ fd \in ev.wr <=> fd \in ev.wr']_vars
  <2> SUFFICES ASSUME IInv, OwnInv, [Next]_vars, pc \in {"machine", "arm"},
                      NEW c \in Conn \ {cur}, NEW fd \in Fd,
                      (InUse(c) /\ fd = con[c].fd) \/ fd = hctx[c].fd
               PROVE  /\ fd \in ev.rd <=> fd \in ev.rd'
                      /\ fd \in ev.wr <=> fd \in ev.wr'
    OBVIOUS
  <2>1. fd \in AnyFd \ {listen_fd} /\ fd # -1
    BY ConstantFacts
  <2>2. ~Accept
    BY DEF Accept
  <2>3. CASE Untouched
    BY <2>1, <2>3 DEF Untouched
  <2>4. CASE \E g : Step(cur, g) /\ Commit(cur, g) /\ cur \in Conn
    BY <2>1, <2>4, StepKeeps DEF IInv, OwnInv
  <2> QED
    BY <2>2, <2>3, <2>4, EveryStep
<1> QED
  BY <1>1, Invariance, Ownership, PTL DEF Spec, OnlyOwnEvents

\* Only keep_alive leads from the end of a response to another request.
LEMMA NextRequestBegins ==
  ASSUME IInv, OwnInv, [Next]_vars, NEW c \in Conn,
         con[c].state = "RESPONSE_END", con'[c].state = "REQUEST_START"
  PROVE  con[c].keep_alive
<1>1. CASE \E d \in Conn : \E g : Step(d, g) /\ Commit(d, g)
  <2>1. PICK d \in Conn : \E g : Step(d, g) /\ Commit(d, g)
    BY <1>1
  <2>2. PICK g : Step(d, g) /\ Commit(d, g)
    BY <2>1
  <2>3. con'[d] = g.r /\ \A e \in Conn \ {d} : con'[e] = con[e]
    BY <2>2, StepKeeps DEF IInv, OwnInv
  <2> QED
    BY <2>2, <2>3 DEF Step
<1>2. CASE Accept
  <2> DEFINE d == conns.ptr[conns.used]
  <2>1. d \in Conn /\ con[d].state = "CONNECT"
    BY <1>2, FreeSlot DEF Accept, IInv, OwnInv, Requests, InUse
  <2>2. \E g : con' = [con EXCEPT ![d] = g.r]
    BY <1>2 DEF Accept, Commit
  <2> HIDE DEF d
  <2>3. con'[c] = con[c]
    BY <2>1, <2>2
  <2> QED
    BY <2>3
<1>3. CASE Untouched
  BY <1>3 DEF Untouched
<1> QED
  BY <1>1, <1>2, <1>3, EveryStep

\* A connection past server.max-keep-alive-requests goes on to another request
\* only after one of an unknown HTTP version (response.c:231, request.c:420).
THEOREM KeepAliveIsLimited == Spec => KeepAliveLimited
<1>1. IInv /\ OwnInv /\ [Next]_vars =>
        [\A c \in Conn :
           /\ con[c].state = "RESPONSE_END" /\ con'[c].state = "REQUEST_START"
           /\ con[c].request_count > max_keep_alive_requests
           => con[c].bad_version]_vars
  <2> SUFFICES ASSUME IInv, OwnInv, [Next]_vars, NEW c \in Conn,
                      con[c].state = "RESPONSE_END", con'[c].state = "REQUEST_START",
                      con[c].request_count > max_keep_alive_requests
               PROVE  con[c].bad_version
    OBVIOUS
  <2>1. con[c].keep_alive
    BY NextRequestBegins
  <2>2. RequestOK(con[c], hctx[c])
    BY DEF OwnInv, Requests
  <2>3. con[c].request_count \in Nat /\ max_keep_alive_requests \in Nat
    BY ServerAssumption DEF IInv, TablesInv, ConRec
  <2> QED
    BY <2>1, <2>2, <2>3 DEF RequestOK, Prepared
<1> QED
  BY <1>1, Invariance, Ownership, PTL DEF Spec, KeepAliveLimited

\* Nobody is accepted while the listening socket is disabled or given up
\* (network.c:29, server.c:1129-1193), not even for a report of before.
THEOREM AcceptsWhenOpen == Spec => AcceptOnlyWhenOpen
<1>1. IInv /\ OwnInv /\ [Next]_vars =>
        [(conns.used)' > conns.used => listen_open /\ ~sockets_disabled]_vars
  <2> SUFFICES ASSUME IInv, OwnInv, [Next]_vars, (conns.used)' > conns.used
               PROVE  listen_open /\ ~sockets_disabled
    OBVIOUS
  <2>1. conns.used \in Nat /\ (conns.used)' \in Nat
    <3>1. TablesInv'
      BY NextOK DEF IInv
    <3> QED
      BY <3>1 DEF IInv, TablesInv, PoolOK, PoolType
  <2>2. CASE Accept
    <3>1. pc = "accept"
      BY <2>2 DEF Accept
    <3>2. ~sockets_disabled
      BY <3>1 DEF OwnInv, Dispatch
    <3> QED
      BY <3>1, <3>2 DEF OwnInv, Listening
  <2>3. CASE Untouched
    BY <2>1, <2>3 DEF Untouched
  <2>4. CASE \E c \in Conn : \E g : Step(c, g) /\ Commit(c, g)
    <3>1. (conns.used)' <= conns.used
      BY <2>4, StepKeeps DEF IInv, OwnInv
    <3> QED
      BY <2>1, <3>1
  <2> QED
    BY <2>2, <2>3, <2>4, EveryStep
<1> QED
  BY <1>1, Invariance, Ownership, PTL DEF Spec, AcceptOnlyWhenOpen

\* The loop finds a descriptor as long as one is left (fdevent_select.c:79).
LEMMA LowestExists ==
  ASSUME NEW S, S \subseteq Nat, S # {}
  PROVE  \E fd \in S : \A other \in S : fd <= other
<1> DEFINE R == OpToRel(<, Nat)
<1>1. IsWellFoundedOn(R, Nat)
  BY NatLessThanWellFounded
<1> HIDE DEF R
<1>2. PICK x \in S : \A y \in S : ~(<<y, x>> \in R)
  BY <1>1, WFMin
<1>3. \A y \in S : ~(y < x)
  BY <1>2 DEF R, OpToRel
<1> QED
  BY <1>3

\* While select() has reported more than was handled, there is a descriptor to
\* handle, its handler is set, and the listening socket has the event it waits for.
LEMMA CrashImpossible ==
  ASSUME OneBit, IInv, OwnInv
  PROVE  ~Crash
<1> SUFFICES ASSUME Crash PROVE FALSE
  OBVIOUS
<1>1. /\ pc = "dispatch" /\ n > 0
      /\ \A fd \in fdevent_select_event_next_fdndx(pending) : ~HandlerFits(fd)
  BY DEF Crash
<1>2. /\ n = Cardinality(DOMAIN pending)
      /\ DOMAIN pending \subseteq open \cup {listen_fd}
      /\ listen_fd \in DOMAIN pending => ~sockets_disabled /\ pending[listen_fd] = {"IN"}
  BY <1>1 DEF OwnInv, Dispatch, InDispatch
<1>3. DOMAIN pending # {} /\ DOMAIN pending \subseteq Nat
  <2>1. DOMAIN pending \subseteq Nat
    BY ConstantFacts DEF IInv, LoopInv
  <2>2. Cardinality({}) = 0
    BY FS_EmptySet
  <2> QED
    BY <1>1, <1>2, <2>1, <2>2
<1>4. PICK fd \in DOMAIN pending : \A other \in DOMAIN pending : fd <= other
  BY <1>3, LowestExists
<1>5. ~HandlerFits(fd)
  BY <1>1, <1>4 DEF fdevent_select_event_next_fdndx
<1>6. CASE fd = listen_fd
  <2>1. ev.fdarray[fd].handler = "server" /\ pending[fd] = {"IN"}
    BY <1>2, <1>4, <1>6 DEF OwnInv, Listening
  <2>2. ev.fdarray[fd] # NoNode
    BY <2>1 DEF NoNode
  <2> QED
    BY <1>5, <2>1, <2>2 DEF HandlerFits
<1>7. CASE fd \in open
  <2>1. fd \in Fd
    BY <1>7 DEF IInv, TablesInv
  <2>2. ev.fdarray[fd] # NoNode /\ ev.fdarray[fd].handler # "server"
    BY <1>7, <2>1 DEF OwnInv, Holdings, Own
  <2> QED
    BY <1>5, <2>2 DEF HandlerFits
<1> QED
  BY <1>2, <1>4, <1>6, <1>7

\* fdevent.c:134 "SEGFAULT()" is never reached, provided that select() reports
\* one event for each descriptor: its return value, which counts bits, is then
\* the number of descriptors that the loop of server.c:1237 looks for.
THEOREM NeverCrashes ==
  ASSUME OneBit
  PROVE  Spec => []NoCrash
<1>1. Init => NoCrash
  BY DEF Init, NoCrash
<1>2. IInv /\ OwnInv /\ NoCrash /\ [Next]_vars => NoCrash'
  <2> SUFFICES ASSUME IInv, OwnInv, NoCrash, [Next]_vars PROVE pc' # "crashed"
    BY DEF NoCrash
  <2>1. pc # "crashed" /\ ret # "crashed" /\ ~Crash
    BY CrashImpossible DEF NoCrash, IInv, CallInv
  <2>2. CASE StateMachine
    BY <2>1, <2>2 DEF StateMachine, SmRequestStart, SmRead, SmRequestEnd,
       SmHandleRequest, SmResponseStart, SmWrite, SmResponseEnd, SmConnect, SmError, SmClose,
       Arm, Turn
  <2>3. CASE ConnectionEvent \/ BackendEvent \/ ServerEvent \/ DispatchDone
    BY <2>1, <2>3 DEF ConnectionEvent, BackendEvent, ServerEvent, DispatchDone
  <2>4. CASE NewSecond \/ SameSecond \/ Sweep \/ SweepDone
    BY <2>1, <2>4 DEF NewSecond, SameSecond, Sweep, SweepDone, CallMachine
  <2>5. CASE \/ EnableSockets \/ DisableSockets \/ KeepSockets \/ CheckGraceful
             \/ FdWait \/ FdWaitDone \/ Poll
    BY <2>5 DEF EnableSockets, DisableSockets, KeepSockets, CheckGraceful, FdWait, FdWaitDone,
       Poll, CallMachine
  <2>6. CASE Accept \/ AcceptDone \/ Job \/ JobsDone \/ Exit
    BY <2>6 DEF Accept, AcceptDone, Job, JobsDone, Exit, CallMachine
  <2>7. CASE Sigint \/ Sigterm \/ Stopped \/ UNCHANGED vars
    BY <2>1, <2>7 DEF Sigint, Sigterm, Stopped, vars
  <2> QED
    BY <2>1, <2>2, <2>3, <2>4, <2>5, <2>6, <2>7 DEF Next, ServerStep
<1> QED
  BY <1>1, <1>2, Invariance, Ownership, PTL DEF Spec

-----------------------------------------------------------------------------
\* The worker implements Descriptors.

Client == [c \in Conn |-> IF InUse(c) THEN con[c].fd ELSE -1]
Backend == [c \in Conn |-> hctx[c].fd]
Watched == (ev.rd \cup ev.wr) \ {listen_fd}
Count == cur_fds - base_fds

\* The descriptors that somebody has are the open ones; the watched ones are
\* among them, and they are counted.
Settled == D!Used = open /\ Watched \subseteq open /\ Count = Cardinality(open)

\* It follows from the owners and the count.
LEMMA SettledOK == TablesInv /\ Holdings /\ FdsCounted => Settled
<1> SUFFICES ASSUME TablesInv, Holdings, FdsCounted PROVE Settled
  OBVIOUS
<1>1. D!Used = {fd \in Fd : \E c \in Conn : Client[c] = fd \/ Backend[c] = fd}
  BY DEF D!Used, Client, Backend
<1>2. OpenOwned
  BY OpenFacts
<1>3. \A c \in Conn : /\ Client[c] = IF InUse(c) THEN con[c].fd ELSE -1
                      /\ Backend[c] = hctx[c].fd
  BY DEF Client, Backend
<1>4. D!Used = open
  <2>1. ASSUME NEW fd \in open PROVE fd \in D!Used
    BY <1>1, <1>2, <1>3 DEF OpenOwned
  <2>2. ASSUME NEW fd \in D!Used PROVE fd \in open
    <3>1. PICK c \in Conn : Client[c] = fd \/ Backend[c] = fd
      BY <1>1
    <3>2. fd # -1
      BY <1>1, ConstantFacts
    <3> QED
      BY <1>2, <1>3, <3>1, <3>2 DEF OpenOwned
  <2> QED
    BY <2>1, <2>2
<1>5. Watched \subseteq open
  <2> SUFFICES ASSUME NEW fd \in ev.rd \cup ev.wr, fd # listen_fd PROVE fd \in open
    BY DEF Watched
  <2>1. fd \in AnyFd /\ fd # 0
    BY DEF TablesInv, EvType, Holdings, Own
  <2>2. fd \in Fd
    BY <2>1, ConstantFacts
  <2> QED
    BY <2>2 DEF Holdings, Own
<1>6. Count = Cardinality(open)
  <2>1. Cardinality(open) \in Nat
    <3>1. IsFiniteSet(Fd)
      BY FS_Interval, FdAssumption DEF Fd
    <3> QED
      BY <3>1, FS_Subset, FS_CardinalityType DEF TablesInv
  <2> QED
    BY <2>1, FdAssumption DEF FdsCounted, Count
<1> QED
  BY <1>4, <1>5, <1>6 DEF Settled

\* A step whose owners are known is a step of Descriptors if one of its
\* operations makes these owners.
LEMMA AbstractStep ==
  ASSUME Settled, Settled',
         \/ Client' = Client /\ Backend' = Backend
         \/ \E c \in Conn : D!Accept(c) \/ D!Connect(c) \/ D!Disconnect(c) \/ D!HangUp(c)
  PROVE  [D!Next]_(D!dvars)
<1>1. D!Kept
  <2>1. \A S : D!Cardinality(S) = Cardinality(S)
    BY Zenon DEF D!Cardinality, Cardinality
  <2> QED
    BY <2>1 DEF Settled, D!Kept, Watched, Count
<1>2. CASE \E c \in Conn : D!Accept(c) \/ D!Connect(c) \/ D!Disconnect(c) \/ D!HangUp(c)
  BY <1>1, <1>2 DEF D!Next
<1>3. CASE Client' = Client /\ Backend' = Backend
  <2>1. (D!Used)' = D!Used
    BY <1>3 DEF D!Used, Client, Backend
  <2>2. Count' = Count
    BY <2>1 DEF Settled
  <2>3. CASE Watched' = Watched
    BY <1>3, <2>2, <2>3 DEF D!dvars, Client, Backend, Watched, Count
  <2>4. CASE Watched' # Watched
    <3>1. D!Watch
      BY <1>3, <2>4 DEF D!Watch, Client, Backend, Watched
    <3> QED
      BY <1>1, <3>1 DEF D!Next
  <2> QED
    BY <2>3, <2>4
<1> QED
  BY <1>2, <1>3

\* The operations of Descriptors on the descriptors of the worker.
LEMMA AbstractOperations ==
  ASSUME NEW c \in Conn
  PROVE  /\ /\ Client[c] = -1 /\ Backend' = Backend
            /\ \E fd \in Fd \ D!Used : Client' = [Client EXCEPT ![c] = fd]
            => D!Accept(c)
         /\ /\ Client[c] # -1 /\ Backend[c] = -1 /\ Client' = Client
            /\ \E fd \in Fd \ D!Used : Backend' = [Backend EXCEPT ![c] = fd]
            => D!Connect(c)
         /\ Backend[c] # -1 /\ Backend' = [Backend EXCEPT ![c] = -1] /\ Client' = Client
            => D!Disconnect(c)
         /\ /\ Client[c] # -1 /\ Client' = [Client EXCEPT ![c] = -1]
            /\ Backend' = [Backend EXCEPT ![c] = -1]
            => D!HangUp(c)
<1>1. /\ Client[c] = -1 /\ Backend' = Backend
      /\ \E fd \in Fd \ D!Used : Client' = [Client EXCEPT ![c] = fd]
      => D!Accept(c)
  BY DEF D!Accept, Client, Backend
<1>2. /\ Client[c] # -1 /\ Backend[c] = -1 /\ Client' = Client
      /\ \E fd \in Fd \ D!Used : Backend' = [Backend EXCEPT ![c] = fd]
      => D!Connect(c)
  BY DEF D!Connect, Client, Backend
<1>3. Backend[c] # -1 /\ Backend' = [Backend EXCEPT ![c] = -1] /\ Client' = Client
      => D!Disconnect(c)
  BY DEF D!Disconnect, Client, Backend
<1>4. /\ Client[c] # -1 /\ Client' = [Client EXCEPT ![c] = -1]
      /\ Backend' = [Backend EXCEPT ![c] = -1]
      => D!HangUp(c)
  BY DEF D!HangUp, Client, Backend
<1> QED
  BY <1>1, <1>2, <1>3, <1>4

\* The owners after a step that concerns connection c only.
LEMMA OwnersAfter ==
  ASSUME NEW c \in Conn,
         \A d \in Conn \ {c} : /\ con'[d].fd = con[d].fd /\ hctx'[d].fd = hctx[d].fd
                               /\ InUse(d)' <=> InUse(d)
  PROVE  /\ Client' = [Client EXCEPT ![c] = IF InUse(c)' THEN con'[c].fd ELSE -1]
         /\ Backend' = [Backend EXCEPT ![c] = hctx'[c].fd]
         /\ Client[c] = IF InUse(c) THEN con[c].fd ELSE -1
         /\ Backend[c] = hctx[c].fd
         /\ (InUse(c)' <=> InUse(c)) /\ con'[c].fd = con[c].fd => Client' = Client
         /\ hctx'[c].fd = hctx[c].fd => Backend' = Backend
<1>1. /\ Client[c] = IF InUse(c) THEN con[c].fd ELSE -1
      /\ Backend[c] = hctx[c].fd
  BY DEF Client, Backend
<1>2. Client' = [Client EXCEPT ![c] = IF InUse(c)' THEN con'[c].fd ELSE -1]
  BY DEF Client
<1>3. Backend' = [Backend EXCEPT ![c] = hctx'[c].fd]
  BY DEF Backend
<1>4. (InUse(c)' <=> InUse(c)) /\ con'[c].fd = con[c].fd => Client' = Client
  BY DEF Client
<1>5. hctx'[c].fd = hctx[c].fd => Backend' = Backend
  BY DEF Backend
<1> QED
  BY <1>1, <1>2, <1>3, <1>4, <1>5

\* A step of connection c connects to a backend, gives it up, hangs up, or
\* leaves the owners as they are.
LEMMA StepImplements ==
  ASSUME TablesInv, Holdings, FdsCounted, Requests, NEW c \in Conn, NEW g,
         Step(c, g), Commit(c, g)
  PROVE  [D!Next]_(D!dvars)
<1>1. /\ TablesInv' /\ Holdings' /\ FdsCounted'
      /\ hctx'[c] = g.h
      /\ \A d \in Conn \ {c} : con'[d] = con[d] /\ hctx'[d] = hctx[d] /\ InUse(d)' = InUse(d)
      /\ con'[c].fd = con[c].fd
  BY StepKeeps
<1>2. Settled
  BY SettledOK
<1>3. Settled'
  BY <1>1, SettledOK, PTL
<1>4. /\ Client' = [Client EXCEPT ![c] = IF InUse(c)' THEN con'[c].fd ELSE -1]
      /\ Backend' = [Backend EXCEPT ![c] = hctx'[c].fd]
      /\ Client[c] = IF InUse(c) THEN con[c].fd ELSE -1
      /\ Backend[c] = hctx[c].fd
      /\ (InUse(c)' <=> InUse(c)) /\ con'[c].fd = con[c].fd => Client' = Client
      /\ hctx'[c].fd = hctx[c].fd => Backend' = Backend
  BY <1>1, OwnersAfter
<1>5. InUse(c)' <=> g.conns.ndx[c] # -1
  BY DEF Commit, InUse
<1>6. InUse(c) => con[c].fd \in Fd /\ con[c].fd # -1
  BY ConstantFacts DEF Holdings, Own, InUse
<1>7. CASE InUse(c) /\ g.conns.ndx[c] = -1 /\ g.h.fd = -1
  <2>1. /\ Client[c] # -1 /\ Client' = [Client EXCEPT ![c] = -1]
        /\ Backend' = [Backend EXCEPT ![c] = -1]
    BY <1>1, <1>4, <1>5, <1>6, <1>7
  <2>2. D!HangUp(c)
    BY <2>1, AbstractOperations
  <2> QED
    BY <1>2, <1>3, <2>2, AbstractStep
<1>8. CASE g.conns = conns /\ (g.h.fd # hctx[c].fd => InUse(c))
  <2>1. Client' = Client
    BY <1>1, <1>4, <1>5, <1>8 DEF InUse
  <2>2. CASE g.h.fd = hctx[c].fd
    BY <1>1, <1>2, <1>3, <1>4, <2>1, <2>2, AbstractStep
  <2>3. CASE g.h.fd = -1 /\ hctx[c].fd # -1
    <3>1. D!Disconnect(c)
      BY <1>1, <1>4, <2>1, <2>3, AbstractOperations
    <3> QED
      BY <1>2, <1>3, <3>1, AbstractStep
  <2>4. CASE hctx[c].fd = -1 /\ g.h.fd \in Fd \ open
    <3>1. Client[c] # -1 /\ Backend[c] = -1
      BY <1>4, <1>6, <1>8, <2>4, ConstantFacts
    <3>2. \E fd \in Fd \ D!Used : Backend' = [Backend EXCEPT ![c] = fd]
      BY <1>1, <1>2, <1>4, <2>4 DEF Settled
    <3>3. D!Connect(c)
      BY <2>1, <3>1, <3>2, AbstractOperations
    <3> QED
      BY <1>2, <1>3, <3>3, AbstractStep
  <2> QED
    BY <1>7, <1>8, <2>2, <2>3, <2>4 DEF Step
<1> QED
  BY <1>7, <1>8 DEF Step

\* connection_accept is the step by which a connection gets its client.
LEMMA AcceptImplements ==
  ASSUME IInv, OwnInv, IInv', OwnInv', Accept
  PROVE  [D!Next]_(D!dvars)
<1> DEFINE slot == conns.ptr[conns.used]
<1>1. pc = "accept" /\ conns.used < max_conns /\ slot \in Conn
  BY FreeSlot DEF Accept, IInv
<1>2. PICK fd \in FreeFd(Frame(slot)) : Commit(slot, Accepted(slot, fd))
  BY DEF Accept
<1>3. PICK c \in Conn : c = slot
  BY <1>1
<1> DEFINE f == Accepted(c, fd)
<1>4. fd \in FreeFd(Frame(c)) /\ c = conns.ptr[conns.used] /\ Commit(c, f)
  BY <1>2, <1>3
<1>5. /\ Good(f) /\ Holds(c, f) /\ f.r.fd = fd /\ f.h = NoCtx
      /\ fd \in Fd \ open /\ f.conns.ndx[c] # -1 /\ ~InUse(c)
  BY <1>1, <1>4, AcceptedHolds
<1> HIDE DEF f, slot
<1>6. /\ con'[c] = f.r /\ hctx'[c] = f.h
      /\ \A d \in Conn \ {c} : con'[d] = con[d] /\ hctx'[d] = hctx[d]
  BY <1>4, <1>5, CommitHolds DEF IInv, Good
<1>7. InUse(c)' /\ \A d \in Conn \ {c} : InUse(d)' <=> InUse(d)
  BY <1>4, <1>5 DEF Commit, InUse, Holds, Aside
<1>8. hctx[c] = NoCtx
  BY <1>1, <1>5, OutsideFacts
<1>9. /\ Client' = [Client EXCEPT ![c] = IF InUse(c)' THEN con'[c].fd ELSE -1]
      /\ Client[c] = IF InUse(c) THEN con[c].fd ELSE -1
      /\ hctx'[c].fd = hctx[c].fd => Backend' = Backend
  BY <1>6, <1>7, OwnersAfter
<1>10. Settled
  BY SettledOK DEF IInv, OwnInv
<1>11. TablesInv' /\ Holdings' /\ FdsCounted'
  BY DEF IInv, OwnInv
<1>12. Settled'
  BY <1>11, SettledOK, PTL
<1>13. Client[c] = -1 /\ Backend' = Backend
  BY <1>5, <1>6, <1>8, <1>9
<1>14. \E x \in Fd \ D!Used : Client' = [Client EXCEPT ![c] = x]
  BY <1>5, <1>6, <1>7, <1>9, <1>10 DEF Settled
<1>15. D!Accept(c)
  BY <1>13, <1>14, AbstractOperations
<1> QED
  BY <1>10, <1>12, <1>15, AbstractStep

\* Nobody has a descriptor when the worker starts.
LEMMA InitImplements == Init => D!Init
<1> SUFFICES ASSUME Init PROVE D!Init
  OBVIOUS
<1>1. Client = [c \in Conn |-> -1]
  BY DEF Init, Client, InUse
<1>2. Backend = [c \in Conn |-> -1]
  BY DEF Init, Backend, NoCtx
<1>3. Watched = {}
  BY DEF Init, Watched
<1>4. Count = 0
  BY FdAssumption DEF Init, Count
<1> QED
  BY <1>1, <1>2, <1>3, <1>4 DEF D!Init, Client, Backend, Watched, Count

\* Every step of the worker takes, watches, gives back and counts descriptors
\* as Descriptors allows (connections.c:111-147, mod_fastcgi.c:1482-1528), for
\* all numbers of connections and descriptors.
THEOREM WorkerImplementsDescriptors == Spec => ImplementsDescriptors
<1>1. IInv /\ OwnInv /\ IInv' /\ OwnInv' /\ [Next]_vars => [D!Next]_(D!dvars)
  <2> SUFFICES ASSUME IInv, OwnInv, IInv', OwnInv', [Next]_vars PROVE [D!Next]_(D!dvars)
    OBVIOUS
  <2>1. CASE \E c \in Conn : \E g : Step(c, g) /\ Commit(c, g)
    BY <2>1, StepImplements DEF IInv, OwnInv
  <2>2. CASE Accept
    BY <2>2, AcceptImplements
  <2>3. CASE Untouched
    <3>1. Settled
      BY SettledOK DEF IInv, OwnInv
    <3>2. TablesInv' /\ Holdings' /\ FdsCounted'
      BY DEF IInv, OwnInv
    <3>3. Settled'
      BY <3>2, SettledOK, PTL
    <3>4. Client' = Client /\ Backend' = Backend
      BY <2>3 DEF Untouched, Client, Backend, InUse
    <3> QED
      BY <3>1, <3>3, <3>4, AbstractStep
  <2> QED
    BY <2>1, <2>2, <2>3, EveryStep
<1> QED
  BY <1>1, InitImplements, Invariance, Ownership, PTL DEF Spec, ImplementsDescriptors, D!Spec
=============================================================================
