------------------------------ MODULE Fdevent ------------------------------
(***************************************************************************)
(* The event layer of lighttpd (fdevent.c, fdevent_select.c): the table    *)
(* of registered descriptors and the select() sets.                        *)
(*                                                                         *)
(* An event table is a record                                              *)
(*   fdarray : for every descriptor the node registered for it, or NoNode  *)
(*   rd, wr  : select_set_read and select_set_write.                       *)
(* select_set_error is left out: event_add and event_del change it exactly *)
(* when they change the other two, so it always is rd \cup wr.             *)
(*                                                                         *)
(* The operators are pure: the server's actions apply them to the table    *)
(* they keep in the variable ev.                                           *)
(***************************************************************************)
EXTENDS Integers, FiniteSets

CONSTANTS
  max_fds,     \* srv->max_fds, the descriptor limit of the process
  base_fds,    \* descriptors in use before the first connection (server.c:949)
  Reports      \* the sets of events one select() call may report for one fd

ASSUME FdAssumption ==
  /\ base_fds \in Nat /\ max_fds \in Nat
  /\ 1 < base_fds /\ base_fds < max_fds
  /\ Reports \subseteq SUBSET {"IN", "OUT", "ERR"} /\ {} \notin Reports

\* The descriptors that connections and backends compete for.
Fd == base_fds .. (max_fds - 1)

\* The listening socket is opened before any of them.
listen_fd == base_fds - 1

\* Every index of fdarray the program uses; 0 is con->fd of a connection
\* structure that was never used.
AnyFd == Fd \cup {listen_fd, 0}

NoNode == [handler |-> "NULL", ctx |-> 0]

\* con->fde_ndx, hctx->fde_ndx: -1 while the descriptor waits for no event.
NotArmed == -1

fdevent_register(ev, fd, handler, ctx) ==
  [ev EXCEPT !.fdarray[fd] = [handler |-> handler, ctx |-> ctx]]

fdevent_unregister(ev, fd) == [ev EXCEPT !.fdarray[fd] = NoNode]

\* One call asks for one kind of event; it replaces the other kind.
fdevent_event_add(ev, fd, events) ==
  IF events = "IN"
  THEN [ev EXCEPT !.rd = @ \cup {fd}, !.wr = @ \ {fd}]
  ELSE [ev EXCEPT !.rd = @ \ {fd}, !.wr = @ \cup {fd}]

\* Whatever is watched under the number is lost, even if it is stale.
fdevent_event_del_stale(ev, fde_ndx, fd) ==
  [ev EXCEPT !.rd = @ \ {fd}, !.wr = @ \ {fd}]

\* Without an index the call does nothing: fd may be stale (closed and
\* given to somebody else), and must not be cleared then.
fdevent_event_del(ev, fde_ndx, fd) ==
  IF fde_ndx < 0 THEN ev
  ELSE [ev EXCEPT !.rd = @ \ {fd}, !.wr = @ \ {fd}]

\* The reports select() may give for fd: its read or its write bit, if the
\* caller asked for it, and its bit in the exception set (never set for a
\* listening socket).
ReportsFor(ev, fd) ==
  {rep \in Reports : /\ "IN" \in rep => fd \in ev.rd
                     /\ "OUT" \in rep => fd \in ev.wr
                     /\ "ERR" \in rep => fd # listen_fd}

\* The results of one select() call: which descriptors are reported and how.
\* The empty function is a timeout (or an interrupted call).
fdevent_select_poll(ev) ==
  UNION {{p \in [D -> Reports] : \A fd \in D : p[fd] \in ReportsFor(ev, fd)}
         : D \in SUBSET (ev.rd \cup ev.wr)}

\* The value select() returns: the number of bits set in the three sets.
BitCount(p) ==
  Cardinality({b \in (DOMAIN p) \X {"IN", "OUT", "ERR"} : b[2] \in p[b[1]]})

\* The next descriptor to look at: the lowest one with a bit set, if any.
fdevent_select_event_next_fdndx(p) ==
  {fd \in DOMAIN p : \A other \in DOMAIN p : fd <= other}
=============================================================================
