------------------------- MODULE ServerDescriptors -------------------------
(***************************************************************************)
(* The worker implements Descriptors: the descriptors of a connection are  *)
(* con->fd while it is in the pool and hctx->fd, the watched ones are in   *)
(* the sets of select(), and the count is what srv->cur_fds adds to the    *)
(* descriptors of the start.                                               *)
(***************************************************************************)
EXTENDS Server

D == INSTANCE Descriptors WITH
       Connection <- Conn,
       Descriptor <- Fd,
       nofd <- -1,
       client <- [c \in Conn |-> IF InUse(c) THEN con[c].fd ELSE -1],
       backend <- [c \in Conn |-> hctx[c].fd],
       watched <- (ev.rd \cup ev.wr) \ {listen_fd},
       count <- cur_fds - base_fds

\* Whatever happens to clients and backends, each step of the worker takes,
\* watches, gives back and counts descriptors as Descriptors allows: none goes
\* from one owner to another in one step, none is taken by two, a backend does
\* not outlive its client (connections.c:111-147, mod_fastcgi.c:1482-1528).
ImplementsDescriptors == D!Spec
=============================================================================
