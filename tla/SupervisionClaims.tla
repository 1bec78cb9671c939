------------------------- MODULE SupervisionClaims -------------------------
(***************************************************************************)
(* What comments promise of the angel and the watcher and their races      *)
(* break, and the ways of running lighttpd that are checked.               *)
(***************************************************************************)
EXTENDS Supervision

Setup(angel, max_worker, to_group, fails, forks, signals, crashes, respawns) ==
  [angel |-> angel, max_worker |-> max_worker, to_group |-> to_group, fails |-> fails,
   forks |-> forks, signals |-> signals, crashes |-> crashes, respawns |-> respawns]

AngelAlone == Setup(TRUE, 0, FALSE, {"start"}, 3, 2, 2, 0)
AngelRestarts == Setup(TRUE, 0, FALSE, {}, 3, 2, 1, 0)
WatcherAlone == Setup(FALSE, 2, FALSE, {}, 1, 3, 0, 1)
WatcherInShell == Setup(FALSE, 2, TRUE, {"fork"}, 1, 2, 0, 1)
AngelAndWatcher == Setup(TRUE, 1, FALSE, {}, 2, 1, 0, 0)

AllSetups == {AngelAlone, AngelRestarts, WatcherAlone, WatcherInShell, AngelAndWatcher}
WithAngel == {AngelRestarts, AngelAndWatcher, Setup(TRUE, 1, TRUE, {}, 3, 1, 0, 0)}
OnlyWatcher == {[WatcherAlone EXCEPT !.signals = 1]}
-----------------------------------------------------------------------------
Stopped == SentOf({"INT", "TERM"}) > 0

\* lighttpd-angel.c:6: "spawn on HUP to allow graceful restart".  One SIGHUP was
\* sent to the angel and nothing else: the lighttpd it starts in place of the
\* old one is not told to stop as well.
ReplacementStays ==
  sent = <<"HUP">> => \A c \in Child : c > 1 => ~watcher[c].flags.graceful_shutdown

\* lighttpd-angel.c:5: "restart on crash".  Nobody told the angel to stop, so
\* it does not end because of a child that crashed.
RestartOnCrash ==
  (setup.angel /\ ~Alive(0) /\ ~Stopped) => pid \notin crashed

\* lighttpd-angel.c:6: "spawn on HUP to allow graceful restart".  An angel that
\* got nothing but SIGHUP, and whose children do not crash, goes on.
SpawnOnHup ==
  (setup.angel /\ ~Stopped /\ crashed = {}) => Alive(0)

\* lighttpd-angel.c:42: "forward the sig to the child".  It is the child the signal
\* goes to, not every process of the system, which is what kill(-1) means.
OnlyTheChild ==
  InHandler({"HUP", "INT", "TERM"}, "enter") => pid # NoPid

\* server.c:102-103: "make sure we only send it once and don't create a infinite
\* loop".  Two watchers of one group take each other's SIGHUP for a new one.
HupSentOnce == broadcasts <= SentOf({"HUP"})

\* NEWS:121: "fixed forwarding a SIGINT and SIGHUP when using max-workers".  A
\* SIGINT sent to the watcher reaches every worker in the end.
IntForwarded ==
  (SentOf({"INT"}) > 0) ~> (\A k \in Worker : Running(k) => Told(worker[k].flags))
=============================================================================
