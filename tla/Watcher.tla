------------------------------ MODULE Watcher ------------------------------
(***************************************************************************)
(* The watcher processes of lighttpd (server.c:826-900): each forks its    *)
(* workers, replaces those that die, and passes signals on to its process  *)
(* group.  A worker is seen through its signal flags only; module Server   *)
(* is what it does with them.                                              *)
(*                                                                         *)
(* A watcher is a child of the angel or of a shell.  They never call       *)
(* setsid() in the foreground, so kill(0, sig) goes to the angel and to    *)
(* every watcher and worker it has started.                                *)
(***************************************************************************)
EXTENDS Processes

Slot == 1..MaxSlots
Worker == Child \X Slot

VARIABLES
  watcher,     \* per watcher: position, num_childs and the signal flags
  worker,      \* per worker: state and the signal flags it looks at
  broadcasts   \* how many times kill(0, SIGHUP) was called

watcherVars == <<watcher, worker, broadcasts>>

Flags == [srv_shutdown : BOOLEAN, graceful_shutdown : BOOLEAN,
          handle_sig_hup : BOOLEAN, forwarded_sig_hup : BOOLEAN]
NoFlags == [srv_shutdown |-> FALSE, graceful_shutdown |-> FALSE,
            handle_sig_hup |-> FALSE, forwarded_sig_hup |-> FALSE]

watcher_init == [at |-> "loop", num_childs |-> setup.max_worker, flags |-> NoFlags]
NoWorker == [st |-> "none", flags |-> NoFlags, born_graceful |-> FALSE]

WatcherInit ==
  /\ watcher = [c \in Child |-> watcher_init]
  /\ worker = [k \in Worker |-> NoWorker]
  /\ broadcasts = 0

-----------------------------------------------------------------------------
\* Signals.

HandledAlwaysForwards(sig, f) ==
  CASE sig = "TERM" -> [f EXCEPT !.srv_shutdown = TRUE]
    [] sig = "INT" -> IF f.graceful_shutdown THEN [f EXCEPT !.srv_shutdown = TRUE]
                      ELSE [f EXCEPT !.graceful_shutdown = TRUE]
    [] sig = "HUP" -> [f EXCEPT !.handle_sig_hup = TRUE, !.forwarded_sig_hup = FALSE]
    [] sig = "CHLD" -> f

\* sigaction_handler
Handled(sig, f) ==
  CASE sig = "TERM" -> [f EXCEPT !.srv_shutdown = TRUE]
    [] sig = "INT" -> IF f.graceful_shutdown THEN [f EXCEPT !.srv_shutdown = TRUE]
                      ELSE [f EXCEPT !.graceful_shutdown = TRUE]
    [] sig = "HUP" -> IF f.forwarded_sig_hup THEN [f EXCEPT !.forwarded_sig_hup = FALSE]
                      ELSE [f EXCEPT !.handle_sig_hup = TRUE]
    [] sig = "CHLD" -> f

Running(k) == worker[k].st = "run"

WorkersOf(c) == {k \in Worker : k[1] = c}

\* kill(0, sig): the caller, the angel, the other watchers, all workers.
KillGroup(sig) ==
  /\ pending' = Signalled(Proc, sig)
  /\ worker' = [k \in Worker |-> IF Running(k)
                                 THEN [worker[k] EXCEPT !.flags = Handled(sig, @)]
                                 ELSE worker[k]]

Goto(c, where) == watcher' = [watcher EXCEPT ![c].at = where]

\* A signal reaches watcher c.  In wait() it makes the call return EINTR,
\* unless there is a dead worker to report.
WatcherSignal(c) ==
  /\ Alive(c)
  /\ watcher[c].at = "waiting" => \A k \in WorkersOf(c) : worker[k].st # "zombie"
  /\ \E sig \in pending[c] :
       /\ pending' = [pending EXCEPT ![c] = @ \ {sig}]
       /\ watcher' = [watcher EXCEPT
                        ![c].flags = Handled(sig, @),
                        ![c].at = IF @ = "waiting" THEN "eintr" ELSE @]
  /\ UNCHANGED <<proc, worker, broadcasts>>

-----------------------------------------------------------------------------
\* The loop.

Step(c, where) == Alive(c) /\ pending[c] = {} /\ watcher[c].at = where

WatcherTest(c) ==
  /\ Step(c, "loop")
  /\ LET f == watcher[c].flags
     IN Goto(c, IF f.srv_shutdown \/ f.graceful_shutdown THEN "leave"
                ELSE IF watcher[c].num_childs > 0 THEN "fork" ELSE "wait")
  /\ UNCHANGED <<proc, pending, worker, broadcasts>>

\* The first free slot; the new worker inherits the flags of its parent.
ForkWorker(c) ==
  /\ Step(c, "fork")
  /\ \E k \in WorkersOf(c) :
       /\ worker[k].st = "none" /\ \A m \in WorkersOf(c) : m[2] < k[2] => worker[m].st # "none"
       /\ worker' = [worker EXCEPT ![k] =
            [st |-> "run", flags |-> watcher[c].flags,
             born_graceful |-> watcher[c].flags.graceful_shutdown]]
  /\ watcher' = [watcher EXCEPT ![c].num_childs = @ - 1, ![c].at = "loop"]
  /\ UNCHANGED <<proc, pending, broadcasts>>

\* case -1: return -1.  The workers that run already are not told.
ForkWorkerFails(c) ==
  /\ Step(c, "fork") /\ "fork" \in setup.fails
  /\ Ends(c, "exited")
  /\ UNCHANGED watcherVars

EnterWorkerWait(c) ==
  /\ Step(c, "wait")
  /\ Goto(c, "waiting")
  /\ UNCHANGED <<proc, pending, worker, broadcasts>>

WorkerWentAwayNotCounted(c) ==
  /\ Alive(c) /\ watcher[c].at = "waiting"
  /\ \E k \in WorkersOf(c) :
       worker[k].st = "zombie" /\ worker' = [worker EXCEPT ![k].st = "gone"]
  /\ Goto(c, "loop")
  /\ UNCHANGED <<proc, pending, broadcasts>>

\* wait() reports a dead worker.
WorkerWentAway(c) ==
  /\ Alive(c) /\ watcher[c].at = "waiting"
  /\ \E k \in WorkersOf(c) :
       worker[k].st = "zombie" /\ worker' = [worker EXCEPT ![k].st = "gone"]
  /\ watcher' = [watcher EXCEPT ![c].num_childs = @ + 1, ![c].at = "loop"]
  /\ UNCHANGED <<proc, pending, broadcasts>>

\* case EINTR: cycle the own log and pass SIGHUP on.
WaitInterrupted(c) ==
  /\ Step(c, "eintr")
  /\ LET f == watcher[c].flags
         forward == f.handle_sig_hup /\ ~f.forwarded_sig_hup
     IN watcher' = [watcher EXCEPT
          ![c].flags = [f EXCEPT !.handle_sig_hup = FALSE,
                                 !.forwarded_sig_hup = @ \/ forward],
          ![c].at = IF forward THEN "killhup" ELSE "loop"]
  /\ UNCHANGED <<proc, pending, worker, broadcasts>>

ForwardHup(c) ==
  /\ Step(c, "killhup")
  /\ KillGroup("HUP") /\ Goto(c, "loop")
  /\ broadcasts' = broadcasts + 1
  /\ UNCHANGED proc

LeaveAlwaysTerm(c) ==
  /\ Step(c, "leave")
  /\ KillGroup("TERM")
  /\ Goto(c, "exit")
  /\ UNCHANGED <<proc, broadcasts>>

LeaveSilently(c) ==
  /\ Step(c, "leave")
  /\ IF watcher[c].flags.srv_shutdown THEN KillGroup("TERM") ELSE UNCHANGED <<pending, worker>>
  /\ Goto(c, "exit")
  /\ UNCHANGED <<proc, broadcasts>>

\* The exit-point of the parent: kill all children too.
Leave(c) ==
  /\ Step(c, "leave")
  /\ KillGroup(IF watcher[c].flags.graceful_shutdown THEN "INT" ELSE "TERM")
  /\ Goto(c, "exit")
  /\ UNCHANGED <<proc, broadcasts>>

WatcherExit(c) ==
  /\ Alive(c) /\ watcher[c].at = "exit"
  /\ Ends(c, "exited")
  /\ UNCHANGED watcherVars

WatcherStep(c) ==
  \/ WatcherSignal(c) \/ WatcherTest(c) \/ ForkWorker(c) \/ ForkWorkerFails(c)
  \/ EnterWorkerWait(c) \/ WorkerWentAway(c) \/ WaitInterrupted(c)
  \/ ForwardHup(c) \/ Leave(c) \/ WatcherExit(c)

-----------------------------------------------------------------------------
\* Workers.  The dead worker of a watcher that has ended is reaped by init.

Dies(k) == worker' = [worker EXCEPT ![k].st = IF Alive(k[1]) THEN "zombie" ELSE "gone"]

\* The main loop sees handle_sig_hup and cycles the logs.
WorkerCycles(k) ==
  /\ Running(k) /\ worker[k].flags.handle_sig_hup
  /\ worker' = [worker EXCEPT ![k].flags.handle_sig_hup = FALSE]
  /\ UNCHANGED <<proc, pending, watcher, broadcasts>>

\* The main loop ends, at once or when the last connection is gone.
WorkerEnds(k) ==
  /\ Running(k) /\ (worker[k].flags.srv_shutdown \/ worker[k].flags.graceful_shutdown)
  /\ Dies(k)
  /\ UNCHANGED <<proc, pending, watcher, broadcasts>>

\* A crash is possible while the watcher can still replace the worker within
\* the bound.
WorkerCrashes(k) ==
  /\ Running(k)
  /\ Cardinality({m \in WorkersOf(k[1]) : worker[m].st \in {"zombie", "gone"}}) < setup.respawns
  /\ Dies(k)
  /\ UNCHANGED <<proc, pending, watcher, broadcasts>>

WorkerStep(k) == WorkerCycles(k) \/ WorkerEnds(k)

WatcherTypeOK ==
  /\ proc \in [Proc -> ProcState] /\ pending \in [Proc -> SUBSET Signal]
  /\ watcher \in [Child -> [at : {"loop", "fork", "wait", "waiting", "eintr",
                                  "killhup", "leave", "exit"},
                            num_childs : 0..setup.max_worker, flags : Flags]]
  /\ worker \in [Worker -> [st : {"none", "run", "zombie", "gone"},
                            flags : Flags, born_graceful : BOOLEAN]]
=============================================================================
