---------------------------- MODULE Supervision ----------------------------
(***************************************************************************)
(* lighttpd and the processes around it, composed: an angel that starts    *)
(* lighttpd (Angel), a lighttpd with workers (Watcher), or both, in one    *)
(* process group.  What the angel sends with kill(pid) a watcher handles;  *)
(* what a watcher sends with kill(0) the angel handles as well.            *)
(***************************************************************************)
EXTENDS Angel, Watcher

vars == <<setup, proc, pending, angelVars, histVars, watcherVars>>

\* The process the administrator knows.
Root == IF setup.angel THEN 0 ELSE 1
Watched == setup.max_worker > 0

Init ==
  /\ setup \in Setups
  /\ proc = [p \in Proc |-> IF p = Root THEN "run" ELSE "none"]
  /\ pending = [p \in Proc |-> {}]
  /\ AngelInit /\ WatcherInit

Send(sig) ==
  /\ Len(sent) < setup.signals /\ Alive(Root)
  /\ sent' = Append(sent, sig)
  /\ \/ pending' = Signalled({Root}, sig) /\ UNCHANGED worker
     \/ setup.to_group /\ KillGroup(sig)
  /\ UNCHANGED <<proc, angelVars, crashed, asked, watcher, broadcasts>>

AngelMoves == AngelStep /\ UNCHANGED watcherVars
ChildMoves(c) == ~Watched /\ ChildStep(c) /\ UNCHANGED watcherVars
WatcherMoves(c) == Watched /\ WatcherStep(c) /\ UNCHANGED <<angelVars, histVars>>
WorkerMoves(k) == WorkerStep(k) /\ UNCHANGED <<angelVars, histVars>>
WorkerDies(k) == WorkerCrashes(k) /\ UNCHANGED <<angelVars, histVars>>

Moves ==
  \/ AngelMoves
  \/ \E c \in Child : ChildMoves(c) \/ WatcherMoves(c)
  \/ \E k \in Worker : WorkerMoves(k) \/ WorkerDies(k)
  \/ \E sig \in {"HUP", "INT", "TERM"} : Send(sig)

Next == Moves /\ UNCHANGED setup

Spec == Init /\ [][Next]_vars

\* The angel, the watcher and some worker are scheduled, and of the lighttpds that
\* were told to stop one after the other does.  Nothing is assumed of the
\* administrator and of crashes.  For the angel together with watchers no liveness
\* is claimed, and no fairness assumed.
Alone == ~(setup.angel /\ Watched)

FairSpec ==
  /\ Spec
  /\ WF_vars(Alone /\ AngelMoves /\ UNCHANGED setup)
  /\ WF_vars(/\ ~Watched /\ \E c \in Child : ChildStops(c)
             /\ UNCHANGED <<watcherVars, setup>>)
  /\ WF_vars(Alone /\ (\E c \in Child : WatcherMoves(c)) /\ UNCHANGED setup)
  /\ WF_vars(Alone /\ (\E k \in Worker : WorkerMoves(k)) /\ UNCHANGED setup)

-----------------------------------------------------------------------------
\* The types of the angel, the watchers and the workers; checked with OneCurrent.
TypeOK ==
  /\ start_process \in BOOLEAN
  /\ pid \in Child \union {NoPid}
  /\ pc \in {"test", "fork", "store", "clear", "wait", "waiting",
             "exited", "killed", "echild", "done"}
  /\ stack \in Seq([sig : Signal, at : {"enter", "usleep", "waiting", "return"}])
  /\ Len(stack) <= Cardinality(Signal)
  /\ asked \subseteq Child /\ crashed \subseteq Child
  /\ WatcherTypeOK

SentOf(sigs) == Cardinality({j \in DOMAIN sent : sent[j] \in sigs})

Told(flags) == flags.srv_shutdown \/ flags.graceful_shutdown

\* A lighttpd that nobody has told to stop.
MeantToStay(c) == Alive(c) /\ c \notin asked /\ ~Told(watcher[c].flags)

\* "spawn on HUP to allow graceful restart": an old lighttpd and a new one may
\* run at the same time, but only one of them is meant to stay.  Wherever the
\* handlers interrupt the loop (lighttpd-angel.c:45-54, 92-114), and although the
\* signals that watchers send to the group come back to the angel, which
\* forwards them, at most one running lighttpd has not been told to stop; and none
\* when the angel has ended, for whatever reason (lines 109, 126, 137).
OneCurrent ==
  /\ TypeOK
  /\ Cardinality({c \in Child : MeantToStay(c)}) <= IF setup.angel /\ ~Alive(0) THEN 0 ELSE 1

\* "kill all children too" (server.c:886).  When the angel and all watchers have
\* ended, every worker that still runs knows that it has to stop: the way from the
\* angel's handler over the watcher's flags and its kill(0) loses nobody, at
\* whatever point the signals arrive, not even a worker that was forked after the
\* signal had come and before the flags were tested (lines 831-840).
EverybodyTold ==
  (\A p \in Proc : ~Alive(p)) /\ "fork" \notin setup.fails =>
    \A k \in Worker : Running(k) => Told(worker[k].flags)

\* A worker is stopped hard, dropping its clients, only when somebody asked for
\* that: by SIGTERM, or by more than one SIGINT.  A signal to the group
\* counts twice, because the watcher repeats it (server.c:889); a worker that
\* was forked with graceful_shutdown set has no client of an earlier time.
HardOnlyOnRequest ==
  ~setup.angel =>
    \A k \in Worker :
      (worker[k].flags.srv_shutdown /\ ~worker[k].born_graceful) =>
        SentOf({"TERM"}) > 0 \/ SentOf({"INT"}) > 1 \/ (setup.to_group /\ SentOf({"INT"}) > 0)

\* "make sure we only send it once and don't create a infinite loop"
\* (server.c:102-103): a watcher does not send SIGHUP more often than the
\* administrator did, although it also sends it to itself, and whatever arrives
\* between the test of its flags and its kill().  (The two watchers of an angel do
\* when the SIGHUP was sent to their group: HupSentOnce.)
NoHupStorm == ~(setup.angel /\ setup.to_group) => broadcasts <= SentOf({"HUP"})

\* A restart that was asked for, by SIGHUP or by a crash, is carried out or
\* the angel ends: the loop is not held up for ever by waitpid(), or by the
\* wait() in the handler of SIGCHLD, which may block on an old child.  (With workers
\* it may: a watcher that sleeps in wait() does not act on its signal, IntForwarded.)
RestartHappens ==
  (start_process /\ pc # "done" /\ ~Watched) ~> (~start_process \/ pc = "done" \/ Unborn = {})

\* A watcher that runs and is not told to stop has all its workers again and
\* again, however its wait() is interrupted (server.c:846-850).
WorkersReplaced ==
  []<>(\/ setup.angel \/ SentOf({"INT", "TERM"}) > 0 \/ ~Alive(1)
       \/ Cardinality({k \in Worker : Running(k)}) = setup.max_worker)
=============================================================================
