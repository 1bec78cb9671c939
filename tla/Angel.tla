------------------------------- MODULE Angel -------------------------------
(***************************************************************************)
(* lighttpd-angel: a process that starts lighttpd, restarts it when it     *)
(* crashes and replaces it on SIGHUP.                                      *)
(*                                                                         *)
(* Its main loop and its signal handlers share start_process and pid; a    *)
(* handler runs between any two steps of the loop and of the other         *)
(* handlers.  stack holds the handlers that are running, the innermost     *)
(* one last; a signal is blocked while its own handler runs.  "enter" is   *)
(* the instruction before a system call that waits, "waiting" is inside    *)
(* it: a signal interrupts the second and not the first.                   *)
(***************************************************************************)
EXTENDS Processes, Sequences

VARIABLES
  start_process, pid,
  pc,          \* where the loop is
  stack,       \* running handlers: [sig, at]
  sent,        \* signals sent by the administrator so far, as a sequence
  crashed,     \* the children that crashed
  asked        \* the children that were told to stop

angelVars == <<start_process, pid, pc, stack>>
histVars == <<sent, crashed, asked>>

NoPid == 0 - 1

AngelInit ==
  /\ start_process = TRUE /\ pid = NoPid /\ stack = <<>>
  /\ pc = IF setup.angel THEN "test" ELSE "done"
  /\ sent = <<>> /\ crashed = {} /\ asked = {}

-----------------------------------------------------------------------------
\* Signals.

Top == stack[Len(stack)]
Blocked(sig) == \E j \in DOMAIN stack : stack[j].sig = sig
Deliverable == {sig \in pending[0] : ~Blocked(sig)}

InKernel == IF stack = <<>> THEN pc = "waiting" ELSE Top.at = "waiting"

\* A signal that waits is handled before anything else the process does in
\* user mode; inside a system call it first has to make the call return.
UserMode == Alive(0) /\ ~InKernel /\ Deliverable = {}

At(where) == stack' = [stack EXCEPT ![Len(stack)].at = where]
Return == stack' = SubSeq(stack, 1, Len(stack) - 1)

\* The frame of sigaction_handler for sig.
Deliver ==
  /\ Alive(0) /\ ~InKernel
  /\ \E sig \in Deliverable :
       /\ pending' = [pending EXCEPT ![0] = @ \ {sig}]
       /\ stack' = Append(stack, [sig |-> sig, at |-> "enter"])
  /\ UNCHANGED <<proc, start_process, pid, pc, histVars>>

InHandler(sigs, where) ==
  UserMode /\ stack # <<>> /\ Top.sig \in sigs /\ Top.at = where

\* kill(pid, sig); before the first fork() has been stored, pid is -1, which
\* means every process.
Target == IF pid = NoPid THEN Child ELSE {pid}
Tell(sig) ==
  /\ pending' = Signalled(Target, sig)
  /\ asked' = asked \union {c \in Target : Alive(c)}

\* case SIGINT, SIGTERM: forward it.
HandleTerm ==
  /\ InHandler({"INT", "TERM"}, "enter")
  /\ Tell(Top.sig) /\ Return
  /\ UNCHANGED <<proc, start_process, pid, pc, sent, crashed>>

HandleHupKillNobody ==
  /\ InHandler({"HUP"}, "enter")
  /\ At("usleep")
  /\ UNCHANGED <<proc, pending, start_process, pid, pc, histVars>>

\* case SIGHUP: tell the child to end gracefully, sleep, ...
HandleHupKill ==
  /\ InHandler({"HUP"}, "enter")
  /\ Tell("INT") /\ At("usleep")
  /\ UNCHANGED <<proc, start_process, pid, pc, sent, crashed>>

\* ... and let the loop start the next one.
HandleHupStart ==
  /\ InHandler({"HUP"}, "usleep")
  /\ start_process' = TRUE /\ Return
  /\ UNCHANGED <<proc, pending, pid, pc, histVars>>

HandleChld ==
  /\ InHandler({"CHLD"}, "enter")
  /\ At("waiting")
  /\ UNCHANGED <<proc, pending, start_process, pid, pc, histVars>>

MyChildren == {c \in Child : Alive(c) \/ Zombie(c)}

HandleChldWaitAll ==
  /\ stack # <<>> /\ Top.sig = "CHLD" /\ Top.at = "waiting" /\ Alive(0)
  /\ \/ \E c \in Child : Zombie(c) /\ Reap(c) /\ At("enter")
     \/ MyChildren = {} /\ At("return") /\ UNCHANGED proc
     \/ /\ MyChildren # {} /\ ~(\E c \in Child : Zombie(c)) /\ Deliverable # {}
        /\ At("enter") /\ UNCHANGED proc
  /\ UNCHANGED <<pending, start_process, pid, pc, histVars>>

\* wait(&exitcode): some dead child, or ECHILD, or EINTR, or it blocks.
HandleChldWait ==
  /\ stack # <<>> /\ Top.sig = "CHLD" /\ Top.at = "waiting" /\ Alive(0)
  /\ \/ \E c \in Child : Zombie(c) /\ Reap(c)
     \/ MyChildren = {} /\ UNCHANGED proc
     \/ MyChildren # {} /\ ~(\E c \in Child : Zombie(c)) /\ Deliverable # {} /\ UNCHANGED proc
  /\ At("return")
  /\ UNCHANGED <<pending, start_process, pid, pc, histVars>>

HandleChldReturn ==
  /\ InHandler({"CHLD"}, "return")
  /\ Return
  /\ UNCHANGED <<proc, pending, start_process, pid, pc, histVars>>

Handlers ==
  \/ Deliver \/ HandleTerm \/ HandleHupKill \/ HandleHupStart
  \/ HandleChld \/ HandleChldWait \/ HandleChldReturn

-----------------------------------------------------------------------------
\* The loop.

Main(where) == UserMode /\ stack = <<>> /\ pc = where

\* while (!is_shutdown) { if (start_process) ...
Test ==
  /\ Main("test")
  /\ pc' = IF start_process THEN "fork" ELSE "wait"
  /\ UNCHANGED <<proc, pending, start_process, pid, stack, histVars>>

Unborn == {c \in 1..setup.forks : proc[c] = "none"}

Newest == CHOOSE c \in Child : proc[c] # "none" /\ \A d \in Child : proc[d] # "none" => d <= c

\* The process is over; nobody handles its signals any more.
AngelEnds == proc' = [proc EXCEPT ![0] = "gone"] /\ pc' = "done"

Fork ==
  /\ Main("fork") /\ Unborn # {}
  /\ \E c \in Unborn : (\A d \in Unborn : c <= d) /\ proc' = [proc EXCEPT ![c] = "run"]
  /\ pc' = "store"
  /\ UNCHANGED <<pending, start_process, pid, stack, histVars>>

ForkFails ==
  /\ Main("fork") /\ "start" \in setup.fails
  /\ AngelEnds /\ pid' = NoPid
  /\ UNCHANGED <<pending, start_process, stack, histVars>>

\* The assignment of fork()'s result is a step of its own for the handlers.
Store ==
  /\ Main("store")
  /\ pid' = Newest /\ pc' = "clear"
  /\ UNCHANGED <<proc, pending, start_process, stack, histVars>>

Clear ==
  /\ Main("clear")
  /\ start_process' = FALSE /\ pc' = "wait"
  /\ UNCHANGED <<proc, pending, pid, stack, histVars>>

EnterWait ==
  /\ Main("wait")
  /\ pc' = "waiting"
  /\ UNCHANGED <<proc, pending, start_process, pid, stack, histVars>>

\* waitpid(pid): the child's status, ECHILD, or EINTR.  A dead child is
\* noticed before a signal is.
WaitPid ==
  /\ Alive(0) /\ stack = <<>> /\ pc = "waiting"
  /\ \/ Zombie(pid) /\ Reap(pid) /\ pc' = proc[pid]
     \/ pid \notin MyChildren /\ pc' = "echild" /\ UNCHANGED proc
     \/ Alive(pid) /\ Deliverable # {} /\ pc' = "test" /\ UNCHANGED proc
  /\ UNCHANGED <<pending, start_process, pid, stack, histVars>>

\* WIFEXITED: the angel ends.
ChildExited ==
  /\ Main("exited")
  /\ AngelEnds
  /\ UNCHANGED <<pending, start_process, pid, stack, histVars>>

\* WIFSIGNALED: the child is started again.
ChildKilled ==
  /\ Main("killed")
  /\ start_process' = TRUE /\ pc' = "test"
  /\ UNCHANGED <<proc, pending, pid, stack, histVars>>

\* ECHILD: the handler of SIGCHLD was faster.
NoChild ==
  /\ Main("echild")
  /\ IF start_process THEN pc' = "test" /\ UNCHANGED proc ELSE AngelEnds
  /\ UNCHANGED <<pending, start_process, pid, stack, histVars>>

MainLoop ==
  \/ Test \/ Fork \/ ForkFails \/ Store \/ Clear \/ EnterWait \/ WaitPid
  \/ ChildExited \/ ChildKilled \/ NoChild

AngelStep == Handlers \/ MainLoop

-----------------------------------------------------------------------------
\* The lighttpds it starts, when they have no workers.

\* A child that was told to stop exits, or is killed by the signal when it
\* has not installed its handlers yet.
ChildStops(c) ==
  /\ Alive(c) /\ c \in asked
  /\ \E how \in {"exited", "killed"} : Ends(c, how)
  /\ UNCHANGED <<angelVars, histVars>>

ChildCrashes(c) ==
  /\ Alive(c) /\ Cardinality(crashed) < setup.crashes
  /\ crashed' = crashed \union {c}
  /\ Ends(c, "killed")
  /\ UNCHANGED <<angelVars, sent, asked>>

\* execvp() fails: exit(1).
ExecFails(c) ==
  /\ Alive(c) /\ "start" \in setup.fails
  /\ Ends(c, "exited")
  /\ UNCHANGED <<angelVars, histVars>>

ChildStep(c) == ChildStops(c) \/ ChildCrashes(c) \/ ExecFails(c)
=============================================================================
