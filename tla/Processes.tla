----------------------------- MODULE Processes -----------------------------
(***************************************************************************)
(* The part of the kernel the angel and the watcher rely on: processes     *)
(* that run, become zombies and are reaped, and the set of signals that    *)
(* wait for each of them.  Process 0 is the angel; the others are the      *)
(* lighttpds it starts, or the one that was started by hand.               *)
(***************************************************************************)
EXTENDS Naturals, FiniteSets

CONSTANTS
  MaxForks,      \* bound: how many lighttpds are started
  MaxSlots,      \* bound: how many workers one of them forks
  Setups         \* the ways of running lighttpd: see SetupType

Child == 1..MaxForks
Proc == 0..MaxForks

\* How lighttpd is run, and what may happen: the bounds forks, signals, crashes
\* and respawns, and what fails: "start" (fork() or execvp() of the angel), "fork"
\* (of a worker).  Without workers there is no watcher.
SetupType ==
  [angel : BOOLEAN, max_worker : Nat, to_group : BOOLEAN, fails : SUBSET {"start", "fork"},
   forks : Child, signals : Nat, crashes : Nat, respawns : Nat]

ASSUME SetupAssumption ==
  /\ MaxForks \in Nat \ {0} /\ MaxSlots \in Nat /\ Setups \subseteq SetupType
  /\ \A s \in Setups : s.max_worker + s.respawns <= MaxSlots

VARIABLE setup
Signal == {"HUP", "INT", "TERM", "CHLD"}

VARIABLES
  proc,      \* "none", "run", a zombie that "exited" or was "killed", "gone"
  pending    \* the signals a process has not handled yet; a set: they merge

ProcState == {"none", "run", "exited", "killed", "gone"}

Alive(p) == proc[p] = "run"
Zombie(p) == proc[p] \in {"exited", "killed"}

\* kill(): only a running process notices.
Signalled(targets, sig) ==
  [p \in Proc |-> IF p \in targets /\ Alive(p) THEN pending[p] \union {sig} ELSE pending[p]]

\* Child c ends; it stays a zombie, and SIGCHLD goes to the angel.
Ends(c, how) ==
  /\ proc' = [proc EXCEPT ![c] = how]
  /\ pending' = [Signalled({0}, "CHLD") EXCEPT ![c] = {}]

Reap(c) == proc' = [proc EXCEPT ![c] = "gone"]
=============================================================================
