------------------------- MODULE SupervisionProofs -------------------------
(***************************************************************************)
(* Proofs about Supervision, for any number of restarts, workers, signals  *)
(* and crashes, and every way of running lighttpd that Setups may hold.    *)
(*                                                                         *)
(* The invariant has a base, Basics, and one part per property; each part  *)
(* is shown to be kept with the help of Basics only.                       *)
(***************************************************************************)
EXTENDS Supervision, FiniteSetTheorems, TLAPS

\* The workers of watcher c that wait() has not reported yet.
Unreported(c) == {k \in WorkersOf(c) : worker[k].st \in {"run", "zombie"}}

IsNewest(c) == proc[c] # "none" /\ \A d \in Child : proc[d] # "none" => d <= c

\* The types, in parts.
Frame == [sig : Signal, at : {"enter", "usleep", "waiting", "return"}]

KernelTypes == proc \in [Proc -> ProcState] /\ pending \in [Proc -> SUBSET Signal]

StackInv ==
  /\ stack \in Seq(Frame)
  /\ \A i, j \in DOMAIN stack : stack[i].sig = stack[j].sig => i = j

\* The loop knows a child where it uses one.
LoopInv ==
  /\ start_process \in BOOLEAN /\ pid \in Child \union {NoPid}
  /\ pc \in {"test", "fork", "store", "clear", "wait", "waiting",
             "exited", "killed", "echild", "done"}
  /\ pc \in {"clear", "wait", "waiting", "exited", "killed", "echild"} => pid \in Child
  /\ (pc = "test" /\ ~start_process) => pid \in Child
  /\ pc \in {"fork", "store", "clear"} => start_process

HistTypes ==
  asked \subseteq Child /\ crashed \subseteq Child /\ sent \in Seq(Signal)

\* Children are born in the order of their numbers; without an angel there is only
\* the one that was started by hand.
BornInv ==
  /\ \A c, d \in Child : (proc[d] # "none" /\ c < d) => proc[c] # "none"
  /\ pc = "store" => \E c \in Child : IsNewest(c)
  /\ ~setup.angel => \A p \in Proc : p # 1 => proc[p] = "none"

WatcherRec ==
  [at : {"loop", "fork", "wait", "waiting", "eintr", "killhup", "leave", "exit"},
   num_childs : 0..setup.max_worker, flags : Flags]
WorkerRec ==
  [st : {"none", "run", "zombie", "gone"}, flags : Flags, born_graceful : BOOLEAN]

\* num_childs and the workers that wait() has not reported together are never
\* more than max_worker.
Books(c) ==
  /\ watcher[c].at = "fork" => watcher[c].num_childs > 0
  /\ watcher[c].num_childs + Cardinality(Unreported(c)) <= setup.max_worker

WatcherInv ==
  /\ watcher \in [Child -> WatcherRec] /\ worker \in [Worker -> WorkerRec]
  /\ broadcasts \in Nat
  /\ \A c \in Child : Books(c)

Basics ==
  /\ setup \in Setups
  /\ KernelTypes /\ StackInv /\ LoopInv /\ HistTypes /\ BornInv /\ WatcherInv

Staying == {c \in Child : MeantToStay(c)}

\* Nobody but the child the angel knows, or is about to know, is meant to stay;
\* and not even that one once a restart is due.
StayInv ==
  /\ ~setup.angel => \A c \in Staying : c = 1
  /\ setup.angel =>
       /\ \A c \in Staying : IF pc = "store" THEN IsNewest(c) ELSE c = pid
       /\ \/ Staying = {}
          \/ /\ Alive(0) /\ pc \notin {"exited", "killed", "echild", "done"}
             /\ start_process => pc \in {"store", "clear"}
             /\ pc # "store" =>
                  \A j \in DOMAIN stack : stack[j].sig = "HUP" => stack[j].at # "usleep"

\* Workers belong to a watcher that was started, and when it has passed its exit
\* point they know.
ToldInv ==
  /\ ~Watched => \A k \in Worker : ~Running(k)
  /\ \A c \in Child :
       /\ proc[c] = "none" => \A k \in WorkersOf(c) : ~Running(k)
       /\ watcher[c].at = "exit" => \A k \in WorkersOf(c) : Running(k) => Told(worker[k].flags)
       /\ (Watched /\ "fork" \notin setup.fails /\ proc[c] \notin {"none", "run"}) =>
            watcher[c].at = "exit"

One(b) == IF b THEN 1 ELSE 0

\* How many SIGHUPs watcher 1 may still send because of what it has got: a signal
\* it has to forward, one it is about to send, and one more if what would have
\* swallowed the copy of that one was used up in between.
DebtOf(where, handle, forwarded, hup) ==
  One(handle) + IF where = "killhup" THEN 1 + One(hup) + One(~forwarded)
                ELSE One(hup /\ ~forwarded)
Debt ==
  LET w == watcher[1]
  IN DebtOf(w.at, w.flags.handle_sig_hup, w.flags.forwarded_sig_hup, "HUP" \in pending[1])

HupInv ==
  /\ ~setup.angel => broadcasts + Debt <= SentOf({"HUP"})
  /\ (setup.angel /\ ~setup.to_group) =>
       /\ broadcasts = 0
       /\ \A c \in Child : /\ "HUP" \notin pending[c] /\ watcher[c].at # "killhup"
                           /\ ~watcher[c].flags.handle_sig_hup

\* Somebody asked for a hard stop.
HardAsked ==
  SentOf({"TERM"}) > 0 \/ SentOf({"INT"}) > 1 \/ (setup.to_group /\ SentOf({"INT"}) > 0)

\* As long as nobody has: at most one SIGINT is on its way, and reaches workers only
\* from the watcher's exit point.
HardInv ==
  (~setup.angel /\ ~HardAsked) =>
    LET w == watcher[1]
    IN /\ \A k \in Worker : worker[k].flags.srv_shutdown => worker[k].born_graceful
       /\ "TERM" \notin pending[1]
       /\ w.at = "leave" => w.flags.graceful_shutdown
       /\ w.at = "exit" => SentOf({"INT"}) > 0
       /\ w.at # "exit" =>
            /\ ~w.flags.srv_shutdown
            /\ ~("INT" \in pending[1] /\ w.flags.graceful_shutdown)
            /\ ("INT" \in pending[1] \/ w.flags.graceful_shutdown) => SentOf({"INT"}) > 0
            /\ \A k \in Worker : worker[k].flags.graceful_shutdown => worker[k].born_graceful

-----------------------------------------------------------------------------
\* Constants.

\* Facts about the constants that most steps need.
LEMMA ConstantsOK ==
  /\ MaxForks \in Nat /\ 1 \in Child /\ Child \subseteq Nat /\ Child \subseteq Proc /\ 0 \in Proc
  /\ 0 \notin Child /\ NoPid \notin Child
BY SetupAssumption DEF Child, Proc, NoPid

\* What Setups may hold.
LEMMA SetupOK ==
  ASSUME setup \in Setups
  PROVE  /\ setup.angel \in BOOLEAN /\ setup.max_worker \in Nat /\ setup.to_group \in BOOLEAN
         /\ setup.forks \in Child /\ setup.respawns \in Nat
BY SetupAssumption DEF SetupType

\* A watcher has finitely many places for workers.
LEMMA UnreportedFinite ==
  ASSUME NEW c \in Child
  PROVE  IsFiniteSet(Unreported(c)) /\ Cardinality(Unreported(c)) \in Nat
<1>1. IsFiniteSet(Child) /\ IsFiniteSet(Slot)
  BY SetupAssumption, FS_Interval DEF Child, Slot
<1>2. IsFiniteSet(Worker)
  BY <1>1, FS_Product DEF Worker
<1>3. Unreported(c) \subseteq Worker
  BY DEF Unreported, WorkersOf
<1> QED  BY <1>2, <1>3, FS_Subset, FS_CardinalityType

-----------------------------------------------------------------------------
\* Signals.

\* kill() changes the pending signals of its targets only, by that signal.
LEMMA SignalledOK ==
  ASSUME KernelTypes, NEW targets, NEW sig \in Signal
  PROVE  /\ Signalled(targets, sig) \in [Proc -> SUBSET Signal]
         /\ \A p \in Proc : /\ pending[p] \subseteq Signalled(targets, sig)[p]
                            /\ Signalled(targets, sig)[p] \subseteq pending[p] \union {sig}
                            /\ p \notin targets \/ ~Alive(p) => Signalled(targets, sig)[p] = pending[p]
BY DEF KernelTypes, Signalled

\* sigaction_handler takes no request to stop back.
LEMMA HandledOK ==
  ASSUME NEW f \in Flags, NEW sig \in Signal
  PROVE  /\ Handled(sig, f) \in Flags
         /\ f.srv_shutdown => Handled(sig, f).srv_shutdown
         /\ f.graceful_shutdown => Handled(sig, f).graceful_shutdown
         /\ sig \in {"INT", "TERM"} => Told(Handled(sig, f))
         /\ sig \in {"HUP", "CHLD"} =>
              /\ Handled(sig, f).srv_shutdown = f.srv_shutdown
              /\ Handled(sig, f).graceful_shutdown = f.graceful_shutdown
         /\ (sig = "INT" /\ ~f.graceful_shutdown) => Handled(sig, f).srv_shutdown = f.srv_shutdown
         /\ sig # "HUP" =>
              /\ Handled(sig, f).handle_sig_hup = f.handle_sig_hup
              /\ Handled(sig, f).forwarded_sig_hup = f.forwarded_sig_hup
         /\ sig = "HUP" =>
              /\ ~Handled(sig, f).forwarded_sig_hup
              /\ Handled(sig, f).handle_sig_hup = (f.handle_sig_hup \/ ~f.forwarded_sig_hup)
<1>1. CASE sig = "TERM"
  BY <1>1 DEF Handled, Flags, Told
<1>2. CASE sig = "INT"
  BY <1>2 DEF Handled, Flags, Told
<1>3. CASE sig = "HUP"
  BY <1>3 DEF Handled, Flags
<1>4. CASE sig = "CHLD"
  BY <1>4 DEF Handled, Flags
<1> QED  BY <1>1, <1>2, <1>3, <1>4 DEF Signal

-----------------------------------------------------------------------------
\* The stack of handlers.

\* A handler that goes on changes its own frame only.
LEMMA StackAt ==
  ASSUME StackInv, stack # <<>>, NEW where \in {"enter", "usleep", "waiting", "return"}, At(where)
  PROVE  /\ StackInv'
         /\ DOMAIN stack' = DOMAIN stack /\ Len(stack) \in DOMAIN stack
         /\ \A j \in DOMAIN stack : stack'[j].sig = stack[j].sig
         /\ \A j \in DOMAIN stack : j # Len(stack) => stack'[j] = stack[j]
         /\ stack'[Len(stack)].at = where
<1>1. /\ DOMAIN stack = 1..Len(stack) /\ Len(stack) \in Nat /\ Len(stack) \in DOMAIN stack
      /\ \A j \in DOMAIN stack : stack[j] \in Frame
  BY DEF StackInv
<1>2. stack' = [stack EXCEPT ![Len(stack)] = [stack[Len(stack)] EXCEPT !.at = where]]
  BY DEF At
<1> DEFINE fr == [stack[Len(stack)] EXCEPT !.at = where]
<1>3. fr \in Frame /\ fr.sig = stack[Len(stack)].sig /\ fr.at = where
  BY <1>1 DEF Frame
<1> HIDE DEF fr
<1>4. stack' \in Seq(Frame) /\ Len(stack') = Len(stack)
  BY <1>1, <1>2, <1>3 DEF StackInv, fr
<1>5. DOMAIN stack' = DOMAIN stack /\ stack'[Len(stack)] = fr
      /\ \A j \in DOMAIN stack : j # Len(stack) => stack'[j] = stack[j]
  BY <1>1, <1>2 DEF fr
<1> QED  BY <1>1, <1>3, <1>4, <1>5 DEF StackInv

\* A handler that returns leaves the frames below it.
LEMMA StackReturn ==
  ASSUME StackInv, stack # <<>>, Return
  PROVE  /\ StackInv'
         /\ \A j \in DOMAIN stack' : j \in DOMAIN stack /\ stack'[j] = stack[j]
<1>1. Len(stack) \in Nat \ {0} /\ DOMAIN stack = 1..Len(stack)
  BY DEF StackInv
<1>2. stack' \in Seq(Frame) /\ Len(stack') = Len(stack) - 1 /\ DOMAIN stack' = 1..(Len(stack) - 1)
  BY <1>1 DEF StackInv, Return
<1>3. \A j \in DOMAIN stack' : j \in DOMAIN stack /\ stack'[j] = stack[j]
  BY <1>1, <1>2 DEF StackInv, Return
<1> QED  BY <1>2, <1>3 DEF StackInv

\* A handler is not entered while it runs.
LEMMA StackPush ==
  ASSUME StackInv, NEW sig \in Signal, ~Blocked(sig),
         stack' = Append(stack, [sig |-> sig, at |-> "enter"])
  PROVE  /\ StackInv'
         /\ \A j \in DOMAIN stack' :
              \/ j \in DOMAIN stack /\ stack'[j] = stack[j]
              \/ stack'[j] = [sig |-> sig, at |-> "enter"]
<1> DEFINE fr == [sig |-> sig, at |-> "enter"]
<1>1. fr \in Frame /\ fr.sig = sig
  BY DEF Frame
<1> HIDE DEF fr
<1>2. stack' = Append(stack, fr)
  BY DEF fr
<1>3. stack' \in Seq(Frame) /\ Len(stack') = Len(stack) + 1
      /\ DOMAIN stack' = 1..(Len(stack) + 1) /\ DOMAIN stack = 1..Len(stack) /\ Len(stack) \in Nat
  BY <1>1, <1>2 DEF StackInv
<1>4. \A j \in DOMAIN stack' : IF j = Len(stack) + 1 THEN stack'[j] = fr
                               ELSE j \in DOMAIN stack /\ stack'[j] = stack[j]
  BY <1>1, <1>2, <1>3 DEF StackInv
<1>5. \A j \in DOMAIN stack : stack[j].sig # sig
  BY DEF Blocked
<1> QED  BY <1>1, <1>3, <1>4, <1>5 DEF StackInv, fr

\* At most one handler per signal runs.
LEMMA StackShort ==
  ASSUME StackInv
  PROVE  Len(stack) <= Cardinality(Signal)
<1>1. IsFiniteSet(Signal) /\ Cardinality(Signal) \in Nat
  <2>1. IsFiniteSet({"HUP"} \union {"INT"})
    BY FS_Singleton, FS_AddElement
  <2>2. ({"HUP"} \union {"INT"}) \union {"TERM"} \union {"CHLD"} = Signal
    BY DEF Signal
  <2>3. IsFiniteSet(({"HUP"} \union {"INT"}) \union {"TERM"})
    BY <2>1, FS_AddElement
  <2>4. IsFiniteSet(Signal)
    BY <2>2, <2>3, FS_AddElement
  <2> QED  BY <2>4, FS_CardinalityType
<1>2. Len(stack) \in Nat /\ DOMAIN stack = 1..Len(stack)
  BY DEF StackInv
<1>3. IsFiniteSet(1..Len(stack)) /\ Cardinality(1..Len(stack)) = Len(stack)
  <2>1. \A n \in Nat : IsFiniteSet(1..n) /\ Cardinality(1..n) = IF 1 > n THEN 0 ELSE n - 1 + 1
    BY FS_Interval
  <2>2. \A n \in Nat : Cardinality(1..n) = n
    BY <2>1
  <2> QED  BY <1>2, <2>1, <2>2
<1> DEFINE f == [j \in 1..Len(stack) |-> stack[j].sig]
<1>4. f \in [1..Len(stack) -> Signal]
  <2>1. \A j \in 1..Len(stack) : stack[j] \in Frame
    BY DEF StackInv
  <2>2. \A j \in 1..Len(stack) : stack[j].sig \in Signal
    BY <2>1 DEF Frame
  <2> QED  BY <2>2
<1>5. \A i, j \in 1..Len(stack) : f[i] = f[j] => i = j
  BY <1>2 DEF StackInv
<1> HIDE DEF f
<1>6. ~(Cardinality(Signal) < Cardinality(1..Len(stack)))
  BY <1>1, <1>3, <1>4, <1>5, FS_PigeonHole
<1> QED  BY <1>1, <1>2, <1>3, <1>6

\* The types of TypeOK are in the invariant.
LEMMA BasicsTypes == Basics => TypeOK
BY StackShort DEF Basics, KernelTypes, StackInv, LoopInv, HistTypes, WatcherInv, TypeOK,
  WatcherTypeOK, Frame, WatcherRec, WorkerRec

-----------------------------------------------------------------------------
\* Processes.

\* No process is born in this step.
SameBorn == \A p \in Proc : (proc'[p] = "none") <=> (proc[p] = "none")

\* Who was started stays known as long as nobody is started.
LEMMA BornKept ==
  ASSUME BornInv, SameBorn, setup' = setup, pc' = "store" => pc = "store"
  PROVE  BornInv'
BY ConstantsOK DEF BornInv, SameBorn, IsNewest

\* A child ends: the angel gets SIGCHLD, nobody else notices.
LEMMA EndsOK ==
  ASSUME KernelTypes, NEW c \in Child, Alive(c), NEW how \in {"exited", "killed"}, Ends(c, how)
  PROVE  /\ KernelTypes' /\ SameBorn
         /\ proc'[c] = how /\ \A p \in Proc : p # c => proc'[p] = proc[p]
         /\ pending'[c] = {}
         /\ \A d \in Child : d # c => pending'[d] = pending[d]
<1>1. c \in Proc /\ c # 0
  BY ConstantsOK
<1>2. "CHLD" \in Signal
  BY DEF Signal
<1>3. /\ proc' \in [Proc -> ProcState] /\ proc'[c] = how
      /\ \A p \in Proc : p # c => proc'[p] = proc[p]
  BY <1>1 DEF KernelTypes, Ends, ProcState
<1> DEFINE q == Signalled({0}, "CHLD")
<1>4. q \in [Proc -> SUBSET Signal] /\ \A p \in Proc : p # 0 => q[p] = pending[p]
  BY <1>2 DEF KernelTypes, Signalled
<1> HIDE DEF q
<1>5. pending' = [q EXCEPT ![c] = {}]
  BY DEF Ends, q
<1>6. pending' \in [Proc -> SUBSET Signal] /\ pending'[c] = {}
      /\ \A d \in Child : d # c => pending'[d] = pending[d]
  BY <1>1, <1>4, <1>5, ConstantsOK
<1> QED  BY <1>1, <1>3, <1>6 DEF KernelTypes, SameBorn, Alive

\* wait() and waitpid() make a zombie disappear.
LEMMA ReapOK ==
  ASSUME KernelTypes, NEW c \in Child, Zombie(c), Reap(c)
  PROVE  /\ proc' \in [Proc -> ProcState] /\ SameBorn
         /\ proc'[c] = "gone" /\ \A p \in Proc : p # c => proc'[p] = proc[p]
BY ConstantsOK DEF KernelTypes, Zombie, Reap, SameBorn, ProcState

\* The angel ends.
LEMMA AngelEndsOK ==
  ASSUME KernelTypes, Alive(0), proc' = [proc EXCEPT ![0] = "gone"]
  PROVE  /\ proc' \in [Proc -> ProcState] /\ SameBorn
         /\ proc'[0] = "gone" /\ \A c \in Child : proc'[c] = proc[c]
BY ConstantsOK DEF KernelTypes, SameBorn, ProcState, Alive

\* Everything the watchers keep is unchanged.
LEMMA WatchersKept ==
  ASSUME WatcherInv, UNCHANGED <<setup, watcherVars>>
  PROVE  WatcherInv'
BY DEF WatcherInv, Books, Unreported, WorkersOf, watcherVars, WatcherRec

-----------------------------------------------------------------------------
\* The steps of the angel.

\* Its handlers.
LEMMA HandlersBasics ==
  ASSUME Basics, Handlers, UNCHANGED <<setup, watcherVars>>
  PROVE  Basics'
<1> USE DEF Basics
<1>0. WatcherInv' /\ setup' \in Setups
  BY WatchersKept
<1>1. CASE Deliver
  <2>1. PICK sig \in Deliverable :
          /\ pending' = [pending EXCEPT ![0] = @ \ {sig}]
          /\ stack' = Append(stack, [sig |-> sig, at |-> "enter"])
    BY <1>1 DEF Deliver
  <2>2. sig \in Signal /\ ~Blocked(sig)
    BY ConstantsOK DEF Deliverable, KernelTypes
  <2>3. StackInv'
    BY <2>1, <2>2, StackPush
  <2>4. KernelTypes'
    BY <1>1, <2>1, ConstantsOK DEF KernelTypes, Deliver
  <2>5. LoopInv' /\ HistTypes'
    BY <1>1 DEF Deliver, LoopInv, HistTypes, histVars
  <2>6. SameBorn /\ pc' = pc
    BY <1>1 DEF Deliver, SameBorn
  <2> QED  BY <1>0, <2>3, <2>4, <2>5, <2>6, BornKept
<1>2. CASE HandleTerm \/ HandleHupKill
  <2>1. PICK sig \in {"INT", "TERM"} : Tell(sig)
    BY <1>2 DEF HandleTerm, HandleHupKill, InHandler
  <2>2. stack # <<>> /\ (Return \/ At("usleep"))
    BY <1>2 DEF HandleTerm, HandleHupKill, InHandler
  <2>3. StackInv'
    BY <2>2, StackReturn, StackAt
  <2>4. UNCHANGED <<proc, start_process, pid, pc, sent, crashed>>
    BY <1>2 DEF HandleTerm, HandleHupKill
  <2>5. sig \in Signal
    BY DEF Signal
  <2>6. KernelTypes'
    BY <2>1, <2>4, <2>5, SignalledOK DEF KernelTypes, Tell
  <2>7. Target \subseteq Child
    BY DEF Target, LoopInv
  <2>8. LoopInv' /\ HistTypes'
    BY <2>1, <2>4, <2>7 DEF LoopInv, HistTypes, Tell
  <2>9. SameBorn
    BY <2>4 DEF SameBorn
  <2> QED  BY <1>0, <2>3, <2>4, <2>6, <2>8, <2>9, BornKept
<1>3. CASE HandleHupStart \/ HandleChld \/ HandleChldReturn
  <2>1. stack # <<>> /\ (Return \/ At("waiting"))
    BY <1>3 DEF HandleHupStart, HandleChld, HandleChldReturn, InHandler
  <2>2. StackInv'
    BY <2>1, StackReturn, StackAt
  <2>3. /\ UNCHANGED <<proc, pending, pid, pc, histVars>>
        /\ start_process' = TRUE \/ start_process' = start_process
    BY <1>3 DEF HandleHupStart, HandleChld, HandleChldReturn
  <2>4. KernelTypes' /\ LoopInv' /\ HistTypes' /\ SameBorn
    BY <2>3 DEF KernelTypes, LoopInv, HistTypes, histVars, SameBorn
  <2> QED  BY <1>0, <2>2, <2>3, <2>4, BornKept
<1>4. CASE HandleChldWait
  <2>1. stack # <<>> /\ At("return")
    BY <1>4 DEF HandleChldWait
  <2>2. StackInv'
    BY <2>1, StackAt
  <2>3. UNCHANGED <<pending, start_process, pid, pc, histVars>>
    BY <1>4 DEF HandleChldWait
  <2>4. proc' \in [Proc -> ProcState] /\ SameBorn
    <3>1. CASE UNCHANGED proc
      BY <3>1 DEF KernelTypes, SameBorn
    <3>2. ASSUME NEW c \in Child, Zombie(c), Reap(c)
          PROVE  proc' \in [Proc -> ProcState] /\ SameBorn
      BY <3>2, ReapOK
    <3> QED  BY <1>4, <3>1, <3>2 DEF HandleChldWait
  <2>5. KernelTypes' /\ LoopInv' /\ HistTypes'
    BY <2>3, <2>4 DEF KernelTypes, LoopInv, HistTypes, histVars
  <2> QED  BY <1>0, <2>2, <2>3, <2>4, <2>5, BornKept
<1> QED  BY <1>1, <1>2, <1>3, <1>4 DEF Handlers

\* The child that Fork starts is the newest.
LEMMA ForkBorn ==
  ASSUME Basics, Fork, UNCHANGED setup
  PROVE  \E c \in Child :
           /\ proc[c] = "none" /\ proc' = [proc EXCEPT ![c] = "run"]
           /\ proc' \in [Proc -> ProcState]
           /\ IsNewest(c)' /\ BornInv'
<1> USE DEF Basics
<1>1. PICK c \in Unborn : (\A d \in Unborn : c <= d) /\ proc' = [proc EXCEPT ![c] = "run"]
  BY DEF Fork
<1>2. setup.forks \in Child
  BY SetupOK
<1>3. c \in Child /\ proc[c] = "none" /\ c <= setup.forks
  BY <1>2, ConstantsOK DEF Unborn, Child
<1>4. \A d \in Child : d < c => proc[d] # "none"
  BY <1>1, <1>2, <1>3, ConstantsOK DEF Unborn, Child
<1>5. \A d \in Child : c < d => proc[d] = "none"
  BY <1>3 DEF BornInv
<1>6. proc' \in [Proc -> ProcState] /\ proc'[c] = "run"
      /\ \A p \in Proc : p # c => proc'[p] = proc[p]
  BY <1>1, <1>3, ConstantsOK DEF KernelTypes, ProcState
<1>7. setup.angel
  BY ConstantsOK DEF Fork, Main, UserMode, Alive, BornInv
<1>8. IsNewest(c)'
  BY <1>3, <1>5, <1>6, ConstantsOK DEF IsNewest
<1>9. BornInv'
  BY <1>3, <1>4, <1>5, <1>6, <1>7, <1>8, ConstantsOK DEF BornInv
<1> QED  BY <1>1, <1>3, <1>6, <1>8, <1>9

\* Newest is the one there is.
LEMMA NewestOK ==
  ASSUME Basics, NEW c \in Child, IsNewest(c)
  PROVE  Newest = c
<1>1. Newest \in Child /\ IsNewest(Newest)
  BY DEF Newest, IsNewest
<1> QED  BY <1>1, ConstantsOK DEF IsNewest

\* Its loop.
LEMMA LoopBasics ==
  ASSUME Basics, MainLoop, UNCHANGED <<setup, watcherVars>>
  PROVE  Basics'
<1> USE DEF Basics
<1>0. WatcherInv' /\ setup' \in Setups
  BY WatchersKept
<1>1. UNCHANGED <<pending, stack, histVars>> /\ Alive(0)
  BY DEF MainLoop, Test, Fork, ForkFails, Store, Clear, EnterWait, WaitPid, ChildExited,
       ChildKilled, NoChild, Main, UserMode
<1>2. StackInv' /\ HistTypes'
  BY <1>1 DEF StackInv, HistTypes, histVars
<1>3. CASE Fork
  <2>1. LoopInv'
    BY <1>3 DEF Fork, Main, LoopInv
  <2> QED  BY <1>0, <1>1, <1>2, <1>3, <2>1, ForkBorn DEF KernelTypes
<1>4. CASE Test \/ Store \/ Clear \/ EnterWait \/ ChildKilled
  <2>1. proc' = proc /\ pc' # "store"
    BY <1>4 DEF Test, Store, Clear, EnterWait, ChildKilled
  <2>2. Store => Newest \in Child
    BY NewestOK DEF BornInv, Store, Main
  <2>3. LoopInv'
    BY <1>4, <2>2 DEF Test, Store, Clear, EnterWait, ChildKilled, Main, LoopInv
  <2> QED  BY <1>0, <1>1, <1>2, <2>1, <2>3, BornKept DEF KernelTypes, SameBorn
<1>5. CASE WaitPid
  <2>1. pid \in Child
    BY <1>5 DEF WaitPid, LoopInv
  <2>2. proc' \in [Proc -> ProcState] /\ SameBorn
    BY <1>5, <2>1, ReapOK DEF WaitPid, KernelTypes, SameBorn
  <2>3. LoopInv' /\ pc' # "store"
    BY <1>5, <2>1 DEF WaitPid, LoopInv, Zombie
  <2> QED  BY <1>0, <1>1, <1>2, <2>2, <2>3, BornKept DEF KernelTypes
<1>6. CASE ForkFails \/ ChildExited \/ NoChild
  <2>1. proc' \in [Proc -> ProcState] /\ SameBorn
    BY <1>1, <1>6, AngelEndsOK DEF ForkFails, ChildExited, NoChild, AngelEnds, KernelTypes, SameBorn
  <2>2. LoopInv' /\ pc' # "store"
    BY <1>6 DEF ForkFails, ChildExited, NoChild, AngelEnds, LoopInv
  <2> QED  BY <1>0, <1>1, <1>2, <2>1, <2>2, BornKept DEF KernelTypes
<1> QED  BY <1>3, <1>4, <1>5, <1>6 DEF MainLoop

-----------------------------------------------------------------------------
\* The steps of watchers and workers.

\* A watcher moves, and workers change their flags.
LEMMA WatcherMovesOK ==
  ASSUME Basics, NEW c \in Child, NEW w \in WatcherRec, setup' = setup,
         watcher' = [watcher EXCEPT ![c] = w],
         w.num_childs = watcher[c].num_childs, w.at = "fork" => w.num_childs > 0,
         worker' \in [Worker -> WorkerRec], broadcasts' \in Nat,
         \A k \in Worker : worker'[k].st = worker[k].st
  PROVE  WatcherInv'
<1>1. watcher' \in [Child -> WatcherRec'] /\ watcher'[c] = w
      /\ \A d \in Child : d # c => watcher'[d] = watcher[d]
  BY DEF Basics, WatcherInv, WatcherRec
<1>2. \A d : Unreported(d)' = Unreported(d)
  BY DEF Unreported, WorkersOf
<1>3. ASSUME NEW d \in Child  PROVE Books(d)'
  BY <1>1, <1>2 DEF Basics, WatcherInv, Books
<1>4. worker' \in [Worker -> WorkerRec']
  BY DEF WorkerRec
<1> QED  BY <1>1, <1>3, <1>4 DEF WatcherInv

\* kill(0, sig) changes flags of workers.
LEMMA KillGroupOK ==
  ASSUME Basics, NEW sig \in Signal, KillGroup(sig)
  PROVE  /\ pending' \in [Proc -> SUBSET Signal]
         /\ worker' \in [Worker -> WorkerRec]
         /\ \A k \in Worker : /\ worker'[k].st = worker[k].st
                             /\ worker'[k].born_graceful = worker[k].born_graceful
                             /\ worker'[k].flags = IF Running(k) THEN Handled(sig, worker[k].flags)
                                                    ELSE worker[k].flags
<1>1. pending' \in [Proc -> SUBSET Signal]
  BY SignalledOK DEF Basics, KillGroup
<1>2. worker \in [Worker -> WorkerRec]
  BY DEF Basics, WatcherInv
<1>3. ASSUME NEW k \in Worker
      PROVE  /\ worker'[k] \in WorkerRec
             /\ worker'[k].st = worker[k].st
             /\ worker'[k].born_graceful = worker[k].born_graceful
             /\ worker'[k].flags = IF Running(k) THEN Handled(sig, worker[k].flags)
                                    ELSE worker[k].flags
  <2> DEFINE h == Handled(sig, worker[k].flags)
  <2>1. worker[k] \in WorkerRec
    BY <1>2
  <2>2. h \in Flags
    BY <2>1, HandledOK DEF WorkerRec
  <2>3. worker'[k] = IF Running(k) THEN [worker[k] EXCEPT !.flags = h] ELSE worker[k]
    BY DEF KillGroup
  <2> HIDE DEF h
  <2>4. worker'[k] \in WorkerRec /\ worker'[k].st = worker[k].st
        /\ worker'[k].born_graceful = worker[k].born_graceful
        /\ worker'[k].flags = IF Running(k) THEN h ELSE worker[k].flags
    BY <2>1, <2>2, <2>3 DEF WorkerRec
  <2> QED  BY <2>4 DEF h
<1>4. worker' \in [Worker -> WorkerRec]
  BY <1>3 DEF KillGroup
<1> QED  BY <1>1, <1>3, <1>4

\* The steps of a watcher that move its position and flags only.
LEMMA WatcherLightBasics ==
  ASSUME Basics, NEW c \in Child, UNCHANGED <<setup, angelVars, histVars>>,
         \/ WatcherSignal(c) \/ WatcherTest(c) \/ EnterWorkerWait(c)
         \/ WaitInterrupted(c) \/ ForwardHup(c) \/ Leave(c)
  PROVE  Basics'
<1> USE DEF Basics
<1>0. watcher[c] \in WatcherRec /\ c \in Proc /\ Books(c)
  BY ConstantsOK DEF WatcherInv
<1>1. proc' = proc /\ worker \in [Worker -> WorkerRec]
  BY DEF WatcherSignal, WatcherTest, EnterWorkerWait, WaitInterrupted, ForwardHup, Leave, WatcherInv
<1>2. SameBorn /\ StackInv' /\ LoopInv' /\ HistTypes' /\ BornInv'
  BY <1>1, BornKept DEF SameBorn, StackInv, LoopInv, HistTypes, angelVars, histVars
<1>3. CASE WatcherSignal(c)
  <2>1. PICK sig \in pending[c] :
          /\ pending' = [pending EXCEPT ![c] = @ \ {sig}]
          /\ watcher' = [watcher EXCEPT
                           ![c].flags = Handled(sig, @),
                           ![c].at = IF @ = "waiting" THEN "eintr" ELSE @]
    BY <1>3 DEF WatcherSignal
  <2> DEFINE h == Handled(sig, watcher[c].flags)
             w == [watcher[c] EXCEPT !.flags = h, !.at = IF @ = "waiting" THEN "eintr" ELSE @]
  <2>2. sig \in Signal
    BY <1>0 DEF KernelTypes
  <2>3. h \in Flags
    BY <1>0, <2>2, HandledOK DEF WatcherRec
  <2>4. watcher' = [watcher EXCEPT ![c] = w]
    BY <1>0, <2>1 DEF WatcherInv
  <2> HIDE DEF h
  <2>5. w \in WatcherRec /\ w.num_childs = watcher[c].num_childs
        /\ (w.at = "fork" => w.num_childs > 0)
    BY <1>0, <2>3 DEF WatcherRec, Books
  <2>6. UNCHANGED <<worker, broadcasts>> /\ broadcasts \in Nat
    BY <1>3 DEF WatcherSignal, WatcherInv
  <2> HIDE DEF w
  <2>7. WatcherInv'
    BY <1>1, <2>4, <2>5, <2>6, WatcherMovesOK
  <2> QED  BY <1>0, <1>1, <1>2, <2>1, <2>7 DEF KernelTypes
<1>4. ASSUME NEW w \in WatcherRec, w.num_childs = watcher[c].num_childs,
             w.at = "fork" => w.num_childs > 0,
             watcher' = [watcher EXCEPT ![c] = w], UNCHANGED <<pending, worker, broadcasts>>
      PROVE  Basics'
  <2>1. WatcherInv'
    BY <1>1, <1>4, WatcherMovesOK DEF WatcherInv
  <2> QED  BY <1>1, <1>2, <1>4, <2>1 DEF KernelTypes
<1>5. CASE WatcherTest(c)
  <2> DEFINE f == watcher[c].flags
             where == IF f.srv_shutdown \/ f.graceful_shutdown THEN "leave"
                      ELSE IF watcher[c].num_childs > 0 THEN "fork" ELSE "wait"
             w == [watcher[c] EXCEPT !.at = where]
  <2>1. watcher' = [watcher EXCEPT ![c] = w]
    BY <1>5 DEF WatcherTest, Goto, WatcherInv
  <2>2. w \in WatcherRec /\ w.num_childs = watcher[c].num_childs
        /\ (w.at = "fork" => w.num_childs > 0)
    BY <1>0 DEF WatcherRec
  <2>3. UNCHANGED <<pending, worker, broadcasts>>
    BY <1>5 DEF WatcherTest
  <2> HIDE DEF w
  <2> QED  BY <1>4, <2>1, <2>2, <2>3
<1>6. CASE EnterWorkerWait(c)
  <2> DEFINE w == [watcher[c] EXCEPT !.at = "waiting"]
  <2>1. watcher' = [watcher EXCEPT ![c] = w] /\ UNCHANGED <<pending, worker, broadcasts>>
    BY <1>6 DEF EnterWorkerWait, Goto, WatcherInv
  <2>2. w \in WatcherRec /\ w.num_childs = watcher[c].num_childs /\ w.at # "fork"
    BY <1>0 DEF WatcherRec
  <2> HIDE DEF w
  <2> QED  BY <1>4, <2>1, <2>2
<1>7. CASE WaitInterrupted(c)
  <2> DEFINE f == watcher[c].flags
             forward == f.handle_sig_hup /\ ~f.forwarded_sig_hup
             g == [f EXCEPT !.handle_sig_hup = FALSE, !.forwarded_sig_hup = @ \/ forward]
             w == [watcher[c] EXCEPT !.flags = g, !.at = IF forward THEN "killhup" ELSE "loop"]
  <2>1. watcher' = [watcher EXCEPT ![c] = w] /\ UNCHANGED <<pending, worker, broadcasts>>
    BY <1>7 DEF WaitInterrupted, WatcherInv
  <2>2. g \in Flags
    BY <1>0 DEF WatcherRec, Flags
  <2> HIDE DEF g
  <2>3. w \in WatcherRec /\ w.num_childs = watcher[c].num_childs /\ w.at # "fork"
    BY <1>0, <2>2 DEF WatcherRec
  <2> HIDE DEF w
  <2> QED  BY <1>4, <2>1, <2>3
<1>8. CASE ForwardHup(c) \/ Leave(c)
  <2>1. PICK sig \in {"HUP", "INT", "TERM"} : KillGroup(sig)
    BY <1>8 DEF ForwardHup, Leave
  <2>2. PICK where \in {"loop", "exit"} : Goto(c, where)
    BY <1>8 DEF ForwardHup, Leave
  <2>3. broadcasts' \in Nat
    BY <1>8 DEF ForwardHup, Leave, WatcherInv
  <2>4. sig \in Signal
    BY DEF Signal
  <2> DEFINE w == [watcher[c] EXCEPT !.at = where]
  <2>5. watcher' = [watcher EXCEPT ![c] = w]
    BY <2>2 DEF Goto, WatcherInv
  <2>6. w \in WatcherRec /\ w.num_childs = watcher[c].num_childs /\ w.at # "fork"
    BY <1>0 DEF WatcherRec
  <2> HIDE DEF w
  <2>7. /\ pending' \in [Proc -> SUBSET Signal] /\ worker' \in [Worker -> WorkerRec]
        /\ \A k \in Worker : worker'[k].st = worker[k].st
    BY <2>1, <2>4, KillGroupOK
  <2>8. WatcherInv'
    BY <2>3, <2>5, <2>6, <2>7, WatcherMovesOK
  <2> QED  BY <1>1, <1>2, <2>7, <2>8 DEF KernelTypes
<1> QED  BY <1>3, <1>5, <1>6, <1>7, <1>8

\* fork() of a worker.
LEMMA ForkWorkerBasics ==
  ASSUME Basics, NEW c \in Child, ForkWorker(c), UNCHANGED <<setup, angelVars, histVars>>
  PROVE  Basics'
<1> USE DEF Basics
<1>0. watcher[c] \in WatcherRec /\ Books(c) /\ setup.max_worker \in Nat
  BY SetupOK DEF WatcherInv
<1>1. proc' = proc /\ pending' = pending
  BY DEF ForkWorker
<1>2. SameBorn /\ StackInv' /\ LoopInv' /\ HistTypes' /\ BornInv' /\ KernelTypes'
  BY <1>1, BornKept DEF SameBorn, StackInv, LoopInv, HistTypes, angelVars, histVars, KernelTypes
<1> DEFINE new == [st |-> "run", flags |-> watcher[c].flags,
                   born_graceful |-> watcher[c].flags.graceful_shutdown]
           n == watcher[c].num_childs - 1
           w == [watcher[c] EXCEPT !.num_childs = n, !.at = "loop"]
<1>3. PICK k \in WorkersOf(c) : worker[k].st = "none" /\ worker' = [worker EXCEPT ![k] = new]
  BY DEF ForkWorker
<1>4. watcher' = [watcher EXCEPT ![c] = w]
  BY DEF ForkWorker, WatcherInv
<1>5. watcher[c].num_childs > 0 /\ watcher[c].num_childs \in 0..setup.max_worker
  BY <1>0 DEF ForkWorker, Step, Books, WatcherRec
<1>6. w \in WatcherRec /\ w.num_childs = watcher[c].num_childs - 1 /\ w.at = "loop"
  <2>1. n \in 0..setup.max_worker
    BY <1>0, <1>5
  <2> HIDE DEF n
  <2>2. w \in WatcherRec /\ w.num_childs = n /\ w.at = "loop"
    BY <1>0, <2>1 DEF WatcherRec
  <2> QED  BY <2>2 DEF n
<1>7. new \in WorkerRec /\ new.st = "run"
  BY <1>0 DEF WatcherRec, WorkerRec, Flags
<1> HIDE DEF new, w
<1>8. k \in Worker /\ k[1] = c
  BY DEF WorkersOf
<1>9. worker' \in [Worker -> WorkerRec'] /\ worker'[k].st = "run"
      /\ \A m \in Worker : m # k => worker'[m] = worker[m]
  BY <1>3, <1>7, <1>8 DEF WatcherInv, WorkerRec
<1>10. watcher' \in [Child -> WatcherRec'] /\ watcher'[c] = w
       /\ \A d \in Child : d # c => watcher'[d] = watcher[d]
  BY <1>4, <1>6 DEF WatcherInv, WatcherRec
<1>11. ASSUME NEW d \in Child  PROVE Books(d)'
  <2>1. CASE d = c
    <3>1. Unreported(c)' = Unreported(c) \union {k} /\ k \notin Unreported(c)
      BY <1>3, <1>8, <1>9 DEF Unreported, WorkersOf
    <3>2. Cardinality(Unreported(c)') = Cardinality(Unreported(c)) + 1
          /\ Cardinality(Unreported(c)) \in Nat
      BY <3>1, UnreportedFinite, FS_AddElement
    <3> QED  BY <1>0, <1>5, <1>6, <1>10, <2>1, <3>2 DEF Books
  <2>2. CASE d # c
    <3>1. Unreported(d)' = Unreported(d)
      BY <1>8, <1>9, <2>2 DEF Unreported, WorkersOf
    <3> QED  BY <1>10, <2>2, <3>1 DEF Books, WatcherInv
  <2> QED  BY <2>1, <2>2
<1>12. WatcherInv'
  BY <1>9, <1>10, <1>11 DEF WatcherInv, ForkWorker
<1> QED  BY <1>2, <1>12

\* wait() reports a worker: it is to be replaced, and no more than max_worker are.
LEMMA WentAwayBasics ==
  ASSUME Basics, NEW c \in Child, WorkerWentAway(c), UNCHANGED <<setup, angelVars, histVars>>
  PROVE  Basics'
<1> USE DEF Basics
<1>0. watcher[c] \in WatcherRec /\ Books(c) /\ setup.max_worker \in Nat
  BY SetupOK DEF WatcherInv
<1>1. proc' = proc /\ pending' = pending
  BY DEF WorkerWentAway
<1>2. SameBorn /\ StackInv' /\ LoopInv' /\ HistTypes' /\ BornInv' /\ KernelTypes'
  BY <1>1, BornKept DEF SameBorn, StackInv, LoopInv, HistTypes, angelVars, histVars, KernelTypes
<1> DEFINE n == watcher[c].num_childs + 1
           w == [watcher[c] EXCEPT !.num_childs = n, !.at = "loop"]
<1>3. PICK k \in WorkersOf(c) : worker[k].st = "zombie" /\ worker' = [worker EXCEPT ![k].st = "gone"]
  BY DEF WorkerWentAway
<1>4. k \in Worker /\ k[1] = c /\ worker[k] \in WorkerRec
  BY DEF WorkersOf, WatcherInv
<1> DEFINE dead == [worker[k] EXCEPT !.st = "gone"]
<1>5. worker' = [worker EXCEPT ![k] = dead] /\ dead \in WorkerRec /\ dead.st = "gone"
  BY <1>3, <1>4 DEF WatcherInv, WorkerRec
<1> HIDE DEF dead
<1>6. worker' \in [Worker -> WorkerRec'] /\ worker'[k].st = "gone"
      /\ \A m \in Worker : m # k => worker'[m] = worker[m]
  BY <1>4, <1>5 DEF WatcherInv, WorkerRec
<1>7. Unreported(c)' = Unreported(c) \ {k} /\ k \in Unreported(c)
  BY <1>3, <1>4, <1>6 DEF Unreported, WorkersOf
<1>8. Cardinality(Unreported(c)') = Cardinality(Unreported(c)) - 1
      /\ Cardinality(Unreported(c)) \in Nat /\ Cardinality(Unreported(c)') \in Nat
  <2>1. IsFiniteSet(Unreported(c) \ {k})
        /\ Cardinality(Unreported(c) \ {k}) = Cardinality(Unreported(c)) - 1
    BY <1>7, UnreportedFinite, FS_RemoveElement
  <2> QED  BY <1>7, <2>1, UnreportedFinite, FS_CardinalityType
<1>9. watcher' = [watcher EXCEPT ![c] = w]
  BY DEF WorkerWentAway, WatcherInv
<1>10. watcher[c].num_childs \in Nat /\ watcher[c].num_childs + 1 <= setup.max_worker
  BY <1>0, <1>8 DEF WatcherRec, Books
<1>11. w \in WatcherRec /\ w.num_childs = watcher[c].num_childs + 1 /\ w.at = "loop"
  <2>1. n \in 0..setup.max_worker
    BY <1>0, <1>10
  <2> HIDE DEF n
  <2>2. w \in WatcherRec /\ w.num_childs = n /\ w.at = "loop"
    BY <1>0, <2>1 DEF WatcherRec
  <2> QED  BY <2>2 DEF n
<1> HIDE DEF w
<1>12. watcher' \in [Child -> WatcherRec'] /\ watcher'[c] = w
       /\ \A d \in Child : d # c => watcher'[d] = watcher[d]
  BY <1>9, <1>11 DEF WatcherInv, WatcherRec
<1>13. ASSUME NEW d \in Child  PROVE Books(d)'
  <2>1. CASE d = c
    BY <1>0, <1>8, <1>10, <1>11, <1>12, <2>1 DEF Books
  <2>2. CASE d # c
    <3>1. Unreported(d)' = Unreported(d)
      BY <1>4, <1>6, <2>2 DEF Unreported, WorkersOf
    <3> QED  BY <1>12, <2>2, <3>1 DEF Books, WatcherInv
  <2> QED  BY <2>1, <2>2
<1>14. WatcherInv'
  BY <1>6, <1>12, <1>13 DEF WatcherInv, WorkerWentAway
<1> QED  BY <1>2, <1>14

\* A lighttpd ends.
LEMMA EndsBasics ==
  ASSUME Basics, NEW c \in Child, Alive(c), NEW how \in {"exited", "killed"}, Ends(c, how),
         crashed' \subseteq Child, UNCHANGED <<setup, watcherVars, angelVars, sent, asked>>
  PROVE  Basics'
<1> USE DEF Basics
<1>1. WatcherInv'
  BY WatchersKept
<1>2. KernelTypes' /\ SameBorn
  BY EndsOK
<1>3. StackInv' /\ LoopInv' /\ HistTypes' /\ BornInv'
  BY <1>2, BornKept DEF StackInv, LoopInv, HistTypes, angelVars
<1> QED  BY <1>1, <1>2, <1>3

\* A worker cycles its logs or dies: it is not counted twice.
LEMMA WorkerBasics ==
  ASSUME Basics, NEW k \in Worker, UNCHANGED <<setup, angelVars, histVars>>,
         WorkerStep(k) \/ WorkerCrashes(k)
  PROVE  Basics'
<1> USE DEF Basics
<1>1. UNCHANGED <<proc, pending, watcher, broadcasts>> /\ Running(k)
  BY DEF WorkerStep, WorkerCycles, WorkerEnds, WorkerCrashes
<1>2. SameBorn /\ StackInv' /\ LoopInv' /\ HistTypes' /\ BornInv' /\ KernelTypes'
  BY <1>1, BornKept DEF SameBorn, StackInv, LoopInv, HistTypes, angelVars, histVars, KernelTypes
<1>3. worker[k] \in WorkerRec /\ worker[k].flags \in Flags
  BY DEF WatcherInv, WorkerRec
<1>4. PICK r \in WorkerRec : worker' = [worker EXCEPT ![k] = r]
  <2>1. CASE WorkerCycles(k)
    <3> DEFINE g == [worker[k].flags EXCEPT !.handle_sig_hup = FALSE]
               r == [worker[k] EXCEPT !.flags = g]
    <3>1. g \in Flags
      BY <1>3 DEF Flags
    <3>2. worker' = [worker EXCEPT ![k] = r]
      BY <2>1 DEF WorkerCycles, WatcherInv
    <3> HIDE DEF g
    <3>3. r \in WorkerRec
      BY <1>3, <3>1 DEF WorkerRec
    <3> QED  BY <3>2, <3>3
  <2>2. CASE Dies(k)
    <3> DEFINE s == IF Alive(k[1]) THEN "zombie" ELSE "gone"
               r == [worker[k] EXCEPT !.st = s]
    <3>1. worker' = [worker EXCEPT ![k] = r]
      BY <2>2 DEF Dies, WatcherInv
    <3>2. r \in WorkerRec
      BY <1>3 DEF WorkerRec
    <3> QED  BY <3>1, <3>2
  <2> QED  BY <2>1, <2>2 DEF WorkerStep, WorkerEnds, WorkerCrashes
<1>5. worker' \in [Worker -> WorkerRec'] /\ \A m \in Worker : m # k => worker'[m] = worker[m]
  BY <1>4 DEF WatcherInv, WorkerRec
<1>6. ASSUME NEW c \in Child  PROVE Books(c)'
  <2>1. Unreported(c)' \subseteq Unreported(c)
    BY <1>1, <1>5 DEF Unreported, WorkersOf, Running
  <2>2. Cardinality(Unreported(c)') <= Cardinality(Unreported(c))
        /\ Cardinality(Unreported(c)) \in Nat /\ Cardinality(Unreported(c)') \in Nat
    BY <2>1, UnreportedFinite, FS_Subset, FS_CardinalityType
  <2>3. watcher[c].num_childs \in Nat /\ setup.max_worker \in Nat /\ Books(c)
    BY SetupOK DEF WatcherInv, WatcherRec
  <2> QED  BY <1>1, <2>2, <2>3 DEF Books
<1>7. WatcherInv'
  BY <1>1, <1>5, <1>6 DEF WatcherInv, WatcherRec
<1> QED  BY <1>2, <1>7

\* The administrator sends a signal.
LEMMA SendBasics ==
  ASSUME Basics, NEW sig \in {"HUP", "INT", "TERM"}, Send(sig), UNCHANGED setup
  PROVE  Basics'
<1> USE DEF Basics
<1>1. /\ sent' = Append(sent, sig)
      /\ UNCHANGED <<proc, angelVars, crashed, asked, watcher, broadcasts>>
  BY DEF Send
<1>2. sig \in Signal
  BY DEF Signal
<1>3. SameBorn /\ StackInv' /\ LoopInv' /\ BornInv'
  BY <1>1, BornKept DEF SameBorn, StackInv, LoopInv, angelVars
<1>4. HistTypes'
  BY <1>1, <1>2 DEF HistTypes
<1>5. /\ pending' \in [Proc -> SUBSET Signal] /\ worker' \in [Worker -> WorkerRec]
      /\ \A k \in Worker : worker'[k].st = worker[k].st
  BY <1>2, SignalledOK, KillGroupOK DEF Send, WatcherInv
<1>6. 1 \in Child /\ watcher[1] \in WatcherRec /\ watcher' = [watcher EXCEPT ![1] = watcher[1]]
      /\ broadcasts' \in Nat /\ (watcher[1].at = "fork" => watcher[1].num_childs > 0)
  BY <1>1, ConstantsOK DEF WatcherInv, Books
<1>7. WatcherInv'
  BY <1>5, <1>6, WatcherMovesOK
<1> QED  BY <1>1, <1>3, <1>4, <1>5, <1>7 DEF KernelTypes

\* It starts that way ...
LEMMA InitBasics == Init => Basics
<1> SUFFICES ASSUME Init  PROVE Basics
  OBVIOUS
<1> USE DEF Init
<1>1. setup \in Setups /\ setup.angel \in BOOLEAN /\ setup.max_worker \in Nat
  BY SetupOK
<1>2. KernelTypes
  BY DEF KernelTypes, ProcState
<1>3. StackInv /\ LoopInv /\ HistTypes
  BY DEF AngelInit, StackInv, LoopInv, HistTypes
<1>4. BornInv
  BY <1>1, ConstantsOK DEF BornInv, AngelInit, Root
<1>5. NoFlags \in Flags
  BY DEF NoFlags, Flags
<1>6. watcher_init \in WatcherRec /\ NoWorker \in WorkerRec /\ NoWorker.st = "none"
      /\ watcher_init.num_childs = setup.max_worker /\ watcher_init.at = "loop"
  BY <1>1, <1>5 DEF watcher_init, NoWorker, WatcherRec, WorkerRec
<1>7. ASSUME NEW c \in Child  PROVE Books(c)
  <2>1. Unreported(c) = {}
    BY <1>6 DEF WatcherInit, Unreported, WorkersOf
  <2>2. Cardinality(Unreported(c)) = 0
    BY <2>1, FS_EmptySet
  <2> QED  BY <1>1, <1>6, <2>2 DEF Books, WatcherInit
<1>8. WatcherInv
  BY <1>6, <1>7 DEF WatcherInit, WatcherInv
<1> QED  BY <1>1, <1>2, <1>3, <1>4, <1>8 DEF Basics

\* ... and every step keeps it.
LEMMA NextBasics == Basics /\ [Next]_vars => Basics'
<1> SUFFICES ASSUME Basics, [Next]_vars  PROVE Basics'
  OBVIOUS
<1>1. CASE UNCHANGED vars
  <2>1. UNCHANGED <<setup, watcherVars>> /\ UNCHANGED <<proc, pending, angelVars, histVars>>
    BY <1>1 DEF vars
  <2>2. WatcherInv'
    BY <2>1, WatchersKept DEF Basics
  <2>3. SameBorn /\ StackInv' /\ LoopInv' /\ HistTypes' /\ BornInv' /\ KernelTypes'
    BY <2>1, BornKept
       DEF Basics, SameBorn, StackInv, LoopInv, HistTypes, angelVars, histVars, KernelTypes
  <2> QED  BY <2>1, <2>2, <2>3 DEF Basics
<1>2. CASE AngelMoves /\ UNCHANGED setup
  BY <1>2, HandlersBasics, LoopBasics DEF AngelMoves, AngelStep
<1>3. ASSUME NEW c \in Child, ChildMoves(c), UNCHANGED setup  PROVE Basics'
  <2>1. PICK how \in {"exited", "killed"} : Ends(c, how)
    BY <1>3 DEF ChildMoves, ChildStep, ChildStops, ChildCrashes, ExecFails
  <2>2. Alive(c) /\ UNCHANGED <<watcherVars, angelVars, sent, asked>> /\ crashed' \subseteq Child
    BY <1>3 DEF ChildMoves, ChildStep, ChildStops, ChildCrashes, ExecFails, histVars, Basics, HistTypes
  <2> QED  BY <1>3, <2>1, <2>2, EndsBasics
<1>4. ASSUME NEW c \in Child, WatcherMoves(c), UNCHANGED setup  PROVE Basics'
  <2>1. CASE ForkWorkerFails(c) \/ WatcherExit(c)
    <3>1. Ends(c, "exited") /\ Alive(c) /\ UNCHANGED <<watcherVars, angelVars, histVars>>
      BY <1>4, <2>1 DEF WatcherMoves, ForkWorkerFails, WatcherExit, Step
    <3>2. crashed' \subseteq Child /\ UNCHANGED <<sent, asked>>
      BY <3>1 DEF histVars, Basics, HistTypes
    <3> QED  BY <1>4, <3>1, <3>2, EndsBasics
  <2> QED
    BY <1>4, <2>1, WatcherLightBasics, ForkWorkerBasics, WentAwayBasics DEF WatcherMoves, WatcherStep
<1>5. ASSUME NEW k \in Worker, WorkerMoves(k) \/ WorkerDies(k), UNCHANGED setup  PROVE Basics'
  BY <1>5, WorkerBasics DEF WorkerMoves, WorkerDies
<1> QED  BY <1>1, <1>2, <1>3, <1>4, <1>5, SendBasics DEF Next, Moves

\* The lighttpds, watchers and workers are counted right for ever.
LEMMA BasicsAlways == Spec => []Basics
BY InitBasics, NextBasics, PTL DEF Spec

-----------------------------------------------------------------------------
\* One lighttpd is meant to stay.

\* A watcher that was told stays told.
LEMMA ToldStays ==
  ASSUME Basics, NEW c \in Child, WatcherStep(c), NEW d \in Child, Told(watcher[d].flags)
  PROVE  Told(watcher'[d].flags)
<1> USE DEF Basics
<1>1. watcher[c] \in WatcherRec /\ watcher \in [Child -> WatcherRec] /\ watcher[c].flags \in Flags
  BY DEF WatcherInv, WatcherRec
<1>2. CASE WatcherSignal(c)
  <2>1. PICK sig \in pending[c] :
          watcher' = [watcher EXCEPT ![c].flags = Handled(sig, @),
                                     ![c].at = IF @ = "waiting" THEN "eintr" ELSE @]
    BY <1>2 DEF WatcherSignal
  <2>2. sig \in Signal
    BY ConstantsOK DEF KernelTypes
  <2> DEFINE h == Handled(sig, watcher[c].flags)
  <2>3. Told(watcher[c].flags) => Told(h)
    BY <1>1, <2>2, HandledOK DEF Told
  <2> HIDE DEF h
  <2>4. watcher'[d].flags = IF d = c THEN h ELSE watcher[d].flags
    BY <1>1, <2>1 DEF h, WatcherRec
  <2> QED  BY <2>3, <2>4
<1>3. CASE WaitInterrupted(c)
  BY <1>1, <1>3 DEF WaitInterrupted, WatcherRec, Flags, Told
<1>4. CASE ~WatcherSignal(c) /\ ~WaitInterrupted(c)
  <2>1. watcher'[d].flags = watcher[d].flags
    BY <1>1, <1>4 DEF WatcherStep, WatcherTest, ForkWorker, ForkWorkerFails, EnterWorkerWait,
         WorkerWentAway, ForwardHup, Leave, WatcherExit, watcherVars, Goto, WatcherRec
  <2> QED  BY <2>1
<1> QED  BY <1>2, <1>3, <1>4

\* Nobody joins without a fork.
LEMMA StayLess ==
  ASSUME \A c \in Child : Alive(c)' => Alive(c), asked \subseteq asked',
         \A c \in Child : Told(watcher[c].flags) => Told(watcher'[c].flags)
  PROVE  Staying' \subseteq Staying
BY DEF Staying, MeantToStay

\* Steps of the others.
LEMMA StayFrame ==
  ASSUME StayInv, Staying' \subseteq Staying, UNCHANGED <<setup, angelVars>>,
         SameBorn, Alive(0)' <=> Alive(0)
  PROVE  StayInv'
BY ConstantsOK DEF StayInv, angelVars, SameBorn, IsNewest, Staying

\* Whoever the angel knows is told.
LEMMA TellAll ==
  ASSUME Basics, StayInv, setup.angel, pc # "store", NEW sig, Tell(sig),
         UNCHANGED <<proc, watcher>>
  PROVE  Staying' = {}
<1> SUFFICES ASSUME NEW c \in Staying'  PROVE FALSE
  OBVIOUS
<1>1. c \in Staying
  BY DEF Staying, MeantToStay, Tell, Alive
<1>2. c = pid /\ Alive(c) /\ c \in Child
  BY <1>1 DEF StayInv, Staying, MeantToStay
<1>3. c \in asked'
  BY <1>2, ConstantsOK DEF Tell, Target
<1> QED  BY <1>3 DEF Staying, MeantToStay

\* Handlers: SIGHUP makes room before it asks for a new child.
LEMMA HandlersStay ==
  ASSUME Basics, StayInv, Handlers, UNCHANGED <<setup, watcherVars>>
  PROVE  StayInv'
<1>0. UNCHANGED pc /\ Alive(0) /\ setup.angel /\ watcher' = watcher
  BY ConstantsOK DEF Handlers, Deliver, HandleTerm, HandleHupKill, HandleHupStart, HandleChld,
       HandleChldWait, HandleChldReturn, InHandler, UserMode, Alive, Basics, BornInv, watcherVars
<1>1. SameBorn /\ (Alive(0)' <=> Alive(0)) /\ \A c \in Child : Alive(c)' => Alive(c)
  <2>1. CASE UNCHANGED proc
    BY <2>1 DEF SameBorn, Alive
  <2>2. ASSUME NEW c \in Child, Zombie(c), Reap(c)
        PROVE  SameBorn /\ (Alive(0)' <=> Alive(0)) /\ \A d \in Child : Alive(d)' => Alive(d)
    BY <2>2, ReapOK, ConstantsOK DEF Basics, Alive
  <2> QED
    BY <2>1, <2>2 DEF Handlers, Deliver, HandleTerm, HandleHupKill, HandleHupStart, HandleChld,
         HandleChldWait, HandleChldReturn
<1>2. asked \subseteq asked'
  BY DEF Handlers, Deliver, HandleTerm, HandleHupKill, HandleHupStart, HandleChld,
       HandleChldWait, HandleChldReturn, Tell, histVars
<1>3. Staying' \subseteq Staying
  BY <1>0, <1>1, <1>2, StayLess
<1>4. pid' = pid /\ \A c \in Child : IsNewest(c) => IsNewest(c)'
  BY <1>1, ConstantsOK DEF Handlers, Deliver, HandleTerm, HandleHupKill, HandleHupStart, HandleChld,
       HandleChldWait, HandleChldReturn, SameBorn, IsNewest
<1>5. \A c \in Staying' : IF pc' = "store" THEN IsNewest(c)' ELSE c = pid'
  BY <1>0, <1>3, <1>4 DEF StayInv, Staying
<1>6. CASE Staying' = {}
  BY <1>0, <1>5, <1>6 DEF StayInv
<1>7. CASE Staying' # {}
  <2>1. /\ pc \notin {"exited", "killed", "echild", "done"}
        /\ start_process => pc \in {"store", "clear"}
        /\ pc # "store" => \A j \in DOMAIN stack : stack[j].sig = "HUP" => stack[j].at # "usleep"
    BY <1>0, <1>3, <1>7 DEF StayInv
  <2>2. StackInv
    BY DEF Basics
  <2>3. start_process' => pc \in {"store", "clear"}
    <3>1. CASE start_process' = start_process
      BY <2>1, <3>1
    <3>2. CASE HandleHupStart
      <4>1. Len(stack) \in DOMAIN stack
        BY <2>2, <3>2 DEF StackInv, HandleHupStart, InHandler
      <4> QED  BY <2>1, <3>2, <4>1 DEF HandleHupStart, InHandler, Top
    <3> QED
      BY <3>1, <3>2 DEF Handlers, Deliver, HandleTerm, HandleHupKill, HandleChld,
           HandleChldWait, HandleChldReturn
  <2>4. pc # "store" => \A j \in DOMAIN stack' : stack'[j].sig = "HUP" => stack'[j].at # "usleep"
    <3> SUFFICES ASSUME pc # "store", NEW j \in DOMAIN stack', stack'[j].sig = "HUP"
                 PROVE  stack'[j].at # "usleep"
      OBVIOUS
    <3>1. CASE Deliver
      <4>1. PICK sig \in Deliverable : stack' = Append(stack, [sig |-> sig, at |-> "enter"])
        BY <3>1 DEF Deliver
      <4>2. sig \in Signal /\ ~Blocked(sig)
        BY ConstantsOK DEF Deliverable, Basics, KernelTypes
      <4>3. \/ j \in DOMAIN stack /\ stack'[j] = stack[j]
            \/ stack'[j] = [sig |-> sig, at |-> "enter"]
        BY <2>2, <4>1, <4>2, StackPush
      <4> QED  BY <2>1, <4>3
    <3>2. CASE stack # <<>> /\ Return
      BY <2>1, <2>2, <3>2, StackReturn
    <3>3. CASE HandleHupKill
      <4>1. Staying' = {}
        BY <1>0, <3>3, TellAll DEF HandleHupKill
      <4> QED  BY <1>7, <4>1
    <3>4. CASE HandleChld \/ HandleChldWait
      <4>1. PICK where \in {"waiting", "return"} : At(where)
        BY <3>4 DEF HandleChld, HandleChldWait
      <4>2. stack # <<>>
        BY <3>4 DEF HandleChld, HandleChldWait, InHandler
      <4>3. /\ DOMAIN stack' = DOMAIN stack
            /\ \A i \in DOMAIN stack : i # Len(stack) => stack'[i] = stack[i]
            /\ stack'[Len(stack)].at = where
        BY <2>2, <4>1, <4>2, StackAt
      <4> QED  BY <2>1, <4>1, <4>3
    <3> QED
      BY <3>1, <3>2, <3>3, <3>4 DEF Handlers, HandleTerm, HandleHupStart, HandleChldReturn, InHandler
  <2> QED  BY <1>0, <1>1, <1>5, <2>1, <2>3, <2>4 DEF StayInv
<1> QED  BY <1>6, <1>7

\* The loop: a child is forked only when nobody is meant to stay, and is the one
\* the angel knows next.
LEMMA LoopStay ==
  ASSUME Basics, StayInv, MainLoop, UNCHANGED <<setup, watcherVars>>
  PROVE  StayInv'
<1>0. UNCHANGED <<stack, asked, watcher>> /\ Alive(0) /\ setup.angel
  BY ConstantsOK DEF MainLoop, Test, Fork, ForkFails, Store, Clear, EnterWait, WaitPid, ChildExited,
       ChildKilled, NoChild, Main, UserMode, histVars, watcherVars, Alive, Basics, BornInv
<1>1. stack = <<>> /\ DOMAIN stack = {}
  BY DEF MainLoop, Test, Fork, ForkFails, Store, Clear, EnterWait, WaitPid, ChildExited,
       ChildKilled, NoChild, Main
<1>2. LoopInv /\ KernelTypes /\ BornInv
  BY DEF Basics
<1>3. CASE Fork
  <2>1. PICK c \in Child : proc' = [proc EXCEPT ![c] = "run"] /\ IsNewest(c)'
    BY <1>3, ForkBorn
  <2>2. Staying = {}
    BY <1>0, <1>2, <1>3 DEF StayInv, Fork, Main, LoopInv
  <2>3. Staying' \subseteq {c}
    BY <1>0, <2>1, <2>2, ConstantsOK DEF Staying, MeantToStay, Alive, KernelTypes
  <2>4. pc' = "store" /\ Alive(0)'
    BY <1>0, <1>2, <1>3, <2>1, ConstantsOK DEF Fork, Alive, KernelTypes
  <2> QED  BY <1>0, <1>1, <2>1, <2>3, <2>4 DEF StayInv
<1>4. CASE Store
  <2>1. PICK c \in Child : IsNewest(c)
    BY <1>2, <1>4 DEF Store, Main, BornInv
  <2>2. pid' = c /\ pc = "store" /\ pc' = "clear" /\ proc' = proc
    BY <1>4, <2>1, NewestOK DEF Store, Main
  <2>3. Staying' = Staying
    BY <1>0, <2>2 DEF Staying, MeantToStay, Alive
  <2>4. \A d \in Staying : d = c
    BY <1>0, <2>1, <2>2, ConstantsOK DEF StayInv, IsNewest, Staying
  <2> QED  BY <1>0, <1>1, <2>2, <2>3, <2>4 DEF StayInv, Alive
<1>5. CASE Test \/ Clear \/ EnterWait
  <2>1. UNCHANGED <<proc, pid>> /\ pc # "store" /\ pc' # "store"
    BY <1>5 DEF Test, Clear, EnterWait, Main
  <2>2. Staying' = Staying /\ Alive(0)'
    BY <1>0, <2>1 DEF Staying, MeantToStay, Alive
  <2>3. \/ Staying = {}
        \/ /\ pc' \notin {"exited", "killed", "echild", "done"}
           /\ start_process' => pc' \in {"store", "clear"}
    BY <1>0, <1>5 DEF StayInv, Test, Clear, EnterWait, Main
  <2> QED  BY <1>0, <1>1, <2>1, <2>2, <2>3 DEF StayInv
<1>6. CASE WaitPid
  <2>1. pid \in Child /\ pid' = pid /\ pc = "waiting" /\ start_process' = start_process
    BY <1>2, <1>6 DEF WaitPid, LoopInv
  <2>2. CASE pc' = "test"
    <3>1. proc' = proc
      BY <1>6, <2>2 DEF WaitPid, Zombie
    <3>2. Staying' = Staying /\ Alive(0)'
      BY <1>0, <3>1 DEF Staying, MeantToStay, Alive
    <3> QED  BY <1>0, <1>1, <2>1, <2>2, <3>2 DEF StayInv
  <2>3. CASE pc' # "test"
    <3>1. ~Alive(pid)
      BY <1>6, <2>1, <2>3 DEF WaitPid, Zombie, Alive, MyChildren
    <3>2. Staying = {}
      BY <1>0, <2>1, <3>1 DEF StayInv, Staying, MeantToStay
    <3>3. \A c \in Child : Alive(c)' => Alive(c)
      BY <1>6, <2>1, <1>2, ReapOK, ConstantsOK DEF WaitPid, Alive
    <3>4. Staying' = {}
      BY <1>0, <3>2, <3>3, StayLess
    <3> QED  BY <1>0, <3>4 DEF StayInv
  <2> QED  BY <2>2, <2>3
<1>7. CASE ForkFails \/ ChildExited \/ ChildKilled \/ NoChild
  <2>1. Staying = {}
    BY <1>0, <1>2, <1>7
       DEF StayInv, ForkFails, ChildExited, ChildKilled, NoChild, Main, LoopInv
  <2>2. \A c \in Child : Alive(c)' => Alive(c)
    BY <1>0, <1>2, <1>7, AngelEndsOK
       DEF ForkFails, ChildExited, ChildKilled, NoChild, AngelEnds, Alive
  <2>3. Staying' = {}
    BY <1>0, <2>1, <2>2, StayLess
  <2> QED  BY <1>0, <2>3 DEF StayInv
<1> QED  BY <1>3, <1>4, <1>5, <1>6, <1>7 DEF MainLoop

\* Initially there is at most one.
LEMMA InitStay == Init => StayInv
<1> SUFFICES ASSUME Init  PROVE StayInv
  OBVIOUS
<1>1. setup.angel \in BOOLEAN
  BY SetupOK DEF Init
<1>2. \A c \in Staying : ~setup.angel /\ c = 1
  BY <1>1, ConstantsOK DEF Init, Staying, MeantToStay, Alive, Root
<1> QED  BY <1>2 DEF StayInv

\* Every step keeps StayInv.
LEMMA NextStay == Basics /\ StayInv /\ [Next]_vars => StayInv'
<1> SUFFICES ASSUME Basics, StayInv, [Next]_vars  PROVE StayInv'
  OBVIOUS
<1>1. CASE AngelMoves /\ UNCHANGED setup
  BY <1>1, HandlersStay, LoopStay DEF AngelMoves, AngelStep
<1>2. ASSUME UNCHANGED <<setup, angelVars, asked>>, UNCHANGED <<proc, watcher>>
      PROVE  StayInv'
  <2>1. Staying' = Staying
    BY <1>2 DEF Staying, MeantToStay, Alive
  <2> QED  BY <1>2, <2>1, StayFrame DEF SameBorn, Alive
<1>3. ASSUME NEW c \in Child, Alive(c), NEW how \in {"exited", "killed"}, Ends(c, how),
             UNCHANGED <<setup, angelVars, asked, watcher>>
      PROVE  StayInv'
  <2>1. /\ SameBorn /\ (Alive(0)' <=> Alive(0))
        /\ \A d \in Child : Alive(d)' => Alive(d)
    BY <1>3, EndsOK, ConstantsOK DEF Basics, Alive
  <2>2. Staying' \subseteq Staying
    BY <1>3, <2>1, StayLess
  <2> QED  BY <1>3, <2>1, <2>2, StayFrame
<1>4. ASSUME NEW c \in Child, ChildMoves(c), UNCHANGED setup  PROVE StayInv'
  <2>1. PICK how \in {"exited", "killed"} : Ends(c, how)
    BY <1>4 DEF ChildMoves, ChildStep, ChildStops, ChildCrashes, ExecFails
  <2>2. Alive(c) /\ UNCHANGED <<watcher, angelVars, asked>>
    BY <1>4 DEF ChildMoves, ChildStep, ChildStops, ChildCrashes, ExecFails, histVars, watcherVars
  <2> QED  BY <1>3, <1>4, <2>1, <2>2
<1>5. ASSUME NEW c \in Child, WatcherMoves(c), UNCHANGED setup  PROVE StayInv'
  <2>0. UNCHANGED <<angelVars, asked>> /\ WatcherStep(c)
    BY <1>5 DEF WatcherMoves, histVars
  <2>1. CASE ForkWorkerFails(c) \/ WatcherExit(c)
    <3>1. Ends(c, "exited") /\ Alive(c) /\ UNCHANGED watcher
      BY <2>1 DEF ForkWorkerFails, WatcherExit, Step, watcherVars
    <3> QED  BY <1>3, <1>5, <2>0, <3>1
  <2>2. CASE ~(ForkWorkerFails(c) \/ WatcherExit(c))
    <3>1. proc' = proc
      BY <2>0, <2>2 DEF WatcherStep, WatcherSignal, WatcherTest, ForkWorker, EnterWorkerWait,
           WorkerWentAway, WaitInterrupted, ForwardHup, Leave
    <3>2. Staying' \subseteq Staying
      BY <2>0, <3>1, ToldStays, StayLess DEF Alive
    <3> QED  BY <1>5, <2>0, <3>1, <3>2, StayFrame DEF SameBorn, Alive
  <2> QED  BY <2>1, <2>2
<1>6. ASSUME NEW k \in Worker, WorkerMoves(k) \/ WorkerDies(k), UNCHANGED setup  PROVE StayInv'
  BY <1>2, <1>6 DEF WorkerMoves, WorkerDies, WorkerStep, WorkerCycles, WorkerEnds, WorkerCrashes,
       histVars
<1>7. ASSUME NEW sig, Send(sig), UNCHANGED setup  PROVE StayInv'
  BY <1>2, <1>7 DEF Send
<1>8. CASE UNCHANGED vars
  BY <1>2, <1>8 DEF vars, histVars, watcherVars
<1> QED  BY <1>1, <1>4, <1>5, <1>6, <1>7, <1>8 DEF Next, Moves

\* "spawn on HUP to allow graceful restart" (lighttpd-angel.c:6): however the
\* signals, the ends of children and the steps of the angel interleave, at most
\* one running lighttpd has not been told to stop, and none when the angel has
\* ended.  With it, the types, and num_childs within 0..max_worker.
THEOREM OneIsCurrent == Spec => []OneCurrent
<1>1. Basics /\ StayInv => OneCurrent
  <2> SUFFICES ASSUME Basics, StayInv  PROVE OneCurrent
    OBVIOUS
  <2>1. Staying = {c \in Child : MeantToStay(c)} /\ setup.angel \in BOOLEAN
    BY SetupOK DEF Staying, Basics
  <2>2. CASE Staying = {}
    BY <2>1, <2>2, FS_EmptySet, BasicsTypes DEF OneCurrent
  <2>3. CASE Staying # {}
    <3>1. ~(setup.angel /\ ~Alive(0))
      BY <2>3 DEF StayInv
    <3>2. PICK x \in Staying : Staying \subseteq {x}
      <4>1. PICK x \in Staying : TRUE
        BY <2>3
      <4>2. \A c, d \in Staying : c = d
        BY <2>1, ConstantsOK DEF StayInv, IsNewest
      <4> QED  BY <4>1, <4>2
    <3>3. Staying = {x}
      BY <3>2
    <3>4. Cardinality(Staying) = 1
      BY <3>3, FS_Singleton
    <3> QED  BY <2>1, <3>1, <3>4, BasicsTypes DEF OneCurrent
  <2> QED  BY <2>2, <2>3
<1>2. Init => StayInv
  BY InitStay
<1> QED  BY BasicsAlways, NextStay, <1>1, <1>2, PTL DEF Spec

-----------------------------------------------------------------------------
\* Every worker is told.

\* A worker starts to run only when it is forked, and stays told.
Onwards == \A k \in Worker :
  Running(k)' => Running(k) /\ (Told(worker[k].flags) => Told(worker'[k].flags))

\* A signal to the group starts no worker and untells none.
LEMMA KillGroupOnwards ==
  ASSUME Basics, NEW sig \in Signal, KillGroup(sig)
  PROVE  Onwards
<1> SUFFICES ASSUME NEW k \in Worker, Running(k)'
             PROVE  Running(k) /\ (Told(worker[k].flags) => Told(worker'[k].flags))
  BY DEF Onwards
<1>1. worker[k].flags \in Flags
  BY DEF Basics, WatcherInv, WorkerRec
<1>2. Running(k) /\ worker'[k].flags = Handled(sig, worker[k].flags)
  BY KillGroupOK DEF Running
<1>3. /\ worker[k].flags.srv_shutdown => Handled(sig, worker[k].flags).srv_shutdown
      /\ worker[k].flags.graceful_shutdown => Handled(sig, worker[k].flags).graceful_shutdown
  BY <1>1, HandledOK
<1> QED  BY <1>2, <1>3 DEF Told

\* What has to hold of a step for everybody to stay told.
LEMMA ToldFrame ==
  ASSUME ToldInv, setup' = setup, Onwards,
         \A c \in Child :
           /\ watcher'[c].at = "exit" => watcher[c].at = "exit"
           /\ watcher[c].at = "exit" => watcher'[c].at = "exit"
           /\ proc'[c] = "none" => proc[c] = "none"
           /\ proc'[c] \notin {"none", "run"} =>
                \/ proc[c] \notin {"none", "run"} \/ ~Watched
                \/ "fork" \in setup.fails \/ watcher[c].at = "exit"
  PROVE  ToldInv'
BY DEF ToldInv, Onwards, WorkersOf, Watched

\* Nobody has workers at the start.
LEMMA InitTold == Init => ToldInv
BY ConstantsOK DEF Init, WatcherInit, NoWorker, watcher_init, ToldInv, Running, WorkersOf

\* The steps of a watcher: whoever is at the exit point has told its workers, and
\* whoever forks has not been there.
LEMMA WatcherTold ==
  ASSUME Basics, ToldInv, NEW c \in Child, WatcherMoves(c), setup' = setup
  PROVE  ToldInv'
<1>0. watcher \in [Child -> WatcherRec] /\ c \in Proc /\ Watched /\ Alive(c)
      /\ worker \in [Worker -> WorkerRec]
  BY ConstantsOK DEF Basics, WatcherInv, WatcherMoves, WatcherStep, WatcherSignal, WatcherTest,
       ForkWorker, ForkWorkerFails, EnterWorkerWait, WorkerWentAway, WaitInterrupted, ForwardHup,
       Leave, WatcherExit, Step
<1>1. CASE WatcherSignal(c) \/ WatcherTest(c) \/ EnterWorkerWait(c) \/ WaitInterrupted(c)
  <2>1. UNCHANGED <<proc, worker>>
    BY <1>1 DEF WatcherSignal, WatcherTest, EnterWorkerWait, WaitInterrupted
  <2>2. \A d \in Child : (watcher'[d].at = "exit") <=> (watcher[d].at = "exit")
    <3>1. \A d \in Child : d # c => watcher'[d] = watcher[d]
      BY <1>0, <1>1 DEF WatcherSignal, WatcherTest, EnterWorkerWait, WaitInterrupted, Goto
    <3>2. CASE WatcherSignal(c)
      <4>1. watcher'[c].at = IF watcher[c].at = "waiting" THEN "eintr" ELSE watcher[c].at
        BY <1>0, <3>2 DEF WatcherSignal, WatcherRec
      <4> QED  BY <3>1, <4>1
    <3>3. CASE WatcherTest(c) \/ EnterWorkerWait(c) \/ WaitInterrupted(c)
      <4>1. watcher'[c].at \in {"leave", "fork", "wait", "waiting", "killhup", "loop"}
        BY <1>0, <3>3 DEF WatcherTest, EnterWorkerWait, WaitInterrupted, Goto, WatcherRec
      <4>2. watcher[c].at # "exit"
        BY <3>3 DEF WatcherTest, EnterWorkerWait, WaitInterrupted, Step
      <4> QED  BY <3>1, <4>1, <4>2
    <3> QED  BY <1>1, <3>2, <3>3
  <2> QED  BY <2>1, <2>2, ToldFrame DEF Onwards, Running
<1>2. CASE ForkWorker(c)
  <2>1. PICK k \in WorkersOf(c) : \A m \in Worker : m # k => worker'[m] = worker[m]
    BY <1>0, <1>2 DEF ForkWorker, WorkersOf
  <2>2. \A d \in Child : d # c => watcher'[d] = watcher[d]
    BY <1>0, <1>2 DEF ForkWorker
  <2>3. watcher'[c].at = "loop"
    BY <1>0, <1>2 DEF ForkWorker, WatcherRec
  <2>4. proc' = proc
    BY <1>2 DEF ForkWorker
  <2>5. ASSUME NEW d \in Child, d # c
        PROVE  \A m \in WorkersOf(d) : worker'[m] = worker[m]
    BY <2>1, <2>5 DEF WorkersOf
  <2>6. ASSUME NEW d \in Child
        PROVE  /\ proc'[d] = "none" => \A m \in WorkersOf(d) : ~Running(m)'
               /\ watcher'[d].at = "exit" =>
                    \A m \in WorkersOf(d) : Running(m)' => Told(worker'[m].flags)
               /\ (Watched' /\ "fork" \notin setup.fails /\ proc'[d] \notin {"none", "run"}) =>
                    watcher'[d].at = "exit"
    <3>1. CASE d = c
      BY <1>0, <2>3, <2>4, <3>1 DEF Alive
    <3>2. CASE d # c
      BY <2>2, <2>4, <2>5, <3>2 DEF ToldInv, Running, Watched
    <3> QED  BY <3>1, <3>2
  <2> QED  BY <1>0, <2>6 DEF ToldInv, Watched, WorkersOf
<1>3. CASE ForkWorkerFails(c) \/ WatcherExit(c)
  <2>1. /\ Ends(c, "exited") /\ UNCHANGED <<worker, watcher>>
        /\ "fork" \in setup.fails \/ watcher[c].at = "exit"
    BY <1>3 DEF ForkWorkerFails, WatcherExit, watcherVars
  <2>2. proc'[c] = "exited" /\ \A p \in Proc : p # c => proc'[p] = proc[p]
    BY <1>0, <2>1, EndsOK DEF Basics
  <2> QED  BY <1>0, <2>1, <2>2, ConstantsOK, ToldFrame DEF Onwards, Running
<1>4. CASE WorkerWentAway(c)
  <2>1. Onwards
    BY <1>0, <1>4 DEF WorkerWentAway, Onwards, Running, WorkersOf, WorkerRec
  <2>2. \A d \in Child : (watcher'[d].at = "exit") <=> (watcher[d].at = "exit")
    BY <1>0, <1>4 DEF WorkerWentAway, WatcherRec
  <2>3. proc' = proc
    BY <1>4 DEF WorkerWentAway
  <2> QED  BY <2>1, <2>2, <2>3, ToldFrame
<1>5. CASE ForwardHup(c)
  <2>1. Onwards
    BY <1>5, KillGroupOnwards DEF ForwardHup, Signal
  <2>2. \A d \in Child : (watcher'[d].at = "exit") <=> (watcher[d].at = "exit")
    BY <1>0, <1>5 DEF ForwardHup, Goto, Step, WatcherRec
  <2>3. proc' = proc
    BY <1>5 DEF ForwardHup
  <2> QED  BY <2>1, <2>2, <2>3, ToldFrame
<1>6. CASE Leave(c)
  <2>1. PICK sig \in {"INT", "TERM"} : KillGroup(sig)
    BY <1>6 DEF Leave
  <2>2. sig \in Signal
    BY DEF Signal
  <2>3. \A m \in Worker : Running(m)' => Running(m) /\ Told(worker'[m].flags)
    <3> SUFFICES ASSUME NEW m \in Worker, Running(m)'
                 PROVE  Running(m) /\ Told(worker'[m].flags)
      OBVIOUS
    <3>1. worker[m].flags \in Flags
      BY <1>0 DEF WorkerRec
    <3>2. Running(m) /\ worker'[m].flags = Handled(sig, worker[m].flags)
      BY <2>1, <2>2, KillGroupOK DEF Running
    <3>3. Told(Handled(sig, worker[m].flags))
      BY <2>2, <3>1, HandledOK
    <3> QED  BY <3>2, <3>3
  <2>4. proc' = proc /\ watcher'[c].at = "exit"
    BY <1>0, <1>6 DEF Leave, Goto, WatcherRec
  <2>5. \A d \in Child : d # c => watcher'[d] = watcher[d]
    BY <1>0, <1>6 DEF Leave, Goto
  <2> QED  BY <1>0, <2>3, <2>4, <2>5 DEF ToldInv, WorkersOf, Watched
<1> QED  BY <1>1, <1>2, <1>3, <1>4, <1>5, <1>6 DEF WatcherMoves, WatcherStep

\* What the angel does to the children: it starts and it reaps.
LEMMA AngelChildren ==
  ASSUME Basics, AngelStep, UNCHANGED setup, NEW c \in Child
  PROVE  /\ proc'[c] = "none" => proc[c] = "none"
         /\ proc'[c] \notin {"none", "run"} => proc[c] \notin {"none", "run"}
<1>1. CASE proc'[c] = proc[c]
  BY <1>1
<1>2. ASSUME NEW d \in Child, Zombie(d), Reap(d)
      PROVE  /\ proc'[c] = "none" => proc[c] = "none"
             /\ proc'[c] \notin {"none", "run"} => proc[c] \notin {"none", "run"}
  BY <1>2, ReapOK, ConstantsOK DEF Basics, Zombie
<1>3. CASE HandleChldWait
  BY <1>1, <1>2, <1>3 DEF HandleChldWait
<1>4. CASE WaitPid
  BY <1>1, <1>2, <1>4 DEF WaitPid, Basics, LoopInv
<1>5. CASE Fork
  <2>1. PICK d \in Child : proc[d] = "none" /\ proc' = [proc EXCEPT ![d] = "run"]
    BY <1>5, ForkBorn
  <2> QED  BY <2>1, ConstantsOK DEF Basics, KernelTypes
<1>6. CASE ForkFails \/ ChildExited \/ NoChild
  <2>1. UNCHANGED proc \/ proc' = [proc EXCEPT ![0] = "gone"]
    BY <1>6 DEF ForkFails, ChildExited, NoChild, AngelEnds
  <2> QED  BY <2>1, ConstantsOK DEF Basics, KernelTypes
<1>7. CASE UNCHANGED proc
  BY <1>7
<1> QED
  BY <1>3, <1>4, <1>5, <1>6, <1>7 DEF AngelStep, Handlers, MainLoop, Deliver, HandleTerm,
     HandleHupKill, HandleHupStart, HandleChld, HandleChldReturn, Test, Store, Clear, EnterWait,
     ChildKilled

\* Every step keeps ToldInv.
LEMMA NextTold == Basics /\ ToldInv /\ [Next]_vars => ToldInv'
<1> SUFFICES ASSUME Basics, ToldInv, [Next]_vars  PROVE ToldInv'
  OBVIOUS
<1>1. CASE AngelMoves /\ UNCHANGED setup
  <2>1. UNCHANGED <<watcher, worker>> /\ AngelStep
    BY <1>1 DEF AngelMoves, watcherVars
  <2> QED  BY <1>1, <2>1, AngelChildren, ToldFrame DEF Onwards, Running
<1>2. ASSUME NEW c \in Child, ChildMoves(c), UNCHANGED setup  PROVE ToldInv'
  <2>1. PICK how \in {"exited", "killed"} : Ends(c, how)
    BY <1>2 DEF ChildMoves, ChildStep, ChildStops, ChildCrashes, ExecFails
  <2>2. Alive(c) /\ UNCHANGED <<watcher, worker>> /\ ~Watched
    BY <1>2 DEF ChildMoves, ChildStep, ChildStops, ChildCrashes, ExecFails, watcherVars
  <2>3. proc'[c] = how /\ \A p \in Proc : p # c => proc'[p] = proc[p]
    BY <2>1, <2>2, EndsOK DEF Basics
  <2> QED  BY <1>2, <2>2, <2>3, ConstantsOK, ToldFrame DEF Onwards, Running
<1>3. ASSUME NEW k \in Worker, WorkerMoves(k) \/ WorkerDies(k), UNCHANGED setup  PROVE ToldInv'
  <2>1. UNCHANGED <<proc, watcher>>
    BY <1>3 DEF WorkerMoves, WorkerDies, WorkerStep, WorkerCycles, WorkerEnds, WorkerCrashes
  <2>2. worker \in [Worker -> WorkerRec] /\ Running(k)
    BY <1>3 DEF Basics, WatcherInv, WorkerMoves, WorkerDies, WorkerStep, WorkerCycles, WorkerEnds,
         WorkerCrashes
  <2>3. CASE WorkerCycles(k)
    <3>1. Onwards
      BY <2>2, <2>3 DEF WorkerCycles, Onwards, Running, Told, WorkerRec, Flags
    <3> QED  BY <1>3, <2>1, <3>1, ToldFrame
  <2>4. CASE Dies(k)
    <3>1. Onwards
      BY <2>2, <2>4 DEF Dies, Onwards, Running, WorkerRec
    <3> QED  BY <1>3, <2>1, <3>1, ToldFrame
  <2> QED  BY <1>3, <2>3, <2>4 DEF WorkerMoves, WorkerDies, WorkerStep, WorkerEnds, WorkerCrashes
<1>4. ASSUME NEW sig \in {"HUP", "INT", "TERM"}, Send(sig), UNCHANGED setup  PROVE ToldInv'
  <2>1. UNCHANGED <<proc, watcher>>
    BY <1>4 DEF Send
  <2>2. Onwards
    BY <1>4, KillGroupOnwards DEF Send, Signal, Onwards, Running
  <2> QED  BY <1>4, <2>1, <2>2, ToldFrame
<1>5. CASE UNCHANGED vars
  BY <1>5, ToldFrame DEF vars, watcherVars, Onwards, Running
<1> QED  BY <1>1, <1>2, <1>3, <1>4, <1>5, WatcherTold DEF Next, Moves

\* "kill all children too" (server.c:886): when the angel and all watchers have
\* ended, no worker runs on without knowing that it has to stop, unless a fork()
\* failed.
THEOREM EverybodyIsTold == Spec => []EverybodyTold
<1>1. Basics /\ ToldInv => EverybodyTold
  <2> SUFFICES ASSUME Basics, ToldInv, \A p \in Proc : ~Alive(p), "fork" \notin setup.fails,
                      NEW k \in Worker, Running(k)
               PROVE  Told(worker[k].flags)
    BY DEF EverybodyTold
  <2>1. k[1] \in Child /\ k \in WorkersOf(k[1])
    BY DEF Worker, WorkersOf
  <2>2. Watched /\ proc[k[1]] \notin {"none", "run"}
    BY <2>1, ConstantsOK DEF ToldInv, Alive
  <2> QED  BY <2>1, <2>2 DEF ToldInv
<1> QED  BY BasicsAlways, InitTold, NextTold, <1>1, PTL DEF Spec

-----------------------------------------------------------------------------
\* No storm of SIGHUP.

\* A signal more is counted once.
LEMMA SentGrows ==
  ASSUME HistTypes, NEW sig, sent' = Append(sent, sig), NEW S
  PROVE  /\ SentOf(S) \in Nat
         /\ SentOf(S)' = SentOf(S) + IF sig \in S THEN 1 ELSE 0
<1> DEFINE old == {j \in DOMAIN sent : sent[j] \in S}
           new == {j \in DOMAIN sent' : sent'[j] \in S}
           n == Len(sent)
<1>1. n \in Nat /\ DOMAIN sent = 1..n
  BY DEF HistTypes
<1>2. DOMAIN sent' = 1..(n + 1) /\ sent'[n + 1] = sig /\ \A j \in 1..n : sent'[j] = sent[j]
  BY <1>1 DEF HistTypes
<1>3. IsFiniteSet(1..n) /\ old \subseteq 1..n /\ n + 1 \notin old
  BY <1>1, FS_Interval
<1>4. IsFiniteSet(old) /\ Cardinality(old) \in Nat
  BY <1>3, FS_Subset, FS_CardinalityType
<1>5. new = IF sig \in S THEN old \union {n + 1} ELSE old
  BY <1>1, <1>2
<1> HIDE DEF n, old, new
<1>6. Cardinality(new) = Cardinality(old) + IF sig \in S THEN 1 ELSE 0
  <2>1. Cardinality(old \union {n + 1}) = Cardinality(old) + 1
    BY <1>3, <1>4, FS_AddElement
  <2> QED  BY <1>4, <1>5, <2>1
<1> QED  BY <1>4, <1>6 DEF SentOf, old, new

\* The counter is a number also when nothing is sent.
LEMMA SentOfNat ==
  ASSUME HistTypes, NEW S
  PROVE  SentOf(S) \in Nat
<1>1. Len(sent) \in Nat /\ DOMAIN sent = 1..Len(sent)
  BY DEF HistTypes
<1>2. IsFiniteSet(DOMAIN sent)
  BY <1>1, FS_Interval
<1> QED  BY <1>2, FS_Subset, FS_CardinalityType DEF SentOf

\* Steps that only take signals away.
LEMMA HupFrame ==
  ASSUME Basics, Basics', HupInv, UNCHANGED <<setup, sent, broadcasts, watcher>>,
         \A c \in Child : "HUP" \in pending'[c] => "HUP" \in pending[c]
  PROVE  HupInv'
<1>1. Debt \in Nat /\ Debt' \in Nat /\ Debt' <= Debt
  BY ConstantsOK DEF Debt, DebtOf, One
<1>2. SentOf({"HUP"})' = SentOf({"HUP"}) /\ SentOf({"HUP"}) \in Nat /\ broadcasts \in Nat
  BY SentOfNat DEF SentOf, Basics, WatcherInv
<1> QED  BY <1>1, <1>2 DEF HupInv

\* The part of KillGroup that matters to a watcher.
LEMMA KillGroupPending ==
  ASSUME Basics, NEW sig \in Signal, KillGroup(sig), NEW c \in Child
  PROVE  pending'[c] = IF Alive(c) THEN pending[c] \union {sig} ELSE pending[c]
BY ConstantsOK DEF KillGroup, Signalled

\* Watchers of an angel that nobody sends SIGHUP send none.
LEMMA WatcherNoHup ==
  ASSUME Basics, HupInv, NEW c \in Child, WatcherMoves(c), setup' = setup,
         setup.angel, ~setup.to_group
  PROVE  HupInv'
<1>0. /\ watcher \in [Child -> WatcherRec] /\ c \in Proc /\ KernelTypes
      /\ watcher[c].flags \in Flags
  BY ConstantsOK DEF Basics, WatcherInv, WatcherRec
<1>1. /\ broadcasts = 0
      /\ \A d \in Child : /\ "HUP" \notin pending[d] /\ watcher[d].at # "killhup"
                          /\ ~watcher[d].flags.handle_sig_hup
  BY DEF HupInv
<1>2. SUFFICES /\ broadcasts' = 0
               /\ \A d \in Child : /\ "HUP" \notin pending'[d] /\ watcher'[d].at # "killhup"
                                   /\ ~watcher'[d].flags.handle_sig_hup
  BY DEF HupInv
<1>3. CASE WatcherSignal(c)
  <2>1. PICK sig \in pending[c] :
          /\ pending' = [pending EXCEPT ![c] = @ \ {sig}]
          /\ watcher' = [watcher EXCEPT ![c].flags = Handled(sig, @),
                                        ![c].at = IF @ = "waiting" THEN "eintr" ELSE @]
    BY <1>3 DEF WatcherSignal
  <2> DEFINE h == Handled(sig, watcher[c].flags)
  <2>2. sig \in Signal /\ sig # "HUP"
    BY <1>0, <1>1, <2>1 DEF KernelTypes
  <2>3. h.handle_sig_hup = watcher[c].flags.handle_sig_hup
    BY <1>0, <2>2, HandledOK
  <2>4. /\ watcher'[c].flags = h
        /\ watcher'[c].at = IF watcher[c].at = "waiting" THEN "eintr" ELSE watcher[c].at
        /\ \A d \in Child : d # c => watcher'[d] = watcher[d]
    BY <1>0, <2>1 DEF WatcherRec
  <2> HIDE DEF h
  <2>5. \A d \in Child : watcher'[d].at # "killhup" /\ ~watcher'[d].flags.handle_sig_hup
    BY <1>1, <2>3, <2>4
  <2>6. \A d \in Child : "HUP" \notin pending'[d]
    BY <1>0, <1>1, <2>1, ConstantsOK DEF KernelTypes
  <2>7. broadcasts' = broadcasts
    BY <1>3 DEF WatcherSignal
  <2> QED  BY <1>1, <2>5, <2>6, <2>7
<1>4. CASE WatcherTest(c) \/ ForkWorker(c) \/ EnterWorkerWait(c) \/ WorkerWentAway(c)
           \/ WaitInterrupted(c)
  <2>1. UNCHANGED <<pending, broadcasts>>
    BY <1>4 DEF WatcherTest, ForkWorker, EnterWorkerWait, WorkerWentAway, WaitInterrupted
  <2>2. \A d \in Child : d # c => watcher'[d] = watcher[d]
    BY <1>0, <1>4
       DEF WatcherTest, ForkWorker, EnterWorkerWait, WorkerWentAway, WaitInterrupted, Goto
  <2>3. watcher'[c].at # "killhup" /\ ~watcher'[c].flags.handle_sig_hup
    <3>1. CASE WaitInterrupted(c)
      BY <1>0, <1>1, <3>1 DEF WaitInterrupted, WatcherRec, Flags
    <3>2. CASE ~WaitInterrupted(c)
      BY <1>0, <1>1, <1>4, <3>2
         DEF WatcherTest, ForkWorker, EnterWorkerWait, WorkerWentAway, Goto, WatcherRec
    <3> QED  BY <3>1, <3>2
  <2> QED  BY <1>1, <2>1, <2>2, <2>3
<1>5. CASE ForkWorkerFails(c) \/ WatcherExit(c)
  <2>1. Ends(c, "exited") /\ Alive(c) /\ UNCHANGED <<watcher, broadcasts>>
    BY <1>5 DEF ForkWorkerFails, WatcherExit, Step, watcherVars
  <2>2. \A d \in Child : pending'[d] \subseteq pending[d]
    BY <1>0, <2>1, EndsOK
  <2> QED  BY <1>1, <2>1, <2>2
<1>6. CASE Leave(c)
  <2>1. PICK sig \in {"INT", "TERM"} : KillGroup(sig)
    BY <1>6 DEF Leave
  <2>2. \A d \in Child : "HUP" \notin pending'[d]
    BY <1>1, <2>1, KillGroupPending DEF Signal
  <2>3. \A d \in Child : watcher'[d].at # "killhup" /\ ~watcher'[d].flags.handle_sig_hup
    BY <1>0, <1>1, <1>6 DEF Leave, Goto, WatcherRec
  <2> QED  BY <1>1, <1>6, <2>2, <2>3 DEF Leave
<1>7. CASE ForwardHup(c)
  BY <1>1, <1>7 DEF ForwardHup, Step
<1> QED  BY <1>3, <1>4, <1>5, <1>6, <1>7 DEF WatcherMoves, WatcherStep

\* Handling a SIGHUP turns what was pending into a flag, or into a copy that is
\* no longer swallowed; testing the flag turns it into a kill().
LEMMA DebtKept ==
  ASSUME NEW handle \in BOOLEAN, NEW forwarded \in BOOLEAN, NEW where
  PROVE  /\ DebtOf(where, handle \/ ~forwarded, FALSE, FALSE) <= DebtOf(where, handle, forwarded, TRUE)
         /\ (handle /\ ~forwarded) => DebtOf("killhup", FALSE, TRUE, FALSE)
                                        <= DebtOf("eintr", handle, forwarded, FALSE)
         /\ DebtOf("loop", FALSE, forwarded, FALSE) <= DebtOf("eintr", handle, forwarded, FALSE)
<1>1. CASE handle = TRUE /\ forwarded = TRUE
  BY <1>1 DEF DebtOf, One
<1>2. CASE handle = TRUE /\ forwarded = FALSE
  BY <1>2 DEF DebtOf, One
<1>3. CASE handle = FALSE /\ forwarded = TRUE
  BY <1>3 DEF DebtOf, One
<1>4. CASE handle = FALSE /\ forwarded = FALSE
  BY <1>4 DEF DebtOf, One
<1> QED  BY <1>1, <1>2, <1>3, <1>4

\* The steps of the only watcher pay or keep its debt.
LEMMA WatcherHup ==
  ASSUME Basics, Basics', HupInv, NEW c \in Child, WatcherMoves(c), setup' = setup, ~setup.angel
  PROVE  HupInv'
<1>0. /\ watcher \in [Child -> WatcherRec] /\ c \in Proc /\ KernelTypes
      /\ watcher[c].flags \in Flags /\ broadcasts \in Nat
  BY ConstantsOK DEF Basics, WatcherInv, WatcherRec
<1>1. sent' = sent /\ WatcherStep(c) /\ SentOf({"HUP"})' = SentOf({"HUP"}) /\ SentOf({"HUP"}) \in Nat
  BY SentOfNat DEF WatcherMoves, histVars, SentOf, Basics
<1>2. Alive(c) /\ c = 1
  <2>1. Alive(c)
    BY <1>1 DEF WatcherStep, WatcherSignal, WatcherTest, ForkWorker, ForkWorkerFails, EnterWorkerWait,
         WorkerWentAway, WaitInterrupted, ForwardHup, Leave, WatcherExit, Step
  <2> QED  BY <1>0, <2>1 DEF Alive, Basics, BornInv
<1> DEFINE w == watcher[c]
           v == watcher'[c]
           hup == "HUP" \in pending[c]
           D == DebtOf(w.at, w.flags.handle_sig_hup, w.flags.forwarded_sig_hup, hup)
           E == DebtOf(v.at, v.flags.handle_sig_hup, v.flags.forwarded_sig_hup, "HUP" \in pending'[c])
<1>3. D \in Nat /\ E \in Nat /\ D = Debt /\ E = Debt'
  BY <1>2 DEF Debt, DebtOf, One
<1>4. SUFFICES broadcasts' \in Nat /\ broadcasts' + E <= broadcasts + D
  <2> QED  BY <1>0, <1>1, <1>3, <1>4 DEF HupInv
<1>5. CASE WatcherSignal(c)
  <2>1. PICK sig \in pending[c] :
          /\ pending' = [pending EXCEPT ![c] = @ \ {sig}]
          /\ watcher' = [watcher EXCEPT ![c].flags = Handled(sig, @),
                                        ![c].at = IF @ = "waiting" THEN "eintr" ELSE @]
    BY <1>5 DEF WatcherSignal
  <2> DEFINE h == Handled(sig, watcher[c].flags)
  <2>2. sig \in Signal
    BY <1>0 DEF KernelTypes
  <2>3. /\ sig # "HUP" => /\ h.handle_sig_hup = w.flags.handle_sig_hup
                          /\ h.forwarded_sig_hup = w.flags.forwarded_sig_hup
        /\ sig = "HUP" =>
              /\ ~h.forwarded_sig_hup
              /\ h.handle_sig_hup = (w.flags.handle_sig_hup \/ ~w.flags.forwarded_sig_hup)
    BY <1>0, <2>2, HandledOK
  <2>4. v.flags = h /\ v.at = IF w.at = "waiting" THEN "eintr" ELSE w.at
    BY <1>0, <2>1 DEF WatcherRec
  <2> HIDE DEF h
  <2>5. pending'[c] = pending[c] \ {sig} /\ broadcasts' = broadcasts
    BY <1>0, <1>5, <2>1 DEF KernelTypes, WatcherSignal
  <2>6. (v.at = "killhup") <=> (w.at = "killhup")
    BY <2>4
  <2>7. E <= D
    <3>1. CASE sig = "HUP"
      <4>1. "HUP" \notin pending'[c] /\ hup
        BY <2>1, <2>5, <3>1
      <4>2. w.flags.handle_sig_hup \in BOOLEAN /\ w.flags.forwarded_sig_hup \in BOOLEAN
        BY <1>0 DEF Flags
      <4>3. E = DebtOf(w.at, w.flags.handle_sig_hup \/ ~w.flags.forwarded_sig_hup, FALSE, FALSE)
        <5>1. v.flags.forwarded_sig_hup = FALSE /\ ("HUP" \in pending'[c]) = FALSE
          BY <2>3, <2>4, <3>1, <4>1 DEF Flags, v, Basics, WatcherInv, WatcherRec
        <5> QED  BY <2>3, <2>4, <2>6, <3>1, <5>1 DEF DebtOf
      <4>4. D = DebtOf(w.at, w.flags.handle_sig_hup, w.flags.forwarded_sig_hup, TRUE)
        BY <4>1 DEF DebtOf, One
      <4> QED  BY <4>2, <4>3, <4>4, DebtKept
    <3>2. CASE sig # "HUP"
      <4>1. ("HUP" \in pending'[c]) <=> hup
        BY <2>5, <3>2
      <4> QED  BY <2>3, <2>4, <2>6, <3>2, <4>1 DEF DebtOf, One
    <3> QED  BY <3>1, <3>2
  <2> QED  BY <1>0, <1>3, <2>5, <2>7
<1>6. CASE WatcherTest(c) \/ ForkWorker(c) \/ EnterWorkerWait(c) \/ WorkerWentAway(c)
  <2>1. UNCHANGED <<pending, broadcasts>>
    BY <1>6 DEF WatcherTest, ForkWorker, EnterWorkerWait, WorkerWentAway
  <2>2. v.flags = w.flags /\ v.at # "killhup" /\ w.at # "killhup"
    BY <1>0, <1>6 DEF WatcherTest, ForkWorker, EnterWorkerWait, WorkerWentAway, Goto, WatcherRec, Step
  <2>3. E = D
    BY <2>1, <2>2 DEF DebtOf
  <2> QED  BY <1>0, <1>3, <2>1, <2>3
<1>7. CASE WaitInterrupted(c)
  <2>1. UNCHANGED <<pending, broadcasts>> /\ pending[c] = {} /\ w.at = "eintr"
    BY <1>7 DEF WaitInterrupted, Step
  <2> DEFINE forward == w.flags.handle_sig_hup /\ ~w.flags.forwarded_sig_hup
  <2>2. /\ ~v.flags.handle_sig_hup
        /\ v.flags.forwarded_sig_hup = (w.flags.forwarded_sig_hup \/ forward)
        /\ v.at = IF forward THEN "killhup" ELSE "loop"
    BY <1>0, <1>7 DEF WaitInterrupted, WatcherRec, Flags
  <2>3. E <= D
    <3>1. w.flags.handle_sig_hup \in BOOLEAN /\ w.flags.forwarded_sig_hup \in BOOLEAN
      BY <1>0 DEF Flags
    <3>2. D = DebtOf("eintr", w.flags.handle_sig_hup, w.flags.forwarded_sig_hup, FALSE)
      BY <2>1 DEF DebtOf, One
    <3>3. CASE forward
      <4>1. E = DebtOf("killhup", FALSE, TRUE, FALSE)
        BY <2>1, <2>2, <3>3 DEF DebtOf, One
      <4> QED  BY <3>1, <3>2, <3>3, <4>1, DebtKept
    <3>4. CASE ~forward
      <4>1. E = DebtOf("loop", FALSE, w.flags.forwarded_sig_hup, FALSE)
        BY <2>1, <2>2, <3>1, <3>4 DEF DebtOf, One
      <4> QED  BY <3>1, <3>2, <4>1, DebtKept
    <3> QED  BY <3>3, <3>4
  <2> QED  BY <1>0, <1>3, <2>1, <2>3
<1>8. CASE ForwardHup(c)
  <2>1. broadcasts' = broadcasts + 1 /\ pending[c] = {} /\ w.at = "killhup"
    BY <1>8 DEF ForwardHup, Step
  <2>2. v.flags = w.flags /\ v.at = "loop"
    BY <1>0, <1>8 DEF ForwardHup, Goto, WatcherRec
  <2>3. E + 1 <= D
    BY <2>1, <2>2 DEF DebtOf, One
  <2> QED  BY <1>0, <1>3, <2>1, <2>3
<1>9. CASE Leave(c)
  <2>1. PICK sig \in {"INT", "TERM"} : KillGroup(sig)
    BY <1>9 DEF Leave
  <2>2. broadcasts' = broadcasts /\ ("HUP" \in pending'[c] <=> hup)
    BY <1>9, <2>1, KillGroupPending DEF Leave, Signal
  <2>3. v.flags = w.flags /\ v.at # "killhup" /\ w.at # "killhup"
    BY <1>0, <1>9 DEF Leave, Goto, WatcherRec, Step
  <2>4. E <= D
    BY <2>2, <2>3 DEF DebtOf, One
  <2> QED  BY <1>0, <1>3, <2>2, <2>4
<1>10. CASE ForkWorkerFails(c) \/ WatcherExit(c)
  <2>1. Ends(c, "exited") /\ UNCHANGED <<watcher, broadcasts>>
    BY <1>10 DEF ForkWorkerFails, WatcherExit, watcherVars
  <2>2. pending'[c] = {}
    BY <1>0, <1>2, <2>1, EndsOK
  <2>3. E <= D
    BY <2>1, <2>2 DEF DebtOf, One
  <2> QED  BY <1>0, <1>3, <2>1, <2>3
<1> QED  BY <1>1, <1>5, <1>6, <1>7, <1>8, <1>9, <1>10 DEF WatcherStep

\* Only an angel takes the angel's steps; what it sends to children is SIGINT or
\* SIGTERM.
LEMMA AngelSends ==
  ASSUME Basics, AngelStep
  PROVE  /\ setup.angel /\ sent' = sent
         /\ \A c \in Child : "HUP" \in pending'[c] => "HUP" \in pending[c]
<1>1. setup.angel
  BY ConstantsOK DEF AngelStep, Handlers, Deliver, HandleTerm, HandleHupKill, HandleHupStart,
       HandleChld, HandleChldWait, HandleChldReturn, MainLoop, Test, Fork, ForkFails, Store, Clear,
       EnterWait, WaitPid, ChildExited, ChildKilled, NoChild, Main, InHandler, UserMode, Alive,
       Basics, BornInv
<1>2. CASE HandleTerm \/ HandleHupKill
  <2>1. PICK sig \in {"INT", "TERM"} : Tell(sig)
    BY <1>2 DEF HandleTerm, HandleHupKill, InHandler
  <2>2. sent' = sent
    BY <1>2 DEF HandleTerm, HandleHupKill
  <2>3. \A c \in Child : pending'[c] \subseteq pending[c] \union {sig}
    BY <2>1, ConstantsOK DEF Tell, Signalled
  <2> QED  BY <1>1, <2>2, <2>3
<1>3. CASE Deliver
  <2>1. sent' = sent /\ \E q : pending' = [pending EXCEPT ![0] = q]
    BY <1>3 DEF Deliver, histVars
  <2> QED  BY <1>1, <2>1, ConstantsOK DEF Basics, KernelTypes
<1>4. CASE UNCHANGED <<pending, sent>>
  BY <1>1, <1>4
<1> QED
  BY <1>2, <1>3, <1>4 DEF AngelStep, Handlers, HandleHupStart, HandleChld, HandleChldWait,
     HandleChldReturn, MainLoop, Test, Fork, ForkFails, Store, Clear, EnterWait, WaitPid,
     ChildExited, ChildKilled, NoChild, histVars

\* The administrator's SIGHUP is one more that may be forwarded.
LEMMA SendHup ==
  ASSUME Basics, HupInv, NEW sig \in {"HUP", "INT", "TERM"}, Send(sig), setup' = setup
  PROVE  HupInv'
<1>0. /\ sent' = Append(sent, sig) /\ UNCHANGED <<watcher, broadcasts>> /\ broadcasts \in Nat
      /\ sig \in Signal /\ 1 \in Child /\ watcher[1].flags \in Flags
  BY ConstantsOK DEF Send, Basics, WatcherInv, Signal, WatcherRec
<1>1. /\ SentOf({"HUP"}) \in Nat
      /\ SentOf({"HUP"})' = SentOf({"HUP"}) + IF sig \in {"HUP"} THEN 1 ELSE 0
  BY <1>0, SentGrows DEF Basics
<1>2. \A c \in Child : pending'[c] = pending[c] \/ pending'[c] = pending[c] \union {sig}
  BY <1>0, KillGroupPending, ConstantsOK DEF Send, Signalled
<1>3. CASE ~setup.angel
  <2>1. Debt \in Nat /\ Debt' \in Nat
    BY DEF Debt, DebtOf, One
  <2>2. Debt' <= Debt + IF sig \in {"HUP"} THEN 1 ELSE 0
    <3> DEFINE w == watcher[1]
    <3>1. watcher'[1] = w
      BY <1>0
    <3>2. CASE sig # "HUP"
      <4>1. ("HUP" \in pending'[1]) <=> ("HUP" \in pending[1])
        BY <1>0, <1>2, <3>2
      <4> QED  BY <2>1, <3>1, <3>2, <4>1 DEF Debt, DebtOf, One
    <3>3. CASE sig = "HUP"
      BY <2>1, <3>1, <3>3 DEF Debt, DebtOf, One
    <3> QED  BY <3>2, <3>3
  <2> QED  BY <1>0, <1>1, <1>3, <2>1, <2>2 DEF HupInv
<1>4. CASE setup.angel /\ ~setup.to_group
  <2>1. \A c \in Child : pending'[c] = pending[c]
    BY <1>4, ConstantsOK DEF Send, Signalled, Root
  <2> QED  BY <1>0, <1>4, <2>1 DEF HupInv
<1>5. CASE setup.angel /\ setup.to_group
  BY <1>5 DEF HupInv
<1> QED  BY <1>3, <1>4, <1>5

\* Every step keeps HupInv.
LEMMA NextHup == Basics /\ Basics' /\ HupInv /\ [Next]_vars => HupInv'
<1> SUFFICES ASSUME Basics, Basics', HupInv, [Next]_vars  PROVE HupInv'
  OBVIOUS
<1>1. CASE AngelMoves /\ UNCHANGED setup
  BY <1>1, AngelSends, HupFrame DEF AngelMoves, watcherVars
<1>2. ASSUME NEW c \in Child, ChildMoves(c), UNCHANGED setup  PROVE HupInv'
  <2>1. PICK how \in {"exited", "killed"} : Ends(c, how)
    BY <1>2 DEF ChildMoves, ChildStep, ChildStops, ChildCrashes, ExecFails
  <2>2. Alive(c) /\ UNCHANGED <<sent, watcher, broadcasts>>
    BY <1>2 DEF ChildMoves, ChildStep, ChildStops, ChildCrashes, ExecFails, watcherVars, histVars
  <2>3. \A d \in Child : pending'[d] \subseteq pending[d]
    BY <2>1, <2>2, EndsOK DEF Basics
  <2> QED  BY <1>2, <2>2, <2>3, HupFrame
<1>3. ASSUME NEW c \in Child, WatcherMoves(c), UNCHANGED setup  PROVE HupInv'
  <2>1. CASE setup.angel /\ setup.to_group
    BY <1>3, <2>1 DEF HupInv
  <2> QED  BY <1>3, <2>1, WatcherHup, WatcherNoHup
<1>4. ASSUME NEW k \in Worker, WorkerMoves(k) \/ WorkerDies(k), UNCHANGED setup  PROVE HupInv'
  BY <1>4, HupFrame DEF WorkerMoves, WorkerDies, WorkerStep, WorkerCycles, WorkerEnds, WorkerCrashes,
       histVars
<1>5. CASE UNCHANGED vars
  BY <1>5, HupFrame DEF vars, watcherVars, histVars
<1> QED  BY <1>1, <1>2, <1>3, <1>4, <1>5, SendHup DEF Next, Moves

\* Nothing was sent at the start.
LEMMA InitSent == Init => \A S : SentOf(S) = 0
<1> SUFFICES ASSUME Init, NEW S  PROVE SentOf(S) = 0
  OBVIOUS
<1>1. {j \in DOMAIN sent : sent[j] \in S} = {}
  BY DEF Init, AngelInit
<1> QED  BY <1>1, FS_EmptySet DEF SentOf

\* No SIGHUP has been sent or passed on yet.
LEMMA InitHup == Init => HupInv
<1> SUFFICES ASSUME Init  PROVE HupInv
  OBVIOUS
<1>1. \A c \in Child : /\ "HUP" \notin pending[c] /\ watcher[c].at = "loop"
                      /\ watcher[c].flags.handle_sig_hup = FALSE
  BY ConstantsOK DEF Init, WatcherInit, watcher_init, NoFlags
<1>2. Debt = 0 /\ broadcasts = 0
  BY <1>1, ConstantsOK DEF Debt, DebtOf, One, Init, WatcherInit
<1>3. SentOf({"HUP"}) = 0
  BY InitSent
<1> QED  BY <1>1, <1>2, <1>3 DEF HupInv

\* "make sure we only send it once and don't create a infinite loop"
\* (server.c:102-103): however SIGHUPs arrive around the watcher's own, it sends no
\* more than it got.
THEOREM NoStormOfHups == Spec => []NoHupStorm
<1>1. Basics /\ HupInv => NoHupStorm
  <2> SUFFICES ASSUME Basics, HupInv, ~(setup.angel /\ setup.to_group)
               PROVE  broadcasts <= SentOf({"HUP"})
    BY DEF NoHupStorm
  <2>1. Debt \in Nat /\ broadcasts \in Nat /\ SentOf({"HUP"}) \in Nat
    BY SentOfNat DEF Debt, DebtOf, One, Basics, WatcherInv
  <2> QED  BY <2>1 DEF HupInv
<1> QED  BY BasicsAlways, InitHup, NextHup, <1>1, PTL DEF Spec

-----------------------------------------------------------------------------
\* Workers are stopped hard only on request.

\* Steps that change neither the watcher nor what was sent.
LEMMA HardFrame ==
  ASSUME HardInv, UNCHANGED <<setup, sent, watcher>>,
         pending'[1] \subseteq pending[1],
         \A k \in Worker :
           /\ worker'[k].flags.srv_shutdown => worker[k].flags.srv_shutdown
           /\ worker'[k].flags.graceful_shutdown => worker[k].flags.graceful_shutdown
           /\ worker'[k].born_graceful = worker[k].born_graceful
  PROVE  HardInv'
<1>1. \A S : SentOf(S)' = SentOf(S)
  BY DEF SentOf
<1>2. HardAsked' <=> HardAsked
  BY <1>1 DEF HardAsked
<1>3. SentOf({"INT"})' = SentOf({"INT"})
  BY <1>1
<1> QED  BY <1>2, <1>3 DEF HardInv

\* kill(0, SIGHUP) stops nobody, kill(0, SIGINT) stops gracefully whoever has not
\* been told before.
LEMMA KillGroupHard ==
  ASSUME Basics, NEW sig \in {"HUP", "INT"}, KillGroup(sig), NEW k \in Worker
  PROVE  /\ worker'[k].born_graceful = worker[k].born_graceful
         /\ worker'[k].flags.srv_shutdown =>
              worker[k].flags.srv_shutdown \/ (sig = "INT" /\ worker[k].flags.graceful_shutdown)
         /\ sig = "HUP" =>
              (worker'[k].flags.graceful_shutdown => worker[k].flags.graceful_shutdown)
<1>1. worker[k].flags \in Flags /\ sig \in Signal
  BY DEF Basics, WatcherInv, WorkerRec, Signal
<1>2. /\ worker'[k].born_graceful = worker[k].born_graceful
      /\ worker'[k].flags = IF Running(k) THEN Handled(sig, worker[k].flags) ELSE worker[k].flags
  BY <1>1, KillGroupOK
<1> DEFINE h == Handled(sig, worker[k].flags)
<1>3. /\ sig = "HUP" => /\ h.srv_shutdown = worker[k].flags.srv_shutdown
                        /\ h.graceful_shutdown = worker[k].flags.graceful_shutdown
      /\ (sig = "INT" /\ ~worker[k].flags.graceful_shutdown) =>
           h.srv_shutdown = worker[k].flags.srv_shutdown
  BY <1>1, HandledOK
<1> HIDE DEF h
<1> QED  BY <1>2, <1>3 DEF h

\* The steps of the only watcher.
LEMMA WatcherHard ==
  ASSUME Basics, HardInv, NEW c \in Child, WatcherMoves(c), setup' = setup
  PROVE  HardInv'
<1> SUFFICES ASSUME ~setup.angel, ~HardAsked'  PROVE HardInv'
  BY DEF HardInv
<1>0. /\ watcher \in [Child -> WatcherRec] /\ c \in Proc /\ KernelTypes
      /\ watcher[c].flags \in Flags /\ worker \in [Worker -> WorkerRec]
  BY ConstantsOK DEF Basics, WatcherInv, WatcherRec
<1>1. sent' = sent /\ WatcherStep(c) /\ SentOf({"INT"})' = SentOf({"INT"}) /\ ~HardAsked
  BY DEF WatcherMoves, histVars, SentOf, HardAsked
<1>2. Alive(c) /\ c = 1
  <2>1. Alive(c)
    BY <1>1 DEF WatcherStep, WatcherSignal, WatcherTest, ForkWorker, ForkWorkerFails, EnterWorkerWait,
         WorkerWentAway, WaitInterrupted, ForwardHup, Leave, WatcherExit, Step
  <2> QED  BY <1>0, <2>1 DEF Alive, Basics, BornInv
<1> DEFINE w == watcher[c]
           v == watcher'[c]
<1>3. /\ \A k \in Worker : worker[k].flags.srv_shutdown => worker[k].born_graceful
      /\ "TERM" \notin pending[c]
      /\ w.at = "leave" => w.flags.graceful_shutdown
      /\ w.at = "exit" => SentOf({"INT"}) > 0
      /\ w.at # "exit" =>
           /\ ~w.flags.srv_shutdown
           /\ ~("INT" \in pending[c] /\ w.flags.graceful_shutdown)
           /\ ("INT" \in pending[c] \/ w.flags.graceful_shutdown) => SentOf({"INT"}) > 0
           /\ \A k \in Worker : worker[k].flags.graceful_shutdown => worker[k].born_graceful
  BY <1>1, <1>2 DEF HardInv
<1>4. SUFFICES
      /\ \A k \in Worker : worker'[k].flags.srv_shutdown => worker'[k].born_graceful
      /\ "TERM" \notin pending'[c]
      /\ v.at = "leave" => v.flags.graceful_shutdown
      /\ v.at = "exit" => SentOf({"INT"}) > 0
      /\ v.at # "exit" =>
           /\ ~v.flags.srv_shutdown
           /\ ~("INT" \in pending'[c] /\ v.flags.graceful_shutdown)
           /\ ("INT" \in pending'[c] \/ v.flags.graceful_shutdown) => SentOf({"INT"}) > 0
           /\ \A k \in Worker : worker'[k].flags.graceful_shutdown => worker'[k].born_graceful
  BY <1>1, <1>2 DEF HardInv
<1>5. CASE WatcherSignal(c)
  <2>1. PICK sig \in pending[c] :
          /\ pending' = [pending EXCEPT ![c] = @ \ {sig}]
          /\ watcher' = [watcher EXCEPT ![c].flags = Handled(sig, @),
                                        ![c].at = IF @ = "waiting" THEN "eintr" ELSE @]
    BY <1>5 DEF WatcherSignal
  <2> DEFINE h == Handled(sig, watcher[c].flags)
  <2>2. sig \in Signal /\ sig # "TERM"
    BY <1>0, <1>3 DEF KernelTypes
  <2>3. /\ w.flags.graceful_shutdown => h.graceful_shutdown
        /\ sig \in {"HUP", "CHLD"} =>
             h.srv_shutdown = w.flags.srv_shutdown /\ h.graceful_shutdown = w.flags.graceful_shutdown
        /\ (sig = "INT" /\ ~w.flags.graceful_shutdown) => h.srv_shutdown = w.flags.srv_shutdown
    BY <1>0, <2>2, HandledOK
  <2>4. v.flags = h /\ v.at = IF w.at = "waiting" THEN "eintr" ELSE w.at
    BY <1>0, <2>1 DEF WatcherRec
  <2> HIDE DEF h
  <2>5. pending'[c] = pending[c] \ {sig} /\ worker' = worker
    BY <1>0, <1>5, <2>1 DEF KernelTypes, WatcherSignal
  <2>6. CASE w.at = "exit"
    BY <1>3, <2>4, <2>5, <2>6
  <2>7. CASE w.at # "exit"
    <3>1. ~v.flags.srv_shutdown
      BY <1>3, <2>1, <2>2, <2>3, <2>4, <2>7 DEF Signal
    <3>2. ~("INT" \in pending'[c] /\ v.flags.graceful_shutdown)
      BY <1>3, <2>1, <2>2, <2>3, <2>4, <2>5, <2>7 DEF Signal
    <3>3. ("INT" \in pending'[c] \/ v.flags.graceful_shutdown) => SentOf({"INT"}) > 0
      BY <1>3, <2>1, <2>2, <2>3, <2>4, <2>5, <2>7 DEF Signal
    <3> QED  BY <1>3, <2>3, <2>4, <2>5, <2>7, <3>1, <3>2, <3>3
  <2> QED  BY <2>6, <2>7
<1>6. CASE WatcherTest(c) \/ EnterWorkerWait(c) \/ WaitInterrupted(c)
  <2>1. UNCHANGED <<pending, worker>> /\ w.at \notin {"exit", "leave"}
    BY <1>6 DEF WatcherTest, EnterWorkerWait, WaitInterrupted, Step
  <2>2. /\ v.flags.srv_shutdown = w.flags.srv_shutdown
        /\ v.flags.graceful_shutdown = w.flags.graceful_shutdown
    <3>1. CASE WaitInterrupted(c)
      BY <1>0, <3>1 DEF WaitInterrupted, WatcherRec, Flags
    <3>2. CASE WatcherTest(c) \/ EnterWorkerWait(c)
      BY <1>0, <3>2 DEF WatcherTest, EnterWorkerWait, Goto, WatcherRec
    <3> QED  BY <1>6, <3>1, <3>2
  <2>3. v.at # "exit" /\ (v.at = "leave" => w.flags.srv_shutdown \/ w.flags.graceful_shutdown)
    BY <1>0, <1>6 DEF WatcherTest, EnterWorkerWait, WaitInterrupted, Goto, WatcherRec
  <2> QED  BY <1>3, <2>1, <2>2, <2>3
<1>7. CASE ForkWorker(c)
  <2>1. PICK k \in WorkersOf(c) : worker' = [worker EXCEPT ![k] =
            [st |-> "run", flags |-> w.flags, born_graceful |-> w.flags.graceful_shutdown]]
    BY <1>7 DEF ForkWorker
  <2>2. pending' = pending /\ w.at = "fork" /\ v.flags = w.flags /\ v.at = "loop"
    BY <1>0, <1>7 DEF ForkWorker, Step, WatcherRec
  <2>3. k \in Worker
    BY DEF WorkersOf
  <2>4. /\ worker'[k].flags = w.flags /\ worker'[k].born_graceful = w.flags.graceful_shutdown
        /\ \A m \in Worker : m # k => worker'[m] = worker[m]
    BY <1>0, <2>1, <2>3
  <2> QED  BY <1>3, <2>2, <2>4
<1>8. CASE WorkerWentAway(c)
  <2>1. pending' = pending /\ w.at = "waiting" /\ v.flags = w.flags /\ v.at = "loop"
    BY <1>0, <1>8 DEF WorkerWentAway, WatcherRec
  <2>2. \A k \in Worker : worker'[k].flags = worker[k].flags
                         /\ worker'[k].born_graceful = worker[k].born_graceful
    BY <1>0, <1>8 DEF WorkerWentAway, WorkersOf, WorkerRec
  <2> QED  BY <1>3, <2>1, <2>2
<1>9. CASE ForwardHup(c)
  <2>1. KillGroup("HUP") /\ w.at = "killhup" /\ v.flags = w.flags /\ v.at = "loop"
    BY <1>0, <1>9 DEF ForwardHup, Goto, Step, WatcherRec
  <2>2. pending'[c] = pending[c] \union {"HUP"}
    BY <1>2, <2>1, KillGroupPending DEF Signal
  <2>3. \A k \in Worker :
           /\ worker'[k].born_graceful = worker[k].born_graceful
           /\ worker'[k].flags.srv_shutdown => worker[k].flags.srv_shutdown
           /\ worker'[k].flags.graceful_shutdown => worker[k].flags.graceful_shutdown
    BY <2>1, KillGroupHard
  <2> QED  BY <1>3, <2>1, <2>2, <2>3
<1>10. CASE Leave(c)
  <2>1. w.at = "leave" /\ v.at = "exit"
    BY <1>0, <1>10 DEF Leave, Goto, Step, WatcherRec
  <2>2. KillGroup("INT") /\ SentOf({"INT"}) > 0
    BY <1>3, <1>10, <2>1 DEF Leave
  <2>3. pending'[c] = pending[c] \union {"INT"}
    BY <1>2, <2>2, KillGroupPending DEF Signal
  <2>4. \A k \in Worker : worker'[k].flags.srv_shutdown => worker'[k].born_graceful
    BY <1>3, <2>1, <2>2, KillGroupHard
  <2> QED  BY <1>3, <2>1, <2>2, <2>3, <2>4
<1>11. CASE ForkWorkerFails(c) \/ WatcherExit(c)
  <2>1. Ends(c, "exited") /\ UNCHANGED <<watcher, worker>>
    BY <1>11 DEF ForkWorkerFails, WatcherExit, watcherVars
  <2>2. pending'[c] = {}
    BY <1>0, <1>2, <2>1, EndsOK
  <2> QED  BY <1>3, <2>1, <2>2
<1> QED  BY <1>1, <1>5, <1>6, <1>7, <1>8, <1>9, <1>10, <1>11 DEF WatcherStep

\* The administrator's signals: the first SIGINT, to the watcher alone, is no
\* request for a hard stop.
LEMMA SendHard ==
  ASSUME Basics, HardInv, NEW sig \in {"HUP", "INT", "TERM"}, Send(sig), setup' = setup
  PROVE  HardInv'
<1> SUFFICES ASSUME ~setup.angel, ~HardAsked'  PROVE HardInv'
  BY DEF HardInv
<1>0. sent' = Append(sent, sig) /\ watcher' = watcher /\ sig \in Signal /\ 1 \in Child /\ 1 \in Proc
  BY ConstantsOK DEF Send, Signal
<1>1. /\ SentOf({"INT"}) \in Nat /\ SentOf({"TERM"}) \in Nat
      /\ SentOf({"INT"})' = SentOf({"INT"}) + IF sig \in {"INT"} THEN 1 ELSE 0
      /\ SentOf({"TERM"})' = SentOf({"TERM"}) + IF sig \in {"TERM"} THEN 1 ELSE 0
  BY <1>0, SentGrows DEF Basics
<1>2. ~HardAsked /\ sig # "TERM" /\ (sig = "INT" => SentOf({"INT"}) = 0 /\ ~setup.to_group)
  BY <1>1 DEF HardAsked
<1>3. pending'[1] = pending[1] \/ pending'[1] = pending[1] \union {sig}
  BY <1>0, KillGroupPending DEF Send, Signalled
<1> DEFINE w == watcher[1]
<1>4. CASE sig = "INT"
  <2>1. worker' = worker
    BY <1>2, <1>4 DEF Send
  <2>2. w.at # "exit" /\ "INT" \notin pending[1] /\ ~w.flags.graceful_shutdown
    BY <1>2, <1>4 DEF HardInv
  <2>3. SentOf({"INT"})' > 0
    BY <1>1, <1>4
  <2> QED  BY <1>0, <1>2, <1>3, <1>4, <2>1, <2>2, <2>3 DEF HardInv
<1>5. CASE sig = "HUP"
  <2>1. \A k \in Worker :
           /\ worker'[k].born_graceful = worker[k].born_graceful
           /\ worker'[k].flags.srv_shutdown => worker[k].flags.srv_shutdown
           /\ worker'[k].flags.graceful_shutdown => worker[k].flags.graceful_shutdown
    BY <1>5, KillGroupHard DEF Send
  <2>2. SentOf({"INT"})' = SentOf({"INT"})
    BY <1>1, <1>5
  <2> QED  BY <1>0, <1>2, <1>3, <1>5, <2>1, <2>2 DEF HardInv
<1> QED  BY <1>2, <1>4, <1>5

\* Every step keeps HardInv.
LEMMA NextHard == Basics /\ HardInv /\ [Next]_vars => HardInv'
<1> SUFFICES ASSUME Basics, HardInv, [Next]_vars  PROVE HardInv'
  OBVIOUS
<1>1. CASE AngelMoves /\ UNCHANGED setup
  BY <1>1, AngelSends DEF AngelMoves, HardInv
<1>2. ASSUME NEW c \in Child, ChildMoves(c), UNCHANGED setup  PROVE HardInv'
  <2>1. PICK how \in {"exited", "killed"} : Ends(c, how)
    BY <1>2 DEF ChildMoves, ChildStep, ChildStops, ChildCrashes, ExecFails
  <2>2. Alive(c) /\ UNCHANGED <<sent, watcher, worker>>
    BY <1>2 DEF ChildMoves, ChildStep, ChildStops, ChildCrashes, ExecFails, watcherVars, histVars
  <2>3. pending'[1] \subseteq pending[1]
    BY <2>1, <2>2, EndsOK, ConstantsOK DEF Basics
  <2> QED  BY <1>2, <2>2, <2>3, HardFrame
<1>3. ASSUME NEW k \in Worker, WorkerMoves(k) \/ WorkerDies(k), UNCHANGED setup  PROVE HardInv'
  <2>1. UNCHANGED <<sent, pending, watcher>>
    BY <1>3 DEF WorkerMoves, WorkerDies, WorkerStep, WorkerCycles, WorkerEnds, WorkerCrashes, histVars
  <2>2. worker \in [Worker -> WorkerRec]
    BY DEF Basics, WatcherInv
  <2>3. CASE WorkerCycles(k)
    <3>1. \A m \in Worker :
            /\ worker'[m].flags.srv_shutdown = worker[m].flags.srv_shutdown
            /\ worker'[m].flags.graceful_shutdown = worker[m].flags.graceful_shutdown
            /\ worker'[m].born_graceful = worker[m].born_graceful
      BY <2>2, <2>3 DEF WorkerCycles, WorkerRec, Flags
    <3> QED  BY <1>3, <2>1, <3>1, HardFrame
  <2>4. CASE Dies(k)
    <3>1. \A m \in Worker : worker'[m].flags = worker[m].flags
                           /\ worker'[m].born_graceful = worker[m].born_graceful
      BY <2>2, <2>4 DEF Dies, WorkerRec
    <3> QED  BY <1>3, <2>1, <3>1, HardFrame
  <2> QED  BY <1>3, <2>3, <2>4 DEF WorkerMoves, WorkerDies, WorkerStep, WorkerEnds, WorkerCrashes
<1>4. CASE UNCHANGED vars
  BY <1>4, HardFrame DEF vars, watcherVars, histVars
<1> QED  BY <1>1, <1>2, <1>3, <1>4, WatcherHard, SendHard DEF Next, Moves

\* Nobody has been stopped yet.
LEMMA InitHard == Init => HardInv
<1> SUFFICES ASSUME Init  PROVE HardInv
  OBVIOUS
<1>1. 1 \in Child /\ pending[1] = {} /\ watcher[1].at = "loop" /\ watcher[1].flags = NoFlags
  BY ConstantsOK DEF Init, WatcherInit, watcher_init
<1>2. \A k \in Worker : worker[k].flags = NoFlags
  BY DEF Init, WatcherInit, NoWorker
<1>3. ~NoFlags.srv_shutdown /\ ~NoFlags.graceful_shutdown
  BY DEF NoFlags
<1> QED  BY <1>1, <1>2, <1>3 DEF HardInv

\* A worker that may have clients is stopped hard only by SIGTERM, or by more than
\* one SIGINT (server.c:84-93, 886-889).
THEOREM HardOnlyWhenAsked == Spec => []HardOnlyOnRequest
<1>1. HardInv => HardOnlyOnRequest
  BY DEF HardInv, HardOnlyOnRequest, HardAsked
<1> QED  BY BasicsAlways, InitHard, NextHard, <1>1, PTL DEF Spec
=============================================================================
