# tinyProgram: TLA+ models of its programs with state

The repository is a collection of study programs around one large one: a
modified **lighttpd 1.4.20** (`src/lighttpd-1.4.20`). Most of the rest is vendored
software (wget, lemon, cgic, ntpclient, `sqlite3.h`) or exercises of a few lines;
the message store `src/SMS/sms.c` is a program of its own. This project models

* one worker process of lighttpd: main loop, event layer, connection engine and
  the FastCGI gateway, as one composed state machine (`Server`), shown to
  implement an abstract specification of descriptor ownership, and proved about;
* the processes around it: `lighttpd-angel` and the watcher with its workers,
  alone and composed (`Supervision`);
* three parts of a worker in the detail that `Server` abstracts from: the hosts and
  processes of mod_fastcgi (`FcgiHosts`), the way from a client's bytes to a request
  (`ReadQueue`), and the way of a content to a backend (`Upload`);
* the stat cache on its splay tree (`StatCache`), shown to implement a table;
* the SMS store with failing statements and crashes (`SmsStore`).

All paths below are relative to `src/lighttpd-1.4.20/src/` unless they start with
`doc/`, `NEWS` or `SMS/`.

## 1. Inventory

| Component | State | Operations | What makes it correct |
|---|---|---|---|
| main loop (`server.c`) | phase, `sockets_disabled`, signal flags, `cur_fds`, `want_fds` | per-second sweep, disable/enable sockets, graceful shutdown, fd wait queue, poll, dispatch, job list | nobody sleeps without a wake-up; idle limits are kept; shutdown ends and harms nobody |
| event layer (`fdevent.c`, `fdevent_select.c`) | `fdarray` of nodes, select() sets | register, unregister, event_add, event_del, poll, next_fdndx | a node leads to the owner of its descriptor; dispatch meets only nodes that exist |
| connection pool (`connections.c:43-109`) | `ptr`, `used`, `ndx` of every connection | get_new_connection, del (swap with the last) | array and `ndx` agree although entries move during the sweep |
| connection engine (`connections.c`) | the `connection` structure | one case per state, the event handler, accept, close, reset | no leftovers between requests; keep-alive ends at its limit; own events only |
| job list, fd wait queue (`joblist.c`) | two arrays of connections, with duplicates and stale entries | append, unshift | counted, served, harmless when stale |
| listening socket, traffic limits (`network.c`) | armed or not, open or not | accept handler, write with limits | accepts only while open and enabled; limited connections resume |
| FastCGI gateway, one request (`mod_fastcgi.c`) | `handler_ctx`: state, descriptor, host, reconnects | handle_subrequest, write_request, reconnect, demux_response, handle_fdevent, joblist hook, close | descriptor owned and counted; every failure ends in an answer, an error or a retry |
| FastCGI hosts and processes (`mod_fastcgi.c`) | load, `active_procs`, state, `disabled_until` | choice of host and process, overload, death, trigger, restart | loads given back exactly once; dead processes return; attempts end |
| request reading (`connections.c:319-380, 858-1151`, `chunk.c`) | read queue, request, content queue, temporary files | read, search for the header, copy of the content, reset | no byte lost, used twice or given to another client; header ends where it ends |
| upload to a backend (`mod_fastcgi.c:2093-2214`, `network_write.c`, `chunk.c`) | queue `hctx->wb`, temporary files | records, partial writes, removal of written chunks, close, reconnect | well-formed records with the right bytes; files live as long as they are referred to |
| watcher (`server.c:826-900`) | number of children, signal flags | fork, wait, forward signals | workers replaced; everybody told; nobody stopped hard unasked |
| angel (`lighttpd-angel.c`) | `pid`, `start_process`, `is_shutdown` | loop, four signal handlers | one current lighttpd; restarts happen; nobody left behind |
| stat cache, splay tree (`stat_cache.c`, `splaytree.c`) | tree of entries | get_entry, trigger_cleanup, free; splay, insert, delete | search tree with right sizes; answers about the right file, of this second |
| SMS store (`SMS/sms.c`) | table, boxes in memory | load, add, modify, delete, limits | limits kept by deleting the oldest; boxes show the table; no index twice |
| request parser, response preparation (`request.c`, `response.c`) | fields of the connection | parse, prepare | effects on the state machine only |
| other gateways and modules, HTTP client (`../../server/http`) | | | section 10 |

Inside a worker the components interact by direct calls in one thread. Concurrency
is cooperative: a request is a chain of fragments run from four places (sweep,
fd wait queue, accept handler, job list) and from the event handlers, and
between the fragments of one request the fragments of all others run, the
descriptor numbers are reused and signals arrive. What is hard is the state that
outlives a fragment: job list entries of closed connections, `con->fd` of a
closed descriptor, `fde_ndx`, counters that are kept by hand, flags such as
`keep_alive` that two states use for different things. Angel, watcher and workers
are processes that share nothing but signals and exit states; there the windows
between two instructions are the subject, and kill(0), which reaches more
processes than its sender thinks of. In the store it is the gap between two
transactions. The list of these hazards, each with its line and the properties that
watch it, is in `PROJECT.json`.

## 2. Modules

| Module | Models |
|---|---|
| `Fdevent` | the event table as a record (`fdarray`, `rd`, `wr`) with pure operators for register, unregister, event_add, event_del; the set of answers select() may give; the count it returns; the next descriptor to dispatch |
| `ServerState` | constants, variables, the connection and context records, the containers. A C function that works on one connection is an operator on a *frame*: the shared tables, one connection, its context, and the number of `joblist_append` calls. `Commit` makes a frame the new state |
| `ModFastcgi` | the FastCGI context. A call returns the set of its outcomes (frame and `handler_t`); system calls decide between them |
| `Connections` | reading, writing, the socket's event handler, one action for every case of `connection_state_machine`; `Arm` is the switch behind its loop |
| `Server` | the phases of the main loop, accept, signals, `Spec`, `FairSpec`, properties. Extends the four above |
| `ServerClaims` | statements of documentation and comments that the code refutes |
| `ServerProofs`, `WakeupProofs` | theorems about `Server`: types, pool and queues, descriptors, events, requests and the refinement of `Descriptors`; wake-ups and idle limits |
| `Descriptors`, `ServerDescriptors` | the abstract specification of descriptor ownership, and the mapping under which `Server` implements it |
| `Processes` | running processes, zombies, pending signals: what the angel and the watcher use of the kernel |
| `Angel` | loop and handlers of `lighttpd-angel.c` |
| `Watcher` | loop of `server.c:826-900`, the signal handler, and a worker as far as signals go |
| `Supervision`, `SupervisionClaims` | both composed in one process group; the ways of running lighttpd that are checked, and refuted claims |
| `SupervisionProofs` | theorems about `Supervision` |
| `FcgiHosts`, `MCFcgiHosts`, `FcgiHostsProofs` | hosts, processes, loads and restarts of mod_fastcgi; configurations; theorems |
| `ReadQueue`, `ReadQueueProofs` | chunks of a client's bytes, search for the header, content; theorems |
| `Upload`, `UploadProofs` | records, partial writes, temporary files; theorems |
| `Pieces` | lemmas about sequences in pieces, for the two modules of theorems about queues |
| `SplayTree`, `StatCache`, `StatTable`, `MCStatCache` | the tree's algorithms, the cache that uses them, the table it implements, hashes |
| `SmsStore`, `MCSmsStore`, `SmsStoreProofs` | the store, one action per SQL statement; limits; theorems |

The configurations give constants their values; no definition is replaced, so
that the runs and the proofs are about the same text.

### Correspondence

The table of all definitions with their lines is `PROJECT.json`, "map".

**Server.** `pc` is the position in the main loop; `pc = "machine"` with `cur` and
`ret` is a call of `connection_state_machine(cur)` that returns to phase `ret`. One
action is one turn of a loop (one slot of the sweep, one descriptor of the
dispatch, one entry of the job list, one turn of the state machine): the process
is single threaded, and between these points only signals can intervene.
`Sigint` and `Sigterm` may therefore happen before every action. Data is
abstracted to what the control flow looks at:

* timestamps are ages. `read_idle` is `cur_ts - read_idle_ts`, kept only up to the
  largest value a comparison distinguishes. `close_timeout_ts = 0` is
  `close_idle = CloseCap`; `write_request_ts = 0` is `Unset`.
* `http_status` is `decided` (neither 0 nor 200) and `bad_version` (505, which leaves
  `keep_alive` as the request before has set it, request.c:420); the write queue is empty or not;
  unparsed input is counted in reads and bounded by `header_max + 1`.
* `mode` is DIRECT or FASTCGI. `host` says whether a host is assigned.
* `joblist` holds what the loop has not reached yet. The test of `in_joblist` in
  `joblist_append` never holds, because nothing sets the flag; duplicates occur.
* the 16 in `max_fds - cur_fds - 16` (server.c:1204), the 100 accepts per event
  and the 5 reconnects are the constants `fd_reserve`, `accept_max` and
  `max_reconnects`. The factors 0.8 and 0.9 are kept, as integer comparisons.

Nondeterminism stands for: the results of read(), write(), connect(), fcntl()
(only where a run lists the fault), the descriptors and bits select() reports,
what a request turns out to be, what the backend sends, whether a rate is below its
limit, when a second passes, when signals arrive.

**Supervision.** An action is one instruction of the angel or the watcher that
reads or writes something a handler also touches, so that a signal may arrive
between any two. Handlers of the angel nest (`stack`); waitpid(), wait() and
usleep() are interrupted as the flags of sigaction() say. `setup` holds how lighttpd is
run (angel or not, number of workers, whether signals go to the whole group, which
calls fail, bounds) and is chosen in `Init`: one run covers all setups. A worker
is its signal flags; what it does with them is `Server`.

**FcgiHosts.** One action is one call from the connection engine or one call of the
trigger. Loads are counted modulo `Wrap`, as a size_t wraps. `disabled_until`
is a flag that time clears. `conf`, chosen in `Init`, holds the configuration.

**ReadQueue, Upload.** Bytes keep their identity: "r", "n", "x" and their order in
the first, numbers in the second (`Numbers` are those the backend got). A chunk's memory is without the closing zero
byte that `used` counts. The limits 64k, 1Mb and 65535 are constants.

**StatCache.** A tree is a record or `Nil`; splay, insert and delete are
translated step by step, sizes included. What stat() told is abstracted to the
file it is about and its age; `since`, the number of changes of the second after
the stat(), is no variable of the code.

**SmsStore.** A row is index, type and time. Every statement is an action, because
each is a transaction of its own; it may fail, and the process may die after it.
`unlimited` is a history variable: the types that got a message by an update, or
whose last delete by limit failed.

## 3. Properties

`Server`:

* `TypeOK`: the types.
* `PoolConsistent`: slot s below `used` holds a connection that knows it is in
  slot s; the others know that they are in none.
* `EventsReachOwner`: the nodes of the event layer and the owners of the
  descriptors agree in both directions; what select() watches is open.
* `FdsCounted`: `cur_fds` is the number of open descriptors.
* `WaitersCounted`: `want_fds` is the length of `fdwaitqueue`, plus the entry being
  served.
* `NobodyForgotten`: when the worker goes to sleep in select(), every
  connection has something that wakes it: an event it waits for and that its
  state acts upon, a job list entry, the fd wait queue, or the sweep.
* `TimeoutsKept`: idle connections are closed at most `max_conns - 1`
  seconds late, and a connection in WRITE is never judged by an old timestamp.
* `CleanStart`: a request starts with nothing of the one before, and a client's first
  request without the `keep_alive` of the client that had the structure before it.
* `KeepAliveLimited`: a connection that has counted more than `max_keep_alive_requests`
  goes on to another request only after one of an unknown HTTP version (those pass the
  limit: section 5, `claim_keepalive`).
* `NoCrash`: the loop never reaches one of the `SEGFAULT()` lines.
* `OnlyOwnEvents`: the state machine leaves the events of other connections and of
  their backends alone.
* `AcceptOnlyWhenOpen`: nobody is accepted on a disabled or closed socket.
* `GracefulEnds`: a graceful shutdown ends although no client sends or takes
  another byte, unless a connection stays for ever where the sweep has no limit.
* `ImplementsDescriptors`: every step takes, watches, gives back and counts
  descriptors as `Descriptors` allows.

`Supervision`:

* `OneCurrent`: at most one running lighttpd has not been told to stop, and none once
  the angel has ended.
* `EverybodyTold`: when angel and watchers have ended, every worker that still runs
  knows it has to stop (unless a fork() failed, section 6).
* `HardOnlyOnRequest`: a worker drops its clients only after SIGTERM or a second SIGINT.
* `NoHupStorm`: SIGHUP is not multiplied although a watcher sends it to itself. (Except
  under an angel whose whole group got it: section 6, `claim_angel`.)
* `RestartHappens`: a restart that was asked for is carried out or the angel ends.
* `WorkersReplaced`: a watcher has all its workers again and again.

`FcgiHosts`: `LoadsRight`, made of `HostLoadRight` and `LoadRight` (the loads are the numbers of the requests
that count there; the load of a process only as long as no connection was
dropped before the first write, which is what `claim_fcgi_counts` is about),
`DeadProcsReturn` (a dead or overloaded process runs again), `AttemptsEnd` (an attempt
for a request ends in a connection, an answer or its end).

`ReadQueue`: `NothingLost` (request, content and queue together are what was read, in
order), `HeaderExact` (a header ends at the first empty line), `FoundWhenThere` (it is
found as soon as it is there, unless it came in more than two reads), `ContentExact`,
`TempfilesClosed`.

`Upload`: `StreamRight` (the backend sees parameters, then records as long as announced,
with the bytes in order), `CompleteAtEnd`, `FilesThere` (no chunk refers to a removed
file), `UploadEnds` (what is queued is written in the end; the code's own test, `bytes_out`
= `bytes_in` at mod_fastcgi.c:3073, is not modelled, and whether these two counters agree
not shown).

`StatCache`: `TreeSound` (search tree, right sizes), `AnswersRight` (an answer is about
the file asked for and of this second, unless its key is the one of two names or the
clock was set back), `ImplementsTable`.

`SmsStore`: `LimitKept` (limits hold when the store is idle, except for `unlimited` types),
`BoxesFresh` (boxes show the table unless their select failed), `DeadStaysDead` (no index
is given to a second message), `OldestFirst` (only the oldest of a type are pushed out).

`TypeOK` of `Supervision`, `FcgiHosts`, `ReadQueue`, `SmsStore` and `StatCache` is a conjunct of `OneCurrent`,
`LoadsRight`, `NothingLost`, `LimitKept` and `TreeSound`. `FdsCounted` of two connections is part of
`ImplementsDescriptors`.

Every property has a mutant of a modelled definition (`PROJECT.json`,
"mutants") under which TLC finds it violated, for instance a `connection_del`
that forgets the `ndx` of the moved connection, a handler that sets
`file_finished` and wakes nobody, a `CloseFd` without `fdevent_event_del`. The mutated forms
stand before the definitions they vary, with the mistake in their name.

## 4. Runs that pass

| Run | Module | Instance | States | Properties |
|---|---|---|---|---|
| `worker_fastcgi` | `ServerDescriptors` | 2 connections, backend, 2 descriptors, 1 reserved, 1 reconnect | 3.3 million | `TypeOK`, `EventsReachOwner`, `WaitersCounted`, `NobodyForgotten`, `CleanStart`, `OnlyOwnEvents`, `ImplementsDescriptors` |
| `worker_signals` | `Server` | 1 connection, backend, traffic limits, exception bits, 2 signals | 2.9 million | `NobodyForgotten`, `NoCrash`, `AcceptOnlyWhenOpen`, `KeepAliveLimited` |
| `worker_faults` | `Server` | 1 connection, backend, failing fcntl(), ENOTCONN, two bits for one descriptor, 1 signal, fairness | 47 thousand | `FdsCounted`, `GracefulEnds` |
| `worker_sweep` | `Server` | 3 connections that only time out or read | 1.0 million | `PoolConsistent`, `TimeoutsKept` |
| `supervision` | `SupervisionClaims` | angel alone (two setups), watcher with 2 workers alone and in a shell's group, angel over watchers with a worker; fairness | 0.6 million | `OneCurrent`, `EverybodyTold`, `HardOnlyOnRequest`, `NoHupStorm`, `RestartHappens`, `WorkersReplaced` |
| `fcgi_hosts` | `MCFcgiHosts` | 2 requests on 1 or 2 hosts with 1 or 2 processes, 1 reconnect, five configurations; fairness | 0.8 million | `LoadsRight`, `DeadProcsReturn`, `AttemptsEnd` |
| `reading` | `ReadQueue` | 9 bytes of a client in pieces of up to 4, contents of 0, 1 and 3, memory for 1, files of 1, failing open and write | 0.8 million | `NothingLost`, `HeaderExact`, `FoundWhenThere`, `ContentExact`, `TempfilesClosed` |
| `upload` | `Upload` | contents of up to 7 in all divisions, records of up to 3, 2 reconnects; fairness | 2 thousand | `StreamRight`, `CompleteAtEnd`, `FilesThere`, `UploadEnds` |
| `sms_store` | `MCSmsStore` | limits 2, 1 and 1, two times, 3 inserts | 0.3 million | `LimitKept`, `BoxesFresh`, `DeadStaysDead`, `OldestFirst` |
| `stat_cache` | `MCStatCache` | 3 names, 5 keys, 2 names of one key, steps of 1 and 3 seconds | 0.3 million | `TreeSound`, `AnswersRight`, `ImplementsTable` |

Why the bounds are enough for what they are meant to reach:

* Two connections are needed for a stale descriptor number to belong to somebody
  else. In `worker_fastcgi` it is the backend of the other connection that has got the
  number; the case that the other client has it is not reached by this run, and is shown by
  the theorem `OthersKeepTheirEvents` only, which is about both. Three connections are needed for the swap in the sweep to move a connection that has timed out as
  well and to be passed over twice.
* Two descriptors for two clients and up to two backends make every shortage
  happen: no descriptor for a client, none for a backend, a reserve that forbids
  serving the queue, and numbers that change owner within one round.
* `RequestMax` (2 or 3) bounds the `request_count` up to which a client sends requests of
  an unknown HTTP version. Nothing in the code does, and each request handled at once adds
  to the job list. It is larger than `max_keep_alive_requests`, so that these requests
  do take a connection past the limit.
* One reconnect distinguishes "may retry" from "gives up"; limits of 0 and 1
  seconds distinguish "not yet", "just reached" and "passed over".
* One client is enough where signals and limits are the subject: they act on the
  connections independently; the interaction between connections is covered by
  the other runs.
* Three lighttpds are an old one that still ends, a current one and its replacement;
  two signals are enough for one to arrive inside the handler of the other.
* Two requests on one process reach every order of two failures and its restart;
  `Wrap` = 4 is above every right load, so that a wrapped one is told apart.
* Nine bytes hold a header of four, a content, and the begin of a pipelined request;
  pieces of one to four cut the empty line in every way.
* Contents of 7 with records of 3 make a record end before, in and at the end of a
  chunk, and leave a rest.
* Five keys give trees deep enough for every turn of the splay (both zigs, both zig-zigs),
  and for nodes with two subtrees at the place where it happens.

In the passing runs of the worker with exception bits a descriptor is reported with
one bit at a time, except in `worker_faults`, which claims neither `NoCrash` nor
`NobodyForgotten`: those are what `claim_events` and `claim_reconnect` refute.

### Fairness

* `Server`: `WF_vars(ServerStep)`: the process is scheduled, and each of its
  steps is enabled until it is taken; and `SF_vars(NewSecond)`: select() waits for at
  most one second (server.c:1214), so a loop that goes round for ever meets a new
  second again and again. Nothing is assumed of clients, backends or signals:
  `GracefulEnds` is about behaviours in which no descriptor is reported any more.
  The code has no timeout for a request that waits for its backend, hence the
  second alternative of `GracefulEnds`.
* `Supervision`: the angel, the watcher and some worker are scheduled, and of the
  children that were told to stop one after the other does. Nothing is assumed of
  signals and crashes. With angel and watcher together no liveness is
  claimed: a watcher that sleeps in wait() does not act on its signal, and the angel
  may wait for it.
* `FcgiHosts`: the trigger is called every second, time goes on, and an attempt that
  failed is followed by the next (the connection is in the job list or the fd
  wait queue). Clients leave in the end only in the configuration that says so:
  a process is restarted only when its load is 0.
* `Upload`: records are built and the socket becomes writable again and again.

### Refinements

`ServerDescriptors` instantiates `Descriptors` with: the client socket of a connection
is `con->fd` while the connection is in the pool; the backend's is `hctx->fd`;
watched is what is in the select() sets, without the listening socket; the count is
what `cur_fds` adds to the descriptors of the start. `Descriptors` allows one
acquisition or one release per step, so a mistake that is repaired within the
round shows as well.

`StatCache` instantiates `StatTable` with the entries of the tree by their keys. The table
has no shape, so the refinement says that rotations lose nothing and that work on one
key touches no other.

## 5. The runs that refute a claim

**`claim_keepalive`** (`KeepAliveBounded`, module `ServerClaims`).
`doc/configuration.txt:397-398`: "maximum number of request within a keep-alive session
before the server terminates the connection"; one request more than that is allowed, because
`response.c:231` compares with `>`. Trace: accept; a keep-alive request
is answered; then requests of an HTTP version that is neither 1.0 nor 1.1, such as
`GET / HTTP/1.2`. The parser sets status 505 and returns without touching `keep_alive`
(`request.c:420-430`), which `connection_reset` keeps as well; with the status set
`http_response_prepare` returns at `response.c:133-141`, before the counter is looked at;
and `connections.c:1521` goes on to the next request. `KeepAliveLimited` is what holds for
all other requests.

**`claim_graceful`** (`GracefulHarmsNobody`, module `ServerClaims`). The comment at
`server.c:1196` says "ready to terminate without harming anyone". Trace: SIGINT
arrives after the sockets phase of a worker without connections; line 1195 sets
`srv_shutdown`, the loop still polls, accepts a client on the armed socket, and ends.

## 6. Further disagreements between the code and what is said of it

Each of these has a configuration that makes TLC print the trace; they are not among
the project's runs. `tlc -config <name>.cfg <module>`. Where a configuration lists several
claims, TLC stops at the first it finds violated: leave one of them in it to see its trace.

`ServerClaims`:

* **`claim_lingering`** (`LingeringClose`). `doc/state.txt:101-103`: "the 'close'
  state is used the init a half-close and read all the delay packet from the
  network". Trace: accept; a keep-alive request arrives; handling it
  fails, state ERROR; shutdown() succeeds, state CLOSE with a fresh
  `close_timeout_ts`; line 1741 sets `keep_alive = 0`; the next turn of the same
  loop takes the `else` of line 1601, sets `close_timeout_ts` to 0 and closes.
* **`claim_takeover`** (`NextCanTakeOver`). The comment at `server.c:1156-1159`
  promises that closing the socket lets the next lighttpd take over. Trace: one
  client takes `cur_fds` above 90% of `max_fds`; the sockets are disabled; SIGINT;
  the branch for disabled sockets is taken, where nothing is closed. The old
  worker keeps the port until its last client has gone, and leaves the pid file.
* **`claim_descriptors`** (`WaitersCanBeServed`). `doc/performance.txt:151-153`.
  Trace: a client is accepted and its request goes to the backend; the connect is
  refused, so the request waits in `fdwaitqueue` for its next attempt, and after
  the second one still. All free descriptors now belong to the reserve, so
  `free_fds` is 0 and the queue is not served; the sweep has no limit for
  HANDLE_REQUEST and every connection waits: nobody gives a descriptor back.

`Server`:

* **`claim_events`** (`NoCrash`). The comment at `server.c:1215` says "n is the
  number of events"; select() returns the number of bits. A client socket in
  the read and in the exception set is dispatched once and counted twice, and
  the second turn asks for the handler of the slot behind the last descriptor.
* **`claim_reconnect`** (`NobodyForgotten`). The comment at `mod_fastcgi.c:1541`
  says "next step is resetting this attemp and setup a connection again".
  Trace: the connect to the backend is delayed; its socket becomes writable; the
  write fails with ENOTCONN; `fcgi_reconnect` closes the descriptor and returns
  HANDLER_WAIT_FOR_FD, which the main loop drops (server.c:1236). The path
  through `SubrequestError` calls `joblist_append` "in case we come from the
  event-handler"; this one does not.

`SupervisionClaims`:

* **`claim_angel`** (five claims).
  `RestartOnCrash`: `lighttpd-angel.c:5`: "restart on crash".
  A lighttpd that crashes while the loop is not inside waitpid() is reaped by the
  handler of SIGCHLD (line 57); waitpid() then fails with ECHILD and the angel ends.
  `SpawnOnHup`: `lighttpd-angel.c:6`: "spawn on HUP to allow
  graceful restart". SIGHUP arrives between the test of `start_process` (line 95) and
  waitpid() (line 116); the call is not interrupted, the old child ends gracefully,
  and WIFEXITED sets `is_shutdown` (line 137) without looking at `start_process`.
  `OnlyTheChild`: `lighttpd-angel.c:42`: "forward the sig to the
  child". `pid` is -1 until the first fork() has been stored, and kill(-1) is for
  every process. (In the same window a SIGTERM is lost: it is only forwarded,
  never remembered, and the new child is started.)
  `ReplacementStays`: `lighttpd-angel.c:6`. The old watcher, told to
  end, sends SIGINT to its process group (`server.c:889`), to which the angel and
  the new lighttpd belong: the replacement is told to stop as well.
  `HupSentOnce`: `server.c:102-103`: "make sure we only send it
  once and don't create a infinite loop". While the angel replaces a lighttpd two
  watchers share a process group. `forwarded_sig_hup` makes a watcher ignore its own
  copy of a SIGHUP, not the other one's: each takes the other's for a new signal
  and sends its own. The attempt to prove `NoHupStorm` without its condition showed
  this; no setup of the `supervision` run had it.
* **`claim_watcher_int`** (`IntForwarded`). `NEWS:121`: "fixed forwarding a SIGINT and
  SIGHUP when using max-workers". A SIGINT between the test of the flags
  (`server.c:831`) and wait() (line 846) is seen only when a worker dies. (And a fork()
  that fails, line 834, ends the watcher without telling the workers.)

`MCFcgiHosts` (lines of `mod_fastcgi.c`):

* **`claim_fcgi_counts`** (three claims).
  `LoadRightAlways`: line 78: "number of requests waiting on this
  process". `fcgi_reconnect` gives back the load (1578) and leaves `got_proc` set: when
  the next attempt fails before it is connected the load of that process is
  decremented again, and wraps. Such a process is never started again (2747).
  `RunningIsActive`: line 126: "how many of them are really
  running". Every request that fails on a process decrements `active_procs` (3179), also
  when another one has marked it as dead already; after it was enabled again
  the count is 0 and every request is answered 500 although a process runs.
  `DiedIsReaped`: line 3267: "only fetch the zombie if it is not
  already done". Line 2841 overwrites PROC_STATE_DIED_WAIT_FOR_PID with
  PROC_STATE_DIED: the child is not waited for.
* **`claim_fcgi_spawn`** (`DeadProcsReturn`). Line 2741: "local procs get restarted by us".
  `fcgi_restart_dead_procs` returns at the first process that cannot be started
  (2761); those behind it stay disabled as long as that lasts.
* **`claim_fcgi_retries`** (`AttemptsEnd`). Line 1543: "if we have more than 5 reconnects
  for the same request, die". Every connect() that succeeds at once sets the
  counter to 0 (1777): a backend that accepts and drops is tried without end.

`ReadQueue`: **`claim_header`** (`AlwaysFound`). `connections.c:922`: "if there is a
\r\n\r\n in the chunkqueue". From a CR the search looks into the next chunk only: an
empty line that arrives in three reads is not found, and the client waits until it is
timed out. (Also: the size of a temporary file is tested before an append that takes
the whole chunk, so the "max 1Mb" of line 1040 may be exceeded by one read.)

`Upload`:

* **`claim_upload`** (two claims).
  `NoTempfileLeft`: `chunk.h:25`: "file is temporary and will be
  deleted if on cleanup". `chunkqueue_free` (`chunk.c:48`) frees chunks without
  unlinking: the files `hctx->wb` has taken over stay when a request ends during an
  upload.
  `AttemptsFresh`: `mod_fastcgi.c:1541`: "resetting this attemp".
  `fcgi_reconnect` neither empties `hctx->wb` nor gives the content back: the next
  `fcgi_create_env` appends a second request behind the first, and with a content
  it dereferences the first chunk of a queue that is empty (2107).

`MCSmsStore`: **`claim_sms_limit`** (`LimitAlways`). `SMS/sms.h:8`:
"MAX_CNT_SHORT_MESSAGE_DRAFT 3". `add_sms_config` with the index of a stored message
overwrites it, type included, and does not apply the limit of the new type (line 381).

`MCStatCache`:

* **`claim_stat`** (two claims).
  `AnswersOwnFile`: when another name has the same key the
  entry found is filled with the data of that name's file and keeps its own name
  (`stat_cache.c:426`): the next lookup of the first name in this second gets the
  other file's data.
  `AnswersOfThisSecond`: `stat_ts == cur_ts` after the clock was
  set back makes an entry of an earlier time fresh again.
  (Also: the comment above `stat_cache_trigger_cleanup`, lines 677-679, says that entries
  go after 10 seconds; the code, and the model, take more than 2.)

## 7. Proofs

Everything below holds for all values of the constants that satisfy the assumptions
of the modules: natural numbers, at least one connection and one descriptor below
the limit (`FdAssumption`, `ServerAssumption`), setups with the fields the
models read (`SetupAssumption`), natural limits (`SmsAssumption`), configurations with
at least one host, and fewer requests and processes than the counters hold (`ConfAssumption`), reads of at least one byte and lengths that are
natural numbers (`ReadAssumption`), contents of a bounded length and records of at least
one byte (`LengthAssumption`).

| Module | Theorem | Shows |
|---|---|---|
| `ServerProofs` | `TypeCorrect`, `PoolIsConsistent`, `WaitersAreCounted` | `[]TypeOK`, `[]PoolConsistent`, `[]WaitersCounted` |
| | `DescriptorsAreCounted`, `EventsReachTheirOwner` | `[]FdsCounted`, `[]EventsReachOwner` |
| | `RequestsStartClean`, `KeepAliveIsLimited` | `[]CleanStart`, `KeepAliveLimited` |
| | `OthersKeepTheirEvents`, `AcceptsWhenOpen` | `OnlyOwnEvents`, `AcceptOnlyWhenOpen` |
| | `NeverCrashes` | `[]NoCrash`, if select() reports one event per descriptor |
| | `WorkerImplementsDescriptors` | `Spec => D!Spec` |
| `WakeupProofs` | `ResponsesGoOn` | `[]Responses` |
| | `NobodyIsForgotten` | `[]NobodyForgotten`, if neither fcntl() nor a first write to a backend fails |
| | `TimeoutsAreKept` | `[]TimeoutsKept` |
| `SupervisionProofs` | `OneIsCurrent`, `EverybodyIsTold`, `NoStormOfHups`, `HardOnlyWhenAsked` | `[]OneCurrent`, `[]EverybodyTold`, `[]NoHupStorm`, `[]HardOnlyOnRequest` |
| `FcgiHostsProofs` | `LoadsAreRight` | `[]LoadsRight` |
| `ReadQueueProofs` | `NothingIsLost`, `HeadersAreExact`, `EndsAreFound` | `[]NothingLost`, `[]HeaderExact`, `[]FoundWhenThere` |
| | `ContentsAreExact`, `TempfilesAreClosed` | `[]ContentExact`, `[]TempfilesClosed` |
| `UploadProofs` | `StreamIsRight`, `RequestIsComplete`, `FilesAreThere` | `[]StreamRight`, `[]CompleteAtEnd`, `[]FilesThere` |
| `SmsStoreProofs` | `LimitIsKept`, `BoxesAreFresh`, `TheDeadStayDead`, `TheOldestGoFirst` | `[]LimitKept`, `[]BoxesFresh`, `DeadStaysDead`, `OldestFirst` |

**`ServerProofs`, first part.** None of its properties is inductive alone. `IInv` adds:

* `PoolOK`: besides the agreement of `ndx` and `ptr`, `ptr` is injective. Without
  it the swap of `connection_del` could make a connection appear twice.
* `CtxReady`: a FastCGI context that has left FCGI_STATE_INIT has a descriptor.
  Otherwise arming it would put -1 into the select() sets.
* `CallInv`: the caller `ret` of the state machine is known exactly while `pc` is
  "machine" or "arm". Otherwise returning to it would lose the phase, and the
  entry of `fdwaitqueue` being served would be counted wrongly.
* the bounds of the loop counter and of the descriptors in select()'s answer.

The argument follows the frames. `Keeps(f, g)` says that frame f results from g
with all types in order and the pool untouched; `Good(g)` that types and pool are
in order. One lemma per operator of `Fdevent`, `ModFastcgi` and `Connections` shows
that it keeps or is good; `FrameGood` starts from the state and `CommitOK` returns
to it. Then there is one lemma per group of actions (`StateMachineOK`, `SweepOK`,
`SocketsOK`, `EventsOK`, `JobsOK`, `SignalsOK`), and `NextOK` puts them together. The
only lemmas about the pool are those for `connection_del` and
`connections_get_new_connection`; they carry the arithmetic of the swap.

**`ServerProofs`, second part.** `OwnInv` strengthens `IInv` by what relates the tables to each
other:

* `Holdings`, that is `Own` of the state: a connection in the pool has the node of its
  descriptor, a context the node of its own, a node leads back to whoever has
  it, a descriptor is open exactly if it has a node, and is in the sets of
  select() only if it is open. A structure whose `fde_ndx` is -1 is in no set:
  `fdevent_event_del` does nothing then, so that a close would leave the bit
  behind for the next owner of the number. `con->fd` of a structure outside the
  pool is stale; that its `fde_ndx` is -1 makes it harmless.
* `Requests`: mode, state, decision and context of a request fit together, and a
  structure is in state CONNECT exactly when it is outside the pool. `keep_alive` is only set once a request was
  counted, and not in CONNECT or CLOSE. After
  `http_response_prepare` (`Prepared`) `keep_alive` and a counter above the limit go
  together only with `bad_version`; before it nothing relates them.
* `Counters`: the counter of a structure outside the pool is 0, or the state
  machine is about to clear it.
* `Listening`: the listening socket is watched and has its handler exactly while
  the worker accepts.
* `Dispatch`: the descriptors still to be dispatched are open. A handler closes the
  descriptor it was called for or one it opened; the connection that the
  accept handler runs the machine for has none of the pending ones. And if every
  report is one bit (`OneBit`) the count that is left is the number of
  descriptors that are left.

`Holds(c, g)` is `Own` of the state that would result if frame g of connection c were
committed now, with the descriptors counted and the others untouched; there is
one lemma for each of the five ways to change it (`HoldsAccept`, and those for
connecting, closing, hanging up and watching), and one per handler on top of
them. `MachineSteps` and `EventSteps` say that every handler makes a `Step`, and
`StepKeeps` what such a step leaves. `EveryStep` sums up: a step of one connection,
an accept, or nothing. `OnlyOwnEvents`, `AcceptOnlyWhenOpen` and the refinement
follow from that: `StepImplements` maps a step to Connect, Disconnect, HangUp, Watch
or a stutter, `AcceptImplements` an accept to Accept.

`NeverCrashes` has the hypothesis `OneBit` because the property is false without it
(section 6, `claim_events`); the `worker_signals` run checks it under the same
condition.

**`WakeupProofs`.** `Responses` is about every connection at every moment, also while the
machine works on it: `Live` says that a context which waits for its backend has a host
and a watched descriptor, that a response which has begun either reads from its backend or has
`file_finished` set and something left to write, and that a context that has not
begun to answer leaves its connection writable. Each handler keeps it on its frame, and adds
a job list entry whenever it takes away what the connection was waiting for
(`Lives`, `Turned`). `Wakeups` adds what `NobodyForgotten` demands in `poll` to all
phases: a connection has a wake-up, or it is the one at work, or it stands behind the
loop counter; and when the machine returns (`arm`) its connection is at rest
(`AtRest`), so that the bits that `Arm` sets are the wake-up. `NobodyIsForgotten` has the
hypothesis `Faults = {}` because both faults break it (section 6, `claim_reconnect`;
an accepted client whose fcntl() fails stays in the pool without events), `ResponsesGoOn` has not.

`TimeInv` counts how often the sweep may have passed over a connection without a history
variable: whenever that happens the connection is moved from the last slot to a lower one, so
the slots above its present one (`Slack`) bound the seconds it is late. A
timestamp in WRITE is never `Unset`, except between the state's entry and the first
`write()`; `AboutToWrite` is this moment.

**`FcgiHostsProofs`.** `IInv` are the types, `CtxOK` (which fields a context has
in which state) and the two sums. A handler is a chain of operators on a frame, and
the sums do not hold between them: `Loads(c, f)` counts the requests other than c, by
cardinality, and adds what the context in frame f holds, so that it is kept by each
operator of the chain. The choice of a host and of a process, and the restart of dead processes,
are recursive functions over the processes of a host; what they keep is proved by
induction over the prefix.

**`ReadQueueProofs`.** The stream of a client, the queue and the content are sequences in
pieces. `Pieces` shows what taking, splitting and extending does to the
sequence the pieces make (`FlatSplit`, `FlatAt`, `PlaceOf` for the piece a position lies in).
`IInv` adds to the properties: what is not used of the stream is request, content
and queue, one after the other; the chunks in the queue are the last reads, only the first one
begun (`Tidy`, `LastReads`), which ties positions in the queue to boundaries of
reads; a content in memory has no files, and what is open in each state. `FoundIs` turns
the search over chunks k and k + 1 into a statement about the flat queue: it finds an
end at i exactly if i is in `Ends` and within `Reach`. An end beyond reach has two
boundaries of reads among its four bytes (`NotFar`), which is `Scattered`. `HeaderCopied` and
`HeaderCut` are the copy of the header; `AllMoved` is the loop that moves the content, by induction
over the chunks, with `GoesOn` and `Stops` as its invariant.

**`UploadProofs`.** `hctx->wb` is one sequence of tokens in pieces, too. The heart of `IInv`
is that on a first attempt what was written and what is queued are together a complete request
(`Full`): `StreamGrows` and `StreamEnds` add records and the empty one, whatever bytes a record
holds, `WrittenIs` and `HeadRemoved` show that a write takes as many tokens from the head of the
flat queue as it returns, wherever chunks end, and `BegunPrefix` that what was
written is therefore the beginning of a request. `EndIs` and `NumbersAre` read the property from
that. For the files `LastNamed` says that no chunk behind the one that unlinks a file refers to
it, and `FilesOwned` that each file is the content's or has such a chunk; `Built` keeps both while
the queue grows by a record, and `FileParts` inside a record, chunk of the content by chunk.
`FilesThere` holds on every attempt, also when an earlier one has left its chunks in the queue. That the
content is divided without gaps at first (`CutIs`) is a theorem about `Init`: the k-th smallest
member of a finite set is the one with k - 1 below it.

**Induction.** The induction theorems of the library take an operator as a parameter, which
the provers cannot instantiate. `SetInduction` is induction for a set of numbers instead, proved
from the library's theorem that < is well-founded on the natural numbers; recursive functions
(`FlattenSeq`, the loops of `FcgiHosts` and `ReadQueue`, the records of `Upload`) are unfolded with it, and shown to exist first.

**`SupervisionProofs`.** `Basics` holds the types, that handlers of one signal do not
nest in themselves, that the angel knows a child wherever it uses one, that children
are born in order, and that `num_childs` and the workers not yet reported are
together at most `max_worker`. On top of it each property has its own part: `StayInv`
(only the child in `pid`, or the one about to be stored there, is meant to stay, and
not even that one once a restart is due), `ToldInv` (workers of a watcher past its
exit point know), `HupInv` (the SIGHUPs sent plus those the watcher still owes are
no more than it got) and `HardInv` (before somebody asks for a hard stop at most one
SIGINT is on its way).

**`SmsStoreProofs`.** The limits hold for the types an operation has already dealt
with, indices are below the sequence number of the table, and the set of rows is finite.

**Only model-checked.** `SplayTree` and `StatCache` use RECURSIVE operators, as the algorithms of a
tree need, which keeps them from the provers, and with them `TreeSound`, `AnswersRight` and
`ImplementsTable`. Liveness under fairness (`GracefulEnds`, `RestartHappens`,
`WorkersReplaced`, `DeadProcsReturn`, `AttemptsEnd`, `UploadEnds`) and ENABLED are out of
the prover's reach.

## 8. Limits of the models

* The descriptors of static and temporary files are not modelled in `Server`; the
  code does not count them in `cur_fds` either.
* A step of the clock is one second in `Server`; jumps of the system time are in
  `StatCache` only.
* When select() reports fewer descriptors than bits, the real loop goes on at the
  slot behind the highest descriptor ever watched. The model has no node there; in
  the rare case that there is one, its handler would be called without events.
* Read, write and connect may fail at any time, fcntl() after accept() and
  ENOTCONN after a delayed connect only where a run lists them in `Faults`; an
  ioctl() that fails is left out.
* One listening socket, no SSL, no SIGHUP to a worker (it cycles logs), select() as
  event handler, mod_fastcgi in responder mode as the only gateway, no
  error-handler-404 loop (it runs the same case again).
* In `Server` which host or process of a backend is chosen, respawned or disabled is
  nondeterministic (`FcgiHosts` has it), the read queue is a count of reads
  (`ReadQueue`), and the upload takes one write or several (`Upload`). The crash on a
  reconnect with a content, section 6, is therefore in `Upload` only.
* `server.c:827` sets the number of workers to 5; two show every order in which workers
  act relative to each other and to the watcher. In the setups with an angel and no
  watcher the child is a lighttpd of which only the signals and the end are known.
* The kernel does not reuse process numbers, a watcher does not crash, and the
  signals of a worker are handled at once, one by one, not merged.
* `StatCache`: the engine fam is not compiled (`HAVE_FAM_H` is undefined in `config.h`).
  Content type, etag and the symlink flag stand and fall with the entry; that
  virtual hosts with different MIME tables share entries is left out.
* `SmsStore`: texts and numbers of a message, and the growth of its arrays.
  `reset_sms_config` sends "drop database", which SQLite does not know: it fails.

## 9. Plan

Done: the worker, `Supervision`, `FcgiHosts`, `ReadQueue`, `Upload`, `StatCache`, `SmsStore`, the
refinements of `Descriptors` and `StatTable`, and the proofs of section 7. Next, in
this order:

1. The splay tree as recursive functions over a depth, and the proof of `TreeSound`.
2. Which states of a FastCGI process may follow which, as an action property.
3. Response framing (`http_chunk.c`): chunked encoding and Content-Length.

## 10. Not modelled

Configuration parsing, logging, the data types (`array.c`, `buffer.c`), modules
whose result is one of the outcomes of `http_response_prepare`, mod_scgi,
mod_proxy and mod_cgi (own contexts with the same interface as mod_fastcgi),
spawn-fcgi (it holds the code of `fcgi_spawn_connection`); outside lighttpd the
codecs and the exercises, which hold no state worth a model, and the vendored programs
(wget-1.12 and wget-1.19 with gnulib, lemon, cgic207, open_ntpclient). The latter, with
generated parsers and headers such as `sqlite3.h`, are the bulk of the repository's
lines: the modelled part is a small share of the whole and most of what the
repository's own programs keep as state. `PROJECT.json` lists every part with its reason.

## 11. Running

In this directory: `tlc -workers 2 -config <run>.cfg <module>` with the modules of sections
4 to 6, and `tlapm <module>.tla` for the modules of section 7: one to a few minutes
each from nothing, `ServerProofs` (10 minutes) and `WakeupProofs` longest.
