----------------------------- MODULE StatCache -----------------------------
(***************************************************************************)
(* The stat cache of stat_cache.c on the splay tree of splaytree.c, with   *)
(* the engines "simple" and "disable"; the engine "fam" is not compiled    *)
(* (HAVE_FAM_H is undefined in config.h).                                  *)
(*                                                                         *)
(* The file system is outside: stat() and open() succeed or fail at each   *)
(* call.  What stat() told (struct stat, and the etag, the content type    *)
(* and the symlink flag made from it) is abstracted to the file it is      *)
(* about and the time since.                                               *)
(***************************************************************************)
EXTENDS SplayTree, FiniteSets
LOCAL INSTANCE SequencesExt

CONSTANTS
  Name,      \* file names
  hash,      \* the hash of a name with "0" appended: "1" gives the next number
  Jumps,     \* by how many seconds time() may move from one look to the next
  MaxBack    \* bound: how often the clock is set back

ASSUME StatCacheAssumption ==
  /\ hash \in [Name -> Nat]
  /\ Jumps \subseteq Int \ {0} /\ MaxBack \in Nat

\* con->conf.follow_symlink is part of the key.
Key(name, follow) == hash[name] + follow
AnyKey == {Key(name, follow) : name \in Name, follow \in {0, 1}}

VARIABLES
  engine,    \* srvconf.stat_cache_engine
  files,     \* the tree
  answer,    \* what the last call of stat_cache_get_entry gave out
  asked,     \* the name and the key it was called with
  at,        \* "running", "free", "end", or "assert" when an assertion failed
  backs      \* how often the clock was set back

vars == <<engine, files, answer, asked, at, backs>>

\* since counts the changes of the second after the stat() and is no variable
\* of the code; age is cur_ts - stat_ts.
SinceCap == 3
MaxAge == 2
Entry == [name : Name, of : Name, age : Int, since : 0..SinceCap]
None == [name |-> "none"]

Init ==
  /\ engine \in {"simple", "disable"}
  /\ files = Nil /\ answer = None /\ asked = None
  /\ at = "running" /\ backs = 0

-----------------------------------------------------------------------------
FreshForTwo(entry) == entry.age \in {0, 1}

\* stat_ts == cur_ts
Fresh(entry) == entry.age = 0

\* top is the tree after the key was looked for: the entry found there is the
\* one of that name, and was filled in this second.
Hit(top, name, key) ==
  /\ AtRoot(top, key) /\ top.data.name = name
  /\ engine = "simple" /\ Fresh(top.data)

\* A new entry, or the one found under the key, whosever it is: its name stays.
Filled(top, name, key) ==
  LET entry == [name |-> name, of |-> name, age |-> 0, since |-> 0]
  IN IF AtRoot(top, key)
     THEN [top EXCEPT !.data = [entry EXCEPT !.name = top.data.name]]
     ELSE splaytree_insert(top, key, entry)

\* Without a hit, stat() or open() may fail.
stat_cache_get_entry(name, follow) ==
  LET key == Key(name, follow)
      top == splaytree_splay(files, key)
  IN /\ at = "running"
     /\ asked' = [name |-> name, key |-> key]
     /\ \/ Hit(top, name, key) /\ files' = top /\ answer' = top.data
        \/ ~Hit(top, name, key) /\ files' = top /\ answer' = None
        \/ ~Hit(top, name, key) /\ files' = Filled(top, name, key) /\ answer' = files'.data
     /\ UNCHANGED <<engine, at, backs>>

-----------------------------------------------------------------------------
\* Once a second.

Older(entry, seconds) ==
  [entry EXCEPT !.age = @ + seconds, !.since = IF @ < SinceCap THEN @ + 1 ELSE @]

Old(entry) == entry.age > MaxAge

\* cur_ts has moved, for all entries.
RECURSIVE Aged(_, _)
Aged(t, seconds) ==
  IF t = Nil THEN t
  ELSE [t EXCEPT !.data = Older(@, seconds),
                 !.left = Aged(@, seconds), !.right = Aged(@, seconds)]

RECURSIVE stat_cache_tag_old_entries(_)
stat_cache_tag_old_entries(t) ==
  IF t = Nil THEN <<>>
  ELSE stat_cache_tag_old_entries(t.left) \o stat_cache_tag_old_entries(t.right)
         \o (IF Old(t.data) THEN <<t.key>> ELSE <<>>)

Dropped(t, key) ==
  LET top == splaytree_splay(t, key)
  IN IF AtRoot(top, key) THEN splaytree_delete(top, key) ELSE top

\* The main loop sees another second.
stat_cache_trigger_cleanup(seconds) ==
  /\ at = "running"
  /\ seconds < 0 => backs < MaxBack
  /\ backs' = IF seconds < 0 THEN backs + 1 ELSE backs
  /\ LET aged == Aged(files, seconds)
     IN files' = FoldLeft(Dropped, aged, stat_cache_tag_old_entries(aged))
  /\ answer' = None /\ asked' = None
  /\ UNCHANGED <<engine, at>>

-----------------------------------------------------------------------------
\* The end of the server: server_free calls stat_cache_free, which takes away
\* the root until nothing is left.

server_free ==
  /\ at = "running" /\ at' = "free"
  /\ answer' = None /\ asked' = None
  /\ UNCHANGED <<engine, files, backs>>

stat_cache_free ==
  /\ at = "free" /\ files # Nil
  /\ files' = splaytree_delete(files, files.key)
  /\ at' = IF files.size - 1 = files'.size THEN at ELSE "assert"
  /\ UNCHANGED <<engine, answer, asked, backs>>

stat_cache_freed ==
  /\ at = "free" /\ files = Nil /\ at' = "end"
  /\ UNCHANGED <<engine, files, answer, asked, backs>>

Stopped == at \in {"end", "assert"} /\ UNCHANGED vars

Next ==
  \/ \E name \in Name, follow \in {0, 1} : stat_cache_get_entry(name, follow)
  \/ \E seconds \in Jumps : stat_cache_trigger_cleanup(seconds)
  \/ server_free \/ stat_cache_free \/ stat_cache_freed \/ Stopped

Spec == Init /\ [][Next]_vars

-----------------------------------------------------------------------------
\* Properties.

\* The types; an entry lives for at most three seconds of the clock, unless the
\* clock is set back (stat_cache.c:696).  Checked with TreeSound.
TypeOK ==
  /\ engine \in {"simple", "disable"}
  /\ \A node \in Nodes(files) :
       node.key \in AnyKey /\ node.data \in Entry /\ node.data.age <= MaxAge
  /\ answer \in Entry \union {None}
  /\ asked \in [name : Name, key : AnyKey] \union {None}
  /\ at \in {"running", "free", "end"}
  /\ backs \in 0..MaxBack

\* splaytree.c: after any sequence of lookups, insertions and deletions the tree is
\* a search tree and every size is the number of nodes below: the next lookup
\* relies on the first, and stat_cache_trigger_cleanup allocates the array of
\* the keys by the second (stat_cache.c:712).
TreeSound ==
  /\ TypeOK
  /\ \A node \in Nodes(files) :
       /\ \A i \in Keys(node.left) : i < node.key
       /\ \A i \in Keys(node.right) : i > node.key
       /\ node.size = 1 + Cardinality(Keys(node.left)) + Cardinality(Keys(node.right))

\* The key is the one of several names.
Shared(key) ==
  \E m, n \in Name : m # n /\ \E f, g \in {0, 1} : Key(m, f) = key /\ Key(n, g) = key

\* stat_cache.c:406-407: who asks for a file gets what stat() told of this
\* file in this second, also when an entry of another name was met on the way,
\* unless the key is the one of two names or the clock was set back.
AnswersRight ==
  (answer # None /\ ~Shared(asked.key) /\ backs = 0) =>
    answer.of = asked.name /\ answer.since = 0

\* stat_cache.c:406-407 "we have seen this file already and don't stat() it
\* again in the same second", 413 "check if the name is the same, we might
\* have a collision": who asks for a file never gets another one's entry.  A
\* collision leaves the name of the entry and replaces the rest.
AnswersOwnFile ==
  answer # None => answer.of = asked.name

\* The same comment: what is given out was found in this second.  After the
\* clock was set back the second of an old entry comes again.
AnswersOfThisSecond ==
  answer # None => answer.since = 0

Table ==
  LET pairs == Pairs(files)
  IN [i \in Keys(files) |-> (CHOOSE pair \in pairs : pair[1] = i)[2]]

T == INSTANCE StatTable WITH
       Slot <- AnyKey, NoAnswer <- None, table <- Table

\* The tree is as good as a table: splaying, inserting and deleting, in any
\* order and at any depth, never lose, double or exchange an entry, and the
\* cleanup of a second throws away exactly the old ones (stat_cache.c:686-749).
ImplementsTable == T!Spec
=============================================================================
