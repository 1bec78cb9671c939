------------------------------ MODULE SmsStore ------------------------------
(***************************************************************************)
(* The message store of src/SMS/sms.c: rows in an SQLite table, a copy of  *)
(* the rows in memory, one box per type, and a limit per type that is kept *)
(* by deleting the oldest rows.                                            *)
(*                                                                         *)
(* Every SQL statement is a transaction of its own.  An operation of the   *)
(* store is therefore a sequence of steps; between two of them the process *)
(* may die, and a statement may fail, which the operations mostly ignore.  *)
(***************************************************************************)
EXTENDS Naturals, FiniteSets

CONSTANTS
  BoxType,        \* types with a box in memory: IN, SENT, SENDING, DRAFT
  UnboxedType,    \* UNREAD: has a limit, and no box
  limit,          \* MAX_CNT_SHORT_MESSAGE_*, per type
  Time,           \* values of smsdonetime
  MaxIndex        \* bound: rows ever inserted

Limited == BoxType \union UnboxedType

ASSUME SmsAssumption ==
  /\ BoxType \intersect UnboxedType = {} /\ IsFiniteSet(Limited)
  /\ limit \in [Limited -> Nat \ {0}]
  /\ Time \subseteq Nat /\ MaxIndex \in Nat

\* A type below 0 passes the test of add_sms_config; one above the last does not.
negative == "negative"
Type == Limited \union {negative}

Index == 1..MaxIndex
Row == [index : Index, type : Type, time : Time]

VARIABLES
  db,        \* the rows of table sms
  seq,       \* the last value of the autoincrement column
  box,       \* g_sms_data: per box the rows it shows
  at,        \* the next statement of the running operation, or "idle", "down"
  todo,      \* the types whose limit the running operation still applies
  stale,     \* the last select for the boxes failed
  unlimited  \* history: the types that got a message by an update, or whose last
             \* delete_sms_config_by_limit failed

vars == <<db, seq, box, at, todo, stale, unlimited>>

Empty == [t \in BoxType |-> {}]

Init ==
  /\ db = {} /\ seq = 0 /\ box = Empty
  /\ at = "down" /\ todo = {} /\ stale = FALSE /\ unlimited = {}

Of(t) == {r \in db : r.type = t}
Boxes == [t \in BoxType |-> Of(t)]

-----------------------------------------------------------------------------
\* Statements.

InsertReusing(t, time) ==
  \E i \in Index :
    /\ \A r \in db : r.index # i
    /\ \A j \in 1..(i - 1) : \E r \in db : r.index = j
    /\ db' = db \union {[index |-> i, type |-> t, time |-> time]}
    /\ seq' = IF i > seq THEN i ELSE seq

\* _add_sms_conf: the index of the message is not used.
Insert(t, time) ==
  /\ seq < MaxIndex
  /\ seq' = seq + 1
  /\ db' = db \union {[index |-> seq + 1, type |-> t, time |-> time]}

TrimOneMore(t) ==
  IF t \notin Limited \/ Cardinality(Of(t)) <= limit[t] + 1 THEN {{}}
  ELSE {gone \in SUBSET Of(t) :
          /\ Cardinality(Of(t) \ gone) = limit[t] + 1
          /\ \A r \in gone, s \in Of(t) \ gone : r.time <= s.time}

TrimNewest(t) ==
  IF t \notin Limited \/ Cardinality(Of(t)) <= limit[t] THEN {{}}
  ELSE {gone \in SUBSET Of(t) :
          /\ Cardinality(Of(t) \ gone) = limit[t]
          /\ \A r \in gone, s \in Of(t) \ gone : r.time >= s.time}

\* delete_sms_config_by_limit: the sets of rows the statement may delete.  The
\* newest ones stay; between rows of the same time SQLite decides.  An unknown
\* type has no limit and nothing is deleted.
Trim(t) ==
  IF t \notin Limited \/ Cardinality(Of(t)) <= limit[t] THEN {{}}
  ELSE {gone \in SUBSET Of(t) :
          /\ Cardinality(Of(t) \ gone) = limit[t]
          /\ \A r \in gone, s \in Of(t) \ gone : r.time <= s.time}

\* An error of SQLite.
Fails == UNCHANGED <<db, seq>>

-----------------------------------------------------------------------------
\* Operations.

\* load_sms_config: open the file, create the table if it is missing, ...
load_sms_config ==
  /\ at = "down"
  /\ at' = "limit" /\ todo' = Limited
  /\ UNCHANGED <<db, seq, box, stale, unlimited>>

\* add_sms_config with a known index: the row is overwritten ...
update_sms(i, t, time) ==
  /\ at = "idle"
  /\ \E r \in db :
       /\ r.index = i
       /\ \/ /\ db' = (db \ {r}) \union {[index |-> i, type |-> t, time |-> time]}
             /\ unlimited' = IF t = r.type THEN unlimited ELSE unlimited \union {t}
             /\ UNCHANGED seq
          \/ Fails /\ UNCHANGED unlimited
  /\ at' = "refresh"
  /\ UNCHANGED <<box, todo, stale>>

\* ... and otherwise, whatever index the caller gave, a new row is added.
add_sms_config(t, time) ==
  /\ at = "idle"
  /\ Insert(t, time) \/ Fails
  /\ at' = "limit" /\ todo' = {t}
  /\ UNCHANGED <<box, stale, unlimited>>

\* The limit of one type; load_sms_config applies all, in any order here.  Its
\* result is ignored.
delete_sms_config_by_limit(t) ==
  /\ at = "limit" /\ t \in todo
  /\ \/ /\ \E gone \in Trim(t) : db' = db \ gone
        /\ UNCHANGED seq /\ unlimited' = unlimited \ {t}
     \/ Fails /\ unlimited' = unlimited \union {t}
  /\ todo' = todo \ {t}
  /\ at' = IF todo' = {} THEN "refresh" ELSE at
  /\ UNCHANGED <<box, stale>>

\* free_sms_data and _get_sms_config
refresh ==
  /\ at = "refresh"
  /\ \/ box' = Boxes /\ stale' = FALSE
     \/ box' = Empty /\ stale' = TRUE
  /\ at' = "idle"
  /\ UNCHANGED <<db, seq, todo, unlimited>>

DeleteKeepingBoxes(i) ==
  /\ at = "idle"
  /\ db' = {r \in db : r.index # i}
  /\ UNCHANGED <<seq, at, box, todo, stale, unlimited>>

\* A statement that fails ends the operation with -1.
delete_sms_config_by_index(i) ==
  /\ at = "idle"
  /\ db' = {r \in db : r.index # i}
  /\ at' = "refresh"
  /\ UNCHANGED <<seq, box, todo, stale, unlimited>>

empty_sms_config_by_type(t) ==
  /\ at = "idle"
  /\ db' = db \ Of(t)
  /\ at' = "refresh"
  /\ UNCHANGED <<seq, box, todo, stale, unlimited>>

\* Memory is gone, the file stays.
ProcessGone ==
  /\ at' = "down" /\ box' = Empty /\ todo' = {} /\ stale' = FALSE
  /\ UNCHANGED <<db, seq, unlimited>>

unload_sms_config == at = "idle" /\ ProcessGone
Crash == at \notin {"down", "idle"} /\ ProcessGone

Next ==
  \/ load_sms_config \/ refresh \/ unload_sms_config \/ Crash
  \/ \E t \in Type, time \in Time :
       add_sms_config(t, time) \/ \E i \in Index : update_sms(i, t, time)
  \/ \E t \in Type : delete_sms_config_by_limit(t) \/ empty_sms_config_by_type(t)
  \/ \E i \in Index : delete_sms_config_by_index(i)

Spec == Init /\ [][Next]_vars

-----------------------------------------------------------------------------
\* The types; two rows never have the same index.  Checked with LimitKept.
TypeOK ==
  /\ db \subseteq Row /\ \A r, s \in db : r.index = s.index => r = s
  /\ seq \in 0..MaxIndex
  /\ box \in [BoxType -> SUBSET Row]
  /\ at \in {"down", "idle", "limit", "refresh"}
  /\ todo \subseteq Type /\ stale \in BOOLEAN
  /\ unlimited \subseteq Type

\* sms.h:4-8, MAX_CNT_SHORT_MESSAGE_*: between two operations a type has no more
\* messages than its limit, also when the process died between the insert and
\* the delete of an earlier add_sms_config (sms.c:391-392): the next load
\* repairs.  Only an update into the type, or a delete that failed and was
\* ignored, can leave more, and only until the limit is applied again.
LimitKept ==
  /\ TypeOK
  /\ at = "idle" => \A t \in Limited \ unlimited : Cardinality(Of(t)) <= limit[t]

\* sms.h:4-8 taken at its word: no type ever has more messages than its limit.
\* add_sms_config with a known index does not apply the limit (sms.c:361-377).
LimitAlways ==
  at = "idle" => \A t \in Limited : Cardinality(Of(t)) <= limit[t]

\* What cfg_get_sms_config gives out between two operations is what the
\* database holds, unless the last select failed: no operation changes rows
\* and returns without free_sms_data and _get_sms_config (sms.c:394-395,
\* 424-425, 454-455).
BoxesFresh ==
  (at = "idle" /\ ~stale) => box = Boxes

\* An index names one message for ever: a message that was deleted does not come
\* back under its index, whatever the caller adds with an index it still has
\* (sms.c:179, 361-393).
DeadStaysDead ==
  [][\A i \in Index :
       (i <= seq /\ \A r \in db : r.index # i) => \A r \in db' : r.index # i]_vars

\* Limits delete the oldest: with nobody deleting, a message leaves its type only
\* when as many messages of that type as the limit, none of them older, stay.
OldestFirst ==
  [][at = "limit" =>
       \A r \in db \ db' :
         Cardinality({s \in db' : s.type = r.type /\ s.time >= r.time}) >= limit[r.type]]_vars
=============================================================================
