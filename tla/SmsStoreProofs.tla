--------------------------- MODULE SmsStoreProofs ---------------------------
(***************************************************************************)
(* Proofs about SmsStore, for any set of types, any limits and any number  *)
(* of rows.                                                                *)
(***************************************************************************)
EXTENDS SmsStore, FiniteSetTheorems, TLAPS

-----------------------------------------------------------------------------
\* The inductive invariant.

\* The types whose limit holds now: while an operation applies limits, those it
\* has no longer to do; while no process runs, none.
Applied == IF at = "limit" THEN Limited \ todo
           ELSE IF at = "down" THEN {} ELSE Limited

LimitsApplied == \A t \in Applied \ unlimited : Cardinality(Of(t)) <= limit[t]

IInv ==
  /\ TypeOK
  /\ IsFiniteSet(db)
  /\ \A r \in db : r.index <= seq
  /\ at # "limit" => todo = {}
  /\ LimitsApplied
  /\ BoxesFresh

-----------------------------------------------------------------------------
\* Lemmas about the statements.

\* A set that loses rows does not grow.
LEMMA SubsetCard ==
  ASSUME NEW S, NEW T, IsFiniteSet(T), S \subseteq T
  PROVE  /\ IsFiniteSet(S) /\ Cardinality(S) \in Nat /\ Cardinality(T) \in Nat
         /\ Cardinality(S) <= Cardinality(T)
BY FS_Subset, FS_CardinalityType

\* The rows of a type are finitely many.
LEMMA OfFinite ==
  ASSUME IsFiniteSet(db), NEW t
  PROVE  IsFiniteSet(Of(t)) /\ Cardinality(Of(t)) \in Nat
BY SubsetCard DEF Of

\* What delete_sms_config_by_limit deletes is of the type, and leaves no more
\* than the limit.
LEMMA TrimKeepsLimit ==
  ASSUME TypeOK, IsFiniteSet(db), NEW t \in Limited, NEW gone \in Trim(t)
  PROVE  gone \subseteq Of(t) /\ Cardinality(Of(t) \ gone) <= limit[t]
<1>1. limit[t] \in Nat
  BY SmsAssumption
<1>2. CASE Cardinality(Of(t)) <= limit[t]
  <2>1. gone = {}
    BY <1>2 DEF Trim
  <2>2. Of(t) \ gone = Of(t)
    BY <2>1
  <2> QED  BY <2>1, <2>2, <1>2
<1>3. CASE ~(Cardinality(Of(t)) <= limit[t])
  BY <1>1, <1>3 DEF Trim
<1> QED  BY <1>2, <1>3

\* A statement that only deletes rows keeps the types and the limits.
LEMMA DeleteKeeps ==
  ASSUME IInv, db' \subseteq db, seq' = seq
  PROVE  /\ db' \subseteq Row /\ \A r, s \in db' : r.index = s.index => r = s
         /\ IsFiniteSet(db')
         /\ \A r \in db' : r.index <= seq'
         /\ \A t : Cardinality(Of(t)') \in Nat /\ Cardinality(Of(t)') <= Cardinality(Of(t))
<1>1. IsFiniteSet(db')
  BY SubsetCard DEF IInv
<1>2. ASSUME NEW t
      PROVE  Cardinality(Of(t)') \in Nat /\ Cardinality(Of(t)') <= Cardinality(Of(t))
  <2>1. Of(t)' \subseteq Of(t)
    BY DEF Of
  <2> QED  BY <2>1, OfFinite, SubsetCard DEF IInv
<1> QED  BY <1>1, <1>2 DEF IInv, TypeOK

\* Limits that held go on to hold when rows are only deleted.
LEMMA LimitsShrink ==
  ASSUME IInv, db' \subseteq db, seq' = seq,
         Applied' \ unlimited' \subseteq Applied \ unlimited
  PROVE  LimitsApplied'
<1> SUFFICES ASSUME NEW t \in Applied' \ unlimited'
             PROVE  Cardinality(Of(t)') <= limit[t]
  BY DEF LimitsApplied
<1>1. t \in Limited
  BY DEF Applied
<1>2. limit[t] \in Nat
  BY <1>1, SmsAssumption
<1>3. Cardinality(Of(t)) \in Nat /\ Cardinality(Of(t)) <= limit[t]
  BY OfFinite DEF IInv, LimitsApplied
<1> QED  BY <1>2, <1>3, DeleteKeeps

-----------------------------------------------------------------------------
\* One lemma per operation.

\* load_sms_config opens the store with every limit still to apply.
LEMMA LoadOK == IInv /\ load_sms_config => IInv'
<1> SUFFICES ASSUME IInv, load_sms_config  PROVE IInv'
  OBVIOUS
<1> USE DEF load_sms_config
<1>1. Applied' = {}
  BY DEF Applied
<1>2. TypeOK'
  BY DEF IInv, TypeOK, Type
<1> QED  BY <1>1, <1>2 DEF IInv, LimitsApplied, BoxesFresh

\* free_sms_data and _get_sms_config leave the rows alone and copy them.
LEMMA RefreshOK == IInv /\ refresh => IInv'
<1> SUFFICES ASSUME IInv, refresh  PROVE IInv'
  OBVIOUS
<1> USE DEF refresh
<1>1. Boxes \in [BoxType -> SUBSET Row] /\ Empty \in [BoxType -> SUBSET Row]
  BY DEF IInv, TypeOK, Boxes, Of, Empty
<1>2. TypeOK'
  BY <1>1 DEF IInv, TypeOK
<1>3. LimitsApplied'
  BY LimitsShrink DEF Applied
<1>4. BoxesFresh'
  BY DEF BoxesFresh, Boxes, Of
<1> QED  BY <1>2, <1>3, <1>4 DEF IInv

\* With the process only the memory goes.
LEMMA GoneOK == IInv /\ ProcessGone => IInv'
<1> SUFFICES ASSUME IInv, ProcessGone  PROVE IInv'
  OBVIOUS
<1> USE DEF ProcessGone
<1>1. Empty \in [BoxType -> SUBSET Row]
  BY DEF Empty
<1>2. TypeOK'
  BY <1>1 DEF IInv, TypeOK
<1>3. LimitsApplied'
  BY DEF Applied, LimitsApplied
<1> QED  BY <1>2, <1>3 DEF IInv, BoxesFresh

\* Deleting by index or by type: rows go, and the boxes are read again.
LEMMA DeleteOK ==
  ASSUME IInv, at = "idle", db' \subseteq db, at' = "refresh",
         UNCHANGED <<seq, box, todo, stale, unlimited>>
  PROVE  IInv'
<1>1. TypeOK'
  BY DeleteKeeps DEF IInv, TypeOK
<1>2. LimitsApplied'
  BY LimitsShrink DEF Applied
<1> QED  BY <1>1, <1>2, DeleteKeeps DEF IInv, BoxesFresh

\* An insert gets an index no row has or had; its type is still to be limited.
LEMMA AddOK ==
  ASSUME IInv, NEW t \in Type, NEW time \in Time, add_sms_config(t, time)
  PROVE  IInv'
<1> USE DEF add_sms_config
<1>1. CASE Fails
  <2>1. TypeOK'
    BY <1>1 DEF IInv, TypeOK, Fails
  <2>2. LimitsApplied'
    BY <1>1, LimitsShrink DEF Applied, Fails
  <2> QED  BY <1>1, <2>1, <2>2 DEF IInv, Fails, BoxesFresh
<1>2. CASE Insert(t, time)
  <2> DEFINE new == [index |-> seq + 1, type |-> t, time |-> time]
  <2>0. MaxIndex \in Nat /\ seq \in Nat /\ seq < MaxIndex
    BY <1>2, SmsAssumption DEF IInv, TypeOK, Insert
  <2>1. new \in Row /\ db' = db \union {new} /\ seq' = seq + 1
    BY <1>2, <2>0 DEF Insert, Row, Index
  <2>2. \A r \in db : r.index \in Nat /\ r.index <= seq
    BY DEF IInv, TypeOK, Row, Index
  <2>3. new.index = seq + 1 /\ new.type = t
    OBVIOUS
  <2> HIDE DEF new
  <2>4. \A r, s \in db' : r.index = s.index => r = s
    BY <2>0, <2>1, <2>2, <2>3 DEF IInv, TypeOK
  <2>5. TypeOK'
    BY <2>0, <2>1, <2>4 DEF IInv, TypeOK
  <2>6. IsFiniteSet(db')
    BY <2>1, FS_AddElement DEF IInv
  <2>7. \A r \in db' : r.index <= seq'
    BY <2>0, <2>1, <2>2, <2>3
  <2>8. LimitsApplied'
    <3> SUFFICES ASSUME NEW u \in Applied' \ unlimited'
                 PROVE  Cardinality(Of(u)') <= limit[u]
      BY DEF LimitsApplied
    <3>1. u # t /\ u \in Applied \ unlimited
      BY DEF Applied
    <3>2. Of(u)' = Of(u)
      BY <2>1, <2>3, <3>1 DEF Of
    <3> QED  BY <3>1, <3>2 DEF IInv, LimitsApplied
  <2> QED  BY <2>5, <2>6, <2>7, <2>8 DEF IInv, BoxesFresh
<1> QED  BY <1>1, <1>2

\* An update keeps the index; only the type it moves the message to can get over
\* its limit.
LEMMA UpdateOK ==
  ASSUME IInv, NEW i \in Index, NEW t \in Type, NEW time \in Time, update_sms(i, t, time)
  PROVE  IInv'
<1> USE DEF update_sms
<1> PICK r \in db :
      /\ r.index = i
      /\ \/ /\ db' = (db \ {r}) \union {[index |-> i, type |-> t, time |-> time]}
            /\ unlimited' = IF t = r.type THEN unlimited ELSE unlimited \union {t}
            /\ UNCHANGED seq
         \/ Fails /\ UNCHANGED unlimited
  OBVIOUS
<1>1. CASE Fails /\ UNCHANGED unlimited
  BY <1>1, DeleteOK DEF Fails
<1>2. CASE /\ db' = (db \ {r}) \union {[index |-> i, type |-> t, time |-> time]}
           /\ unlimited' = IF t = r.type THEN unlimited ELSE unlimited \union {t}
           /\ UNCHANGED seq
  <2> DEFINE new == [index |-> i, type |-> t, time |-> time]
  <2>1. new \in Row /\ new.index = r.index /\ new.type = t
    BY DEF Row
  <2>2. db' = (db \ {r}) \union {new}
    BY <1>2
  <2> HIDE DEF new
  <2>3. \A p, q \in db' : p.index = q.index => p = q
    BY <2>1, <2>2 DEF IInv, TypeOK
  <2>4. unlimited' \subseteq Type
    BY <1>2 DEF IInv, TypeOK
  <2>5. TypeOK'
    BY <1>2, <2>1, <2>2, <2>3, <2>4 DEF IInv, TypeOK
  <2>6. IsFiniteSet(db')
    BY <2>2, FS_AddElement, FS_RemoveElement DEF IInv
  <2>7. \A p \in db' : p.index <= seq'
    BY <1>2, <2>1, <2>2 DEF IInv
  <2>8. LimitsApplied'
    <3> SUFFICES ASSUME NEW u \in Applied' \ unlimited'
                 PROVE  Cardinality(Of(u)') <= limit[u]
      BY DEF LimitsApplied
    <3>1. u \in Applied \ unlimited
      BY <1>2 DEF Applied
    <3>2. Cardinality(Of(u)) <= limit[u] /\ limit[u] \in Nat
      BY <3>1, SmsAssumption DEF IInv, LimitsApplied, Applied
    <3>3. CASE u = t
      <4>1. r.type = t
        BY <1>2, <3>3
      <4>2. Of(t)' = (Of(t) \ {r}) \union {new} /\ r \in Of(t)
        BY <2>1, <2>2, <4>1 DEF Of
      <4>3. IsFiniteSet(Of(t)) /\ Cardinality(Of(t)) \in Nat
        BY OfFinite DEF IInv
      <4>4. IsFiniteSet(Of(t) \ {r}) /\ Cardinality(Of(t) \ {r}) = Cardinality(Of(t)) - 1
        BY <4>2, <4>3, FS_RemoveElement
      <4>5. \/ Cardinality(Of(t)') = Cardinality(Of(t) \ {r})
            \/ Cardinality(Of(t)') = Cardinality(Of(t) \ {r}) + 1
        BY <4>2, <4>4, FS_AddElement
      <4> QED  BY <3>2, <3>3, <4>3, <4>4, <4>5
    <3>4. CASE u # t
      <4>1. Of(u)' \subseteq Of(u)
        BY <2>1, <2>2, <3>4 DEF Of
      <4>2. Cardinality(Of(u)') \in Nat /\ Cardinality(Of(u)) \in Nat
            /\ Cardinality(Of(u)') <= Cardinality(Of(u))
        BY <4>1, OfFinite, SubsetCard DEF IInv
      <4> QED  BY <3>2, <4>2
    <3> QED  BY <3>3, <3>4
  <2> QED  BY <2>5, <2>6, <2>7, <2>8, <1>2 DEF IInv, BoxesFresh
<1> QED  BY <1>1, <1>2

\* delete_sms_config_by_limit brings its type to the limit, or is remembered.
LEMMA LimitOK ==
  ASSUME IInv, NEW t \in Type, delete_sms_config_by_limit(t)
  PROVE  IInv'
<1> USE DEF delete_sms_config_by_limit
<1>1. db' \subseteq db /\ seq' = seq
  BY DEF Fails
<1>2. todo' \subseteq Type /\ unlimited' \subseteq Type
  BY DEF IInv, TypeOK
<1>3. TypeOK'
  BY <1>1, <1>2, DeleteKeeps DEF IInv, TypeOK
<1>4. LimitsApplied'
  <2> SUFFICES ASSUME NEW u \in Applied' \ unlimited'
               PROVE  Cardinality(Of(u)') <= limit[u]
    BY DEF LimitsApplied
  <2>1. u \in Limited /\ limit[u] \in Nat
    BY SmsAssumption DEF Applied
  <2>2. CASE u = t
    <3>1. PICK gone \in Trim(t) : db' = db \ gone
      BY <2>2
    <3>2. gone \subseteq Of(t) /\ Cardinality(Of(t) \ gone) <= limit[t]
      BY <2>1, <2>2, TrimKeepsLimit DEF IInv
    <3>3. Of(t)' = Of(t) \ gone
      BY <3>1, <3>2 DEF Of
    <3> QED  BY <2>2, <3>2, <3>3
  <2>3. CASE u # t
    <3>1. u \in Applied \ unlimited
      BY <2>1, <2>3 DEF Applied
    <3>2. Cardinality(Of(u)) <= limit[u] /\ Cardinality(Of(u)) \in Nat
      BY <3>1, OfFinite DEF IInv, LimitsApplied
    <3> QED  BY <1>1, <2>1, <3>2, DeleteKeeps
  <2> QED  BY <2>2, <2>3
<1>5. at' # "limit" => todo' = {}
  OBVIOUS
<1>6. BoxesFresh'
  BY DEF BoxesFresh
<1> QED  BY <1>1, <1>3, <1>4, <1>5, <1>6, DeleteKeeps DEF IInv

-----------------------------------------------------------------------------
\* The theorems.

\* The store starts empty and down.
LEMMA InitOK == Init => IInv
<1> SUFFICES ASSUME Init  PROVE IInv
  OBVIOUS
<1>1. TypeOK
  <2>1. box \in [BoxType -> SUBSET Row]
    BY DEF Init, Empty
  <2>2. seq \in 0..MaxIndex
    BY SmsAssumption DEF Init
  <2> QED  BY <2>1, <2>2 DEF Init, TypeOK
<1>2. LimitsApplied
  BY DEF Init, LimitsApplied, Applied
<1> QED  BY <1>1, <1>2, FS_EmptySet DEF Init, IInv, BoxesFresh

\* Every operation, every failure of a statement and every death of the process
\* keeps the invariant.
LEMMA NextOK == IInv /\ [Next]_vars => IInv'
<1> SUFFICES ASSUME IInv, [Next]_vars  PROVE IInv'
  OBVIOUS
<1>1. CASE UNCHANGED vars
  <2>1. LimitsApplied'
    BY <1>1 DEF vars, IInv, LimitsApplied, Applied, Of
  <2>2. BoxesFresh'
    BY <1>1 DEF vars, IInv, BoxesFresh, Boxes, Of
  <2> QED  BY <1>1, <2>1, <2>2 DEF vars, IInv, TypeOK
<1>2. CASE unload_sms_config \/ Crash
  BY <1>2, GoneOK DEF unload_sms_config, Crash
<1>3. ASSUME NEW t \in Type, empty_sms_config_by_type(t)  PROVE IInv'
  BY <1>3, DeleteOK DEF empty_sms_config_by_type
<1>4. ASSUME NEW i \in Index, delete_sms_config_by_index(i)  PROVE IInv'
  BY <1>4, DeleteOK DEF delete_sms_config_by_index
<1> QED
  BY <1>1, <1>2, <1>3, <1>4, LoadOK, RefreshOK, AddOK, UpdateOK, LimitOK DEF Next

\* Between two operations no type has more messages than its limit, unless an
\* update moved a message to it or its last delete_sms_config_by_limit failed,
\* wherever the process died before (sms.c:361-395, sms.h:4-8).  With it, the
\* types of the state and that an index names one row.
THEOREM LimitIsKept == Spec => []LimitKept
<1>1. IInv => LimitKept
  BY DEF IInv, LimitsApplied, Applied, LimitKept
<1> QED  BY InitOK, NextOK, <1>1, PTL DEF Spec

\* No operation returns with boxes that differ from the table, unless the select
\* that fills them failed (sms.c:394-395, 424-425, 454-455).
THEOREM BoxesAreFresh == Spec => []BoxesFresh
<1>1. IInv => BoxesFresh
  BY DEF IInv
<1> QED  BY InitOK, NextOK, <1>1, PTL DEF Spec

\* A deleted message does not come back under its index (sms.c:179, 361-393).
THEOREM TheDeadStayDead == Spec => DeadStaysDead
<1> DEFINE Stay == \A i \in Index :
             (i <= seq /\ \A r \in db : r.index # i) => \A r \in db' : r.index # i
<1>1. IInv /\ [Next]_vars => [Stay]_vars
  <2> SUFFICES ASSUME IInv, Next, NEW i \in Index,
                      i <= seq, \A r \in db : r.index # i,
                      NEW r \in db'
               PROVE  r.index # i
    OBVIOUS
  <2>0. i \in Nat /\ seq \in Nat
    BY SmsAssumption DEF Index, IInv, TypeOK
  <2>1. CASE r \in db
    BY <2>1
  <2>2. CASE r \notin db
    <3>1. PICK t \in Type, time \in Time :
            add_sms_config(t, time) \/ \E j \in Index : update_sms(j, t, time)
      BY <2>2 DEF Next, load_sms_config, refresh, unload_sms_config, Crash, ProcessGone,
           delete_sms_config_by_limit, empty_sms_config_by_type, delete_sms_config_by_index, Fails
    <3>2. CASE add_sms_config(t, time)
      <4>1. r.index = seq + 1
        BY <2>2, <3>2 DEF add_sms_config, Insert, Fails
      <4> QED  BY <2>0, <4>1
    <3>3. ASSUME NEW j \in Index, update_sms(j, t, time)  PROVE r.index # i
      BY <2>2, <3>3 DEF update_sms, Fails
    <3> QED  BY <3>1, <3>2, <3>3
  <2> QED  BY <2>1, <2>2
<1> QED  BY InitOK, NextOK, <1>1, PTL DEF Spec, DeadStaysDead

\* The limits delete oldest first: a message goes only when as many of its type as
\* the limit, none older, stay (sms.c, delete_sms_config_by_limit).
THEOREM TheOldestGoFirst == Spec => OldestFirst
<1> DEFINE Newer(r) == {s \in db' : s.type = r.type /\ s.time >= r.time}
           Oldest == at = "limit" =>
             \A r \in db \ db' : Cardinality(Newer(r)) >= limit[r.type]
<1>1. IInv /\ IInv' /\ [Next]_vars => [Oldest]_vars
  <2> SUFFICES ASSUME IInv, IInv', Next, at = "limit", NEW r \in db, r \notin db'
               PROVE  Cardinality(Newer(r)) >= limit[r.type]
    OBVIOUS
  <2>1. PICK t \in Type : delete_sms_config_by_limit(t)
    BY DEF Next, load_sms_config, refresh, unload_sms_config, Crash, ProcessGone,
         add_sms_config, update_sms, empty_sms_config_by_type, delete_sms_config_by_index
  <2>2. PICK gone \in Trim(t) : db' = db \ gone
    BY <2>1 DEF delete_sms_config_by_limit, Fails
  <2>3. t \in Limited /\ ~(Cardinality(Of(t)) <= limit[t])
    BY <2>2 DEF Trim
  <2>4. /\ gone \subseteq Of(t) /\ Cardinality(Of(t) \ gone) = limit[t]
        /\ \A p \in gone, s \in Of(t) \ gone : p.time <= s.time
    BY <2>2, <2>3 DEF Trim
  <2>5. r \in gone /\ r.type = t
    BY <2>2, <2>4 DEF Of
  <2>6. \A s \in db : s.time \in Nat
    BY SmsAssumption DEF IInv, TypeOK, Row
  <2>7. Of(t) \ gone \subseteq Newer(r)
    BY <2>2, <2>4, <2>5, <2>6 DEF Of
  <2>8. IsFiniteSet(Newer(r))
    BY SubsetCard DEF IInv
  <2>9. Cardinality(Of(t) \ gone) <= Cardinality(Newer(r)) /\ Cardinality(Newer(r)) \in Nat
    BY <2>7, <2>8, SubsetCard
  <2>10. limit[t] \in Nat
    BY <2>3, SmsAssumption
  <2> HIDE DEF Newer
  <2> QED  BY <2>4, <2>5, <2>9, <2>10
<1> QED  BY InitOK, NextOK, <1>1, PTL DEF Spec, OldestFirst
=============================================================================
