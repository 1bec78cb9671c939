----------------------------- MODULE MCSmsStore -----------------------------
(* Limits for model checking: one type with two messages, two with one.    *)
EXTENDS SmsStore

MClimit == [t \in Limited |-> IF t = "in" THEN 2 ELSE 1]
=============================================================================
