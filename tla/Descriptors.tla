---------------------------- MODULE Descriptors ----------------------------
(***************************************************************************)
(* What the worker promises about file descriptors, and nothing else: a    *)
(* connection has the socket of its client, and while it has one it may    *)
(* have one to a backend.  A descriptor is taken when nobody has it,       *)
(* belongs to one owner until that one gives it back, is watched only      *)
(* while somebody has it, and is counted.                                  *)
(***************************************************************************)
EXTENDS Integers, FiniteSets

CONSTANTS Connection, Descriptor, nofd

VARIABLES
  client,    \* the socket of each connection
  backend,   \* the socket to its backend
  watched,   \* the descriptors whose events are reported
  count      \* how many are in use

dvars == <<client, backend, watched, count>>

Used == {fd \in Descriptor : \E c \in Connection : client[c] = fd \/ backend[c] = fd}

Init ==
  /\ client = [c \in Connection |-> nofd] /\ backend = [c \in Connection |-> nofd]
  /\ watched = {} /\ count = 0

\* Every change leaves the count right and the watched descriptors in use.
Kept == watched' \subseteq Used' /\ count' = Cardinality(Used')

Accept(c) ==
  /\ client[c] = nofd
  /\ \E fd \in Descriptor \ Used : client' = [client EXCEPT ![c] = fd]
  /\ UNCHANGED backend

Connect(c) ==
  /\ client[c] # nofd /\ backend[c] = nofd
  /\ \E fd \in Descriptor \ Used : backend' = [backend EXCEPT ![c] = fd]
  /\ UNCHANGED client

Disconnect(c) ==
  /\ backend[c] # nofd
  /\ backend' = [backend EXCEPT ![c] = nofd]
  /\ UNCHANGED client

\* A connection that ends takes its backend with it.
HangUp(c) ==
  /\ client[c] # nofd
  /\ client' = [client EXCEPT ![c] = nofd] /\ backend' = [backend EXCEPT ![c] = nofd]

Watch == watched' # watched /\ UNCHANGED <<client, backend>>

Next ==
  /\ Watch \/ \E c \in Connection : Accept(c) \/ Connect(c) \/ Disconnect(c) \/ HangUp(c)
  /\ Kept

Spec == Init /\ [][Next]_dvars
=============================================================================
