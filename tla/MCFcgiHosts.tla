---------------------------- MODULE MCFcgiHosts ----------------------------
(* The configurations that are checked: two hosts with a process each, one *)
(* host with two processes, one host with one.                             *)
EXTENDS FcgiHosts

CONSTANTS a, b     \* two requests

Conf(on, local, broken, faults, requests, clients) ==
  [hosts |-> on, Local |-> local, Broken |-> broken, Faults |-> faults,
   requests |-> requests, clients |-> clients]

OneEach == <<<<1>>, <<3>>>>
TwoLocal == <<<<1, 2>>>>
OneLocal == <<<<1>>>>

AllConfs == {Conf(OneEach, {}, {}, {}, {a, b}, "any"),
             Conf(OneEach, {1}, {}, {"ENOTCONN"}, {a}, "any"),
             Conf(TwoLocal, {1, 2}, {}, {}, {a, b}, "any"),
             Conf(OneEach, {1}, {}, {"socket", "fork"}, {a}, "patient"),
             Conf(OneLocal, {1}, {}, {"fork"}, {a, b}, "leave")}

DroppedConfs == {Conf(TwoLocal, {1, 2}, {}, {"ENOTCONN"}, {a, b}, "any")}
BrokenConfs == {Conf(TwoLocal, {1, 2}, {1}, {}, {a, b}, "leave")}
RetryConfs == {Conf(OneEach, {1}, {}, {"ENOTCONN"}, {a}, "patient")}
=============================================================================
