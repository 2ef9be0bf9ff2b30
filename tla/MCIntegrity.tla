---------------------------- MODULE MCIntegrity ----------------------------
(* A small instance of Integrity for TLC: a stack of three pages of three  *)
(* addresses, and requests that differ in back ends, policy, window, limit *)
(* and the size of the structure they are passed in.                       *)
EXTENDS Integrity

Request(flags, bytes, policy, limit, size) ==
  [config |-> [flags |-> flags, bytes |-> bytes, mode |-> "OTHER", policy |-> policy,
               limit |-> limit, max |-> 3],
   size |-> size]

SomeRequests ==
  { Request(Flags, 4, "ERROR", NULL, 5),
    Request({"INTEGRITY", "SNAPSHOT", "OTHER"}, 3, "ABORT", NULL, 2),
    Request({"GUARD"}, 3, "OTHER", 4, 6) }
=============================================================================
