------------------------ MODULE TransferImplements ------------------------
(***************************************************************************)
(* Transfer implements Coroutines, as StackSlicing does: the calls a       *)
(* tealet can be suspended in, deferred exits and retries are invisible.   *)
(***************************************************************************)
EXTENDS Transfer

(* "astray" and "stuck" are not phases of a coroutine: a tealet that runs  *)
(* unknown to the library, and one that reports TEALET_STATUS_ACTIVE but   *)
(* has nothing to resume.                                                  *)
Phase ==
  [t \in Tealets |->
     IF t \notin allocated THEN "free"
     ELSE IF t = running THEN IF t = g_current THEN "running" ELSE "astray"
     ELSE IF Status(t) = "NEW" THEN "new"
     ELSE IF Status(t) = "EXITED" THEN "exited"
     ELSE IF Status(t) = "DEFUNCT" THEN "lost"
     ELSE IF frame[t] \in Frames THEN "suspended" ELSE "stuck"]

C == INSTANCE Coroutines WITH phase <- Phase

(* As long as PANIC reaches only calls of tealet_switch(), the API is a    *)
(* set of coroutines: one runs, a transfer resumes a suspended one, and    *)
(* only forced transfers lose any, never main.                             *)
ImplementsCoroutines == C!Spec

=============================================================================
