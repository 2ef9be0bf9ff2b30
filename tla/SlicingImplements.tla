------------------------- MODULE SlicingImplements -------------------------
(***************************************************************************)
(* StackSlicing implements Coroutines.  The mapping reads the phase of a   *)
(* tealet off the engine's state; "torn" and "corrupt", for a tealet that  *)
(* runs or would resume on frames that are not its own, are not phases of  *)
(* a coroutine.                                                            *)
(***************************************************************************)
EXTENDS StackSlicing

Phase ==
  [t \in Tealets |->
     IF state[t] = "bound" THEN
       IF t = g_current THEN IF t \in torn THEN "torn" ELSE "running"
       ELSE IF IsDefunct(t) THEN "lost"
       ELSE IF stack[t] # NoStack /\ Intact(stacks[stack[t]]) THEN "suspended"
       ELSE "corrupt"
     ELSE IF state[t] = "defunct" THEN "lost"
     ELSE state[t]]

C == INSTANCE Coroutines WITH phase <- Phase

(* Partial saving, growing, sharing and reference counting of stacks are   *)
(* invisible: to its callers the engine is a set of coroutines with        *)
(* private frames, of which a forced transfer may lose some, never main.   *)
ImplementsCoroutines == C!Spec

=============================================================================
