----------------------------- MODULE Coroutines -----------------------------
(***************************************************************************)
(* What libtealet promises its callers, with no stack in sight: tealets    *)
(* are coroutines, each with frames of its own.  One of them runs; a       *)
(* suspended one resumes exactly where it was left, or was lost because a  *)
(* forced transfer found no memory, and then says so.  Main is never lost. *)
(* StackSlicing implements this with one C stack and partial saving.       *)
(***************************************************************************)
CONSTANTS
  Tealets,     \* tealet handles
  Main,        \* the main tealet
  Forcing,     \* whether callers pass TEALET_XFER_FORCE
  Duplicating  \* whether callers use tealet_duplicate()

VARIABLE phase  \* what each tealet is doing

Phases == {"free", "new", "running", "suspended", "lost", "exited"}

Init == phase = [t \in Tealets |-> IF t = Main THEN "running" ELSE "free"]

(* The suspended tealets a forced transfer may sacrifice. *)
Victims == IF Forcing THEN {t \in Tealets \ {Main} : phase[t] = "suspended"} ELSE {}

(* phase after the tealets of lost were sacrificed. *)
Losing(lost) == [t \in Tealets |-> IF t \in lost THEN "lost" ELSE phase[t]]

New(t) ==
  /\ phase[t] = "free"
  /\ phase' = [phase EXCEPT ![t] = "new"]

(* tealet_run() and tealet_fork(): the new tealet, or its creator, runs on. *)
Start(c, t) ==
  /\ phase[c] = "running"
  /\ phase[t] = "new"
  /\ \/ phase' = [phase EXCEPT ![t] = "suspended"]
     \/ phase' = [phase EXCEPT ![c] = "suspended", ![t] = "running"]

(* tealet_switch(): c is suspended, or lost if the transfer was forced. *)
Switch(c, t) ==
  /\ phase[c] = "running"
  /\ phase[t] = "suspended"
  /\ \E lost \in SUBSET (Victims \ {t}), end \in {"suspended", "lost"} :
       /\ end = "lost" => Forcing /\ c # Main
       /\ phase' = [Losing(lost) EXCEPT ![c] = end, ![t] = "running"]

(* tealet_exit() *)
Exit(c, t) ==
  /\ phase[c] = "running"
  /\ c # Main
  /\ phase[t] = "suspended"
  /\ \E lost \in SUBSET (Victims \ {t}), end \in {"exited", "free"} :
       phase' = [Losing(lost) EXCEPT ![c] = end, ![t] = "running"]

(* A forced transfer that fails may have sacrificed others already. *)
Sacrifice ==
  \E lost \in SUBSET Victims : phase' = Losing(lost)

Duplicate(t, copy) ==
  /\ Duplicating
  /\ t # Main
  /\ phase[t] \notin {"free", "running"}
  /\ phase[copy] = "free"
  /\ phase' = [phase EXCEPT ![copy] = phase[t]]

Delete(t) ==
  /\ t # Main
  /\ phase[t] # "running"
  /\ phase' = [phase EXCEPT ![t] = "free"]

Next ==
  \/ \E t \in Tealets : New(t) \/ Delete(t)
  \/ \E c, t \in Tealets : Start(c, t) \/ Switch(c, t) \/ Exit(c, t) \/ Duplicate(c, t)
  \/ Sacrifice

Spec == Init /\ [][Next]_phase
=============================================================================
