----------------------------- MODULE Transfer -----------------------------
(***************************************************************************)
(* The control protocol of libtealet's API (src/src/tealet.c): which       *)
(* tealet runs, which call each suspended tealet is in the middle of, what *)
(* that call does when it is resumed, and what every call returns.         *)
(*                                                                         *)
(* The C stack is not here (StackSlicing has it).  A suspended tealet is   *)
(* the API call it was suspended in, with the local variables the call     *)
(* uses after it is resumed.  What matters is that a transfer leaves one   *)
(* call and continues in another: the code after stackman_switch() runs    *)
(* with the locals of a call made long ago by another tealet.              *)
(*                                                                         *)
(* Handles are memory: a handle that was freed may be allocated again,     *)
(* and locals that point to it then point to the new tealet.               *)
(***************************************************************************)
CONSTANTS
  Tealets,      \* tealet handles
  Main,         \* the main tealet
  None,         \* the NULL handle
  Args,         \* arguments of a deferred exit, none of them NULL
  NoArg,        \* the NULL argument
  Forcing,      \* whether callers pass TEALET_XFER_FORCE and _NOFAIL
  Duplicating,  \* whether callers use tealet_duplicate()
  Deferrals,    \* the flags callers pass with TEALET_EXIT_DEFER
  PanicReaches, \* the calls in which a PANIC transfer may find its target
  MemoryFails,  \* whether the stacks of a transfer may fail to be saved
  CallerErrors  \* the errors with which a caller's own stack may be rejected

(* The call a suspended tealet is in: tealet_switch(), or                  *)
(*   "run"     tealet_run(child, TEALET_START_SWITCH), as the creator,     *)
(*   "start"   tealet_run(child, TEALET_START_DEFAULT), as the child,      *)
(*   "fork"    tealet_fork(child, TEALET_START_SWITCH), as the parent,     *)
(*   "forked"  tealet_fork(child, TEALET_START_DEFAULT), as the child.     *)
Calls == {"switch", "run", "start", "fork", "forked"}

ExitFlags == {"FORCE", "PANIC", "NOFAIL", "DELETE"}
XferFlags == ExitFlags \ {"DELETE"}

(* TEALET_EXIT_DEFER with TEALET_XFER_PANIC is an assertion failure. *)
ASSUME OptionsAssumption ==
  /\ Forcing \in BOOLEAN
  /\ Duplicating \in BOOLEAN
  /\ MemoryFails \in BOOLEAN
  /\ PanicReaches \subseteq Calls
  /\ CallerErrors \subseteq {"INVAL", "INTEGRITY"}
  /\ Deferrals \subseteq SUBSET (ExitFlags \ {"PANIC"})
ASSUME HandlesAssumption == Main \in Tealets /\ None \notin Tealets
ASSUME ArgsAssumption == NoArg \notin Args

VARIABLES
  g_current,   \* the tealet the library takes to be running
  g_previous,  \* the tealet that was left last, or None
  g_flags,     \* the pending deferred exit, or NoExit
  g_arg,       \* its argument
  allocated,   \* the handles in use
  flags,       \* TEALET_TFLAGS_* of each tealet
  frame,       \* the call each tealet is suspended in
  result,      \* what the last call returned to the tealet that runs
  running      \* history: the tealet whose frames run

vars == <<g_current, g_previous, g_flags, g_arg, allocated, flags, frame,
          result, running>>

---------------------------------------------------------------------------
(* The flags that outlive a transfer: EXITING, AUTODELETE and SAVEFORCE    *)
(* are consumed by it, FORK is only reported.                              *)
Flags == {"BOUND", "EXITED", "DEFUNCT", "MAIN_LINEAGE"}

(* "ABORT" is the end of the process, not the result of a call. *)
Results == {"ok", "MEM", "DEFUNCT", "INVAL", "INTEGRITY", "PANIC", "ABORT"}

(* What the two checks of the caller in tealet_switchstack() find:         *)
(* "INVAL" when its stack pointer is not where g_current's may be,         *)
(* "INTEGRITY" when the bytes beyond its boundary are not those copied.    *)
Callers == {"none"} \cup CallerErrors

(* child and creator are the locals g_child (or result) and g_current (or  *)
(* current) of tealet_run() and tealet_fork(), where they are used after   *)
(* the call is resumed.                                                    *)
Frames ==
  [call : {"switch"}, child : {None}, creator : {None}]
    \cup [call : {"run", "fork"}, child : Tealets, creator : {None}]
    \cup [call : {"start", "forked"}, child : Tealets, creator : Tealets]

(* A call of tealet_switch(), which uses no such locals; no saved stack;   *)
(* and a saved stack that was given up.                                    *)
InSwitch == [call |-> "switch", child |-> None, creator |-> None]
NoFrame == [call |-> "none", child |-> None, creator |-> None]
Lost == [call |-> "lost", child |-> None, creator |-> None]

(* g_flags while an exit is pending, and while none is. *)
NoExit == {}
Exits == {opts \cup {"DEFER"} : opts \in Deferrals}

IsNew(t) == t \in allocated /\ flags[t] = {}

(* Mutant: only tealets that could not save their own stack are defunct. *)
IsDefunctAlone(t) == "DEFUNCT" \in flags[t]

IsDefunct(t) == "DEFUNCT" \in flags[t] \/ frame[t] = Lost

(* tealet_status() *)
Status(t) ==
  IF "BOUND" \notin flags[t] THEN "NEW"
  ELSE IF "EXITED" \in flags[t] THEN "EXITED"
  ELSE IF IsDefunct(t) THEN "DEFUNCT"
  ELSE "ACTIVE"

---------------------------------------------------------------------------
(* One attempt to transfer to t: tealet_xfer_inner(), tealet_switchstack() *)

(* The checks of the target, made before those of the caller. *)
Refusal(t, exiting) ==
  IF "BOUND" \notin flags[t] \/ (exiting /\ t = g_current) THEN "INVAL"
  ELSE IF t = g_current THEN "self"
  ELSE IF "EXITED" \in flags[t] THEN "INVAL"
  ELSE IF IsDefunct(t) THEN "DEFUNCT"
  ELSE "none"

(* Mutant: the mark replaces the other flags. *)
MarkedOver(t) == IF IsDefunct(t) THEN [flags EXCEPT ![t] = {"DEFUNCT"}] ELSE flags

(* tealet_is_defunct() leaves a mark when it finds a lost stack. *)
Marked(t) == IF IsDefunct(t) THEN [flags EXCEPT ![t] = @ \cup {"DEFUNCT"}] ELSE flags

(* A save by main, or one that is not forced, may report that memory ran   *)
(* out.  Any other reports it only when main's stack would have to be      *)
(* given up, which a transfer to main itself never asks for.               *)
MayRunOut(t, opts) ==
  MemoryFails /\ ("FORCE" \notin opts \/ g_current = Main \/ t # Main)

(* A save that may not report it gives stacks up instead. *)
GivesUp(opts) == MemoryFails /\ "FORCE" \in opts /\ g_current # Main

(* Mutant: main's stack may be given up, too. *)
SacrificesMain(t, opts) ==
  IF GivesUp(opts) THEN SUBSET {v \in Tealets \ {t} : frame[v] \in Frames}
  ELSE {{}}

Sacrifices(t, opts) ==
  IF GivesUp(opts) THEN SUBSET {v \in Tealets \ {Main, t} : frame[v] \in Frames}
  ELSE {{}}

Without(lost) == [v \in Tealets |-> IF v \in lost THEN Lost ELSE frame[v]]

(* What may become of the outgoing tealet. *)
Freed == [frame |-> NoFrame, freed |-> TRUE, flags |-> {}]
Exited == [frame |-> NoFrame, freed |-> FALSE, flags |-> flags[g_current] \cup {"EXITED"}]
Suspended == [frame |-> InSwitch, freed |-> FALSE, flags |-> flags[g_current]]
Unsaved == [frame |-> NoFrame, freed |-> FALSE, flags |-> flags[g_current] \cup {"DEFUNCT"}]

Outgoing(opts, exiting) ==
  IF exiting THEN {IF "DELETE" \in opts THEN Freed ELSE Exited}
  ELSE {Suspended} \cup (IF GivesUp(opts) THEN {Unsaved} ELSE {})

(* tealet_run() and tealet_fork() take an error from tealet_switchstack(), *)
(* TEALET_ERR_PANIC included, for a start that failed: the child's fields  *)
(* are reset, and the DEFAULT branches put their caller back as current.   *)
Undoes(panic, f) == panic /\ f.call # "switch"
Puts(panic, f, t) ==
  IF panic /\ f.call \in {"start", "forked"} THEN f.creator ELSE t

(* Control continues in the call that t is suspended in, fl and fr being   *)
(* the flags and frames the outgoing tealet left behind.  Applications     *)
(* send PANIC only to the calls in PanicReaches.                           *)
Resumes(t, panic, fl, fr) ==
  LET f == frame[t]
      gone == {t} \cup (IF Undoes(panic, f) THEN {f.child} ELSE {})
  IN  /\ panic => f.call \in PanicReaches
      /\ running' = t
      /\ g_current' = Puts(panic, f, t)
      /\ flags' = IF Undoes(panic, f) THEN [fl EXCEPT ![f.child] = {}] ELSE fl
      /\ frame' = [v \in Tealets |-> IF v \in gone THEN NoFrame ELSE fr[v]]

(* tealet_free_tealet() clears g_previous. *)
Leaves(freed) == g_previous' = IF freed THEN None ELSE g_current

(* The attempt succeeds; fl has the mark of an earlier attempt. *)
Moves(t, opts, exiting, fl) ==
  /\ result' = IF "PANIC" \in opts THEN "PANIC" ELSE "ok"
  /\ \E out \in Outgoing(opts, exiting), lost \in Sacrifices(t, opts) :
       /\ allocated' = IF out.freed THEN allocated \ {g_current} ELSE allocated
       /\ Leaves(out.freed)
       /\ Resumes(t, "PANIC" \in opts, [fl EXCEPT ![g_current] = out.flags],
                  [Without(lost) EXCEPT ![g_current] = out.frame])

Transfers(t, opts, exiting) ==
  Refusal(t, exiting) = "none" /\ Moves(t, opts, exiting, flags)

Refused(t, exiting) ==
  /\ Refusal(t, exiting) = "INVAL"
  /\ result' = "INVAL"
  /\ UNCHANGED <<g_current, g_previous, allocated, flags, frame, running>>

SwitchesToSelf(t, opts, exiting) ==
  /\ Refusal(t, exiting) = "self"
  /\ g_previous' = g_current
  /\ result' = IF "PANIC" \in opts THEN "PANIC" ELSE "ok"
  /\ UNCHANGED <<g_current, allocated, flags, frame, running>>

FindsDefunct(t, exiting) ==
  /\ Refusal(t, exiting) = "DEFUNCT"
  /\ flags' = Marked(t)
  /\ result' = "DEFUNCT"
  /\ UNCHANGED <<g_current, g_previous, allocated, frame, running>>

(* Mutant: what was left before is forgotten, as if it had been left now. *)
RunsOutForgets(t, opts, exiting) ==
  /\ Refusal(t, exiting) = "none"
  /\ MayRunOut(t, opts)
  /\ result' = "MEM"
  /\ \E lost \in Sacrifices(t, opts) : frame' = Without(lost)
  /\ g_previous' = g_current
  /\ UNCHANGED <<g_current, allocated, flags, running>>

(* Stacks given up before memory ran out stay given up. *)
RunsOut(t, opts, exiting) ==
  /\ Refusal(t, exiting) = "none"
  /\ MayRunOut(t, opts)
  /\ result' = "MEM"
  /\ \E lost \in Sacrifices(t, opts) : frame' = Without(lost)
  /\ UNCHANGED <<g_current, g_previous, allocated, flags, running>>

(* Mutant: only memory failures are retried. *)
RetriesMemory(t, opts, exiting) ==
  Refusal(t, exiting) = "none" /\ MayRunOut(t, opts)

(* TEALET_XFER_NOFAIL: the errors after which main is tried. *)
Retries(t, opts, exiting) ==
  \/ Refusal(t, exiting) = "DEFUNCT"
  \/ Refusal(t, exiting) = "none" /\ MayRunOut(t, opts)

(* The second attempt goes to main with PANIC and FORCE; from main itself  *)
(* it is a switch to self.  What the first one gave up is among what this  *)
(* one may.                                                                *)
FallsBack(t, opts, exiting) ==
  \/ /\ g_current = Main
     /\ g_previous' = Main
     /\ flags' = Marked(t)
     /\ result' = "PANIC"
     /\ UNCHANGED <<g_current, allocated, frame, running>>
  \/ /\ g_current # Main
     /\ Moves(Main, opts \cup {"PANIC"}, exiting, Marked(t))

(* Both checks of the caller pass, or are not made.  *)
Attempts(t, opts, exiting) ==
  LET nofail == "NOFAIL" \in opts
      used == IF nofail THEN opts \cup {"FORCE"} ELSE opts
  IN  \/ Transfers(t, used, exiting)
      \/ Refused(t, exiting)
      \/ SwitchesToSelf(t, used, exiting)
      \/ /\ ~(nofail /\ Retries(t, used, exiting))
         /\ FindsDefunct(t, exiting) \/ RunsOut(t, used, exiting)
      \/ /\ nofail /\ Retries(t, used, exiting)
         /\ FallsBack(t, used, exiting)

(* The attempts that come as far as the checks of the caller: the first,   *)
(* unless it is refused, or a second one that is no switch to self.        *)
ChecksCaller(t, opts, exiting) ==
  \/ Refusal(t, exiting) = "none"
  \/ "NOFAIL" \in opts /\ Refusal(t, exiting) = "DEFUNCT" /\ g_current # Main

(* Nothing has moved yet, and NOFAIL does not retry.                       *)
Rejected(t, error) ==
  /\ flags' = Marked(t)
  /\ result' = error
  /\ UNCHANGED <<g_current, g_previous, allocated, frame, running>>

Xfer(t, opts, exiting, caller) ==
  IF caller # "none" /\ ChecksCaller(t, opts, exiting)
  THEN Rejected(t, caller)
  ELSE Attempts(t, opts, exiting)

---------------------------------------------------------------------------
(* The API.  Callers keep its rules: they pass live handles, do not delete *)
(* or duplicate the running tealet or main, do not defer an exit of main's *)
(* lineage or a second one before the first is consumed.                   *)

Init ==
  /\ g_current = Main
  /\ g_previous = None
  /\ g_flags = NoExit
  /\ g_arg = NoArg
  /\ allocated = {Main}
  /\ flags = [t \in Tealets |-> IF t = Main THEN {"BOUND", "MAIN_LINEAGE"} ELSE {}]
  /\ frame = [t \in Tealets |-> NoFrame]
  /\ result = "ok"
  /\ running = Main

(* The flags an application may pass out of those in may; NOFAIL includes  *)
(* FORCE.                                                                  *)
Chosen(may) ==
  {opts \in SUBSET may : "FORCE" \in opts \/ "NOFAIL" \in opts =>
                           Forcing /\ ~({"FORCE", "NOFAIL"} \subseteq opts)}

(* The process has not been aborted. *)
Up == result # "ABORT"

(* tealet_new() *)
New(t) ==
  /\ Up
  /\ t \notin allocated
  /\ allocated' = allocated \cup {t}
  /\ UNCHANGED <<g_current, g_previous, g_flags, g_arg, flags, frame, result, running>>

(* tealet_delete() *)
Delete(t) ==
  /\ Up
  /\ t \in allocated \ {g_current, Main}
  /\ allocated' = allocated \ {t}
  /\ flags' = [flags EXCEPT ![t] = {}]
  /\ frame' = [frame EXCEPT ![t] = NoFrame]
  /\ g_previous' = IF g_previous = t THEN None ELSE g_previous
  /\ UNCHANGED <<g_current, g_flags, g_arg, result, running>>

(* tealet_duplicate() *)
Duplicate(t, copy) ==
  /\ Up
  /\ Duplicating
  /\ t \in allocated \ {g_current, Main}
  /\ copy \notin allocated
  /\ allocated' = allocated \cup {copy}
  /\ flags' = [flags EXCEPT ![copy] = flags[t]]
  /\ frame' = [frame EXCEPT ![copy] = frame[t]]
  /\ UNCHANGED <<g_current, g_previous, g_flags, g_arg, result, running>>

(* Mutant: a DEFAULT start that fails leaves its child as current. *)
StartFailsAsChild(c, start_switch) ==
  /\ MemoryFails
  /\ result' = "MEM"
  /\ g_current' = IF start_switch THEN g_current ELSE c
  /\ UNCHANGED <<g_previous, g_flags, allocated, flags, frame, running>>

(* A check of the caller fails: the child is NEW again. *)
StartRejected(caller) ==
  /\ caller # "none"
  /\ result' = caller
  /\ UNCHANGED <<g_current, g_previous, g_flags, g_arg, allocated, flags, frame, running>>

(* The stack of a start could not be saved: the child is NEW again.        *)
StartFails(c, start_switch) ==
  /\ MemoryFails
  /\ result' = "MEM"
  /\ UNCHANGED <<g_current, g_previous, g_flags, allocated, flags, frame, running>>

(* The creator is suspended in the call outer and c runs; or c is          *)
(* suspended in the call inner and the creator goes on.                    *)
Starts(c, start_switch, outer, inner) ==
  /\ result' = "ok"
  /\ IF start_switch
     THEN /\ frame' = [frame EXCEPT ![g_current] = [call |-> outer, child |-> c, creator |-> None]]
          /\ g_previous' = g_current
          /\ g_current' = c
          /\ running' = c
     ELSE /\ frame' = [frame EXCEPT ![c] = [call |-> inner, child |-> c, creator |-> g_current]]
          /\ UNCHANGED <<g_previous, g_current, running>>
  /\ UNCHANGED <<g_flags, allocated>>

(* tealet_run() of a NEW tealet.  Like every call that passes the checks   *)
(* of tealet_switchstack(), it overwrites g_arg.                           *)
Run(c, start_switch, caller) ==
  /\ Up
  /\ IsNew(c)
  /\ c # g_current
  /\ \/ StartRejected(caller)
     \/ caller = "none" /\ g_arg' = NoArg /\ StartFails(c, start_switch)
     \/ /\ caller = "none" /\ g_arg' = NoArg
        /\ Starts(c, start_switch, "run", "start")
        /\ flags' = [flags EXCEPT ![c] = {"BOUND"}]

(* tealet_fork() into a NEW tealet; main has set its far boundary. *)
Fork(c, start_switch, caller) ==
  /\ Up
  /\ IsNew(c)
  /\ c # g_current
  /\ \/ StartRejected(caller)
     \/ caller = "none" /\ g_arg' = NoArg /\ StartFails(c, start_switch)
     \/ /\ caller = "none" /\ g_arg' = NoArg
        /\ Starts(c, start_switch, "fork", "forked")
        /\ flags' = [flags EXCEPT ![c] = {"BOUND"} \cup (flags[g_current] \cap {"MAIN_LINEAGE"})]

(* tealet_switch() *)
Switch(t, opts, caller) ==
  /\ Up
  /\ t \in allocated
  /\ Xfer(t, opts, FALSE, caller)
  /\ g_arg' = IF running' # running \/ (caller = "none" /\ Refusal(t, FALSE) = "none")
              THEN NoArg ELSE g_arg
  /\ UNCHANGED g_flags

(* Mutant: the argument of a deferred exit is not reset. *)
ConsumesFlags == g_flags' = NoExit /\ UNCHANGED g_arg

(* A deferred exit's flags and argument replace those of the exit that     *)
(* finds it pending.                                                       *)
Consumes == g_flags' = NoExit /\ g_arg' = NoArg

(* tealet_exit() *)
Exit(t, opts, caller) ==
  /\ Up
  /\ g_current # Main
  /\ t \in allocated
  /\ Xfer(t, IF g_flags = NoExit THEN opts ELSE g_flags \ {"DEFER"}, TRUE, caller)
  /\ Consumes

(* tealet_exit() with TEALET_EXIT_DEFER *)
Defer(t, opts, arg) ==
  /\ Up
  /\ "MAIN_LINEAGE" \notin flags[g_current]
  /\ t \in allocated
  /\ g_flags = NoExit
  /\ g_flags' = opts \cup {"DEFER"}
  /\ g_arg' = arg
  /\ result' = "ok"
  /\ UNCHANGED <<g_current, g_previous, allocated, flags, frame, running>>

(* What a tealet may exit to. *)
CanBeTarget(t) ==
  t \in allocated \ {g_current} /\ "BOUND" \in flags[t] /\ "EXITED" \notin flags[t]

(* run() returns t: an exit with TEALET_XFER_NOFAIL.  It has no caller to  *)
(* return an error to.                                                     *)
Return(t, caller) ==
  /\ Up
  /\ g_current # Main
  /\ "MAIN_LINEAGE" \notin flags[g_current]
  /\ CanBeTarget(t)
  /\ Xfer(t, (IF g_flags = NoExit THEN {} ELSE g_flags \ {"DEFER"}) \cup {"NOFAIL"}, TRUE,
          IF caller = "none" THEN "none" ELSE "ABORT")
  /\ Consumes

(* abort() *)
Aborted == result = "ABORT" /\ UNCHANGED vars

Next ==
  \/ \E t \in Tealets : New(t) \/ Delete(t)
  \/ \E t, copy \in Tealets : Duplicate(t, copy)
  \/ \E c \in Tealets, start_switch \in BOOLEAN, caller \in Callers :
       Run(c, start_switch, caller) \/ Fork(c, start_switch, caller)
  \/ \E t \in Tealets, opts \in Chosen(XferFlags), caller \in Callers : Switch(t, opts, caller)
  \/ \E t \in Tealets, opts \in Chosen(ExitFlags), caller \in Callers : Exit(t, opts, caller)
  \/ \E t \in Tealets, caller \in Callers : Return(t, caller)
  \/ \E t \in Tealets, opts \in Deferrals, arg \in Args : Defer(t, opts, arg)
  \/ Aborted

Spec == Init /\ [][Next]_vars
---------------------------------------------------------------------------
TypeOK ==
  /\ g_current \in Tealets
  /\ g_previous \in Tealets \cup {None}
  /\ g_flags \in Exits \cup {NoExit}
  /\ g_arg \in Args \cup {NoArg}
  /\ allocated \subseteq Tealets
  /\ flags \in [Tealets -> SUBSET Flags]
  /\ frame \in [Tealets -> Frames \cup {NoFrame, Lost}]
  /\ result \in Results
  /\ running \in Tealets
  /\ g_arg # NoArg => g_flags # NoExit

(* The library knows which tealet runs: g_current, on which every save,    *)
(* caller check and query relies, is the tealet whose frames are executing.*)
CurrentRuns == g_current = running

(* tealet_status() tells the truth: TEALET_STATUS_ACTIVE is what the       *)
(* suspended tealets with a usable stack report, and nobody else.          *)
ActiveCanResume ==
  \A t \in allocated \ {g_current} : Status(t) = "ACTIVE" <=> frame[t] \in Frames

(* A tealet never goes back: once started it is not NEW again, an exited   *)
(* or defunct one stays so until its handle is deleted.                    *)
StatusForward ==
  [][\A t \in allocated \cap allocated' : flags[t] \subseteq flags'[t]]_vars

(* The steps after which the same frames run, and tealet_previous() may    *)
(* differ: a switch to self, also by a NOFAIL call that falls back from    *)
(* main, and the deletion of the tealet it named.                          *)
SelfSwitch ==
  /\ g_previous' = running
  /\ result' \in {"ok", "PANIC"}
  /\ UNCHANGED <<allocated, frame, g_flags>>

NamedDeleted ==
  g_previous' = None /\ g_previous \notin allocated'

PreviousStep ==
  IF running' # running
  THEN g_previous' = IF running \in allocated' THEN running ELSE None
  ELSE /\ g_previous' = g_previous \/ SelfSwitch \/ NamedDeleted
       /\ g_previous' # None => g_previous' \in allocated'

(* tealet_previous() is "the one that switched to us", NULL once that one  *)
(* was destroyed.  A start that returns at once and a transfer that failed *)
(* leave it as it was, whatever tealet_switchstack() made of it meanwhile. *)
PreviousIsSender == [][PreviousStep]_vars

NofailFlags == {opts \in Chosen(ExitFlags) : "NOFAIL" \in opts}

(* A call that is to reach t or else main: run() returns t, or             *)
(* tealet_switch() or tealet_exit() is called with TEALET_XFER_NOFAIL.     *)
NofailCall(t, caller) ==
  \/ Return(t, caller)
  \/ \E opts \in NofailFlags :
       Switch(t, opts, caller) \/ (g_flags = NoExit /\ Exit(t, opts, caller))

(* The error of the caller's own stack goes to the caller, or ends the     *)
(* process, and nothing has moved.                                         *)
PassesOn(caller) ==
  /\ caller # "none"
  /\ result' \in {caller, "ABORT"}
  /\ UNCHANGED <<g_current, g_previous, running, allocated, frame>>

(* A call with TEALET_XFER_NOFAIL to a tealet that is neither NEW nor      *)
(* exited never fails for want of memory or of the target: main is reached *)
(* then, with TEALET_ERR_PANIC.  "Other errors are returned unchanged"     *)
(* (tealet.h:351), which are those of the caller's own stack, and nothing  *)
(* has moved.  run() has nobody to return them to: the process is aborted. *)
NofailSucceeds ==
  [][result' \notin {"ok", "PANIC"} =>
       \A t \in Tealets, caller \in Callers :
         CanBeTarget(t) => PassesOn(caller) \/ ~NofailCall(t, caller)]_vars

=============================================================================
