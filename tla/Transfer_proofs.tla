-------------------------- MODULE Transfer_proofs --------------------------
(***************************************************************************)
(* Theorems about Transfer, for every set of tealets, whichever saves      *)
(* fail: the library always knows which tealet runs, what tealet_status()  *)
(* and tealet_previous() report is true, and a NOFAIL transfer is never    *)
(* refused.                                                                *)
(***************************************************************************)
EXTENDS TransferImplements, TLAPS

LEMMA SentinelTypes ==
  /\ InSwitch \in Frames
  /\ NoFrame \notin Frames
  /\ Lost \notin Frames
  /\ NoFrame # Lost
  /\ NoFrame.call = "none"
  /\ Lost.call = "lost"
BY DEF InSwitch, NoFrame, Lost, Frames

(* A frame whose call names a creator has one, and a child. *)
LEMMA FrameParts ==
  ASSUME NEW f \in Frames \cup {NoFrame, Lost}
  PROVE  /\ f.call \in {"run", "fork", "start", "forked"} => f.child \in Tealets
         /\ f.call \in {"start", "forked"} => f.creator \in Tealets
         /\ f \in Frames <=> f.call \in Calls
BY DEF Frames, NoFrame, Lost, Calls

(* What a refusal says about the target. *)
LEMMA NotRefused ==
  ASSUME NEW t, NEW exiting, Refusal(t, exiting) = "none"
  PROVE  /\ "BOUND" \in flags[t]
         /\ "EXITED" \notin flags[t]
         /\ ~IsDefunct(t)
         /\ t # g_current
BY DEF Refusal

LEMMA OutgoingCases ==
  ASSUME NEW opts, NEW exiting \in BOOLEAN, NEW out \in Outgoing(opts, exiting)
  PROVE  \/ exiting /\ out \in {Freed, Exited}
         \/ ~exiting /\ out = Suspended
         \/ ~exiting /\ GivesUp(opts) /\ out = Unsaved
BY Zenon DEF Outgoing

LEMMA OutgoingTypes ==
  ASSUME TypeOK, NEW opts, NEW exiting \in BOOLEAN, NEW out \in Outgoing(opts, exiting)
  PROVE  /\ out.frame \in Frames \cup {NoFrame, Lost}
         /\ out.freed \in BOOLEAN
         /\ out.flags \in SUBSET Flags
<1>1. flags[g_current] \in SUBSET Flags
  BY DEF TypeOK
<1>2. CASE out = Freed
  BY <1>2 DEF Freed
<1>3. CASE out = Exited
  BY <1>1, <1>3 DEF Exited, Flags
<1>4. CASE out = Suspended
  BY <1>1, <1>4, SentinelTypes DEF Suspended
<1>5. CASE out = Unsaved
  BY <1>1, <1>5 DEF Unsaved, Flags
<1> QED BY <1>2, <1>3, <1>4, <1>5, OutgoingCases

LEMMA WithoutTypes ==
  ASSUME TypeOK, NEW lost
  PROVE  Without(lost) \in [Tealets -> Frames \cup {NoFrame, Lost}]
BY DEF TypeOK, Without

LEMMA MarkedTypes ==
  ASSUME TypeOK, NEW t
  PROVE  Marked(t) \in [Tealets -> SUBSET Flags]
BY DEF TypeOK, Marked, Flags

(* A transfer that succeeds keeps the types. *)
LEMMA MovesTypes ==
  ASSUME TypeOK, NEW t \in Tealets, NEW opts, NEW exiting \in BOOLEAN,
         NEW fl \in [Tealets -> SUBSET Flags], Moves(t, opts, exiting, fl)
  PROVE  /\ g_current' \in Tealets
         /\ running' \in Tealets
         /\ g_previous' \in Tealets \cup {None}
         /\ allocated' \subseteq Tealets
         /\ flags' \in [Tealets -> SUBSET Flags]
         /\ frame' \in [Tealets -> Frames \cup {NoFrame, Lost}]
         /\ result' \in Results
<1>0. result' = IF "PANIC" \in opts THEN "PANIC" ELSE "ok"
  BY DEF Moves
<1>1. PICK out \in Outgoing(opts, exiting), lost \in Sacrifices(t, opts) :
        /\ allocated' = IF out.freed THEN allocated \ {g_current} ELSE allocated
        /\ Leaves(out.freed)
        /\ Resumes(t, "PANIC" \in opts, [fl EXCEPT ![g_current] = out.flags],
                   [Without(lost) EXCEPT ![g_current] = out.frame])
  BY DEF Moves
<1> DEFINE f == frame[t]
           fr == [Without(lost) EXCEPT ![g_current] = out.frame]
           fl2 == [fl EXCEPT ![g_current] = out.flags]
<1>2. fr \in [Tealets -> Frames \cup {NoFrame, Lost}] /\ fl2 \in [Tealets -> SUBSET Flags]
  BY OutgoingTypes, WithoutTypes DEF TypeOK
<1>3. f.call \in {"start", "forked"} => f.creator \in Tealets
  BY FrameParts DEF TypeOK
<1>4. g_current' \in Tealets /\ running' \in Tealets /\ result' \in Results
  BY <1>0, <1>1, <1>3 DEF Resumes, Puts, Results
<1>5. g_previous' \in Tealets \cup {None} /\ allocated' \subseteq Tealets
  BY <1>1 DEF Leaves, TypeOK
<1>6. flags' \in [Tealets -> SUBSET Flags]
  BY <1>1, <1>2 DEF Resumes
<1>7. frame' \in [Tealets -> Frames \cup {NoFrame, Lost}]
  BY <1>1, <1>2 DEF Resumes
<1> QED BY <1>4, <1>5, <1>6, <1>7

LEMMA AttemptsTypes ==
  ASSUME TypeOK, NEW t \in Tealets, NEW opts, NEW exiting \in BOOLEAN, Attempts(t, opts, exiting)
  PROVE  /\ g_current' \in Tealets
         /\ running' \in Tealets
         /\ g_previous' \in Tealets \cup {None}
         /\ allocated' \subseteq Tealets
         /\ flags' \in [Tealets -> SUBSET Flags]
         /\ frame' \in [Tealets -> Frames \cup {NoFrame, Lost}]
         /\ result' \in Results
<1> DEFINE used == IF "NOFAIL" \in opts THEN opts \cup {"FORCE"} ELSE opts
<1>1. CASE Transfers(t, used, exiting)
  BY <1>1, MovesTypes DEF Transfers, TypeOK
<1>2. CASE Refused(t, exiting)
  BY <1>2 DEF Refused, TypeOK, Results
<1>3. CASE SwitchesToSelf(t, used, exiting)
  BY <1>3 DEF SwitchesToSelf, TypeOK, Results
<1>4. CASE FindsDefunct(t, exiting)
  BY <1>4, MarkedTypes DEF FindsDefunct, TypeOK, Results
<1>5. CASE RunsOut(t, used, exiting)
  BY <1>5, WithoutTypes DEF RunsOut, TypeOK, Results
<1>6. CASE FallsBack(t, used, exiting)
  <2>1. Main \in Tealets /\ Marked(t) \in [Tealets -> SUBSET Flags]
    BY HandlesAssumption, MarkedTypes
  <2>2. CASE g_current = Main
    BY <1>6, <2>1, <2>2 DEF FallsBack, TypeOK, Results
  <2>3. CASE g_current # Main
    <3>1. Moves(Main, used \cup {"PANIC"}, exiting, Marked(t))
      BY <1>6, <2>3 DEF FallsBack
    <3> HIDE DEF used
    <3> QED BY <3>1, <2>1, MovesTypes
  <2> QED BY <2>2, <2>3
<1> QED BY <1>1, <1>2, <1>3, <1>4, <1>5, <1>6 DEF Attempts

(* A transfer is rejected for its caller, or attempted. *)
LEMMA XferCases ==
  ASSUME NEW t, NEW opts, NEW exiting, NEW caller, Xfer(t, opts, exiting, caller)
  PROVE  \/ Attempts(t, opts, exiting)
         \/ caller # "none" /\ ChecksCaller(t, opts, exiting) /\ Rejected(t, caller)
BY Zenon DEF Xfer

LEMMA XferTypes ==
  ASSUME TypeOK, NEW t \in Tealets, NEW opts, NEW exiting \in BOOLEAN,
         NEW caller \in Callers \cup {"ABORT"}, Xfer(t, opts, exiting, caller)
  PROVE  /\ g_current' \in Tealets
         /\ running' \in Tealets
         /\ g_previous' \in Tealets \cup {None}
         /\ allocated' \subseteq Tealets
         /\ flags' \in [Tealets -> SUBSET Flags]
         /\ frame' \in [Tealets -> Frames \cup {NoFrame, Lost}]
         /\ result' \in Results
<1>1. CASE Attempts(t, opts, exiting)
  BY <1>1, AttemptsTypes
<1>2. CASE caller # "none" /\ Rejected(t, caller)
  BY <1>2, MarkedTypes, OptionsAssumption DEF Rejected, Callers, TypeOK, Results
<1> QED BY <1>1, <1>2, XferCases

LEMMA StartsTypes ==
  ASSUME TypeOK, NEW c \in Tealets, NEW start_switch \in BOOLEAN, NEW caller \in Callers,
         Run(c, start_switch, caller) \/ Fork(c, start_switch, caller)
  PROVE  TypeOK'
<1>1. CASE StartFails(c, start_switch)
  BY <1>1 DEF StartFails, StartRejected, Run, Fork, TypeOK, Results, Starts
<1>0. CASE StartRejected(caller)
  BY <1>0, OptionsAssumption DEF StartRejected, Callers, TypeOK, Results
<1>2. CASE Run(c, start_switch, caller) /\ ~StartFails(c, start_switch) /\ ~StartRejected(caller)
  <2>1. /\ Starts(c, start_switch, "run", "start")
        /\ flags' = [flags EXCEPT ![c] = {"BOUND"}]
        /\ g_arg' = NoArg
    BY <1>2 DEF Run
  <2>2. /\ [call |-> "run", child |-> c, creator |-> None] \in Frames
        /\ [call |-> "start", child |-> c, creator |-> g_current] \in Frames
    BY DEF Frames, TypeOK
  <2> QED BY <2>1, <2>2 DEF Starts, TypeOK, Results, Flags
<1>3. CASE Fork(c, start_switch, caller) /\ ~StartFails(c, start_switch) /\ ~StartRejected(caller)
  <2>1. /\ Starts(c, start_switch, "fork", "forked")
        /\ flags' = [flags EXCEPT ![c] = {"BOUND"} \cup (flags[g_current] \cap {"MAIN_LINEAGE"})]
        /\ g_arg' = NoArg
    BY <1>3 DEF Fork
  <2>2. /\ [call |-> "fork", child |-> c, creator |-> None] \in Frames
        /\ [call |-> "forked", child |-> c, creator |-> g_current] \in Frames
    BY DEF Frames, TypeOK
  <2> QED BY <2>1, <2>2 DEF Starts, TypeOK, Results, Flags
<1> QED BY <1>0, <1>1, <1>2, <1>3

(* The variables keep their types, and the argument slot of the domain is  *)
(* in use only while an exit is pending.                                   *)
THEOREM TransferTypeCorrect == Spec => []TypeOK
<1>1. Init => TypeOK
  BY HandlesAssumption DEF Init, TypeOK, Flags, Results, NoExit
<1>2. TypeOK /\ [Next]_vars => TypeOK'
  <2> SUFFICES ASSUME TypeOK, [Next]_vars PROVE TypeOK'
    OBVIOUS
  <2>1. ASSUME NEW t \in Tealets, New(t) PROVE TypeOK'
    BY <2>1 DEF New, TypeOK
  <2>2. ASSUME NEW t \in Tealets, Delete(t) PROVE TypeOK'
    BY <2>2 DEF Delete, TypeOK
  <2>3. ASSUME NEW t \in Tealets, NEW caller \in Callers, Return(t, caller) PROVE TypeOK'
    <3>1. (IF caller = "none" THEN "none" ELSE "ABORT") \in Callers \cup {"ABORT"}
      BY DEF Callers
    <3> QED BY <2>3, <3>1, XferTypes DEF Return, Consumes, TypeOK
  <2>4. ASSUME NEW t \in Tealets, NEW copy \in Tealets, Duplicate(t, copy) PROVE TypeOK'
    BY <2>4 DEF Duplicate, TypeOK
  <2>5. ASSUME NEW c \in Tealets, NEW start_switch \in BOOLEAN, NEW caller \in Callers,
               Run(c, start_switch, caller) \/ Fork(c, start_switch, caller)
        PROVE  TypeOK'
    BY <2>5, StartsTypes
  <2>6. ASSUME NEW t \in Tealets, NEW opts, NEW caller \in Callers, Switch(t, opts, caller)
        PROVE  TypeOK'
    BY <2>6, XferTypes DEF Switch, TypeOK
  <2>7. ASSUME NEW t \in Tealets, NEW opts, NEW caller \in Callers, Exit(t, opts, caller)
        PROVE  TypeOK'
    BY <2>7, XferTypes DEF Exit, Consumes, TypeOK
  <2>8. ASSUME NEW t \in Tealets, NEW opts \in Deferrals, NEW arg \in Args, Defer(t, opts, arg)
        PROVE  TypeOK'
    BY <2>8, HandlesAssumption DEF Defer, TypeOK, Results, Exits, NoExit
  <2>9. CASE UNCHANGED vars
    BY <2>9 DEF vars, TypeOK
  <2>10. CASE Aborted
    BY <2>9, <2>10 DEF Aborted
  <2> QED BY <2>1, <2>2, <2>3, <2>4, <2>5, <2>6, <2>7, <2>8, <2>9, <2>10 DEF Next
<1> QED BY <1>1, <1>2, PTL DEF Spec

---------------------------------------------------------------------------
(* A transfer with NOFAIL to a possible target, once attempted, succeeds.  *)
LEMMA MovesResult ==
  ASSUME NEW t, NEW opts, NEW exiting, NEW fl, Moves(t, opts, exiting, fl)
  PROVE  result' \in {"ok", "PANIC"}
BY DEF Moves

LEMMA NofailAttempts ==
  ASSUME NEW t \in Tealets, CanBeTarget(t), NEW opts, "NOFAIL" \in opts,
         NEW exiting \in BOOLEAN, Attempts(t, opts, exiting)
  PROVE  result' \in {"ok", "PANIC"}
<1> DEFINE used == opts \cup {"FORCE"}
<1>1. Refusal(t, exiting) \in {"none", "DEFUNCT"}
  BY DEF CanBeTarget, Refusal
<1>2. CASE Transfers(t, used, exiting)
  BY <1>2, MovesResult DEF Transfers
<1>3. CASE ~Retries(t, used, exiting) /\ FindsDefunct(t, exiting)
  BY <1>3 DEF Retries, FindsDefunct
<1>4. CASE ~Retries(t, used, exiting) /\ RunsOut(t, used, exiting)
  BY <1>4 DEF Retries, RunsOut
<1>5. CASE FallsBack(t, used, exiting)
  BY <1>5, MovesResult DEF FallsBack
<1>6. ~Refused(t, exiting) /\ ~SwitchesToSelf(t, used, exiting)
  BY <1>1 DEF Refused, SwitchesToSelf
<1> QED BY <1>2, <1>3, <1>4, <1>5, <1>6 DEF Attempts

(* One that is not attempted is rejected for its caller. *)
LEMMA NofailXfer ==
  ASSUME NEW t \in Tealets, CanBeTarget(t), NEW opts, "NOFAIL" \in opts,
         NEW exiting \in BOOLEAN, NEW caller, Xfer(t, opts, exiting, caller)
  PROVE  \/ result' \in {"ok", "PANIC"}
         \/ /\ caller # "none"
            /\ result' = caller
            /\ UNCHANGED <<g_current, g_previous, running, allocated, frame>>
<1>1. CASE Attempts(t, opts, exiting)
  BY <1>1, NofailAttempts
<1>2. CASE caller # "none" /\ Rejected(t, caller)
  BY <1>2 DEF Rejected
<1> QED BY <1>1, <1>2, XferCases

(* No transfer with NOFAIL to a tealet that is neither NEW nor exited      *)
(* fails for want of memory or of its target.  What it returns is the      *)
(* error that the checks of the caller's stack found, and nothing has      *)
(* moved; for run() returning that error is the end.                       *)
THEOREM NofailSucceedsHolds == Spec => NofailSucceeds
<1> DEFINE Step ==
      result' \notin {"ok", "PANIC"} =>
        \A t \in Tealets, caller \in Callers :
          CanBeTarget(t) => PassesOn(caller) \/ ~NofailCall(t, caller)
<1>1. Step
  <2> SUFFICES ASSUME result' \notin {"ok", "PANIC"}, NEW t \in Tealets, NEW caller \in Callers,
                      CanBeTarget(t), NofailCall(t, caller)
               PROVE  PassesOn(caller)
    OBVIOUS
  <2>1. CASE Return(t, caller)
    <3> DEFINE told == IF caller = "none" THEN "none" ELSE "ABORT"
               opts == (IF g_flags = NoExit THEN {} ELSE g_flags \ {"DEFER"}) \cup {"NOFAIL"}
    <3>1. Xfer(t, opts, TRUE, told) /\ "NOFAIL" \in opts
      BY <2>1 DEF Return
    <3>2. told # "none" => caller # "none" /\ told = "ABORT"
      OBVIOUS
    <3> HIDE DEF told, opts
    <3>3. /\ told # "none" /\ result' = told
          /\ UNCHANGED <<g_current, g_previous, running, allocated, frame>>
      BY <3>1, NofailXfer
    <3> QED BY <3>2, <3>3 DEF PassesOn
  <2>2. ASSUME NEW opts \in NofailFlags,
               Switch(t, opts, caller) \/ (g_flags = NoExit /\ Exit(t, opts, caller))
        PROVE  PassesOn(caller)
    <3>1. "NOFAIL" \in opts
      BY DEF NofailFlags
    <3>2. Xfer(t, opts, FALSE, caller) \/ Xfer(t, opts, TRUE, caller)
      BY <2>2 DEF Switch, Exit
    <3> QED BY <3>1, <3>2, NofailXfer DEF PassesOn
  <2> QED BY <2>1, <2>2 DEF NofailCall
<1>2. [Next]_vars => [Step]_vars
  BY <1>1
<1> QED BY <1>2, PTL DEF Spec, NofailSucceeds

---------------------------------------------------------------------------
(* No PANIC transfer finds its target inside a DEFAULT start. *)
NoAstray == PanicReaches \cap {"start", "forked"} = {}

(* Handles the library holds are not freed. *)
Live ==
  /\ Main \in allocated
  /\ g_current \in allocated
  /\ g_previous \in allocated \cup {None}

Attended == TypeOK /\ CurrentRuns /\ Live

LEMMA MovesCurrent ==
  ASSUME NoAstray, NEW t, NEW opts, NEW exiting, NEW fl, Moves(t, opts, exiting, fl)
  PROVE  g_current' = t /\ running' = t
BY DEF NoAstray, Moves, Resumes, Puts

LEMMA MovesPrevious ==
  ASSUME NoAstray, Attended, NEW t \in allocated, t # g_current, NEW opts,
         NEW exiting \in BOOLEAN, exiting => g_current # Main, NEW fl,
         Moves(t, opts, exiting, fl)
  PROVE  CurrentRuns' /\ Live' /\ PreviousStep
<1>1. PICK out \in Outgoing(opts, exiting), lost \in Sacrifices(t, opts) :
        /\ allocated' = IF out.freed THEN allocated \ {g_current} ELSE allocated
        /\ Leaves(out.freed)
  BY DEF Moves
<1>2. out.freed \in BOOLEAN /\ (out.freed => exiting)
  BY OutgoingTypes, OutgoingCases DEF Attended, Suspended, Unsaved
<1>3. g_current' = t /\ running' = t
  BY MovesCurrent
<1>4. CASE out.freed
  BY <1>1, <1>2, <1>3, <1>4 DEF Attended, CurrentRuns, Live, PreviousStep, Leaves
<1>5. CASE ~out.freed
  BY <1>1, <1>2, <1>3, <1>5 DEF Attended, CurrentRuns, Live, PreviousStep, Leaves
<1> QED BY <1>2, <1>4, <1>5

LEMMA AttemptsPrevious ==
  ASSUME NoAstray, Attended, NEW t \in allocated, NEW opts, NEW exiting \in BOOLEAN,
         exiting => g_current # Main, g_flags' = g_flags \/ exiting,
         Attempts(t, opts, exiting)
  PROVE  CurrentRuns' /\ Live' /\ PreviousStep
<1> DEFINE used == IF "NOFAIL" \in opts THEN opts \cup {"FORCE"} ELSE opts
<1>1. CASE Transfers(t, used, exiting)
  <2>1. t # g_current
    BY <1>1, NotRefused DEF Transfers
  <2> HIDE DEF used
  <2> QED BY <1>1, <2>1, MovesPrevious DEF Transfers
<1>2. CASE Refused(t, exiting)
  BY <1>2 DEF Refused, Attended, CurrentRuns, Live, PreviousStep
<1>3. CASE SwitchesToSelf(t, used, exiting)
  <2>1. ~exiting /\ g_flags' = g_flags
    BY <1>3 DEF SwitchesToSelf, Refusal
  <2> QED BY <1>3, <2>1 DEF SwitchesToSelf, Attended, CurrentRuns, Live, PreviousStep, SelfSwitch
<1>4. CASE FindsDefunct(t, exiting)
  BY <1>4 DEF FindsDefunct, Attended, CurrentRuns, Live, PreviousStep
<1>5. CASE RunsOut(t, used, exiting)
  BY <1>5 DEF RunsOut, Attended, CurrentRuns, Live, PreviousStep
<1>6. CASE FallsBack(t, used, exiting) /\ g_current = Main
  <2>1. ~exiting /\ g_flags' = g_flags
    BY <1>6
  <2> QED BY <1>6, <2>1 DEF FallsBack, Attended, CurrentRuns, Live, PreviousStep, SelfSwitch
<1>7. CASE FallsBack(t, used, exiting) /\ g_current # Main
  <2>1. Main \in allocated /\ Moves(Main, used \cup {"PANIC"}, exiting, Marked(t))
    BY <1>7 DEF FallsBack, Attended, Live
  <2> HIDE DEF used
  <2> QED BY <1>7, <2>1, MovesPrevious
<1> QED BY <1>1, <1>2, <1>3, <1>4, <1>5, <1>6, <1>7 DEF Attempts

LEMMA XferPrevious ==
  ASSUME NoAstray, Attended, NEW t \in allocated, NEW opts, NEW exiting \in BOOLEAN,
         exiting => g_current # Main, g_flags' = g_flags \/ exiting,
         NEW caller, Xfer(t, opts, exiting, caller)
  PROVE  CurrentRuns' /\ Live' /\ PreviousStep
<1>1. CASE Attempts(t, opts, exiting)
  BY <1>1, AttemptsPrevious
<1>2. CASE Rejected(t, caller)
  BY <1>2 DEF Rejected, Attended, CurrentRuns, Live, PreviousStep
<1> QED BY <1>1, <1>2, XferCases

LEMMA NextPrevious ==
  ASSUME NoAstray, Attended, Next
  PROVE  CurrentRuns' /\ Live' /\ PreviousStep
<1>1. ASSUME NEW t \in Tealets, New(t) PROVE CurrentRuns' /\ Live' /\ PreviousStep
  BY <1>1 DEF New, Attended, CurrentRuns, Live, PreviousStep
<1>2. ASSUME NEW t \in Tealets, Delete(t) PROVE CurrentRuns' /\ Live' /\ PreviousStep
  BY <1>2 DEF Delete, Attended, CurrentRuns, Live, PreviousStep, NamedDeleted
<1>3. ASSUME NEW t \in Tealets, NEW caller \in Callers, Return(t, caller)
      PROVE  CurrentRuns' /\ Live' /\ PreviousStep
  BY <1>3, XferPrevious DEF Return, CanBeTarget
<1>4. ASSUME NEW t \in Tealets, NEW copy \in Tealets, Duplicate(t, copy)
      PROVE  CurrentRuns' /\ Live' /\ PreviousStep
  BY <1>4 DEF Duplicate, Attended, CurrentRuns, Live, PreviousStep
<1>5. ASSUME NEW c \in Tealets, NEW start_switch \in BOOLEAN, NEW caller \in Callers,
             Run(c, start_switch, caller) \/ Fork(c, start_switch, caller)
      PROVE  CurrentRuns' /\ Live' /\ PreviousStep
  BY <1>5 DEF Run, Fork, IsNew, StartFails, StartRejected, Starts, Attended, CurrentRuns, Live, PreviousStep
<1>6. ASSUME NEW t \in Tealets, NEW opts, NEW caller \in Callers, Switch(t, opts, caller)
      PROVE  CurrentRuns' /\ Live' /\ PreviousStep
  BY <1>6, XferPrevious DEF Switch
<1>7. ASSUME NEW t \in Tealets, NEW opts, NEW caller \in Callers, Exit(t, opts, caller)
      PROVE  CurrentRuns' /\ Live' /\ PreviousStep
  BY <1>7, XferPrevious DEF Exit
<1>8. ASSUME NEW t \in Tealets, NEW opts \in Deferrals, NEW arg \in Args, Defer(t, opts, arg)
      PROVE  CurrentRuns' /\ Live' /\ PreviousStep
  BY <1>8 DEF Defer, Attended, CurrentRuns, Live, PreviousStep
<1>9. CASE Aborted
  BY <1>9 DEF Aborted, vars, Attended, CurrentRuns, Live, PreviousStep
<1> QED BY <1>1, <1>2, <1>3, <1>4, <1>5, <1>6, <1>7, <1>8, <1>9 DEF Next

LEMMA AttendedHolds ==
  ASSUME NoAstray
  PROVE  Spec => []Attended
<1>1. Init => Attended
  BY HandlesAssumption DEF Init, Attended, CurrentRuns, Live, TypeOK, Flags, Results, NoExit
<1>2. TypeOK /\ TypeOK' /\ Attended /\ [Next]_vars => Attended'
  <2>1. CASE Next
    BY <2>1, NextPrevious DEF Attended
  <2>2. CASE UNCHANGED vars
    BY <2>2 DEF vars, Attended, CurrentRuns, Live
  <2> QED BY <2>1, <2>2
<1> QED BY <1>1, <1>2, TransferTypeCorrect, PTL DEF Spec

(* Unless PANIC transfers reach a tealet that was captured by              *)
(* tealet_run() or tealet_fork() and not resumed since, g_current is the   *)
(* tealet whose frames run.                                                *)
THEOREM CurrentRunsHolds ==
  ASSUME PanicReaches \cap {"start", "forked"} = {}
  PROVE  Spec => []CurrentRuns
<1>1. Attended => CurrentRuns
  BY DEF Attended
<1> QED BY <1>1, AttendedHolds, PTL DEF NoAstray

(* Under the same condition tealet_previous() names the tealet that        *)
(* transferred here, or nobody once that one is gone.                      *)
THEOREM PreviousIsSenderHolds ==
  ASSUME PanicReaches \cap {"start", "forked"} = {}
  PROVE  Spec => PreviousIsSender
<1>1. Attended /\ [Next]_vars => [PreviousStep]_vars
  BY NextPrevious DEF NoAstray
<1>2. Spec => []Attended
  BY AttendedHolds DEF NoAstray
<1> QED BY <1>1, <1>2, PTL DEF Spec, PreviousIsSender

---------------------------------------------------------------------------
(* PANIC transfers find their target inside tealet_switch(). *)
OnlySwitches == PanicReaches \subseteq {"switch"}

(* A tealet that is not bound has nothing to resume, one that is not       *)
(* allocated is not bound.                                                 *)
Unbound ==
  \A t \in Tealets :
    /\ "BOUND" \notin flags[t] => flags[t] = {} /\ frame[t] = NoFrame
    /\ t \notin allocated => "BOUND" \notin flags[t]

(* The flags of a tealet that runs, or is suspended and not lost. *)
Alive(t) == "BOUND" \in flags[t] /\ "EXITED" \notin flags[t] /\ "DEFUNCT" \notin flags[t]

RunningAlive == Alive(g_current) /\ frame[g_current] = NoFrame

MainAlive == Alive(Main) /\ frame[Main] # Lost

Settled == Attended /\ Unbound /\ RunningAlive /\ MainAlive /\ ActiveCanResume

(* fl is what tealet_is_defunct() made of flags. *)
Remarked(fl) ==
  /\ fl \in [Tealets -> SUBSET Flags]
  /\ \A v \in Tealets : fl[v] = flags[v] \/ (IsDefunct(v) /\ fl[v] = flags[v] \cup {"DEFUNCT"})

LEMMA FlagsRemarked == ASSUME TypeOK PROVE Remarked(flags)
BY DEF TypeOK, Remarked

LEMMA MarkedRemarked ==
  ASSUME TypeOK, NEW t \in Tealets
  PROVE  Remarked(Marked(t))
BY MarkedTypes DEF TypeOK, Remarked, Marked

(* A suspended tealet's frame says that it is active. *)
LEMMA FramesActive ==
  ASSUME Settled, NEW t \in Tealets, frame[t] \in Frames
  PROVE  t \in allocated \ {g_current} /\ Status(t) = "ACTIVE"
BY SentinelTypes DEF Settled, Unbound, RunningAlive, ActiveCanResume

LEMMA ActiveFrames ==
  ASSUME Settled, NEW t \in allocated \ {g_current}, Status(t) = "ACTIVE"
  PROVE  frame[t] \in Frames /\ Alive(t)
BY DEF Settled, ActiveCanResume, Status, Alive, IsDefunct

(* A transfer that succeeds, handle by handle. *)
MovesTo(t, fl, out, lost) ==
  /\ g_current' = t
  /\ running' = t
  /\ allocated' = IF out = Freed THEN allocated \ {g_current} ELSE allocated
  /\ \A v \in Tealets : flags'[v] = IF v = g_current THEN out.flags ELSE fl[v]
  /\ \A v \in Tealets :
       frame'[v] = IF v = t THEN NoFrame
                   ELSE IF v = g_current THEN out.frame
                   ELSE IF v \in lost THEN Lost
                   ELSE frame[v]

(* What can become of the outgoing tealet and of the others. *)
MayLeave(exiting, t, out, lost) ==
  /\ \/ exiting /\ out \in {Freed, Exited}
     \/ ~exiting /\ out = Suspended
     \/ ~exiting /\ g_current # Main /\ out = Unsaved
  /\ lost \subseteq {v \in Tealets \ {Main, t} : frame[v] \in Frames}

LEMMA MovesEffect ==
  ASSUME OnlySwitches, Settled, NEW t \in Tealets, frame[t] \in Frames,
         NEW opts, NEW exiting \in BOOLEAN, NEW fl, Remarked(fl),
         Moves(t, opts, exiting, fl)
  PROVE  \E out, lost : MayLeave(exiting, t, out, lost) /\ MovesTo(t, fl, out, lost)
<1>1. PICK out \in Outgoing(opts, exiting), lost \in Sacrifices(t, opts) :
        /\ allocated' = IF out.freed THEN allocated \ {g_current} ELSE allocated
        /\ Resumes(t, "PANIC" \in opts, [fl EXCEPT ![g_current] = out.flags],
                   [Without(lost) EXCEPT ![g_current] = out.frame])
  BY DEF Moves
<1>2. t # g_current /\ g_current \in Tealets
  BY FramesActive DEF Settled, Attended, TypeOK
<1>3. MayLeave(exiting, t, out, lost)
  <2>1. lost \subseteq {v \in Tealets \ {Main, t} : frame[v] \in Frames}
    BY <1>1 DEF Sacrifices
  <2> QED BY <2>1, OutgoingCases DEF MayLeave, GivesUp
<1>4. allocated' = IF out = Freed THEN allocated \ {g_current} ELSE allocated
  <2>1. out = Freed <=> out.freed
    BY <1>3 DEF MayLeave, Freed, Exited, Suspended, Unsaved
  <2> QED BY <1>1, <2>1
<1>5. ~Undoes("PANIC" \in opts, frame[t]) /\ Puts("PANIC" \in opts, frame[t], t) = t
  BY <1>1 DEF Resumes, OnlySwitches, Undoes, Puts
<1>6. flags' = [fl EXCEPT ![g_current] = out.flags]
  BY <1>1, <1>5 DEF Resumes
<1>7. frame' = [v \in Tealets |-> IF v = t THEN NoFrame
                                 ELSE [Without(lost) EXCEPT ![g_current] = out.frame][v]]
  BY <1>1, <1>5 DEF Resumes
<1>8. MovesTo(t, fl, out, lost)
  <2>1. g_current' = t /\ running' = t
    BY <1>1, <1>5 DEF Resumes
  <2>2. \A v \in Tealets : flags'[v] = IF v = g_current THEN out.flags ELSE fl[v]
    BY <1>2, <1>6 DEF Remarked
  <2>3. \A v \in Tealets :
          frame'[v] = IF v = t THEN NoFrame
                      ELSE IF v = g_current THEN out.frame
                      ELSE IF v \in lost THEN Lost
                      ELSE frame[v]
    BY <1>2, <1>7 DEF Without
  <2> QED BY <1>4, <2>1, <2>2, <2>3 DEF MovesTo
<1> QED BY <1>3, <1>8

(* Nobody's flags are lost by a transfer. *)
Forward == \A t \in allocated \cap allocated' : flags[t] \subseteq flags'[t]

LEMMA MovesSettled ==
  ASSUME Settled, TypeOK', NEW t \in Tealets, frame[t] \in Frames,
         NEW exiting \in BOOLEAN, exiting => g_current # Main, NEW fl, Remarked(fl),
         NEW out, NEW lost, MayLeave(exiting, t, out, lost), MovesTo(t, fl, out, lost)
  PROVE  Unbound' /\ RunningAlive' /\ MainAlive' /\ ActiveCanResume' /\ Forward
<1>1. t \in allocated \ {g_current} /\ Alive(t) /\ Alive(g_current) /\ Alive(Main)
  BY FramesActive, ActiveFrames DEF Settled, RunningAlive, MainAlive
<1>2. \A v \in Tealets : frame[v] \in Frames => v \in allocated \ {g_current} /\ Alive(v)
  BY FramesActive, ActiveFrames
<1>3. \A v \in lost : v \in Tealets \ {Main, t} /\ frame[v] \in Frames
  BY DEF MayLeave
<1>4. g_current \in Tealets /\ Main \in Tealets /\ allocated \subseteq Tealets
  BY HandlesAssumption DEF Settled, Attended, TypeOK
<1>5. Forward
  <2>1. ASSUME NEW v \in allocated \cap allocated' PROVE flags[v] \subseteq flags'[v]
    <3>1. CASE v = g_current
      BY <1>4, <2>1, <3>1 DEF MovesTo, MayLeave, Exited, Suspended, Unsaved
    <3>2. CASE v # g_current
      BY <1>4, <2>1, <3>2 DEF MovesTo, Remarked
    <3> QED BY <3>1, <3>2
  <2> QED BY <2>1 DEF Forward
<1>6. Unbound'
  <2> SUFFICES ASSUME NEW v \in Tealets
               PROVE  /\ "BOUND" \notin flags'[v] => flags'[v] = {} /\ frame'[v] = NoFrame
                      /\ v \notin allocated' => "BOUND" \notin flags'[v]
    BY DEF Unbound
  <2>1. CASE v = g_current
    BY <1>1, <1>4, <2>1 DEF MovesTo, MayLeave, Freed, Exited, Suspended, Unsaved, Alive, Settled, Attended, Live
  <2>2. CASE v # g_current /\ frame[v] \in Frames
    BY <1>2, <1>4, <2>2 DEF MovesTo, Remarked, Alive
  <2>3. CASE v # g_current /\ frame[v] \notin Frames
    <3>1. v # t /\ v \notin lost
      BY <1>3, <2>3
    <3>2. /\ fl[v] = flags[v] \/ (IsDefunct(v) /\ fl[v] = flags[v] \cup {"DEFUNCT"})
          /\ "BOUND" \notin flags[v] => flags[v] = {} /\ frame[v] = NoFrame
          /\ v \notin allocated => "BOUND" \notin flags[v]
      BY DEF Remarked, Settled, Unbound
    <3>3. "BOUND" \notin flags[v] => ~IsDefunct(v)
      BY <3>2, SentinelTypes DEF IsDefunct
    <3> QED BY <2>3, <3>1, <3>2, <3>3 DEF MovesTo
  <2> QED BY <2>1, <2>2, <2>3
<1>7. RunningAlive'
  <2>1. ~IsDefunct(t)
    BY <1>1, SentinelTypes DEF IsDefunct, Alive
  <2> QED BY <1>1, <2>1 DEF RunningAlive, MovesTo, Remarked, Alive
<1>8. MainAlive'
  <2>1. ~IsDefunct(Main)
    BY DEF Settled, MainAlive, IsDefunct, Alive
  <2>2. CASE Main = g_current
    BY <1>1, <1>4, <2>2, SentinelTypes DEF MainAlive, MovesTo, MayLeave, Suspended, Alive
  <2>3. CASE Main # g_current
    BY <1>1, <1>3, <1>4, <2>1, <2>3, SentinelTypes DEF MainAlive, MovesTo, Remarked, Alive, Settled
  <2> QED BY <2>2, <2>3
<1>9. ActiveCanResume'
  <2> SUFFICES ASSUME NEW v \in allocated', v # t
               PROVE  Status(v)' = "ACTIVE" <=> frame'[v] \in Frames
    BY DEF ActiveCanResume, MovesTo
  <2>1. v \in allocated /\ v \in Tealets
    BY <1>4 DEF MovesTo
  <2>2. CASE v = g_current
    BY <1>1, <2>1, <2>2, SentinelTypes
    DEF MovesTo, MayLeave, Freed, Exited, Suspended, Unsaved, Alive, Status, IsDefunct
  <2>3. CASE v # g_current /\ v \in lost
    BY <2>1, <2>3, SentinelTypes DEF MovesTo, Status, IsDefunct
  <2>4. CASE v # g_current /\ v \notin lost
    <3>1. frame'[v] = frame[v] /\ flags'[v] = fl[v]
      BY <2>1, <2>4 DEF MovesTo
    <3>2. Status(v)' = "ACTIVE" <=> Status(v) = "ACTIVE"
      BY <2>1, <3>1 DEF Status, IsDefunct, Remarked
    <3> QED BY <2>1, <2>4, <3>1, <3>2 DEF Settled, ActiveCanResume
  <2> QED BY <2>2, <2>3, <2>4
<1> QED BY <1>5, <1>6, <1>7, <1>8, <1>9

(* tealet_is_defunct() marks what was lost already. *)
LEMMA MarkedSettled ==
  ASSUME Settled, NEW t \in allocated, flags' = Marked(t), UNCHANGED <<g_current, allocated, frame>>
  PROVE  Unbound' /\ RunningAlive' /\ MainAlive' /\ ActiveCanResume' /\ Forward
<1>0. t \in Tealets /\ Main \in Tealets /\ g_current \in Tealets
  BY HandlesAssumption DEF Settled, Attended, TypeOK
<1>1. Remarked(flags')
  BY <1>0, MarkedRemarked DEF Settled, Attended
<1>2. \A v \in Tealets : "BOUND" \notin flags[v] => ~IsDefunct(v)
  BY SentinelTypes DEF Settled, Unbound, IsDefunct
<1>3. ~IsDefunct(g_current) /\ ~IsDefunct(Main)
  BY SentinelTypes DEF Settled, RunningAlive, MainAlive, Alive, IsDefunct
<1>4. \A v \in Tealets : Status(v)' = Status(v)
  BY <1>1, <1>2 DEF Remarked, Status, IsDefunct
<1>5. Unbound'
  BY <1>1, <1>2 DEF Remarked, Settled, Unbound
<1>6. RunningAlive' /\ MainAlive'
  BY <1>0, <1>1, <1>3 DEF Remarked, Settled, RunningAlive, MainAlive, Alive
<1>7. ActiveCanResume'
  BY <1>0, <1>4 DEF Settled, Attended, TypeOK, ActiveCanResume
<1>8. Forward
  BY <1>1 DEF Remarked, Forward, Settled, Attended, TypeOK
<1> QED BY <1>5, <1>6, <1>7, <1>8

LEMMA AttemptsSettled ==
  ASSUME OnlySwitches, Settled, TypeOK', NEW t \in allocated, NEW opts,
         NEW exiting \in BOOLEAN, exiting => g_current # Main, Attempts(t, opts, exiting)
  PROVE  Unbound' /\ RunningAlive' /\ MainAlive' /\ ActiveCanResume' /\ Forward
<1> DEFINE used == IF "NOFAIL" \in opts THEN opts \cup {"FORCE"} ELSE opts
           Goal == Unbound' /\ RunningAlive' /\ MainAlive' /\ ActiveCanResume' /\ Forward
<1>1. t \in Tealets /\ Main \in allocated /\ Main \in Tealets /\ g_current \in Tealets
  BY HandlesAssumption DEF Settled, Attended, TypeOK, Live
<1>2. CASE Transfers(t, used, exiting)
  <2>1. Refusal(t, exiting) = "none" /\ Moves(t, used, exiting, flags)
    BY <1>2 DEF Transfers
  <2> HIDE DEF used
  <2>2. frame[t] \in Frames
    BY <2>1, NotRefused, ActiveFrames DEF Status
  <2>3. Remarked(flags)
    BY FlagsRemarked DEF Settled, Attended
  <2>4. \E out, lost : MayLeave(exiting, t, out, lost) /\ MovesTo(t, flags, out, lost)
    BY <1>1, <2>1, <2>2, <2>3, MovesEffect
  <2> QED BY <1>1, <2>2, <2>3, <2>4, MovesSettled
<1>3. CASE UNCHANGED <<g_current, allocated, flags, frame>>
  BY <1>3 DEF Settled, Unbound, RunningAlive, MainAlive, ActiveCanResume, Status, IsDefunct, Alive, Forward
<1>4. CASE /\ flags' = Marked(t)
           /\ UNCHANGED <<g_current, allocated, frame>>
  BY <1>4, MarkedSettled
<1>5. CASE RunsOut(t, used, exiting)
  <2>1. PICK lost \in Sacrifices(t, used) : frame' = Without(lost)
    BY <1>5 DEF RunsOut
  <2>2. UNCHANGED <<g_current, allocated, flags>>
    BY <1>5 DEF RunsOut
  <2>3. lost \subseteq {v \in Tealets \ {Main, t} : frame[v] \in Frames}
    BY <2>1 DEF Sacrifices
  <2>4. \A v \in Tealets : frame'[v] = IF v \in lost THEN Lost ELSE frame[v]
    BY <2>1 DEF Without
  <2>5. \A v \in lost : v \in Tealets \ {Main, g_current} /\ Status(v) = "ACTIVE"
    BY <2>3, FramesActive
  <2>6. Unbound'
    BY <2>2, <2>4, <2>5 DEF Settled, Unbound, Status
  <2>7. RunningAlive' /\ MainAlive'
    BY <1>1, <2>2, <2>4, <2>5 DEF Settled, RunningAlive, MainAlive, Alive
  <2>8. ActiveCanResume'
    <3> SUFFICES ASSUME NEW v \in allocated, v # g_current
                 PROVE  Status(v)' = "ACTIVE" <=> frame'[v] \in Frames
      BY <2>2 DEF ActiveCanResume
    <3>1. v \in Tealets
      BY DEF Settled, Attended, TypeOK
    <3>2. CASE v \in lost
      BY <2>4, <3>1, <3>2, SentinelTypes DEF Status, IsDefunct
    <3>3. CASE v \notin lost
      BY <2>2, <2>4, <3>1, <3>3 DEF Status, IsDefunct, Settled, ActiveCanResume
    <3> QED BY <3>2, <3>3
  <2>9. Forward
    BY <2>2 DEF Forward
  <2> QED BY <2>6, <2>7, <2>8, <2>9
<1>6. CASE FallsBack(t, used, exiting) /\ g_current # Main
  <2>1. Moves(Main, used \cup {"PANIC"}, exiting, Marked(t))
    BY <1>6 DEF FallsBack
  <2> DEFINE more == used \cup {"PANIC"}
  <2>2. Moves(Main, more, exiting, Marked(t))
    BY <2>1
  <2> HIDE DEF more
  <2>3. frame[Main] \in Frames
    BY <1>1, <1>6, ActiveFrames DEF Settled, MainAlive, Alive, Status, IsDefunct
  <2>4. Remarked(Marked(t))
    BY <1>1, MarkedRemarked DEF Settled, Attended
  <2>5. \E out, lost : MayLeave(exiting, Main, out, lost) /\ MovesTo(Main, Marked(t), out, lost)
    BY <1>1, <2>2, <2>3, <2>4, MovesEffect
  <2> QED BY <1>1, <2>3, <2>4, <2>5, MovesSettled
<1>7. CASE FallsBack(t, used, exiting) /\ g_current = Main /\ Retries(t, used, exiting)
  BY <1>4, <1>7 DEF FallsBack, Retries
<1> QED BY <1>2, <1>3, <1>4, <1>5, <1>6, <1>7
        DEF Attempts, Refused, SwitchesToSelf, FindsDefunct

LEMMA XferSettled ==
  ASSUME OnlySwitches, Settled, TypeOK', NEW t \in allocated, NEW opts,
         NEW exiting \in BOOLEAN, exiting => g_current # Main,
         NEW caller, Xfer(t, opts, exiting, caller)
  PROVE  Unbound' /\ RunningAlive' /\ MainAlive' /\ ActiveCanResume' /\ Forward
<1>1. CASE Attempts(t, opts, exiting)
  BY <1>1, AttemptsSettled
<1>2. CASE Rejected(t, caller)
  <2>1. flags' = Marked(t) /\ UNCHANGED <<g_current, allocated, frame>>
    BY <1>2 DEF Rejected
  <2> QED BY <2>1, MarkedSettled
<1> QED BY <1>1, <1>2, XferCases

(* A start that succeeds: the child gets flags of its own, and the creator *)
(* or the child is suspended.                                              *)
LEMMA StartsEffect ==
  ASSUME Settled, NEW c \in Tealets, NEW start_switch \in BOOLEAN, NEW caller,
         Run(c, start_switch, caller) \/ Fork(c, start_switch, caller),
         ~StartFails(c, start_switch), ~StartRejected(caller)
  PROVE  \E own \in SUBSET Flags, held \in Frames :
           /\ "BOUND" \in own /\ "EXITED" \notin own /\ "DEFUNCT" \notin own
           /\ flags' = [flags EXCEPT ![c] = own]
           /\ \/ frame' = [frame EXCEPT ![g_current] = held] /\ g_current' = c
              \/ frame' = [frame EXCEPT ![c] = held] /\ g_current' = g_current
<1>1. /\ [call |-> "run", child |-> c, creator |-> None] \in Frames
      /\ [call |-> "start", child |-> c, creator |-> g_current] \in Frames
      /\ [call |-> "fork", child |-> c, creator |-> None] \in Frames
      /\ [call |-> "forked", child |-> c, creator |-> g_current] \in Frames
  BY DEF Frames, Settled, Attended, TypeOK
<1>2. CASE Run(c, start_switch, caller)
  <2>1. {"BOUND"} \in SUBSET Flags
    BY DEF Flags
  <2> QED BY <1>1, <1>2, <2>1 DEF Run, Starts
<1>3. CASE Fork(c, start_switch, caller)
  <2> DEFINE own == {"BOUND"} \cup (flags[g_current] \cap {"MAIN_LINEAGE"})
  <2>1. own \in SUBSET Flags /\ "BOUND" \in own /\ "EXITED" \notin own /\ "DEFUNCT" \notin own
    BY DEF Flags
  <2>2. flags' = [flags EXCEPT ![c] = own] /\ Starts(c, start_switch, "fork", "forked")
    BY <1>3 DEF Fork
  <2> HIDE DEF own
  <2> QED BY <1>1, <2>1, <2>2 DEF Starts
<1> QED BY <1>2, <1>3

LEMMA StartsSettled ==
  ASSUME Settled, TypeOK', NEW c \in Tealets, NEW start_switch \in BOOLEAN, NEW caller,
         Run(c, start_switch, caller) \/ Fork(c, start_switch, caller)
  PROVE  Unbound' /\ RunningAlive' /\ MainAlive' /\ ActiveCanResume' /\ Forward
<1>1. /\ c \in allocated /\ flags[c] = {} /\ c # g_current
      /\ g_current \in allocated /\ g_current \in Tealets /\ allocated \subseteq Tealets
      /\ allocated' = allocated
  BY DEF Run, Fork, IsNew, StartFails, StartRejected, Starts, Settled, Attended, Live, TypeOK
<1>2. CASE StartFails(c, start_switch) \/ StartRejected(caller)
  BY <1>2 DEF StartFails, StartRejected, Run, Fork, Starts, Settled, Unbound, RunningAlive, MainAlive,
              ActiveCanResume, Status, IsDefunct, Alive, Forward
<1>3. CASE ~StartFails(c, start_switch) /\ ~StartRejected(caller)
  <2>1. PICK own \in SUBSET Flags, held \in Frames :
          /\ "BOUND" \in own /\ "EXITED" \notin own /\ "DEFUNCT" \notin own
          /\ flags' = [flags EXCEPT ![c] = own]
          /\ \/ frame' = [frame EXCEPT ![g_current] = held] /\ g_current' = c
             \/ frame' = [frame EXCEPT ![c] = held] /\ g_current' = g_current
    BY <1>3, StartsEffect
  <2>2. \A v \in Tealets : flags'[v] = IF v = c THEN own ELSE flags[v]
    BY <2>1 DEF Settled, Attended, TypeOK
  <2>3. frame[c] = NoFrame
    BY <1>1 DEF Settled, Unbound
  <2>4. Forward
    BY <1>1, <2>2 DEF Forward
  <2>5. CASE frame' = [frame EXCEPT ![g_current] = held] /\ g_current' = c
    <3>1. \A v \in Tealets : frame'[v] = IF v = g_current THEN held ELSE frame[v]
      BY <2>5 DEF Settled, Attended, TypeOK
    <3>2. Unbound'
      BY <1>1, <2>1, <2>2, <3>1 DEF Settled, Unbound, RunningAlive, Alive
    <3>3. RunningAlive' /\ MainAlive'
      BY <1>1, <2>1, <2>2, <2>3, <2>5, <3>1, SentinelTypes, HandlesAssumption
      DEF Settled, RunningAlive, MainAlive, Alive
    <3>4. ActiveCanResume'
      <4> SUFFICES ASSUME NEW v \in allocated, v # c
                   PROVE  Status(v)' = "ACTIVE" <=> frame'[v] \in Frames
        BY <1>1, <2>5 DEF ActiveCanResume
      <4> QED BY <1>1, <2>1, <2>2, <3>1, SentinelTypes
              DEF Settled, RunningAlive, ActiveCanResume, Status, IsDefunct, Alive
    <3> QED BY <2>4, <3>2, <3>3, <3>4
  <2>6. CASE frame' = [frame EXCEPT ![c] = held] /\ g_current' = g_current
    <3>1. \A v \in Tealets : frame'[v] = IF v = c THEN held ELSE frame[v]
      BY <2>6 DEF Settled, Attended, TypeOK
    <3>2. Unbound'
      BY <1>1, <2>1, <2>2, <3>1 DEF Settled, Unbound
    <3>3. RunningAlive' /\ MainAlive'
      BY <1>1, <2>1, <2>2, <2>6, <3>1, SentinelTypes, HandlesAssumption
      DEF Settled, RunningAlive, MainAlive, Alive
    <3>4. ActiveCanResume'
      <4> SUFFICES ASSUME NEW v \in allocated, v # g_current
                   PROVE  Status(v)' = "ACTIVE" <=> frame'[v] \in Frames
        BY <1>1, <2>6 DEF ActiveCanResume
      <4> QED BY <1>1, <2>1, <2>2, <3>1, SentinelTypes
              DEF Settled, ActiveCanResume, Status, IsDefunct
    <3> QED BY <2>4, <3>2, <3>3, <3>4
  <2> QED BY <2>1, <2>4, <2>5, <2>6
<1> QED BY <1>2, <1>3

LEMMA NextSettled ==
  ASSUME OnlySwitches, Settled, TypeOK', Next
  PROVE  Unbound' /\ RunningAlive' /\ MainAlive' /\ ActiveCanResume' /\ Forward
<1> DEFINE Goal == Unbound' /\ RunningAlive' /\ MainAlive' /\ ActiveCanResume' /\ Forward
<1>1. /\ flags \in [Tealets -> SUBSET Flags] /\ DOMAIN frame = Tealets
      /\ g_current \in Tealets \cap allocated /\ Main \in Tealets \cap allocated
      /\ allocated \subseteq Tealets
  BY HandlesAssumption DEF Settled, Attended, TypeOK, Live
<1>2. ASSUME NEW t \in Tealets, New(t) PROVE Goal
  BY <1>1, <1>2, SentinelTypes
  DEF New, Settled, Unbound, RunningAlive, MainAlive, ActiveCanResume, Status, IsDefunct, Alive, Forward
<1>3. ASSUME NEW t \in Tealets, Delete(t) PROVE Goal
  <2>1. /\ \A v \in Tealets : flags'[v] = IF v = t THEN {} ELSE flags[v]
        /\ \A v \in Tealets : frame'[v] = IF v = t THEN NoFrame ELSE frame[v]
        /\ allocated' = allocated \ {t} /\ t # g_current /\ t # Main /\ g_current' = g_current
    BY <1>1, <1>3 DEF Delete
  <2>2. Unbound' /\ RunningAlive' /\ MainAlive' /\ Forward
    BY <1>1, <2>1 DEF Settled, Unbound, RunningAlive, MainAlive, Alive, Forward
  <2>3. ActiveCanResume'
    BY <1>1, <2>1 DEF Settled, ActiveCanResume, Status, IsDefunct
  <2> QED BY <2>2, <2>3
<1>4. ASSUME NEW t \in Tealets, NEW caller \in Callers, Return(t, caller) PROVE Goal
  <2>1. t \in allocated
    BY <1>4 DEF Return, CanBeTarget
  <2> DEFINE opts == (IF g_flags = NoExit THEN {} ELSE g_flags \ {"DEFER"}) \cup {"NOFAIL"}
  <2> DEFINE told == IF caller = "none" THEN "none" ELSE "ABORT"
  <2>2. Xfer(t, opts, TRUE, told) /\ g_current # Main
    BY <1>4 DEF Return
  <2> HIDE DEF opts, told
  <2> QED BY <2>1, <2>2, XferSettled
<1>5. ASSUME NEW t \in Tealets, NEW copy \in Tealets, Duplicate(t, copy) PROVE Goal
  <2>1. /\ \A v \in Tealets : flags'[v] = IF v = copy THEN flags[t] ELSE flags[v]
        /\ \A v \in Tealets : frame'[v] = IF v = copy THEN frame[t] ELSE frame[v]
        /\ allocated' = allocated \cup {copy} /\ copy \notin allocated
        /\ t \in allocated \ {g_current} /\ g_current' = g_current
    BY <1>1, <1>5 DEF Duplicate
  <2>2. Unbound' /\ RunningAlive' /\ MainAlive' /\ Forward
    BY <1>1, <2>1 DEF Settled, Unbound, RunningAlive, MainAlive, Alive, Forward
  <2>3. ActiveCanResume'
    BY <1>1, <2>1 DEF Settled, ActiveCanResume, Status, IsDefunct
  <2> QED BY <2>2, <2>3
<1>6. ASSUME NEW c \in Tealets, NEW start_switch \in BOOLEAN, NEW caller \in Callers,
             Run(c, start_switch, caller) \/ Fork(c, start_switch, caller)
      PROVE  Goal
  BY <1>6, StartsSettled
<1>7. ASSUME NEW t \in Tealets, NEW opts, NEW caller \in Callers, Switch(t, opts, caller)
      PROVE  Goal
  BY <1>7, XferSettled DEF Switch
<1>8. ASSUME NEW t \in Tealets, NEW opts, NEW caller \in Callers, Exit(t, opts, caller)
      PROVE  Goal
  BY <1>8, XferSettled DEF Exit
<1>9. ASSUME NEW t \in Tealets, NEW opts \in Deferrals, NEW arg \in Args, Defer(t, opts, arg)
      PROVE  Goal
  BY <1>9 DEF Defer, Settled, Unbound, RunningAlive, MainAlive, ActiveCanResume, Status,
              IsDefunct, Alive, Forward
<1>10. CASE Aborted
  BY <1>10 DEF Aborted, vars, Settled, Unbound, RunningAlive, MainAlive, ActiveCanResume,
               Status, IsDefunct, Alive, Forward
<1> QED BY <1>2, <1>3, <1>4, <1>5, <1>6, <1>7, <1>8, <1>9, <1>10 DEF Next

LEMMA SettledHolds ==
  ASSUME OnlySwitches
  PROVE  Spec => []Settled
<1>1. NoAstray
  BY DEF OnlySwitches, NoAstray
<1>2. Init /\ Attended => Settled
  BY HandlesAssumption, SentinelTypes
  DEF Init, Settled, Unbound, RunningAlive, MainAlive, ActiveCanResume, Alive
<1>3. Attended /\ Attended' /\ Settled /\ [Next]_vars => Settled'
  <2>1. CASE Next
    BY <2>1, NextSettled DEF Settled, Attended
  <2>2. CASE UNCHANGED vars
    BY <2>2 DEF vars, Settled, Unbound, RunningAlive, MainAlive, ActiveCanResume, Status,
                IsDefunct, Alive
  <2> QED BY <2>1, <2>2
<1>4. Spec => []Attended
  BY <1>1, AttendedHolds
<1> QED BY <1>2, <1>3, <1>4, PTL DEF Spec

(* As long as PANIC reaches only calls of tealet_switch(), whatever        *)
(* memory runs out: TEALET_STATUS_ACTIVE is what the suspended tealets     *)
(* with a usable stack report, and nobody else.                            *)
THEOREM ActiveCanResumeHolds ==
  ASSUME PanicReaches \subseteq {"switch"}
  PROVE  Spec => []ActiveCanResume
<1>1. Settled => ActiveCanResume
  BY DEF Settled
<1>2. Spec => []Settled
  BY SettledHolds DEF OnlySwitches
<1> QED BY <1>1, <1>2, PTL

(* Under the same condition no tealet that was started is NEW again, and   *)
(* none that exited or is defunct is anything else before it is deleted.   *)
THEOREM StatusForwardHolds ==
  ASSUME PanicReaches \subseteq {"switch"}
  PROVE  Spec => StatusForward
<1>1. TypeOK' /\ Settled /\ [Next]_vars => [Forward]_vars
  BY NextSettled DEF OnlySwitches
<1>2. Spec => []Settled
  BY SettledHolds DEF OnlySwitches
<1> QED BY <1>1, <1>2, TransferTypeCorrect, PTL DEF Spec, StatusForward, Forward

---------------------------------------------------------------------------
(* Every step of the API is a step of the coroutines, or invisible.        *)

(* What a tealet that does not run looks like to the coroutines. *)
AtRest(t) ==
  IF Status(t) = "NEW" THEN "new"
  ELSE IF Status(t) = "EXITED" THEN "exited"
  ELSE IF Status(t) = "DEFUNCT" THEN "lost"
  ELSE "suspended"

LEMMA PhaseOf ==
  ASSUME Settled, NEW t \in Tealets
  PROVE  Phase[t] = IF t \notin allocated THEN "free"
                    ELSE IF t = g_current THEN "running" ELSE AtRest(t)
BY DEF Phase, AtRest, Settled, Attended, CurrentRuns, ActiveCanResume, Status

(* A saved stack is a suspended coroutine. *)
LEMMA PhaseSuspended ==
  ASSUME Settled, NEW t \in Tealets, frame[t] \in Frames
  PROVE  Phase[t] = "suspended"
BY FramesActive, PhaseOf DEF AtRest

LEMMA PhaseRunning ==
  ASSUME Settled
  PROVE  g_current \in Tealets /\ Phase[g_current] = "running"
BY PhaseOf DEF Settled, Attended, Live, TypeOK

LEMMA PhaseOfNext ==
  ASSUME Settled', NEW t \in Tealets
  PROVE  Phase'[t] = IF t \notin allocated' THEN "free"
                     ELSE IF t = g_current' THEN "running" ELSE AtRest(t)'
BY DEF Phase, AtRest, Settled, Attended, CurrentRuns, ActiveCanResume, Status

LEMMA PhaseUnchanged ==
  ASSUME UNCHANGED <<g_current, allocated, flags, frame, running>>
  PROVE  Phase' = Phase
BY DEF Phase, Status, IsDefunct

(* What an outgoing tealet becomes. *)
EndOf(out) ==
  IF out = Freed THEN "free"
  ELSE IF out = Exited THEN "exited"
  ELSE IF out = Suspended THEN "suspended" ELSE "lost"

LEMMA MovesPhase ==
  ASSUME Settled, Settled', NEW t \in Tealets, frame[t] \in Frames,
         NEW exiting \in BOOLEAN, NEW fl, Remarked(fl),
         NEW out, NEW lost, MayLeave(exiting, t, out, lost), MovesTo(t, fl, out, lost)
  PROVE  \A v \in Tealets :
           Phase'[v] = IF v = t THEN "running"
                       ELSE IF v = g_current THEN EndOf(out)
                       ELSE IF v \in lost THEN "lost" ELSE Phase[v]
<1> SUFFICES ASSUME NEW v \in Tealets
             PROVE  Phase'[v] = IF v = t THEN "running"
                                ELSE IF v = g_current THEN EndOf(out)
                                ELSE IF v \in lost THEN "lost" ELSE Phase[v]
  OBVIOUS
<1>1. /\ t \in allocated \ {g_current} /\ g_current \in Tealets \cap allocated
      /\ Alive(g_current)
  BY FramesActive DEF Settled, RunningAlive, Attended, Live, TypeOK
<1>2. CASE v = t
  BY <1>1, <1>2, PhaseOfNext DEF MovesTo
<1>3. CASE v = g_current
  <2>1. Phase'[v] = IF out = Freed THEN "free" ELSE AtRest(v)'
    BY <1>1, <1>3, PhaseOfNext DEF MovesTo
  <2>2. CASE out = Freed
    BY <1>1, <1>3, <2>1, <2>2 DEF EndOf
  <2>3. CASE out = Exited
    BY <1>1, <1>3, <2>1, <2>3 DEF MovesTo, Alive, EndOf, AtRest, Status, Exited, Freed
  <2>4. CASE out = Suspended
    BY <1>1, <1>3, <2>1, <2>4, SentinelTypes
    DEF MovesTo, Alive, EndOf, AtRest, Status, IsDefunct, Suspended, Exited, Freed
  <2>5. CASE out = Unsaved
    BY <1>1, <1>3, <2>1, <2>5, SentinelTypes
    DEF MovesTo, Alive, EndOf, AtRest, Status, IsDefunct, Unsaved, Suspended, Exited, Freed
  <2> QED BY <1>1, <1>3, <2>2, <2>3, <2>4, <2>5 DEF MayLeave
<1>4. CASE v # t /\ v # g_current /\ v \in lost
  <2>1. frame[v] \in Frames /\ v \in allocated /\ Alive(v)
    BY <1>4, FramesActive, ActiveFrames DEF MayLeave
  <2>2. Phase'[v] = AtRest(v)'
    BY <1>4, <2>1, PhaseOfNext DEF MovesTo
  <2> QED BY <1>4, <2>1, <2>2, SentinelTypes DEF MovesTo, Remarked, Alive, AtRest, Status, IsDefunct
<1>5. CASE v # t /\ v # g_current /\ v \notin lost
  <2>1. frame'[v] = frame[v] /\ flags'[v] = fl[v]
    BY <1>5 DEF MovesTo
  <2>2. AtRest(v)' = AtRest(v)
    <3>1. "BOUND" \notin flags[v] => ~IsDefunct(v)
      BY SentinelTypes DEF Settled, Unbound, IsDefunct
    <3> QED BY <2>1, <3>1 DEF Remarked, AtRest, Status, IsDefunct
  <2> QED BY <1>5, <2>2, PhaseOf, PhaseOfNext DEF MovesTo
<1> QED BY <1>2, <1>3, <1>4, <1>5

(* Transfers are refined by C!Switch and C!Exit. *)
LEMMA MovesImplements ==
  ASSUME Forcing, Settled, Settled', NEW t \in Tealets, frame[t] \in Frames,
         NEW exiting \in BOOLEAN, exiting => g_current # Main, NEW fl, Remarked(fl),
         NEW out, NEW lost, MayLeave(exiting, t, out, lost), MovesTo(t, fl, out, lost)
  PROVE  C!Next
<1>1. t # g_current /\ Phase[t] = "suspended" /\ Phase[g_current] = "running" /\ g_current \in Tealets
  BY FramesActive, PhaseSuspended, PhaseRunning
<1>2. lost \in SUBSET (C!Victims \ {t})
  BY PhaseSuspended DEF MayLeave, C!Victims
<1>3. Phase' = [C!Losing(lost) EXCEPT ![g_current] = EndOf(out), ![t] = "running"]
  <2>1. Phase' = [v \in Tealets |-> Phase'[v]]
    BY DEF Phase
  <2> QED BY <1>1, <2>1, MovesPhase DEF C!Losing
<1>4. CASE exiting
  <2>1. EndOf(out) \in {"exited", "free"}
    BY <1>4 DEF MayLeave, EndOf
  <2>2. C!Exit(g_current, t)
    BY <1>1, <1>2, <1>3, <1>4, <2>1 DEF C!Exit
  <2> QED BY <1>1, <2>2 DEF C!Next
<1>5. CASE ~exiting
  <2>1. EndOf(out) \in {"suspended", "lost"} /\ (EndOf(out) = "lost" => g_current # Main)
    <3>1. CASE out = Suspended
      <4>1. out.frame = InSwitch /\ Freed.frame = NoFrame /\ Exited.frame = NoFrame
        BY <3>1 DEF Suspended, Freed, Exited
      <4> QED BY <3>1, <4>1, SentinelTypes DEF EndOf
    <3>2. CASE out = Unsaved /\ g_current # Main
      <4>1. out.freed = FALSE /\ Freed.freed = TRUE /\ "EXITED" \notin out.flags /\ "EXITED" \in Exited.flags
        BY <3>2 DEF Unsaved, Freed, Exited, Settled, RunningAlive, Alive
      <4> QED BY <3>2, <4>1 DEF EndOf
    <3> QED BY <1>5, <3>1, <3>2 DEF MayLeave
  <2>2. C!Switch(g_current, t)
    BY <1>1, <1>2, <1>3, <2>1 DEF C!Switch
  <2> QED BY <1>1, <2>2 DEF C!Next
<1> QED BY <1>4, <1>5

LEMMA MarkedPhase ==
  ASSUME Settled, Settled', NEW t \in Tealets,
         flags' = Marked(t), UNCHANGED <<g_current, allocated, frame, running>>
  PROVE  Phase' = Phase
<1>0. TypeOK
  BY DEF Settled, Attended
<1>1. Remarked(flags')
  BY <1>0, MarkedRemarked
<1>2. \A v \in Tealets : "BOUND" \notin flags[v] => ~IsDefunct(v)
  BY SentinelTypes DEF Settled, Unbound, IsDefunct
<1>3. \A v \in Tealets : AtRest(v)' = AtRest(v)
  BY <1>1, <1>2 DEF Remarked, AtRest, Status, IsDefunct
<1>4. \A v \in Tealets : Phase'[v] = Phase[v]
  BY <1>3, PhaseOf, PhaseOfNext
<1> QED BY <1>4 DEF Phase

LEMMA AttemptsImplements ==
  ASSUME OnlySwitches, Forcing, Settled, Settled', NEW t \in allocated, NEW opts,
         NEW exiting \in BOOLEAN, exiting => g_current # Main, Attempts(t, opts, exiting)
  PROVE  C!Next \/ Phase' = Phase
<1> DEFINE used == IF "NOFAIL" \in opts THEN opts \cup {"FORCE"} ELSE opts
<1>1. t \in Tealets /\ Main \in allocated /\ Main \in Tealets /\ TypeOK
  BY HandlesAssumption DEF Settled, Attended, TypeOK, Live
<1>2. CASE Transfers(t, used, exiting)
  <2>1. Refusal(t, exiting) = "none" /\ Moves(t, used, exiting, flags)
    BY <1>2 DEF Transfers
  <2> HIDE DEF used
  <2>2. frame[t] \in Frames
    BY <2>1, NotRefused, ActiveFrames DEF Status
  <2>3. Remarked(flags)
    BY <1>1, FlagsRemarked
  <2>4. \E out, lost : MayLeave(exiting, t, out, lost) /\ MovesTo(t, flags, out, lost)
    BY <1>1, <2>1, <2>2, <2>3, MovesEffect
  <2> QED BY <1>1, <2>2, <2>3, <2>4, MovesImplements
<1>3. CASE UNCHANGED <<g_current, allocated, flags, frame, running>>
  BY <1>3, PhaseUnchanged
<1>4. CASE /\ flags' = Marked(t)
           /\ UNCHANGED <<g_current, allocated, frame, running>>
  BY <1>1, <1>4, MarkedPhase
<1>5. CASE RunsOut(t, used, exiting)
  <2>1. PICK lost \in Sacrifices(t, used) : frame' = Without(lost)
    BY <1>5 DEF RunsOut
  <2>2. UNCHANGED <<g_current, allocated, flags>>
    BY <1>5 DEF RunsOut
  <2>3. lost \subseteq {v \in Tealets \ {Main, t} : frame[v] \in Frames}
    BY <2>1 DEF Sacrifices
  <2>4. \A v \in Tealets : frame'[v] = IF v \in lost THEN Lost ELSE frame[v]
    BY <2>1 DEF Without
  <2>5. lost \in SUBSET C!Victims
    BY <2>3, PhaseSuspended DEF C!Victims
  <2>6. \A v \in Tealets : Phase'[v] = IF v \in lost THEN "lost" ELSE Phase[v]
    <3> SUFFICES ASSUME NEW v \in Tealets
                 PROVE  Phase'[v] = IF v \in lost THEN "lost" ELSE Phase[v]
      OBVIOUS
    <3>1. CASE v \in lost
      <4>1. v \in allocated \ {g_current} /\ Alive(v)
        BY <2>3, <3>1, FramesActive, ActiveFrames
      <4>2. Phase'[v] = AtRest(v)'
        BY <2>2, <4>1, PhaseOfNext
      <4> QED BY <2>2, <2>4, <3>1, <4>1, <4>2, SentinelTypes DEF Alive, AtRest, Status, IsDefunct
    <3>2. CASE v \notin lost
      <4>1. AtRest(v)' = AtRest(v)
        BY <2>2, <2>4, <3>2 DEF AtRest, Status, IsDefunct
      <4> QED BY <2>2, <3>2, <4>1, PhaseOf, PhaseOfNext
    <3> QED BY <3>1, <3>2
  <2>7. Phase' = C!Losing(lost)
    <3>1. Phase' = [v \in Tealets |-> Phase'[v]]
      BY DEF Phase
    <3> QED BY <2>6, <3>1 DEF C!Losing
  <2> QED BY <2>5, <2>7 DEF C!Next, C!Sacrifice
<1>6. CASE FallsBack(t, used, exiting) /\ g_current # Main
  <2>1. Moves(Main, used \cup {"PANIC"}, exiting, Marked(t))
    BY <1>6 DEF FallsBack
  <2> DEFINE more == used \cup {"PANIC"}
  <2>2. Moves(Main, more, exiting, Marked(t))
    BY <2>1
  <2> HIDE DEF more
  <2>3. frame[Main] \in Frames
    BY <1>1, <1>6, ActiveFrames DEF Settled, MainAlive, Alive, Status, IsDefunct
  <2>4. Remarked(Marked(t))
    BY <1>1, MarkedRemarked
  <2>5. \E out, lost : MayLeave(exiting, Main, out, lost) /\ MovesTo(Main, Marked(t), out, lost)
    BY <1>1, <2>2, <2>3, <2>4, MovesEffect
  <2> QED BY <1>1, <2>3, <2>4, <2>5, MovesImplements
<1>7. CASE FallsBack(t, used, exiting) /\ g_current = Main
  BY <1>4, <1>7 DEF FallsBack
<1> QED BY <1>2, <1>3, <1>4, <1>5, <1>6, <1>7
        DEF Attempts, Refused, SwitchesToSelf, FindsDefunct

LEMMA XferImplements ==
  ASSUME OnlySwitches, Forcing, Settled, Settled', NEW t \in allocated, NEW opts,
         NEW exiting \in BOOLEAN, exiting => g_current # Main,
         NEW caller, Xfer(t, opts, exiting, caller)
  PROVE  C!Next \/ Phase' = Phase
<1>1. CASE Attempts(t, opts, exiting)
  BY <1>1, AttemptsImplements
<1>2. CASE Rejected(t, caller)
  <2>1. t \in Tealets
    BY DEF Settled, Attended, TypeOK
  <2> QED BY <1>2, <2>1, MarkedPhase DEF Rejected
<1> QED BY <1>1, <1>2, XferCases

LEMMA StartsImplements ==
  ASSUME Settled, Settled', NEW c \in Tealets, NEW start_switch \in BOOLEAN, NEW caller,
         Run(c, start_switch, caller) \/ Fork(c, start_switch, caller)
  PROVE  C!Next \/ Phase' = Phase
<1>1. c \in allocated /\ flags[c] = {} /\ c # g_current /\ allocated' = allocated
  BY DEF Run, Fork, IsNew, StartFails, StartRejected, Starts
<1>2. CASE StartFails(c, start_switch) \/ StartRejected(caller)
  BY <1>2, PhaseUnchanged DEF StartFails, StartRejected, Run, Fork, Starts
<1>3. CASE ~StartFails(c, start_switch) /\ ~StartRejected(caller)
  <2>1. PICK own \in SUBSET Flags, held \in Frames :
          /\ "BOUND" \in own /\ "EXITED" \notin own /\ "DEFUNCT" \notin own
          /\ flags' = [flags EXCEPT ![c] = own]
          /\ \/ frame' = [frame EXCEPT ![g_current] = held] /\ g_current' = c
             \/ frame' = [frame EXCEPT ![c] = held] /\ g_current' = g_current
    BY <1>3, StartsEffect
  <2>2. \A v \in Tealets : flags'[v] = IF v = c THEN own ELSE flags[v]
    BY <2>1 DEF Settled, Attended, TypeOK
  <2>3. Phase[c] = "new" /\ Phase[g_current] = "running" /\ g_current \in Tealets
    BY <1>1, PhaseOf, PhaseRunning DEF AtRest, Status
  <2>4. Alive(g_current)
    BY DEF Settled, RunningAlive
  <2>5. CASE frame' = [frame EXCEPT ![g_current] = held] /\ g_current' = c
    <3>1. \A v \in Tealets : frame'[v] = IF v = g_current THEN held ELSE frame[v]
      BY <2>5 DEF Settled, Attended, TypeOK
    <3>2. \A v \in Tealets : Phase'[v] = IF v = c THEN "running"
                                         ELSE IF v = g_current THEN "suspended" ELSE Phase[v]
      <4> SUFFICES ASSUME NEW v \in Tealets, v # c
                   PROVE  Phase'[v] = IF v = g_current THEN "suspended" ELSE Phase[v]
        BY <1>1, <2>5, PhaseOfNext
      <4>1. CASE v = g_current
        BY <1>1, <2>2, <2>3, <2>4, <2>5, <3>1, <4>1, PhaseOf, PhaseOfNext, SentinelTypes
        DEF AtRest, Status, IsDefunct, Alive
      <4>2. CASE v # g_current
        <5>1. AtRest(v)' = AtRest(v)
          BY <2>2, <3>1, <4>2 DEF AtRest, Status, IsDefunct
        <5> QED BY <1>1, <2>5, <4>2, <5>1, PhaseOf, PhaseOfNext
      <4> QED BY <4>1, <4>2
    <3>3. Phase' = [Phase EXCEPT ![g_current] = "suspended", ![c] = "running"]
      BY <1>1, <2>3, <3>2 DEF Phase
    <3> QED BY <2>3, <3>3 DEF C!Next, C!Start
  <2>6. CASE frame' = [frame EXCEPT ![c] = held] /\ g_current' = g_current
    <3>1. \A v \in Tealets : frame'[v] = IF v = c THEN held ELSE frame[v]
      BY <2>6 DEF Settled, Attended, TypeOK
    <3>2. \A v \in Tealets : Phase'[v] = IF v = c THEN "suspended" ELSE Phase[v]
      <4> SUFFICES ASSUME NEW v \in Tealets
                   PROVE  Phase'[v] = IF v = c THEN "suspended" ELSE Phase[v]
        OBVIOUS
      <4>1. CASE v = c
        BY <1>1, <2>1, <2>2, <2>6, <3>1, <4>1, PhaseOfNext, SentinelTypes
        DEF AtRest, Status, IsDefunct
      <4>2. CASE v # c
        <5>1. AtRest(v)' = AtRest(v)
          BY <2>2, <3>1, <4>2 DEF AtRest, Status, IsDefunct
        <5> QED BY <1>1, <2>6, <4>2, <5>1, PhaseOf, PhaseOfNext
      <4> QED BY <4>1, <4>2
    <3>3. Phase' = [Phase EXCEPT ![c] = "suspended"]
      BY <3>2 DEF Phase
    <3> QED BY <2>3, <3>3 DEF C!Next, C!Start
  <2> QED BY <2>1, <2>5, <2>6
<1> QED BY <1>2, <1>3

LEMMA NextImplements ==
  ASSUME OnlySwitches, Forcing, Settled, Settled', Next
  PROVE  C!Next \/ Phase' = Phase
<1> DEFINE Goal == C!Next \/ Phase' = Phase
<1>1. /\ flags \in [Tealets -> SUBSET Flags] /\ frame \in [Tealets -> Frames \cup {NoFrame, Lost}]
      /\ Main \in Tealets
      /\ Phase[Main] \in {"running", "suspended"}
      /\ DOMAIN Phase = Tealets
  <2>1. Phase[Main] \in {"running", "suspended"}
    BY PhaseOf, HandlesAssumption
    DEF Settled, Attended, Live, MainAlive, Alive, AtRest, Status, IsDefunct
  <2> QED BY <2>1, HandlesAssumption DEF Settled, Attended, TypeOK, Phase
<1>2. ASSUME NEW t \in Tealets, New(t) PROVE Goal
  <2>1. /\ allocated' = allocated \cup {t} /\ t \notin allocated
        /\ UNCHANGED <<flags, frame, g_current>> /\ "BOUND" \notin flags[t]
    BY <1>2 DEF New, Settled, Unbound
  <2>2. Phase[t] = "free" /\ Phase'[t] = "new"
    BY <2>1, PhaseOf, PhaseOfNext DEF AtRest, Status, Settled, Attended, Live
  <2>3. \A v \in Tealets \ {t} : Phase'[v] = Phase[v]
    BY <2>1, PhaseOf, PhaseOfNext DEF AtRest, Status, IsDefunct
  <2>4. Phase' = [Phase EXCEPT ![t] = "new"]
    BY <2>2, <2>3 DEF Phase
  <2> QED BY <2>2, <2>4 DEF C!Next, C!New
<1>3. ASSUME NEW t \in Tealets, Delete(t) PROVE Goal
  <2>1. /\ allocated' = allocated \ {t} /\ t \in allocated \ {g_current, Main} /\ g_current' = g_current
        /\ \A v \in Tealets \ {t} : flags'[v] = flags[v] /\ frame'[v] = frame[v]
    BY <1>1, <1>3 DEF Delete
  <2>2. Phase[t] # "running" /\ Phase'[t] = "free"
    BY <2>1, PhaseOf, PhaseOfNext DEF AtRest
  <2>3. \A v \in Tealets \ {t} : Phase'[v] = Phase[v]
    BY <2>1, PhaseOf, PhaseOfNext DEF AtRest, Status, IsDefunct
  <2>4. Phase' = [Phase EXCEPT ![t] = "free"]
    BY <2>2, <2>3 DEF Phase
  <2> QED BY <2>1, <2>2, <2>4 DEF C!Next, C!Delete
<1>4. ASSUME NEW t \in Tealets, NEW caller \in Callers, Return(t, caller) PROVE Goal
  <2>1. t \in allocated
    BY <1>4 DEF Return, CanBeTarget
  <2> DEFINE opts == (IF g_flags = NoExit THEN {} ELSE g_flags \ {"DEFER"}) \cup {"NOFAIL"}
  <2> DEFINE told == IF caller = "none" THEN "none" ELSE "ABORT"
  <2>2. Xfer(t, opts, TRUE, told) /\ g_current # Main
    BY <1>4 DEF Return
  <2> HIDE DEF opts, told
  <2> QED BY <2>1, <2>2, XferImplements
<1>5. ASSUME NEW t \in Tealets, NEW copy \in Tealets, Duplicate(t, copy) PROVE Goal
  <2>1. /\ Duplicating
        /\ allocated' = allocated \cup {copy} /\ copy \notin allocated
        /\ t \in allocated \ {g_current, Main} /\ g_current' = g_current
        /\ flags'[copy] = flags[t] /\ frame'[copy] = frame[t]
        /\ \A v \in Tealets \ {copy} : flags'[v] = flags[v] /\ frame'[v] = frame[v]
    BY <1>1, <1>5 DEF Duplicate
  <2>2. g_current \in allocated
    BY DEF Settled, Attended, Live
  <2>3. Phase[copy] = "free" /\ Phase[t] = AtRest(t)
    BY <2>1, PhaseOf
  <2>4. Phase'[copy] = AtRest(copy)' /\ AtRest(copy)' = AtRest(t)
    BY <2>1, <2>2, PhaseOfNext DEF AtRest, Status, IsDefunct
  <2>5. \A v \in Tealets \ {copy} : Phase'[v] = Phase[v]
    BY <2>1, PhaseOf, PhaseOfNext DEF AtRest, Status, IsDefunct
  <2>6. Phase' = [Phase EXCEPT ![copy] = Phase[t]]
    <3>1. Phase = [v \in Tealets |-> Phase[v]] /\ Phase' = [v \in Tealets |-> Phase'[v]]
      BY DEF Phase
    <3> QED BY <2>3, <2>4, <2>5, <3>1
  <2>7. Phase[t] \notin {"free", "running"}
    BY <2>3 DEF AtRest
  <2>8. C!Duplicate(t, copy)
    BY <2>1, <2>3, <2>6, <2>7 DEF C!Duplicate
  <2> QED BY <2>8 DEF C!Next
<1>6. ASSUME NEW c \in Tealets, NEW start_switch \in BOOLEAN, NEW caller \in Callers,
             Run(c, start_switch, caller) \/ Fork(c, start_switch, caller)
      PROVE  Goal
  BY <1>6, StartsImplements
<1>7. ASSUME NEW t \in Tealets, NEW opts, NEW caller \in Callers, Switch(t, opts, caller)
      PROVE  Goal
  BY <1>7, XferImplements DEF Switch
<1>8. ASSUME NEW t \in Tealets, NEW opts, NEW caller \in Callers, Exit(t, opts, caller)
      PROVE  Goal
  BY <1>8, XferImplements DEF Exit
<1>9. ASSUME NEW t \in Tealets, NEW opts \in Deferrals, NEW arg \in Args, Defer(t, opts, arg)
      PROVE  Goal
  BY <1>9, PhaseUnchanged DEF Defer
<1>10. CASE Aborted
  BY <1>10, PhaseUnchanged DEF Aborted, vars
<1> QED BY <1>2, <1>3, <1>4, <1>5, <1>6, <1>7, <1>8, <1>9, <1>10 DEF Next

(* The API is a set of coroutines.  An implicit return of run() is always  *)
(* forced, so memory that runs out always needs Forcing.                   *)
THEOREM TransferImplementsCoroutines ==
  ASSUME PanicReaches \subseteq {"switch"}, Forcing
  PROVE  Spec => ImplementsCoroutines
<1>1. Init => C!Init
  BY HandlesAssumption DEF Init, C!Init, Phase
<1>2. Settled /\ Settled' /\ [Next]_vars => [C!Next]_Phase
  <2>1. CASE Next
    BY <2>1, NextImplements DEF OnlySwitches
  <2>2. CASE UNCHANGED vars
    BY <2>2, PhaseUnchanged DEF vars
  <2> QED BY <2>1, <2>2
<1>3. Spec => []Settled
  BY SettledHolds DEF OnlySwitches
<1> QED BY <1>1, <1>2, <1>3, PTL DEF Spec, ImplementsCoroutines, C!Spec

=============================================================================
