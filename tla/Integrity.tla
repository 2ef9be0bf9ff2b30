----------------------------- MODULE Integrity -----------------------------
(***************************************************************************)
(* Stack integrity (src/src/tealet.c): while a tealet runs, some bytes     *)
(* beyond its far boundary, which belong to the tealets that called it,    *)
(* are guarded by the kernel in whole pages and the rest is copied, to be  *)
(* compared when it transfers.                                             *)
(*                                                                         *)
(* What is hard about it: the plan is made after a transfer and taken down *)
(* before the next, with refusals, failures and reconfiguration between,   *)
(* and a page that stays guarded, or is guarded for the wrong tealet, is a *)
(* crash in code that did nothing wrong.                                   *)
(*                                                                         *)
(* The stack is a row of addresses.  A call of tealet_run() takes two:     *)
(* its frame, whose address is the new tealet's boundary, and the stub's.  *)
(***************************************************************************)
EXTENDS Configuration

CONSTANTS
  Tealets,     \* tealet handles
  Main,        \* the main tealet
  Probe,       \* g_main_stack_probe: the frame of tealet_initialize()
  DefaultMax,  \* TEALET_DEFAULT_MAX_STACK_SIZE
  Asked,       \* the requests that the application makes, with their size
  Windows,     \* the bytes that it asks tealet_configure_check_stack() for
  KernelFails  \* whether mprotect() may fail half-way, and in opening pages

ASSUME IntegrityAssumption ==
  /\ Main \in Tealets
  /\ Probe \in Addresses /\ DefaultMax \in Nat
  /\ \A r \in Asked : /\ r.config \in Requests
                      /\ r.size \in 0 .. 6
                      /\ Probe + r.config.bytes < Furthest
  /\ Windows \subseteq Nat
  /\ KernelFails \in BOOLEAN

VARIABLES
  alive,       \* whether the domain is initialized
  cfg,         \* g_cfg_*
  capacity,    \* snapshot_capacity of g_integrity_data
  plan,        \* the rest of g_integrity_data
  denied,      \* the addresses that the kernel lets nobody write
  differs,     \* the copied addresses whose bytes are no longer those copied
  overrun,     \* those that the running tealet wrote beyond its boundary
  strays,      \* history: the addresses that failing calls of mprotect() left
               \* denied, and that no later call opened or put on record
  misplanned,  \* whether the plan was made for a boundary that is not its own
  status,      \* "new", "suspended", "running" or "exited"
  far,         \* stack_far
  near,        \* the stack pointer of each suspended tealet
  sp,          \* that of the running one
  g_current    \* the tealet that runs

watching == <<plan, denied, strays, differs, overrun, misplanned>>
tealets == <<status, far, near, g_current>>
vars == <<alive, cfg, capacity, watching, tealets, sp>>

---------------------------------------------------------------------------
Init ==
  /\ alive = TRUE
  /\ cfg = Initial(DefaultMax)
  /\ capacity = 0
  /\ plan = NoPlan /\ denied = {} /\ strays = {}
  /\ differs = {} /\ overrun = {} /\ misplanned = FALSE
  /\ status = [t \in Tealets |-> IF t = Main THEN "running" ELSE "new"]
  /\ far = [t \in Tealets |-> Furthest]
  /\ near = [t \in Tealets |-> Probe]
  /\ sp = Probe
  /\ g_current = Main

(* tealet_initialize(), again.  The kernel remembers what it denies.       *)
Initialize ==
  /\ ~alive
  /\ alive' = TRUE
  /\ cfg' = Initial(DefaultMax)
  /\ capacity' = 0
  /\ plan' = NoPlan /\ differs' = {} /\ overrun' = {} /\ misplanned' = FALSE
  /\ status' = [t \in Tealets |-> IF t = Main THEN "running" ELSE "new"]
  /\ far' = [t \in Tealets |-> Furthest]
  /\ near' = [t \in Tealets |-> Probe]
  /\ sp' = Probe
  /\ g_current' = Main
  /\ UNCHANGED <<denied, strays>>

(* tealet_set_far(): once, with a marker in a frame that called this one.  *)
(* Other tealets are refused.                                              *)
SetFar(marker) ==
  /\ alive
  /\ g_current = Main /\ far[Main] = Furthest
  /\ marker \in sp + 1 .. Probe
  /\ far' = [far EXCEPT ![Main] = marker]
  /\ UNCHANGED <<alive, cfg, capacity, watching, status, near, sp, g_current>>

(* Mutant: a larger block is taken for the old copy. *)
EnsureCapacityKept(required) ==
  IF required <= capacity
  THEN UNCHANGED <<capacity, plan, differs, overrun>>
  ELSE /\ capacity' = required
       /\ differs' = Copied(plan)
       /\ UNCHANGED <<plan, overrun>>

(* tealet_snapshot_ensure_capacity(): a larger block drops the old copy.   *)
EnsureCapacity(required) ==
  IF required <= capacity
  THEN UNCHANGED <<capacity, plan, differs, overrun>>
  ELSE /\ capacity' = required
       /\ plan' = [plan EXCEPT !.base = 0, !.bytes = 0]
       /\ differs' = {} /\ overrun' = {}

(* tealet_configure_set() at any time.  It may find no memory for the      *)
(* copies, and then it changes nothing.                                    *)
ConfigureSet(r) ==
  /\ alive
  /\ cfg' = Canonical(Prefixed(r.config, r.size, Initial(cfg.max)))
  /\ EnsureCapacity(RequiredCapacity(cfg'))
  /\ UNCHANGED <<alive, denied, strays, misplanned, tealets, sp>>

(* tealet_configure_get(): what is stored, made canonical once more.       *)
ConfigureGet == Canonical(cfg)

(* tealet_configure_check_stack(): its own frame is the limit, and a page  *)
(* is watched unless the caller asks for another number of bytes.          *)
CheckStack(bytes) ==
  /\ sp > 0
  /\ ConfigureSet([config |->
       [flags |-> Flags, bytes |-> IF bytes = 0 THEN PageSize ELSE bytes, mode |-> "NOACCESS",
        policy |-> "ERROR", limit |-> sp - 1, max |-> DefaultMax], size |-> 6])

---------------------------------------------------------------------------
(* The program.                                                            *)

Writes(a) ==
  /\ a \notin denied
  /\ differs' = differs \cup ({a} \cap Copied(plan))
  /\ overrun' = IF a >= far[g_current] THEN overrun \cup ({a} \cap Copied(plan)) ELSE overrun
  /\ UNCHANGED <<alive, cfg, capacity, plan, denied, strays, misplanned, tealets>>

(* The running tealet writes to its frames, or beyond them.  Where the     *)
(* kernel denies it, the process dies.                                     *)
Write(a) ==
  /\ alive
  /\ a >= sp
  /\ Writes(a)
  /\ UNCHANGED sp

(* It calls a function, or returns from one.                               *)
Push ==
  /\ alive
  /\ sp > 0
  /\ sp' = sp - 1
  /\ Writes(sp - 1)

Pop ==
  /\ alive
  /\ sp < Probe /\ sp + 1 < far[g_current]
  /\ sp' = sp + 1
  /\ UNCHANGED <<alive, cfg, capacity, watching, tealets>>

---------------------------------------------------------------------------
(* Transfers: tealet_switchstack().                                        *)

Distance(a, b) == IF a > b THEN a - b ELSE b - a

(* tealet_check_caller_is_current() for a caller whose frame is at p, when *)
(* boundary is that of g_current.                                          *)
CallerIsCurrent(p, boundary) ==
  /\ p < boundary
  /\ cfg.max # 0 =>
       Distance(IF boundary = Furthest THEN Probe ELSE boundary, p) <= cfg.max

(* Mutant: what was copied is not compared. *)
VerifiesNothing == TRUE

(* tealet_snapshot_verify_current() *)
Verifies == differs = {}

(* What a call of mprotect() for the pages of p has changed when it fails: *)
(* nothing, or the pages before the one it stumbled on.                    *)
Halfway(p) ==
  IF KernelFails
  THEN {p.guard .. p.guard + n - 1 : n \in {k \in 0 .. p.guarded - 1 : k % PageSize = 0}}
  ELSE {{}}

(* tealet_guard_unprotect_current() ignores the failure: the plan has no   *)
(* guard afterwards, whatever was opened.                                  *)
Opened == {Guarded(plan)} \cup (IF KernelFails THEN Halfway(plan) ELSE {})

(* Those that no call opened: earlier ones, and what this one did not.     *)
Unopened(opened) == (strays \cup Guarded(plan)) \ opened

(* tealet_guard_protect_current() of the new plan p, after opened was.     *)
(* When it fails the plan has no guard, whatever was closed.               *)
Guards(p, opened) ==
  \/ /\ plan' = p
     /\ denied' = (denied \ opened) \cup Guarded(p)
     /\ strays' = Unopened(opened) \ Guarded(p)
  \/ \E part \in Halfway(p) :
       /\ plan' = [p EXCEPT !.guarded = 0]
       /\ denied' = (denied \ opened) \cup part
       /\ strays' = Unopened(opened) \cup part

(* What was guarded before is opened, the plan is made, the copy taken and *)
(* the pages are guarded.                                                  *)
Arms(boundary) ==
  /\ \E opened \in Opened : Guards(Plan(boundary, cfg), opened)
  /\ differs' = {}

(* t runs on at p.                                                         *)
Runs(t, p) ==
  /\ g_current' = t
  /\ sp' = p
  /\ overrun' = {} /\ misplanned' = FALSE
  /\ UNCHANGED <<alive, cfg, capacity>>

(* The stacks that the transfer needs out of the way could not be saved:   *)
(* the plan is made anew for the tealet that g_current says is running.    *)
TransferFails(boundary) ==
  /\ Arms(boundary)
  /\ overrun' = {} /\ misplanned' = (boundary # far[g_current])
  /\ UNCHANGED <<alive, cfg, capacity, tealets, sp>>

(* A copy does not match: the guard and the copy are taken down and the    *)
(* caller is told, or the process is ended, as the policy has it.          *)
Mismatch ==
  /\ ~Verifies
  /\ \/ /\ cfg.policy \in {"ERROR", "ASSERT"}
        /\ plan' = [plan EXCEPT !.bytes = 0, !.guarded = 0]
        /\ \E opened \in Opened : denied' = denied \ opened /\ strays' = Unopened(opened)
        /\ differs' = {} /\ overrun' = {}
        /\ UNCHANGED <<alive, cfg, capacity, misplanned, tealets, sp>>
     \/ /\ cfg.policy \in {"ABORT", "ASSERT"}
        /\ alive' = FALSE
        /\ plan' = NoPlan /\ denied' = {} /\ strays' = {} /\ differs' = {} /\ overrun' = {}
        /\ UNCHANGED <<cfg, capacity, misplanned, tealets, sp>>

(* tealet_run() with TEALET_START_SWITCH, by a frame whose hint reaches to *)
(* the boundary b or is nearer than the call itself.                       *)
StartSwitch(t, b) ==
  /\ alive
  /\ status[t] = "new" /\ sp >= 2
  /\ b \in sp - 1 .. Probe
  /\ CallerIsCurrent(sp - 2, far[g_current])
  /\ \/ Mismatch
     \/ /\ Verifies
        /\ status' = [status EXCEPT ![g_current] = "suspended", ![t] = "running"]
        /\ far' = [far EXCEPT ![t] = b]
        /\ near' = [near EXCEPT ![g_current] = sp]
        /\ Runs(t, sp - 2)
        /\ Arms(b)
     \/ Verifies /\ TransferFails(far[g_current])

(* tealet_run() with TEALET_START_DEFAULT makes the new tealet g_current,  *)
(* and switches from it to its creator.                                    *)
StartDefault(t, b) ==
  /\ alive
  /\ status[t] = "new" /\ sp >= 2
  /\ b \in sp - 1 .. Probe
  /\ CallerIsCurrent(sp - 2, b)
  /\ \/ Mismatch
     \/ /\ Verifies
        /\ status' = [status EXCEPT ![t] = "suspended"]
        /\ far' = [far EXCEPT ![t] = b]
        /\ near' = [near EXCEPT ![t] = sp - 2]
        /\ Runs(g_current, sp)
        /\ Arms(far[g_current])
     \/ Verifies /\ TransferFails(b)

(* tealet_fork(): the child shares the boundary, and is where its parent   *)
(* is.                                                                     *)
Fork(t, switched) ==
  /\ alive
  /\ status[t] = "new"
  /\ far[g_current] # Furthest
  /\ CallerIsCurrent(sp, far[g_current])
  /\ \/ Mismatch
     \/ LET stays == IF switched THEN g_current ELSE t
            runs  == IF switched THEN t ELSE g_current
        IN  /\ Verifies
            /\ status' = [status EXCEPT ![stays] = "suspended", ![runs] = "running"]
            /\ far' = [far EXCEPT ![t] = far[g_current]]
            /\ near' = [near EXCEPT ![stays] = sp]
            /\ Runs(runs, sp)
            /\ Arms(far[g_current])
     \/ Verifies /\ TransferFails(far[g_current])

(* tealet_switch() and tealet_exit().                                      *)
Switch(t, after) ==
  /\ alive
  /\ status[t] = "suspended"
  /\ after = "exited" => g_current # Main
  /\ CallerIsCurrent(sp, far[g_current])
  /\ \/ Mismatch
     \/ /\ Verifies
        /\ status' = [status EXCEPT ![g_current] = after, ![t] = "running"]
        /\ near' = [near EXCEPT ![g_current] = sp]
        /\ Runs(t, near[t])
        /\ Arms(far[t])
        /\ UNCHANGED far
     \/ Verifies /\ TransferFails(far[g_current])

(* tealet_delete() of a tealet that does not run, and tealet_new().        *)
Renew(t) ==
  /\ alive
  /\ t # Main /\ status[t] \in {"suspended", "exited"}
  /\ status' = [status EXCEPT ![t] = "new"]
  /\ far' = [far EXCEPT ![t] = Furthest]
  /\ near' = [near EXCEPT ![t] = Probe]
  /\ UNCHANGED <<alive, cfg, capacity, watching, sp, g_current>>

(* Mutant: the domain is freed with its pages guarded. *)
FinalizeGuarded ==
  /\ alive
  /\ g_current = Main
  /\ alive' = FALSE
  /\ capacity' = 0
  /\ plan' = NoPlan
  /\ differs' = {} /\ overrun' = {}
  /\ UNCHANGED <<cfg, denied, strays, misplanned, tealets, sp>>

(* tealet_finalize() *)
Finalize ==
  /\ alive
  /\ g_current = Main
  /\ alive' = FALSE
  /\ \E opened \in Opened : denied' = denied \ opened /\ strays' = Unopened(opened)
  /\ capacity' = 0
  /\ plan' = NoPlan
  /\ differs' = {} /\ overrun' = {}
  /\ UNCHANGED <<cfg, misplanned, tealets, sp>>

Next ==
  \/ Initialize \/ Finalize \/ Push \/ Pop
  \/ \E a \in Addresses : SetFar(a) \/ Write(a)
  \/ \E r \in Asked : ConfigureSet(r)
  \/ \E bytes \in Windows : CheckStack(bytes)
  \/ \E t \in Tealets : Renew(t)
  \/ \E t \in Tealets, b \in Addresses : StartSwitch(t, b) \/ StartDefault(t, b)
  \/ \E t \in Tealets, switched \in BOOLEAN : Fork(t, switched)
  \/ \E t \in Tealets, after \in {"suspended", "exited"} : Switch(t, after)

Spec == Init /\ [][Next]_vars
---------------------------------------------------------------------------
TypeOK ==
  /\ alive \in BOOLEAN
  /\ cfg \in Configs
  /\ capacity \in Nat
  /\ plan \in Plans
  /\ denied \subseteq Nat /\ strays \subseteq Nat
  /\ differs \subseteq Copied(plan) /\ overrun \subseteq Copied(plan)
  /\ misplanned \in BOOLEAN
  /\ status \in [Tealets -> {"new", "suspended", "running", "exited"}]
  /\ far \in [Tealets -> Nat] /\ near \in [Tealets -> Nat]
  /\ sp \in Nat
  /\ g_current \in Tealets

(* Through refusals, failures, reports, reconfiguration, finalization and  *)
(* a new domain, the kernel denies what g_integrity_data says, so that it  *)
(* will be opened, and no more than that but for what mprotect() left      *)
(* behind when it failed: no path of the library loses track of a page.    *)
DeniedIsPlanned ==
  /\ denied = Guarded(plan) \cup strays
  /\ ~KernelFails => strays = {}

(* The assertion in tealet_integrity_plan_for_current(): the block holds   *)
(* the copy of any tealet's plan, under whichever requests came before.    *)
CopyFits ==
  alive => plan.bytes <= capacity /\ \A t \in Tealets : Plan(far[t], cfg).bytes <= capacity

(* tealet_configure_get() returns what tealet_configure_set() wrote back,  *)
(* which asked for again is the same.                                      *)
GetReturnsSet == ConfigureGet = cfg

(* "Build the integrity plan for the currently running tealet"             *)
(* (tealet.c:325): no page that holds frames of the running tealet is      *)
(* guarded.                                                                *)
OwnFramesOpen == denied \cap sp .. far[g_current] - 1 = {}

(* So it is, but for a failed tealet_run(TEALET_START_DEFAULT) and for the *)
(* pages that mprotect() left closed when it failed.                       *)
PlannedFramesOpen ==
  ~misplanned => (denied \ strays) \cap sp .. far[g_current] - 1 = {}

(* A tealet is told of a mismatch, or ended for it, only when it wrote     *)
(* beyond its boundary since it was resumed.                               *)
BlamedIfOverran ==
  [][Mismatch /\ ~misplanned => overrun # {}]_vars

(* A tealet that wrote over a copied byte cannot transfer before it was    *)
(* told.                                                                   *)
OverrunCaught ==
  [][g_current' # g_current /\ alive' /\ alive => overrun = {}]_vars

(* With both back ends, and unless the kernel refuses, the guard and the   *)
(* copy leave no gap: all the bytes asked for are watched.                 *)
NoGap ==
  [][LET b == far'[g_current']
     IN  g_current' # g_current /\ alive /\ alive' /\ Flags \subseteq cfg.flags
           /\ plan'.guarded = Plan(b, cfg).guarded
         => b .. b + Watched(b, cfg) - 1 \subseteq Copied(plan') \cup denied']_vars

=============================================================================
