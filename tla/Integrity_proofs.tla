-------------------------- MODULE Integrity_proofs --------------------------
(***************************************************************************)
(* Theorems about Integrity, for every page size, every set of requests    *)
(* and every stack: the plan never covers frames of the tealet it is made  *)
(* for, the copy fits its block, and no page stays guarded that is not on  *)
(* record, or was left so by a call of mprotect() that failed.             *)
(***************************************************************************)
EXTENDS Integrity, TLAPS

USE ConfigurationAssumption, IntegrityAssumption

---------------------------------------------------------------------------
(* The plan.                                                               *)

LEMMA WholePages ==
  ASSUME NEW n \in Nat, NEW size \in Nat, size > 0
  PROVE  /\ (n \div size) * size \in Nat
         /\ (n \div size) * size <= n
         /\ n < (n \div size) * size + size
  OBVIOUS

LEMMA RoundUpBounds ==
  ASSUME NEW a \in Nat
  PROVE  RoundUp(a) \in Nat /\ a <= RoundUp(a) /\ RoundUp(a) < a + PageSize
<1> DEFINE n == a + PageSize - 1
<1>1. n \in Nat /\ PageSize \in Nat /\ PageSize > 0
  OBVIOUS
<1>2. /\ (n \div PageSize) * PageSize \in Nat
      /\ (n \div PageSize) * PageSize <= n
      /\ n < (n \div PageSize) * PageSize + PageSize
  BY <1>1, WholePages
<1>3. RoundUp(a) = (n \div PageSize) * PageSize
  BY DEF RoundUp
<1> HIDE DEF RoundUp
<1>4. n = a + PageSize - 1
  OBVIOUS
<1> HIDE DEF n
<1> QED BY <1>1, <1>2, <1>3, <1>4

LEMMA LeastBounds ==
  ASSUME NEW a \in Nat, NEW b \in Nat
  PROVE  Least(a, b) \in Nat /\ Least(a, b) <= a /\ Least(a, b) <= b /\ Least(a, b) \in {a, b}
  BY DEF Least

LEMMA WatchedBounds ==
  ASSUME NEW c \in Configs, NEW b \in Nat
  PROVE  Watched(b, c) \in Nat /\ Watched(b, c) <= c.bytes
<1>1. c.bytes \in Nat /\ c.limit \in Nat \cup {NULL}
  BY DEF Configs
<1>2. ASSUME c.limit # NULL, c.limit > b
      PROVE  Least(c.bytes, c.limit - b) \in Nat /\ Least(c.bytes, c.limit - b) <= c.bytes
  <2>1. c.limit - b \in Nat
    BY <1>1, <1>2
  <2> QED BY <1>1, <2>1, LeastBounds
<1> QED BY <1>1, <1>2 DEF Watched

LEMMA RequiredCapacityType ==
  ASSUME NEW c \in Configs
  PROVE  RequiredCapacity(c) \in Nat
<1>1. PageSize \in Nat /\ PageSize >= 1 /\ c.bytes \in Nat
  BY DEF Configs
<1> QED BY <1>1 DEF RequiredCapacity, Least

(* What a plan for the boundary b covers.                                  *)
LEMMA PlanBounds ==
  ASSUME NEW c \in Configs, NEW b \in Nat
  PROVE  LET p == Plan(b, c)
         IN  /\ p \in Plans
             /\ p.bytes = 0 \/ p.base >= b
             /\ p.guarded = 0 \/ p.guard >= b
             /\ p.bytes <= RequiredCapacity(c)
<1> DEFINE length == Watched(b, c)
           end    == b + length
           first  == RoundUp(b)
           copied == IF "GUARD" \in c.flags THEN Least(length, first - b) ELSE length
           guarded == IF "GUARD" \in c.flags /\ first < end THEN RoundUp(end) - first ELSE 0
           bytes == IF "SNAPSHOT" \in c.flags THEN copied ELSE 0
<1>1. length \in Nat /\ length <= c.bytes /\ c.bytes \in Nat
  BY WatchedBounds DEF Configs
<1>2. first \in Nat /\ b <= first /\ first < b + PageSize
  BY RoundUpBounds
<1>3. end \in Nat /\ RoundUp(end) \in Nat /\ end <= RoundUp(end)
  <2>1. end \in Nat
    BY <1>1
  <2> HIDE DEF end
  <2> QED BY <2>1, RoundUpBounds
<1>4. Plan(b, c) = IF length = 0 THEN NoPlan
                   ELSE [base |-> b, bytes |-> bytes, guard |-> first, guarded |-> guarded]
  BY DEF Plan
<1> HIDE DEF length, first, end
<1>5. copied \in Nat /\ copied <= length /\ ("GUARD" \in c.flags => copied <= first - b)
  BY <1>1, <1>2, LeastBounds
<1>6. guarded \in Nat
  BY <1>2, <1>3
<1> HIDE DEF copied, guarded
<1>7. bytes \in Nat /\ bytes <= RequiredCapacity(c)
  <2>1. PageSize \in Nat /\ PageSize >= 1
    OBVIOUS
  <2> QED BY <1>1, <1>2, <1>5, <2>1 DEF RequiredCapacity, Least
<1> HIDE DEF bytes
<1>8. RequiredCapacity(c) \in Nat
  BY <1>1, RequiredCapacityType
<1>9. CASE length = 0
  BY <1>4, <1>8, <1>9 DEF Plans, NoPlan
<1>10. CASE length # 0
  <2>1. Plan(b, c) = [base |-> b, bytes |-> bytes, guard |-> first, guarded |-> guarded]
    BY <1>4, <1>10
  <2> QED BY <1>2, <1>6, <1>7, <2>1 DEF Plans
<1> QED BY <1>9, <1>10

(* With both back ends, the copy and the guard leave no gap.               *)
LEMMA PlanCovers ==
  ASSUME NEW c \in Configs, NEW b \in Nat, {"GUARD", "SNAPSHOT"} \subseteq c.flags
  PROVE  b .. b + Watched(b, c) - 1 \subseteq Copied(Plan(b, c)) \cup Guarded(Plan(b, c))
<1> DEFINE length == Watched(b, c)
           end    == b + length
           first  == RoundUp(b)
           copied == Least(length, first - b)
           guarded == IF first < end THEN RoundUp(end) - first ELSE 0
<1>1. length \in Nat
  BY WatchedBounds
<1>2. first \in Nat /\ b <= first
  BY RoundUpBounds
<1>3. end = b + length /\ end \in Nat
  BY <1>1
<1> HIDE DEF end
<1>4. RoundUp(end) \in Nat /\ end <= RoundUp(end)
  BY <1>3, RoundUpBounds
<1>5. Plan(b, c) = IF length = 0 THEN NoPlan
                   ELSE [base |-> b, bytes |-> copied, guard |-> first, guarded |-> guarded]
  BY DEF Plan, end
<1> HIDE DEF length, first
<1>6. copied = IF first < end THEN first - b ELSE length
  BY <1>1, <1>2, <1>3 DEF Least
<1> HIDE DEF copied
<1>7. CASE length = 0
  BY <1>7 DEF length
<1>8. CASE length # 0
  <2>1. Copied(Plan(b, c)) = b .. b + copied - 1
    BY <1>5, <1>8 DEF Copied
  <2>2. Guarded(Plan(b, c)) = first .. first + guarded - 1
    BY <1>5, <1>8 DEF Guarded
  <2>3. ASSUME NEW a \in b .. b + length - 1
        PROVE  a \in b .. b + copied - 1 \/ a \in first .. first + guarded - 1
    BY <1>1, <1>2, <1>3, <1>4, <1>6
  <2> QED BY <2>1, <2>2, <2>3 DEF length
<1> QED BY <1>7, <1>8

---------------------------------------------------------------------------
(* The configuration.                                                      *)

LEMMA InitialType ==
  ASSUME NEW max \in Nat
  PROVE  Initial(max) \in Configs /\ Canonical(Initial(max)) = Initial(max)
<1>1. Initial(max) \in Configs
  BY DEF Initial, Configs, Flags, Modes, Policies
<1>2. Canonical(Initial(max)) = Initial(max)
  BY DEF Initial, Canonical, Policies
<1> QED BY <1>1, <1>2

LEMMA SupportedKnown == SupportedFlags \subseteq Flags
  BY DEF SupportedFlags, Flags

LEMMA CanonicalType ==
  ASSUME NEW c \in Requests
  PROVE  Canonical(c) \in Configs
<1> DEFINE asked == c.flags \cap SupportedFlags
           on    == "INTEGRITY" \in asked /\ asked \cap Backends # {} /\ c.bytes # 0
           flags == IF on THEN asked ELSE {}
           bytes == IF on THEN c.bytes ELSE 0
           mode  == IF "GUARD" \notin flags THEN "NONE"
                    ELSE IF c.mode \in {"READONLY", "NOACCESS"} THEN c.mode ELSE "NOACCESS"
           policy == IF c.policy \in Policies THEN c.policy ELSE "ASSERT"
           limit == IF on THEN c.limit ELSE NULL
<1>1. flags \in SUBSET Flags
  BY SupportedKnown
<1>2. bytes \in Nat /\ limit \in Nat \cup {NULL} /\ c.max \in Nat
  BY DEF Requests
<1>3. mode \in Modes /\ policy \in Policies
  BY DEF Modes, Policies
<1>4. Canonical(c) = [flags |-> flags, bytes |-> bytes, mode |-> mode, policy |-> policy,
                      limit |-> limit, max |-> c.max]
  BY DEF Canonical
<1> HIDE DEF flags, bytes, mode, policy, limit
<1> QED BY <1>1, <1>2, <1>3, <1>4 DEF Configs

(* What tealet_configure_set() wrote back it would write back again.       *)
LEMMA CanonicalTwice ==
  ASSUME NEW c \in Requests
  PROVE  Canonical(Canonical(c)) = Canonical(c)
<1> DEFINE asked == c.flags \cap SupportedFlags
           on    == "INTEGRITY" \in asked /\ asked \cap Backends # {} /\ c.bytes # 0
           d     == Canonical(c)
<1>1. /\ d.flags = (IF on THEN asked ELSE {})
      /\ d.bytes = (IF on THEN c.bytes ELSE 0)
      /\ d.mode = (IF "GUARD" \notin d.flags THEN "NONE"
                   ELSE IF c.mode \in {"READONLY", "NOACCESS"} THEN c.mode ELSE "NOACCESS")
      /\ d.policy = (IF c.policy \in Policies THEN c.policy ELSE "ASSERT")
      /\ d.limit = (IF on THEN c.limit ELSE NULL)
      /\ d.max = c.max
      /\ d = [flags |-> d.flags, bytes |-> d.bytes, mode |-> d.mode, policy |-> d.policy,
              limit |-> d.limit, max |-> d.max]
  BY DEF Canonical
<1>2. asked \cap SupportedFlags = asked
  OBVIOUS
<1> HIDE DEF d
<1>3. CASE on
  <2>1. d.flags \cap SupportedFlags = d.flags /\ d.flags = asked /\ d.bytes = c.bytes
    BY <1>1, <1>2, <1>3
  <2>2. "INTEGRITY" \in d.flags /\ d.flags \cap Backends # {} /\ d.bytes # 0
    BY <1>3, <2>1
  <2> QED BY <1>1, <2>1, <2>2 DEF Canonical, Policies
<1>4. CASE ~on
  BY <1>1, <1>4 DEF Canonical, Policies
<1> QED BY <1>3, <1>4 DEF d

LEMMA PrefixedType ==
  ASSUME NEW c \in Requests, NEW n \in Nat, NEW base \in Configs
  PROVE  Canonical(Prefixed(c, n, base)) = Canonical(Canonical(Prefixed(c, n, base)))
         /\ Canonical(Prefixed(c, n, base)) \in Configs
<1> DEFINE p == Prefixed(c, n, base)
           q == [flags |-> p.flags, bytes |-> p.bytes, mode |-> p.mode, policy |-> p.policy,
                 limit |-> p.limit, max |-> p.max]
<1>1. /\ p.flags \in {c.flags, base.flags}
      /\ p.bytes \in {c.bytes, base.bytes}
      /\ p.mode \in {c.mode, base.mode}
      /\ p.policy \in {c.policy, base.policy}
      /\ p.limit \in {c.limit, base.limit}
      /\ p.max \in {c.max, base.max}
  BY DEF Prefixed, Position
<1> HIDE DEF p
<1>2. q \in Requests
  BY <1>1 DEF Requests, Configs
<1>3. Canonical(q) = Canonical(p)
  BY DEF Canonical
<1> HIDE DEF q
<1> QED BY <1>2, <1>3, CanonicalType, CanonicalTwice DEF p

---------------------------------------------------------------------------
(* The invariant, in a part about the tealets and one about what is        *)
(* watched.                                                                *)

Statuses == {"new", "suspended", "running", "exited"}

TealetTypes ==
  /\ alive \in BOOLEAN
  /\ status \in [Tealets -> Statuses]
  /\ far \in [Tealets -> Nat] /\ near \in [Tealets -> Nat]
  /\ sp \in Nat
  /\ g_current \in Tealets
  /\ status[g_current] = "running"

Settled ==
  /\ cfg \in Configs /\ cfg = Canonical(cfg)
  /\ capacity \in Nat
  /\ alive => plan.bytes <= capacity /\ RequiredCapacity(cfg) <= capacity

(* Nothing that is watched belongs to the tealet that the plan was made    *)
(* for, and what no longer matches was overrun.                            *)
Beyond(b) ==
  /\ plan.guarded = 0 \/ plan.guard >= b
  /\ plan.bytes = 0 \/ plan.base >= b

Watching ==
  /\ plan \in Plans
  /\ denied = Guarded(plan) \cup strays
  /\ strays \subseteq Nat /\ (~KernelFails => strays = {})
  /\ ~alive => plan = NoPlan
  /\ misplanned \in BOOLEAN
  /\ overrun \subseteq differs /\ differs \subseteq Copied(plan)
  /\ ~misplanned => Beyond(far[g_current]) /\ differs \subseteq overrun

Inv == TealetTypes /\ Settled /\ Watching

LEMMA NoPlanCovers ==
  /\ NoPlan \in Plans /\ NoPlan.bytes = 0 /\ NoPlan.guarded = 0
  /\ Guarded(NoPlan) = {} /\ Copied(NoPlan) = {}
  BY DEF NoPlan, Plans, Guarded, Copied

LEMMA InitInv == Init => Inv
<1> SUFFICES ASSUME Init PROVE Inv
  OBVIOUS
<1>1. Probe \in Nat /\ Furthest \in Nat
  BY DEF Addresses
<1>2. TealetTypes
  BY <1>1 DEF Init, TealetTypes, Statuses
<1>3. RequiredCapacity(cfg) = 0 /\ cfg \in Configs /\ cfg = Canonical(cfg)
  BY InitialType DEF Init, RequiredCapacity, Initial
<1>4. Settled
  BY <1>3, NoPlanCovers DEF Init, Settled
<1>5. Watching
  BY NoPlanCovers DEF Init, Watching, Beyond
<1> QED BY <1>2, <1>4, <1>5 DEF Inv

LEMMA InitializeInv ==
  ASSUME Inv, Initialize
  PROVE  Inv'
<1>1. Probe \in Nat /\ Furthest \in Nat
  BY DEF Addresses
<1>2. TealetTypes'
  BY <1>1 DEF Initialize, TealetTypes, Statuses
<1>3. cfg' = Initial(DefaultMax)
  BY DEF Initialize
<1>4. RequiredCapacity(cfg') = 0 /\ cfg' \in Configs /\ cfg' = Canonical(cfg')
  BY <1>3, InitialType DEF RequiredCapacity, Initial
<1>5. Settled'
  BY <1>4, NoPlanCovers DEF Initialize, Settled
<1>6. /\ denied' = Guarded(plan') \cup strays'
      /\ strays' \subseteq Nat /\ (~KernelFails => strays' = {})
  BY NoPlanCovers DEF Initialize, Inv, Watching
<1>7. Watching'
  BY <1>6, NoPlanCovers DEF Initialize, Watching, Beyond
<1> QED BY <1>2, <1>5, <1>7 DEF Inv

(* What a call of mprotect() that fails has changed are addresses, and     *)
(* none where no such call fails half-way.                                 *)
LEMMA HalfwayType ==
  ASSUME NEW p \in Plans, NEW part \in Halfway(p)
  PROVE  part \subseteq Nat /\ (~KernelFails => part = {})
<1>1. CASE KernelFails
  <2>1. PICK n \in Nat : part = p.guard .. p.guard + n - 1
    BY <1>1 DEF Halfway, Plans
  <2> QED BY <1>1, <2>1 DEF Plans
<1>2. CASE ~KernelFails
  BY <1>2 DEF Halfway
<1> QED BY <1>1, <1>2

(* Whatever was opened, what stays denied is what is not on record.        *)
LEMMA OpenedLeaves ==
  ASSUME Inv, NEW opened \in Opened
  PROVE  /\ denied \ opened = Unopened(opened)
         /\ Unopened(opened) \subseteq Nat
         /\ ~KernelFails => Unopened(opened) = {}
<1>1. denied = Guarded(plan) \cup strays /\ strays \subseteq Nat /\ Guarded(plan) \subseteq Nat
  BY DEF Inv, Watching, Guarded, Plans
<1>2. ~KernelFails => opened = Guarded(plan) /\ strays = {}
  BY DEF Opened, Inv, Watching
<1> QED BY <1>1, <1>2 DEF Unopened

(* The plan that a transfer leaves behind. *)
LEMMA ArmsWatches ==
  ASSUME Inv, NEW b \in Nat, Arms(b)
  PROVE  /\ plan' \in Plans /\ differs' = {}
         /\ denied' = Guarded(plan') \cup strays'
         /\ strays' \subseteq Nat /\ (~KernelFails => strays' = {})
         /\ plan'.guarded = 0 \/ plan'.guard >= b
         /\ plan'.bytes = 0 \/ plan'.base >= b
         /\ plan'.bytes <= RequiredCapacity(cfg)
<1> DEFINE p == Plan(b, cfg)
<1>1. /\ p \in Plans /\ (p.bytes = 0 \/ p.base >= b) /\ (p.guarded = 0 \/ p.guard >= b)
      /\ p.bytes <= RequiredCapacity(cfg)
  BY PlanBounds DEF Inv, Settled
<1>2. differs' = {} /\ \E opened \in Opened : Guards(p, opened)
  BY DEF Arms
<1> HIDE DEF p
<1>3. PICK opened \in Opened : Guards(p, opened)
  BY <1>2
<1>4. /\ denied \ opened = Unopened(opened) /\ Unopened(opened) \subseteq Nat
      /\ ~KernelFails => Unopened(opened) = {}
  BY OpenedLeaves
<1>5. CASE /\ plan' = p
           /\ denied' = (denied \ opened) \cup Guarded(p)
           /\ strays' = Unopened(opened) \ Guarded(p)
  <2>1. denied' = Guarded(plan') \cup strays'
    BY <1>4, <1>5
  <2>2. strays' \subseteq Nat /\ (~KernelFails => strays' = {})
    BY <1>4, <1>5
  <2> QED BY <1>1, <1>2, <1>5, <2>1, <2>2
<1>6. ASSUME NEW part \in Halfway(p),
             plan' = [p EXCEPT !.guarded = 0],
             denied' = (denied \ opened) \cup part,
             strays' = Unopened(opened) \cup part
      PROVE  /\ plan' \in Plans
             /\ denied' = Guarded(plan') \cup strays'
             /\ strays' \subseteq Nat /\ (~KernelFails => strays' = {})
             /\ plan'.guarded = 0
             /\ plan'.bytes = 0 \/ plan'.base >= b
             /\ plan'.bytes <= RequiredCapacity(cfg)
  <2>1. plan' \in Plans /\ plan'.guarded = 0 /\ plan'.bytes = p.bytes /\ plan'.base = p.base
    BY <1>1, <1>6 DEF Plans
  <2>2. Guarded(plan') = {}
    BY <2>1 DEF Guarded, Plans
  <2>3. part \subseteq Nat /\ (~KernelFails => part = {})
    BY <1>1, HalfwayType
  <2>4. denied' = Guarded(plan') \cup strays'
    BY <1>4, <1>6, <2>2
  <2>5. strays' \subseteq Nat /\ (~KernelFails => strays' = {})
    BY <1>4, <1>6, <2>3
  <2> QED BY <1>1, <2>1, <2>4, <2>5
<1> QED BY <1>2, <1>3, <1>5, <1>6 DEF Guards

(* A transfer that succeeds, or fails, and arms for the boundary b.        *)
LEMMA ArmedInv ==
  ASSUME Inv, TealetTypes', NEW b \in Nat, Arms(b), alive, alive', UNCHANGED <<cfg, capacity>>,
         overrun' = {}, misplanned' \in BOOLEAN, ~misplanned' => b = far'[g_current']
  PROVE  Inv'
<1>1. /\ plan' \in Plans /\ differs' = {}
      /\ denied' = Guarded(plan') \cup strays'
      /\ strays' \subseteq Nat /\ (~KernelFails => strays' = {})
      /\ plan'.guarded = 0 \/ plan'.guard >= b
      /\ plan'.bytes = 0 \/ plan'.base >= b
      /\ plan'.bytes <= RequiredCapacity(cfg)
  BY ArmsWatches
<1>2. plan'.bytes \in Nat /\ RequiredCapacity(cfg) \in Nat /\ capacity \in Nat
  BY <1>1, RequiredCapacityType DEF Plans, Inv, Settled
<1>3. Settled'
  BY <1>1, <1>2 DEF Inv, Settled
<1>4. Watching'
  BY <1>1 DEF Watching, Beyond
<1> QED BY <1>3, <1>4 DEF Inv

LEMMA FailedInv ==
  ASSUME Inv, NEW b \in Nat, alive, TransferFails(b)
  PROVE  Inv'
<1>1. TealetTypes' /\ alive'
  BY DEF TransferFails, tealets, Inv, TealetTypes
<1>2. ~misplanned' => b = far'[g_current']
  BY DEF TransferFails, tealets
<1> QED BY <1>1, <1>2, ArmedInv DEF TransferFails

LEMMA MismatchInv ==
  ASSUME Inv, alive, Mismatch
  PROVE  Inv'
<1>1. TealetTypes'
  BY DEF Mismatch, tealets, Inv, TealetTypes
<1>2. plan \in Plans /\ UNCHANGED <<cfg, capacity, misplanned>>
  BY DEF Mismatch, Inv, Watching
<1>3. ASSUME NEW opened \in Opened,
             plan' = [plan EXCEPT !.bytes = 0, !.guarded = 0],
             denied' = denied \ opened, strays' = Unopened(opened),
             differs' = {}, overrun' = {}, alive' = alive, UNCHANGED <<far, g_current>>
      PROVE  Inv'
  <2>1. plan' \in Plans /\ plan'.bytes = 0 /\ plan'.guarded = 0
    BY <1>2, <1>3 DEF Plans
  <2>2. Guarded(plan') = {}
    BY <2>1 DEF Guarded, Plans
  <2>3. /\ denied' = Guarded(plan') \cup strays'
        /\ strays' \subseteq Nat /\ (~KernelFails => strays' = {})
    BY <1>3, <2>2, OpenedLeaves
  <2>4. Settled'
    BY <1>2, <1>3, <2>1 DEF Inv, Settled
  <2>5. Watching'
    BY <1>2, <1>3, <2>1, <2>3 DEF Inv, Watching, Beyond
  <2> QED BY <1>1, <2>4, <2>5 DEF Inv
<1>4. CASE plan' = NoPlan /\ denied' = {} /\ strays' = {} /\ differs' = {} /\ overrun' = {}
           /\ alive' = FALSE /\ UNCHANGED <<far, g_current>>
  BY <1>1, <1>2, <1>4, NoPlanCovers DEF Inv, Settled, Watching, Beyond
<1> QED BY <1>3, <1>4 DEF Mismatch, tealets

LEMMA StartSwitchInv ==
  ASSUME Inv, NEW t \in Tealets, NEW b \in Addresses, StartSwitch(t, b)
  PROVE  Inv'
<1>1. b \in Nat /\ far[g_current] \in Nat /\ alive
  BY DEF Addresses, Inv, TealetTypes, StartSwitch
<1>2. CASE Verifies
           /\ status' = [status EXCEPT ![g_current] = "suspended", ![t] = "running"]
           /\ far' = [far EXCEPT ![t] = b]
           /\ near' = [near EXCEPT ![g_current] = sp]
           /\ Runs(t, sp - 2)
           /\ Arms(b)
  <2>1. sp - 2 \in Nat
    BY DEF StartSwitch, Inv, TealetTypes
  <2>2. TealetTypes'
    BY <1>1, <1>2, <2>1 DEF Runs, Inv, TealetTypes, Statuses
  <2>3. b = far'[g_current']
    BY <1>2 DEF Runs, Inv, TealetTypes
  <2> QED BY <1>1, <1>2, <2>2, <2>3, ArmedInv DEF Runs
<1> QED BY <1>1, <1>2, MismatchInv, FailedInv DEF StartSwitch

LEMMA StartDefaultInv ==
  ASSUME Inv, NEW t \in Tealets, NEW b \in Addresses, StartDefault(t, b)
  PROVE  Inv'
<1>1. b \in Nat /\ far[g_current] \in Nat /\ alive
  BY DEF Addresses, Inv, TealetTypes, StartDefault
<1>2. CASE Verifies
           /\ status' = [status EXCEPT ![t] = "suspended"]
           /\ far' = [far EXCEPT ![t] = b]
           /\ near' = [near EXCEPT ![t] = sp - 2]
           /\ Runs(g_current, sp)
           /\ Arms(far[g_current])
  <2>1. sp - 2 \in Nat /\ t # g_current
    BY DEF StartDefault, Inv, TealetTypes
  <2>2. TealetTypes'
    BY <1>1, <1>2, <2>1 DEF Runs, Inv, TealetTypes, Statuses
  <2>3. far[g_current] = far'[g_current']
    BY <1>2, <2>1 DEF Runs, Inv, TealetTypes
  <2> QED BY <1>1, <1>2, <2>2, <2>3, ArmedInv DEF Runs
<1> QED BY <1>1, <1>2, MismatchInv, FailedInv DEF StartDefault

LEMMA ForkInv ==
  ASSUME Inv, NEW t \in Tealets, NEW switched \in BOOLEAN, Fork(t, switched)
  PROVE  Inv'
<1>1. far[g_current] \in Nat /\ alive /\ t # g_current
  BY DEF Inv, TealetTypes, Fork
<1>2. ASSUME NEW stays \in {t, g_current}, NEW runs \in {t, g_current}, stays # runs,
             Verifies,
             status' = [status EXCEPT ![stays] = "suspended", ![runs] = "running"],
             far' = [far EXCEPT ![t] = far[g_current]],
             near' = [near EXCEPT ![stays] = sp],
             Runs(runs, sp),
             Arms(far[g_current])
      PROVE  Inv'
  <2>1. TealetTypes'
    BY <1>1, <1>2 DEF Runs, Inv, TealetTypes, Statuses
  <2>2. far[g_current] = far'[g_current']
    BY <1>1, <1>2 DEF Runs, Inv, TealetTypes
  <2> QED BY <1>1, <1>2, <2>1, <2>2, ArmedInv DEF Runs
<1> QED BY <1>1, <1>2, MismatchInv, FailedInv DEF Fork

LEMMA SwitchInv ==
  ASSUME Inv, NEW t \in Tealets, NEW after \in {"suspended", "exited"}, Switch(t, after)
  PROVE  Inv'
<1>1. far[g_current] \in Nat /\ far[t] \in Nat /\ alive
  BY DEF Inv, TealetTypes, Switch
<1>2. CASE Verifies
           /\ status' = [status EXCEPT ![g_current] = after, ![t] = "running"]
           /\ near' = [near EXCEPT ![g_current] = sp]
           /\ Runs(t, near[t])
           /\ Arms(far[t])
           /\ UNCHANGED far
  <2>1. TealetTypes'
    BY <1>1, <1>2 DEF Runs, Inv, TealetTypes, Statuses
  <2>2. far[t] = far'[g_current']
    BY <1>2 DEF Runs
  <2> QED BY <1>1, <1>2, <2>1, <2>2, ArmedInv DEF Runs
<1> QED BY <1>1, <1>2, MismatchInv, FailedInv DEF Switch

(* What the tealet overruns is what it writes at or beyond its boundary,   *)
(* and all that is copied for it is.                                       *)
LEMMA WritesInv ==
  ASSUME Inv, NEW a \in Nat, Writes(a), alive, sp' \in Nat
  PROVE  Inv'
<1>1. TealetTypes'
  BY DEF Writes, tealets, Inv, TealetTypes
<1>2. Settled'
  BY DEF Writes, Inv, Settled
<1>3. ~misplanned /\ a \in Copied(plan) => a >= far[g_current]
  BY DEF Copied, Plans, Inv, Watching, Beyond, TealetTypes
<1>4. Watching'
  BY <1>3 DEF Writes, tealets, Inv, Watching, Beyond
<1> QED BY <1>1, <1>2, <1>4 DEF Inv

LEMMA ConfigureInv ==
  ASSUME Inv, NEW r, r.config \in Requests, r.size \in 0 .. 6, ConfigureSet(r)
  PROVE  Inv'
<1> DEFINE c == Canonical(Prefixed(r.config, r.size, Initial(cfg.max)))
<1>1. cfg.max \in Nat
  BY DEF Inv, Settled, Configs
<1>2. c \in Configs /\ c = Canonical(c)
  BY <1>1, InitialType, PrefixedType
<1>3. cfg' = c /\ EnsureCapacity(RequiredCapacity(cfg'))
  BY DEF ConfigureSet
<1> HIDE DEF c
<1>4. RequiredCapacity(cfg') \in Nat
  BY <1>2, <1>3, RequiredCapacityType
<1>5. TealetTypes'
  BY DEF ConfigureSet, tealets, Inv, TealetTypes
<1>6. alive' /\ UNCHANGED <<denied, strays, misplanned, far, g_current>>
  BY DEF ConfigureSet, tealets
<1>7. CASE RequiredCapacity(cfg') <= capacity
  <2>1. UNCHANGED <<capacity, plan, differs, overrun>>
    BY <1>3, <1>7 DEF EnsureCapacity
  <2>2. Settled'
    BY <1>2, <1>3, <1>6, <1>7, <2>1 DEF Inv, Settled, ConfigureSet
  <2>3. Watching'
    BY <1>6, <2>1 DEF Inv, Watching, Beyond
  <2> QED BY <1>5, <2>2, <2>3 DEF Inv
<1>8. CASE ~(RequiredCapacity(cfg') <= capacity)
  <2>1. /\ capacity' = RequiredCapacity(cfg')
        /\ plan' = [plan EXCEPT !.base = 0, !.bytes = 0]
        /\ differs' = {} /\ overrun' = {}
    BY <1>3, <1>8 DEF EnsureCapacity
  <2>2. plan \in Plans
    BY DEF Inv, Watching
  <2>3. /\ plan' \in Plans /\ plan'.bytes = 0
        /\ plan'.guard = plan.guard /\ plan'.guarded = plan.guarded
    BY <2>1, <2>2 DEF Plans
  <2>4. Settled'
    BY <1>2, <1>3, <1>4, <2>1, <2>3 DEF Settled
  <2>5. Watching'
    BY <1>6, <2>1, <2>3 DEF Inv, Watching, Beyond, Guarded
  <2> QED BY <1>5, <2>4, <2>5 DEF Inv
<1> QED BY <1>7, <1>8

LEMMA CheckStackInv ==
  ASSUME Inv, NEW bytes \in Nat, CheckStack(bytes)
  PROVE  Inv'
<1> DEFINE c == [flags |-> Flags, bytes |-> IF bytes = 0 THEN PageSize ELSE bytes,
                 mode |-> "NOACCESS", policy |-> "ERROR", limit |-> sp - 1, max |-> DefaultMax]
<1>1. sp - 1 \in Nat
  BY DEF CheckStack, Inv, TealetTypes
<1>2. c \in Requests
  BY <1>1 DEF Requests, Modes, Policies
<1>3. PICK r : r = [config |-> c, size |-> 6]
  OBVIOUS
<1>4. ConfigureSet(r) /\ r.config \in Requests /\ r.size \in 0 .. 6
  <2>1. ConfigureSet([config |-> c, size |-> 6])
    BY DEF CheckStack
  <2> HIDE DEF c
  <2> QED BY <1>2, <1>3, <2>1
<1> QED BY <1>4, ConfigureInv

(* The running tealet's boundary never moves away.                         *)
LEMMA SetFarInv ==
  ASSUME Inv, NEW marker \in Addresses, SetFar(marker)
  PROVE  Inv'
<1>1. marker \in Nat /\ Probe \in Nat /\ Furthest \in Nat /\ Probe < Furthest
  BY DEF Addresses
<1>2. far[g_current] = Furthest /\ far'[g_current'] = marker /\ marker <= Probe /\ sp \in Nat
  BY DEF SetFar, Inv, TealetTypes
<1>3. TealetTypes'
  BY <1>1 DEF SetFar, Inv, TealetTypes
<1>4. Settled'
  BY DEF SetFar, watching, Inv, Settled
<1>5. UNCHANGED <<alive, plan, denied, strays, differs, overrun, misplanned>>
  BY DEF SetFar, watching
<1>6. plan.guard \in Nat /\ plan.base \in Nat
  BY DEF Inv, Watching, Plans
<1>7. Watching'
  BY <1>1, <1>2, <1>5, <1>6 DEF Inv, Watching, Beyond
<1> QED BY <1>3, <1>4, <1>7 DEF Inv

LEMMA RenewInv ==
  ASSUME Inv, NEW t \in Tealets, Renew(t)
  PROVE  Inv'
<1>1. t # g_current /\ Probe \in Nat /\ Furthest \in Nat
  BY DEF Renew, Addresses, Inv, TealetTypes
<1>2. TealetTypes'
  BY <1>1 DEF Renew, Inv, TealetTypes, Statuses
<1>3. far'[g_current'] = far[g_current]
  BY <1>1 DEF Renew, Inv, TealetTypes
<1>4. Settled' /\ Watching'
  BY <1>3 DEF Renew, watching, Inv, Settled, Watching, Beyond
<1> QED BY <1>2, <1>4 DEF Inv

LEMMA PopInv ==
  ASSUME Inv, Pop
  PROVE  Inv'
<1>1. TealetTypes' /\ UNCHANGED <<far, g_current>>
  BY DEF Pop, tealets, Inv, TealetTypes
<1>2. Settled' /\ Watching'
  BY <1>1 DEF Pop, watching, Inv, Settled, Watching, Beyond
<1> QED BY <1>1, <1>2 DEF Inv

LEMMA FinalizeInv ==
  ASSUME Inv, Finalize
  PROVE  Inv'
<1>1. TealetTypes'
  BY DEF Finalize, tealets, Inv, TealetTypes
<1>2. PICK opened \in Opened : denied' = denied \ opened /\ strays' = Unopened(opened)
  BY DEF Finalize
<1>3. /\ denied' = strays'
      /\ strays' \subseteq Nat /\ (~KernelFails => strays' = {})
  BY <1>2, OpenedLeaves
<1>4. Settled' /\ Watching'
  BY <1>3, NoPlanCovers DEF Finalize, tealets, Inv, Settled, Watching, Beyond
<1> QED BY <1>1, <1>4 DEF Inv

LEMMA NextInv == Inv /\ [Next]_vars => Inv'
<1> SUFFICES ASSUME Inv, [Next]_vars PROVE Inv'
  OBVIOUS
<1>1. CASE Push
  <2>1. sp - 1 \in Nat
    BY <1>1 DEF Push, Inv, TealetTypes
  <2> QED BY <1>1, <2>1, WritesInv DEF Push
<1>2. ASSUME NEW a \in Addresses, Write(a) PROVE Inv'
  <2>1. a \in Nat /\ sp' \in Nat
    BY <1>2 DEF Addresses, Write, Inv, TealetTypes
  <2> QED BY <1>2, <2>1, WritesInv DEF Write
<1>3. ASSUME NEW r \in Asked, ConfigureSet(r) PROVE Inv'
  BY <1>3, ConfigureInv
<1>4. ASSUME NEW bytes \in Windows, CheckStack(bytes) PROVE Inv'
  BY <1>4, CheckStackInv
<1>5. CASE UNCHANGED vars
  <2>1. TealetTypes'
    BY <1>5 DEF vars, tealets, Inv, TealetTypes
  <2>2. Settled' /\ Watching'
    BY <1>5 DEF vars, tealets, watching, Inv, Settled, Watching, Beyond
  <2> QED BY <2>1, <2>2 DEF Inv
<1> QED BY <1>1, <1>2, <1>3, <1>4, <1>5, InitializeInv, FinalizeInv, PopInv, SetFarInv, RenewInv,
           StartSwitchInv, StartDefaultInv, ForkInv, SwitchInv DEF Next

LEMMA InvHolds == Spec => []Inv
  BY InitInv, NextInv, PTL DEF Spec

---------------------------------------------------------------------------
(* TypeOK, for every state of the domain and its plan.                     *)
THEOREM IntegrityTypeCorrect == Spec => []TypeOK
<1>1. Inv => TypeOK
  <2> SUFFICES ASSUME Inv PROVE TypeOK
    OBVIOUS
  <2>1. denied \subseteq Nat
    <3>1. Guarded(plan) \subseteq Nat
      BY DEF Guarded, Plans, Inv, Watching
    <3> QED BY <3>1 DEF Inv, Watching
  <2>2. /\ plan \in Plans /\ strays \subseteq Nat /\ misplanned \in BOOLEAN
        /\ differs \subseteq Copied(plan) /\ overrun \subseteq Copied(plan)
    BY DEF Inv, Watching
  <2>3. /\ alive \in BOOLEAN /\ cfg \in Configs /\ capacity \in Nat
        /\ status \in [Tealets -> {"new", "suspended", "running", "exited"}]
        /\ far \in [Tealets -> Nat] /\ near \in [Tealets -> Nat]
        /\ sp \in Nat /\ g_current \in Tealets
    BY DEF Inv, TealetTypes, Settled, Statuses
  <2> QED BY <2>1, <2>2, <2>3 DEF TypeOK
<1> QED BY <1>1, InvHolds, PTL

(* The kernel denies what g_integrity_data says (tealet_integrity_protect  *)
(* and tealet_integrity_unprotect), through every refusal and failure, and *)
(* beyond it only what calls of mprotect() that failed left denied, which  *)
(* is nothing where none fails half-way or in opening pages.               *)
THEOREM DeniedIsPlannedHolds == Spec => []DeniedIsPlanned
<1>1. Inv => DeniedIsPlanned
  BY DEF Inv, Watching, DeniedIsPlanned
<1> QED BY <1>1, InvHolds, PTL

(* The assertion in tealet_integrity_plan_for_current(): the block that    *)
(* tealet_configure_set() sized holds the copy of every tealet's plan.     *)
THEOREM CopyFitsHolds == Spec => []CopyFits
<1>1. Inv => CopyFits
  <2> SUFFICES ASSUME Inv, alive, NEW t \in Tealets
               PROVE  plan.bytes <= capacity /\ Plan(far[t], cfg).bytes <= capacity
    BY DEF CopyFits
  <2>1. /\ far[t] \in Nat /\ cfg \in Configs /\ capacity \in Nat
        /\ plan.bytes <= capacity /\ RequiredCapacity(cfg) <= capacity
    BY DEF Inv, TealetTypes, Settled
  <2>2. Plan(far[t], cfg) \in Plans /\ Plan(far[t], cfg).bytes <= RequiredCapacity(cfg)
    BY <2>1, PlanBounds
  <2>3. Plan(far[t], cfg).bytes \in Nat /\ RequiredCapacity(cfg) \in Nat
    BY <2>1, <2>2, RequiredCapacityType DEF Plans
  <2> QED BY <2>1, <2>2, <2>3
<1> QED BY <1>1, InvHolds, PTL

(* What tealet_configure_get() returns, tealet_configure_set() accepts as  *)
(* it is.                                                                  *)
THEOREM GetReturnsSetHolds == Spec => []GetReturnsSet
<1>1. Inv => GetReturnsSet
  BY DEF Inv, Settled, GetReturnsSet, ConfigureGet
<1> QED BY <1>1, InvHolds, PTL

(* No page with frames of the running tealet is guarded, unless a failed   *)
(* tealet_run(TEALET_START_DEFAULT) left its plan for the child, or a call *)
(* of mprotect() that failed left it so.                                   *)
THEOREM PlannedFramesOpenHolds == Spec => []PlannedFramesOpen
<1>1. Inv => PlannedFramesOpen
  <2> SUFFICES ASSUME Inv, ~misplanned, NEW a \in denied \ strays, a \in sp .. far[g_current] - 1
               PROVE  FALSE
    BY DEF PlannedFramesOpen, OwnFramesOpen
  <2>1. far[g_current] \in Nat /\ sp \in Nat
    BY DEF Inv, TealetTypes
  <2>2. a \in plan.guard .. plan.guard + plan.guarded - 1
    BY DEF Inv, Watching, Guarded
  <2>3. plan.guard \in Nat /\ plan.guarded \in Nat
    BY DEF Inv, Watching, Plans
  <2>4. plan.guarded = 0 \/ plan.guard >= far[g_current]
    BY DEF Inv, Watching, Beyond
  <2> QED BY <2>1, <2>2, <2>3, <2>4
<1> QED BY <1>1, InvHolds, PTL

(* A mismatch is reported only to a tealet that overran its boundary.      *)
THEOREM BlamedIfOverranHolds == Spec => BlamedIfOverran
<1>1. Inv => [Mismatch /\ ~misplanned => overrun # {}]_vars
  BY DEF Inv, Watching, Mismatch, Verifies
<1> QED BY <1>1, InvHolds, PTL DEF BlamedIfOverran

(* And a tealet that overran it into the copy cannot transfer untold.      *)
THEOREM OverrunCaughtHolds == Spec => OverrunCaught
<1>1. Inv /\ [Next]_vars => [g_current' # g_current /\ alive' /\ alive => overrun = {}]_vars
  <2> SUFFICES ASSUME Inv, Next, g_current' # g_current, alive', alive
               PROVE  Verifies
    BY DEF Inv, Watching, Verifies, vars
  <2>1. ASSUME NEW r, ConfigureSet(r) PROVE FALSE
    BY <2>1 DEF ConfigureSet, tealets
  <2>2. ASSUME NEW bytes \in Windows, CheckStack(bytes) PROVE FALSE
    BY <2>1, <2>2 DEF CheckStack
  <2>3. ASSUME NEW a, SetFar(a) \/ Write(a) PROVE FALSE
    BY <2>3 DEF SetFar, Write, Writes, tealets
  <2>4. ASSUME Initialize \/ Finalize \/ Push \/ Pop PROVE FALSE
    BY <2>4 DEF Initialize, Finalize, Push, Pop, Writes, tealets
  <2>5. ASSUME NEW t, Renew(t) PROVE FALSE
    BY <2>5 DEF Renew
  <2>6. ASSUME NEW t, NEW b, StartSwitch(t, b) \/ StartDefault(t, b) PROVE Verifies
    BY <2>6 DEF StartSwitch, StartDefault, Mismatch, tealets
  <2>7. ASSUME NEW t, NEW switched, Fork(t, switched) PROVE Verifies
    BY <2>7 DEF Fork, Mismatch, tealets
  <2>8. ASSUME NEW t, NEW after, Switch(t, after) PROVE Verifies
    BY <2>8 DEF Switch, Mismatch, tealets
  <2> QED BY <2>1, <2>2, <2>3, <2>4, <2>5, <2>6, <2>7, <2>8 DEF Next
<1> QED BY <1>1, InvHolds, PTL DEF OverrunCaught, Spec

(* With both back ends and no refusal, every byte asked for is watched for *)
(* the tealet that a transfer resumed.                                     *)
THEOREM NoGapHolds == Spec => NoGap
<1> DEFINE Whole ==
      LET b == far'[g_current']
      IN  g_current' # g_current /\ alive /\ alive' /\ Flags \subseteq cfg.flags
            /\ plan'.guarded = Plan(b, cfg).guarded
          => b .. b + Watched(b, cfg) - 1 \subseteq Copied(plan') \cup denied'
<1>1. Inv /\ Inv' /\ [Next]_vars => [Whole]_vars
  <2> SUFFICES ASSUME Inv, Inv', Next, alive, alive', g_current' # g_current,
                      Flags \subseteq cfg.flags,
                      plan'.guarded = Plan(far'[g_current'], cfg).guarded
               PROVE  far'[g_current'] .. far'[g_current'] + Watched(far'[g_current'], cfg) - 1
                        \subseteq Copied(plan') \cup denied'
    BY DEF Whole
  <2>1. PICK b \in Nat : b = far'[g_current']
    BY DEF Inv, TealetTypes
  <2>2. Arms(b)
    <3>1. ASSUME NEW r, ConfigureSet(r) PROVE FALSE
      BY <3>1 DEF ConfigureSet, tealets
    <3>2. ASSUME NEW bytes \in Windows, CheckStack(bytes) PROVE FALSE
      BY <3>1, <3>2 DEF CheckStack
    <3>3. ASSUME NEW a, SetFar(a) \/ Write(a) PROVE FALSE
      BY <3>3 DEF SetFar, Write, Writes, tealets
    <3>4. ASSUME Initialize \/ Finalize \/ Push \/ Pop PROVE FALSE
      BY <3>4 DEF Initialize, Finalize, Push, Pop, Writes, tealets
    <3>5. ASSUME NEW t, Renew(t) PROVE FALSE
      BY <3>5 DEF Renew
    <3>6. ASSUME NEW t \in Tealets, NEW a \in Addresses, StartSwitch(t, a) PROVE Arms(b)
      BY <2>1, <3>6 DEF StartSwitch, Mismatch, TransferFails, Runs, tealets, Inv, TealetTypes
    <3>7. ASSUME NEW t \in Tealets, NEW a \in Addresses, StartDefault(t, a) PROVE FALSE
      BY <3>7 DEF StartDefault, Mismatch, TransferFails, Runs, tealets
    <3>8. ASSUME NEW t \in Tealets, NEW switched \in BOOLEAN, Fork(t, switched) PROVE Arms(b)
      BY <2>1, <3>8 DEF Fork, Mismatch, TransferFails, Runs, tealets, Inv, TealetTypes
    <3>9. ASSUME NEW t \in Tealets, NEW after, Switch(t, after) PROVE Arms(b)
      BY <2>1, <3>9 DEF Switch, Mismatch, TransferFails, Runs, tealets
    <3> QED BY <3>1, <3>2, <3>3, <3>4, <3>5, <3>6, <3>7, <3>8, <3>9 DEF Next
  <2>3. PICK p : p = Plan(b, cfg)
    OBVIOUS
  <2>4. plan'.guarded = p.guarded
    BY <2>1, <2>3
  <2>5. p \in Plans
    BY <2>3, PlanBounds DEF Inv, Settled
  <2>6. plan' = p \/ plan' = [p EXCEPT !.guarded = 0]
    BY <2>2, <2>3 DEF Arms, Guards
  <2>7. plan' = p
    BY <2>4, <2>5, <2>6 DEF Plans
  <2>8. Guarded(plan') \subseteq denied'
    BY DEF Inv, Watching
  <2>9. b .. b + Watched(b, cfg) - 1 \subseteq Copied(p) \cup Guarded(p)
    BY <2>3, PlanCovers DEF Inv, Settled, Flags
  <2> QED BY <2>1, <2>7, <2>8, <2>9
<1> QED BY <1>1, InvHolds, PTL DEF NoGap, Spec

=============================================================================
