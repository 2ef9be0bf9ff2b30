--------------------------- MODULE Configuration ---------------------------
(***************************************************************************)
(* The run-time configuration of a domain (src/src/tealet.h,               *)
(* tealet_config_t): what tealet_configure_set() makes of a request, and   *)
(* the intervals of the stack that are watched for a tealet under it.      *)
(*                                                                         *)
(* Stacks descend: a tealet's own frames are the addresses from its stack  *)
(* pointer up to its far boundary, which is the first that is not its own. *)
(***************************************************************************)
EXTENDS Integers

CONSTANTS
  Backends,   \* what this build can do: "GUARD" and "SNAPSHOT", or less
  PageSize,   \* sysconf(_SC_PAGESIZE)
  Furthest,   \* STACKMAN_SP_FURTHEST, above every address of the stack
  NULL        \* the NULL pointer

ASSUME ConfigurationAssumption ==
  /\ Backends \subseteq {"GUARD", "SNAPSHOT"}
  /\ PageSize \in Nat \ {0}
  /\ Furthest \in Nat /\ NULL \notin Nat

Addresses == 0 .. Furthest - 1

Modes == {"NONE", "READONLY", "NOACCESS"}
Policies == {"ASSERT", "ERROR", "ABORT"}
Flags == {"INTEGRITY", "GUARD", "SNAPSHOT"}

(* "OTHER" is any bit or value that this version does not know.            *)
Requests ==
  [flags : SUBSET (Flags \cup {"OTHER"}), bytes : Nat, mode : Modes \cup {"OTHER"},
   policy : Policies \cup {"OTHER"}, limit : Nat \cup {NULL}, max : Nat]
Configs ==
  [flags : SUBSET Flags, bytes : Nat, mode : Modes, policy : Policies,
   limit : Nat \cup {NULL}, max : Nat]

Initial(max) ==
  [flags |-> {}, bytes |-> 0, mode |-> "NONE", policy |-> "ASSERT", limit |-> NULL, max |-> max]

(* A caller built against another version passes the first n fields.       *)
Position == [flags |-> 1, bytes |-> 2, mode |-> 3, policy |-> 4, limit |-> 5, max |-> 6]
Prefixed(c, n, base) == [f \in DOMAIN Position |-> IF Position[f] <= n THEN c[f] ELSE base[f]]

SupportedFlags == IF Backends = {} THEN {} ELSE Backends \cup {"INTEGRITY"}

(* Mutant: the mode is chosen before the flags are settled. *)
CanonicalEarlyMode(c) ==
  LET asked == c.flags \cap SupportedFlags
      on    == "INTEGRITY" \in asked /\ asked \cap Backends # {} /\ c.bytes # 0
  IN  [flags  |-> IF on THEN asked ELSE {},
       bytes  |-> IF on THEN c.bytes ELSE 0,
       mode   |-> IF "GUARD" \in asked THEN "NOACCESS" ELSE "NONE",
       policy |-> IF c.policy \in Policies THEN c.policy ELSE "ASSERT",
       limit  |-> IF on THEN c.limit ELSE NULL,
       max    |-> c.max]

(* tealet_config_canonicalize(): integrity needs a back end and bytes to   *)
(* watch, and without it everything that belongs to it is reset.           *)
Canonical(c) ==
  LET asked == c.flags \cap SupportedFlags
      on    == "INTEGRITY" \in asked /\ asked \cap Backends # {} /\ c.bytes # 0
      flags == IF on THEN asked ELSE {}
  IN  [flags  |-> flags,
       bytes  |-> IF on THEN c.bytes ELSE 0,
       mode   |-> IF "GUARD" \notin flags THEN "NONE"
                  ELSE IF c.mode \in {"READONLY", "NOACCESS"} THEN c.mode ELSE "NOACCESS",
       policy |-> IF c.policy \in Policies THEN c.policy ELSE "ASSERT",
       limit  |-> IF on THEN c.limit ELSE NULL,
       max    |-> c.max]

Least(a, b) == IF a <= b THEN a ELSE b

(* tealet_snapshot_required_capacity() *)
RequiredCapacity(c) ==
  IF "SNAPSHOT" \notin c.flags THEN 0
  ELSE IF "GUARD" \in c.flags /\ PageSize > 1 THEN Least(c.bytes, PageSize - 1) ELSE c.bytes

---------------------------------------------------------------------------
(* tealet_integrity_plan_for_current(): the bytes beyond the boundary far, *)
(* in whole pages as far as possible.  Those before the first page are     *)
(* copied.                                                                 *)

NoPlan == [base |-> 0, bytes |-> 0, guard |-> 0, guarded |-> 0]
Plans == [base : Nat, bytes : Nat, guard : Nat, guarded : Nat]

(* The addresses that are copied, and those that are guarded.              *)
Copied(p) == p.base .. p.base + p.bytes - 1
Guarded(p) == p.guard .. p.guard + p.guarded - 1

(* Mutant: a limit on the near side of the boundary is subtracted. *)
WatchedUnderflow(far, c) ==
  IF far = Furthest \/ "INTEGRITY" \notin c.flags THEN 0
  ELSE IF c.limit = NULL THEN c.bytes ELSE Least(c.bytes, c.limit - far)

(* How many bytes are watched beyond far.                                  *)
Watched(far, c) ==
  IF far = Furthest \/ "INTEGRITY" \notin c.flags THEN 0
  ELSE IF c.limit = NULL THEN c.bytes
  ELSE IF c.limit <= far THEN 0 ELSE Least(c.bytes, c.limit - far)

RoundUp(a) == ((a + PageSize - 1) \div PageSize) * PageSize

(* Mutant: the first page is the one that holds the boundary. *)
PlanRoundedDown(far, c) ==
  LET first == (far \div PageSize) * PageSize
  IN  IF Watched(far, c) = 0 THEN NoPlan
      ELSE [base |-> far, bytes |-> 0, guard |-> first, guarded |-> RoundUp(far + 1) - first]

(* Mutant: all that is watched is copied, in whole pages or not. *)
PlanUnclipped(far, c) ==
  IF Watched(far, c) = 0 THEN NoPlan
  ELSE [base |-> far, bytes |-> Watched(far, c), guard |-> RoundUp(far), guarded |-> 0]

(* Mutant: the copy stops one byte short of the first page. *)
PlanShort(far, c) ==
  LET length == Watched(far, c)
      end    == far + length
      first  == RoundUp(far)
      copied == IF "GUARD" \in c.flags /\ first > far THEN Least(length, first - far - 1) ELSE length
  IN  IF length = 0 THEN NoPlan
      ELSE [base    |-> far,
            bytes   |-> IF "SNAPSHOT" \in c.flags THEN copied ELSE 0,
            guard   |-> first,
            guarded |-> IF "GUARD" \in c.flags /\ first < end THEN RoundUp(end) - first ELSE 0]

Plan(far, c) ==
  LET length == Watched(far, c)
      end    == far + length
      first  == RoundUp(far)
      copied == IF "GUARD" \in c.flags THEN Least(length, first - far) ELSE length
  IN  IF length = 0 THEN NoPlan
      ELSE [base    |-> far,
            bytes   |-> IF "SNAPSHOT" \in c.flags THEN copied ELSE 0,
            guard   |-> first,
            guarded |-> IF "GUARD" \in c.flags /\ first < end THEN RoundUp(end) - first ELSE 0]

=============================================================================
