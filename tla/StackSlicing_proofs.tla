------------------------ MODULE StackSlicing_proofs ------------------------
(***************************************************************************)
(* Theorems about StackSlicing, for every stack depth, every set of        *)
(* tealets and every allocator.                                            *)
(***************************************************************************)
EXTENDS StackSlicing, FiniteSetTheorems, TLAPS

USE DepthAssumption, RangesAssumption, TealetsAssumption, StacksAssumption, OptionsAssumption

---------------------------------------------------------------------------
(* Type correctness.  First what each operator on stack records returns.   *)

LEMMA FreeStackType == FreeStack \in StackRecord
  BY DEF FreeStack, StackRecord, Blank, Image, Addr, Edge, Label

LEMMA GrowtoType ==
  ASSUME NEW r \in StackRecord, NEW stop \in Edge, mem \in Image
  PROVE  Growto(r, stop) \in StackRecord
<1> DEFINE saved == Further(r.saved, Nearer(r.far, stop) - r.near)
           data == [a \in Addr |-> IF a \in End(r) .. r.near + saved - 1
                                   THEN mem[a] ELSE r.data[a]]
<1>1. saved \in Edge
  BY DEF StackRecord, Edge, Further, Nearer
<1>2. data \in Image
  BY DEF StackRecord, Image
<1>3. [r EXCEPT !.saved = saved, !.data = data] \in StackRecord
  <2> HIDE DEF saved, data
  <2> QED BY <1>1, <1>2 DEF StackRecord
<1> QED BY <1>3 DEF Growto, Grow

LEMMA MakeDefunctType ==
  ASSUME NEW r \in StackRecord
  PROVE  MakeDefunct(r) \in StackRecord
<1> DEFINE data == [a \in Addr |-> IF a < r.near + r.size THEN r.data[a] ELSE NoStack]
<1>1. data \in Image
  BY DEF StackRecord, Image, Label
<1>2. [r EXCEPT !.saved = 0, !.defunct = TRUE, !.data = data] \in StackRecord
  <2> 0 \in Edge
    BY DEF Edge
  <2> HIDE DEF data
  <2> QED BY <1>1 DEF StackRecord
<1> QED BY <1>2 DEF MakeDefunct

LEMMA DecrefType ==
  ASSUME NEW r \in StackRecord
  PROVE  Decref(r) \in StackRecord
  BY FreeStackType DEF Decref, StackRecord

LEMMA GrownType ==
  ASSUME stacks \in [Stacks -> StackRecord], mem \in Image,
         NEW ts, NEW stop \in Edge, NEW fails, NEW fail_ok
  PROVE  Grown(ts, stop, fails, fail_ok) \in [Stacks -> StackRecord]
  BY GrowtoType, MakeDefunctType DEF Grown

LEMMA SaveToType ==
  ASSUME TypeOK, NEW s \in Stacks, NEW sp \in Pointers, NEW far \in Edge, NEW stop \in Edge
  PROVE  SaveTo(s, sp, far, stop) \in StackRecord
<1> DEFINE size == Further(0, Nearer(far, stop) - sp)
           now == Suspended(s, sp)
           data == [a \in Addr |-> IF a \in sp .. sp + size - 1 THEN now[a] ELSE NoStack]
           frames == [a \in Addr |-> IF a \in sp .. far - 1 THEN now[a] ELSE NoStack]
<1>1. size \in Edge
  BY DEF Edge, Further, Nearer
<1>2. now \in Image
  BY DEF TypeOK, Suspended, Image, Label
<1>3. data \in Image /\ frames \in Image
  BY <1>2 DEF Image, Label
<1>4. [refcount |-> 1, near |-> sp, size |-> size, saved |-> size, far |-> far,
       defunct |-> FALSE, data |-> data, frames |-> frames] \in StackRecord
  <2> HIDE DEF size, data, frames
  <2> QED BY <1>1, <1>3 DEF StackRecord, Edge
<1> QED BY <1>4 DEF SaveTo, StackNew

LEMMA RestoredType ==
  ASSUME NEW r \in StackRecord, NEW m \in Image
  PROVE  Restored(r, m) \in Image
  BY DEF Restored, StackRecord, Image

LEMMA RunningType ==
  ASSUME NEW m \in Image, NEW stop
  PROVE  Running(m, stop) \in Image
  BY DEF Running, Image, Label

LEMMA SuspendedType ==
  ASSUME TypeOK, NEW s \in Stacks, NEW sp
  PROVE  Suspended(s, sp) \in Image
  BY DEF TypeOK, Suspended, Image, Label

(* The part of TypeOK that a transfer's effect on the stacks determines. *)
StackTypes ==
  /\ stacks \in [Stacks -> StackRecord]
  /\ g_prev \subseteq Stacks
  /\ older \in [Stacks -> SUBSET Stacks]
  /\ mem \in Image
  /\ torn \subseteq Tealets

LEMMA ListBecomesType ==
  ASSUME TypeOK, NEW linked \in SUBSET Stacks, ListBecomes(linked)
  PROVE  g_prev' \subseteq Stacks /\ older' \in [Stacks -> SUBSET Stacks]
  BY DEF TypeOK, ListBecomes

LEMMA TransferFailsType ==
  ASSUME TypeOK, NEW ts, NEW stop \in Edge, NEW fail_ok, NEW saves,
         TransferFails(ts, stop, fail_ok, saves)
  PROVE  StackTypes'
<1> PICK fails \in SUBSET MayFailToGrow(ts, stop) :
      /\ stacks' = Grown(ts, stop, fails, fail_ok)
      /\ ListBecomes(g_prev \ Unlinked(ts, stop, fails, fail_ok))
      /\ UNCHANGED <<mem, torn>>
  BY DEF TransferFails
<1>1. g_prev \ Unlinked(ts, stop, fails, fail_ok) \in SUBSET Stacks
  BY DEF TypeOK
<1>2. g_prev' \subseteq Stacks /\ older' \in [Stacks -> SUBSET Stacks]
  BY <1>1, ListBecomesType
<1>3. stacks' \in [Stacks -> StackRecord]
  BY GrownType DEF TypeOK
<1> QED BY <1>2, <1>3 DEF TypeOK, StackTypes

LEMMA ReleasedType ==
  ASSUME NEW grown \in [Stacks -> StackRecord], NEW ts
  PROVE  Released(grown, ts) \in [Stacks -> StackRecord]
  BY DecrefType DEF Released

LEMMA ResumesType ==
  ASSUME TypeOK, NEW t \in Tealets, NEW ts \in Stacks \cup {NoStack},
         NEW grown \in [Stacks -> StackRecord], NEW m \in Image, NEW stop,
         Resumes(t, ts, grown, m, stop)
  PROVE  mem' \in Image /\ torn' \subseteq Tealets
<1>1. mem' \in Image
  BY RestoredType, RunningType DEF Resumes
<1>2. torn' \subseteq Tealets
  BY DEF Resumes, TypeOK
<1> QED BY <1>1, <1>2

LEMMA TransferDropsType ==
  ASSUME TypeOK, NEW t \in Tealets, NEW ts \in Stacks \cup {NoStack},
         NEW stop \in Edge, NEW fail_ok, TransferDrops(t, ts, stop, fail_ok)
  PROVE  StackTypes'
<1> PICK fails \in SUBSET MayFailToGrow(ts, stop) :
      /\ stacks' = Released(Grown(ts, stop, fails, fail_ok), ts)
      /\ ListBecomes(g_prev \ Unlinked(ts, stop, fails, fail_ok))
      /\ Resumes(t, ts, Grown(ts, stop, fails, fail_ok), mem, stop)
  BY DEF TransferDrops
<1>1. g_prev \ Unlinked(ts, stop, fails, fail_ok) \in SUBSET Stacks
  BY DEF TypeOK
<1>2. g_prev' \subseteq Stacks /\ older' \in [Stacks -> SUBSET Stacks]
  BY <1>1, ListBecomesType
<1>3. Grown(ts, stop, fails, fail_ok) \in [Stacks -> StackRecord]
  BY GrownType DEF TypeOK
<1>4. stacks' \in [Stacks -> StackRecord]
  BY <1>3, ReleasedType
<1>5. mem' \in Image /\ torn' \subseteq Tealets
  BY <1>3, ResumesType DEF TypeOK
<1> QED BY <1>2, <1>4, <1>5 DEF StackTypes

LEMMA TransferSavesType ==
  ASSUME TypeOK, NEW t \in Tealets, NEW ts \in Stacks \cup {NoStack},
         NEW stop \in Edge, NEW fail_ok, NEW s \in Stacks, NEW sp \in Pointers,
         NEW far \in Edge, TransferSaves(t, ts, stop, fail_ok, s, sp, far)
  PROVE  StackTypes'
<1> PICK fails \in SUBSET MayFailToGrow(ts, stop) :
      LET grown == Grown(ts, stop, fails, fail_ok)
          kept == g_prev \ Unlinked(ts, stop, fails, fail_ok)
      IN  /\ stacks' = [Released(grown, ts) EXCEPT ![s] = SaveTo(s, sp, far, stop)]
          /\ g_prev' = IF far <= stop THEN kept ELSE kept \cup {s}
          /\ older' = [x \in Stacks |-> IF x \in kept THEN older[x] \cap kept
                                        ELSE IF x = s /\ far > stop THEN kept
                                        ELSE {}]
          /\ Resumes(t, ts, grown, Suspended(s, sp), stop)
  BY DEF TransferSaves
<1> DEFINE grown == Grown(ts, stop, fails, fail_ok)
           kept == g_prev \ Unlinked(ts, stop, fails, fail_ok)
<1>1. kept \subseteq Stacks
  BY DEF TypeOK
<1>2. grown \in [Stacks -> StackRecord]
  BY GrownType DEF TypeOK
<1>3. g_prev' \subseteq Stacks
  BY <1>1
<1>4. older' \in [Stacks -> SUBSET Stacks]
  BY <1>1
<1>5. stacks' \in [Stacks -> StackRecord]
  BY <1>2, SaveToType, ReleasedType
<1>6. mem' \in Image /\ torn' \subseteq Tealets
  BY <1>2, SuspendedType, ResumesType
<1> QED BY <1>3, <1>4, <1>5, <1>6 DEF StackTypes

LEMMA PointersBelowType ==
  ASSUME NEW far, NEW sp \in PointersBelow(far)
  PROVE  sp \in Pointers
  BY DEF PointersBelow

LEMMA BoundaryType ==
  ASSUME NEW far \in Boundaries
  PROVE  far \in Edge
  BY DEF Edge

LEMMA InitTypeOK == Init => TypeOK
<1>1. Depth \in Edge /\ 0 \in Edge
  BY DEF Edge
<1> QED BY <1>1, FreeStackType DEF Init, TypeOK, States, Blank, Image, Label

LEMMA StartFailsTypeOK ==
  ASSUME TypeOK, NEW stop \in Edge, StartFails(stop)
  PROVE  TypeOK'
<1>1. StackTypes'
  BY TransferFailsType DEF StartFails
<1> QED BY <1>1 DEF StartFails, TypeOK, StackTypes, tealetVars

LEMMA RunSwitchTypeOK ==
  ASSUME TypeOK, NEW t \in Tealets, NEW far \in Boundaries, RunSwitch(t, far)
  PROVE  TypeOK'
<1>0. far \in Edge
  BY BoundaryType
<1>1. CASE StartFails(far)
  BY <1>0, <1>1, StartFailsTypeOK
<1>2. ASSUME NEW s \in Stacks,
             NEW sp \in PointersBelow(Nearer(far, stack_far[g_current])),
             TransferSaves(t, NoStack, far, TRUE, s, sp, stack_far[g_current]),
             g_current' = t,
             state' = [state EXCEPT ![t] = "bound"],
             stack' = [stack EXCEPT ![g_current] = s],
             stack_far' = [stack_far EXCEPT ![t] = far]
      PROVE  TypeOK'
  <2>1. StackTypes'
    BY <1>0, <1>2, TransferSavesType, PointersBelowType DEF TypeOK
  <2> QED BY <1>0, <1>2, <2>1 DEF TypeOK, StackTypes, States
<1> QED BY <1>1, <1>2 DEF RunSwitch

LEMMA RunDefaultTypeOK ==
  ASSUME TypeOK, NEW t \in Tealets, NEW far \in Boundaries, RunDefault(t, far)
  PROVE  TypeOK'
<1>0. far \in Edge /\ stack_far[g_current] \in Edge
  BY BoundaryType DEF TypeOK
<1>1. CASE StartFails(stack_far[g_current])
  BY <1>0, <1>1, StartFailsTypeOK
<1>2. ASSUME NEW s \in Stacks,
             NEW sp \in PointersBelow(Nearer(far, stack_far[g_current])),
             TransferSaves(g_current, NoStack, stack_far[g_current], TRUE, s, sp, far),
             state' = [state EXCEPT ![t] = "bound"],
             stack' = [stack EXCEPT ![t] = s],
             stack_far' = [stack_far EXCEPT ![t] = far],
             UNCHANGED g_current
      PROVE  TypeOK'
  <2>1. StackTypes'
    BY <1>0, <1>2, TransferSavesType, PointersBelowType DEF TypeOK
  <2> QED BY <1>0, <1>2, <2>1 DEF TypeOK, StackTypes, States
<1> QED BY <1>1, <1>2 DEF RunDefault

LEMMA ForkTypeOK ==
  ASSUME TypeOK, NEW t \in Tealets, NEW start_switch \in BOOLEAN, Fork(t, start_switch)
  PROVE  TypeOK'
<1> DEFINE far == stack_far[g_current]
<1>0. far \in Edge
  BY DEF TypeOK
<1>1. CASE StartFails(far)
  BY <1>0, <1>1, StartFailsTypeOK
<1>2. ASSUME NEW s \in Stacks, NEW sp \in PointersBelow(far),
             TransferSaves(t, NoStack, far, TRUE, s, sp, far),
             state' = [state EXCEPT ![t] = "bound"],
             stack_far' = [stack_far EXCEPT ![t] = far],
             IF start_switch
             THEN /\ g_current' = t
                  /\ stack' = [stack EXCEPT ![g_current] = s]
             ELSE /\ stack' = [stack EXCEPT ![t] = s]
                  /\ UNCHANGED g_current
      PROVE  TypeOK'
  <2>1. StackTypes'
    BY <1>0, <1>2, TransferSavesType, PointersBelowType
  <2> QED BY <1>0, <1>2, <2>1 DEF TypeOK, StackTypes, States
<1> QED BY <1>1, <1>2 DEF Fork

LEMMA SwitchTypeOK ==
  ASSUME TypeOK, NEW t \in Tealets, NEW force \in BOOLEAN, Switch(t, force)
  PROVE  TypeOK'
<1> DEFINE ts == stack[t]
           stop == stack_far[t]
           far == stack_far[g_current]
<1>0. stop \in Edge /\ far \in Edge /\ ts \in Stacks \cup {NoStack}
  BY DEF TypeOK
<1>1. CASE TransferFails(ts, stop, FailOk(force), TRUE) /\ UNCHANGED tealetVars
  <2>1. StackTypes'
    BY <1>0, <1>1, TransferFailsType
  <2> QED BY <1>1, <2>1 DEF TypeOK, StackTypes, tealetVars
<1>2. ASSUME NEW s \in Stacks, NEW sp \in PointersBelow(far),
             TransferSaves(t, ts, stop, FailOk(force), s, sp, far),
             g_current' = t,
             stack' = [stack EXCEPT ![g_current] = s, ![t] = NoStack],
             UNCHANGED <<state, stack_far>>
      PROVE  TypeOK'
  <2>1. StackTypes'
    BY <1>0, <1>2, TransferSavesType, PointersBelowType
  <2> QED BY <1>0, <1>2, <2>1 DEF TypeOK, StackTypes
<1>3. CASE /\ TransferDrops(t, ts, stop, FALSE)
           /\ g_current' = t
           /\ state' = [state EXCEPT ![g_current] = "defunct"]
           /\ stack' = [stack EXCEPT ![t] = NoStack]
           /\ UNCHANGED stack_far
  <2>1. StackTypes'
    BY <1>0, <1>3, TransferDropsType
  <2> QED BY <1>0, <1>3, <2>1 DEF TypeOK, StackTypes, States
<1> QED BY <1>1, <1>2, <1>3 DEF Switch

LEMMA ExitTypeOK ==
  ASSUME TypeOK, NEW t \in Tealets, NEW force \in BOOLEAN, NEW delete \in BOOLEAN,
         Exit(t, force, delete)
  PROVE  TypeOK'
<1> DEFINE ts == stack[t]
           stop == stack_far[t]
<1>0. stop \in Edge /\ ts \in Stacks \cup {NoStack} /\ 0 \in Edge
  BY DEF TypeOK, Edge
<1>1. CASE TransferFails(ts, stop, ~force, FALSE) /\ UNCHANGED tealetVars
  <2>1. StackTypes'
    BY <1>0, <1>1, TransferFailsType
  <2> QED BY <1>1, <2>1 DEF TypeOK, StackTypes, tealetVars
<1>2. CASE /\ TransferDrops(t, ts, stop, ~force)
           /\ g_current' = t
           /\ state' = [state EXCEPT ![g_current] = IF delete THEN "free" ELSE "exited"]
           /\ stack' = [stack EXCEPT ![t] = NoStack]
           /\ stack_far' = IF delete THEN [stack_far EXCEPT ![g_current] = 0]
                           ELSE stack_far
  <2>1. StackTypes'
    BY <1>0, <1>2, TransferDropsType
  <2>2. stack_far' \in [Tealets -> Edge]
    BY <1>0, <1>2 DEF TypeOK
  <2>3. state' \in [Tealets -> States]
    BY <1>2 DEF TypeOK, States
  <2> QED BY <1>0, <1>2, <2>1, <2>2, <2>3 DEF TypeOK, StackTypes
<1> QED BY <1>1, <1>2 DEF Exit

LEMMA DuplicateTypeOK ==
  ASSUME TypeOK, NEW t \in Tealets, NEW copy \in Tealets, Duplicate(t, copy)
  PROVE  TypeOK'
<1>1. stacks' \in [Stacks -> StackRecord]
  <2>1. CASE stack[t] = NoStack
    BY <2>1 DEF Duplicate, TypeOK
  <2>2. CASE stack[t] # NoStack
    <3>1. stack[t] \in Stacks /\ stacks[stack[t]] \in StackRecord
      BY <2>2 DEF TypeOK
    <3>2. [stacks[stack[t]] EXCEPT !.refcount = @ + 1] \in StackRecord
      BY <3>1 DEF StackRecord
    <3> QED BY <2>2, <3>1, <3>2 DEF Duplicate, TypeOK
  <2> QED BY <2>1, <2>2
<1> QED BY <1>1 DEF Duplicate, TypeOK

LEMMA DeleteTypeOK ==
  ASSUME TypeOK, NEW t \in Tealets, Delete(t)
  PROVE  TypeOK'
<1>0. 0 \in Edge
  BY DEF Edge
<1>1. /\ stacks' \in [Stacks -> StackRecord]
      /\ g_prev' \subseteq Stacks
      /\ older' \in [Stacks -> SUBSET Stacks]
  <2>1. CASE stack[t] = NoStack
    BY <2>1 DEF Delete, TypeOK
  <2>2. CASE stack[t] # NoStack
    <3>1. stacks' \in [Stacks -> StackRecord]
      BY <2>2, DecrefType DEF Delete, TypeOK
    <3>2. g_prev' \subseteq Stacks /\ older' \in [Stacks -> SUBSET Stacks]
      BY <2>2, ListBecomesType DEF Delete, TypeOK
    <3> QED BY <3>1, <3>2
  <2> QED BY <2>1, <2>2
<1> QED BY <1>0, <1>1 DEF Delete, TypeOK, States

LEMMA NextTypeOK == TypeOK /\ [Next]_vars => TypeOK'
<1> SUFFICES ASSUME TypeOK, [Next]_vars PROVE TypeOK'
  OBVIOUS
<1>1. ASSUME NEW t \in Tealets, New(t) PROVE TypeOK'
  BY <1>1 DEF New, TypeOK, States, stackVars
<1>2. ASSUME NEW t \in Tealets, RefuseDefunct(t) PROVE TypeOK'
  BY <1>2 DEF RefuseDefunct, TypeOK, States, stackVars
<1>3. ASSUME NEW far \in Boundaries, SetFar(far) PROVE TypeOK'
  BY <1>3, BoundaryType DEF SetFar, TypeOK, stackVars
<1>4. CASE UNCHANGED vars
  BY <1>4 DEF vars, tealetVars, stackVars, TypeOK
<1>5. \A force \in {Forcing, FALSE} : force \in BOOLEAN
  OBVIOUS
<1> QED
  BY <1>1, <1>2, <1>3, <1>4, <1>5, RunSwitchTypeOK, RunDefaultTypeOK, ForkTypeOK,
     SwitchTypeOK, ExitTypeOK, DuplicateTypeOK, DeleteTypeOK
  DEF Next

(* The variables keep their types in every reachable state. *)
THEOREM TypeCorrect == Spec => []TypeOK
  BY InitTypeOK, NextTypeOK, PTL DEF Spec

---------------------------------------------------------------------------
(* Ownership of the saved stacks.                                          *)

Assignment == [Tealets -> Stacks \cup {NoStack}]

(* How many tealets the assignment f of stacks to tealets gives stack x. *)
Count(f, x) == Cardinality({t \in Tealets : f[t] = x})

LEMMA CountNat ==
  ASSUME NEW f, NEW x
  PROVE  IsFiniteSet({t \in Tealets : f[t] = x}) /\ Count(f, x) \in Nat
<1>1. {t \in Tealets : f[t] = x} \in SUBSET Tealets
  OBVIOUS
<1> QED BY <1>1, FS_Subset, FS_CardinalityType DEF Count

LEMMA CountZero ==
  ASSUME NEW f, NEW x, Count(f, x) = 0, NEW t \in Tealets
  PROVE  f[t] # x
<1>1. {u \in Tealets : f[u] = x} = {}
  BY CountNat, FS_EmptySet DEF Count
<1> QED BY <1>1

(* Giving stack s to c, which had none, adds one owner to s only. *)
LEMMA CountGain ==
  ASSUME NEW f \in Assignment, NEW c \in Tealets, NEW s \in Stacks, f[c] = NoStack,
         NEW x \in Stacks
  PROVE  Count([f EXCEPT ![c] = s], x) = IF x = s THEN Count(f, x) + 1 ELSE Count(f, x)
<1> DEFINE g == [f EXCEPT ![c] = s]
           owners == {t \in Tealets : f[t] = x}
           owning == {t \in Tealets : g[t] = x}
<1>1. x # NoStack
  BY StacksAssumption
<1>2. Count(f, x) = Cardinality(owners) /\ Count(g, x) = Cardinality(owning)
  BY DEF Count
<1>3. IsFiniteSet(owners)
  BY CountNat
<1>4. CASE x = s
  <2>1. owning = owners \cup {c}
    BY <1>4 DEF Assignment
  <2>2. c \notin owners
    BY <1>1
  <2> HIDE DEF owners, owning
  <2>3. Cardinality(owners \cup {c}) = Cardinality(owners) + 1
    BY <2>2, <1>3, FS_AddElement
  <2> QED BY <1>2, <1>4, <2>1, <2>3
<1>5. CASE x # s
  <2>1. owning = owners
    BY <1>1, <1>5 DEF Assignment
  <2> HIDE DEF owners, owning
  <2> QED BY <1>2, <1>5, <2>1
<1> QED BY <1>4, <1>5

(* Taking c's stack away removes one owner of that stack only. *)
LEMMA CountLose ==
  ASSUME NEW f \in Assignment, NEW c \in Tealets, NEW x \in Stacks
  PROVE  Count([f EXCEPT ![c] = NoStack], x) =
           IF x = f[c] THEN Count(f, x) - 1 ELSE Count(f, x)
<1> DEFINE g == [f EXCEPT ![c] = NoStack]
           owners == {t \in Tealets : f[t] = x}
           owning == {t \in Tealets : g[t] = x}
<1>1. x # NoStack
  BY StacksAssumption
<1>2. Count(f, x) = Cardinality(owners) /\ Count(g, x) = Cardinality(owning)
  BY DEF Count
<1>3. IsFiniteSet(owners)
  BY CountNat
<1>4. CASE x = f[c]
  <2>1. owning = owners \ {c}
    BY <1>1, <1>4 DEF Assignment
  <2>2. c \in owners
    BY <1>4
  <2> HIDE DEF owners, owning
  <2>3. Cardinality(owners \ {c}) = Cardinality(owners) - 1
    BY <2>2, <1>3, FS_RemoveElement
  <2> QED BY <1>2, <1>4, <2>1, <2>3
<1>5. CASE x # f[c]
  <2>1. owning = owners
    BY <1>1, <1>5 DEF Assignment
  <2> HIDE DEF owners, owning
  <2> QED BY <1>2, <1>5, <2>1
<1> QED BY <1>4, <1>5

(* What growing and releasing do to the fields that ownership is about. *)
LEMMA GrowtoFields ==
  ASSUME NEW r \in StackRecord, NEW stop \in Edge, mem \in Image
  PROVE  LET g == Growto(r, stop)
         IN  /\ g.refcount = r.refcount /\ g.near = r.near /\ g.size = r.size
             /\ g.far = r.far /\ g.defunct = r.defunct /\ g.frames = r.frames
             /\ g.saved = Further(r.saved, Nearer(r.far, stop) - r.near)
             /\ g.data = [a \in Addr |->
                            IF a \in End(r) .. r.near + g.saved - 1
                            THEN mem[a] ELSE r.data[a]]
  BY DEF Growto, Grow, StackRecord

LEMMA MakeDefunctFields ==
  ASSUME NEW r \in StackRecord
  PROVE  LET g == MakeDefunct(r)
         IN  /\ g.refcount = r.refcount /\ g.near = r.near /\ g.size = r.size
             /\ g.far = r.far /\ g.defunct /\ g.frames = r.frames /\ g.saved = 0
  BY DEF MakeDefunct, StackRecord

LEMMA GrownOwnership ==
  ASSUME TypeOK, NEW ts, NEW stop \in Edge, NEW fails, NEW fail_ok, NEW x \in Stacks
  PROVE  LET g == Grown(ts, stop, fails, fail_ok)[x]
         IN  g.refcount = stacks[x].refcount /\ g.far = stacks[x].far
<1> DEFINE r == stacks[x]
<1>1. r \in StackRecord /\ mem \in Image
  BY DEF TypeOK
<1>2. Grown(ts, stop, fails, fail_ok)[x] \in {r, MakeDefunct(r), Growto(r, stop)}
  BY DEF Grown
<1> HIDE DEF r
<1>3. /\ Growto(r, stop).refcount = r.refcount /\ Growto(r, stop).far = r.far
      /\ MakeDefunct(r).refcount = r.refcount /\ MakeDefunct(r).far = r.far
  BY <1>1, GrowtoFields, MakeDefunctFields
<1> QED BY <1>2, <1>3 DEF r

LEMMA DecrefFields ==
  ASSUME NEW r \in StackRecord
  PROVE  /\ Decref(r).refcount = r.refcount - 1
         /\ r.refcount # 1 => /\ Decref(r).near = r.near /\ Decref(r).size = r.size
                              /\ Decref(r).saved = r.saved /\ Decref(r).far = r.far
                              /\ Decref(r).defunct = r.defunct
                              /\ Decref(r).data = r.data /\ Decref(r).frames = r.frames
<1>1. CASE r.refcount = 1
  <2>1. Decref(r).refcount = 0
    BY <1>1 DEF Decref, FreeStack
  <2> QED BY <1>1, <2>1
<1>2. CASE r.refcount # 1
  <2>1. Decref(r) = [r EXCEPT !.refcount = r.refcount - 1]
    BY <1>2 DEF Decref
  <2> QED BY <1>2, <2>1 DEF StackRecord
<1> QED BY <1>1, <1>2

(* Under the assignment f of stacks to tealets the stack records R count   *)
(* their owners, and each owner agrees with its stack on its far boundary. *)
Owned(f, R, far) ==
  /\ \A x \in Stacks : R[x].refcount = Count(f, x)
  /\ \A u \in Tealets : f[u] # NoStack => R[f[u]].far = far[u]

LEMMA OwnedGrown ==
  ASSUME TypeOK, Owned(stack, stacks, stack_far), NEW ts, NEW stop \in Edge, NEW fails,
         NEW fail_ok
  PROVE  Owned(stack, Grown(ts, stop, fails, fail_ok), stack_far)
<1>1. \A u \in Tealets : stack[u] # NoStack => stack[u] \in Stacks
  BY DEF TypeOK
<1> QED BY <1>1, GrownOwnership DEF Owned

(* Releasing t's stack takes one owner away from it. *)
LEMMA OwnedReleased ==
  ASSUME NEW f \in Assignment, NEW R \in [Stacks -> StackRecord], NEW far, Owned(f, R, far),
         NEW t \in Tealets, f[t] # NoStack
  PROVE  Owned([f EXCEPT ![t] = NoStack], Released(R, f[t]), far)
<1> DEFINE g == [f EXCEPT ![t] = NoStack]
           ts == f[t]
           S == Released(R, ts)
<1>0. g \in Assignment /\ ts \in Stacks
  BY DEF Assignment
<1>1. ASSUME NEW x \in Stacks PROVE S[x].refcount = Count(g, x)
  <2>1. Count(g, x) = IF x = ts THEN Count(f, x) - 1 ELSE Count(f, x)
    BY CountLose
  <2>2. S[x].refcount = IF x = ts THEN R[x].refcount - 1 ELSE R[x].refcount
    BY DecrefFields DEF Released
  <2> QED BY <2>1, <2>2 DEF Owned
<1>2. ASSUME NEW u \in Tealets, g[u] # NoStack PROVE S[g[u]].far = far[u]
  <2>1. u # t /\ g[u] = f[u] /\ g[u] \in Stacks
    BY <1>2 DEF Assignment
  <2>2. CASE g[u] # ts
    BY <2>1, <2>2 DEF Owned, Released
  <2>3. CASE g[u] = ts
    <3>1. Count(g, ts) # 0
      BY <2>3, CountZero
    <3>2. R[ts].refcount # 1
      <4>1. R[ts].refcount = Count(f, ts)
        BY <1>0 DEF Owned
      <4>2. Count(g, ts) = Count(f, ts) - 1
        BY <1>0, CountLose
      <4> QED BY <3>1, <4>1, <4>2
    <3>3. Decref(R[ts]).far = R[ts].far
      BY <1>0, <3>2, DecrefFields
    <3> QED BY <1>0, <2>1, <2>3, <3>3 DEF Owned, Released
  <2> QED BY <2>2, <2>3
<1> QED BY <1>1, <1>2 DEF Owned

(* Suspending c on the free stack s makes c its one owner. *)
LEMMA OwnedSaved ==
  ASSUME NEW f \in Assignment, NEW R \in [Stacks -> StackRecord], NEW far, Owned(f, R, far),
         NEW c \in Tealets, f[c] = NoStack, NEW s \in Stacks, R[s].refcount = 0,
         NEW r, r.refcount = 1, r.far = far[c]
  PROVE  Owned([f EXCEPT ![c] = s], [R EXCEPT ![s] = r], far)
<1> DEFINE g == [f EXCEPT ![c] = s]
           S == [R EXCEPT ![s] = r]
<1>1. ASSUME NEW x \in Stacks PROVE S[x].refcount = Count(g, x)
  <2>1. Count(g, x) = IF x = s THEN Count(f, x) + 1 ELSE Count(f, x)
    BY CountGain
  <2>2. Count(f, x) = R[x].refcount
    BY DEF Owned
  <2>3. S[x].refcount = IF x = s THEN 1 ELSE R[x].refcount
    OBVIOUS
  <2> HIDE DEF g, S
  <2> QED BY <2>1, <2>2, <2>3
<1>2. ASSUME NEW u \in Tealets, g[u] # NoStack PROVE S[g[u]].far = far[u]
  <2>1. CASE u = c
    BY <2>1 DEF Assignment
  <2>2. CASE u # c
    <3>1. g[u] = f[u] /\ f[u] \in Stacks
      BY <1>2, <2>2 DEF Assignment
    <3>2. f[u] # s
      BY CountZero DEF Owned
    <3> QED BY <1>2, <3>1, <3>2 DEF Owned
  <2> QED BY <2>1, <2>2
<1> QED BY <1>1, <1>2 DEF Owned

(* The far boundary of a tealet without a stack may change. *)
LEMMA OwnedFar ==
  ASSUME NEW f, NEW R, NEW far \in [Tealets -> Edge], Owned(f, R, far),
         NEW c \in Tealets, f[c] = NoStack, NEW v
  PROVE  Owned(f, R, [far EXCEPT ![c] = v])
  BY DEF Owned

(* Who has a stack: a suspended tealet has one, the running one and those  *)
(* that do not run yet or any more have none.                              *)
Holders ==
  /\ state[g_current] = "bound" /\ stack[g_current] = NoStack
  /\ \A t \in Tealets :
       /\ state[t] \in {"free", "new", "exited"} => stack[t] = NoStack
       /\ state[t] = "bound" /\ t # g_current => stack[t] # NoStack

Ownership == Owned(stack, stacks, stack_far) /\ Holders

LEMMA InitOwnership == Init => Ownership
<1> SUFFICES ASSUME Init PROVE Ownership
  OBVIOUS
<1>1. ASSUME NEW x \in Stacks PROVE stacks[x].refcount = Count(stack, x)
  <2>1. {t \in Tealets : stack[t] = x} = {}
    BY DEF Init
  <2>2. Count(stack, x) = 0
    BY <2>1, FS_EmptySet DEF Count
  <2> QED BY <2>2 DEF Init, FreeStack
<1> QED BY <1>1 DEF Init, Ownership, Owned, Holders

LEMMA TransferFailsOwned ==
  ASSUME TypeOK, Ownership, NEW ts, NEW stop \in Edge, NEW fail_ok, NEW saves,
         TransferFails(ts, stop, fail_ok, saves), UNCHANGED tealetVars
  PROVE  Ownership'
<1>1. PICK fails \in SUBSET MayFailToGrow(ts, stop) : stacks' = Grown(ts, stop, fails, fail_ok)
  BY DEF TransferFails
<1>2. Owned(stack, stacks', stack_far)
  BY <1>1, OwnedGrown DEF Ownership
<1> QED BY <1>2 DEF Ownership, Owned, Count, Holders, tealetVars

(* The tealets whose stack is t's, after t was resumed. *)
LEMMA TransferDropsOwned ==
  ASSUME TypeOK, Ownership, NEW t \in Tealets, stack[t] # NoStack, NEW stop \in Edge,
         NEW fail_ok, TransferDrops(t, stack[t], stop, fail_ok)
  PROVE  Owned([stack EXCEPT ![t] = NoStack], stacks', stack_far)
<1>1. PICK fails \in SUBSET MayFailToGrow(stack[t], stop) :
        stacks' = Released(Grown(stack[t], stop, fails, fail_ok), stack[t])
  BY DEF TransferDrops
<1>2. Grown(stack[t], stop, fails, fail_ok) \in [Stacks -> StackRecord]
  BY GrownType DEF TypeOK
<1>3. Owned(stack, Grown(stack[t], stop, fails, fail_ok), stack_far)
  BY OwnedGrown DEF Ownership
<1> QED BY <1>1, <1>2, <1>3, OwnedReleased DEF TypeOK, Assignment

(* Switching to t suspends the running tealet on s. *)
LEMMA SwitchSavesOwned ==
  ASSUME TypeOK, Ownership, NEW t \in Tealets, stack[t] # NoStack, NEW stop \in Edge,
         NEW fail_ok, NEW s \in Stacks, NEW sp \in Pointers,
         TransferSaves(t, stack[t], stop, fail_ok, s, sp, stack_far[g_current])
  PROVE  Owned([stack EXCEPT ![g_current] = s, ![t] = NoStack], stacks', stack_far)
<1> DEFINE ts == stack[t]
           far == stack_far[g_current]
           r == SaveTo(s, sp, far, stop)
           f == [stack EXCEPT ![t] = NoStack]
<1>0. stack \in Assignment /\ ts \in Stacks /\ f \in Assignment /\ g_current \in Tealets
  BY DEF TypeOK, Assignment
<1>1. PICK fails \in SUBSET MayFailToGrow(ts, stop) :
        stacks' = [Released(Grown(ts, stop, fails, fail_ok), ts) EXCEPT ![s] = r]
  BY DEF TransferSaves
<1> DEFINE R == Grown(ts, stop, fails, fail_ok)
<1>2. R \in [Stacks -> StackRecord]
  BY GrownType DEF TypeOK
<1>3. Released(R, ts) \in [Stacks -> StackRecord]
  BY <1>2, ReleasedType
<1>4. Owned(f, Released(R, ts), stack_far)
  <2>1. Owned(stack, R, stack_far)
    BY OwnedGrown DEF Ownership
  <2> QED BY <1>0, <1>2, <2>1, OwnedReleased
<1>5. s # ts /\ Released(R, ts)[s].refcount = 0
  <2>1. stacks[s].refcount = 0
    BY DEF TransferSaves
  <2>2. \A u \in Tealets : stack[u] # s
    BY <2>1, CountZero DEF Ownership, Owned
  <2>3. R[s].refcount = 0
    BY <2>1, GrownOwnership
  <2> QED BY <2>2, <2>3 DEF Released
<1>6. r.refcount = 1 /\ r.far = far
  BY DEF SaveTo, StackNew
<1>7. g_current # t /\ f[g_current] = NoStack
  BY <1>0 DEF Ownership, Holders, Assignment
<1> HIDE DEF r, R, far
<1>8. Owned([f EXCEPT ![g_current] = s], [Released(R, ts) EXCEPT ![s] = r], stack_far)
  BY <1>0, <1>3, <1>4, <1>5, <1>6, <1>7, OwnedSaved DEF far
<1>9. [f EXCEPT ![g_current] = s] = [stack EXCEPT ![g_current] = s, ![t] = NoStack]
  BY <1>0, <1>7 DEF Assignment
<1> QED BY <1>1, <1>8, <1>9 DEF R

(* Starting a tealet suspends c, the new tealet or its creator, on s. *)
LEMMA StartSavesOwned ==
  ASSUME TypeOK, Ownership, NEW t, NEW c \in Tealets, stack[c] = NoStack,
         NEW stop \in Edge, NEW far \in Edge, NEW s \in Stacks, NEW sp \in Pointers,
         TransferSaves(t, NoStack, stop, TRUE, s, sp, far),
         NEW edges \in [Tealets -> Edge], Owned(stack, stacks, edges), edges[c] = far
  PROVE  Owned([stack EXCEPT ![c] = s], stacks', edges)
<1> DEFINE r == SaveTo(s, sp, far, stop)
<1>1. PICK fails \in SUBSET MayFailToGrow(NoStack, stop) :
        stacks' = [Released(Grown(NoStack, stop, fails, TRUE), NoStack) EXCEPT ![s] = r]
  BY DEF TransferSaves
<1> DEFINE R == Grown(NoStack, stop, fails, TRUE)
<1>2. R \in [Stacks -> StackRecord]
  BY GrownType DEF TypeOK
<1>3. Released(R, NoStack) = R
  BY <1>2 DEF Released
<1>8. \A x \in Stacks : R[x].refcount = stacks[x].refcount /\ R[x].far = stacks[x].far
  <2>1. \A ok \in BOOLEAN, x \in Stacks :
          LET G == Grown(NoStack, stop, fails, ok)
          IN  G[x].refcount = stacks[x].refcount /\ G[x].far = stacks[x].far
    BY GrownOwnership
  <2> QED BY <2>1
<1>4. Owned(stack, R, edges)
  <2>1. \A u \in Tealets : stack[u] # NoStack => stack[u] \in Stacks
    BY DEF TypeOK
  <2> HIDE DEF R
  <2> QED BY <1>8, <2>1 DEF Owned
<1>5. R[s].refcount = 0
  <2>1. stacks[s].refcount = 0
    BY DEF TransferSaves
  <2> HIDE DEF R
  <2> QED BY <1>8, <2>1
<1>6. r.refcount = 1 /\ r.far = far
  BY DEF SaveTo, StackNew
<1> HIDE DEF r, R
<1>7. Owned([stack EXCEPT ![c] = s], [R EXCEPT ![s] = r], edges)
  BY <1>2, <1>4, <1>5, <1>6, OwnedSaved DEF TypeOK, Assignment
<1> QED BY <1>1, <1>3, <1>7 DEF R

LEMMA StartFailsOwned ==
  ASSUME TypeOK, Ownership, NEW stop \in Edge, StartFails(stop)
  PROVE  Ownership'
  BY TransferFailsOwned DEF StartFails

LEMMA RunSwitchOwned ==
  ASSUME TypeOK, Ownership, NEW t \in Tealets, NEW far \in Boundaries, RunSwitch(t, far)
  PROVE  Ownership'
<1>0. far \in Edge /\ g_current \in Tealets /\ stack_far \in [Tealets -> Edge]
  BY BoundaryType DEF TypeOK
<1>1. CASE StartFails(far)
  BY <1>0, <1>1, StartFailsOwned
<1>2. ASSUME NEW s \in Stacks,
             NEW sp \in PointersBelow(Nearer(far, stack_far[g_current])),
             TransferSaves(t, NoStack, far, TRUE, s, sp, stack_far[g_current]),
             g_current' = t,
             state' = [state EXCEPT ![t] = "bound"],
             stack' = [stack EXCEPT ![g_current] = s],
             stack_far' = [stack_far EXCEPT ![t] = far]
      PROVE  Ownership'
  <2>1. stack[t] = NoStack /\ stack[g_current] = NoStack /\ t # g_current
    BY DEF RunSwitch, Ownership, Holders
  <2>2. Owned(stack, stacks, stack_far')
    BY <1>0, <1>2, <2>1, OwnedFar DEF Ownership
  <2>3. Owned(stack', stacks', stack_far')
    BY <1>0, <1>2, <2>1, <2>2, StartSavesOwned, PointersBelowType
  <2>4. Holders'
    BY <1>2, <2>1 DEF Ownership, Holders, TypeOK
  <2> QED BY <2>3, <2>4 DEF Ownership, Owned, Count
<1> QED BY <1>1, <1>2 DEF RunSwitch

LEMMA RunDefaultOwned ==
  ASSUME TypeOK, Ownership, NEW t \in Tealets, NEW far \in Boundaries, RunDefault(t, far)
  PROVE  Ownership'
<1>0. far \in Edge /\ g_current \in Tealets /\ stack_far \in [Tealets -> Edge]
  BY BoundaryType DEF TypeOK
<1>1. CASE StartFails(stack_far[g_current])
  BY <1>0, <1>1, StartFailsOwned
<1>2. ASSUME NEW s \in Stacks,
             NEW sp \in PointersBelow(Nearer(far, stack_far[g_current])),
             TransferSaves(g_current, NoStack, stack_far[g_current], TRUE, s, sp, far),
             state' = [state EXCEPT ![t] = "bound"],
             stack' = [stack EXCEPT ![t] = s],
             stack_far' = [stack_far EXCEPT ![t] = far],
             UNCHANGED g_current
      PROVE  Ownership'
  <2>1. stack[t] = NoStack /\ t # g_current
    BY DEF RunDefault, Ownership, Holders
  <2>2. Owned(stack, stacks, stack_far')
    BY <1>0, <1>2, <2>1, OwnedFar DEF Ownership
  <2>3. Owned(stack', stacks', stack_far')
    BY <1>0, <1>2, <2>1, <2>2, StartSavesOwned, PointersBelowType
  <2>4. Holders'
    BY <1>2, <2>1 DEF Ownership, Holders, TypeOK
  <2> QED BY <2>3, <2>4 DEF Ownership, Owned, Count
<1> QED BY <1>1, <1>2 DEF RunDefault

LEMMA ForkOwned ==
  ASSUME TypeOK, Ownership, NEW t \in Tealets, NEW start_switch \in BOOLEAN,
         Fork(t, start_switch)
  PROVE  Ownership'
<1> DEFINE far == stack_far[g_current]
<1>0. far \in Edge /\ g_current \in Tealets /\ stack_far \in [Tealets -> Edge]
  BY DEF TypeOK
<1>1. CASE StartFails(far)
  BY <1>0, <1>1, StartFailsOwned
<1>2. ASSUME NEW s \in Stacks, NEW sp \in PointersBelow(far),
             TransferSaves(t, NoStack, far, TRUE, s, sp, far),
             state' = [state EXCEPT ![t] = "bound"],
             stack_far' = [stack_far EXCEPT ![t] = far],
             IF start_switch
             THEN /\ g_current' = t
                  /\ stack' = [stack EXCEPT ![g_current] = s]
             ELSE /\ stack' = [stack EXCEPT ![t] = s]
                  /\ UNCHANGED g_current
      PROVE  Ownership'
  <2>1. stack[t] = NoStack /\ stack[g_current] = NoStack /\ t # g_current
    BY DEF Fork, Ownership, Holders
  <2>2. Owned(stack, stacks, stack_far')
    BY <1>0, <1>2, <2>1, OwnedFar DEF Ownership
  <2>3. stack_far'[t] = far /\ stack_far'[g_current] = far
    BY <1>0, <1>2
  <2>4. PICK c \in {t, g_current} : stack' = [stack EXCEPT ![c] = s]
    BY <1>2
  <2>5. stack_far' \in [Tealets -> Edge]
    BY <1>0, <1>2
  <2> HIDE DEF far
  <2>6. Owned(stack', stacks', stack_far')
    BY <1>0, <1>2, <2>1, <2>2, <2>3, <2>4, <2>5, StartSavesOwned, PointersBelowType
  <2>7. Holders'
    BY <1>2, <2>1 DEF Ownership, Holders, TypeOK
  <2> QED BY <2>6, <2>7 DEF Ownership, Owned, Count
<1> QED BY <1>1, <1>2 DEF Fork

LEMMA SwitchOwned ==
  ASSUME TypeOK, Ownership, NEW t \in Tealets, NEW force \in BOOLEAN, Switch(t, force)
  PROVE  Ownership'
<1> DEFINE ts == stack[t]
           stop == stack_far[t]
           far == stack_far[g_current]
<1>0. stop \in Edge /\ far \in Edge /\ g_current \in Tealets
  BY DEF TypeOK
<1>00. ts # NoStack /\ t # g_current /\ state[t] = "bound" /\ stack[g_current] = NoStack
  BY DEF Switch, CanResume, Ownership, Holders
<1>1. CASE TransferFails(ts, stop, FailOk(force), TRUE) /\ UNCHANGED tealetVars
  BY <1>0, <1>1, TransferFailsOwned
<1>2. ASSUME NEW s \in Stacks, NEW sp \in PointersBelow(far),
             TransferSaves(t, ts, stop, FailOk(force), s, sp, far),
             g_current' = t,
             stack' = [stack EXCEPT ![g_current] = s, ![t] = NoStack],
             UNCHANGED <<state, stack_far>>
      PROVE  Ownership'
  <2>1. Owned(stack', stacks', stack_far')
    BY <1>0, <1>00, <1>2, SwitchSavesOwned, PointersBelowType
  <2>2. Holders'
    BY <1>00, <1>2 DEF Ownership, Holders, TypeOK
  <2> QED BY <2>1, <2>2 DEF Ownership, Owned, Count
<1>3. CASE /\ ~FailOk(force)
           /\ TransferDrops(t, ts, stop, FALSE)
           /\ g_current' = t
           /\ state' = [state EXCEPT ![g_current] = "defunct"]
           /\ stack' = [stack EXCEPT ![t] = NoStack]
           /\ UNCHANGED stack_far
  <2>1. Owned(stack', stacks', stack_far')
    BY <1>0, <1>00, <1>3, TransferDropsOwned
  <2>2. Holders'
    BY <1>00, <1>3 DEF Ownership, Holders, TypeOK, FailOk
  <2> QED BY <2>1, <2>2 DEF Ownership, Owned, Count
<1> QED BY <1>1, <1>2, <1>3 DEF Switch

LEMMA ExitOwned ==
  ASSUME TypeOK, Ownership, NEW t \in Tealets, NEW force \in BOOLEAN, NEW delete \in BOOLEAN,
         Exit(t, force, delete)
  PROVE  Ownership'
<1> DEFINE ts == stack[t]
           stop == stack_far[t]
<1>0. stop \in Edge /\ g_current \in Tealets /\ g_current # Main
  BY DEF TypeOK, Exit
<1>00. ts # NoStack /\ t # g_current /\ state[t] = "bound" /\ stack[g_current] = NoStack
  BY DEF Exit, CanResume, Ownership, Holders
<1>1. CASE TransferFails(ts, stop, ~force, FALSE) /\ UNCHANGED tealetVars
  BY <1>0, <1>1, TransferFailsOwned
<1>2. CASE /\ TransferDrops(t, ts, stop, ~force)
           /\ g_current' = t
           /\ state' = [state EXCEPT ![g_current] = IF delete THEN "free" ELSE "exited"]
           /\ stack' = [stack EXCEPT ![t] = NoStack]
           /\ stack_far' = IF delete THEN [stack_far EXCEPT ![g_current] = 0]
                           ELSE stack_far
  <2>1. Owned(stack', stacks', stack_far)
    BY <1>0, <1>00, <1>2, TransferDropsOwned
  <2>2. stack'[g_current] = NoStack
    BY <1>0, <1>00, <1>2 DEF TypeOK
  <2>3. Owned(stack', stacks', stack_far')
    BY <1>0, <1>2, <2>1, <2>2, OwnedFar DEF TypeOK
  <2>4. Holders'
    BY <1>0, <1>00, <1>2 DEF Ownership, Holders, TypeOK
  <2> QED BY <2>3, <2>4 DEF Ownership, Owned, Count
<1> QED BY <1>1, <1>2 DEF Exit

LEMMA DuplicateOwned ==
  ASSUME TypeOK, Ownership, NEW t \in Tealets, NEW copy \in Tealets, Duplicate(t, copy)
  PROVE  Ownership'
<1>0. /\ stack \in Assignment /\ stack_far \in [Tealets -> Edge]
      /\ stacks \in [Stacks -> StackRecord]
  BY DEF TypeOK, Assignment
<1>1. stack[copy] = NoStack /\ copy # t /\ copy # g_current
  BY DEF Duplicate, Ownership, Holders
<1>2. Owned(stack', stacks', stack_far')
  <2>1. CASE stack[t] = NoStack
    <3>1. stack' = stack /\ stacks' = stacks
      BY <1>0, <1>1, <2>1 DEF Duplicate, Assignment
    <3>2. Owned(stack, stacks, stack_far')
      BY <1>0, <1>1, OwnedFar DEF Duplicate, Ownership
    <3> QED BY <3>1, <3>2
  <2>2. CASE stack[t] # NoStack
    <3> DEFINE s == stack[t]
    <3>0. s \in Stacks
      BY <1>0, <2>2 DEF Assignment
    <3>1. ASSUME NEW x \in Stacks PROVE stacks'[x].refcount = Count(stack', x)
      <4>1. Count([stack EXCEPT ![copy] = s], x) =
              IF x = s THEN Count(stack, x) + 1 ELSE Count(stack, x)
        BY <1>0, <1>1, <3>0, CountGain
      <4>2. stacks'[x].refcount = IF x = s THEN stacks[x].refcount + 1
                                  ELSE stacks[x].refcount
        BY <1>0, <2>2, <3>0 DEF Duplicate, StackRecord
      <4>3. stacks[x].refcount = Count(stack, x)
        BY DEF Ownership, Owned
      <4>4. stack' = [stack EXCEPT ![copy] = s]
        BY DEF Duplicate
      <4> HIDE DEF s
      <4> QED BY <4>1, <4>2, <4>3, <4>4
    <3>2. ASSUME NEW u \in Tealets, stack'[u] # NoStack
          PROVE  stacks'[stack'[u]].far = stack_far'[u]
      <4>1. \A x \in Stacks : stacks'[x].far = stacks[x].far
        BY <1>0, <2>2, <3>0 DEF Duplicate, StackRecord
      <4>2. stack'[u] \in Stacks
        BY <1>0, <3>0, <3>2 DEF Duplicate, Assignment
      <4>3. stacks[stack'[u]].far = stack_far'[u]
        BY <1>0, <1>1, <2>2, <3>2 DEF Duplicate, Ownership, Owned, Assignment
      <4> QED BY <4>1, <4>2, <4>3
    <3> QED BY <3>1, <3>2 DEF Owned
  <2> QED BY <2>1, <2>2
<1>3. Holders'
  BY <1>0, <1>1 DEF Duplicate, Ownership, Holders, TypeOK
<1> QED BY <1>2, <1>3 DEF Ownership, Owned, Count

LEMMA DeleteOwned ==
  ASSUME TypeOK, Ownership, NEW t \in Tealets, Delete(t)
  PROVE  Ownership'
<1>0. /\ stack \in Assignment /\ stack_far \in [Tealets -> Edge]
      /\ stacks \in [Stacks -> StackRecord]
  BY DEF TypeOK, Assignment
<1>1. stack' = [stack EXCEPT ![t] = NoStack] /\ stack'[t] = NoStack
  BY <1>0 DEF Delete, Assignment
<1>2. Owned(stack', stacks', stack_far)
  <2>1. CASE stack[t] = NoStack
    <3>1. stack' = stack
      BY <1>0, <1>1, <2>1 DEF Assignment
    <3> QED BY <2>1, <3>1 DEF Delete, Ownership
  <2>2. CASE stack[t] # NoStack
    <3>1. stack[t] \in Stacks
      BY <1>0, <2>2 DEF Assignment
    <3>2. stacks' = Released(stacks, stack[t])
      BY <1>0, <2>2, <3>1 DEF Delete, Released
    <3> QED BY <1>0, <1>1, <2>2, <3>2, OwnedReleased DEF Ownership
  <2> QED BY <2>1, <2>2
<1>3. Owned(stack', stacks', stack_far')
  BY <1>0, <1>1, <1>2, OwnedFar DEF Delete
<1>4. Holders'
  BY <1>0 DEF Delete, Ownership, Holders, TypeOK
<1> QED BY <1>3, <1>4 DEF Ownership, Owned, Count

LEMMA NextOwnership == TypeOK /\ Ownership /\ [Next]_vars => Ownership'
<1> SUFFICES ASSUME TypeOK, Ownership, [Next]_vars PROVE Ownership'
  OBVIOUS
<1>1. ASSUME NEW t \in Tealets, New(t) PROVE Ownership'
  BY <1>1 DEF New, Ownership, Owned, Count, Holders, TypeOK, stackVars
<1>2. ASSUME NEW t \in Tealets, RefuseDefunct(t) PROVE Ownership'
  BY <1>2 DEF RefuseDefunct, Ownership, Owned, Count, Holders, TypeOK, stackVars
<1>3. ASSUME NEW far \in Boundaries, SetFar(far) PROVE Ownership'
  <2>1. Owned(stack, stacks, stack_far')
    BY <1>3, OwnedFar DEF SetFar, Ownership, Holders, TypeOK
  <2> QED BY <1>3, <2>1 DEF SetFar, Ownership, Owned, Count, Holders, stackVars
<1>4. CASE UNCHANGED vars
  BY <1>4 DEF vars, tealetVars, stackVars, Ownership, Owned, Count, Holders
<1>5. \A force \in {Forcing, FALSE} : force \in BOOLEAN
  OBVIOUS
<1> QED
  BY <1>1, <1>2, <1>3, <1>4, <1>5, RunSwitchOwned, RunDefaultOwned, ForkOwned,
     SwitchOwned, ExitOwned, DuplicateOwned, DeleteOwned
  DEF Next

(* No saved stack is leaked or freed early.                                *)
THEOREM RefcountIsExact == Spec => []RefcountExact
<1>1. TypeOK /\ Ownership /\ [Next]_vars => (TypeOK /\ Ownership)'
  BY NextTypeOK, NextOwnership
<1>2. Init => TypeOK /\ Ownership
  BY InitTypeOK, InitOwnership
<1>3. Ownership => RefcountExact
  BY DEF Ownership, Owned, Count, RefcountExact, Owners
<1> QED BY <1>1, <1>2, <1>3, PTL DEF Spec

============================================================================
