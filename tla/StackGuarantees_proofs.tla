----------------------- MODULE StackGuarantees_proofs -----------------------
(***************************************************************************)
(* What the callers of libtealet may count on, and under which conditions: *)
(* theorems that rest on the invariants of StackRecovery_proofs.           *)
(***************************************************************************)
EXTENDS StackRecovery_proofs

USE DepthAssumption, RangesAssumption, TealetsAssumption, StacksAssumption, OptionsAssumption

(* A step fails a transfer, ends with one that drops or saves the outgoing *)
(* stack, shares or lets go of a stack, or leaves the stacks alone.        *)
StepFails ==
  \E ts \in Stacks \cup {NoStack}, stop \in Edge, fail_ok, saves \in BOOLEAN :
    Resumable(ts, stop) /\ TransferFails(ts, stop, fail_ok, saves)

StepDrops ==
  \E t \in Tealets, ts \in Stacks \cup {NoStack}, stop \in Edge, fail_ok \in BOOLEAN :
    (fail_ok \/ Forcing) /\ Resumable(ts, stop) /\ TransferDrops(t, ts, stop, fail_ok)

StepSaves ==
  \E t \in Tealets, ts \in Stacks \cup {NoStack}, stop, far \in Edge, fail_ok \in BOOLEAN,
     s \in Stacks, sp \in Pointers :
    /\ fail_ok \/ Forcing
    /\ sp < far /\ Resumable(ts, stop)
    /\ TransferSaves(t, ts, stop, fail_ok, s, sp, far)

StepShares == \E t, copy \in Tealets : Duplicate(t, copy)

StepDeletes == \E t \in Tealets : Delete(t)

LEMMA NoStackResumable ==
  ASSUME NEW stop PROVE Resumable(NoStack, stop)
  BY DEF Resumable

LEMMA StartStep ==
  ASSUME NEW stop \in Edge, StartFails(stop)
  PROVE  StepFails
  BY NoStackResumable DEF StartFails, StepFails

LEMMA RunSwitchStep ==
  ASSUME TypeOK, NEW t \in Tealets, NEW far \in Boundaries, RunSwitch(t, far)
  PROVE  StepFails \/ StepSaves
<1>0. far \in Edge /\ stack_far[g_current] \in Edge
  BY BoundaryType DEF TypeOK
<1>1. CASE StartFails(far)
  BY <1>0, <1>1, StartStep
<1>2. ASSUME NEW s \in Stacks,
             NEW sp \in PointersBelow(Nearer(far, stack_far[g_current])),
             TransferSaves(t, NoStack, far, TRUE, s, sp, stack_far[g_current])
      PROVE  StepSaves
  <2>1. sp \in Pointers /\ sp < stack_far[g_current]
    BY <1>0, PointersBelowFar
  <2> QED BY <1>0, <1>2, <2>1, NoStackResumable DEF StepSaves
<1> QED BY <1>1, <1>2 DEF RunSwitch

LEMMA RunDefaultStep ==
  ASSUME TypeOK, NEW t \in Tealets, NEW far \in Boundaries, RunDefault(t, far)
  PROVE  StepFails \/ StepSaves
<1> DEFINE w == stack_far[g_current]
<1>0. far \in Edge /\ w \in Edge /\ g_current \in Tealets
  BY BoundaryType DEF TypeOK
<1>1. CASE StartFails(w)
  BY <1>0, <1>1, StartStep
<1>2. ASSUME NEW s \in Stacks, NEW sp \in PointersBelow(Nearer(far, w)),
             TransferSaves(g_current, NoStack, w, TRUE, s, sp, far)
      PROVE  StepSaves
  <2>1. sp \in Pointers /\ sp < far
    BY <1>0, PointersBelowFar
  <2> QED BY <1>0, <1>2, <2>1, NoStackResumable DEF StepSaves
<1> QED BY <1>1, <1>2 DEF RunDefault

LEMMA ForkStep ==
  ASSUME TypeOK, NEW t \in Tealets, NEW start_switch \in BOOLEAN, Fork(t, start_switch)
  PROVE  StepFails \/ StepSaves
<1> DEFINE far == stack_far[g_current]
<1>0. far \in Edge
  BY DEF TypeOK
<1>1. CASE StartFails(far)
  BY <1>0, <1>1, StartStep
<1>2. ASSUME NEW s \in Stacks, NEW sp \in PointersBelow(far),
             TransferSaves(t, NoStack, far, TRUE, s, sp, far)
      PROVE  StepSaves
  <2>1. sp \in Pointers /\ sp < far
    BY DEF PointersBelow
  <2> QED BY <1>0, <1>2, <2>1, NoStackResumable DEF StepSaves
<1> QED BY <1>1, <1>2 DEF Fork

LEMMA SwitchStep ==
  ASSUME TypeOK, Ownership, NEW t \in Tealets, NEW force \in {Forcing, FALSE},
         Switch(t, force)
  PROVE  StepFails \/ StepSaves \/ StepDrops
<1> DEFINE ts == stack[t]
           stop == stack_far[t]
           far == stack_far[g_current]
<1>0. stop \in Edge /\ far \in Edge /\ ts \in Stacks \cup {NoStack} /\ FailOk(force) \in BOOLEAN
  BY DEF TypeOK, FailOk
<1>00. FailOk(force) \/ Forcing
  BY DEF FailOk
<1>1. Resumable(ts, stop)
  BY CanResumeStack DEF Switch
<1>2. CASE TransferFails(ts, stop, FailOk(force), TRUE)
  BY <1>0, <1>1, <1>2 DEF StepFails
<1>3. ASSUME NEW s \in Stacks, NEW sp \in PointersBelow(far),
             TransferSaves(t, ts, stop, FailOk(force), s, sp, far)
      PROVE  StepSaves
  <2>1. sp \in Pointers /\ sp < far
    BY DEF PointersBelow
  <2> QED BY <1>0, <1>00, <1>1, <1>3, <2>1 DEF StepSaves
<1>4. CASE TransferDrops(t, ts, stop, FALSE) /\ ~FailOk(force)
  BY <1>0, <1>00, <1>1, <1>4 DEF StepDrops
<1> QED BY <1>2, <1>3, <1>4 DEF Switch

LEMMA ExitStep ==
  ASSUME TypeOK, Ownership, NEW t \in Tealets, NEW force \in {Forcing, FALSE},
         NEW delete \in BOOLEAN, Exit(t, force, delete)
  PROVE  StepFails \/ StepDrops
<1> DEFINE ts == stack[t]
           stop == stack_far[t]
<1>0. stop \in Edge /\ ts \in Stacks \cup {NoStack} /\ (~force) \in BOOLEAN
  BY DEF TypeOK
<1>00. ~force \/ Forcing
  OBVIOUS
<1>1. Resumable(ts, stop)
  BY CanResumeStack DEF Exit
<1>2. CASE TransferFails(ts, stop, ~force, FALSE)
  BY <1>0, <1>1, <1>2 DEF StepFails
<1>3. CASE TransferDrops(t, ts, stop, ~force)
  BY <1>0, <1>00, <1>1, <1>3 DEF StepDrops
<1> QED BY <1>2, <1>3 DEF Exit

LEMMA Steps ==
  ASSUME TypeOK, Ownership, [Next]_vars
  PROVE  \/ StepFails \/ StepDrops \/ StepSaves \/ StepShares \/ StepDeletes
         \/ UNCHANGED <<stackVars, torn>>
<1>1. CASE UNCHANGED vars
  BY <1>1 DEF vars
<1>2. ASSUME NEW t \in Tealets, New(t) \/ RefuseDefunct(t) PROVE UNCHANGED <<stackVars, torn>>
  BY <1>2 DEF New, RefuseDefunct
<1>3. ASSUME NEW far \in Boundaries, SetFar(far) PROVE UNCHANGED <<stackVars, torn>>
  BY <1>3 DEF SetFar
<1> QED
  BY <1>1, <1>2, <1>3, RunSwitchStep, RunDefaultStep, ForkStep, SwitchStep, ExitStep
  DEF Next, StepShares, StepDeletes

---------------------------------------------------------------------------
(* Saving is monotone.                                                     *)

(* From record r to record q of the same stack nothing saved was given up, *)
(* unless the stack was freed, or lost and marked defunct.                 *)
Keeps(r, q) ==
  r.refcount > 0 /\ q.refcount > 0 =>
    /\ q.near = r.near /\ q.far = r.far
    /\ q.saved >= r.saved \/ q.defunct
    /\ r.defunct => q.defunct

LEMMA GrownKeeps ==
  ASSUME TypeOK, NEW ts, NEW stop \in Edge, NEW fails, NEW fail_ok, NEW s \in Stacks
  PROVE  LET q == Grown(ts, stop, fails, fail_ok)[s]
         IN  /\ q \in StackRecord /\ q.refcount = stacks[s].refcount
             /\ q.near = stacks[s].near /\ q.far = stacks[s].far
             /\ q.saved >= stacks[s].saved \/ q.defunct
             /\ stacks[s].defunct => q.defunct
<1> DEFINE r == stacks[s]
           q == Grown(ts, stop, fails, fail_ok)[s]
<1>1. r \in StackRecord /\ mem \in Image /\ q \in StackRecord
  BY GrownType DEF TypeOK
<1>2. CASE q = r
  <2>1. r.saved \in Int
    BY <1>1, RecordInts
  <2> HIDE DEF q, r
  <2>2. q.saved >= r.saved
    BY <1>2, <2>1
  <2> QED BY <1>1, <1>2, <2>2 DEF q, r
<1>3. CASE q = MakeDefunct(r)
  <2>1. /\ MakeDefunct(r).refcount = r.refcount /\ MakeDefunct(r).near = r.near
        /\ MakeDefunct(r).far = r.far /\ MakeDefunct(r).defunct
    BY <1>1, MakeDefunctFields
  <2> HIDE DEF q
  <2> QED BY <1>1, <1>3, <2>1 DEF q
<1>4. CASE q = Growto(r, stop)
  <2> DEFINE g == Growto(r, stop)
             n == Nearer(r.far, stop) - r.near
  <2>1. /\ g.refcount = r.refcount /\ g.near = r.near /\ g.far = r.far
        /\ g.defunct = r.defunct /\ g.saved = Further(r.saved, n)
    BY <1>1, GrowtoFields
  <2>2. r.saved \in Int /\ n \in Int
    BY <1>1, RecordInts DEF Nearer, Edge
  <2> HIDE DEF g, n, q, r
  <2>3. g.saved >= r.saved
    BY <2>1, <2>2 DEF Further
  <2>4. q = g
    BY <1>4 DEF g
  <2> QED BY <1>1, <2>1, <2>3, <2>4 DEF q, r
<1> QED BY <1>2, <1>3, <1>4, GrownCases

LEMMA DecrefKeeps ==
  ASSUME NEW r, NEW q \in StackRecord, Keeps(r, q), q.refcount > 0 => r.refcount > 0
  PROVE  Keeps(r, Decref(q))
<1>1. Decref(q).refcount = q.refcount - 1 /\ q.refcount \in Int
  BY DecrefFields, RecordInts
<1>2. q.refcount # 1 => /\ Decref(q).near = q.near /\ Decref(q).far = q.far
                        /\ Decref(q).saved = q.saved /\ Decref(q).defunct = q.defunct
  BY DecrefFields
<1> QED BY <1>1, <1>2 DEF Keeps

(* No step gives up what it has saved of a stack that lives on. *)
LEMMA NextKeeps ==
  ASSUME TypeOK, Ownership, [Next]_vars, NEW s \in Stacks
  PROVE  Keeps(stacks[s], stacks'[s])
<1>0. stacks[s] \in StackRecord
  BY DEF TypeOK
<1>1. ASSUME NEW ts, NEW stop \in Edge, NEW fails, NEW fail_ok
      PROVE  LET G == Grown(ts, stop, fails, fail_ok)
             IN  Keeps(stacks[s], G[s]) /\ Keeps(stacks[s], Released(G, ts)[s])
  <2> DEFINE G == Grown(ts, stop, fails, fail_ok)
  <2>1. /\ G[s] \in StackRecord /\ G[s].refcount = stacks[s].refcount
        /\ Keeps(stacks[s], G[s])
    BY GrownKeeps DEF Keeps
  <2> HIDE DEF G
  <2>2. Keeps(stacks[s], Decref(G[s]))
    BY <2>1, DecrefKeeps
  <2>3. Released(G, ts)[s] \in {G[s], Decref(G[s])}
    BY DEF Released
  <2> QED BY <2>1, <2>2, <2>3 DEF G
<1>2. CASE StepFails
  BY <1>1, <1>2 DEF StepFails, TransferFails
<1>3. CASE StepDrops
  BY <1>1, <1>3 DEF StepDrops, TransferDrops
<1>4. CASE StepSaves
  <2>1. PICK ts \in Stacks \cup {NoStack}, stop \in Edge, fail_ok \in BOOLEAN, x \in Stacks :
          /\ stacks[x].refcount = 0
          /\ \E fails, r :
               stacks' = [Released(Grown(ts, stop, fails, fail_ok), ts) EXCEPT ![x] = r]
    <3>1. PICK t \in Tealets, ts \in Stacks \cup {NoStack}, stop \in Edge, far \in Edge,
               fail_ok \in BOOLEAN, x \in Stacks, sp \in Pointers :
            TransferSaves(t, ts, stop, fail_ok, x, sp, far)
      BY <1>4 DEF StepSaves
    <3>2. stacks[x].refcount = 0
      BY <3>1 DEF TransferSaves
    <3>3. \E fails, r :
            stacks' = [Released(Grown(ts, stop, fails, fail_ok), ts) EXCEPT ![x] = r]
      BY <3>1 DEF TransferSaves
    <3> QED BY <3>2, <3>3
  <2>2. PICK fails, r :
          stacks' = [Released(Grown(ts, stop, fails, fail_ok), ts) EXCEPT ![x] = r]
    BY <2>1
  <2>3. CASE s = x
    BY <2>1, <2>3 DEF Keeps
  <2>4. CASE s # x
    <3> DEFINE R == Released(Grown(ts, stop, fails, fail_ok), ts)
    <3>1. Keeps(stacks[s], R[s])
      BY <1>1
    <3> HIDE DEF R
    <3>2. stacks'[s] = R[s]
      BY <2>2, <2>4 DEF R, Released
    <3> QED BY <3>1, <3>2
  <2> QED BY <2>3, <2>4
<1>5. CASE StepShares
  <2>1. stacks'[s] = stacks[s] \/ stacks'[s] = [stacks[s] EXCEPT !.refcount = stacks[s].refcount + 1]
    BY <1>5 DEF StepShares, Duplicate, TypeOK
  <2>2. stacks[s].saved \in Int
    BY <1>0, RecordInts
  <2> QED BY <1>0, <2>1, <2>2 DEF Keeps, StackRecord
<1>6. CASE StepDeletes
  <2>1. Keeps(stacks[s], stacks[s])
    <3>1. stacks[s].saved \in Int
      BY <1>0, RecordInts
    <3> QED BY <3>1 DEF Keeps
  <2>2. Keeps(stacks[s], Decref(stacks[s]))
    BY <1>0, <2>1, DecrefKeeps
  <2>3. stacks'[s] \in {stacks[s], Decref(stacks[s])}
    BY <1>6 DEF StepDeletes, Delete, TypeOK
  <2> QED BY <2>1, <2>2, <2>3
<1>7. CASE UNCHANGED <<stackVars, torn>>
  <2>1. stacks' = stacks /\ stacks[s].saved \in Int
    BY <1>0, <1>7, RecordInts DEF stackVars
  <2> QED BY <2>1 DEF Keeps
<1> QED BY <1>2, <1>3, <1>4, <1>5, <1>6, <1>7, Steps

(* While tealets share a stack its extent stays where it is, what is saved *)
(* of it only grows, and a stack that lost its chunks never passes for a   *)
(* good one again.                                                         *)
THEOREM SavingIsMonotoneHolds == Spec => SavingIsMonotone
<1>1. TypeOK /\ Ownership /\ [Next]_vars
        => [\A s \in Stacks :
              LET old == stacks[s]
                  new == stacks'[s]
              IN  old.refcount > 0 /\ new.refcount > 0 =>
                    /\ new.near = old.near /\ new.far = old.far
                    /\ new.saved >= old.saved \/ new.defunct
                    /\ old.defunct => new.defunct]_vars
  BY NextKeeps DEF Keeps
<1>2. Init => TypeOK /\ Ownership
  BY InitTypeOK, InitOwnership
<1>3. TypeOK /\ Ownership /\ [Next]_vars => (TypeOK /\ Ownership)'
  BY NextTypeOK, NextOwnership
<1> QED BY <1>1, <1>2, <1>3, PTL DEF Spec, SavingIsMonotone

---------------------------------------------------------------------------
(* No stack leaves the list too early, unless the outgoing stack cannot be *)
(* saved after the target's was unlinked.                                  *)

(* What is still incomplete after the loop is still listed, except the     *)
(* target's own stack when nobody else needs it.                           *)
LEMMA GrownPartial ==
  ASSUME TypeOK, Sound, PartialIsListed, NEW ts, NEW stop \in Edge, NEW fails, NEW fail_ok,
         NEW s \in Stacks,
         LET g == Grown(ts, stop, fails, fail_ok)[s] IN Usable(g) /\ ~Full(g),
         s = ts /\ Stops(fails, fail_ok) = {} =>
           stacks[ts].refcount > 1 /\ stacks[ts].far = stop
  PROVE  s \in g_prev \ Unlinked(ts, stop, fails, fail_ok)
<1> DEFINE r == stacks[s]
           G == Grown(ts, stop, fails, fail_ok)
<1>1. r \in StackRecord /\ mem \in Image
  BY DEF TypeOK
<1>2. CASE s \notin Reached(ts, fails, fail_ok)
  <2>1. G[s] = r
    BY <1>2, GrownCases
  <2>2. s \in g_prev
    <3> HIDE DEF G
    <3> QED BY <2>1 DEF Usable, PartialIsListed, G
  <2>3. s \notin Unlinked(ts, stop, fails, fail_ok)
    <3>1. SUFFICES ASSUME s = ts, Stops(fails, fail_ok) = {} PROVE FALSE
      BY <1>2 DEF Unlinked
    <3>2. s \in Visited(ts)
      BY <2>2, <3>1 DEF Visited
    <3> QED BY <1>2, <3>1, <3>2 DEF Reached
  <2> QED BY <2>2, <2>3
<1>3. CASE s \in Reached(ts, fails, fail_ok)
  <2>1. s \in g_prev
    BY <1>3 DEF Reached, Visited
  <2>2. G[s] = Growto(r, stop) /\ s \notin fails
    <3>1. ~Usable(MakeDefunct(r))
      BY <1>1, MakeDefunctFields DEF Usable
    <3> QED BY <1>3, <3>1, GrownCases
  <2>3. End(r) <= r.far
    BY <1>1, <2>1, RecordInts DEF Sound, Listed
  <2>4. ~(r.far <= stop)
    <3> DEFINE g == Growto(r, stop)
    <3>1. g.far = r.far /\ End(g) = Further(End(r), Nearer(r.far, stop))
      BY <1>1, <2>3, GrowtoFields, GrowtoEnd
    <3>2. End(r) \in Int /\ r.far \in Int /\ stop \in Int
      BY <1>1, RecordInts DEF Edge
    <3>3. End(g) # r.far
      BY <2>2, <3>1 DEF Full
    <3> HIDE DEF g, r
    <3> QED BY <2>3, <3>1, <3>2, <3>3 DEF Further, Nearer
  <2>5. ~(s = ts /\ Stops(fails, fail_ok) = {})
    BY <2>4 DEF Edge
  <2> QED BY <2>1, <2>2, <2>4, <2>5 DEF Unlinked
<1> QED BY <1>2, <1>3

(* The same after the target's stack was released. *)
LEMMA ReleasedPartial ==
  ASSUME TypeOK, Sound, PartialIsListed, NEW ts, NEW stop \in Edge, Resumable(ts, stop),
         NEW fails, NEW fail_ok, Stops(fails, fail_ok) = {}, NEW s \in Stacks,
         LET q == Released(Grown(ts, stop, fails, fail_ok), ts)[s] IN Usable(q) /\ ~Full(q)
  PROVE  s \in g_prev \ Unlinked(ts, stop, fails, fail_ok)
<1> DEFINE G == Grown(ts, stop, fails, fail_ok)
           g == G[s]
<1>1. g \in StackRecord /\ g.refcount = stacks[s].refcount
  BY GrownKeeps
<1>2. CASE s # ts
  <2>1. Released(G, ts)[s] = g
    BY <1>2 DEF Released
  <2> QED BY <1>2, <2>1, GrownPartial
<1>3. CASE s = ts
  <2>1. Released(G, ts)[s] = Decref(g)
    BY <1>3 DEF Released
  <2>2. Usable(Decref(g)) /\ ~Full(Decref(g))
    BY <2>1
  <2> HIDE DEF g
  <2>3. Decref(g).refcount = g.refcount - 1 /\ g.refcount \in Int
    BY <1>1, DecrefFields, RecordInts
  <2>4. g.refcount > 1
    BY <2>2, <2>3 DEF Usable
  <2>5. /\ Decref(g).near = g.near /\ Decref(g).saved = g.saved /\ Decref(g).far = g.far
        /\ Decref(g).defunct = g.defunct
    BY <1>1, <2>3, <2>4, DecrefFields
  <2>6. Usable(g) /\ ~Full(g)
    BY <2>2, <2>3, <2>4, <2>5 DEF Usable, Full, End
  <2>7. stacks[ts].refcount > 1 /\ stacks[ts].far = stop
    BY <1>1, <1>3, <2>4 DEF Resumable
  <2> QED BY <2>6, <2>7, GrownPartial DEF g
<1> QED BY <1>2, <1>3

LEMMA FailsPartial ==
  ASSUME TypeOK, Sound, PartialIsListed, "save" \notin OutOfMemory, StepFails
  PROVE  PartialIsListed'
<1>1. PICK ts \in Stacks \cup {NoStack}, stop \in Edge, fail_ok \in BOOLEAN,
           saves \in BOOLEAN : TransferFails(ts, stop, fail_ok, saves)
  BY DEF StepFails
<1>2. PICK fails \in SUBSET MayFailToGrow(ts, stop) :
        /\ Stops(fails, fail_ok) # {}
        /\ stacks' = Grown(ts, stop, fails, fail_ok)
        /\ g_prev' = g_prev \ Unlinked(ts, stop, fails, fail_ok)
  BY <1>1 DEF TransferFails, ListBecomes
<1>3. ASSUME NEW s \in Stacks, Usable(stacks'[s]), ~Full(stacks'[s])
      PROVE  s \in g_prev'
  <2>1. LET g == Grown(ts, stop, fails, fail_ok)[s] IN Usable(g) /\ ~Full(g)
    BY <1>2, <1>3
  <2> QED BY <1>2, <2>1, GrownPartial
<1> QED BY <1>3 DEF PartialIsListed, Usable, Full, End

LEMMA DropsPartial ==
  ASSUME TypeOK, Sound, PartialIsListed, StepDrops
  PROVE  PartialIsListed'
<1>1. PICK t \in Tealets, ts \in Stacks \cup {NoStack}, stop \in Edge, fail_ok \in BOOLEAN :
        Resumable(ts, stop) /\ TransferDrops(t, ts, stop, fail_ok)
  BY DEF StepDrops
<1>2. PICK fails \in SUBSET MayFailToGrow(ts, stop) :
        /\ Stops(fails, fail_ok) = {}
        /\ stacks' = Released(Grown(ts, stop, fails, fail_ok), ts)
        /\ g_prev' = g_prev \ Unlinked(ts, stop, fails, fail_ok)
  BY <1>1 DEF TransferDrops, ListBecomes
<1>3. ASSUME NEW s \in Stacks, Usable(stacks'[s]), ~Full(stacks'[s])
      PROVE  s \in g_prev'
  <2>1. LET q == Released(Grown(ts, stop, fails, fail_ok), ts)[s] IN Usable(q) /\ ~Full(q)
    BY <1>2, <1>3
  <2> QED BY <1>1, <1>2, <2>1, ReleasedPartial
<1> QED BY <1>3 DEF PartialIsListed, Usable, Full, End

LEMMA SavesPartial ==
  ASSUME TypeOK, Sound, PartialIsListed, StepSaves
  PROVE  PartialIsListed'
<1>1. PICK t \in Tealets, ts \in Stacks \cup {NoStack}, stop \in Edge, far \in Edge,
           fail_ok \in BOOLEAN, x \in Stacks, sp \in Pointers :
        /\ sp < far /\ Resumable(ts, stop)
        /\ TransferSaves(t, ts, stop, fail_ok, x, sp, far)
  BY DEF StepSaves
<1> DEFINE r == SaveTo(x, sp, far, stop)
<1>2. PICK fails \in SUBSET MayFailToGrow(ts, stop) :
        LET kept == g_prev \ Unlinked(ts, stop, fails, fail_ok)
        IN  /\ Stops(fails, fail_ok) = {}
            /\ stacks' = [Released(Grown(ts, stop, fails, fail_ok), ts) EXCEPT ![x] = r]
            /\ g_prev' = IF far <= stop THEN kept ELSE kept \cup {x}
  BY <1>1 DEF TransferSaves
<1>3. far <= stop => Full(r)
  <2> DEFINE m2 == Suspended(x, sp)
  <2>1. \A a \in Addr : stop <= a => m2[a] = Suspended(x, sp)[a]
    OBVIOUS
  <2> HIDE DEF m2
  <2> QED BY <1>1, <2>1, SaveToSound
<1> HIDE DEF r
<1>4. ASSUME NEW s \in Stacks, Usable(stacks'[s]), ~Full(stacks'[s])
      PROVE  s \in g_prev'
  <2>1. CASE s = x
    <3>1. stacks'[s] = r
      BY <1>2, <2>1 DEF Released
    <3> QED BY <1>2, <1>3, <1>4, <2>1, <3>1
  <2>2. CASE s # x
    <3>1. stacks'[s] = Released(Grown(ts, stop, fails, fail_ok), ts)[s]
      BY <1>2, <2>2 DEF Released
    <3>2. LET q == Released(Grown(ts, stop, fails, fail_ok), ts)[s] IN Usable(q) /\ ~Full(q)
      BY <1>4, <3>1
    <3>3. s \in g_prev \ Unlinked(ts, stop, fails, fail_ok)
      BY <1>1, <1>2, <3>2, ReleasedPartial
    <3> QED BY <1>2, <3>3
  <2> QED BY <2>1, <2>2
<1> QED BY <1>4 DEF PartialIsListed, Usable, Full, End

LEMMA SharesPartial ==
  ASSUME TypeOK, Ownership, PartialIsListed, NEW t \in Tealets, NEW copy \in Tealets,
         Duplicate(t, copy)
  PROVE  PartialIsListed'
<1>1. ASSUME NEW s \in Stacks, Usable(stacks'[s]), ~Full(stacks'[s])
      PROVE  s \in g_prev'
  <2>1. CASE stack[t] = s
    <3>1. stacks[s] \in StackRecord
      BY DEF TypeOK
    <3>2. stacks'[s] = [stacks[s] EXCEPT !.refcount = stacks[s].refcount + 1]
      BY <2>1 DEF Duplicate, TypeOK
    <3>3. stacks[s].refcount > 0
      <4>1. stacks[s].refcount = Count(stack, s) /\ Count(stack, s) # 0 /\ Count(stack, s) \in Nat
        BY <2>1, CountNat, CountZero DEF Ownership, Owned
      <4> QED BY <4>1
    <3>4. /\ stacks'[s].near = stacks[s].near /\ stacks'[s].saved = stacks[s].saved
          /\ stacks'[s].far = stacks[s].far /\ stacks'[s].defunct = stacks[s].defunct
      BY <3>1, <3>2 DEF StackRecord
    <3>5. stacks[s].refcount > 0 /\ ~stacks[s].defunct /\ ~Full(stacks[s])
      BY <1>1, <3>3, <3>4 DEF Usable, Full, End
    <3> QED BY <3>5 DEF PartialIsListed, Duplicate
  <2>2. CASE stack[t] # s
    <3>1. stacks'[s] = stacks[s] /\ g_prev' = g_prev
      BY <2>2 DEF Duplicate, TypeOK
    <3> QED BY <1>1, <3>1 DEF PartialIsListed, Usable
  <2> QED BY <2>1, <2>2
<1> QED BY <1>1 DEF PartialIsListed, Usable, Full, End

LEMMA DeletesPartial ==
  ASSUME TypeOK, PartialIsListed, NEW t \in Tealets, Delete(t)
  PROVE  PartialIsListed'
<1> DEFINE x == stack[t]
<1>1. CASE x = NoStack
  BY <1>1 DEF Delete, PartialIsListed, Full, End
<1>2. CASE x # NoStack
  <2>1. x \in Stacks /\ stacks[x] \in StackRecord
    BY <1>2 DEF TypeOK
  <2>2. /\ stacks' = [stacks EXCEPT ![x] = Decref(stacks[x])]
        /\ g_prev' = IF stacks[x].refcount = 1 THEN g_prev \ {x} ELSE g_prev
    BY <1>2 DEF Delete, ListBecomes
  <2>3. ASSUME NEW s \in Stacks, Usable(stacks'[s]), ~Full(stacks'[s])
        PROVE  s \in g_prev'
    <3>1. CASE s = x
      <4>1. stacks'[s] = Decref(stacks[s]) /\ stacks[s] \in StackRecord
        BY <2>1, <2>2, <3>1 DEF TypeOK
      <4>2. Decref(stacks[s]).refcount = stacks[s].refcount - 1 /\ stacks[s].refcount \in Int
        BY <4>1, DecrefFields, RecordInts
      <4>3. stacks[s].refcount > 1
        BY <2>3, <4>1, <4>2 DEF Usable
      <4>4. /\ stacks'[s].near = stacks[s].near /\ stacks'[s].saved = stacks[s].saved
            /\ stacks'[s].far = stacks[s].far /\ stacks'[s].defunct = stacks[s].defunct
        BY <4>1, <4>2, <4>3, DecrefFields
      <4>5. stacks[s].refcount > 0 /\ ~stacks[s].defunct /\ ~Full(stacks[s])
        BY <2>3, <4>2, <4>3, <4>4 DEF Usable, Full, End
      <4>6. s \in g_prev
        BY <4>5 DEF PartialIsListed
      <4> QED BY <2>2, <3>1, <4>2, <4>3, <4>6
    <3>2. CASE s # x
      <4>1. stacks'[s] = stacks[s]
        BY <2>2, <3>2 DEF TypeOK
      <4>2. s \in g_prev
        BY <2>3, <4>1 DEF PartialIsListed, Usable
      <4> QED BY <2>2, <3>2, <4>2
    <3> QED BY <3>1, <3>2
  <2> QED BY <2>3 DEF PartialIsListed, Usable, Full, End
<1> QED BY <1>1, <1>2

LEMMA NextPartial ==
  ASSUME TypeOK, Ownership, Sound, PartialIsListed, "save" \notin OutOfMemory, [Next]_vars
  PROVE  PartialIsListed'
<1>1. CASE UNCHANGED <<stackVars, torn>>
  BY <1>1 DEF stackVars, PartialIsListed, Full, End
<1> QED BY <1>1, Steps, FailsPartial, DropsPartial, SavesPartial, SharesPartial, DeletesPartial
        DEF StepShares, StepDeletes

(* "g_prev is the list of partially saved stacks": while an outgoing stack *)
(* can always be saved, or its failure is absorbed, every live stack with  *)
(* an unsaved rest is listed.                                              *)
THEOREM PartialIsListedHolds ==
  ~Overreaching /\ "save" \notin OutOfMemory /\ Spec => []PartialIsListed
<1> DEFINE I == TypeOK /\ Ownership /\ Sound
<1>1. Init => PartialIsListed
  BY DEF Init, FreeStack, PartialIsListed
<1>2. I /\ PartialIsListed /\ "save" \notin OutOfMemory /\ [Next]_vars => PartialIsListed'
  BY NextPartial
<1>3. CASE "save" \notin OutOfMemory
  <2>1. I /\ PartialIsListed /\ [Next]_vars => PartialIsListed'
    BY <1>2, <1>3
  <2> HIDE DEF I
  <2>2. ~Overreaching /\ Spec => []I
    BY Invariant DEF I
  <2> QED BY <1>1, <2>1, <2>2, PTL DEF Spec
<1> QED BY <1>3

(* Then no suspended tealet is damaged: it can be resumed exactly, or it   *)
(* reports TEALET_ERR_DEFUNCT.                                             *)
THEOREM SuspendedIntactHolds ==
  ~Overreaching /\ "save" \notin OutOfMemory /\ Spec => []SuspendedIntact
<1>1. TypeOK /\ Ownership /\ Sound /\ PartialIsListed => SuspendedIntact
  <2> SUFFICES ASSUME TypeOK, Ownership, Sound, PartialIsListed,
                      NEW t \in Tealets \ {g_current}, state[t] = "bound", ~IsDefunct(t)
               PROVE  stack[t] # NoStack /\ Intact(stacks[stack[t]])
    BY DEF SuspendedIntact
  <2>1. stack[t] # NoStack /\ stack[t] \in Stacks /\ Usable(stacks[stack[t]])
    BY CanResumeStack DEF CanResume, Resumable
  <2>2. IntactIn(stacks[stack[t]], mem)
    BY <2>1 DEF PartialIsListed, Usable, Sound, Restorable
  <2> QED BY <2>1, <2>2 DEF IntactIn, Intact
<1> QED BY <1>1, Invariant, PartialIsListedHolds, PTL

---------------------------------------------------------------------------
(* Nothing is torn, unless a forced transfer can give up the shared stack  *)
(* of its own target.                                                      *)

LEMMA TargetIntact ==
  ASSUME TypeOK, Sound, PartialIsListed, NEW ts \in Stacks, Usable(stacks[ts]),
         NEW stop \in Edge, NEW fails, NEW fail_ok \in BOOLEAN, Stops(fails, fail_ok) = {},
         fail_ok \/ stacks[ts].refcount <= 1,
         NEW m, \A a \in Addr : stack_far[g_current] <= a => m[a] = mem[a]
  PROVE  ~Tears(Grown(ts, stop, fails, fail_ok)[ts], m)
<1> DEFINE r == stacks[ts]
           q == Grown(ts, stop, fails, fail_ok)[ts]
           w == stack_far[g_current]
<1>1. r \in StackRecord /\ mem \in Image /\ q \in StackRecord /\ w \in Edge
  <2>1. q \in StackRecord
    BY GrownKeeps
  <2>2. r \in StackRecord /\ mem \in Image /\ w \in Edge
    BY DEF TypeOK
  <2> QED BY <2>1, <2>2
<1>2. End(r) <= r.far /\ IntactIn(r, mem)
  BY DEF PartialIsListed, Usable, Sound, Restorable
<1>3. ts \notin Reached(ts, fails, fail_ok) \/ ts \notin fails
  <2>1. CASE fail_ok
    BY <2>1 DEF Stops
  <2>2. CASE ~fail_ok
    <3>1. ~(r.refcount > 1)
      BY <1>1, <2>2, RecordInts
    <3>2. ts \notin Visited(ts)
      BY <3>1 DEF Visited, Sound, Listed
    <3> QED BY <3>2 DEF Reached
  <2> QED BY <2>1, <2>2
<1>4. q = r \/ q = Growto(r, stop)
  BY <1>3, GrownCases
<1>5. /\ ~q.defunct /\ q.near = r.near /\ q.far = r.far
      /\ End(r) <= End(q) /\ End(q) <= r.far
      /\ IntactIn(q, mem)
  <2>1. CASE q = r
    <3>1. End(r) \in Int
      BY <1>1, RecordInts
    <3> HIDE DEF q, r
    <3> QED BY <1>2, <2>1, <3>1 DEF Usable, r
  <2>2. CASE q = Growto(r, stop)
    <3> DEFINE g == Growto(r, stop)
    <3>1. g.defunct = r.defunct /\ g.near = r.near /\ g.far = r.far
      BY <1>1, GrowtoFields
    <3>2. End(r) <= End(g) /\ End(g) <= r.far /\ IntactIn(g, mem)
      BY <1>1, <1>2, GrowtoEnd, GrowtoIntact
    <3>3. ~r.defunct
      BY DEF Usable
    <3> HIDE DEF g, q, r
    <3>4. q = g
      BY <2>2 DEF g
    <3> QED BY <3>1, <3>2, <3>3, <3>4
  <2> QED BY <1>4, <2>1, <2>2
<1>6. w <= End(q) \/ End(q) = r.far
  <2>1. CASE ts \in g_prev
    <3>1. w <= End(r)
      BY <2>1 DEF Sound, Listed
    <3>2. w \in Int /\ End(r) \in Int /\ End(q) \in Int
      BY <1>1, RecordInts DEF Edge
    <3> HIDE DEF w, r, q
    <3> QED BY <1>5, <3>1, <3>2
  <2>2. CASE ts \notin g_prev
    <3>1. End(r) = r.far
      BY <2>2 DEF PartialIsListed, Usable, Full
    <3>2. End(r) \in Int /\ End(q) \in Int
      BY <1>1, RecordInts
    <3> HIDE DEF w, r, q
    <3> QED BY <1>5, <3>1, <3>2
  <2> QED BY <2>1, <2>2
<1>7. Held(q) = q.near .. q.near + q.saved - 1
  BY <1>5 DEF Held
<1>8. /\ q.near \in Int /\ q.saved \in Int /\ q.far \in Int /\ End(q) \in Int
      /\ w \in Int /\ r.far \in Int
  BY <1>1, RecordInts DEF Edge
<1> HIDE DEF q, r, w
<1>9. ASSUME NEW a \in Addr, a \in q.near .. q.far - 1
      PROVE  Restored(q, m)[a] = q.frames[a]
  <2>1. CASE a \in Held(q)
    <3>1. a \in q.near .. End(q) - 1
      BY <1>7, <1>8, <2>1 DEF End
    <3>2. q.data[a] = q.frames[a]
      BY <1>5, <3>1 DEF IntactIn
    <3> QED BY <2>1, <3>2 DEF Restored
  <2>2. CASE a \notin Held(q)
    <3>1. a \in End(q) .. q.far - 1
      BY <1>7, <1>8, <1>9, <2>2 DEF End
    <3>2. w <= a
      BY <1>5, <1>6, <1>8, <3>1
    <3>3. m[a] = mem[a] /\ mem[a] = q.frames[a]
      BY <1>5, <3>1, <3>2 DEF IntactIn, w
    <3> QED BY <2>2, <3>3 DEF Restored
  <2> QED BY <2>1, <2>2
<1> QED BY <1>9 DEF Tears, q

(* Without tealet_duplicate() no stack has two owners. *)
Unshared == ~Duplicating => \A s \in Stacks : stacks[s].refcount <= 1

LEMMA NextUnshared ==
  ASSUME TypeOK, Ownership, Unshared, [Next]_vars
  PROVE  Unshared'
<1> SUFFICES ASSUME ~Duplicating, NEW s \in Stacks PROVE stacks'[s].refcount <= 1
  BY DEF Unshared
<1>0. stacks[s] \in StackRecord /\ stacks[s].refcount \in Int /\ stacks[s].refcount <= 1
  BY RecordInts DEF TypeOK, Unshared
<1>1. ASSUME NEW ts, NEW stop \in Edge, NEW fails, NEW fail_ok
      PROVE  LET G == Grown(ts, stop, fails, fail_ok)
             IN  G[s].refcount <= 1 /\ Released(G, ts)[s].refcount <= 1
  <2> DEFINE G == Grown(ts, stop, fails, fail_ok)
  <2>1. G[s] \in StackRecord /\ G[s].refcount = stacks[s].refcount
    BY GrownKeeps
  <2> HIDE DEF G
  <2>2. Decref(G[s]).refcount = G[s].refcount - 1
    BY <2>1, DecrefFields
  <2>3. Released(G, ts)[s] \in {G[s], Decref(G[s])}
    BY DEF Released
  <2> QED BY <1>0, <2>1, <2>2, <2>3 DEF G
<1>2. CASE StepFails
  BY <1>1, <1>2 DEF StepFails, TransferFails
<1>3. CASE StepDrops
  BY <1>1, <1>3 DEF StepDrops, TransferDrops
<1>4. CASE StepSaves
  <2>1. PICK t \in Tealets, ts \in Stacks \cup {NoStack}, stop \in Edge, far \in Edge,
             fail_ok \in BOOLEAN, x \in Stacks, sp \in Pointers :
          TransferSaves(t, ts, stop, fail_ok, x, sp, far)
    BY <1>4 DEF StepSaves
  <2> DEFINE r == SaveTo(x, sp, far, stop)
  <2>2. PICK fails :
          stacks' = [Released(Grown(ts, stop, fails, fail_ok), ts) EXCEPT ![x] = r]
    BY <2>1 DEF TransferSaves
  <2>3. r.refcount = 1
    BY DEF SaveTo, StackNew
  <2> DEFINE R == Released(Grown(ts, stop, fails, fail_ok), ts)
  <2>4. R[s].refcount <= 1
    BY <1>1
  <2> HIDE DEF r, R
  <2>5. stacks'[s] = IF s = x THEN r ELSE R[s]
    BY <2>2 DEF R, Released
  <2> QED BY <2>3, <2>4, <2>5
<1>5. ~StepShares
  BY DEF StepShares, Duplicate
<1>6. CASE StepDeletes
  <2>1. Decref(stacks[s]).refcount = stacks[s].refcount - 1
    BY <1>0, DecrefFields
  <2>2. stacks'[s] \in {stacks[s], Decref(stacks[s])}
    BY <1>6 DEF StepDeletes, Delete, TypeOK
  <2> QED BY <1>0, <2>1, <2>2
<1>7. CASE UNCHANGED <<stackVars, torn>>
  BY <1>0, <1>7 DEF stackVars
<1> QED BY <1>2, <1>3, <1>4, <1>5, <1>6, <1>7, Steps

LEMMA NextNothingTorn ==
  ASSUME TypeOK, Ownership, Sound, PartialIsListed, Unshared, ~Forcing \/ ~Duplicating,
         NothingTorn, [Next]_vars
  PROVE  NothingTorn'
<1>0. torn = {}
  BY DEF NothingTorn
<1>1. ASSUME NEW t, NEW ts \in Stacks \cup {NoStack}, NEW stop \in Edge, Resumable(ts, stop),
             NEW fails, NEW fail_ok \in BOOLEAN, Stops(fails, fail_ok) = {}, fail_ok \/ Forcing,
             NEW m, \A a \in Addr : stack_far[g_current] <= a => m[a] = mem[a],
             Resumes(t, ts, Grown(ts, stop, fails, fail_ok), m, stop)
      PROVE  torn' = {}
  <2>1. CASE ts = NoStack
    BY <1>0, <1>1, <2>1 DEF Resumes
  <2>2. CASE ts # NoStack
    <3>1. ts \in Stacks /\ Usable(stacks[ts])
      BY <1>1, <2>2 DEF Resumable
    <3>2. fail_ok \/ stacks[ts].refcount <= 1
      BY <1>1, <3>1 DEF Unshared
    <3>3. ~Tears(Grown(ts, stop, fails, fail_ok)[ts], m)
      BY <1>1, <3>1, <3>2, TargetIntact
    <3> QED BY <1>0, <1>1, <2>2, <3>3 DEF Resumes
  <2> QED BY <2>1, <2>2
<1>2. CASE StepFails
  BY <1>0, <1>2 DEF StepFails, TransferFails, NothingTorn
<1>3. CASE StepDrops
  <2>1. PICK t \in Tealets, ts \in Stacks \cup {NoStack}, stop \in Edge, fail_ok \in BOOLEAN :
          (fail_ok \/ Forcing) /\ Resumable(ts, stop) /\ TransferDrops(t, ts, stop, fail_ok)
    BY <1>3 DEF StepDrops
  <2>2. PICK fails : /\ Stops(fails, fail_ok) = {}
                     /\ Resumes(t, ts, Grown(ts, stop, fails, fail_ok), mem, stop)
    BY <2>1 DEF TransferDrops
  <2>3. torn' = {}
    BY <1>1, <2>1, <2>2
  <2> QED BY <2>3 DEF NothingTorn
<1>4. CASE StepSaves
  <2>1. PICK t \in Tealets, ts \in Stacks \cup {NoStack}, stop \in Edge, far \in Edge,
             fail_ok \in BOOLEAN, x \in Stacks, sp \in Pointers :
          /\ fail_ok \/ Forcing
          /\ sp < far /\ Resumable(ts, stop)
          /\ TransferSaves(t, ts, stop, fail_ok, x, sp, far)
    BY <1>4 DEF StepSaves
  <2> DEFINE m == Suspended(x, sp)
  <2>2. PICK fails : /\ Stops(fails, fail_ok) = {}
                     /\ Resumes(t, ts, Grown(ts, stop, fails, fail_ok), m, stop)
    BY <2>1 DEF TransferSaves
  <2>3. \A a \in Addr : stack_far[g_current] <= a => m[a] = mem[a]
    <3>1. stack_far[g_current] \in Int
      BY DEF TypeOK, Edge
    <3> QED BY <3>1 DEF Suspended, Addr
  <2> HIDE DEF m
  <2>4. torn' = {}
    BY <1>1, <2>1, <2>2, <2>3
  <2> QED BY <2>4 DEF NothingTorn
<1>5. CASE StepShares \/ StepDeletes \/ UNCHANGED <<stackVars, torn>>
  BY <1>0, <1>5 DEF StepShares, Duplicate, StepDeletes, Delete, NothingTorn
<1> QED BY <1>2, <1>3, <1>4, <1>5, Steps

(* No tealet is ever resumed on frames other than those it was suspended   *)
(* with, unless callers both force transfers and share stacks.             *)
THEOREM NothingTornHolds ==
  /\ ~Overreaching
  /\ "save" \notin OutOfMemory
  /\ ~Forcing \/ ~Duplicating
  /\ Spec
  => []NothingTorn
<1> DEFINE I == TypeOK /\ Ownership /\ Sound /\ PartialIsListed
<1>1. Init => Unshared /\ NothingTorn
  BY DEF Init, FreeStack, Unshared, NothingTorn
<1>2. ASSUME ~Forcing \/ ~Duplicating
      PROVE  I /\ Unshared /\ NothingTorn /\ [Next]_vars => Unshared' /\ NothingTorn'
  BY <1>2, NextUnshared, NextNothingTorn
<1>3. ~Overreaching /\ "save" \notin OutOfMemory /\ Spec => []I
  BY Invariant, PartialIsListedHolds, PTL
<1>4. CASE ~Forcing \/ ~Duplicating
  <2>1. I /\ Unshared /\ NothingTorn /\ [Next]_vars => Unshared' /\ NothingTorn'
    BY <1>2, <1>4
  <2> HIDE DEF I
  <2> QED BY <1>1, <1>3, <2>1, PTL DEF Spec
<1> QED BY <1>4

(* When an unbounded tealet runs nothing is left partly saved.             *)
THEOREM UnboundedAloneHolds == ~Overreaching /\ Spec => []UnboundedAlone
<1>1. TypeOK /\ Sound => UnboundedAlone
  <2> SUFFICES ASSUME TypeOK, Sound, Unbounded(g_current), NEW s \in g_prev PROVE FALSE
    BY DEF UnboundedAlone
  <2>1. stacks[s] \in StackRecord
    BY DEF TypeOK
  <2>2. Depth <= End(stacks[s]) /\ End(stacks[s]) < stacks[s].far
    BY DEF Sound, Listed, Unbounded
  <2>3. End(stacks[s]) \in Int /\ stacks[s].far \in Int /\ stacks[s].far <= Depth
    BY <2>1, RecordInts DEF StackRecord, Edge
  <2> QED BY <2>2, <2>3
<1> QED BY <1>1, Invariant, PTL


---------------------------------------------------------------------------
(* Main is never lost.                                                     *)

(* While it is suspended its stack is its own and is not defunct.          *)
MainKept ==
  /\ state[Main] = "bound"
  /\ g_current # Main =>
       /\ \A t \in Tealets : stack[t] = stack[Main] => t = Main
       /\ ~stacks[stack[Main]].defunct

(* No growth can mark it defunct: that ends the loop with an error.        *)
LEMMA MainGrown ==
  ASSUME TypeOK, Sound, NEW ts, NEW stop \in Edge, NEW fails, NEW fail_ok,
         NEW s \in Stacks, s = stack[Main], ~stacks[s].defunct
  PROVE  /\ ~Grown(ts, stop, fails, fail_ok)[s].defunct
         /\ ~Released(Grown(ts, stop, fails, fail_ok), ts)[s].defunct
<1> DEFINE g == Grown(ts, stop, fails, fail_ok)[s]
<1>1. stacks[s] \in StackRecord
  BY DEF TypeOK
<1>2. ~g.defunct
  <2>1. CASE s \in Reached(ts, fails, fail_ok) /\ s \in fails
    <3>1. s \in Stops(fails, fail_ok)
      BY <2>1 DEF Stops
    <3>2. s \in g_prev /\ s \in older[s]
      BY <2>1, <3>1 DEF Reached, Visited
    <3> QED BY <3>2 DEF Sound, Listed
  <2>2. CASE g = stacks[s]
    BY <2>2
  <2>3. CASE g = Growto(stacks[s], stop)
    <3>1. ~Growto(stacks[s], stop).defunct
      BY <1>1, GrowtoFields DEF TypeOK
    <3> HIDE DEF g
    <3> QED BY <2>3, <3>1
  <2> QED BY <2>1, <2>2, <2>3, GrownCases
<1>3. g \in StackRecord
  BY GrownKeeps
<1> HIDE DEF g
<1>4. ~Decref(g).defunct
  <2>1. CASE g.refcount = 1
    BY <2>1 DEF Decref, FreeStack
  <2>2. CASE g.refcount # 1
    BY <1>2, <1>3, <2>2, DecrefFields
  <2> QED BY <2>1, <2>2
<1> QED BY <1>2, <1>4 DEF Released, g

LEMMA MainIntact ==
  ASSUME TypeOK, Ownership, Sound, [Next]_vars,
         NEW s \in Stacks, s = stack[Main], ~stacks[s].defunct
  PROVE  ~stacks'[s].defunct
<1>0. stacks[s] \in StackRecord
  BY DEF TypeOK
<1>1. CASE StepFails
  BY <1>1, MainGrown DEF StepFails, TransferFails
<1>2. CASE StepDrops
  BY <1>2, MainGrown DEF StepDrops, TransferDrops
<1>3. CASE StepSaves
  <2>1. PICK t \in Tealets, ts \in Stacks \cup {NoStack}, stop \in Edge, far \in Edge,
             fail_ok \in BOOLEAN, x \in Stacks, sp \in Pointers :
          TransferSaves(t, ts, stop, fail_ok, x, sp, far)
    BY <1>3 DEF StepSaves
  <2> DEFINE r == SaveTo(x, sp, far, stop)
  <2>2. PICK fails :
          stacks' = [Released(Grown(ts, stop, fails, fail_ok), ts) EXCEPT ![x] = r]
    BY <2>1 DEF TransferSaves
  <2>3. ~r.defunct
    BY DEF SaveTo, StackNew
  <2> DEFINE R == Released(Grown(ts, stop, fails, fail_ok), ts)
  <2>4. ~R[s].defunct
    BY MainGrown
  <2> HIDE DEF r, R
  <2>5. stacks'[s] = IF s = x THEN r ELSE R[s]
    BY <2>2 DEF R, Released
  <2> QED BY <2>3, <2>4, <2>5
<1>4. CASE StepShares
  BY <1>0, <1>4 DEF StepShares, Duplicate, TypeOK, StackRecord
<1>5. CASE StepDeletes
  <2>1. ~Decref(stacks[s]).defunct
    <3>1. CASE stacks[s].refcount = 1
      BY <3>1 DEF Decref, FreeStack
    <3>2. CASE stacks[s].refcount # 1
      BY <1>0, <3>2, DecrefFields
    <3> QED BY <3>1, <3>2
  <2>2. stacks'[s] \in {stacks[s], Decref(stacks[s])}
    BY <1>5 DEF StepDeletes, Delete, TypeOK
  <2> QED BY <2>1, <2>2
<1>6. CASE UNCHANGED <<stackVars, torn>>
  BY <1>6 DEF stackVars
<1> QED BY <1>1, <1>2, <1>3, <1>4, <1>5, <1>6, Steps

(* A free block has no owner, so the stack a transfer saves to is nobody   *)
(* else's.                                                                 *)
LEMMA FreshStack ==
  ASSUME TypeOK, Ownership, NEW s \in Stacks, stacks[s].refcount = 0
  PROVE  \A t \in Tealets : stack[t] # s
  BY CountZero DEF Ownership, Owned

(* Main is suspended on s, or stays suspended, while the stacks of others  *)
(* are left alone, released, or saved to s.                                *)
LEMMA StaysKept ==
  ASSUME TypeOK, Ownership, Sound, MainKept, [Next]_vars,
         state'[Main] = "bound",
         g_current # Main /\ g_current' # Main => stack'[Main] = stack[Main],
         NEW s \in Stacks, stacks[s].refcount = 0,
         g_current = Main /\ g_current' # Main =>
           stack'[Main] = s /\ \A t \in Tealets : stack'[t] = s => t = Main,
         g_current = Main /\ g_current' # Main => ~stacks'[s].defunct,
         \A t \in Tealets : stack'[t] \in {stack[t], s, NoStack}
  PROVE  MainKept'
<1> SUFFICES ASSUME g_current' # Main
             PROVE  /\ \A t \in Tealets : stack'[t] = stack'[Main] => t = Main
                    /\ ~stacks'[stack'[Main]].defunct
  BY DEF MainKept
<1>1. CASE g_current = Main
  BY <1>1
<1>2. CASE g_current # Main
  <2>1. stack[Main] \in Stacks
    BY <1>2 DEF MainKept, Ownership, Holders, TypeOK
  <2>2. stack[Main] # s
    BY FreshStack
  <2>3. ~stacks'[stack[Main]].defunct
    BY <1>2, <2>1, MainIntact DEF MainKept
  <2> QED BY <1>2, <2>1, <2>2, <2>3 DEF MainKept
<1> QED BY <1>1, <1>2

(* The same when no stack is saved.                                        *)
LEMMA StaysKeptUnsaved ==
  ASSUME TypeOK, Ownership, Sound, MainKept, [Next]_vars,
         state'[Main] = "bound",
         g_current' # Main => g_current # Main /\ stack'[Main] = stack[Main],
         g_current' # Main =>
           \A t \in Tealets : stack'[t] = stack[Main] => stack[t] = stack[Main]
  PROVE  MainKept'
<1> SUFFICES ASSUME g_current' # Main
             PROVE  /\ \A t \in Tealets : stack'[t] = stack[Main] => t = Main
                    /\ ~stacks'[stack[Main]].defunct
  BY DEF MainKept
<1>1. stack[Main] \in Stacks
  BY DEF MainKept, Ownership, Holders, TypeOK
<1>2. ~stacks'[stack[Main]].defunct
  BY <1>1, MainIntact DEF MainKept
<1> QED BY <1>2 DEF MainKept

(* The stack a transfer saves to is not defunct.                           *)
LEMMA SavedIsGood ==
  ASSUME NEW t, NEW ts, NEW stop, NEW fail_ok, NEW s \in Stacks, NEW sp, NEW far,
         TransferSaves(t, ts, stop, fail_ok, s, sp, far)
  PROVE  stacks[s].refcount = 0 /\ ~stacks'[s].defunct
<1> DEFINE r == SaveTo(s, sp, far, stop)
<1>1. PICK fails :
        stacks' = [Released(Grown(ts, stop, fails, fail_ok), ts) EXCEPT ![s] = r]
  BY DEF TransferSaves
<1>2. ~r.defunct
  BY DEF SaveTo, StackNew
<1> HIDE DEF r
<1>3. stacks'[s] = r
  BY <1>1 DEF Released
<1> QED BY <1>2, <1>3 DEF TransferSaves

LEMMA StartFailsKept ==
  ASSUME TypeOK, Ownership, Sound, MainKept, [Next]_vars, NEW stop, StartFails(stop)
  PROVE  MainKept'
<1>1. g_current' = g_current /\ state' = state /\ stack' = stack
  BY DEF StartFails, tealetVars
<1> QED BY <1>1, StaysKeptUnsaved DEF MainKept

LEMMA RunSwitchKept ==
  ASSUME TypeOK, Ownership, Sound, MainKept, [Next]_vars,
         NEW t \in Tealets, NEW far \in Boundaries, RunSwitch(t, far)
  PROVE  MainKept'
<1>1. CASE StartFails(far)
  BY <1>1, StartFailsKept
<1>2. ASSUME NEW s \in Stacks,
             NEW sp \in PointersBelow(Nearer(far, stack_far[g_current])),
             TransferSaves(t, NoStack, far, TRUE, s, sp, stack_far[g_current]),
             g_current' = t,
             state' = [state EXCEPT ![t] = "bound"],
             stack' = [stack EXCEPT ![g_current] = s]
      PROVE  MainKept'
  <2>1. stacks[s].refcount = 0 /\ ~stacks'[s].defunct
    BY <1>2, SavedIsGood
  <2>2. \A u \in Tealets : stack[u] # s
    BY <2>1, FreshStack
  <2>3. state'[Main] = "bound"
    BY <1>2 DEF MainKept, TypeOK
  <2>4. /\ \A u \in Tealets : stack'[u] = IF u = g_current THEN s ELSE stack[u]
        /\ g_current \in Tealets /\ Main \in Tealets
    BY <1>2 DEF TypeOK
  <2> QED BY <2>1, <2>2, <2>3, <2>4, StaysKept
<1> QED BY <1>1, <1>2 DEF RunSwitch

LEMMA RunDefaultKept ==
  ASSUME TypeOK, Ownership, Sound, MainKept, [Next]_vars,
         NEW t \in Tealets, NEW far \in Boundaries, RunDefault(t, far)
  PROVE  MainKept'
<1>0. t # Main
  BY DEF RunDefault, MainKept
<1>1. CASE StartFails(stack_far[g_current])
  BY <1>1, StartFailsKept
<1>2. ASSUME NEW s \in Stacks,
             NEW sp \in PointersBelow(Nearer(far, stack_far[g_current])),
             TransferSaves(g_current, NoStack, stack_far[g_current], TRUE, s, sp, far),
             state' = [state EXCEPT ![t] = "bound"],
             stack' = [stack EXCEPT ![t] = s],
             UNCHANGED g_current
      PROVE  MainKept'
  <2>1. stacks[s].refcount = 0 /\ ~stacks'[s].defunct
    BY <1>2, SavedIsGood
  <2>3. state'[Main] = "bound"
    BY <1>2 DEF MainKept, TypeOK
  <2>4. /\ \A u \in Tealets : stack'[u] = IF u = t THEN s ELSE stack[u]
        /\ Main \in Tealets
    BY <1>2 DEF TypeOK
  <2> QED BY <1>0, <1>2, <2>1, <2>3, <2>4, StaysKept
<1> QED BY <1>1, <1>2 DEF RunDefault

LEMMA ForkKept ==
  ASSUME TypeOK, Ownership, Sound, MainKept, [Next]_vars,
         NEW t \in Tealets, NEW start_switch \in BOOLEAN, Fork(t, start_switch)
  PROVE  MainKept'
<1> DEFINE far == stack_far[g_current]
<1>0. t # Main
  BY DEF Fork, MainKept
<1>1. CASE StartFails(far)
  BY <1>1, StartFailsKept
<1>2. ASSUME NEW s \in Stacks, NEW sp,
             TransferSaves(t, NoStack, far, TRUE, s, sp, far),
             state' = [state EXCEPT ![t] = "bound"],
             \/ g_current' = t /\ stack' = [stack EXCEPT ![g_current] = s]
             \/ g_current' = g_current /\ stack' = [stack EXCEPT ![t] = s]
      PROVE  MainKept'
  <2>1. stacks[s].refcount = 0 /\ ~stacks'[s].defunct
    BY <1>2, SavedIsGood
  <2>2. \A u \in Tealets : stack[u] # s
    BY <2>1, FreshStack
  <2>3. state'[Main] = "bound"
    BY <1>2 DEF MainKept, TypeOK
  <2>4. g_current \in Tealets /\ Main \in Tealets /\ stack \in [Tealets -> Stacks \cup {NoStack}]
    BY DEF TypeOK
  <2>5. CASE g_current' = t /\ stack' = [stack EXCEPT ![g_current] = s]
    <3>1. \A u \in Tealets : stack'[u] = IF u = g_current THEN s ELSE stack[u]
      BY <2>4, <2>5
    <3> QED BY <2>1, <2>2, <2>3, <2>4, <3>1, StaysKept
  <2>6. CASE g_current' = g_current /\ stack' = [stack EXCEPT ![t] = s]
    <3>1. \A u \in Tealets : stack'[u] = IF u = t THEN s ELSE stack[u]
      BY <2>4, <2>6
    <3> QED BY <1>0, <2>1, <2>3, <2>4, <2>6, <3>1, StaysKept
  <2> QED BY <1>2, <2>5, <2>6
<1> QED BY <1>1, <1>2 DEF Fork

LEMMA SwitchKept ==
  ASSUME TypeOK, Ownership, Sound, MainKept, [Next]_vars,
         NEW t \in Tealets, NEW force \in {Forcing, FALSE}, Switch(t, force)
  PROVE  MainKept'
<1> DEFINE ts == stack[t]
           stop == stack_far[t]
           far == stack_far[g_current]
<1>0. g_current \in Tealets /\ Main \in Tealets /\ stack \in [Tealets -> Stacks \cup {NoStack}]
  BY DEF TypeOK
<1>1. CASE UNCHANGED tealetVars
  <2>1. g_current' = g_current /\ state' = state /\ stack' = stack
    BY <1>1 DEF tealetVars
  <2> QED BY <2>1, StaysKeptUnsaved DEF MainKept
<1>2. ASSUME NEW s \in Stacks, NEW sp \in PointersBelow(far),
             TransferSaves(t, ts, stop, FailOk(force), s, sp, far),
             g_current' = t,
             stack' = [stack EXCEPT ![g_current] = s, ![t] = NoStack],
             UNCHANGED <<state, stack_far>>
      PROVE  MainKept'
  <2>1. stacks[s].refcount = 0 /\ ~stacks'[s].defunct
    BY <1>2, SavedIsGood
  <2>2. \A u \in Tealets : stack[u] # s
    BY <2>1, FreshStack
  <2>3. state'[Main] = "bound"
    BY <1>2 DEF MainKept
  <2>4. \A u \in Tealets : stack'[u] = IF u = t THEN NoStack
                                       ELSE IF u = g_current THEN s ELSE stack[u]
    BY <1>0, <1>2
  <2>5. s # NoStack
    OBVIOUS
  <2> QED BY <1>0, <1>2, <2>1, <2>2, <2>3, <2>4, <2>5, StaysKept
<1>3. ASSUME ~FailOk(force), g_current' = t,
             state' = [state EXCEPT ![g_current] = "defunct"],
             stack' = [stack EXCEPT ![t] = NoStack]
      PROVE  MainKept'
  <2>1. g_current # Main
    BY <1>3 DEF FailOk
  <2>2. state'[Main] = "bound"
    BY <1>0, <1>3, <2>1 DEF MainKept, TypeOK
  <2>3. \A u \in Tealets : stack'[u] = IF u = t THEN NoStack ELSE stack[u]
    BY <1>0, <1>3
  <2>4. stack[Main] # NoStack
    BY <1>0, <2>1 DEF MainKept, Ownership, Holders
  <2> QED BY <1>0, <1>3, <2>1, <2>2, <2>3, <2>4, StaysKeptUnsaved
<1> QED BY <1>1, <1>2, <1>3 DEF Switch

LEMMA ExitKept ==
  ASSUME TypeOK, Ownership, Sound, MainKept, [Next]_vars,
         NEW t \in Tealets, NEW force \in {Forcing, FALSE}, NEW delete \in BOOLEAN,
         Exit(t, force, delete)
  PROVE  MainKept'
<1>0. /\ g_current \in Tealets /\ Main \in Tealets /\ g_current # Main
      /\ stack \in [Tealets -> Stacks \cup {NoStack}]
  BY DEF TypeOK, Exit
<1>1. CASE UNCHANGED tealetVars
  <2>1. g_current' = g_current /\ state' = state /\ stack' = stack
    BY <1>1 DEF tealetVars
  <2> QED BY <2>1, StaysKeptUnsaved DEF MainKept
<1>2. ASSUME g_current' = t,
             state' = [state EXCEPT ![g_current] = IF delete THEN "free" ELSE "exited"],
             stack' = [stack EXCEPT ![t] = NoStack]
      PROVE  MainKept'
  <2>1. state'[Main] = "bound"
    BY <1>0, <1>2 DEF MainKept, TypeOK
  <2>2. \A u \in Tealets : stack'[u] = IF u = t THEN NoStack ELSE stack[u]
    BY <1>0, <1>2
  <2>3. stack[Main] # NoStack
    BY <1>0 DEF MainKept, Ownership, Holders
  <2> QED BY <1>0, <1>2, <2>1, <2>2, <2>3, StaysKeptUnsaved
<1> QED BY <1>1, <1>2 DEF Exit

LEMMA DuplicateKept ==
  ASSUME TypeOK, Ownership, Sound, MainKept, [Next]_vars,
         NEW t \in Tealets, NEW copy \in Tealets, Duplicate(t, copy)
  PROVE  MainKept'
<1>1. t # Main /\ copy # Main
  BY DEF Duplicate, MainKept
<1>2. state'[Main] = "bound" /\ g_current' = g_current
  BY <1>1 DEF Duplicate, MainKept, TypeOK
<1>3. \A u \in Tealets : stack'[u] = IF u = copy THEN stack[t] ELSE stack[u]
  BY DEF Duplicate, TypeOK
<1>4. g_current # Main => stack[t] # stack[Main]
  BY <1>1 DEF MainKept
<1> QED BY <1>1, <1>2, <1>3, <1>4, StaysKeptUnsaved

LEMMA DeleteKept ==
  ASSUME TypeOK, Ownership, Sound, MainKept, [Next]_vars, NEW t \in Tealets, Delete(t)
  PROVE  MainKept'
<1>1. t # Main
  BY DEF Delete
<1>2. state'[Main] = "bound" /\ g_current' = g_current
  BY <1>1 DEF Delete, MainKept, TypeOK
<1>3. \A u \in Tealets : stack'[u] = IF u = t THEN NoStack ELSE stack[u]
  BY DEF Delete, TypeOK
<1>4. g_current # Main => stack[Main] # NoStack
  BY DEF MainKept, Ownership, Holders
<1> QED BY <1>1, <1>2, <1>3, <1>4, StaysKeptUnsaved

LEMMA NextMainKept ==
  ASSUME TypeOK, Ownership, Sound, MainKept, [Next]_vars
  PROVE  MainKept'
<1>1. ASSUME NEW t \in Tealets, New(t) PROVE MainKept'
  <2>1. g_current' = g_current /\ stack' = stack /\ state'[Main] = "bound"
    BY <1>1 DEF New, MainKept, TypeOK
  <2> QED BY <2>1, StaysKeptUnsaved
<1>2. ASSUME NEW t \in Tealets, RefuseDefunct(t) PROVE MainKept'
  <2>1. t # Main
    BY <1>2 DEF RefuseDefunct, MainKept, IsDefunct
  <2>2. g_current' = g_current /\ stack' = stack /\ state'[Main] = "bound"
    BY <1>2, <2>1 DEF RefuseDefunct, MainKept, TypeOK
  <2> QED BY <2>2, StaysKeptUnsaved
<1>3. ASSUME NEW far \in Boundaries, SetFar(far) PROVE MainKept'
  BY <1>3, StaysKeptUnsaved DEF SetFar, MainKept
<1>4. CASE UNCHANGED vars
  <2>1. g_current' = g_current /\ stack' = stack /\ state' = state
    BY <1>4 DEF vars, tealetVars
  <2> QED BY <2>1, StaysKeptUnsaved DEF MainKept
<1> QED BY <1>1, <1>2, <1>3, <1>4, RunSwitchKept, RunDefaultKept, ForkKept, SwitchKept,
           ExitKept, DuplicateKept, DeleteKept DEF Next

(* A forced transfer to main cannot be refused for lack of memory: main is *)
(* never lost and its saved stack needs no growth.                         *)
THEOREM MainReachableHolds == ~Overreaching /\ Spec => []MainReachable
<1> DEFINE I == TypeOK /\ Ownership /\ Sound
<1>1. Init => MainKept
  BY DEF Init, MainKept
<1>2. I /\ MainKept /\ [Next]_vars => MainKept'
  BY NextMainKept
<1>3. I /\ MainKept => MainReachable
  <2> SUFFICES ASSUME I, MainKept, g_current # Main PROVE MainReachable
    BY DEF MainReachable, MainKept
  <2> DEFINE s == stack[Main]
  <2>1. s \in Stacks /\ s # NoStack
    BY DEF MainKept, Ownership, Holders, TypeOK
  <2>2. stacks[s].refcount = 1
    <3>1. {t \in Tealets : stack[t] = s} = {Main}
      BY DEF MainKept
    <3>2. Count(stack, s) = 1
      BY <3>1, FS_Singleton DEF Count
    <3> QED BY <2>1, <3>2 DEF Ownership, Owned
  <2>3. s \notin Visited(s)
    BY <2>2 DEF Visited, Sound, Listed
  <2>4. \A fails \in SUBSET MayFailToGrow(s, stack_far[Main]) : Stops(fails, FALSE) = {}
    BY <2>3 DEF MayFailToGrow, Stops
  <2> QED BY <2>1, <2>2, <2>4 DEF MainReachable, MainKept
<1> HIDE DEF I
<1>4. ~Overreaching /\ Spec => []I
  BY Invariant DEF I
<1> QED BY <1>1, <1>2, <1>3, <1>4, PTL DEF Spec

=============================================================================
