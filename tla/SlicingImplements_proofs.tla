---------------------- MODULE SlicingImplements_proofs ----------------------
(***************************************************************************)
(* The engine implements Coroutines: for every depth of the C stack, every *)
(* set of tealets and every allocator, its callers see private frames.     *)
(*                                                                         *)
(* In a state that satisfies the invariants of StackGuarantees_proofs no   *)
(* tealet is "torn" or "corrupt", so a tealet's phase follows from its     *)
(* flags and from whether its stack is defunct.  A step then changes the   *)
(* phases of the tealets it is about, and of those that a forced transfer  *)
(* sacrifices: they are the tealets of Lost.                               *)
(***************************************************************************)
EXTENDS StackGuarantees_proofs, SlicingImplements

USE DepthAssumption, RangesAssumption, TealetsAssumption, StacksAssumption, OptionsAssumption

(* The invariants the refinement rests on. *)
Faithful ==
  /\ TypeOK /\ Ownership /\ Sound
  /\ MainKept /\ NothingTorn /\ SuspendedIntact

(* The phase of a tealet whose frames are its own. *)
PhaseOf(t) ==
  IF state[t] = "bound"
  THEN IF t = g_current THEN "running" ELSE IF IsDefunct(t) THEN "lost" ELSE "suspended"
  ELSE IF state[t] = "defunct" THEN "lost" ELSE state[t]

LEMMA PhaseIs ==
  ASSUME NothingTorn, SuspendedIntact
  PROVE  Phase = [t \in Tealets |-> PhaseOf(t)]
<1>1. ASSUME NEW t \in Tealets PROVE Phase[t] = PhaseOf(t)
  BY DEF NothingTorn, SuspendedIntact, Phase, PhaseOf
<1>2. Phase = [t \in Tealets |-> Phase[t]]
  BY DEF Phase
<1> QED BY <1>1, <1>2

LEMMA PhaseIsNext ==
  ASSUME NothingTorn', SuspendedIntact'
  PROVE  Phase' = [t \in Tealets |-> PhaseOf(t)']
<1>1. ASSUME NEW t \in Tealets PROVE Phase'[t] = PhaseOf(t)'
  BY DEF NothingTorn, SuspendedIntact, Phase, PhaseOf
<1>2. Phase' = [t \in Tealets |-> Phase'[t]]
  BY DEF Phase
<1> QED BY <1>1, <1>2

---------------------------------------------------------------------------
(* Who is lost by a step.                                                  *)

(* The tealets that a step leaves suspended but without their chunks. *)
Lost ==
  {u \in Tealets : /\ state[u] = "bound" /\ u # g_current /\ ~IsDefunct(u)
                   /\ state'[u] = "bound" /\ u # g_current' /\ IsDefunct(u)'}

(* A tealet that the step leaves alone. *)
Untouched(u) ==
  /\ state'[u] = state[u] /\ stack'[u] = stack[u]
  /\ u # g_current /\ u # g_current'

(* A stack with an owner is live. *)
LEMMA OwnerLives ==
  ASSUME TypeOK, Ownership, NEW u \in Tealets, stack[u] # NoStack
  PROVE  stack[u] \in Stacks /\ stacks[stack[u]].refcount > 0
<1>1. stack[u] \in Stacks
  BY DEF TypeOK
<1>2. stacks[stack[u]].refcount = Count(stack, stack[u])
  BY <1>1 DEF Ownership, Owned
<1>3. Count(stack, stack[u]) \in Nat /\ Count(stack, stack[u]) # 0
  BY <1>1, CountNat, CountZero
<1> QED BY <1>1, <1>2, <1>3

LEMMA OwnerLivesNext ==
  ASSUME TypeOK', Ownership', NEW u \in Tealets, stack'[u] # NoStack
  PROVE  stack'[u] \in Stacks /\ stacks'[stack'[u]].refcount > 0
<1>1. stack'[u] \in Stacks
  BY DEF TypeOK
<1>2. stacks'[stack'[u]].refcount = Count(stack', stack'[u])
  BY <1>1 DEF Ownership, Owned
<1>3. Count(stack', stack'[u]) \in Nat /\ Count(stack', stack'[u]) # 0
  BY <1>1, CountNat, CountZero
<1> QED BY <1>1, <1>2, <1>3

(* What was lost stays lost. *)
LEMMA LossIsFinal ==
  ASSUME TypeOK, Ownership, TypeOK', Ownership', [Next]_vars,
         NEW u \in Tealets, state'[u] = state[u], stack'[u] = stack[u], IsDefunct(u)
  PROVE  IsDefunct(u)'
<1>1. CASE state[u] = "defunct"
  BY <1>1 DEF IsDefunct
<1>2. CASE stack[u] # NoStack /\ stacks[stack[u]].defunct
  <2>1. stack[u] \in Stacks /\ stacks[stack[u]].refcount > 0
    BY <1>2, OwnerLives
  <2>2. stacks'[stack[u]].refcount > 0
    BY <1>2, OwnerLivesNext
  <2>3. Keeps(stacks[stack[u]], stacks'[stack[u]])
    BY <2>1, NextKeeps
  <2> QED BY <1>2, <2>1, <2>2, <2>3 DEF Keeps, IsDefunct
<1> QED BY <1>1, <1>2 DEF IsDefunct

LEMMA UntouchedPhase ==
  ASSUME Faithful, Faithful', [Next]_vars, NEW u \in Tealets, Untouched(u)
  PROVE  PhaseOf(u)' = IF u \in Lost THEN "lost" ELSE PhaseOf(u)
<1>1. IsDefunct(u) => IsDefunct(u)'
  BY LossIsFinal DEF Faithful, Untouched
<1> QED BY <1>1 DEF Untouched, Lost, PhaseOf

(* A forced transfer may lose what is suspended, but never main. *)
LEMMA LostVictims ==
  ASSUME Faithful, Faithful', Forcing
  PROVE  Lost \in SUBSET C!Victims
<1> SUFFICES ASSUME NEW u \in Lost PROVE u \in Tealets \ {Main} /\ Phase[u] = "suspended"
  BY DEF C!Victims
<1>1. u # Main
  <2> SUFFICES ASSUME u = Main PROVE FALSE
    OBVIOUS
  <2> QED BY DEF Lost, Faithful, MainKept, IsDefunct
<1>2. PhaseOf(u) = "suspended" /\ u \in Tealets
  BY DEF Lost, PhaseOf
<1>3. Phase[u] = PhaseOf(u)
  BY <1>2, PhaseIs DEF Faithful
<1> QED BY <1>1, <1>2, <1>3

(* A transfer that reports its failures loses nothing.                     *)
SparesAll ==
  \A s \in Stacks :
    stacks[s].refcount > 0 /\ ~stacks[s].defunct => ~stacks'[s].defunct

LEMMA GrownKeepsGood ==
  ASSUME TypeOK, NEW ts, NEW stop \in Edge, NEW fails, NEW fail_ok, NEW s \in Stacks,
         ~stacks[s].defunct, ~(s \in Reached(ts, fails, fail_ok) /\ s \in fails)
  PROVE  LET G == Grown(ts, stop, fails, fail_ok)
         IN  ~G[s].defunct /\ ~Released(G, ts)[s].defunct
<1> DEFINE g == Grown(ts, stop, fails, fail_ok)[s]
<1>1. stacks[s] \in StackRecord /\ mem \in Image
  BY DEF TypeOK
<1>2. g = stacks[s] \/ g = Growto(stacks[s], stop)
  BY GrownCases
<1>3. ~Growto(stacks[s], stop).defunct
  <2>1. Growto(stacks[s], stop).defunct = stacks[s].defunct
    BY <1>1, GrowtoFields
  <2> QED BY <2>1
<1>4. g \in StackRecord
  BY GrownKeeps
<1> HIDE DEF g
<1>5. ~g.defunct
  BY <1>2, <1>3
<1>6. ~Decref(g).defunct
  <2>1. CASE g.refcount = 1
    BY <2>1 DEF Decref, FreeStack
  <2>2. CASE g.refcount # 1
    BY <1>4, <1>5, <2>2, DecrefFields
  <2> QED BY <2>1, <2>2
<1> QED BY <1>5, <1>6 DEF Released, g

LEMMA GrownSpares ==
  ASSUME TypeOK, Sound, NEW ts, NEW stop \in Edge, NEW fails, NEW s \in Stacks,
         ~stacks[s].defunct
  PROVE  LET G == Grown(ts, stop, fails, TRUE)
         IN  ~G[s].defunct /\ ~Released(G, ts)[s].defunct
<1>1. ~(s \in Reached(ts, fails, TRUE) /\ s \in fails)
  <2> SUFFICES ASSUME s \in Reached(ts, fails, TRUE), s \in fails PROVE FALSE
    OBVIOUS
  <2>1. s \in g_prev /\ s \in older[s]
    BY DEF Reached, Visited, Stops
  <2> QED BY <2>1 DEF Sound, Listed
<1> QED BY <1>1, GrownKeepsGood

LEMMA FailsSpare ==
  ASSUME TypeOK, Sound, NEW ts, NEW stop \in Edge, NEW saves,
         TransferFails(ts, stop, TRUE, saves)
  PROVE  SparesAll
  BY GrownSpares DEF TransferFails, SparesAll

LEMMA DropsSpare ==
  ASSUME TypeOK, Sound, NEW t, NEW ts, NEW stop \in Edge, TransferDrops(t, ts, stop, TRUE)
  PROVE  SparesAll
  BY GrownSpares DEF TransferDrops, SparesAll

LEMMA SavesSpare ==
  ASSUME TypeOK, Sound, NEW t, NEW ts, NEW stop \in Edge, NEW x \in Stacks, NEW sp, NEW far,
         TransferSaves(t, ts, stop, TRUE, x, sp, far)
  PROVE  SparesAll
<1> DEFINE r == SaveTo(x, sp, far, stop)
<1>1. PICK fails :
        stacks' = [Released(Grown(ts, stop, fails, TRUE), ts) EXCEPT ![x] = r]
  BY DEF TransferSaves
<1>2. ~r.defunct
  BY DEF SaveTo, StackNew
<1> SUFFICES ASSUME NEW s \in Stacks, ~stacks[s].defunct PROVE ~stacks'[s].defunct
  BY DEF SparesAll
<1> DEFINE R == Released(Grown(ts, stop, fails, TRUE), ts)
<1>3. ~R[s].defunct
  BY GrownSpares
<1> HIDE DEF r, R
<1>4. stacks'[s] = IF s = x THEN r ELSE R[s]
  BY <1>1 DEF R, Released
<1> QED BY <1>2, <1>3, <1>4

LEMMA NoneLost ==
  ASSUME TypeOK, Ownership, SparesAll,
         \A u \in Tealets : u # g_current /\ u # g_current' /\ state[u] = "bound"
                              => stack'[u] = stack[u]
  PROVE  Lost = {}
<1> SUFFICES ASSUME NEW u \in Lost PROVE FALSE
  OBVIOUS
<1>1. /\ u \in Tealets /\ stack'[u] = stack[u]
      /\ state[u] = "bound" /\ state'[u] = "bound" /\ ~IsDefunct(u) /\ IsDefunct(u)'
  BY DEF Lost
<1>2. stack[u] # NoStack /\ ~stacks[stack[u]].defunct /\ stacks'[stack[u]].defunct
  BY <1>1 DEF IsDefunct
<1>3. stack[u] \in Stacks /\ stacks[stack[u]].refcount > 0
  BY <1>1, <1>2, OwnerLives
<1> QED BY <1>2, <1>3 DEF SparesAll

---------------------------------------------------------------------------
(* Action by action.                                                       *)

(* The phases after a step that loses the tealets of lost and changes      *)
(* otherwise only c and t.                                                 *)
LEMMA Moves ==
  ASSUME Faithful, Faithful', [Next]_vars, NEW c \in Tealets, NEW t \in Tealets,
         \A u \in Tealets \ {c, t} : Untouched(u)
  PROVE  Phase' = [u \in Tealets |->
                     IF u \in {c, t} THEN PhaseOf(u)'
                     ELSE IF u \in Lost THEN "lost" ELSE Phase[u]]
<1>1. Phase = [u \in Tealets |-> PhaseOf(u)] /\ Phase' = [u \in Tealets |-> PhaseOf(u)']
  BY PhaseIs, PhaseIsNext DEF Faithful
<1>2. \A u \in Tealets \ {c, t} : PhaseOf(u)' = IF u \in Lost THEN "lost" ELSE PhaseOf(u)
  BY UntouchedPhase
<1> QED BY <1>1, <1>2

(* A step that changes the phase of nobody. *)
LEMMA Stutters ==
  ASSUME Faithful, Faithful', [Next]_vars, Lost = {}, g_current' = g_current,
         \A u \in Tealets : u # g_current => Untouched(u),
         state'[g_current] = state[g_current]
  PROVE  Phase' = Phase
<1>1. g_current \in Tealets /\ state[g_current] = "bound"
  BY DEF Faithful, TypeOK, Ownership, Holders
<1>2. PhaseOf(g_current) = "running" /\ PhaseOf(g_current)' = "running"
  BY <1>1 DEF PhaseOf
<1>3. Phase[g_current] = "running" /\ Phase = [u \in Tealets |-> Phase[u]]
  BY <1>1, <1>2, PhaseIs DEF Faithful
<1>4. Phase' = [u \in Tealets |-> IF u \in {g_current, g_current} THEN PhaseOf(u)'
                                   ELSE IF u \in Lost THEN "lost" ELSE Phase[u]]
  BY <1>1, Moves
<1> QED BY <1>2, <1>3, <1>4

LEMMA StartFailsPhase ==
  ASSUME Faithful, Faithful', [Next]_vars, NEW stop \in Edge, StartFails(stop)
  PROVE  Phase' = Phase
<1>1. g_current' = g_current /\ state' = state /\ stack' = stack
  BY DEF StartFails, tealetVars
<1>2. SparesAll
  BY FailsSpare DEF StartFails, Faithful
<1>3. Lost = {}
  BY <1>1, <1>2, NoneLost DEF Faithful
<1> QED BY <1>1, <1>3, Stutters DEF Untouched

(* The running tealet c starts t, and one of them runs on. *)
LEMMA StartPhase ==
  ASSUME Faithful, Faithful', [Next]_vars, SparesAll,
         NEW c \in Tealets, c = g_current,
         NEW t \in Tealets, state[t] = "new",
         state' = [state EXCEPT ![t] = "bound"],
         NEW s \in Stacks, ~stacks'[s].defunct,
         \/ g_current' = t /\ stack' = [stack EXCEPT ![g_current] = s]
         \/ g_current' = g_current /\ stack' = [stack EXCEPT ![t] = s]
  PROVE  C!Start(c, t)
<1>1. c \in Tealets /\ state[c] = "bound" /\ c # t
  BY DEF Faithful, TypeOK, Ownership, Holders
<1>2. state'[c] = "bound" /\ state'[t] = "bound" /\ stack \in [Tealets -> Stacks \cup {NoStack}]
  BY <1>1 DEF Faithful, TypeOK
<1>3. \A u \in Tealets \ {c, t} : Untouched(u)
  BY <1>1, <1>2 DEF Untouched, Faithful, TypeOK
<1>4. Lost = {}
  <2>1. \A u \in Tealets : u # g_current /\ u # g_current' /\ state[u] = "bound"
                            => stack'[u] = stack[u]
    BY <1>1, <1>3 DEF Untouched
  <2> QED BY <2>1, NoneLost DEF Faithful
<1>5. Phase[c] = "running" /\ Phase[t] = "new"
  BY <1>1, PhaseIs DEF Faithful, PhaseOf
<1>6. Phase' = [u \in Tealets |-> IF u \in {c, t} THEN PhaseOf(u)' ELSE Phase[u]]
  BY <1>1, <1>3, <1>4, Moves
<1>7. Phase = [u \in Tealets |-> Phase[u]]
  BY DEF Phase
<1>8. CASE g_current' = t /\ stack' = [stack EXCEPT ![g_current] = s]
  <2>1. PhaseOf(t)' = "running"
    BY <1>2, <1>8 DEF PhaseOf
  <2>2. PhaseOf(c)' = "suspended"
    BY <1>1, <1>2, <1>8 DEF PhaseOf, IsDefunct
  <2>3. Phase' = [Phase EXCEPT ![c] = "suspended", ![t] = "running"]
    BY <1>1, <1>6, <1>7, <2>1, <2>2
  <2> QED BY <1>5, <2>3 DEF C!Start
<1>9. CASE g_current' = g_current /\ stack' = [stack EXCEPT ![t] = s]
  <2>1. PhaseOf(c)' = "running"
    BY <1>1, <1>2, <1>9 DEF PhaseOf
  <2>2. PhaseOf(t)' = "suspended"
    BY <1>1, <1>2, <1>9 DEF PhaseOf, IsDefunct
  <2>3. Phase' = [Phase EXCEPT ![t] = "suspended"]
    BY <1>1, <1>5, <1>6, <1>7, <2>1, <2>2
  <2> QED BY <1>5, <2>3 DEF C!Start
<1> QED BY <1>8, <1>9

LEMMA RunImplements ==
  ASSUME Faithful, Faithful', [Next]_vars, NEW t \in Tealets, NEW far \in Boundaries,
         RunSwitch(t, far) \/ RunDefault(t, far)
  PROVE  C!Next \/ Phase' = Phase
<1> DEFINE w == stack_far[g_current]
<1>0. far \in Edge /\ w \in Edge /\ state[t] = "new" /\ g_current \in Tealets
  BY BoundaryType DEF Faithful, TypeOK, RunSwitch, RunDefault
<1>1. CASE StartFails(far) \/ StartFails(w)
  BY <1>0, <1>1, StartFailsPhase
<1>2. ASSUME NEW u \in Tealets, NEW s \in Stacks, NEW sp, NEW stop \in Edge, NEW end \in Edge,
             TransferSaves(u, NoStack, stop, TRUE, s, sp, end),
             state' = [state EXCEPT ![t] = "bound"],
             \/ g_current' = t /\ stack' = [stack EXCEPT ![g_current] = s]
             \/ g_current' = g_current /\ stack' = [stack EXCEPT ![t] = s]
      PROVE  C!Next
  <2>1. SparesAll
    BY <1>2, SavesSpare DEF Faithful
  <2>2. ~stacks'[s].defunct
    BY <1>2, SavedIsGood
  <2>3. PICK c \in Tealets : c = g_current
    BY DEF Faithful, TypeOK
  <2>4. C!Start(c, t)
    BY <1>0, <1>2, <2>1, <2>2, <2>3, StartPhase
  <2> QED BY <2>4 DEF C!Next
<1>3. CASE RunSwitch(t, far)
  BY <1>0, <1>1, <1>2, <1>3 DEF RunSwitch
<1>4. CASE RunDefault(t, far)
  BY <1>0, <1>1, <1>2, <1>4 DEF RunDefault
<1> QED BY <1>3, <1>4

LEMMA ForkImplements ==
  ASSUME Faithful, Faithful', [Next]_vars, NEW t \in Tealets, NEW start_switch \in BOOLEAN,
         Fork(t, start_switch)
  PROVE  C!Next \/ Phase' = Phase
<1> DEFINE far == stack_far[g_current]
<1>0. far \in Edge /\ state[t] = "new"
  BY DEF Faithful, TypeOK, Fork
<1>1. CASE StartFails(far)
  BY <1>0, <1>1, StartFailsPhase
<1>2. ASSUME NEW s \in Stacks, NEW sp,
             TransferSaves(t, NoStack, far, TRUE, s, sp, far),
             state' = [state EXCEPT ![t] = "bound"],
             \/ g_current' = t /\ stack' = [stack EXCEPT ![g_current] = s]
             \/ g_current' = g_current /\ stack' = [stack EXCEPT ![t] = s]
      PROVE  C!Next
  <2>1. SparesAll
    BY <1>0, <1>2, SavesSpare DEF Faithful
  <2>2. ~stacks'[s].defunct
    BY <1>2, SavedIsGood
  <2>3. PICK c \in Tealets : c = g_current
    BY DEF Faithful, TypeOK
  <2>4. C!Start(c, t)
    BY <1>0, <1>2, <2>1, <2>2, <2>3, StartPhase
  <2> QED BY <2>4 DEF C!Next
<1> QED BY <1>1, <1>2 DEF Fork

(* A transfer that fails: only a forced one has lost anything. *)
LEMMA FailsImplements ==
  ASSUME Faithful, Faithful', [Next]_vars, UNCHANGED tealetVars,
         Forcing \/ SparesAll
  PROVE  C!Next \/ Phase' = Phase
<1>0. g_current' = g_current /\ state' = state /\ stack' = stack
  BY DEF tealetVars
<1>1. \A u \in Tealets : u # g_current => Untouched(u)
  BY <1>0 DEF Untouched
<1>2. CASE SparesAll
  <2>1. Lost = {}
    BY <1>0, <1>2, NoneLost DEF Faithful
  <2> QED BY <1>0, <1>1, <2>1, Stutters
<1>3. CASE Forcing
  <2>1. Lost \in SUBSET C!Victims
    BY <1>3, LostVictims
  <2>2. g_current \in Tealets /\ state[g_current] = "bound"
    BY DEF Faithful, TypeOK, Ownership, Holders
  <2>3. Phase' = [u \in Tealets |-> IF u \in {g_current, g_current} THEN PhaseOf(u)'
                                     ELSE IF u \in Lost THEN "lost" ELSE Phase[u]]
    BY <1>1, <2>2, Moves
  <2>4. Phase[g_current] = "running" /\ PhaseOf(g_current)' = "running" /\ g_current \notin Lost
    BY <1>0, <2>2, PhaseIs DEF Faithful, PhaseOf, Lost
  <2>5. Phase' = C!Losing(Lost)
    BY <1>0, <2>3, <2>4 DEF C!Losing
  <2> QED BY <2>1, <2>5 DEF C!Next, C!Sacrifice
<1> QED BY <1>2, <1>3

(* A transfer resumes t; the outgoing tealet c is suspended, lost or gone. *)
LEMMA TransferPhase ==
  ASSUME Faithful, Faithful', [Next]_vars, Forcing \/ SparesAll,
         NEW c \in Tealets, c = g_current, NEW t \in Tealets, CanResume(t), g_current' = t,
         state'[t] = "bound",
         \A u \in Tealets \ {c, t} : Untouched(u)
  PROVE  /\ Phase[c] = "running" /\ Phase[t] = "suspended"
         /\ \E lost \in SUBSET (C!Victims \ {t}) :
              Phase' = [C!Losing(lost) EXCEPT ![c] = PhaseOf(c)', ![t] = "running"]
<1>1. c # t /\ state[c] = "bound" /\ state[t] = "bound" /\ ~IsDefunct(t)
  BY DEF CanResume, Faithful, Ownership, Holders
<1>2. Phase[c] = "running" /\ Phase[t] = "suspended"
  BY <1>1, PhaseIs DEF Faithful, PhaseOf
<1>3. Lost \in SUBSET (C!Victims \ {t})
  <2>1. CASE Forcing
    BY <2>1, LostVictims DEF Lost
  <2>2. CASE SparesAll
    <3>1. \A u \in Tealets : u # g_current /\ u # g_current' /\ state[u] = "bound"
                              => stack'[u] = stack[u]
      BY DEF Untouched
    <3>2. Lost = {}
      BY <2>2, <3>1, NoneLost DEF Faithful
    <3> QED BY <3>2
  <2> QED BY <2>1, <2>2
<1>4. PhaseOf(t)' = "running"
  BY DEF PhaseOf
<1>5. Phase' = [u \in Tealets |-> IF u \in {c, t} THEN PhaseOf(u)'
                                   ELSE IF u \in Lost THEN "lost" ELSE Phase[u]]
  BY Moves
<1>6. Phase' = [C!Losing(Lost) EXCEPT ![c] = PhaseOf(c)', ![t] = "running"]
  BY <1>1, <1>4, <1>5 DEF C!Losing
<1> QED BY <1>2, <1>3, <1>6

LEMMA SwitchImplements ==
  ASSUME Faithful, Faithful', [Next]_vars, NEW t \in Tealets, NEW force \in {Forcing, FALSE},
         Switch(t, force)
  PROVE  C!Next \/ Phase' = Phase
<1> DEFINE ts == stack[t]
           stop == stack_far[t]
<1>0. /\ stop \in Edge /\ stack_far[g_current] \in Edge /\ CanResume(t)
      /\ stack \in [Tealets -> Stacks \cup {NoStack}]
      /\ state \in [Tealets -> States]
  BY DEF Faithful, TypeOK, Switch
<1>1. PICK c \in Tealets : c = g_current
  BY DEF Faithful, TypeOK
<1>2. c # t /\ state[c] = "bound" /\ state[t] = "bound"
  BY <1>0, <1>1 DEF CanResume, Faithful, Ownership, Holders
<1>3. Forcing \/ FailOk(force) = TRUE
  BY DEF FailOk
<1>4. CASE TransferFails(ts, stop, FailOk(force), TRUE) /\ UNCHANGED tealetVars
  <2>1. Forcing \/ SparesAll
    BY <1>0, <1>3, <1>4, FailsSpare DEF Faithful
  <2> QED BY <1>4, <2>1, FailsImplements
<1>5. ASSUME NEW s \in Stacks, NEW sp,
             TransferSaves(t, ts, stop, FailOk(force), s, sp, stack_far[g_current]),
             g_current' = t,
             stack' = [stack EXCEPT ![g_current] = s, ![t] = NoStack],
             UNCHANGED <<state, stack_far>>
      PROVE  C!Next
  <2>1. Forcing \/ SparesAll
    BY <1>0, <1>3, <1>5, SavesSpare DEF Faithful
  <2>2. \A u \in Tealets \ {c, t} : Untouched(u)
    BY <1>0, <1>1, <1>5 DEF Untouched
  <2>3. /\ Phase[c] = "running" /\ Phase[t] = "suspended"
        /\ \E lost \in SUBSET (C!Victims \ {t}) :
             Phase' = [C!Losing(lost) EXCEPT ![c] = PhaseOf(c)', ![t] = "running"]
    BY <1>0, <1>1, <1>2, <1>5, <2>1, <2>2, TransferPhase
  <2>4. PhaseOf(c)' = "suspended"
    <3>1. ~stacks'[s].defunct
      BY <1>5, SavedIsGood
    <3>2. stack'[c] = s /\ state'[c] = "bound" /\ c # g_current'
      BY <1>0, <1>1, <1>2, <1>5
    <3> QED BY <3>1, <3>2 DEF PhaseOf, IsDefunct
  <2>5. C!Switch(c, t)
    BY <2>3, <2>4 DEF C!Switch
  <2> QED BY <2>5 DEF C!Next
<1>6. CASE /\ ~FailOk(force) /\ TransferDrops(t, ts, stop, FALSE)
           /\ g_current' = t
           /\ state' = [state EXCEPT ![g_current] = "defunct"]
           /\ stack' = [stack EXCEPT ![t] = NoStack]
  <2>1. Forcing /\ c # Main
    BY <1>1, <1>6 DEF FailOk
  <2>2. \A u \in Tealets \ {c, t} : Untouched(u)
    BY <1>0, <1>1, <1>6 DEF Untouched
  <2>3. state'[t] = "bound" /\ state'[c] = "defunct"
    BY <1>0, <1>1, <1>2, <1>6
  <2>4. /\ Phase[c] = "running" /\ Phase[t] = "suspended"
        /\ \E lost \in SUBSET (C!Victims \ {t}) :
             Phase' = [C!Losing(lost) EXCEPT ![c] = PhaseOf(c)', ![t] = "running"]
    BY <1>0, <1>1, <1>6, <2>1, <2>2, <2>3, TransferPhase
  <2>5. PhaseOf(c)' = "lost"
    BY <2>3 DEF PhaseOf
  <2>6. C!Switch(c, t)
    BY <2>1, <2>4, <2>5 DEF C!Switch
  <2> QED BY <2>6 DEF C!Next
<1> QED BY <1>4, <1>5, <1>6 DEF Switch

LEMMA ExitImplements ==
  ASSUME Faithful, Faithful', [Next]_vars, NEW t \in Tealets, NEW force \in {Forcing, FALSE},
         NEW delete \in BOOLEAN, Exit(t, force, delete)
  PROVE  C!Next \/ Phase' = Phase
<1> DEFINE ts == stack[t]
           stop == stack_far[t]
           end == IF delete THEN "free" ELSE "exited"
<1>0. /\ stop \in Edge /\ CanResume(t) /\ g_current # Main
      /\ stack \in [Tealets -> Stacks \cup {NoStack}]
      /\ state \in [Tealets -> States]
  BY DEF Faithful, TypeOK, Exit
<1>1. PICK c \in Tealets : c = g_current
  BY DEF Faithful, TypeOK
<1>2. c # t /\ state[c] = "bound" /\ state[t] = "bound"
  BY <1>0, <1>1 DEF CanResume, Faithful, Ownership, Holders
<1>3. Forcing \/ (~force) = TRUE
  OBVIOUS
<1>4. CASE TransferFails(ts, stop, ~force, FALSE) /\ UNCHANGED tealetVars
  <2>1. Forcing \/ SparesAll
    BY <1>0, <1>3, <1>4, FailsSpare DEF Faithful
  <2> QED BY <1>4, <2>1, FailsImplements
<1>5. CASE /\ TransferDrops(t, ts, stop, ~force)
           /\ g_current' = t
           /\ state' = [state EXCEPT ![g_current] = end]
           /\ stack' = [stack EXCEPT ![t] = NoStack]
  <2>1. Forcing \/ SparesAll
    BY <1>0, <1>3, <1>5, DropsSpare DEF Faithful
  <2>2. \A u \in Tealets \ {c, t} : Untouched(u)
    BY <1>0, <1>1, <1>5 DEF Untouched
  <2>3. state'[t] = "bound" /\ state'[c] = end
    BY <1>0, <1>1, <1>2, <1>5
  <2>4. /\ Phase[c] = "running" /\ Phase[t] = "suspended"
        /\ \E lost \in SUBSET (C!Victims \ {t}) :
             Phase' = [C!Losing(lost) EXCEPT ![c] = PhaseOf(c)', ![t] = "running"]
    BY <1>0, <1>1, <1>5, <2>1, <2>2, <2>3, TransferPhase
  <2>5. PhaseOf(c)' = end
    BY <2>3 DEF PhaseOf
  <2>6. C!Exit(c, t)
    BY <1>0, <1>1, <2>4, <2>5 DEF C!Exit
  <2> QED BY <2>6 DEF C!Next
<1> QED BY <1>4, <1>5 DEF Exit

LEMMA DuplicateImplements ==
  ASSUME Faithful, Faithful', [Next]_vars, NEW t \in Tealets, NEW copy \in Tealets,
         Duplicate(t, copy)
  PROVE  C!Next
<1>1. /\ Duplicating /\ t # g_current /\ t # Main /\ state[t] # "free"
      /\ state[copy] = "free" /\ copy # t /\ g_current' = g_current
      /\ state' = [state EXCEPT ![copy] = state[t]]
      /\ stack' = [stack EXCEPT ![copy] = stack[t]]
  BY DEF Duplicate
<1>2. /\ state \in [Tealets -> States] /\ stack \in [Tealets -> Stacks \cup {NoStack}]
      /\ stacks \in [Stacks -> StackRecord]
  BY DEF Faithful, TypeOK
<1>3. copy # g_current
  BY <1>1 DEF Faithful, Ownership, Holders
<1>4. \A s \in Stacks : stacks'[s].defunct = stacks[s].defunct
  BY <1>2 DEF Duplicate, StackRecord
<1>5. \A u \in Tealets \ {copy} : IsDefunct(u)' = IsDefunct(u)
  BY <1>1, <1>2, <1>4 DEF IsDefunct
<1>6. IsDefunct(copy)' = IsDefunct(t)
  BY <1>1, <1>2, <1>4 DEF IsDefunct
<1>7. \A u \in Tealets \ {copy} : PhaseOf(u)' = PhaseOf(u)
  BY <1>1, <1>2, <1>5 DEF PhaseOf
<1>8. PhaseOf(copy)' = PhaseOf(t)
  BY <1>1, <1>2, <1>3, <1>6 DEF PhaseOf
<1>9. /\ Phase = [u \in Tealets |-> PhaseOf(u)] /\ Phase' = [u \in Tealets |-> PhaseOf(u)']
  BY PhaseIs, PhaseIsNext DEF Faithful
<1>10. Phase' = [Phase EXCEPT ![copy] = Phase[t]]
  BY <1>7, <1>8, <1>9
<1>11. Phase[copy] = "free" /\ Phase[t] \notin {"free", "running"}
  <2>1. PhaseOf(copy) = "free" /\ PhaseOf(t) \notin {"free", "running"}
    BY <1>1, <1>2 DEF PhaseOf, States
  <2> QED BY <1>9, <2>1
<1>12. C!Duplicate(t, copy)
  BY <1>1, <1>10, <1>11 DEF C!Duplicate
<1> QED BY <1>12 DEF C!Next

LEMMA DeleteImplements ==
  ASSUME Faithful, Faithful', [Next]_vars, NEW t \in Tealets, Delete(t)
  PROVE  C!Next
<1>1. /\ t # g_current /\ t # Main /\ state[t] # "free" /\ g_current' = g_current
      /\ state' = [state EXCEPT ![t] = "free"] /\ stack' = [stack EXCEPT ![t] = NoStack]
  BY DEF Delete
<1>2. /\ state \in [Tealets -> States] /\ stack \in [Tealets -> Stacks \cup {NoStack}]
      /\ stacks \in [Stacks -> StackRecord] /\ g_current \in Tealets
  BY DEF Faithful, TypeOK
<1>3. SparesAll
  <2> SUFFICES ASSUME NEW s \in Stacks, ~stacks[s].defunct PROVE ~stacks'[s].defunct
    BY DEF SparesAll
  <2>1. ~Decref(stacks[s]).defunct
    <3>1. CASE stacks[s].refcount = 1
      BY <3>1 DEF Decref, FreeStack
    <3>2. CASE stacks[s].refcount # 1
      BY <1>2, <3>2, DecrefFields
    <3> QED BY <3>1, <3>2
  <2>2. stacks'[s] \in {stacks[s], Decref(stacks[s])}
    BY <1>2 DEF Delete
  <2> QED BY <2>1, <2>2
<1>4. \A u \in Tealets \ {t} : state'[u] = state[u] /\ stack'[u] = stack[u]
  BY <1>1, <1>2
<1>5. Lost = {}
  <2>1. t \notin Lost
    BY <1>1, <1>2 DEF Lost
  <2> SUFFICES ASSUME NEW u \in Lost PROVE FALSE
    OBVIOUS
  <2>2. /\ u \in Tealets \ {t} /\ state[u] = "bound" /\ state'[u] = "bound"
        /\ ~IsDefunct(u) /\ IsDefunct(u)'
    BY <2>1 DEF Lost
  <2>3. stack[u] # NoStack /\ ~stacks[stack[u]].defunct /\ stacks'[stack[u]].defunct
    BY <1>4, <2>2 DEF IsDefunct
  <2>4. stack[u] \in Stacks /\ stacks[stack[u]].refcount > 0
    BY <2>2, <2>3, OwnerLives DEF Faithful
  <2> QED BY <1>3, <2>3, <2>4 DEF SparesAll
<1>6. Phase[t] # "running" /\ Phase[g_current] = "running" /\ PhaseOf(g_current)' = "running"
  <2>1. state[g_current] = "bound"
    BY DEF Faithful, Ownership, Holders
  <2>2. PhaseOf(t) # "running" /\ PhaseOf(g_current) = "running"
    BY <1>1, <1>2, <2>1 DEF PhaseOf, States
  <2>3. PhaseOf(g_current)' = "running"
    BY <1>1, <1>2, <2>1 DEF PhaseOf
  <2> QED BY <1>2, <2>2, <2>3, PhaseIs DEF Faithful
<1>7. PhaseOf(t)' = "free"
  BY <1>1, <1>2 DEF PhaseOf
<1>8. Phase' = [Phase EXCEPT ![t] = "free"]
  <2>1. PICK c \in Tealets : c = g_current
    BY <1>2
  <2>2. \A u \in Tealets \ {c, t} : Untouched(u)
    BY <1>1, <1>4, <2>1 DEF Untouched
  <2>3. Phase' = [u \in Tealets |-> IF u \in {c, t} THEN PhaseOf(u)'
                                     ELSE IF u \in Lost THEN "lost" ELSE Phase[u]]
    BY <2>2, Moves
  <2>4. PhaseOf(c)' = Phase[c]
    BY <1>1, <1>6, <2>1
  <2>5. Phase = [u \in Tealets |-> Phase[u]]
    BY DEF Phase
  <2> QED BY <1>5, <1>7, <2>3, <2>4, <2>5
<1>9. C!Delete(t)
  BY <1>1, <1>6, <1>8 DEF C!Delete
<1> QED BY <1>9 DEF C!Next

LEMMA NextImplements ==
  ASSUME Faithful, Faithful', Next
  PROVE  C!Next \/ Phase' = Phase
<1>1. ASSUME NEW t \in Tealets, New(t) PROVE C!Next
  <2>1. /\ state[t] = "free" /\ state' = [state EXCEPT ![t] = "new"]
        /\ g_current' = g_current /\ stack' = stack /\ stacks' = stacks
    BY <1>1 DEF New, stackVars
  <2>2. state \in [Tealets -> States]
    BY DEF Faithful, TypeOK
  <2>3. \A u \in Tealets : PhaseOf(u)' = IF u = t THEN "new" ELSE PhaseOf(u)
    BY <2>1, <2>2 DEF PhaseOf, IsDefunct
  <2>4. PhaseOf(t) = "free"
    BY <2>1 DEF PhaseOf
  <2>5. Phase[t] = "free" /\ Phase' = [Phase EXCEPT ![t] = "new"]
    BY <2>3, <2>4, PhaseIs, PhaseIsNext DEF Faithful
  <2> QED BY <2>5 DEF C!Next, C!New
<1>2. ASSUME NEW t \in Tealets, RefuseDefunct(t) PROVE Phase' = Phase
  <2>1. /\ state[t] = "bound" /\ IsDefunct(t) /\ t # g_current
        /\ state' = [state EXCEPT ![t] = "defunct"]
        /\ g_current' = g_current /\ stack' = stack /\ stacks' = stacks
    BY <1>2 DEF RefuseDefunct, stackVars
  <2>2. state \in [Tealets -> States]
    BY DEF Faithful, TypeOK
  <2>3. \A u \in Tealets : PhaseOf(u)' = PhaseOf(u)
    BY <2>1, <2>2 DEF PhaseOf, IsDefunct
  <2> QED BY <2>3, PhaseIs, PhaseIsNext DEF Faithful
<1>3. ASSUME NEW far \in Boundaries, SetFar(far) PROVE Phase' = Phase
  <2>1. g_current' = g_current /\ state' = state /\ stack' = stack /\ stacks' = stacks
    BY <1>3 DEF SetFar, stackVars
  <2>2. \A u \in Tealets : PhaseOf(u)' = PhaseOf(u)
    BY <2>1 DEF PhaseOf, IsDefunct
  <2> QED BY <2>2, PhaseIs, PhaseIsNext DEF Faithful
<1> QED BY <1>1, <1>2, <1>3, RunImplements, ForkImplements, SwitchImplements, ExitImplements,
           DuplicateImplements, DeleteImplements DEF Next

---------------------------------------------------------------------------
(* To its callers the engine is a set of coroutines with private frames,   *)
(* of which forced transfers may lose some, never main, and say so: under  *)
(* the conditions of NothingTornHolds, partial saving, growing, sharing    *)
(* and reference counting of stacks are invisible.                         *)
THEOREM SlicingImplementsCoroutines ==
  ASSUME ~Overreaching, "save" \notin OutOfMemory, ~Forcing \/ ~Duplicating
  PROVE  Spec => ImplementsCoroutines
<1>1. Init => C!Init
  BY DEF Init, C!Init, Phase
<1>2. Init => MainKept
  BY DEF Init, MainKept
<1>3. TypeOK /\ Ownership /\ Sound /\ MainKept /\ [Next]_vars => MainKept'
  BY NextMainKept
<1>4. Spec => [](TypeOK /\ Ownership /\ Sound)
  BY Invariant
<1>5. Spec => []NothingTorn
  BY NothingTornHolds
<1>6. Spec => []SuspendedIntact
  BY SuspendedIntactHolds
<1>7. Spec => []Faithful
  <2>1. Spec => []MainKept
    BY <1>2, <1>3, <1>4, PTL DEF Spec
  <2> QED BY <1>4, <1>5, <1>6, <2>1, PTL DEF Faithful
<1>8. Faithful /\ Faithful' /\ [Next]_vars => [C!Next]_Phase
  <2>1. CASE Next
    BY <2>1, NextImplements
  <2>2. CASE UNCHANGED vars
    BY <2>2 DEF vars, tealetVars, stackVars, Phase, IsDefunct, Intact, End
  <2> QED BY <2>1, <2>2
<1> QED BY <1>1, <1>7, <1>8, PTL DEF Spec, ImplementsCoroutines, C!Spec

=============================================================================
