--------------------------- MODULE StackSlicing ---------------------------
(***************************************************************************)
(* The stack-slicing engine of libtealet (src/src/tealet.c): many tealets  *)
(* run on one C stack.  A transfer copies to the heap only the part of the *)
(* outgoing stack that the target is about to overwrite; the rest stays in *)
(* place, and the list g_prev remembers the stacks that are only partly    *)
(* saved so that later transfers can grow them before it is overwritten.   *)
(*                                                                         *)
(* The C stack is the array mem of Depth cells.  Cell 0 is the nearest     *)
(* (lowest) one, the stack grows towards it, and the boundary Depth stands *)
(* for STACKMAN_SP_FURTHEST, the far boundary of an unbounded tealet.  The *)
(* content of a cell is named after the saved stack whose frames it holds: *)
(* cell a holds the label s while it holds, intact, what it held when the  *)
(* tealet of stack s was suspended.  A running tealet may change every     *)
(* cell nearer than its far boundary, so these all get the label NoStack.  *)
(*                                                                         *)
(* malloc fails when the model lets it: at the sites named by OutOfMemory. *)
(***************************************************************************)
EXTENDS Integers, FiniteSets

CONSTANTS
  Depth,        \* size of the C stack, and the unbounded far boundary
  Tealets,      \* tealet handles
  Main,         \* the main tealet
  Stacks,       \* heap blocks that can hold a saved stack
  Pointers,     \* the cells at which a stack pointer may stand in a transfer
  Boundaries,   \* the far boundaries of bounded tealets
  NoStack,      \* the NULL stack pointer; as a label, frames of nobody suspended
  Forcing,      \* whether transfers are forced: FORCE, NOFAIL, run() returning
  Duplicating,  \* whether callers use tealet_duplicate()
  Overreaching, \* whether a stack_far hint may lie beyond the creator's boundary
  OutOfMemory   \* the allocations that may fail

(* The allocations of a transfer: growing a partly saved stack, and saving *)
(* the outgoing stack when failure is reported ("save") or absorbed by     *)
(* marking the outgoing tealet defunct ("forced save").                    *)
FailSites == {"grow", "save", "forced save"}

ASSUME DepthAssumption == Depth \in Nat \ {0}
ASSUME RangesAssumption ==
  /\ Pointers \subseteq 0 .. Depth - 1
  /\ Boundaries \subseteq 1 .. Depth - 1
ASSUME TealetsAssumption == Main \in Tealets /\ IsFiniteSet(Tealets)
ASSUME StacksAssumption == NoStack \notin Stacks
ASSUME OptionsAssumption ==
  /\ Forcing \in BOOLEAN
  /\ Duplicating \in BOOLEAN
  /\ Overreaching \in BOOLEAN
  /\ OutOfMemory \subseteq FailSites

VARIABLES
  g_current,  \* the running tealet
  state,      \* flags of each tealet
  stack,      \* saved stack of each tealet, NoStack while it runs
  stack_far,  \* far boundary of each tealet, 0 for NULL
  stacks,     \* the heap blocks
  g_prev,     \* the linked, partly saved stacks
  older,      \* for a linked stack, those behind it in the list
  mem,        \* the C stack
  torn        \* history: tealets that were resumed on a stack not their own

tealetVars == <<g_current, state, stack, stack_far>>
stackVars == <<stacks, g_prev, older, mem>>
vars == <<tealetVars, stackVars, torn>>

---------------------------------------------------------------------------
Addr == 0 .. Depth - 1
Edge == 0 .. Depth
Label == Stacks \cup {NoStack}
Image == [Addr -> Label]

(* "defunct" is a bound tealet with TEALET_TFLAGS_DEFUNCT. *)
States == {"free", "new", "bound", "defunct", "exited"}

(* tealet_stack_t.  size is the extent of the first chunk, data what the   *)
(* chunks hold; frames is a history field: what the cells near .. far - 1  *)
(* held when the stack was suspended, which is what data should restore.   *)
StackRecord ==
  [refcount : Int, near : Edge, size : Edge, saved : Edge, far : Edge,
   defunct : BOOLEAN, data : Image, frames : Image]

Blank == [a \in Addr |-> NoStack]

FreeStack ==
  [refcount |-> 0, near |-> 0, size |-> 0, saved |-> 0, far |-> 0,
   defunct |-> FALSE, data |-> Blank, frames |-> Blank]

Nearer(a, b) == IF a < b THEN a ELSE b
Further(a, b) == IF a < b THEN b ELSE a

Unbounded(t) == stack_far[t] = Depth

(* The first cell of r that is not in the heap. *)
End(r) == r.near + r.saved

Full(r) == End(r) = r.far

(* The stack record r can still be restored from its chunks and the C      *)
(* stack, exactly as it was suspended.                                     *)
Intact(r) ==
  \A a \in Addr :
    /\ a \in r.near .. End(r) - 1 => r.data[a] = r.frames[a]
    /\ a \in End(r) .. r.far - 1 => mem[a] = r.frames[a]

IsDefunct(t) ==
  \/ state[t] = "defunct"
  \/ stack[t] # NoStack /\ stacks[stack[t]].defunct

---------------------------------------------------------------------------
(* Growing the list of partly saved stacks: tealet_stack_grow_list().  The *)
(* target's stack is ts, the transfer overwrites the cells nearer than     *)
(* stop, fails is the set of stacks whose growth finds no memory.          *)

(* tealet_stack_grow(): one more chunk, with the cells that are still on   *)
(* the C stack, so that size cells are saved.                              *)
Grow(r, size) ==
  [r EXCEPT !.saved = size,
            !.data = [a \in Addr |-> IF a \in End(r) .. r.near + size - 1
                                     THEN mem[a] ELSE r.data[a]]]

(* Mutants: growth that gives up what was saved beyond stop already,       *)
(* growth that stops one cell short, and growth that adds the whole extent *)
(* to what is saved already.                                               *)
GrowtoShrinking(r, stop) ==
  [r EXCEPT !.saved = Nearer(r.far, stop) - r.near]

GrowtoShort(r, stop) == Grow(r, Further(r.saved, Nearer(r.far, stop) - 1 - r.near))

GrowtoWhole(r, stop) == Grow(r, r.saved + Nearer(r.far, stop) - r.near)

Growto(r, stop) == Grow(r, Further(r.saved, Nearer(r.far, stop) - r.near))

(* An allocation is needed when something nearer than stop is not saved.   *)
Needs(r, stop) == End(r) < Nearer(r.far, stop)

MakeDefunct(r) ==
  [r EXCEPT !.saved = 0, !.defunct = TRUE,
            !.data = [a \in Addr |-> IF a < r.near + r.size
                                     THEN r.data[a] ELSE NoStack]]

(* Mutant: the target's stack is not grown although a duplicate needs it.  *)
VisitedUnshared(ts) == {s \in g_prev : ts \in g_prev => ts \in older[s]}

(* The loop runs from the newest stack to the target's stack, which it     *)
(* grows only when another tealet shares it.                               *)
Visited(ts) ==
  {s \in g_prev : ts \in g_prev =>
                    \/ ts \in older[s]
                    \/ s = ts /\ stacks[ts].refcount > 1}

MayFailToGrow(ts, stop) ==
  IF "grow" \in OutOfMemory
  THEN {s \in Visited(ts) : Needs(stacks[s], stop)}
  ELSE {}

(* Mutant: a forced transfer may give up main's stack. *)
StopsNever(fails, fail_ok) == IF fail_ok THEN fails ELSE {}

(* The failures that end the loop with an error; main is never defunct.    *)
Stops(fails, fail_ok) ==
  IF fail_ok THEN fails ELSE fails \cap {stack[Main]}

Reached(ts, fails, fail_ok) ==
  {s \in Visited(ts) : \A b \in Stops(fails, fail_ok) : b \in older[s]}

Grown(ts, stop, fails, fail_ok) ==
  LET reached == Reached(ts, fails, fail_ok)
  IN  [s \in Stacks |->
         IF s \notin reached THEN stacks[s]
         ELSE IF s \in fails THEN MakeDefunct(stacks[s])
         ELSE Growto(stacks[s], stop)]

(* Mutant: a stack that was saved entirely stays linked. *)
UnlinkedLost(ts, stop, fails, fail_ok) ==
  {s \in Reached(ts, fails, fail_ok) : s \in fails}
    \cup (IF Stops(fails, fail_ok) = {} THEN {ts} ELSE {})

(* Stacks that became full or defunct, and the target's once it is reached.*)
Unlinked(ts, stop, fails, fail_ok) ==
  {s \in Reached(ts, fails, fail_ok) : s \in fails \/ stacks[s].far <= stop}
    \cup (IF Stops(fails, fail_ok) = {} THEN {ts} ELSE {})

(* The list after unlinking: order of the remaining stacks is kept. *)
ListBecomes(linked) ==
  /\ g_prev' = linked
  /\ older' = [s \in Stacks |-> IF s \in linked THEN older[s] \cap linked ELSE {}]

---------------------------------------------------------------------------
(* The two halves of stackman_switch(): tealet_save_state() and            *)
(* tealet_restore_state().                                                 *)

(* What the C stack holds when the running tealet is suspended on stack s  *)
(* with its stack pointer at sp.                                           *)
Suspended(s, sp) ==
  [a \in Addr |-> IF a \in sp .. stack_far[g_current] - 1 THEN s ELSE mem[a]]

(* tealet_stack_new(): the first chunk holds size cells of the C stack now.*)
StackNew(near, far, size, now) ==
  [refcount |-> 1, near |-> near, size |-> size, saved |-> size, far |-> far,
   defunct |-> FALSE,
   data |-> [a \in Addr |-> IF a \in near .. near + size - 1 THEN now[a] ELSE NoStack],
   frames |-> [a \in Addr |-> IF a \in near .. far - 1 THEN now[a] ELSE NoStack]]

(* tealet_stack_saveto(): the first chunk runs from sp to the nearer of    *)
(* the stack's own boundary far and stop.                                  *)
SaveTo(s, sp, far, stop) ==
  StackNew(sp, far, Further(0, Nearer(far, stop) - sp), Suspended(s, sp))

(* Mutant: the first owner to let go frees the stack. *)
DecrefFrees(r) == FreeStack

Decref(r) ==
  IF r.refcount = 1 THEN FreeStack ELSE [r EXCEPT !.refcount = @ - 1]

(* Mutant: only the first chunk is copied back. *)
HeldFirst(r) == r.near .. r.near + r.size - 1

(* The chunks of r: a defunct stack has kept only the first one. *)
Held(r) == r.near .. r.near + (IF r.defunct THEN r.size ELSE r.saved) - 1

(* The C stack m after copying the chunks of r back. *)
Restored(r, m) == [a \in Addr |-> IF a \in Held(r) THEN r.data[a] ELSE m[a]]

(* The target resumes with boundary stop and may change everything nearer. *)
Running(m, stop) == [a \in Addr |-> IF a < stop THEN NoStack ELSE m[a]]

(* Restoring stack record r over m gives the wrong frames. *)
Tears(r, m) ==
  \E a \in Addr : a \in r.near .. r.far - 1 /\ Restored(r, m)[a] # r.frames[a]

(* The transfer fails with TEALET_ERR_MEM: growth stopped, or the outgoing *)
(* stack could not be saved.  What was grown and unlinked stays so.        *)
TransferFails(ts, stop, fail_ok, saves) ==
  \E fails \in SUBSET MayFailToGrow(ts, stop) :
    /\ \/ Stops(fails, fail_ok) # {}
       \/ saves /\ fail_ok /\ "save" \in OutOfMemory
    /\ stacks' = Grown(ts, stop, fails, fail_ok)
    /\ ListBecomes(g_prev \ Unlinked(ts, stop, fails, fail_ok))
    /\ UNCHANGED <<mem, torn>>

(* The stacks after the target's was copied back and released. *)
Released(grown, ts) ==
  [s \in Stacks |-> IF s = ts THEN Decref(grown[s]) ELSE grown[s]]

(* The target t runs on, on the C stack m; without a saved stack of its    *)
(* own it simply uses what is there.                                       *)
Resumes(t, ts, grown, m, stop) ==
  IF ts = NoStack
  THEN /\ mem' = Running(m, stop)
       /\ UNCHANGED torn
  ELSE /\ mem' = Running(Restored(grown[ts], m), stop)
       /\ torn' = IF Tears(grown[ts], m) THEN torn \cup {t} ELSE torn

(* The transfer resumes t without saving the outgoing stack, which exits   *)
(* or is lost.                                                             *)
TransferDrops(t, ts, stop, fail_ok) ==
  \E fails \in SUBSET MayFailToGrow(ts, stop) :
    LET grown == Grown(ts, stop, fails, fail_ok)
    IN  /\ Stops(fails, fail_ok) = {}
        /\ stacks' = Released(grown, ts)
        /\ ListBecomes(g_prev \ Unlinked(ts, stop, fails, fail_ok))
        /\ Resumes(t, ts, grown, mem, stop)

(* The transfer resumes t and suspends the outgoing frames on the fresh    *)
(* stack s, which is linked unless it could be saved entirely.             *)
TransferSaves(t, ts, stop, fail_ok, s, sp, far) ==
  /\ stacks[s].refcount = 0
  /\ \E fails \in SUBSET MayFailToGrow(ts, stop) :
       LET grown == Grown(ts, stop, fails, fail_ok)
           kept == g_prev \ Unlinked(ts, stop, fails, fail_ok)
       IN  /\ Stops(fails, fail_ok) = {}
           /\ stacks' = [Released(grown, ts) EXCEPT ![s] = SaveTo(s, sp, far, stop)]
           /\ g_prev' = IF far <= stop THEN kept ELSE kept \cup {s}
           /\ older' = [x \in Stacks |-> IF x \in kept THEN older[x] \cap kept
                                         ELSE IF x = s /\ far > stop THEN kept
                                         ELSE {}]
           /\ Resumes(t, ts, grown, Suspended(s, sp), stop)

---------------------------------------------------------------------------
(* The library's operations.  Each one is atomic: a transfer is one call   *)
(* of stackman_switch() on the one thread that runs the tealets.           *)

Init ==
  /\ g_current = Main
  /\ state = [t \in Tealets |-> IF t = Main THEN "bound" ELSE "free"]
  /\ stack = [t \in Tealets |-> NoStack]
  /\ stack_far = [t \in Tealets |-> IF t = Main THEN Depth ELSE 0]
  /\ stacks = [s \in Stacks |-> FreeStack]
  /\ g_prev = {}
  /\ older = [s \in Stacks |-> {}]
  /\ mem = Blank
  /\ torn = {}

(* tealet_new() *)
New(t) ==
  /\ state[t] = "free"
  /\ state' = [state EXCEPT ![t] = "new"]
  /\ UNCHANGED <<g_current, stack, stack_far, stackVars, torn>>

(* The stack pointer of a tealet with this far boundary. *)
PointersBelow(far) == {sp \in Pointers : sp < far}

(* A failed tealet_run() or tealet_fork() resets the child to NEW. *)
StartFails(stop) ==
  /\ TransferFails(NoStack, stop, TRUE, TRUE)
  /\ UNCHANGED tealetVars

(* tealet_run(t, TEALET_START_SWITCH): t starts at boundary far, inside    *)
(* the creator's frames unless a hint lies further.                        *)
RunSwitch(t, far) ==
  /\ state[t] = "new"
  /\ \/ StartFails(far)
     \/ \E s \in Stacks, sp \in PointersBelow(Nearer(far, stack_far[g_current])) :
          /\ TransferSaves(t, NoStack, far, TRUE, s, sp, stack_far[g_current])
          /\ g_current' = t
          /\ state' = [state EXCEPT ![t] = "bound"]
          /\ stack' = [stack EXCEPT ![g_current] = s]
          /\ stack_far' = [stack_far EXCEPT ![t] = far]

(* tealet_run(t, TEALET_START_DEFAULT): the new tealet's frames, up to     *)
(* far, are saved and the caller goes on.                                  *)
RunDefault(t, far) ==
  /\ state[t] = "new"
  /\ Overreaching \/ far <= stack_far[g_current]
  /\ \/ StartFails(stack_far[g_current])
     \/ \E s \in Stacks, sp \in PointersBelow(Nearer(far, stack_far[g_current])) :
          /\ TransferSaves(g_current, NoStack, stack_far[g_current], TRUE, s, sp, far)
          /\ state' = [state EXCEPT ![t] = "bound"]
          /\ stack' = [stack EXCEPT ![t] = s]
          /\ stack_far' = [stack_far EXCEPT ![t] = far]
          /\ UNCHANGED g_current

(* tealet_fork(t): parent and child share the frames up to the parent's    *)
(* boundary; one of them is suspended there and the other one runs on.     *)
Fork(t, start_switch) ==
  LET far == stack_far[g_current]
  IN  /\ state[t] = "new"
      /\ ~Unbounded(g_current)
      /\ \/ StartFails(far)
         \/ \E s \in Stacks, sp \in PointersBelow(far) :
              /\ TransferSaves(t, NoStack, far, TRUE, s, sp, far)
              /\ state' = [state EXCEPT ![t] = "bound"]
              /\ stack_far' = [stack_far EXCEPT ![t] = far]
              /\ IF start_switch
                 THEN /\ g_current' = t
                      /\ stack' = [stack EXCEPT ![g_current] = s]
                 ELSE /\ stack' = [stack EXCEPT ![t] = s]
                      /\ UNCHANGED g_current

FailOk(force) == ~force \/ g_current = Main

CanResume(t) == t # g_current /\ state[t] = "bound" /\ ~IsDefunct(t)

(* tealet_switch(t) to a suspended tealet. *)
Switch(t, force) ==
  LET ts == stack[t]
      stop == stack_far[t]
      far == stack_far[g_current]
  IN  /\ CanResume(t)
      /\ \/ /\ TransferFails(ts, stop, FailOk(force), TRUE)
            /\ UNCHANGED tealetVars
         \/ \E s \in Stacks, sp \in PointersBelow(far) :
              /\ TransferSaves(t, ts, stop, FailOk(force), s, sp, far)
              /\ g_current' = t
              /\ stack' = [stack EXCEPT ![g_current] = s, ![t] = NoStack]
              /\ UNCHANGED <<state, stack_far>>
         \/ /\ ~FailOk(force)
            /\ "forced save" \in OutOfMemory
            /\ TransferDrops(t, ts, stop, FALSE)
            /\ g_current' = t
            /\ state' = [state EXCEPT ![g_current] = "defunct"]
            /\ stack' = [stack EXCEPT ![t] = NoStack]
            /\ UNCHANGED stack_far

(* tealet_exit(t), and the implicit one when run() returns.  The exiting   *)
(* tealet's frames are not saved; TEALET_EXIT_DELETE frees its handle.     *)
Exit(t, force, delete) ==
  LET ts == stack[t]
      stop == stack_far[t]
  IN  /\ g_current # Main
      /\ CanResume(t)
      /\ \/ /\ TransferFails(ts, stop, ~force, FALSE)
            /\ UNCHANGED tealetVars
         \/ /\ TransferDrops(t, ts, stop, ~force)
            /\ g_current' = t
            /\ state' = [state EXCEPT ![g_current] = IF delete THEN "free" ELSE "exited"]
            /\ stack' = [stack EXCEPT ![t] = NoStack]
            /\ stack_far' = IF delete THEN [stack_far EXCEPT ![g_current] = 0]
                            ELSE stack_far

(* A transfer to a tealet whose stack was lost is refused with             *)
(* TEALET_ERR_DEFUNCT, and the tealet is marked: tealet_is_defunct().      *)
RefuseDefunct(t) ==
  /\ t # g_current
  /\ state[t] = "bound"
  /\ IsDefunct(t)
  /\ state' = [state EXCEPT ![t] = "defunct"]
  /\ UNCHANGED <<g_current, stack, stack_far, stackVars, torn>>

(* tealet_duplicate(): copy shares the saved stack of t. *)
Duplicate(t, copy) ==
  /\ Duplicating
  /\ t \notin {g_current, Main}
  /\ state[t] # "free"
  /\ state[copy] = "free"
  /\ state' = [state EXCEPT ![copy] = state[t]]
  /\ stack' = [stack EXCEPT ![copy] = stack[t]]
  /\ stack_far' = [stack_far EXCEPT ![copy] = stack_far[t]]
  /\ stacks' = IF stack[t] = NoStack THEN stacks
               ELSE [stacks EXCEPT ![stack[t]].refcount = @ + 1]
  /\ UNCHANGED <<g_current, g_prev, older, mem, torn>>

(* tealet_delete() of a tealet that is not running. *)
Delete(t) ==
  /\ t \notin {g_current, Main}
  /\ state[t] # "free"
  /\ state' = [state EXCEPT ![t] = "free"]
  /\ stack' = [stack EXCEPT ![t] = NoStack]
  /\ stack_far' = [stack_far EXCEPT ![t] = 0]
  /\ IF stack[t] = NoStack
     THEN UNCHANGED <<stacks, g_prev, older>>
     ELSE /\ stacks' = [stacks EXCEPT ![stack[t]] = Decref(@)]
          /\ ListBecomes(IF stacks[stack[t]].refcount = 1
                         THEN g_prev \ {stack[t]} ELSE g_prev)
  /\ torn' = torn \ {t}
  /\ UNCHANGED <<g_current, mem>>

(* tealet_set_far() on the unbounded main, before it forks. *)
SetFar(far) ==
  /\ g_current = Main
  /\ Unbounded(Main)
  /\ stack_far' = [stack_far EXCEPT ![Main] = far]
  /\ UNCHANGED <<g_current, state, stack, stackVars, torn>>

Next ==
  \/ \E t \in Tealets : New(t) \/ RefuseDefunct(t) \/ Delete(t)
  \/ \E t \in Tealets, far \in Boundaries : RunSwitch(t, far) \/ RunDefault(t, far)
  \/ \E t \in Tealets, start_switch \in BOOLEAN : Fork(t, start_switch)
  \/ \E t \in Tealets, force \in {Forcing, FALSE} : Switch(t, force)
  \/ \E t \in Tealets, force \in {Forcing, FALSE}, delete \in BOOLEAN : Exit(t, force, delete)
  \/ \E t, copy \in Tealets : Duplicate(t, copy)
  \/ \E far \in Boundaries : SetFar(far)

Spec == Init /\ [][Next]_vars
---------------------------------------------------------------------------
TypeOK ==
  /\ g_current \in Tealets
  /\ state \in [Tealets -> States]
  /\ stack \in [Tealets -> Stacks \cup {NoStack}]
  /\ stack_far \in [Tealets -> Edge]
  /\ stacks \in [Stacks -> StackRecord]
  /\ g_prev \subseteq Stacks
  /\ older \in [Stacks -> SUBSET Stacks]
  /\ mem \in Image
  /\ torn \subseteq Tealets

Owners(s) == {t \in Tealets : stack[t] = s}

(* A saved stack lives exactly as long as tealets refer to it, and its     *)
(* reference count says how many do: no stack is leaked or freed early.    *)
RefcountExact ==
  \A s \in Stacks : stacks[s].refcount = Cardinality(Owners(s))

(* The comment "previous stacks are already fully saved wrt. this" in      *)
(* tealet_stack_grow_list(): a stack in g_prev has nothing unsaved below   *)
(* the boundary of the running tealet, nor below that of a newer stack.    *)
Staircase ==
  \A s \in g_prev :
    /\ End(stacks[s]) >= stack_far[g_current]
    /\ \A r \in older[s] : End(stacks[r]) >= stacks[s].far

(* Everything in g_prev is live, incomplete and not defunct, so the loop   *)
(* of tealet_stack_grow_list() never meets a freed or a finished stack.    *)
ListIsPartial ==
  \A s \in g_prev :
    stacks[s].refcount > 0 /\ ~Full(stacks[s]) /\ ~stacks[s].defunct

(* "g_prev is the list of partially saved stacks" (INCREMENTAL_SAVE.md):   *)
(* a live stack with an unsaved rest is in it, so that rest is grown       *)
(* before it is overwritten.                                               *)
PartialIsListed ==
  \A s \in Stacks :
    stacks[s].refcount > 0 /\ ~Full(stacks[s]) /\ ~stacks[s].defunct => s \in g_prev

(* A stack that is in g_prev, or saved to its far boundary, can be         *)
(* restored exactly: the unsaved rest of a linked stack was not            *)
(* overwritten, whatever ran since and whichever allocations failed.       *)
Recoverable ==
  \A s \in Stacks :
    (s \in g_prev \/ (stacks[s].refcount > 0 /\ ~stacks[s].defunct /\ Full(stacks[s])))
      => Intact(stacks[s])

(* Every suspended tealet that does not report TEALET_ERR_DEFUNCT has a    *)
(* stack that can be restored exactly.                                     *)
SuspendedIntact ==
  \A t \in Tealets \ {g_current} :
    state[t] = "bound" /\ ~IsDefunct(t) =>
      stack[t] # NoStack /\ Intact(stacks[stack[t]])

(* No tealet was ever resumed on frames other than those it was suspended  *)
(* with.                                                                   *)
NothingTorn == torn = {}

(* Main can always be returned to by a forced transfer: it is never lost   *)
(* and its stack is never shared, so no growth can fail on its account.    *)
MainReachable ==
  /\ state[Main] = "bound"
  /\ g_current # Main =>
       /\ stack[Main] # NoStack
       /\ stacks[stack[Main]].refcount = 1
       /\ ~stacks[stack[Main]].defunct
       /\ \A fails \in SUBSET MayFailToGrow(stack[Main], stack_far[Main]) :
            Stops(fails, FALSE) = {}

(* When an unbounded tealet runs nothing is left partly saved: the two     *)
(* assertions in tealet_save_state().                                      *)
UnboundedAlone == Unbounded(g_current) => g_prev = {}

(* "Grow is monotone. A stack can only increase saved; it never shrinks":  *)
(* while a stack lives its extent stays where it is, what is saved of it   *)
(* only grows, and a stack that lost its chunks never passes for a good    *)
(* one again.                                                              *)
SavingIsMonotone ==
  [][\A s \in Stacks :
       LET old == stacks[s]
           new == stacks'[s]
       IN  old.refcount > 0 /\ new.refcount > 0 =>
             /\ new.near = old.near /\ new.far = old.far
             /\ new.saved >= old.saved \/ new.defunct
             /\ old.defunct => new.defunct]_vars

=============================================================================
