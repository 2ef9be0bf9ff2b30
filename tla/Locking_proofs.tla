--------------------------- MODULE Locking_proofs ---------------------------
(***************************************************************************)
(* Theorems about Locking, for every set of threads, tealets and stacks:   *)
(* the lock excludes, application code runs without it, shared counts are  *)
(* exact, and calls take effect at one moment.                             *)
(***************************************************************************)
EXTENDS Locking, FiniteSetTheorems, TLAPS

USE LockingAssumption

---------------------------------------------------------------------------
(* The lock.  What it excludes rests on who is where, and not on tealets.  *)

CallTypes == [op : Ops, on : Tealets \cup {NoTealet}, at : Points] \cup {NoCall}

(* The locked part of a call. *)
Inside == {"work", "epilogue", "trampoline"}

(* A call that has not taken effect yet, and names a tealet.               *)
Pending(th) == call[th].at \in {"lock", "work"}
Naming == Ops \ {"new", "defer"}

ControlTypes ==
  /\ mode \in {"OFF", "AUTO"}
  /\ holder \in Threads \cup {Nobody}
  /\ bracket \in [Threads -> Brackets]
  /\ call \in [Threads -> CallTypes]
  /\ saved \in [Tealets -> Stacks \cup {NoStack}]
  /\ resumes \in [Stacks -> Resumptions]
  /\ g_current \in Tealets
  /\ \A th \in Threads : Pending(th) /\ call[th].op \in Naming => call[th].on \in Tealets

(* Whoever is inside a call or a bracket holds the lock, and no one else.  *)
Locked ==
  \A th \in Threads :
    /\ bracket[th] # "none" => mode = "OFF" /\ holder = th
    /\ mode = "OFF" /\ ~InUser(th) => bracket[th] = "used"
    /\ call[th].at \in Inside => holder = th
    /\ holder = th => bracket[th] # "none" \/ call[th].at \in Inside

Control == ControlTypes /\ Locked

LEMMA CallKinds ==
  /\ NoCall \in CallTypes
  /\ NoCall.at = "user" /\ NoCall.op = "none"
  /\ \A at \in Resumptions : Resumed(at) \in CallTypes
  /\ \A at \in Resumptions : Resumed(at).at = at /\ Resumed(at) # NoCall
  /\ \A op \in Ops, t \in Tealets \cup {NoTealet} : Call(op, t, "lock") \in CallTypes
  /\ \A op \in Ops, t \in Tealets \cup {NoTealet} :
       /\ Call(op, t, "lock").at = "lock" /\ Call(op, t, "lock").on = t
       /\ Call(op, t, "lock").op = op
  /\ \A c \in CallTypes : c = NoCall <=> c.at = "user"
  /\ \A c \in CallTypes : c.at \in Points \cup {"user"}
  BY DEF CallTypes, NoCall, Resumed, Call, Resumptions, Points, Ops, Starts

(* A call that goes on keeps what it is. *)
LEMMA GoesOn ==
  ASSUME ControlTypes, NEW th \in Threads, NEW at \in Points, call[th].at \in Points, Goes(th, at)
  PROVE  /\ call' \in [Threads -> CallTypes]
         /\ call'[th].at = at /\ call'[th].op = call[th].op /\ call'[th].on = call[th].on
         /\ \A o \in Threads \ {th} : call'[o] = call[o]
<1>1. call[th] \in [op : Ops, on : Tealets \cup {NoTealet}, at : Points]
  BY CallKinds DEF ControlTypes, CallTypes, Points, NoCall
<1>2. [call[th] EXCEPT !.at = at] \in [op : Ops, on : Tealets \cup {NoTealet}, at : Points]
  BY <1>1
<1>3. call' = [call EXCEPT ![th] = [call[th] EXCEPT !.at = at]]
  BY DEF Goes
<1> QED BY <1>1, <1>2, <1>3 DEF ControlTypes, CallTypes

(* The owner's call becomes c. *)
LEMMA CallBecomes ==
  ASSUME ControlTypes, NEW th \in Threads, NEW c \in CallTypes, call' = [call EXCEPT ![th] = c]
  PROVE  /\ call' \in [Threads -> CallTypes]
         /\ call'[th] = c
         /\ \A o \in Threads \ {th} : call'[o] = call[o]
  BY DEF ControlTypes

(* A step that moves one thread on inside its call leaves the lock alone.  *)
Moves(th) ==
  /\ call[th].at = "work"
  /\ UNCHANGED <<mode, holder, bracket>>
  /\ call' \in [Threads -> CallTypes]
  /\ call'[th].at \in Resumptions
  /\ \A o \in Threads \ {th} : call'[o] = call[o]

LEMMA MovesLocked ==
  ASSUME Control, NEW th \in Threads, Moves(th)
  PROVE  Locked'
<1>1. call'[th] # NoCall /\ call[th] # NoCall
  BY CallKinds DEF Moves, Resumptions
<1> QED BY <1>1 DEF Control, Locked, Moves, Inside, Resumptions, InUser, ControlTypes

LEMMA MovesPending ==
  ASSUME ControlTypes, NEW th \in Threads, Moves(th)
  PROVE  \A o \in Threads : Pending(o)' /\ call'[o].op \in Naming => call'[o].on \in Tealets
  BY DEF ControlTypes, Moves, Pending, Resumptions

LEMMA WorksMoves ==
  ASSUME ControlTypes, NEW th \in Threads, NEW ops, Works(th, ops), Goes(th, "epilogue")
  PROVE  Moves(th)
  BY GoesOn DEF Works, Moves, Points, Resumptions

LEMMA ResumedMoves ==
  ASSUME ControlTypes, NEW ops, Works(Owner, ops), NEW at \in Resumptions,
         call' = [call EXCEPT ![Owner] = Resumed(at)]
  PROVE  Moves(Owner)
<1>1. Resumed(at) \in CallTypes /\ Resumed(at).at = at
  BY CallKinds
<1>2. /\ call' \in [Threads -> CallTypes]
      /\ call'[Owner] = Resumed(at)
      /\ \A o \in Threads \ {Owner} : call'[o] = call[o]
  BY <1>1, CallBecomes
<1> QED BY <1>1, <1>2 DEF Works, Moves

LEMMA WorkControl ==
  ASSUME Control, NEW th \in Threads, Work(th)
  PROVE  Moves(th) /\ Control'
<1>1. CASE AllocFails(th)
  BY <1>1, WorksMoves, MovesLocked, MovesPending
  DEF AllocFails, Control, ControlTypes, Moves, Works, domain
<1>2. CASE Delete(th)
  BY <1>2, WorksMoves, MovesLocked, MovesPending
  DEF Delete, Control, ControlTypes, Moves, Works
<1>3. ASSUME NEW t \in Tealets, New(th, t) PROVE Moves(th) /\ Control'
  BY <1>3, WorksMoves, MovesLocked, MovesPending
  DEF New, Control, ControlTypes, Moves, Works
<1>4. ASSUME NEW t \in Tealets, Duplicate(th, t) PROVE Moves(th) /\ Control'
  <2>1. Moves(th)
    BY <1>4, WorksMoves DEF Duplicate, Control
  <2>2. call[th].on \in Tealets
    BY <1>4 DEF Duplicate, Works, Control, ControlTypes, Pending, Naming, Ops, Starts
  <2> QED BY <1>4, <2>1, <2>2, MovesLocked, MovesPending DEF Duplicate, Control, ControlTypes, Moves
<1> QED BY <1>1, <1>2, <1>3, <1>4 DEF Work

LEMMA OwnerWorkControl ==
  ASSUME Control, OwnerWork
  PROVE  Moves(Owner) /\ Control'
<1>1. CASE Fails
  BY <1>1, WorksMoves, MovesLocked, MovesPending DEF Fails, Control, ControlTypes, Moves
<1>2. CASE SwitchToSelf \/ Defer
  BY <1>2, WorksMoves, MovesLocked, MovesPending
  DEF SwitchToSelf, Defer, Control, ControlTypes, Moves, domain
<1>3. ASSUME NEW s \in Stacks, StartSwitch(s) PROVE Moves(Owner) /\ Control'
  <2>1. Moves(Owner)
    BY <1>3, ResumedMoves DEF StartSwitch, Control, Resumptions
  <2>2. call[Owner].on \in Tealets
    BY <1>3 DEF StartSwitch, Works, Control, ControlTypes, Pending, Naming, Ops, Starts
  <2> QED BY <1>3, <2>1, <2>2, MovesLocked, MovesPending
          DEF StartSwitch, Saves, Control, ControlTypes, Moves, Resumptions
<1>4. ASSUME NEW s \in Stacks, StartDefault(s) PROVE Moves(Owner) /\ Control'
  BY <1>4, WorksMoves, MovesLocked, MovesPending
  DEF StartDefault, Saves, Control, ControlTypes, Moves, Resumptions
<1>5. ASSUME NEW s \in Stacks, Switch(s) PROVE Moves(Owner) /\ Control'
  <2>1. call[Owner].on \in Tealets
    BY <1>5 DEF Switch, Works, Control, ControlTypes, Pending, Naming, Ops, Starts
  <2>2. Moves(Owner)
    BY <1>5, <2>1, ResumedMoves DEF Switch, Control, ControlTypes
  <2> QED BY <1>5, <2>1, <2>2, MovesLocked, MovesPending
          DEF Switch, Control, ControlTypes, Moves, Resumptions
<1>6. ASSUME NEW t \in Tealets, NEW n, NEW deleted, NEW ops, Works(Owner, ops),
             ExitsTo(t, n, deleted)
      PROVE Moves(Owner) /\ Control'
  <2>1. Moves(Owner)
    BY <1>6, ResumedMoves DEF ExitsTo, Control, ControlTypes
  <2> QED BY <1>6, <2>1, MovesLocked, MovesPending
          DEF ExitsTo, Control, ControlTypes, Moves
<1>7. ASSUME NEW deleted, Exit(deleted) PROVE Moves(Owner) /\ Control'
  <2>1. call[Owner].on \in Tealets
    BY <1>7 DEF Exit, Works, Control, ControlTypes, Pending, Naming, Ops, Starts
  <2> QED BY <1>7, <2>1, <1>6 DEF Exit
<1>8. ASSUME NEW deleted, ReturnToMain(deleted) PROVE Moves(Owner) /\ Control'
  BY <1>8, <1>6 DEF ReturnToMain
<1> QED BY <1>1, <1>2, <1>3, <1>4, <1>5, <1>7, <1>8 DEF OwnerWork

LEMMA BeginsControl ==
  ASSUME Control, NEW th \in Threads, NEW op \in Ops, NEW t \in Tealets \cup {NoTealet},
         op \in Naming => t \in Tealets, Begins(th, op, t)
  PROVE  Control'
<1>1. Call(op, t, "lock") \in CallTypes
  BY CallKinds
<1>2. /\ call' \in [Threads -> CallTypes]
      /\ call'[th] = Call(op, t, "lock")
      /\ \A o \in Threads \ {th} : call'[o] = call[o]
  BY <1>1, CallBecomes DEF Begins, Control
<1>3. call'[th].at = "lock" /\ call'[th].on = t /\ call'[th].op = op
  BY <1>2, CallKinds
<1>4. ControlTypes'
  BY <1>2, <1>3 DEF Begins, Control, ControlTypes, Pending, Brackets
<1>5. Locked'
  BY <1>2, <1>3, CallKinds DEF Begins, Control, ControlTypes, Locked, InUser, Inside
<1> QED BY <1>4, <1>5 DEF Control

LEMMA BeginControl ==
  ASSUME Control, NEW th \in Threads, Begin(th) \/ OwnerBegin
  PROVE  Control'
  BY BeginsControl
  DEF Begin, OwnerBegin, BeginNew, BeginDelete, BeginDuplicate, BeginStart, BeginTransfer, BeginDefer,
      Naming, Ops, Starts

LEMMA ReturnControl ==
  ASSUME Control, NEW th \in Threads,
         Return(th) \/ (th = Owner /\ EnterRun)
  PROVE  Control'
<1>1. /\ call[th].at \in Resumptions
      /\ Leaves
      /\ call' = [call EXCEPT ![th] = NoCall]
      /\ UNCHANGED <<mode, bracket, seen, domain>>
  BY DEF Return, EnterRun, Resumptions
<1>2. /\ call' \in [Threads -> CallTypes]
      /\ call'[th] = NoCall
      /\ \A o \in Threads \ {th} : call'[o] = call[o]
  BY <1>1, CallBecomes, CallKinds DEF Control
<1>3. ControlTypes'
  BY <1>1, <1>2, CallKinds DEF Control, ControlTypes, Pending, Leaves, domain
<1>4. call[th] # NoCall
  BY <1>1, CallKinds DEF Resumptions
<1>5. Locked'
  BY <1>1, <1>2, <1>4, CallKinds
  DEF Control, ControlTypes, Locked, InUser, Inside, Leaves, Resumptions
<1> QED BY <1>3, <1>5 DEF Control

LEMMA AcquireControl ==
  ASSUME Control, NEW th \in Threads, Acquire(th)
  PROVE  Control'
<1>1. /\ call' \in [Threads -> CallTypes]
      /\ call'[th].at = "work" /\ call'[th].op = call[th].op /\ call'[th].on = call[th].on
      /\ \A o \in Threads \ {th} : call'[o] = call[o]
  BY GoesOn DEF Acquire, Control, Points
<1>2. call'[th] # NoCall /\ call[th] # NoCall
  BY <1>1, CallKinds DEF Acquire
<1>3. ControlTypes'
  BY <1>1 DEF Acquire, Takes, Control, ControlTypes, Pending, domain
<1>4. Locked'
  BY <1>1, <1>2 DEF Acquire, Takes, Control, ControlTypes, Locked, InUser, Inside
<1> QED BY <1>3, <1>4 DEF Control

LEMMA InitControl == Init => Control
  BY CallKinds DEF Init, Control, ControlTypes, Locked, Pending, Brackets, Resumptions, Inside, InUser

LEMMA NextControl == Control /\ [Next]_vars => Control'
<1> SUFFICES ASSUME Control, [Next]_vars PROVE Control'
  OBVIOUS
<1>1. ASSUME NEW m \in {"OFF", "AUTO"}, Configure(m) PROVE Control'
  BY <1>1, CallKinds
  DEF Configure, Control, ControlTypes, Locked, Pending, InUser, Inside, domain
<1>2. ASSUME NEW th \in Threads, Lock(th) PROVE Control'
  BY <1>2 DEF Lock, Control, ControlTypes, Locked, Pending, InUser, Inside, Brackets, domain
<1>3. ASSUME NEW th \in Threads, Unlock(th) PROVE Control'
  BY <1>3, CallKinds
  DEF Unlock, Control, ControlTypes, Locked, Pending, InUser, Inside, Brackets, domain
<1>4. CASE UNCHANGED vars
  BY <1>4 DEF vars, domain, Control, ControlTypes, Locked, Pending, InUser
<1> QED BY <1>1, <1>2, <1>3, <1>4, WorkControl, OwnerWorkControl, BeginControl, ReturnControl,
           AcquireControl DEF Next

LEMMA ControlHolds == Spec => []Control
  BY InitControl, NextControl, PTL DEF Spec

(* Application code that opened no bracket runs without the lock.          *)
THEOREM RunsUnlockedHolds == Spec => []RunsUnlocked
<1>1. Control => RunsUnlocked
  BY CallKinds DEF Control, Locked, RunsUnlocked, InUser, Inside
<1> QED BY <1>1, ControlHolds, PTL

(* No two threads are in the locked part of a call.                        *)
THEOREM OneAtWorkHolds == Spec => []OneAtWork
<1>1. Control => OneAtWork
  BY DEF Control, Locked, OneAtWork, Inside, Points
<1> QED BY <1>1, ControlHolds, PTL

---------------------------------------------------------------------------
(* What the lock protects: the handles, the calls on them and the counts.  *)

Assignment == [Tealets -> Stacks \cup {NoStack}]

(* How many tealets the assignment f of stacks to tealets gives stack x. *)
Count(f, x) == Cardinality({t \in Tealets : f[t] = x})

DomainTypes ==
  /\ seen \in [Threads -> Nat]
  /\ live \in SUBSET Tealets
  /\ flags \in [Tealets -> SUBSET {"BOUND", "EXITED"}]
  /\ refcount \in [Stacks -> Nat]

Handles ==
  /\ Main \in live /\ g_current \in live
  /\ flags[Main] = {"BOUND"}
  /\ flags[g_current] = {"BOUND"} /\ saved[g_current] = NoStack
  /\ \A t \in Tealets \ live : flags[t] = {}
  /\ \A t \in Tealets : flags[t] = {} => saved[t] = NoStack

(* A call that has not taken effect is one that its thread may make, and   *)
(* what it was checked for still holds.                                    *)
CallsInOrder ==
  \A th \in Threads : Pending(th) =>
    LET op == call[th].op
        t  == call[th].on
    IN  /\ op \in {"new", "delete", "duplicate"} \/ th = Owner
        /\ op \notin Naming => t = NoTealet
        /\ op \in {"delete", "duplicate"} => t \in live \ {Main, g_current}
        /\ op \in Starts =>
             t \in live \ {Main, g_current} /\ flags[t] = {"BOUND"} /\ saved[t] = NoStack
        /\ op \in {"exit", "return"} => g_current # Main

(* Two calls on one tealet at a time are duplications of a tealet that is  *)
(* being started.                                                          *)
Shareable == {"duplicate", "prime", "capture"}
Apart ==
  \A th, o \in Threads :
    th # o /\ Pending(th) /\ Pending(o) /\ call[th].on = call[o].on /\ call[th].on \in Tealets
      => Sharing /\ call[th].op \in Shareable /\ call[o].op \in Shareable

Counted == \A s \in Stacks : refcount[s] = Count(saved, s)

(* What a thread read under the lock is still true. *)
SeenTrue ==
  \A th \in Threads :
    LET t == call[th].on
    IN  call[th].at = "work" /\ t \in Tealets /\ saved[t] # NoStack
          => seen[th] = refcount[saved[t]]

Domain == DomainTypes /\ Handles /\ CallsInOrder /\ Apart /\ Counted /\ SeenTrue

LEMMA CountNat ==
  ASSUME NEW f, NEW x
  PROVE  IsFiniteSet({t \in Tealets : f[t] = x}) /\ Count(f, x) \in Nat
<1>1. {t \in Tealets : f[t] = x} \in SUBSET Tealets
  OBVIOUS
<1> QED BY <1>1, FS_Subset, FS_CardinalityType DEF Count

LEMMA CountHeld ==
  ASSUME NEW f, NEW x, NEW t \in Tealets, f[t] = x
  PROVE  Count(f, x) > 0
<1>1. {u \in Tealets : f[u] = x} # {}
  OBVIOUS
<1> QED BY <1>1, CountNat, FS_EmptySet DEF Count

LEMMA CountNone ==
  ASSUME NEW f, NEW x, \A t \in Tealets : f[t] # x
  PROVE  Count(f, x) = 0
<1>1. {u \in Tealets : f[u] = x} = {}
  OBVIOUS
<1> QED BY <1>1, FS_EmptySet DEF Count

(* Giving stack s to c, which had none, adds one owner to s only. *)
LEMMA CountGain ==
  ASSUME NEW f \in Assignment, NEW c \in Tealets, NEW s \in Stacks,
         f[c] = NoStack, NEW x \in Stacks
  PROVE  Count([f EXCEPT ![c] = s], x) = IF x = s THEN Count(f, x) + 1 ELSE Count(f, x)
<1> DEFINE owners == {t \in Tealets : f[t] = x}
           owning == {t \in Tealets : [f EXCEPT ![c] = s][t] = x}
<1>1. Count(f, x) = Cardinality(owners) /\ Count([f EXCEPT ![c] = s], x) = Cardinality(owning)
  BY DEF Count
<1>2. IsFiniteSet(owners)
  BY CountNat
<1>3. x # NoStack
  OBVIOUS
<1>4. c \notin owners
  BY <1>3
<1>5. owning = IF x = s THEN owners \cup {c} ELSE owners
  BY <1>3 DEF Assignment
<1> HIDE DEF owners, owning
<1>6. Cardinality(owners \cup {c}) = Cardinality(owners) + 1
  BY <1>2, <1>4, FS_AddElement
<1> QED BY <1>1, <1>5, <1>6

(* Taking c's stack away removes one owner of that stack only. *)
LEMMA CountLose ==
  ASSUME NEW f \in Assignment, NEW c \in Tealets, NEW x \in Stacks
  PROVE  Count([f EXCEPT ![c] = NoStack], x) =
           IF x = f[c] THEN Count(f, x) - 1 ELSE Count(f, x)
<1> DEFINE owners == {t \in Tealets : f[t] = x}
           owning == {t \in Tealets : [f EXCEPT ![c] = NoStack][t] = x}
<1>1. /\ Count(f, x) = Cardinality(owners)
      /\ Count([f EXCEPT ![c] = NoStack], x) = Cardinality(owning)
  BY DEF Count
<1>2. IsFiniteSet(owners)
  BY CountNat
<1>3. x # NoStack
  OBVIOUS
<1>4. owning = IF x = f[c] THEN owners \ {c} ELSE owners
  BY <1>3 DEF Assignment
<1>5. x = f[c] => c \in owners
  OBVIOUS
<1> HIDE DEF owners, owning
<1>6. x = f[c] => Cardinality(owners \ {c}) = Cardinality(owners) - 1
  BY <1>2, <1>5, FS_RemoveElement
<1> QED BY <1>1, <1>4, <1>6

(* When a thread works, no other thread is past the lock. *)
LEMMA AloneInside ==
  ASSUME Control, NEW th \in Threads, call[th].at \in Inside, NEW o \in Threads \ {th}
  PROVE  call[o].at \notin Inside
  BY DEF Control, Locked

LEMMA MovesSeen ==
  ASSUME Control, NEW th \in Threads, Moves(th)
  PROVE  SeenTrue'
  BY AloneInside DEF Moves, SeenTrue, Inside, Resumptions

LEMMA MovesApart ==
  ASSUME Apart, NEW th \in Threads, Moves(th)
  PROVE  Apart'
  BY DEF Apart, Moves, Pending, Resumptions

(* The calls of the others stay in order when the tealets they are on do   *)
(* not go away or come to run.                                             *)
LEMMA MovesOrder ==
  ASSUME CallsInOrder, NEW th \in Threads, Moves(th),
         \A o \in Threads \ {th} :
           Pending(o) /\ call[o].on \in live => call[o].on \in live'
                                                 /\ (call[o].on # g_current => call[o].on # g_current'),
         th # Owner => /\ g_current' = g_current
                       /\ \A t \in live : call[Owner].on = t /\ call[Owner].op \in Starts /\ Pending(Owner)
                                            => flags'[t] = flags[t] /\ saved'[t] = saved[t]
  PROVE  CallsInOrder'
<1> SUFFICES ASSUME NEW o \in Threads, Pending(o)'
             PROVE  LET op == call'[o].op
                        t  == call'[o].on
                    IN  /\ op \in {"new", "delete", "duplicate"} \/ o = Owner
                        /\ op \notin Naming => t = NoTealet
                        /\ op \in {"delete", "duplicate"} => t \in live' \ {Main, g_current'}
                        /\ op \in Starts => /\ t \in live' \ {Main, g_current'}
                                            /\ flags'[t] = {"BOUND"} /\ saved'[t] = NoStack
                        /\ op \in {"exit", "return"} => g_current' # Main
  BY DEF CallsInOrder
<1>1. o # th /\ call'[o] = call[o] /\ Pending(o)
  BY DEF Moves, Pending, Resumptions
<1>2. CASE o = Owner
  BY <1>1, <1>2 DEF CallsInOrder
<1>3. CASE o # Owner
  <2>1. call[o].op \in {"new", "delete", "duplicate"}
    BY <1>1, <1>3 DEF CallsInOrder
  <2> QED BY <1>1, <1>3, <2>1 DEF CallsInOrder, Starts
<1> QED BY <1>2, <1>3

(* A tealet that a working call names is not named by another. *)
LEMMA OthersElsewhere ==
  ASSUME Apart, NEW th \in Threads, call[th].at = "work", call[th].on \in Tealets,
         call[th].op \notin Shareable, NEW o \in Threads \ {th}, Pending(o)
  PROVE  call[o].on # call[th].on
  BY DEF Apart, Pending

LEMMA AllocFailsDomain ==
  ASSUME Control, Domain, NEW th \in Threads, AllocFails(th)
  PROVE  Domain'
<1>1. Moves(th)
  BY WorksMoves DEF AllocFails, Control
<1>2. CallsInOrder' /\ Apart' /\ SeenTrue'
  BY <1>1, MovesOrder, MovesApart, MovesSeen DEF AllocFails, Domain, domain
<1> QED BY <1>2 DEF AllocFails, Works, Domain, DomainTypes, Handles, Counted, Count, domain

LEMMA NewDomain ==
  ASSUME Control, Domain, NEW th \in Threads, NEW t \in Tealets, New(th, t)
  PROVE  Domain'
<1>1. Moves(th)
  BY WorksMoves DEF New, Control
<1>2. CallsInOrder' /\ Apart' /\ SeenTrue'
  BY <1>1, MovesOrder, MovesApart, MovesSeen DEF New, Domain
<1> QED BY <1>2 DEF New, Works, Domain, DomainTypes, Handles, Counted, Count

LEMMA DeleteDomain ==
  ASSUME Control, Domain, NEW th \in Threads, Delete(th)
  PROVE  Domain'
<1> DEFINE t == call[th].on
           s == saved[t]
<1>1. Moves(th)
  BY WorksMoves DEF Delete, Control
<1>2. t \in live \ {Main, g_current} /\ t \in Tealets
  BY DEF Delete, Works, Domain, CallsInOrder, DomainTypes, Pending
<1>3. \A o \in Threads \ {th} : Pending(o) => call[o].on # t
  BY <1>2, OthersElsewhere DEF Delete, Works, Domain, Shareable
<1>4. live' = live \ {t} /\ g_current' = g_current
      /\ flags' = [flags EXCEPT ![t] = {}] /\ saved' = [saved EXCEPT ![t] = NoStack]
  BY DEF Delete
<1>5. CallsInOrder'
  BY <1>1, <1>2, <1>3, <1>4, MovesOrder DEF Domain, DomainTypes, Control, ControlTypes
<1>6. Apart' /\ SeenTrue'
  BY <1>1, MovesApart, MovesSeen DEF Domain
<1>7. CASE s = NoStack
  <2>1. refcount' = refcount /\ saved' = saved
    BY <1>2, <1>4, <1>7 DEF Delete, Decref, Control, ControlTypes
  <2>2. DomainTypes'
    <3>1. seen' = seen
      BY DEF Delete, Works
    <3> QED BY <1>4, <2>1, <3>1 DEF Domain, DomainTypes
  <2>3. Handles'
    BY <1>2, <1>4 DEF Domain, DomainTypes, Handles, Control, ControlTypes
  <2>4. Counted'
    BY <2>1 DEF Domain, Counted
  <2> QED BY <2>2, <2>3, <2>4, <1>5, <1>6 DEF Domain
<1>8. CASE s # NoStack
  <2>1. s \in Stacks /\ seen[th] = refcount[s]
    BY <1>2, <1>8 DEF Delete, Works, Domain, SeenTrue, Control, ControlTypes
  <2>2. refcount[s] = Count(saved, s) /\ Count(saved, s) > 0
    BY <1>2, <2>1, CountHeld DEF Domain, Counted
  <2>3. refcount' = [refcount EXCEPT ![s] = refcount[s] - 1]
    BY <1>8, <2>1 DEF Delete, Decref
  <2>4. saved \in Assignment
    BY DEF Control, ControlTypes, Assignment
  <2>5. \A x \in Stacks : Count(saved', x) = IF x = s THEN Count(saved, x) - 1 ELSE Count(saved, x)
    BY <1>2, <1>4, <2>4, CountLose
  <2>6. Counted'
    BY <2>1, <2>3, <2>5 DEF Domain, Counted, DomainTypes
  <2>7. DomainTypes'
    BY <1>2, <1>4, <2>1, <2>2, <2>3 DEF Delete, Works, Domain, DomainTypes
  <2>8. Handles'
    BY <1>2, <1>4 DEF Domain, DomainTypes, Handles, Control, ControlTypes
  <2> QED BY <1>5, <1>6, <2>6, <2>7, <2>8 DEF Domain
<1> QED BY <1>7, <1>8

LEMMA DuplicateDomain ==
  ASSUME Control, Domain, NEW th \in Threads, NEW copy \in Tealets, Duplicate(th, copy)
  PROVE  Domain'
<1> DEFINE t == call[th].on
           s == saved[t]
<1>1. Moves(th)
  BY WorksMoves DEF Duplicate, Control
<1>2. t \in live \ {Main, g_current} /\ t \in Tealets /\ copy \notin live
  BY DEF Duplicate, Works, Domain, CallsInOrder, DomainTypes, Pending
<1>3. live' = live \cup {copy} /\ g_current' = g_current
      /\ flags' = [flags EXCEPT ![copy] = flags[t]] /\ saved' = [saved EXCEPT ![copy] = s]
  BY DEF Duplicate
<1>4. CallsInOrder'
  BY <1>1, <1>2, <1>3, MovesOrder DEF Domain, DomainTypes, Control, ControlTypes
<1>5. Apart' /\ SeenTrue'
  BY <1>1, MovesApart, MovesSeen DEF Domain
<1>6. Handles'
  BY <1>2, <1>3 DEF Domain, DomainTypes, Handles, Control, ControlTypes
<1>7. flags[copy] = {} /\ saved[copy] = NoStack
  BY <1>2 DEF Domain, Handles
<1>8. CASE s = NoStack
  <2>1. refcount' = refcount /\ saved' = saved
    BY <1>3, <1>7, <1>8 DEF Duplicate, Control, ControlTypes
  <2>2. DomainTypes'
    <3>1. seen' = seen /\ flags[t] \in SUBSET {"BOUND", "EXITED"}
      BY <1>2 DEF Duplicate, Works, Domain, DomainTypes
    <3> QED BY <1>3, <2>1, <3>1 DEF Domain, DomainTypes
  <2>3. Counted'
    BY <2>1 DEF Domain, Counted
  <2> QED BY <2>2, <2>3, <1>4, <1>5, <1>6 DEF Domain
<1>9. CASE s # NoStack
  <2>1. s \in Stacks /\ seen[th] = refcount[s]
    BY <1>2, <1>9 DEF Duplicate, Works, Domain, SeenTrue, Control, ControlTypes
  <2>2. refcount' = [refcount EXCEPT ![s] = refcount[s] + 1]
    BY <1>9, <2>1 DEF Duplicate
  <2>3. saved \in Assignment
    BY DEF Control, ControlTypes, Assignment
  <2>4. \A x \in Stacks : Count(saved', x) = IF x = s THEN Count(saved, x) + 1 ELSE Count(saved, x)
    BY <1>3, <1>7, <2>1, <2>3, CountGain
  <2>5. Counted'
    BY <2>1, <2>2, <2>4 DEF Domain, Counted, DomainTypes
  <2>6. DomainTypes'
    BY <1>2, <1>3, <2>1, <2>2 DEF Duplicate, Works, Domain, DomainTypes
  <2> QED BY <1>4, <1>5, <1>6, <2>5, <2>6 DEF Domain
<1> QED BY <1>8, <1>9

LEMMA FailsDomain ==
  ASSUME Control, Domain, Fails
  PROVE  Domain'
<1> DEFINE t == call[Owner].on
<1>1. Moves(Owner)
  BY WorksMoves DEF Fails, Control
<1>2. CallsInOrder' /\ Apart' /\ SeenTrue'
  BY <1>1, MovesOrder, MovesApart, MovesSeen DEF Fails, Domain
<1>3. UNCHANGED <<seen, live, saved, refcount, g_current>>
      /\ flags' = IF call[Owner].op \in Starts THEN [flags EXCEPT ![t] = {}] ELSE flags
  BY DEF Fails, Works
<1>4. call[Owner].op \in Starts =>
        t \in live \ {Main, g_current} /\ t \in Tealets /\ saved[t] = NoStack
  BY DEF Fails, Works, Domain, CallsInOrder, DomainTypes, Pending
<1>5. DomainTypes' /\ Handles' /\ Counted'
  BY <1>3, <1>4 DEF Domain, DomainTypes, Handles, Counted, Count, Control, ControlTypes
<1> QED BY <1>2, <1>5 DEF Domain

LEMMA NothingDomain ==
  ASSUME Control, Domain, SwitchToSelf \/ Defer
  PROVE  Domain'
<1>1. Moves(Owner)
  BY WorksMoves DEF SwitchToSelf, Defer, Control
<1>2. CallsInOrder' /\ Apart' /\ SeenTrue'
  BY <1>1, MovesOrder, MovesApart, MovesSeen DEF SwitchToSelf, Defer, Domain, domain
<1> QED BY <1>2
        DEF SwitchToSelf, Defer, Works, Domain, DomainTypes, Handles, Counted, Count, domain

(* Saving a tealet that had no stack in a block that was free.             *)
LEMMA SavesCounted ==
  ASSUME Control, Domain, NEW t \in Tealets, NEW s \in Stacks, NEW at, saved[t] = NoStack,
         Saves(t, s, at)
  PROVE  Counted' /\ refcount' \in [Stacks -> Nat]
<1>1. saved \in Assignment
  BY DEF Control, ControlTypes, Assignment
<1>2. \A x \in Stacks : Count(saved', x) = IF x = s THEN Count(saved, x) + 1 ELSE Count(saved, x)
  BY <1>1, CountGain DEF Saves
<1>3. refcount' = [refcount EXCEPT ![s] = 1] /\ refcount[s] = 0
  BY DEF Saves
<1>4. refcount \in [Stacks -> Nat] /\ \A x \in Stacks : refcount[x] = Count(saved, x)
  BY DEF Domain, DomainTypes, Counted
<1>5. \A x \in Stacks : refcount'[x] = Count(saved', x)
  BY <1>2, <1>3, <1>4
<1> QED BY <1>3, <1>4, <1>5 DEF Counted

LEMMA StartSwitchDomain ==
  ASSUME Control, Domain, NEW s \in Stacks, StartSwitch(s)
  PROVE  Domain'
<1> DEFINE t == call[Owner].on
<1>1. Moves(Owner)
  BY OwnerWorkControl DEF OwnerWork
<1>2. /\ t \in live \ {Main, g_current} /\ t \in Tealets
      /\ flags[t] = {"BOUND"} /\ saved[t] = NoStack
  BY DEF StartSwitch, Works, Domain, CallsInOrder, DomainTypes, Pending, Starts
<1>3. /\ UNCHANGED <<seen, live, flags>> /\ g_current' = t
      /\ saved' = [saved EXCEPT ![g_current] = s]
  BY DEF StartSwitch, Works, Saves
<1>4. \A o \in Threads \ {Owner} : Pending(o) => call[o].on # t
  BY <1>2, OthersElsewhere DEF StartSwitch, Works, Domain, Shareable
<1>5. CallsInOrder' /\ Apart' /\ SeenTrue'
  BY <1>1, <1>3, <1>4, MovesOrder, MovesApart, MovesSeen DEF Domain
<1>6. g_current \in Tealets /\ saved[g_current] = NoStack
  BY DEF Domain, Handles, Control, ControlTypes
<1>7. Counted' /\ refcount' \in [Stacks -> Nat]
  BY <1>6, SavesCounted DEF StartSwitch
<1>8. DomainTypes' /\ Handles'
  BY <1>2, <1>3, <1>7 DEF Domain, DomainTypes, Handles, Control, ControlTypes
<1> QED BY <1>5, <1>7, <1>8 DEF Domain

LEMMA StartDefaultDomain ==
  ASSUME Control, Domain, NEW s \in Stacks, StartDefault(s)
  PROVE  Domain'
<1> DEFINE t == call[Owner].on
<1>1. Moves(Owner)
  BY OwnerWorkControl DEF OwnerWork
<1>2. /\ t \in live \ {Main, g_current} /\ t \in Tealets
      /\ flags[t] = {"BOUND"} /\ saved[t] = NoStack
  BY DEF StartDefault, Works, Domain, CallsInOrder, DomainTypes, Pending, Starts
<1>3. UNCHANGED <<seen, live, flags, g_current>> /\ saved' = [saved EXCEPT ![t] = s]
  BY DEF StartDefault, Works, Saves
<1>4. CallsInOrder' /\ Apart' /\ SeenTrue'
  BY <1>1, <1>3, MovesOrder, MovesApart, MovesSeen DEF Domain
<1>5. Counted' /\ refcount' \in [Stacks -> Nat]
  BY <1>2, SavesCounted DEF StartDefault
<1>6. DomainTypes' /\ Handles'
  BY <1>2, <1>3, <1>5 DEF Domain, DomainTypes, Handles, Control, ControlTypes
<1> QED BY <1>4, <1>5, <1>6 DEF Domain

LEMMA SwitchDomain ==
  ASSUME Control, Domain, NEW s \in Stacks, Switch(s)
  PROVE  Domain'
<1> DEFINE t == call[Owner].on
           from == saved[t]
           c == g_current
<1>1. Moves(Owner)
  BY OwnerWorkControl DEF OwnerWork
<1>2. t \in Tealets
  BY DEF Switch, Works, Control, ControlTypes, Pending, Naming, Ops, Starts
<1>3. t # c /\ flags[t] = {"BOUND"} /\ t \in live /\ c \in Tealets /\ saved[c] = NoStack
  BY <1>2 DEF Switch, CanResume, Domain, Handles, Control, ControlTypes
<1>4. /\ UNCHANGED <<seen, live, flags>> /\ g_current' = t
      /\ saved' = [saved EXCEPT ![c] = s, ![t] = NoStack]
  BY DEF Switch, Works
<1>5. \A o \in Threads \ {Owner} : Pending(o) => call[o].on # t
  BY <1>2, OthersElsewhere DEF Switch, Works, Domain, Shareable
<1>6. CallsInOrder' /\ Apart' /\ SeenTrue'
  BY <1>1, <1>4, <1>5, MovesOrder, MovesApart, MovesSeen DEF Domain
<1>7. from \in Stacks /\ seen[Owner] = refcount[from] /\ refcount[s] = 0
  BY <1>2 DEF Switch, Works, Domain, SeenTrue, Control, ControlTypes
<1>8. /\ refcount \in [Stacks -> Nat]
      /\ \A x \in Stacks : refcount[x] = Count(saved, x)
      /\ Count(saved, from) > 0
  BY <1>2, <1>7, CountHeld DEF Domain, DomainTypes, Counted
<1>9. refcount' = [refcount EXCEPT ![s] = 1, ![from] = refcount[from] - 1]
  BY <1>7 DEF Switch
<1> DEFINE mid == [saved EXCEPT ![c] = s]
<1>10. saved \in Assignment /\ mid \in Assignment
  BY DEF Control, ControlTypes, Assignment
<1>11. \A x \in Stacks : Count(mid, x) = IF x = s THEN Count(saved, x) + 1 ELSE Count(saved, x)
  BY <1>3, <1>10, CountGain
<1>12. saved' = [mid EXCEPT ![t] = NoStack] /\ mid[t] = from
  BY <1>2, <1>3, <1>4 DEF Control, ControlTypes
<1> HIDE DEF mid
<1>13. \A x \in Stacks : Count(saved', x) = IF x = from THEN Count(mid, x) - 1 ELSE Count(mid, x)
  <2> HIDE DEF t, from
  <2>1. \A x \in Stacks : Count([mid EXCEPT ![t] = NoStack], x) =
                            IF x = mid[t] THEN Count(mid, x) - 1 ELSE Count(mid, x)
    BY <1>2, <1>10, CountLose
  <2> QED BY <1>12, <2>1
<1>14. \A x \in Stacks : refcount'[x] = Count(saved', x) /\ refcount'[x] \in Nat
  <2> HIDE DEF from
  <2>1. from # s
    BY <1>7, <1>8
  <2> QED BY <2>1, <1>7, <1>8, <1>9, <1>11, <1>13
<1>15. Counted' /\ DomainTypes'
  BY <1>4, <1>9, <1>14 DEF Counted, Domain, DomainTypes
<1>16. Handles'
  BY <1>2, <1>3, <1>4 DEF Domain, DomainTypes, Handles, Control, ControlTypes
<1> QED BY <1>6, <1>15, <1>16 DEF Domain

LEMMA ExitsToDomain ==
  ASSUME Control, Domain, Moves(Owner), NEW t \in Tealets, NEW n, NEW deleted \in BOOLEAN,
         t # g_current, flags[t] = {"BOUND"}, g_current # Main, UNCHANGED seen,
         saved[t] # NoStack => n = refcount[saved[t]],
         \A o \in Threads \ {Owner} : Pending(o) => call[o].on # t,
         ExitsTo(t, n, deleted)
  PROVE  Domain'
<1> DEFINE c == g_current
           s == saved[t]
<1>1. c \in Tealets /\ saved[c] = NoStack /\ t \in live
  BY DEF Domain, Handles, Control, ControlTypes
<1>2. /\ live' = IF deleted THEN live \ {c} ELSE live
      /\ flags' = [flags EXCEPT ![c] = IF deleted THEN {} ELSE {"BOUND", "EXITED"}]
      /\ g_current' = t /\ saved' = [saved EXCEPT ![t] = NoStack]
  BY DEF ExitsTo
<1>3. \A o \in Threads \ {Owner} : Pending(o) /\ call[o].on \in Tealets => call[o].on # c
  <2> SUFFICES ASSUME NEW o \in Threads \ {Owner}, Pending(o), call[o].on \in Tealets
               PROVE  call[o].on # c
    OBVIOUS
  <2>1. call[o].op \in {"new", "delete", "duplicate"}
    BY DEF Domain, CallsInOrder
  <2>2. call[o].op # "new"
    BY DEF Domain, CallsInOrder, Naming
  <2> QED BY <2>1, <2>2 DEF Domain, CallsInOrder
<1>4. live \subseteq Tealets
  BY DEF Domain, DomainTypes
<1>5. CallsInOrder'
  <2>1. CallsInOrder
    BY DEF Domain
  <2>2. \A o \in Threads \ {Owner} :
          Pending(o) /\ call[o].on \in live => call[o].on \in live' /\ call[o].on # g_current'
    BY <1>2, <1>3, <1>4
  <2> QED BY <2>1, <2>2, MovesOrder
<1>6. Apart' /\ SeenTrue'
  BY MovesApart, MovesSeen DEF Domain
<1>7. s \in Stacks /\ n = refcount[s]
  BY DEF ExitsTo, Control, ControlTypes
<1>8. /\ refcount \in [Stacks -> Nat]
      /\ \A x \in Stacks : refcount[x] = Count(saved, x)
      /\ Count(saved, s) > 0
  BY <1>7, CountHeld DEF Domain, DomainTypes, Counted
<1>9. refcount' = [refcount EXCEPT ![s] = refcount[s] - 1]
  BY <1>7 DEF ExitsTo
<1>10. saved \in Assignment
  BY DEF Control, ControlTypes, Assignment
<1>11. \A x \in Stacks : Count(saved', x) = IF x = s THEN Count(saved, x) - 1 ELSE Count(saved, x)
  BY <1>2, <1>10, CountLose
<1>12. \A x \in Stacks : refcount'[x] = Count(saved', x) /\ refcount'[x] \in Nat
  BY <1>7, <1>8, <1>9, <1>11
<1>13. flags' \in [Tealets -> SUBSET {"BOUND", "EXITED"}] /\ live' \in SUBSET Tealets
  BY <1>2 DEF Domain, DomainTypes
<1>14. Counted' /\ DomainTypes'
  BY <1>9, <1>12, <1>13 DEF Counted, Domain, DomainTypes
<1>15. Handles'
  BY <1>1, <1>2 DEF Domain, DomainTypes, Handles, Control, ControlTypes
<1> QED BY <1>5, <1>6, <1>14, <1>15 DEF Domain

LEMMA ExitDomain ==
  ASSUME Control, Domain, NEW deleted \in BOOLEAN, Exit(deleted)
  PROVE  Domain'
<1> DEFINE t == call[Owner].on
<1>1. Moves(Owner)
  BY OwnerWorkControl DEF OwnerWork
<1>2. t \in Tealets /\ t # g_current /\ flags[t] = {"BOUND"}
  BY DEF Exit, CanResume, Works, Control, ControlTypes, Pending, Naming, Ops, Starts
<1>3. g_current # Main /\ UNCHANGED seen
  BY DEF Exit, Works, Domain, CallsInOrder, Pending
<1>4. saved[t] # NoStack => seen[Owner] = refcount[saved[t]]
  BY <1>2 DEF Exit, Works, Domain, SeenTrue
<1>5. \A o \in Threads \ {Owner} : Pending(o) => call[o].on # t
  BY <1>2, OthersElsewhere DEF Exit, Works, Domain, Shareable
<1>6. ExitsTo(t, seen[Owner], deleted)
  BY DEF Exit
<1> QED BY <1>1, <1>2, <1>3, <1>4, <1>5, <1>6, ExitsToDomain

LEMMA ReturnToMainDomain ==
  ASSUME Control, Domain, NEW deleted \in BOOLEAN, ReturnToMain(deleted)
  PROVE  Domain'
<1>1. Moves(Owner)
  BY OwnerWorkControl DEF OwnerWork
<1>2. g_current # Main /\ UNCHANGED seen
  BY DEF ReturnToMain, Works, Domain, CallsInOrder, Pending
<1>3. \A o \in Threads \ {Owner} : Pending(o) => call[o].on # Main
  BY DEF Domain, CallsInOrder, Naming, Ops, Starts
<1>4. flags[Main] = {"BOUND"} /\ ExitsTo(Main, refcount[saved[Main]], deleted)
  BY DEF ReturnToMain, Domain, Handles
<1> QED BY <1>1, <1>2, <1>3, <1>4, ExitsToDomain

LEMMA AcquireDomain ==
  ASSUME Control, Domain, NEW th \in Threads, Acquire(th)
  PROVE  Domain'
<1> DEFINE t == call[th].on
<1>1. /\ call'[th].at = "work" /\ call'[th].op = call[th].op /\ call'[th].on = call[th].on
      /\ \A o \in Threads \ {th} : call'[o] = call[o]
  BY GoesOn DEF Acquire, Control, Points
<1>2. UNCHANGED <<live, flags, saved, refcount, g_current>>
  BY DEF Acquire, domain
<1>3. \A o \in Threads : Pending(o)' = Pending(o) /\ call'[o].op = call[o].op /\ call'[o].on = call[o].on
  BY <1>1 DEF Acquire, Pending
<1>4. CallsInOrder'
  BY <1>2, <1>3 DEF Domain, CallsInOrder
<1>5. Apart'
  BY <1>3 DEF Domain, Apart
<1>6. seen' = [seen EXCEPT ![th] = IF t \in Tealets /\ saved[t] # NoStack
                                   THEN refcount[saved[t]] ELSE 0]
  BY DEF Acquire
<1>7. DomainTypes'
  BY <1>2, <1>6 DEF Domain, DomainTypes, Control, ControlTypes
<1>8. SeenTrue'
  BY <1>1, <1>2, <1>6 DEF Domain, DomainTypes, SeenTrue
<1>9. Handles' /\ Counted'
  BY <1>2 DEF Domain, Handles, Counted
<1> QED BY <1>4, <1>5, <1>7, <1>8, <1>9 DEF Domain

(* A step that leaves the domain and every pending call as they are. *)
LEMMA IdleDomain ==
  ASSUME Domain, UNCHANGED <<seen, domain>>,
         \A o \in Threads : call'[o] = call[o] \/ call'[o] = NoCall
  PROVE  Domain'
<1>1. UNCHANGED <<seen, live, flags, saved, refcount, g_current>>
  BY DEF domain
<1>2. \A o \in Threads : Pending(o)' => Pending(o) /\ call'[o] = call[o]
  BY CallKinds DEF Pending
<1>3. CallsInOrder' /\ Apart'
  BY <1>1, <1>2 DEF Domain, CallsInOrder, Apart
<1>4. SeenTrue'
  BY <1>1, CallKinds DEF Domain, SeenTrue
<1>5. DomainTypes' /\ Handles' /\ Counted'
  BY <1>1 DEF Domain, DomainTypes, Handles, Counted
<1> QED BY <1>3, <1>4, <1>5 DEF Domain

(* A new call disturbs nothing when it is one that its thread may make on  *)
(* a tealet that no other is used on.                                      *)
LEMMA BeginsDomain ==
  ASSUME Control, Domain, NEW th \in Threads, NEW op \in Ops, NEW t \in Tealets \cup {NoTealet},
         Begins(th, op, t), DomainTypes', Handles',
         op \in {"new", "delete", "duplicate"} \/ th = Owner,
         op \notin Naming => t = NoTealet,
         op \in {"delete", "duplicate"} => t \in live \ {Main, g_current},
         op \in Starts => t \in live \ {Main, g_current} /\ flags'[t] = {"BOUND"} /\ saved[t] = NoStack,
         op \in {"exit", "return"} => g_current # Main,
         \A u \in Tealets : th # Owner \/ u # t => flags'[u] = flags[u],
         t \in Tealets =>
           \/ Unused(th, t)
           \/ Sharing /\ op \in Shareable /\ th # Owner /\ call[Owner].on = t
                /\ call[Owner].op \in Shareable /\ Pending(Owner)
  PROVE  Domain'
<1>1. /\ call'[th].at = "lock" /\ call'[th].on = t /\ call'[th].op = op
      /\ \A o \in Threads \ {th} : call'[o] = call[o]
  <2>1. Call(op, t, "lock") \in CallTypes
    BY CallKinds
  <2>2. call'[th] = Call(op, t, "lock") /\ \A o \in Threads \ {th} : call'[o] = call[o]
    BY <2>1, CallBecomes DEF Begins, Control
  <2> QED BY <2>2, CallKinds
<1>2. UNCHANGED <<seen, live, saved, refcount, g_current>>
  BY DEF Begins
<1>3. \A o \in Threads \ {th} : Pending(o)' = Pending(o)
  BY <1>1 DEF Pending
<1>4. CallsInOrder'
  <2> SUFFICES ASSUME NEW o \in Threads, Pending(o)'
               PROVE  LET on == call'[o].on
                      IN  /\ call'[o].op \in {"new", "delete", "duplicate"} \/ o = Owner
                          /\ call'[o].op \notin Naming => on = NoTealet
                          /\ call'[o].op \in {"delete", "duplicate"} => on \in live \ {Main, g_current}
                          /\ call'[o].op \in Starts =>
                               /\ on \in live \ {Main, g_current}
                               /\ flags'[on] = {"BOUND"} /\ saved[on] = NoStack
                          /\ call'[o].op \in {"exit", "return"} => g_current # Main
    BY <1>2 DEF CallsInOrder
  <2>1. CASE o = th
    BY <2>1, <1>1
  <2>2. CASE o # th
    <3>1. call'[o] = call[o] /\ Pending(o)
      BY <1>1, <1>3, <2>2
    <3>2. call[o].op \in Starts => o = Owner /\ call[o].on \in Tealets /\ th # Owner
      BY <2>2, <3>1 DEF Domain, DomainTypes, CallsInOrder, Starts
    <3> QED BY <3>1, <3>2 DEF Domain, CallsInOrder
  <2> QED BY <2>1, <2>2
<1>5. Apart'
  <2> SUFFICES ASSUME NEW a \in Threads, NEW b \in Threads, a # b, Pending(a)', Pending(b)',
                      call'[a].on = call'[b].on, call'[a].on \in Tealets
               PROVE  Sharing /\ call'[a].op \in Shareable /\ call'[b].op \in Shareable
    BY DEF Apart
  <2>1. CASE a # th /\ b # th
    BY <1>1, <1>3, <2>1 DEF Domain, Apart
  <2>2. ASSUME NEW o \in Threads \ {th}, Pending(o), call[o].on = t, t \in Tealets
        PROVE  Sharing /\ op \in Shareable /\ call[o].op \in Shareable
    <3>1. ~Unused(th, t)
      BY <2>2 DEF Unused
    <3> QED BY <2>2, <3>1 DEF Domain, Apart
  <2> QED BY <1>1, <1>3, <2>1, <2>2
<1>6. SeenTrue'
  BY <1>1, <1>2 DEF Domain, SeenTrue
<1>7. Counted'
  BY <1>2 DEF Domain, Counted
<1> QED BY <1>4, <1>5, <1>6, <1>7 DEF Domain

LEMMA BeginDomain ==
  ASSUME Control, Domain, NEW th \in Threads, Begin(th)
  PROVE  Domain'
<1>1. CASE BeginNew(th)
  <2>1. DomainTypes' /\ Handles'
    BY <1>1 DEF BeginNew, Begins, Domain, DomainTypes, Handles
  <2> QED BY <1>1, <2>1, BeginsDomain DEF BeginNew, Naming, Ops, Starts
<1>2. ASSUME NEW t \in Tealets, BeginDelete(th, t) PROVE Domain'
  <2>1. DomainTypes' /\ Handles'
    BY <1>2 DEF BeginDelete, Begins, Domain, DomainTypes, Handles
  <2> QED BY <1>2, <2>1, BeginsDomain DEF BeginDelete, Naming, Ops, Starts
<1>3. ASSUME NEW t \in Tealets, BeginDuplicate(th, t) PROVE Domain'
  <2>1. DomainTypes' /\ Handles'
    BY <1>3 DEF BeginDuplicate, Begins, Domain, DomainTypes, Handles
  <2>2. BeingPrimed(t) => th # Owner
    BY <1>3, CallKinds DEF BeginDuplicate, Begins, InUser, BeingPrimed
  <2>3. BeingPrimed(t) => /\ call[Owner].on = t /\ call[Owner].op \in Shareable
                          /\ Pending(Owner)
    BY DEF BeingPrimed, Shareable, Pending
  <2> QED BY <1>3, <2>1, <2>2, <2>3, BeginsDomain
          DEF BeginDuplicate, Naming, Ops, Starts, Shareable
<1> QED BY <1>1, <1>2, <1>3 DEF Begin

LEMMA OwnerBeginDomain ==
  ASSUME Control, Domain, OwnerBegin
  PROVE  Domain'
<1>1. ASSUME NEW t \in Tealets, NEW op \in Starts, BeginStart(op, t) PROVE Domain'
  <2>1. t # Main /\ t # g_current /\ saved[t] = NoStack /\ flags[t] = {}
    BY <1>1 DEF BeginStart, Domain, Handles
  <2>2. flags' = [flags EXCEPT ![t] = {"BOUND"}] /\ t \in live
        /\ UNCHANGED <<seen, live, saved, refcount, g_current>>
    BY <1>1 DEF BeginStart, Begins
  <2>3. DomainTypes'
    BY <2>2 DEF Domain, DomainTypes
  <2>4. Handles'
    BY <2>1, <2>2 DEF Domain, DomainTypes, Handles, Control, ControlTypes
  <2>5. flags'[t] = {"BOUND"} /\ \A u \in Tealets : u # t => flags'[u] = flags[u]
    BY <2>2 DEF Domain, DomainTypes
  <2>6. op \in Ops /\ op \in Naming /\ op \notin {"delete", "duplicate", "exit", "return"}
    BY DEF Naming, Ops, Starts
  <2> QED BY <1>1, <2>1, <2>2, <2>3, <2>4, <2>5, <2>6, BeginsDomain DEF BeginStart
<1>2. ASSUME NEW t \in Tealets, NEW op \in {"switch", "exit", "return"}, BeginTransfer(op, t)
      PROVE  Domain'
  <2>1. DomainTypes' /\ Handles'
    BY <1>2 DEF BeginTransfer, Begins, Domain, DomainTypes, Handles
  <2> QED BY <1>2, <2>1, BeginsDomain DEF BeginTransfer, Naming, Ops, Starts
<1>3. CASE BeginDefer
  <2>1. DomainTypes' /\ Handles'
    BY <1>3 DEF BeginDefer, Begins, Domain, DomainTypes, Handles
  <2> QED BY <1>3, <2>1, BeginsDomain DEF BeginDefer, Naming, Ops, Starts
<1> QED BY <1>1, <1>2, <1>3 DEF OwnerBegin

LEMMA InitDomain == Init => Domain
<1> SUFFICES ASSUME Init PROVE Domain
  OBVIOUS
<1>1. \A th \in Threads : ~Pending(th) /\ call[th].at # "work"
  BY CallKinds DEF Init, Pending
<1>2. CallsInOrder /\ Apart /\ SeenTrue
  BY <1>1 DEF CallsInOrder, Apart, SeenTrue
<1>3. Counted
  BY CountNone DEF Init, Counted
<1>4. DomainTypes /\ Handles
  BY DEF Init, DomainTypes, Handles
<1> QED BY <1>2, <1>3, <1>4 DEF Domain

LEMMA NextDomain == Control /\ Domain /\ [Next]_vars => Domain'
<1> SUFFICES ASSUME Control, Domain, [Next]_vars PROVE Domain'
  OBVIOUS
<1>1. ASSUME NEW m \in {"OFF", "AUTO"}, Configure(m) PROVE Domain'
  BY <1>1, IdleDomain DEF Configure
<1>2. ASSUME NEW th \in Threads, Lock(th) \/ Unlock(th) PROVE Domain'
  BY <1>2, IdleDomain DEF Lock, Unlock
<1>3. ASSUME NEW th \in Threads, Return(th) \/ (th = Owner /\ EnterRun) PROVE Domain'
  BY <1>3, IdleDomain DEF Return, EnterRun, Control, ControlTypes
<1>4. CASE UNCHANGED vars
  BY <1>4, IdleDomain DEF vars
<1>5. ASSUME NEW th \in Threads, Work(th) PROVE Domain'
  BY <1>5, AllocFailsDomain, NewDomain, DeleteDomain, DuplicateDomain DEF Work
<1>6. CASE OwnerWork
  BY <1>6, FailsDomain, NothingDomain, StartSwitchDomain, StartDefaultDomain, SwitchDomain,
     ExitDomain, ReturnToMainDomain DEF OwnerWork
<1> QED BY <1>1, <1>2, <1>3, <1>4, <1>5, <1>6, AcquireDomain, BeginDomain, OwnerBeginDomain
        DEF Next

LEMMA DomainHolds == Spec => [](Control /\ Domain)
  BY InitControl, InitDomain, NextControl, NextDomain, PTL DEF Spec

(* The variables keep their types; no count goes below zero.               *)
THEOREM LockingTypeCorrect == Spec => []TypeOK
<1>1. Control /\ Domain => TypeOK
  BY DEF Control, ControlTypes, CallTypes, Domain, DomainTypes, TypeOK
<1> QED BY <1>1, DomainHolds, PTL

(* No saved stack is leaked or freed early, whichever threads share it.    *)
THEOREM CountsExactHolds == Spec => []CountsExact
<1>1. ASSUME Control, Domain, NEW s \in Stacks
      PROVE  refcount[s] = Cardinality({t \in live : saved[t] = s})
  <2>1. \A t \in Tealets \ live : saved[t] = NoStack
    BY <1>1 DEF Domain, Handles
  <2>2. s # NoStack /\ live \subseteq Tealets
    BY <1>1 DEF Domain, DomainTypes
  <2>3. {t \in live : saved[t] = s} = {t \in Tealets : saved[t] = s}
    BY <2>1, <2>2
  <2>4. refcount[s] = Cardinality({t \in Tealets : saved[t] = s})
    BY <1>1 DEF Domain, Counted, Count
  <2> QED BY <2>3, <2>4
<1>2. Control /\ Domain => CountsExact
  BY <1>1 DEF CountsExact
<1> QED BY <1>2, DomainHolds, PTL

---------------------------------------------------------------------------
(* What other threads can tell of the tealets.                             *)

(* Phase without the counts, which say nothing more. *)
View(t) ==
  IF t \notin live THEN "free"
  ELSE IF t = g_current THEN "running"
  ELSE IF flags[t] = {} \/ BeingStarted(t) THEN "new"
  ELSE IF "EXITED" \in flags[t] THEN "exited"
  ELSE IF saved[t] # NoStack THEN "suspended" ELSE "hollow"

LEMMA PhaseIsView == Control /\ Domain => Phase = [t \in Tealets |-> View(t)]
<1> SUFFICES ASSUME Control, Domain, NEW t \in Tealets
             PROVE  saved[t] \in Stacks /\ refcount[saved[t]] > 0 <=> saved[t] # NoStack
  BY DEF Phase, View
<1>1. saved[t] \in Stacks <=> saved[t] # NoStack
  BY DEF Control, ControlTypes
<1>2. ASSUME saved[t] \in Stacks PROVE refcount[saved[t]] > 0
  BY <1>2, CountHeld DEF Domain, Counted
<1> QED BY <1>1, <1>2

LEMMA PhaseIsViewNext == (Control /\ Domain => Phase = [t \in Tealets |-> View(t)])'
  BY PhaseIsView, PTL

LEMMA NextBoth == Control /\ Domain /\ [Next]_vars => (Control /\ Domain)'
  BY NextControl, NextDomain

(* Steps that do not end the locked part of a call are not visible.        *)
LEMMA QuietView ==
  ASSUME Control, Domain, (Control /\ Domain)', UNCHANGED <<live, saved, g_current>>,
         \A t \in live : flags'[t] = flags[t] \/ (flags[t] = {} /\ BeingStarted(t)'),
         \A t \in live : flags[t] # {} => BeingStarted(t)' = BeingStarted(t)
  PROVE  Phase' = Phase
<1>1. \A t \in Tealets : View(t)' = View(t)
  BY DEF View
<1>2. Phase = [t \in Tealets |-> View(t)]
  BY PhaseIsView
<1>3. Phase' = [t \in Tealets |-> View(t)']
  BY PhaseIsViewNext
<1> QED BY <1>1, <1>2, <1>3

LEMMA BeginQuiet ==
  ASSUME Control, Domain, (Control /\ Domain)', NEW th \in Threads, NEW op \in Ops,
         NEW t \in Tealets \cup {NoTealet}, Begins(th, op, t),
         op \in Starts => th = Owner /\ flags[t] = {} /\ flags' = [flags EXCEPT ![t] = {"BOUND"}],
         op \notin Starts => flags' = flags
  PROVE  Phase' = Phase
<1>1. /\ call'[th].at = "lock" /\ call'[th].on = t /\ call'[th].op = op
      /\ \A o \in Threads \ {th} : call'[o] = call[o]
  <2>1. Call(op, t, "lock") \in CallTypes
    BY CallKinds
  <2>2. call'[th] = Call(op, t, "lock") /\ \A o \in Threads \ {th} : call'[o] = call[o]
    BY <2>1, CallBecomes DEF Begins, Control
  <2> QED BY <2>2, CallKinds
<1>2. th = Owner => \A u \in Tealets : ~BeingStarted(u)
  BY CallKinds DEF Begins, InUser, BeingStarted
<1>3. UNCHANGED <<live, saved, g_current>> /\ flags \in [Tealets -> SUBSET {"BOUND", "EXITED"}]
      /\ live \subseteq Tealets
  BY DEF Begins, Domain, DomainTypes
<1>4. CASE op \in Starts
  <2>1. BeingStarted(t)' /\ \A u \in Tealets \ {t} : ~BeingStarted(u)'
    BY <1>1, <1>4 DEF BeingStarted
  <2>2. \A u \in live : u = t \/ flags'[u] = flags[u]
    BY <1>3, <1>4
  <2>3. \A u \in live : flags'[u] = flags[u] \/ (flags[u] = {} /\ BeingStarted(u)')
    BY <1>4, <2>1, <2>2
  <2>4. \A u \in live : flags[u] # {} => BeingStarted(u)' = BeingStarted(u)
    BY <1>2, <1>3, <1>4, <2>1 DEF BeingStarted
  <2> QED BY <1>3, <2>3, <2>4, QuietView
<1>5. CASE op \notin Starts
  <2>1. \A u \in Tealets : BeingStarted(u)' = BeingStarted(u)
    BY <1>1, <1>2, <1>5 DEF BeingStarted
  <2> QED BY <1>3, <1>5, <2>1, QuietView
<1> QED BY <1>4, <1>5

LEMMA OthersQuietly ==
  ASSUME Control, Domain, [Next]_vars, ~OwnerWork, \A th \in Threads : ~Work(th)
  PROVE  Phase' = Phase
<1>1. (Control /\ Domain)'
  BY NextBoth
<1>2. ASSUME UNCHANGED domain,
             \A t \in Tealets : BeingStarted(t)' = BeingStarted(t)
      PROVE  Phase' = Phase
  BY <1>1, <1>2, QuietView DEF Domain, DomainTypes, domain
<1>3. ASSUME NEW m \in {"OFF", "AUTO"}, Configure(m) PROVE Phase' = Phase
  BY <1>2, <1>3 DEF Configure, BeingStarted
<1>4. ASSUME NEW th \in Threads, Lock(th) \/ Unlock(th) PROVE Phase' = Phase
  BY <1>2, <1>4 DEF Lock, Unlock, BeingStarted
<1>5. ASSUME NEW th \in Threads, Return(th) \/ (th = Owner /\ EnterRun) PROVE Phase' = Phase
  <2>1. call' = [call EXCEPT ![th] = NoCall] /\ call[th].at \in Resumptions /\ UNCHANGED domain
    BY <1>5 DEF Return, EnterRun, Resumptions
  <2>2. \A t \in Tealets : BeingStarted(t)' = BeingStarted(t)
    BY <2>1, CallKinds DEF BeingStarted, Control, ControlTypes, Resumptions
  <2> QED BY <1>2, <2>1, <2>2
<1>6. ASSUME NEW th \in Threads, Acquire(th) PROVE Phase' = Phase
  <2>1. /\ call'[th].at = "work" /\ call'[th].op = call[th].op /\ call'[th].on = call[th].on
        /\ \A o \in Threads \ {th} : call'[o] = call[o]
    BY <1>6, GoesOn DEF Acquire, Control, Points
  <2>2. \A t \in Tealets : BeingStarted(t)' = BeingStarted(t)
    BY <1>6, <2>1 DEF Acquire, BeingStarted
  <2> QED BY <1>2, <1>6, <2>2 DEF Acquire
<1>7. ASSUME NEW th \in Threads, Begin(th) \/ OwnerBegin PROVE Phase' = Phase
  BY <1>1, <1>7, BeginQuiet
  DEF Begin, OwnerBegin, BeginNew, BeginDelete, BeginDuplicate, BeginStart, BeginTransfer, BeginDefer,
      Naming, Ops, Starts
<1>8. CASE UNCHANGED vars
  BY <1>2, <1>8 DEF vars, BeingStarted
<1> QED BY <1>3, <1>4, <1>5, <1>6, <1>7, <1>8 DEF Next

LEMMA OthersQuiet ==
  ASSUME Control, Domain, [Next]_vars
  PROVE  Phase' = Phase \/ \E th \in Threads : Moves(th)
  BY OthersQuietly, WorkControl, OwnerWorkControl

(* Every call takes effect at one moment, while its thread has the lock.   *)
THEOREM EffectsUnderLockHolds == Spec => EffectsUnderLock
<1>1. ASSUME Control, NEW th \in Threads, Moves(th)
      PROVE  holder = th /\ call[th].at = "work" /\ call'[th] # call[th]
  BY <1>1 DEF Control, Locked, Moves, Inside, Resumptions
<1>2. Control /\ Domain /\ [Next]_vars
        => [Phase' # Phase =>
              \E th \in Threads : holder = th /\ call[th].at = "work" /\ call'[th] # call[th]]_vars
  BY <1>1, OthersQuiet
<1> QED BY <1>2, DomainHolds, PTL DEF Spec, EffectsUnderLock

---------------------------------------------------------------------------
(* The coroutines that the threads see.  From here on, no thread           *)
(* duplicates a tealet that the owner is starting.                         *)

LEMMA StillStarted ==
  ASSUME Control, NEW th \in Threads, Moves(th), th # Owner \/ call[th].op \notin Starts
  PROVE  \A u \in Tealets : BeingStarted(u)' = BeingStarted(u)
  BY DEF Moves, BeingStarted, Resumptions

LEMMA NoneStarted ==
  ASSUME Moves(Owner)
  PROVE  /\ \A u \in Tealets : ~BeingStarted(u)'
         /\ \A u \in Tealets : BeingStarted(u) <=> call[Owner].on = u /\ call[Owner].op \in Starts
  BY DEF Moves, BeingStarted, Resumptions

LEMMA PhaseBecomes ==
  ASSUME Control, Domain, (Control /\ Domain)', NEW t \in Tealets, NEW v, View(t)' = v,
         \A u \in Tealets \ {t} : View(u)' = View(u)
  PROVE  Phase' = [Phase EXCEPT ![t] = v]
<1>1. Phase = [u \in Tealets |-> View(u)]
  BY PhaseIsView
<1>2. Phase' = [u \in Tealets |-> View(u)']
  BY PhaseIsViewNext
<1> QED BY <1>1, <1>2

LEMMA PhasesBecome ==
  ASSUME Control, Domain, (Control /\ Domain)', NEW c \in Tealets, NEW t \in Tealets, c # t,
         NEW v, NEW w, View(c)' = v, View(t)' = w,
         \A u \in Tealets \ {c, t} : View(u)' = View(u)
  PROVE  Phase' = [Phase EXCEPT ![c] = v, ![t] = w]
<1>1. Phase = [u \in Tealets |-> View(u)]
  BY PhaseIsView
<1>2. Phase' = [u \in Tealets |-> View(u)']
  BY PhaseIsViewNext
<1> QED BY <1>1, <1>2

LEMMA QuietWork ==
  ASSUME Control, Domain, (Control /\ Domain)', NEW th \in Threads,
         AllocFails(th) \/ (th = Owner /\ (Fails \/ SwitchToSelf \/ Defer))
  PROVE  Phase' = Phase
<1>1. Moves(th)
  BY WorksMoves DEF AllocFails, Fails, SwitchToSelf, Defer, Control
<1>2. UNCHANGED <<live, saved, g_current>>
  BY DEF AllocFails, Fails, SwitchToSelf, Defer, domain
<1>3. CASE th = Owner /\ Fails /\ call[th].op \in Starts
  <2>1. PICK t \in Tealets : t = call[Owner].on /\ t \in live /\ t # g_current
    BY <1>3 DEF Fails, Works, Domain, CallsInOrder, DomainTypes, Pending
  <2>2. flags' = [flags EXCEPT ![t] = {}]
    BY <1>3, <2>1 DEF Fails
  <2>3. \A u \in Tealets : ~BeingStarted(u)' /\ (BeingStarted(u) <=> u = t)
    BY <1>1, <1>3, <2>1, NoneStarted
  <2>4. \A u \in Tealets : View(u)' = View(u)
    BY <1>2, <2>1, <2>2, <2>3 DEF View, Domain, DomainTypes
  <2>5. Phase' = [Phase EXCEPT ![t] = View(t)]
    BY <2>1, <2>4, PhaseBecomes
  <2>6. Phase = [u \in Tealets |-> View(u)]
    BY PhaseIsView
  <2> QED BY <2>5, <2>6
<1>4. CASE ~(th = Owner /\ Fails /\ call[th].op \in Starts)
  <2>1. flags' = flags
    BY <1>4 DEF AllocFails, Fails, SwitchToSelf, Defer, domain
  <2>2. th # Owner \/ call[th].op \notin Starts
    BY <1>4 DEF AllocFails, Fails, SwitchToSelf, Defer, Works, Starts
  <2> QED BY <1>1, <1>2, <2>1, <2>2, StillStarted, QuietView DEF Domain, DomainTypes
<1> QED BY <1>3, <1>4

LEMMA NewIsNew ==
  ASSUME Control, Domain, (Control /\ Domain)', NEW th \in Threads, NEW t \in Tealets, New(th, t)
  PROVE  C!New(t)
<1>1. Moves(th) /\ call[th].op \notin Starts
  BY WorksMoves DEF New, Works, Control, Starts
<1>2. \A u \in Tealets : BeingStarted(u)' = BeingStarted(u)
  BY <1>1, StillStarted
<1>3. live' = live \cup {t} /\ UNCHANGED <<flags, saved, g_current>> /\ t \notin live
  BY DEF New
<1>4. Phase = [u \in Tealets |-> View(u)]
  BY PhaseIsView
<1>5. View(t) = "free" /\ View(t)' = "new" /\ \A u \in Tealets \ {t} : View(u)' = View(u)
  BY <1>2, <1>3 DEF View, Domain, Handles
<1>6. Phase' = [Phase EXCEPT ![t] = "new"]
  BY <1>5, PhaseBecomes
<1> QED BY <1>4, <1>5, <1>6 DEF C!New

LEMMA DeleteIsDelete ==
  ASSUME Control, Domain, (Control /\ Domain)', NEW th \in Threads, Delete(th)
  PROVE  \E t \in Tealets : C!Delete(t)
<1>1. Moves(th) /\ call[th].op \notin Starts
  BY WorksMoves DEF Delete, Works, Control, Starts
<1>2. \A u \in Tealets : BeingStarted(u)' = BeingStarted(u)
  BY <1>1, StillStarted
<1>3. PICK t \in Tealets : t = call[th].on /\ t \in live \ {Main, g_current}
  BY DEF Delete, Works, Domain, CallsInOrder, DomainTypes, Pending
<1>4. /\ live' = live \ {t} /\ g_current' = g_current
      /\ flags' = [flags EXCEPT ![t] = {}] /\ saved' = [saved EXCEPT ![t] = NoStack]
  BY <1>3 DEF Delete
<1>5. Phase = [u \in Tealets |-> View(u)]
  BY PhaseIsView
<1>6. View(t) # "running" /\ View(t)' = "free"
  BY <1>3, <1>4 DEF View
<1>7. \A u \in Tealets \ {t} : View(u)' = View(u)
  <2>1. \A u \in Tealets \ {t} : flags'[u] = flags[u] /\ saved'[u] = saved[u]
    BY <1>4 DEF Domain, DomainTypes, Control, ControlTypes
  <2> QED BY <1>2, <1>4, <2>1 DEF View
<1>8. Phase' = [Phase EXCEPT ![t] = "free"]
  BY <1>3, <1>6, <1>7, PhaseBecomes
<1>9. C!Delete(t)
  BY <1>3, <1>5, <1>6, <1>8 DEF C!Delete
<1> QED BY <1>3, <1>9

LEMMA DuplicateIsDuplicate ==
  ASSUME Control, Domain, (Control /\ Domain)', ~Sharing,
         NEW th \in Threads, NEW copy \in Tealets, Duplicate(th, copy)
  PROVE  \E t \in Tealets : C!Duplicate(t, copy)
<1>1. Moves(th) /\ call[th].op \notin Starts
  BY WorksMoves DEF Duplicate, Works, Control, Starts
<1>2. \A u \in Tealets : BeingStarted(u)' = BeingStarted(u)
  BY <1>1, StillStarted
<1>3. PICK t \in Tealets : t = call[th].on /\ t \in live \ {Main, g_current} /\ copy \notin live
  BY DEF Duplicate, Works, Domain, CallsInOrder, DomainTypes, Pending
<1>4. /\ live' = live \cup {copy} /\ g_current' = g_current
      /\ flags' = [flags EXCEPT ![copy] = flags[t]] /\ saved' = [saved EXCEPT ![copy] = saved[t]]
  BY <1>3 DEF Duplicate
<1>5. ~BeingStarted(t)
  BY <1>1, <1>3 DEF BeingStarted, Moves, Domain, Apart, Pending
<1>6. ~BeingStarted(copy)
  BY <1>3 DEF BeingStarted, Domain, CallsInOrder, Pending
<1>7. g_current \in live
  BY DEF Domain, Handles
<1>8. Phase = [u \in Tealets |-> View(u)]
  BY PhaseIsView
<1>9. View(copy)' = View(t) /\ View(copy) = "free" /\ View(t) \notin {"free", "running"}
  BY <1>2, <1>3, <1>4, <1>5, <1>6, <1>7 DEF View, Domain, DomainTypes, Control, ControlTypes
<1>10. \A u \in Tealets \ {copy} : View(u)' = View(u)
  BY <1>2, <1>3, <1>4 DEF View, Domain, DomainTypes, Control, ControlTypes
<1>11. Phase' = [Phase EXCEPT ![copy] = View(t)]
  BY <1>9, <1>10, PhaseBecomes
<1>12. C!Duplicate(t, copy)
  BY <1>3, <1>8, <1>9, <1>11 DEF C!Duplicate
<1> QED BY <1>3, <1>12

(* No transfer is forced: none is lost. *)
LEMMA NothingLost ==
  /\ C!Victims = {}
  /\ \A t \in Tealets : {} \in SUBSET (C!Victims \ {t})
  /\ C!Losing({}) = Phase
<1>1. Phase = [t \in Tealets |-> Phase[t]]
  BY DEF Phase
<1>2. C!Losing({}) = [t \in Tealets |-> Phase[t]]
  BY DEF C!Losing
<1> QED BY <1>1, <1>2 DEF C!Victims

LEMMA StartSwitchIsStart ==
  ASSUME Control, Domain, (Control /\ Domain)', NEW s \in Stacks, StartSwitch(s)
  PROVE  \E c, t \in Tealets : C!Start(c, t)
<1>1. Moves(Owner)
  BY OwnerWorkControl DEF OwnerWork
<1>2. PICK t \in Tealets : t = call[Owner].on /\ t \in live /\ t # g_current /\ flags[t] = {"BOUND"}
  BY DEF StartSwitch, Works, Domain, CallsInOrder, DomainTypes, Pending, Starts
<1>3. PICK c \in Tealets : c = g_current /\ c \in live /\ flags[c] = {"BOUND"}
  BY DEF Control, ControlTypes, Domain, Handles
<1>4. /\ UNCHANGED <<live, flags>> /\ g_current' = t /\ saved' = [saved EXCEPT ![c] = s]
  BY <1>2, <1>3 DEF StartSwitch, Saves
<1>5. \A u \in Tealets : ~BeingStarted(u)' /\ (BeingStarted(u) <=> u = t)
  BY <1>1, <1>2, NoneStarted DEF StartSwitch, Works, Starts
<1>6. Phase = [u \in Tealets |-> View(u)]
  BY PhaseIsView
<1>7. View(c) = "running" /\ View(c)' = "suspended"
  BY <1>2, <1>3, <1>4, <1>5 DEF View, Control, ControlTypes
<1>8. View(t) = "new" /\ View(t)' = "running"
  BY <1>2, <1>4, <1>5 DEF View
<1>9. \A u \in Tealets \ {c, t} : View(u)' = View(u)
  BY <1>3, <1>4, <1>5 DEF View, Control, ControlTypes
<1>10. Phase' = [Phase EXCEPT ![c] = "suspended", ![t] = "running"]
  <2>1. c # t
    BY <1>2, <1>3
  <2> QED BY <2>1, <1>7, <1>8, <1>9, PhasesBecome
<1>11. C!Start(c, t)
  BY <1>6, <1>7, <1>8, <1>10 DEF C!Start
<1> QED BY <1>11

LEMMA StartDefaultIsStart ==
  ASSUME Control, Domain, (Control /\ Domain)', NEW s \in Stacks, StartDefault(s)
  PROVE  \E c, t \in Tealets : C!Start(c, t)
<1>1. Moves(Owner)
  BY OwnerWorkControl DEF OwnerWork
<1>2. PICK t \in Tealets : t = call[Owner].on /\ t \in live /\ t # g_current /\ flags[t] = {"BOUND"}
  BY DEF StartDefault, Works, Domain, CallsInOrder, DomainTypes, Pending, Starts
<1>3. PICK c \in Tealets : c = g_current /\ c \in live
  BY DEF Control, ControlTypes, Domain, Handles
<1>4. /\ UNCHANGED <<live, flags, g_current>> /\ saved' = [saved EXCEPT ![t] = s]
  BY <1>2 DEF StartDefault, Saves
<1>5. \A u \in Tealets : ~BeingStarted(u)' /\ (BeingStarted(u) <=> u = t)
  BY <1>1, <1>2, NoneStarted DEF StartDefault, Works, Starts
<1>6. Phase = [u \in Tealets |-> View(u)]
  BY PhaseIsView
<1>7. View(c) = "running"
  BY <1>3 DEF View
<1>8. View(t) = "new" /\ View(t)' = "suspended"
  BY <1>2, <1>4, <1>5 DEF View, Control, ControlTypes
<1>9. \A u \in Tealets \ {t} : View(u)' = View(u)
  BY <1>4, <1>5 DEF View, Control, ControlTypes
<1>10. Phase' = [Phase EXCEPT ![t] = "suspended"]
  BY <1>8, <1>9, PhaseBecomes
<1>11. C!Start(c, t)
  BY <1>6, <1>7, <1>8, <1>10 DEF C!Start
<1> QED BY <1>11

LEMMA SwitchIsSwitch ==
  ASSUME Control, Domain, (Control /\ Domain)', NEW s \in Stacks, Switch(s)
  PROVE  \E c, t \in Tealets : C!Switch(c, t)
<1>1. Moves(Owner)
  BY OwnerWorkControl DEF OwnerWork
<1>2. call[Owner].on \in Tealets
  BY DEF Switch, Works, Control, ControlTypes, Pending, Naming, Ops, Starts
<1>3. PICK t \in Tealets : t = call[Owner].on /\ t # g_current /\ flags[t] = {"BOUND"}
                             /\ saved[t] # NoStack
  BY <1>2 DEF Switch, CanResume
<1>4. PICK c \in Tealets : c = g_current /\ c \in live /\ flags[c] = {"BOUND"}
  BY DEF Control, ControlTypes, Domain, Handles
<1>5. t \in live
  BY <1>3 DEF Domain, Handles
<1>6. UNCHANGED <<live, flags>> /\ g_current' = t /\ saved' = [saved EXCEPT ![c] = s, ![t] = NoStack]
  BY <1>3, <1>4 DEF Switch
<1>7. \A u \in Tealets : ~BeingStarted(u)' /\ ~BeingStarted(u)
  BY <1>1, NoneStarted DEF Switch, Works, Starts
<1>8. Phase = [u \in Tealets |-> View(u)]
  BY PhaseIsView
<1>9. View(c) = "running" /\ View(c)' = "suspended"
  BY <1>3, <1>4, <1>6, <1>7 DEF View, Control, ControlTypes
<1>10. View(t) = "suspended" /\ View(t)' = "running"
  BY <1>3, <1>5, <1>6, <1>7 DEF View
<1>11. \A u \in Tealets \ {c, t} : View(u)' = View(u)
  BY <1>4, <1>6, <1>7 DEF View, Control, ControlTypes
<1>12. Phase' = [Phase EXCEPT ![c] = "suspended", ![t] = "running"]
  <2>1. c # t
    BY <1>3, <1>4
  <2> QED BY <2>1, <1>9, <1>10, <1>11, PhasesBecome
<1>13. C!Switch(c, t)
  BY <1>8, <1>9, <1>10, <1>12, NothingLost DEF C!Switch
<1> QED BY <1>13

LEMMA ExitsToIsExit ==
  ASSUME Control, Domain, (Control /\ Domain)', Moves(Owner), call[Owner].op \notin Starts,
         NEW t \in Tealets, NEW n, NEW deleted \in BOOLEAN,
         t # g_current, flags[t] = {"BOUND"}, g_current # Main, ExitsTo(t, n, deleted)
  PROVE  \E c, u \in Tealets : C!Exit(c, u)
<1>1. PICK c \in Tealets : c = g_current /\ c \in live
  BY DEF Control, ControlTypes, Domain, Handles
<1>2. t \in live /\ saved[t] # NoStack
  BY DEF ExitsTo, Domain, Handles
<1>3. /\ live' = IF deleted THEN live \ {c} ELSE live
      /\ flags' = [flags EXCEPT ![c] = IF deleted THEN {} ELSE {"BOUND", "EXITED"}]
      /\ saved' = [saved EXCEPT ![t] = NoStack] /\ g_current' = t
  BY <1>1 DEF ExitsTo
<1>4. \A u \in Tealets : ~BeingStarted(u)' /\ ~BeingStarted(u)
  BY NoneStarted
<1>5. Phase = [u \in Tealets |-> View(u)]
  BY PhaseIsView
<1>6. PICK end \in {"exited", "free"} : View(c)' = end
  BY <1>1, <1>3, <1>4 DEF View, Domain, DomainTypes
<1>7. View(c) = "running"
  BY <1>1 DEF View
<1>8. View(t) = "suspended" /\ View(t)' = "running"
  BY <1>1, <1>2, <1>3, <1>4 DEF View
<1>9. \A u \in Tealets \ {c, t} : View(u)' = View(u)
  BY <1>1, <1>3, <1>4 DEF View, Control, ControlTypes, Domain, DomainTypes
<1>10. Phase' = [Phase EXCEPT ![c] = end, ![t] = "running"]
  BY <1>1, <1>6, <1>8, <1>9, PhasesBecome
<1>11. C!Exit(c, t)
  BY <1>1, <1>5, <1>7, <1>8, <1>10, NothingLost DEF C!Exit
<1> QED BY <1>11

LEMMA ExitIsExit ==
  ASSUME Control, Domain, (Control /\ Domain)', NEW deleted \in BOOLEAN,
         Exit(deleted) \/ ReturnToMain(deleted)
  PROVE  \E c, u \in Tealets : C!Exit(c, u)
<1>1. Moves(Owner) /\ call[Owner].op \notin Starts
  BY OwnerWorkControl DEF OwnerWork, Exit, ReturnToMain, Works, Starts
<1>2. g_current # Main /\ flags[Main] = {"BOUND"}
  BY DEF Exit, ReturnToMain, Works, Domain, Handles, CallsInOrder, Pending
<1>3. call[Owner].on \in Tealets
  BY DEF Exit, ReturnToMain, Works, Control, ControlTypes, Pending, Naming, Ops, Starts
<1>4. CASE Exit(deleted)
  <2>1. PICK t \in Tealets : t = call[Owner].on /\ t # g_current /\ flags[t] = {"BOUND"}
                               /\ ExitsTo(t, seen[Owner], deleted)
    BY <1>3, <1>4 DEF Exit, CanResume
  <2> QED BY <1>1, <1>2, <2>1, ExitsToIsExit
<1>5. CASE ReturnToMain(deleted)
  <2>1. PICK n : ExitsTo(Main, n, deleted)
    BY <1>5 DEF ReturnToMain
  <2> QED BY <1>1, <1>2, <2>1, ExitsToIsExit
<1> QED BY <1>4, <1>5

(* Every step of the threads is one of the coroutines, or invisible.       *)
LEMMA NextImplements ==
  ASSUME ~Sharing, Control, Domain, [Next]_vars
  PROVE  [C!Next]_Phase
<1>1. (Control /\ Domain)'
  BY NextBoth
<1>2. ASSUME NEW th \in Threads, Work(th) PROVE [C!Next]_Phase
  BY <1>1, <1>2, QuietWork, NewIsNew, DeleteIsDelete, DuplicateIsDuplicate DEF Work, C!Next
<1>3. CASE OwnerWork
  <2>1. Fails \/ SwitchToSelf \/ Defer => Phase' = Phase
    BY <1>1, QuietWork
  <2> QED BY <1>1, <1>3, <2>1, StartSwitchIsStart, StartDefaultIsStart, SwitchIsSwitch, ExitIsExit
          DEF OwnerWork, C!Next
<1>4. CASE ~OwnerWork /\ \A th \in Threads : ~Work(th)
  BY <1>4, OthersQuietly
<1> QED BY <1>2, <1>3, <1>4

(* The calls of any number of threads implement the coroutines that        *)
(* Transfer and StackSlicing implement, if none duplicates a tealet that   *)
(* the owner is starting.                                                  *)
THEOREM LockingImplementsCoroutines == ASSUME ~Sharing PROVE Spec => ImplementsCoroutines
<1>1. Init => C!Init
  BY DEF Init, C!Init, Phase, BeingStarted, NoCall
<1>2. Control /\ Domain /\ [Next]_vars => [C!Next]_Phase
  BY NextImplements
<1> QED BY <1>1, <1>2, DomainHolds, PTL DEF Spec, ImplementsCoroutines, C!Spec

(* No tealet is hollow, because no coroutine is.                           *)
NoneHollow == \A t \in Tealets : Phase[t] # "hollow"

LEMMA NextNoneHollow ==
  ASSUME ~Sharing, Control, Domain, NoneHollow, [Next]_vars
  PROVE  NoneHollow'
<1>1. [C!Next]_Phase
  BY NextImplements
<1>2. Phase = [t \in Tealets |-> Phase[t]]
  BY DEF Phase
<1>3. \A lost : C!Losing(lost) = [t \in Tealets |-> IF t \in lost THEN "lost" ELSE Phase[t]]
  BY DEF C!Losing
<1>4. CASE Phase' = Phase
  BY <1>4 DEF NoneHollow
<1>5. ASSUME NEW c \in Tealets, NEW t \in Tealets,
             C!New(t) \/ C!Delete(t) \/ C!Start(c, t) \/ C!Duplicate(c, t)
      PROVE  NoneHollow'
  BY <1>2, <1>5 DEF NoneHollow, C!New, C!Delete, C!Start, C!Duplicate
<1>6. ASSUME NEW c \in Tealets, NEW t \in Tealets, C!Switch(c, t) \/ C!Exit(c, t)
      PROVE  NoneHollow'
  BY <1>3, <1>6 DEF NoneHollow, C!Switch, C!Exit
<1>7. CASE C!Sacrifice
  BY <1>3, <1>7 DEF NoneHollow, C!Sacrifice
<1> QED BY <1>1, <1>4, <1>5, <1>6, <1>7 DEF C!Next

(* A tealet that reports TEALET_STATUS_ACTIVE can be resumed.              *)
THEOREM ActiveHasStackHolds == ASSUME ~Sharing PROVE Spec => []ActiveHasStack
<1>1. Init => NoneHollow
  BY DEF Init, NoneHollow, Phase, BeingStarted, NoCall
<1>2. Control /\ Domain /\ NoneHollow /\ [Next]_vars => NoneHollow'
  BY NextNoneHollow
<1>3. ASSUME Control, Domain, NoneHollow PROVE ActiveHasStack
  <2> SUFFICES ASSUME NEW t \in live \ {g_current}, flags[t] = {"BOUND"}, ~BeingStarted(t)
               PROVE  saved[t] # NoStack
    BY DEF ActiveHasStack
  <2>1. t \in Tealets
    BY <1>3 DEF Domain, DomainTypes
  <2>2. View(t) # "hollow"
    BY <1>3, <2>1, PhaseIsView DEF NoneHollow
  <2> QED BY <2>2 DEF View
<1> QED BY <1>1, <1>2, <1>3, DomainHolds, PTL DEF Spec

=============================================================================
