------------------------------ MODULE Locking ------------------------------
(***************************************************************************)
(* The locks of a domain (src/src/tealet.c, tealet_lock_t).  One thread,   *)
(* the owner, runs the tealets; other threads make, duplicate and delete   *)
(* them meanwhile.  In TEALET_LOCK_AUTO mode the API takes the configured  *)
(* lock itself.  In TEALET_LOCK_OFF mode applications put tealet_lock()    *)
(* and tealet_unlock() around their calls.                                 *)
(*                                                                         *)
(* What is hard about it: a transfer takes the lock in one call and leaves *)
(* it in another, that of the tealet that resumes, or in the code that     *)
(* enters run() for the first time.  And saved stacks are shared by count, *)
(* so two threads that use two different handles may meet in one count.    *)
(*                                                                         *)
(* The lock is the application's: a mutex that need not be recursive.      *)
(***************************************************************************)
EXTENDS FiniteSets, Integers

CONSTANTS
  Threads,    \* the threads that hold handles of the domain
  Owner,      \* the one that runs its tealets
  Nobody,     \* the holder of a free lock
  Tealets,    \* tealet handles
  Main,       \* the main tealet
  NoTealet,   \* the NULL handle
  Stacks,     \* heap blocks for saved stacks
  NoStack,    \* the NULL stack
  Sharing     \* whether a thread duplicates tealets that the owner starts

ASSUME LockingAssumption ==
  /\ IsFiniteSet(Tealets)
  /\ Owner \in Threads /\ Nobody \notin Threads
  /\ Main \in Tealets /\ NoTealet \notin Tealets
  /\ NoStack \notin Stacks
  /\ Sharing \in BOOLEAN

VARIABLES
  mode,       \* g_locking.mode
  holder,     \* the thread that holds the lock, or Nobody
  bracket,    \* each thread's tealet_lock() ... tealet_unlock()
  call,       \* the call each thread is in, and how far it is
  seen,       \* the reference count that call has read
  live,       \* the handles in use
  flags,      \* TEALET_TFLAGS_BOUND and _EXITED of each
  saved,      \* its saved stack
  refcount,   \* how many tealets share each saved stack, 0 if free
  resumes,    \* the code each saved stack continues in
  g_current   \* the tealet that runs

domain == <<live, flags, saved, refcount, resumes, g_current>>
vars == <<mode, holder, bracket, call, seen, domain>>

---------------------------------------------------------------------------
(* A bracket is open ("held") until the one call in it returns ("used").   *)
Brackets == {"none", "held", "used"}

(* "run" and "fork" start a tealet that is then switched to, "prime" and   *)
(* "capture" are the same calls with TEALET_START_DEFAULT, "return" is the *)
(* tealet_exit() after run(), "defer" one with TEALET_EXIT_DEFER.          *)
Starts == {"run", "fork", "prime", "capture"}
Ops == Starts \cup {"new", "delete", "duplicate", "switch", "exit", "return", "defer"}

(* Where a call is: it waits for the lock, holds it, is about to return,   *)
(* or is about to enter run(), in tealet_initialstub().                    *)
Points == {"lock", "work", "epilogue", "trampoline"}
Resumptions == {"epilogue", "trampoline"}

NoCall == [op |-> "none", on |-> NoTealet, at |-> "user"]
Call(op, t, at) == [op |-> op, on |-> t, at |-> at]
Resumed(at) == Call("switch", NoTealet, at)

InUser(th) == call[th] = NoCall
Goes(th, at) == call' = [call EXCEPT ![th].at = at]

(* Handles are handed from thread to thread by the application, so that no *)
(* other thread passes t to a call meanwhile.                              *)
Unused(th, t) == \A other \in Threads \ {th} : call[other].on # t

(* The owner is about to start t with TEALET_START_DEFAULT.                *)
BeingPrimed(t) ==
  call[Owner].on = t /\ call[Owner].op \in {"prime", "capture"}
    /\ call[Owner].at \in {"lock", "work"}

(* tealet_run() and tealet_fork() have marked t, and not captured it yet.  *)
BeingStarted(t) ==
  call[Owner].on = t /\ call[Owner].op \in Starts /\ call[Owner].at \in {"lock", "work"}

Init ==
  /\ mode = "OFF"
  /\ holder = Nobody
  /\ bracket = [th \in Threads |-> "none"]
  /\ call = [th \in Threads |-> NoCall]
  /\ seen = [th \in Threads |-> 0]
  /\ live = {Main}
  /\ flags = [t \in Tealets |-> IF t = Main THEN {"BOUND"} ELSE {}]
  /\ saved = [t \in Tealets |-> NoStack]
  /\ refcount = [s \in Stacks |-> 0]
  /\ resumes = [s \in Stacks |-> "epilogue"]
  /\ g_current = Main

(* Mutant: the callbacks are exchanged while calls are under way. *)
ConfigureAnytime(m) ==
  /\ mode' = m
  /\ UNCHANGED <<holder, bracket, call, seen, domain>>

(* tealet_configure_set_locking(): before handles are shared, or when no   *)
(* thread is in a call.                                                    *)
Configure(m) ==
  /\ \A th \in Threads : InUser(th) /\ bracket[th] = "none"
  /\ mode' = m
  /\ UNCHANGED <<holder, bracket, call, seen, domain>>

(* tealet_lock() and tealet_unlock().  The lock is not recursive, so that  *)
(* applications that use AUTO mode do not bracket its calls.               *)
Lock(th) ==
  /\ InUser(th)
  /\ bracket[th] = "none"
  /\ mode = "OFF"
  /\ holder = Nobody
  /\ holder' = th
  /\ bracket' = [bracket EXCEPT ![th] = "held"]
  /\ UNCHANGED <<mode, call, seen, domain>>

Unlock(th) ==
  /\ InUser(th)
  /\ bracket[th] # "none"
  /\ holder' = Nobody
  /\ bracket' = [bracket EXCEPT ![th] = "none"]
  /\ UNCHANGED <<mode, call, seen, domain>>

---------------------------------------------------------------------------
(* A call up to where it asks for the lock.                                *)

Begins(th, op, t) ==
  /\ InUser(th)
  /\ bracket[th] = "held" \/ (bracket[th] = "none" /\ mode = "AUTO")
  /\ bracket' = [bracket EXCEPT ![th] = IF @ = "held" THEN "used" ELSE "none"]
  /\ call' = [call EXCEPT ![th] = Call(op, t, "lock")]
  /\ UNCHANGED <<mode, holder, seen, live, saved, refcount, resumes, g_current>>

BeginNew(th) ==
  /\ Begins(th, "new", NoTealet)
  /\ UNCHANGED flags

BeginDelete(th, t) ==
  /\ t \in live \ {Main, g_current}
  /\ Unused(th, t)
  /\ Begins(th, "delete", t)
  /\ UNCHANGED flags

BeginDuplicate(th, t) ==
  /\ t \in live \ {Main, g_current}
  /\ Unused(th, t) \/ (Sharing /\ BeingPrimed(t))
  /\ Begins(th, "duplicate", t)
  /\ UNCHANGED flags

(* tealet_run() and tealet_fork() test and mark the new tealet before they *)
(* take the lock; another is refused without the lock.                     *)
BeginStart(op, t) ==
  /\ t \in live
  /\ flags[t] = {}
  /\ Unused(Owner, t)
  /\ Begins(Owner, op, t)
  /\ flags' = [flags EXCEPT ![t] = {"BOUND"}]

BeginTransfer(op, t) ==
  /\ op \in {"exit", "return"} => g_current # Main
  /\ t \in live
  /\ Unused(Owner, t)
  /\ Begins(Owner, op, t)
  /\ UNCHANGED flags

BeginDefer ==
  /\ g_current # Main
  /\ Begins(Owner, "defer", NoTealet)
  /\ UNCHANGED flags

(* Mutant: the lock is not exclusive. *)
TakesAnyway(th) == holder' = IF mode = "AUTO" THEN th ELSE holder

(* tealet_lock_auto(), tealet_unlock_auto() *)
Takes(th) ==
  IF mode = "AUTO" THEN holder = Nobody /\ holder' = th ELSE UNCHANGED holder

Leaves == holder' = IF mode = "AUTO" THEN Nobody ELSE holder

(* The lock, and the first read of what is shared. *)
Acquire(th) ==
  LET t == call[th].on
  IN  /\ call[th].at = "lock"
      /\ Takes(th)
      /\ Goes(th, "work")
      /\ seen' = [seen EXCEPT ![th] = IF t \in Tealets /\ saved[t] # NoStack
                                      THEN refcount[saved[t]] ELSE 0]
      /\ UNCHANGED <<mode, bracket, domain>>

---------------------------------------------------------------------------
(* What a call does while it holds the lock.                               *)

Works(th, ops) ==
  /\ call[th].at = "work"
  /\ call[th].op \in ops
  /\ UNCHANGED <<mode, holder, bracket, seen>>

(* tealet_alloc() found no memory. *)
AllocFails(th) ==
  /\ Works(th, {"new", "duplicate"})
  /\ Goes(th, "epilogue")
  /\ UNCHANGED domain

New(th, t) ==
  /\ Works(th, {"new"})
  /\ t \notin live
  /\ live' = live \cup {t}
  /\ Goes(th, "epilogue")
  /\ UNCHANGED <<flags, saved, refcount, resumes, g_current>>

(* Mutant: the count is taken down twice. *)
DecrefTwice(th, s) ==
  refcount' = IF s = NoStack THEN refcount ELSE [refcount EXCEPT ![s] = seen[th] - 2]

(* The count read before is written back, one less. *)
Decref(th, s) ==
  refcount' = IF s = NoStack THEN refcount ELSE [refcount EXCEPT ![s] = seen[th] - 1]

Delete(th) ==
  LET t == call[th].on
  IN  /\ Works(th, {"delete"})
      /\ Decref(th, saved[t])
      /\ live' = live \ {t}
      /\ flags' = [flags EXCEPT ![t] = {}]
      /\ saved' = [saved EXCEPT ![t] = NoStack]
      /\ Goes(th, "epilogue")
      /\ UNCHANGED <<resumes, g_current>>

(* Mutant: a duplicate does not count. *)
DuplicateUncounted(th, copy) ==
  LET t == call[th].on
  IN  /\ Works(th, {"duplicate"})
      /\ copy \notin live
      /\ live' = live \cup {copy}
      /\ flags' = [flags EXCEPT ![copy] = flags[t]]
      /\ saved' = [saved EXCEPT ![copy] = saved[t]]
      /\ Goes(th, "epilogue")
      /\ UNCHANGED <<refcount, resumes, g_current>>

Duplicate(th, copy) ==
  LET t == call[th].on
      s == saved[t]
  IN  /\ Works(th, {"duplicate"})
      /\ copy \notin live
      /\ live' = live \cup {copy}
      /\ flags' = [flags EXCEPT ![copy] = flags[t]]
      /\ saved' = [saved EXCEPT ![copy] = s]
      /\ refcount' = IF s = NoStack THEN refcount ELSE [refcount EXCEPT ![s] = seen[th] + 1]
      /\ Goes(th, "epilogue")
      /\ UNCHANGED <<resumes, g_current>>

(* Mutant: a start that failed keeps its mark. *)
FailsMarked ==
  /\ Works(Owner, Starts \cup {"switch", "exit"})
  /\ Goes(Owner, "epilogue")
  /\ UNCHANGED domain

(* A start or a transfer could not save its stack, or a transfer was       *)
(* refused; a start takes its mark back.  run() returning never fails.     *)
Fails ==
  LET c == call[Owner]
  IN  /\ Works(Owner, Starts \cup {"switch", "exit"})
      /\ flags' = IF c.op \in Starts THEN [flags EXCEPT ![c.on] = {}] ELSE flags
      /\ Goes(Owner, "epilogue")
      /\ UNCHANGED <<live, saved, refcount, resumes, g_current>>

(* t is saved in the block s and will continue at the point at. *)
Saves(t, s, at) ==
  /\ refcount[s] = 0
  /\ saved' = [saved EXCEPT ![t] = s]
  /\ refcount' = [refcount EXCEPT ![s] = 1]
  /\ resumes' = [resumes EXCEPT ![s] = at]

(* The creator is suspended and the new tealet enters run(), or goes on    *)
(* where tealet_fork() was called.                                         *)
StartSwitch(s) ==
  /\ Works(Owner, {"run", "fork"})
  /\ Saves(g_current, s, "epilogue")
  /\ g_current' = call[Owner].on
  /\ call' = [call EXCEPT ![Owner] =
                Resumed(IF call[Owner].op = "run" THEN "trampoline" ELSE "epilogue")]
  /\ UNCHANGED <<live, flags>>

(* The new tealet is captured, and the creator goes on. *)
StartDefault(s) ==
  /\ Works(Owner, {"prime", "capture"})
  /\ Saves(call[Owner].on, s, IF call[Owner].op = "prime" THEN "trampoline" ELSE "epilogue")
  /\ Goes(Owner, "epilogue")
  /\ UNCHANGED <<live, flags, g_current>>

CanResume(t) == flags[t] = {"BOUND"} /\ t # g_current

SwitchToSelf ==
  /\ Works(Owner, {"switch"})
  /\ call[Owner].on = g_current
  /\ Goes(Owner, "epilogue")
  /\ UNCHANGED domain

(* tealet_switch(): the lock passes to whatever the target resumes in. *)
Switch(s) ==
  LET t == call[Owner].on
      from == saved[t]
  IN  /\ Works(Owner, {"switch"})
      /\ CanResume(t) /\ from # NoStack
      /\ refcount[s] = 0
      /\ saved' = [saved EXCEPT ![g_current] = s, ![t] = NoStack]
      /\ refcount' = [refcount EXCEPT ![s] = 1, ![from] = seen[Owner] - 1]
      /\ resumes' = [resumes EXCEPT ![s] = "epilogue"]
      /\ g_current' = t
      /\ call' = [call EXCEPT ![Owner] = Resumed(resumes[from])]
      /\ UNCHANGED <<live, flags>>

(* tealet_exit(), with or without TEALET_EXIT_DELETE, to t, having read n  *)
(* of the count of its stack.                                              *)
ExitsTo(t, n, deleted) ==
  LET c == g_current
  IN  /\ saved[t] # NoStack
      /\ live' = IF deleted THEN live \ {c} ELSE live
      /\ flags' = [flags EXCEPT ![c] = IF deleted THEN {} ELSE {"BOUND", "EXITED"}]
      /\ saved' = [saved EXCEPT ![t] = NoStack]
      /\ refcount' = [refcount EXCEPT ![saved[t]] = n - 1]
      /\ g_current' = t
      /\ call' = [call EXCEPT ![Owner] = Resumed(resumes[saved[t]])]
      /\ UNCHANGED resumes

Exit(deleted) ==
  /\ Works(Owner, {"exit", "return"})
  /\ CanResume(call[Owner].on)
  /\ ExitsTo(call[Owner].on, seen[Owner], deleted)

(* run() returned a tealet that cannot be reached: main is. *)
ReturnToMain(deleted) ==
  /\ Works(Owner, {"return"})
  /\ ExitsTo(Main, refcount[saved[Main]], deleted)

(* tealet_exit() with TEALET_EXIT_DEFER leaves flags and argument behind. *)
Defer ==
  /\ Works(Owner, {"defer"})
  /\ Goes(Owner, "epilogue")
  /\ UNCHANGED domain

---------------------------------------------------------------------------
(* The end of a call, or of the call of another tealet that it resumed in. *)
Return(th) ==
  /\ call[th].at = "epilogue"
  /\ Leaves
  /\ call' = [call EXCEPT ![th] = NoCall]
  /\ UNCHANGED <<mode, bracket, seen, domain>>

(* Mutant: run() is entered with the lock held. *)
EnterRunLocked ==
  /\ call[Owner].at = "trampoline"
  /\ call' = [call EXCEPT ![Owner] = NoCall]
  /\ UNCHANGED <<mode, holder, bracket, seen, domain>>

(* tealet_initialstub() leaves the lock and calls run(). *)
EnterRun ==
  /\ call[Owner].at = "trampoline"
  /\ Leaves
  /\ call' = [call EXCEPT ![Owner] = NoCall]
  /\ UNCHANGED <<mode, bracket, seen, domain>>

Work(th) ==
  \/ AllocFails(th) \/ Delete(th)
  \/ \E t \in Tealets : New(th, t) \/ Duplicate(th, t)

OwnerWork ==
  \/ Fails \/ SwitchToSelf \/ Defer
  \/ \E s \in Stacks : StartSwitch(s) \/ StartDefault(s) \/ Switch(s)
  \/ \E deleted \in BOOLEAN : Exit(deleted) \/ ReturnToMain(deleted)

Begin(th) ==
  \/ BeginNew(th)
  \/ \E t \in Tealets : BeginDelete(th, t) \/ BeginDuplicate(th, t)

OwnerBegin ==
  \/ \E t \in Tealets, op \in Starts : BeginStart(op, t)
  \/ \E t \in Tealets, op \in {"switch", "exit", "return"} : BeginTransfer(op, t)
  \/ BeginDefer

Next ==
  \/ \E m \in {"OFF", "AUTO"} : Configure(m)
  \/ \E th \in Threads : Lock(th) \/ Unlock(th) \/ Begin(th) \/ Acquire(th) \/ Work(th) \/ Return(th)
  \/ OwnerBegin \/ OwnerWork \/ EnterRun

(* A thread in a call goes on, and a bracket is closed.  The lock is fair: *)
(* a thread that waits for it does not wait while others take it forever.  *)
Fairness ==
  /\ \A th \in Threads : SF_vars(Acquire(th)) /\ WF_vars(Work(th) \/ Return(th) \/ Unlock(th))
  /\ WF_vars(OwnerWork \/ EnterRun)

Spec == Init /\ [][Next]_vars /\ Fairness
---------------------------------------------------------------------------
TypeOK ==
  /\ mode \in {"OFF", "AUTO"}
  /\ holder \in Threads \cup {Nobody}
  /\ bracket \in [Threads -> Brackets]
  /\ call \in [Threads -> [op : Ops, on : Tealets \cup {NoTealet}, at : Points] \cup {NoCall}]
  /\ seen \in [Threads -> Nat]
  /\ live \subseteq Tealets
  /\ flags \in [Tealets -> SUBSET {"BOUND", "EXITED"}]
  /\ saved \in [Tealets -> Stacks \cup {NoStack}]
  /\ refcount \in [Stacks -> Nat]
  /\ resumes \in [Stacks -> Resumptions]
  /\ g_current \in Tealets

(* tests/test_lock_helpers.h: "tealet run bodies execute with no lock      *)
(* held".  Whichever call took the lock, and wherever control came back,   *)
(* application code that opened no bracket runs without it.                *)
RunsUnlocked ==
  \A th \in Threads : InUser(th) /\ bracket[th] = "none" => holder # th

(* No two threads are in the locked part of a call, in either mode, also   *)
(* when one of the calls was begun by another tealet.                      *)
OneAtWork ==
  \A th, other \in Threads :
    call[th].at \in Points \ {"lock"} /\ call[other].at \in Points \ {"lock"} => th = other

(* Threads that duplicate, delete and resume tealets which share a saved   *)
(* stack lose no count: none is leaked or freed early.                     *)
CountsExact ==
  \A s \in Stacks : refcount[s] = Cardinality({t \in live : saved[t] = s})

(* A tealet that reports TEALET_STATUS_ACTIVE, and is neither running nor  *)
(* in the middle of being started, has a saved stack to resume.            *)
ActiveHasStack ==
  \A t \in live \ {g_current} :
    flags[t] = {"BOUND"} /\ ~BeingStarted(t) => saved[t] # NoStack

(* What other threads can tell of each tealet. *)
Phase ==
  [t \in Tealets |->
     IF t \notin live THEN "free"
     ELSE IF t = g_current THEN "running"
     ELSE IF flags[t] = {} \/ BeingStarted(t) THEN "new"
     ELSE IF "EXITED" \in flags[t] THEN "exited"
     ELSE IF saved[t] \in Stacks /\ refcount[saved[t]] > 0 THEN "suspended" ELSE "hollow"]

(* Every call takes effect at one moment, while its thread has the lock.   *)
EffectsUnderLock ==
  [][Phase' # Phase =>
       \E th \in Threads : holder = th /\ call[th].at = "work" /\ call'[th] # call[th]]_vars

C == INSTANCE Coroutines WITH phase <- Phase, Forcing <- FALSE, Duplicating <- TRUE

(* With any number of threads the domain is the set of coroutines that     *)
(* Transfer implements with one: calls look atomic and none is half done.  *)
ImplementsCoroutines == C!Spec

(* Every call that asks for the lock returns to application code, its own  *)
(* or that of the tealet which it transferred to.                          *)
CallsReturn == \A th \in Threads : call[th].at = "lock" ~> InUser(th)

=============================================================================
