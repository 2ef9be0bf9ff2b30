# TLA+ verification of libtealet

libtealet gives a C program coroutines ("tealets") by *stack slicing*: all of them run
on the one C stack, and a transfer copies to the heap only the part of the outgoing
stack that the target is about to overwrite. This directory holds TLA+ modules
translated from `src/tealet.c`, the TLC configurations that check them, and theorems
about them that TLAPS has checked.

## The system

| component | state it keeps | operations | what makes it correct |
|---|---|---|---|
| stack slicing engine (`tealet.c` 755-1196) | the saved stacks (chunks, reference count, `saved`, far boundary, defunct flag), the list `g_prev` of partly saved ones, the C stack itself | save, grow the list, restore, share, release, give up | a suspended tealet resumes on exactly its frames; no stack leaks or is freed early; what may be lost under memory pressure is never main and never goes unnoticed |
| transfer protocol (1198-1992) | `g_current`, `g_previous`, `g_target`, `g_arg`, `g_flags`, the flags of each tealet | initialize, new, run, fork, switch, exit, duplicate, delete | the call that resumes returns what the sender meant; one-shot signals do not leak into later calls; a started tealet is not mistaken for a new one |
| locking (1366-1378, 2238-2311) | mode and callbacks | lock and unlock around the API | every call releases what it acquired, even when another stack returns; to other threads each call is one step |
| stack integrity (272-646) | the plan for the running tealet: guarded pages, snapshot | plan, protect, capture, verify | what is watched lies beyond the running tealet's boundary, without gap; who wrote there is told, nobody else; no page stays guarded for good, unless `mprotect()` fails |
| list and chunk pointers (199-215, 755-931, 1020-1055) | the ring of all tealets, the list `g_prev`, the chunk chains | add, remove, link, unlink, walk | the walk stays on the list; what is freed is on none |
| configuration (669-752, 2165-2285) | flags, sizes, policy, limit, the snapshot block | get, set, check_stack | canonicalisation is idempotent; the block holds every copy the configuration can ask for |
| statistics (199-238, 2049-2142; `tealet_extras.c` 4-37) | counters and peaks | every allocation and release | counters equal what is allocated |
| extras (`tealet_extras.c` 39-123) | a stub's argument block | spawn, stub_new, stub_run | the block is freed exactly once |
| stackman (vendored) | - | switches the stack pointer, calling back once before and once after | external |

One thread at a time runs a domain (a main tealet and those made from it); others may
make, duplicate and delete its tealets meanwhile, under a lock. The API calls meet in
`tealet_switchstack()`, which records target and argument in the main tealet and calls
`stackman_switch()`; stackman calls `tealet_save_restore_cb()` twice, to save
(`tealet_save_state()`) and, on the new stack pointer, to restore
(`tealet_restore_state()`). What makes this hard is less parallelism than history: the
code that continues after a transfer belongs to another tealet, with local variables
from long ago; stacks are saved lazily, by later transfers of others; several tealets
can share one saved stack; every allocation may fail, in the middle of a list of
stacks that were grown already; and a forced transfer gives some of them up.
`PROJECT.json` lists these hazards at their lines, with the properties that address
each.

## Modules

**StackSlicing** is the engine and every API operation that reaches it. The C stack is
an array `mem` of `Depth` cells, cell 0 nearest; a cell is named after the saved stack
whose frames it still holds, so "restored exactly" is an equality of arrays. `stacks`
are the heap blocks (`tealet_stack_t` with its chunks), `g_prev` with `older` is the
list of partly saved stacks (`older[s]` are those behind `s`), and `state`, `stack`,
`stack_far` the fields of the tealets. Operators carry the code's names: `Grow`,
`Growto`, `Grown` with `Visited`, `Reached`, `Stops` and `Unlinked`
(`tealet_stack_grow_list()`), `MakeDefunct`, `StackNew`, `SaveTo`, `Decref`,
`Restored`. `TransferFails`, `TransferDrops` and `TransferSaves` are the ends of
`tealet_save_state()`: an error, an outgoing stack that is not kept (it exits, or is
lost to a forced transfer), one that is. The actions are the API: `New`, `RunSwitch`,
`RunDefault`, `Fork`, `Switch`, `Exit`, `Duplicate`, `Delete`, `SetFar`, and
`RefuseDefunct` for a transfer to a tealet that was lost. Each is one step, because
one thread runs a domain and a transfer is one call of `stackman_switch()`. Malloc
fails when the model says so, at the sites in `OutOfMemory`: when a stack in the list
is grown, when the outgoing stack is saved and the failure is reported, and when it is
absorbed by a forced transfer.

What is left out of it: bytes (cells stand for any amount), the content of handles,
argument and result values (**Transfer** has those), and the pointers of the list
(**Heap**). Callers keep the documented rules: `tealet_delete()` and
`tealet_duplicate()` are not applied to the running tealet or to main,
`tealet_set_far()` is called on the running, unbounded main. A failed allocation of a
tealet handle changes nothing and is not an action. `Forcing` covers every way to
force: an explicit FORCE or NOFAIL, and an implicit return of `run()`, which is an
exit with NOFAIL. Where `Forcing` is FALSE, tealets end by an unforced
`tealet_exit()`.

**Coroutines** is the abstract specification: a tealet is free, new, running,
suspended, lost or exited, and there is no stack. **SlicingImplements** maps the
engine's state to it: a tealet is "suspended" only if its stack can be restored
exactly and "running" only if it was resumed on its own frames, so
`ImplementsCoroutines` says at once that saving, growing, sharing and counting are
invisible, and that only forced transfers lose a tealet, never main, and never
silently. **MCSlicing** adds TLC's symmetry sets (tealets other than main, and heap
blocks, are interchangeable).

**Transfer** is the same API seen as a control protocol, without stacks. A suspended
tealet is `frame[t]`: the call it is in the middle of, with the locals that call uses
after it is resumed. `tealet_run()` and `tealet_fork()` have four such frames (as
creator or as child, SWITCH or DEFAULT); every other suspended tealet is in
`tealet_switch()`. `Xfer` is `tealet_xfer_inner()` around `tealet_switchstack()`, with
the NOFAIL retries of `tealet_switch()` and `tealet_exit()`: `Refusal` are the checks
of the target in the code's order, `Rejected` the two checks of the caller that follow
them (1291-1308), `RunsOut` is `SW_ERR`, `FallsBack` the second attempt, and `Moves` a
transfer that succeeds, with what may become of the outgoing tealet (`Outgoing`) and
of those whose stacks are given up (`Sacrifices`). The checks of the caller are about
its stack pointer and the bytes beyond its boundary, which **Integrity** has; here any
call may find `CallerErrors`, and an implicit return of `run()` that does ends the
process (1464-1467, `Aborted`). `Resumes` is the
code after `stackman_switch()`, run with the locals of the tealet that was resumed:
there `Undoes` and `Puts` are the error branches of the starts. `Return` is what
follows `run()` in `tealet_initialstub()`, `Defer` and `Consumes` the deferred exit.
`running` is a history variable, the tealet whose frames execute, which the library
cannot see; it believes `g_current`.

Handles are memory: `Delete` frees one and `New` may hand the same one out again, so a
local that still names it names the new tealet. What memory does is abstracted from
StackSlicing: any save may run out (`MemoryFails`), and a forced one gives up any set
of suspended tealets but main and the target; that is more than the engine would do
(of two tealets that share a stack the engine loses both). The one-shot flags EXITING,
AUTODELETE, SAVEFORCE and `TEALET_MFLAGS_PANIC` are arguments of the attempt, since
every path of `tealet_switchstack()` and `tealet_save_state()` consumes them. A
transfer's own argument is not kept; `g_arg` appears as the place where a deferred
exit keeps its argument. Callers keep the documented rules: they pass live handles,
defer no exit in main's lineage or while one is pending, and send PANIC only to
tealets suspended in `PanicReaches`.

**TransferImplements** maps this state to the phases of Coroutines, the same abstract
specification as the engine's: a tealet that runs unknown to the library, or that
reports ACTIVE with nothing to resume, has no phase. **MCTransfer** adds the symmetry
set.

**Locking** is the API seen by threads. `call[th]` is the call a thread is in and how
far it is: it waits for the lock, holds it (`"work"`), is about to return, or is in
the trampoline that enters `run()`. `Begins` and its kin are what a call does before
`tealet_lock_auto()`, among it the mark that `tealet_run()` and `tealet_fork()` set;
`Acquire` takes the lock and reads the reference count into `seen`, from which the
second half of the call writes it back, so that two threads in the locked part at once
would lose a count. A transfer ends the call of one tealet and continues in that of
another: `resumes[s]` is the code in which the saved stack `s` goes on, and `Return`
or `EnterRun` of the resumed one leaves the lock. `Lock` and `Unlock` are the
application's brackets of OFF mode. The owner runs the tealets; every thread makes,
duplicates and deletes them. The callbacks are the application's: a mutex that need
not be recursive, changed only when no thread is in a call (callbacks that are NULL
are OFF mode); and handles are handed over, so that two threads do not pass the same
one to calls at the same time (`Unused`) - except, with `Sharing`, a duplicate of a
tealet that the owner starts. Stacks are whole and transfers are not forced here
(StackSlicing and Transfer have the rest), main has set its far boundary, and the
flags and argument of a deferred exit are omitted. `ImplementsCoroutines` maps it to
the same **Coroutines** as the other two: with the lock, calls of several threads are
atomic.

**Configuration** is the arithmetic of `tealet_config_t`: `Canonical`
(`tealet_config_canonicalize()`), `Prefixed` for callers built against another
version, `RequiredCapacity`, and `Plan` (`tealet_integrity_plan_for_current()`) with
the bytes that are copied and the pages that are guarded. Stacks descend
(`STACK_DIRECTION` 0; ascending ones are not modelled). **Integrity** runs it.
`denied` is what the kernel forbids, which nobody can ask it for, beside the `plan`
that says what the library believes; `differs` are the copied addresses whose bytes
have changed, which is all that a comparison can tell. `Write`, `Push` and `Pop` are
the program, on its own frames or beyond; the operations are `ConfigureSet`,
`ConfigureGet`, `CheckStack`, `SetFar`, the starts, `Switch` (and exit), `Renew`
(delete and new), `Finalize` and `Initialize`. Each start and transfer checks the
caller's stack pointer, opens the guard, compares (`Mismatch`), and ends in `Runs` or
`TransferFails`, both of which arm anew. `overrun` and `misplanned` are history: what
the running tealet wrote beyond its boundary, and that the plan was made for another
boundary than its own. With `KernelFails` a call of `mprotect()` may fail and have
changed none of the pages or those before the one it stumbled on (`Halfway`), in
closing (`Guards`) and in opening (`Opened`), after both of which the library's record
is cleared (485-491, 515-518); `strays` is history, the addresses that such calls left
denied and no later one opened or recorded. A process that would die for touching one
in the middle of a transfer goes on in the model, which only adds behaviours. Assumed:
a refused reconfiguration changes nothing, the watched bytes lie inside the stack, and
`tealet_set_far()` gets a marker in a frame that called it. READONLY
and NOACCESS both deny writes, the only accesses modelled; the policy ASSERT ends the
process or, under NDEBUG, returns.

**Heap** is the same API as a user of malloc: the ring `next_tealet`/`prev_tealet`,
the blocks of saved stacks with `next` and `prev` (which points to a pointer, `Head`
being the address of `g_prev`), the chunks of each as a number and a sum of bytes, and
every counter. A transfer is several steps here: the walk of
`tealet_stack_grow_list()` is one step a node (`Pass`, `PassTarget`, `GrowPart`,
`GrowWhole`, `GrowFails`, `GrowDefunct`), then come the save and `Restore`. Which
stacks must grow, and how far, is StackSlicing's business: here any may, but for main
while it is unbounded. `BoundedMain` says that `tealet_set_far()` may have bounded it,
and then main's stack too may be saved or grown whole, and resumed with others still in
the list. `alloc` are
the counters of a `tealet_statsalloc_t` that the domain allocates from, and `lent` a
block from `tealet_malloc()`, for all those that the domain does not count, the
snapshot block among them. Left out: peaks, totals, `stack_bytes_naive` and
`stack_bytes_expanded`, and PANIC, whose leaked stack is described below. **PrevList**
is what the list promises: a sequence from which stacks are taken out anywhere, and
always before they are freed. **MCLocking**, **MCIntegrity** and **MCHeap** are the
instances.

## Runs

| run | what it shows |
|---|---|
| `slicing_shared` | with duplicates and failing growth: reference counts are exact, `g_prev` is the staircase of partial stacks the algorithm relies on, every suspended tealet is intact, saving is monotone, and the engine implements Coroutines |
| `slicing_forced` | with forced transfers and every allocation they make failing: nobody resumes on wrong frames, main stays reachable, an unbounded tealet runs with an empty list, and the engine implements Coroutines |
| `slicing_failing` | with all options and all failures: whatever is in the list, or saved entirely, is recoverable |
| `slicing_save_fails` (violation) | a failed switch leaves its target out of `g_prev` although it is still partly unsaved, and retrying it resumes damaged frames |
| `transfer_panic` | with PANIC transfers, deferred exits, failing saves and rejected callers: `g_current` is who runs, `g_previous` who sent, also after transfers that failed and starts that returned at once, and a NOFAIL transfer to a possible target returns no error but one of the caller's own stack, with nothing moved |
| `transfer_coroutines` | the API, with retries, fallbacks, duplicates and forced losses, implements Coroutines; ACTIVE is what exactly the resumable tealets report, and no tealet's status goes back |
| `transfer_astray` (violation) | PANIC to a tealet captured by a DEFAULT start: it runs, and the library believes its creator does |
| `locking` | two threads, AUTO mode and brackets: application code never runs with a lock it did not take, one thread at a time is in the locked part, no count is lost, calls are atomic steps of Coroutines, and every call returns |
| `locking_shared_start` (violation) | a duplicate of a tealet that is being started reports ACTIVE and has nothing to resume |
| `integrity` | through starts, transfers, failures, reports, reconfiguration and failing calls of `mprotect()` the kernel denies what is on record and what such calls left denied, the block holds the copy, frames of the running tealet are not guarded, only those that overran are told, and what is watched has no gap |
| `integrity_failed_start` (violation) | after a DEFAULT start that failed, pages that hold frames of the running creator are guarded |
| `heap` | ring and list stay consistent while nodes are unlinked under way, the counters are what is on the heap, and the pointers implement PrevList |

Bounds of the engine's runs. `Depth` is 4 (3 where a run has more options): far
boundaries 1..3 and the unbounded one give three bounded tealets whose boundaries are
all different, the longest staircase that can be built, over a cell below each. Two or
three tealets besides main and three or four heap blocks: enough for a partial stack
behind a partial stack behind the running tealet, one of them shared with a duplicate.
A chain of transfers of any length fits, since nothing is counted: all reachable
states are explored. `Pointers` are the cells at which a stack pointer stands during a
transfer; two of them (`slicing_failing`) suffice for stacks that start at different
cells.

Bounds of the transfer runs. Two tealets besides main are a sender and a receiver that
can each be started by the other, and a handle that is freed and handed out again; and
one of them can lose its stack to a transfer between the other and main. All options
of the calls are enumerated (FORCE is not passed together with NOFAIL, which includes
it); nothing else needs a bound. PANIC reaches `{"switch", "run", "fork"}` where the
property survives it and `{"switch"}` where it does not (finding 2 and "a waiting
creator" below). Both errors of the caller's checks may meet any call.

Bounds of `locking`. Two threads suffice for two calls to meet; two tealets besides
main and two stacks for a tealet, its duplicate and the creator they return to.
Nothing is counted: all states are explored.

Bounds of `integrity`. Pages of three addresses and a stack of nine: boundaries on,
before and behind the first address of a page, windows (3 and 4) that end on or within a
page, the larger of which guards two pages, so that a call of `mprotect()` may fail
between them, and a last page that reaches beyond it. The three requests differ in back
ends, policy, limit (absent, near, beyond), size of the structure and unknown bits;
`CheckStack` adds a fourth. Two tealets are a creator and a child, so that each boundary
is nearer than one other; deeper nesting is left to the theorems, which hold for any.

Bounds of `heap`. Three tealets besides main and three stacks make a list of three, one
node the target's, one shared. `MaxGrown` (2 bytes in chunks, one at a time) lets a
stack grow in one or two chunks; main is unbounded (`BoundedMain` makes the instance too
large, and is left to the theorems, which hold for both values); the sizes are different
enough that a sum of bytes tells what it was made of.

Fairness. Only `locking` states any, since the library schedules nothing by itself:
every step is a call that somebody makes. A thread that is in a call goes on (weak
fairness of its work, its return and `EnterRun`), an application closes the bracket it
opened, and the lock does not pass over one waiting thread forever (strong fairness of
`Acquire`), which is a demand on the callbacks. Nobody must begin a call.
`CallsReturn` follows from it because no path keeps the lock. Deadlock is checked in
every run.

## Theorems

`StackSlicing_proofs`, `StackRecovery_proofs` and `StackGuarantees_proofs` prove, for
every depth, every finite set of tealets and every set of heap blocks, what the runs
above check on small ones:

| theorem | of the specification, provided that |
|---|---|
| `TypeCorrect`, `RefcountIsExact`, `SavingIsMonotoneHolds` | - |
| `StaircaseHolds`, `ListIsPartialHolds`, `RecoverableHolds`, `UnboundedAloneHolds`, `MainReachableHolds` | no hint overreaches |
| `PartialIsListedHolds`, `SuspendedIntactHolds` | also, the outgoing stack's own save does not fail with an error |
| `NothingTornHolds` | also, forced transfers and duplicates do not meet |

The provisos are not technical: each is where the code falls short of its
documentation. `slicing_save_fails` shows that a failed save with an error breaks the
last three; the other two are the first two of "other differences" below.

The argument. None of these is inductive alone. `Ownership` says that the count of a
stack is the number of tealets that refer to it (a cardinality, hence the lemmas
`CountGain` and `CountLose`), that its far boundary is its owners', and who has a
stack at all. `Sound` is `Listed`, which describes the list: totally ordered, usable,
incomplete, and a staircase whose first step is the running tealet's boundary; and
`Restorable`, which describes the contents: a listed or full stack is intact in its
chunks and on the C stack. A transfer to a boundary `stop` first grows the list to
`stop` (`GrowingListed`, `GrowingRestorable`, `GrownToStop`), so that overwriting the
cells nearer than `stop` is harmless (`Overwriting`), then adds the outgoing stack,
which is nearer than all that is left (`Adding`), and restores the target, whose own
cells nobody else needs any more (`BeyondStop`, `HeldBelowFar`). The order matters:
each lemma is about a half-finished transfer. `StackGuarantees_proofs` classifies the
steps by what they do to stacks (`Steps`) and derives the guarantees; `MainKept` is
the strengthening for main: suspended, its stack is its own and not defunct.

`Transfer_proofs` does the same for the protocol, for every set of tealets:

| theorem | of the specification, provided that |
|---|---|
| `TransferTypeCorrect`, `NofailSucceedsHolds` | - |
| `CurrentRunsHolds`, `PreviousIsSenderHolds` | PANIC does not reach a tealet captured by a DEFAULT start |
| `ActiveCanResumeHolds`, `StatusForwardHolds` | PANIC reaches only `tealet_switch()` |
| `TransferImplementsCoroutines` | also, callers may force (an implicit return of `run()` always does, so only then does Coroutines allow for losses) |

`NofailSucceedsHolds` says that a NOFAIL call ends in the target or in main, or returns
an error of the caller's own stack (or, from `run()`, aborts) with nothing moved;
`PreviousIsSenderHolds` that `g_previous` is unchanged by whatever does not change who
runs, but for a switch to self and the deletion of the tealet it names.

`Attended` (who runs is known, and the handles the library holds are live) is
inductive by itself. `Settled` adds what the status flags mean: an unbound tealet has
nothing to resume, the running tealet and main are neither exited nor defunct, and
ACTIVE is what exactly the tealets with a usable frame report. `MovesEffect` describes
a successful transfer handle by handle; `MovesSettled` and `MovesPhase` then need no
more than that, and every kind of step maps to one step of Coroutines
(`MovesImplements`, `StartsImplements`) or to none.

`Locking_proofs`, for every finite set of tealets and any number of threads:

| theorem | of the specification, provided that |
|---|---|
| `RunsUnlockedHolds`, `OneAtWorkHolds`, `LockingTypeCorrect`, `CountsExactHolds`, `EffectsUnderLockHolds` | - |
| `LockingImplementsCoroutines`, `ActiveHasStackHolds` | no tealet is duplicated while it is being started |

`Control` is inductive alone: whoever is in the locked part of a call has the lock, in
AUTO mode through the call, in OFF mode through the bracket around it, and keeps it
through every transfer. `Domain` rests on it: with one thread in the locked part, the
count that it has read is still the count (`SeenTrue`), nobody else's call is about
its tealet (`Apart`), and `Counted` is preserved with the cardinality lemmas. For the
refinement `View` gives the phase of one tealet under these invariants, the steps that
begin, lock and return are `QuietView`, and each step of the working thread is one of
Coroutines (`DuplicateIsDuplicate`, `SwitchIsSwitch`, ...).

`Integrity_proofs`, for every page size, stack, set of tealets and set of requests,
without provisos (whatever `mprotect()` left denied is in `strays`, which is empty when
no call fails half-way or in opening): `IntegrityTypeCorrect`, `DeniedIsPlannedHolds`,
`CopyFitsHolds`, `GetReturnsSetHolds`, `PlannedFramesOpenHolds`, `BlamedIfOverranHolds`,
`OverrunCaughtHolds`, `NoGapHolds`. Lemmas about the arithmetic come first:
`RoundUpBounds` (an integer division, bounded), `PlanBounds` (what is copied and guarded
lies beyond the boundary and fits), `PlanCovers` (no gap) and `CanonicalTwice`. `Inv`
then says that the configuration is canonical and the block large enough (`Settled`),
and that, unless the plan was made for another, all that is copied or on record lies beyond
the running tealet's boundary, and every difference in it was written by it
(`Watching`).

`SlicingImplements_proofs` adds `SlicingImplementsCoroutines`, under the provisos of
`NothingTornHolds`: the engine implements Coroutines. `Faithful` collects what the
mapping needs of the engine (types, ownership, `NothingTorn`, `SuspendedIntact`, main
kept); under it `PhaseIs` gives the phase of one tealet, `UntouchedPhase` says that a
tealet that is no side of the transfer keeps it unless its stack is given up,
`LostVictims` that a forced transfer loses only what is suspended, never main,
`SparesAll` that one which reports its failures loses nothing, and `TransferPhase`
and `FailsImplements` make the ends of `tealet_save_state()` steps of Coroutines.

`Heap_proofs`, for any finite sets of tealets and stacks and any sizes, without
provisos:

| theorem | about |
|---|---|
| `TypesHold` | types, and that no counter goes below 0 |
| `RingIsExact` | the ring, walked either way, visits what is allocated, each once |
| `WalkStaysOnList` | the walk of a transfer is at a node of the list or at its end |
| `StatsAreExact`, `AllocatorAgrees` | the domain's counters and those of the allocator below it |
| `ListImplementsSequence` | the pointers `g_prev`, `next` and `prev` implement PrevList |
| `OwnersAreCounted` | a stack counts its owners, and is freed with the last, through every step of a transfer |
| `NothingLeaks` | when only main is left, the domain and its allocator count main alone |

Pointers are reasoned about through the sequence behind them, which is a witness and
no variable. `Listed` says that some sequence of different stacks in use is the list,
in both directions, with nothing else linked; `ChainPushed` and `ChainDropped` say
what `tealet_stack_link()` and `tealet_stack_unlink()` do to it, and `NextChain` that
every step leaves the sequence, adds in front or drops one (`Relinks`), and frees no
stack that is on it. That a block is freed when its last owner goes takes `Owned` (a
count is the number of owners) and `Roles` (which tealet may have a stack at each
stage of a transfer). `Sound` is these with `WalkOnList`, which they need and which
needs them: the walk takes out the node it stands on, and it goes on because
`tealet_stack_unlink()` leaves that node's own `next`. `Ringed` does the same for the
ring, where `TEALET_LIST_ADD` inserts behind main and `TEALET_LIST_REMOVE` drops
anywhere. `Balanced` is exactness of the counters with their types as integers: for
every step `Books` says by how much the counters change and `Grows` by how much the
heap does, and `BooksBalance` compares them; the sums over stacks in use change by
`SumAdd`, `SumRemove` and `SumChange`. That counters are no less than 0 is a
consequence. What the recursive definitions `RingFrom` and `Order` compute is found
without induction: the known sequence satisfies the same equation, and at the least
place where two solutions differ they cannot (`RingFromIs`, `OrderIs`).

Proved without being properties of a run: `EffectsUnderLock`, `OverrunCaught`,
`OwnersAreCounted` and `NothingLeaks` (of `Heap`, which has no PANIC and so not the
stack that a PANIC can leak). Only model-checked: `CallsReturn`. Liveness under
fairness, and ENABLED, are out of the provers' reach. The modules with theorems reach
no RECURSIVE operator.

## Where the code and its documentation disagree

Each is a violation run and an entry of "findings" in `PROJECT.json`.

1. **A failed switch damages its target.** `tealet_stack_grow_list()` unlinks the
   target (`tealet.c:1043`) before `tealet_save_state()` tries to save the outgoing
   stack (1130). If that fails, the caller gets `TEALET_ERR_MEM`, documented as
   transient ("either retry later or abort the coroutine workflow cleanly",
   `API.md:1258`); the target, still partly unsaved, is in no list.
2. **PANIC to a fresh tealet.** A tealet captured by a DEFAULT start is suspended
   inside `tealet_run()` or `tealet_fork()`, which take `TEALET_ERR_PANIC` for a
   failed start: the child is reset to NEW and the creator put back as `g_current`
   (1688-1693, 1774-1780) while the child's frames run. `tealet.h:306` promises
   delivery on the receiver's return path.
3. **A start is marked before the lock is taken** (1673, 1744). A thread that
   duplicates the tealet between the two copies the mark: the copy is ACTIVE without a
   stack, and cannot be started. `tealet.h:59` counts start and duplicate among the
   operations that AUTO mode locks.
4. **A failed DEFAULT start guards the wrong frames.** `tealet_switchstack()` re-arms
   the guard for `g_current` (1326-1334), which is still the child; the pages beyond
   the child's boundary hold the creator's frames. The comment at 325 says the plan is
   for the running tealet.

Other differences, each without a run of its own:

- *A forced switch to a shared stack.* The comment at 1031-1035 expects the switch to
  complete and later uses to fail; `tealet_stack_defunct()` has freed all but the
  first chunk by then. (`SlicingForced.cfg` with `Duplicating = TRUE` violates
  `NothingTorn`.)
- *Hints beyond the creator's boundary* are accepted (1635-1639), but the list's order
  is then no staircase. (`SlicingShared.cfg` with `Overreaching = TRUE` violates
  `Staircase`.)
- *PANIC to a waiting creator* of a SWITCH start resets the child it started to NEW
  (1688), wherever that child is by then; a suspended child's stack leaks, and
  `tealet_spawn()` deletes the handle (`tealet_extras.c:57-60`). `tealet.h:239` calls
  a SWITCH start a DEFAULT start followed by a switch, which would leave the child
  alone. (`TransferCoroutines.cfg` with `"run"` in `PanicReaches` violates
  `StatusForward`.)
- *Deferred exits belong to the domain*, not to the tealet that asked: a start or
  transfer before `run()` returns clears the argument (1325, 1341), another tealet's
  exit consumes the flags (1927); and the target is not stored (1916-1925), the
  trampoline exits to what `run()` returned (1450, 1464). `API.md:484`: "Store flags
  and argument, return to caller. Will be used when tealet exits later"; `API.md:512`:
  "return value ignored. exit value from earlier will be used."
- *Brackets in AUTO mode.* `API.md:1223` and `ARCHITECTURE.md:101` advise to bracket
  `tealet_delete()` and `tealet_duplicate()` with `tealet_lock()`; in AUTO mode, with
  the non-recursive mutex that `API.md:986` allows, that waits for itself. The model's
  applications do not.
- *The guard's far end* is rounded up (417) and may pass `stack_guard_limit`, of which
  `API.md:906` says that "planning clamps monitored bytes so the protected interval
  does not extend past this address". The model has the rounding; frames of the
  running tealet are on the other end.
- *A failed `mprotect()`* in closing may have closed some pages of the interval, but is
  recorded as having closed none (515-518); in opening it is ignored and the record
  cleared (485-491). The comments and `API.md:861` call both best-effort; a page that
  stays closed by either is opened again only if a later plan covers it and is
  taken down.
- *NOFAIL to main.* `tealet.h:312` says: "When @p target is main, #TEALET_XFER_NOFAIL is
  guaranteed to succeed". A caller whose stack pointer is out of bounds (1291-1295) or
  whose snapshot does not match (1299-1308) gets `TEALET_ERR_INVAL` or
  `TEALET_ERR_INTEGRITY` all the same, which is not retried ("Other errors are returned
  unchanged", 311); when `run()` returns the process is aborted for it.
- `n_active` counts main although the field's comment excludes it (170, 1585).

## Plan

Done: the engine (`StackSlicing`), the protocol (`Transfer`), threads (`Locking`), the
guard and its configuration (`Integrity`, `Configuration`), pointers and counters
(`Heap`, `PrevList`), `Coroutines` as the common abstract specification of the first
three, and proofs of every property that the runs check but one, `CallsReturn`.

Next, in this order:

1. `Stub`: trampoline and argument block, with duplicates, PANIC and `tealet_spawn()`.
2. `g_flags` at the grain of statements: the one-shot signals PANIC and SAVEFORCE.

## Not modelled

`tealet_spawn()` and the stubs (`tealet_extras.c` 39-123), a few lines over the API
that is modelled; peaks, totals, `stack_bytes_naive` and `stack_bytes_expanded`, which
nothing in the library reads; the public queries, which only read the state above; the
debug hooks, which put a domain into states its operations cannot reach; the debug
assertions about the caller; stackman's assembly, which is external; ascending stacks;
the Windows project files, scripts and tests.
