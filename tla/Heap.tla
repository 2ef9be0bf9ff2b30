------------------------------- MODULE Heap --------------------------------
(***************************************************************************)
(* The heap of a domain (src/src/tealet.c): the blocks of tealets, saved   *)
(* stacks and chunks, the pointers that link them, and the counters that   *)
(* tealet_get_stats() reports.                                             *)
(*                                                                         *)
(* Saved stacks that are not wholly saved are on the list g_prev, linked   *)
(* by next and by prev, which points to the pointer that points to the     *)
(* node.  A transfer walks the list, grows its nodes and takes them out    *)
(* under way, by one step of this model a node.  Which stacks must grow,   *)
(* and how far, is the business of StackSlicing: here any may.             *)
(***************************************************************************)
EXTENDS Integers, FiniteSets

CONSTANTS
  Tealets,      \* blocks for tealets
  Main,         \* the main tealet
  Stacks,       \* blocks for saved stacks
  NULL,         \* the NULL pointer
  Head,         \* the address of g_prev; that of s->next is s
  TealetSize,   \* the bytes of a tealet
  StackHeader,  \* those of a tealet_stack_t without its data
  ChunkHeader,  \* those of a tealet_chunk_t without its data
  Sizes,        \* how many bytes of a stack are saved at a time
  MaxGrown,     \* a bound on the bytes in the chunks of a stack
  BoundedMain   \* whether tealet_set_far() may have bounded main's stack

ASSUME HeapAssumption ==
  /\ Main \in Tealets /\ IsFiniteSet(Tealets) /\ IsFiniteSet(Stacks)
  /\ NULL \notin Stacks \cup Tealets /\ Head \notin Stacks \cup {NULL}
  /\ {TealetSize, StackHeader, ChunkHeader, MaxGrown} \subseteq Nat
  /\ Sizes \subseteq Nat /\ BoundedMain \in BOOLEAN

VARIABLES
  live,         \* the tealets that are allocated
  next_tealet,  \* the ring of all tealets
  prev_tealet,
  kind,         \* "new", "bound", "defunct" or "exited"
  stack,        \* the saved stack of each tealet
  block,        \* the saved stacks
  g_prev,       \* the list of those that are not wholly saved
  g_current,    \* the tealet that runs
  transfer,     \* the transfer under way, and how far it is
  stats,        \* the counters of the domain
  alloc,        \* those of a tealet_statsalloc_t under it
  lent          \* blocks that the application got from tealet_malloc()

ring == <<next_tealet, prev_tealet>>
counters == <<stats, alloc>>
vars == <<live, ring, kind, stack, block, g_prev, g_current, transfer, counters, lent>>

---------------------------------------------------------------------------
(* A chunk of a chain other than the first only counts: chunks and grown   *)
(* are the number of these and of the bytes in them.                       *)
Free == [refcount |-> 0, next |-> NULL, prev |-> NULL, first |-> 0, chunks |-> 0, grown |-> 0,
         partial |-> FALSE, defunct |-> FALSE]
Blocks ==
  [refcount : Nat, next : Stacks \cup {NULL}, prev : Stacks \cup {Head, NULL}, first : Nat,
   chunks : Nat, grown : Nat, partial : BOOLEAN, defunct : BOOLEAN]

Used == {s \in Stacks : block[s].refcount > 0}
IsDefunct(t) == kind[t] = "defunct" \/ (stack[t] # NULL /\ block[stack[t]].defunct)

Idle == [at |-> "user", from |-> NULL, to |-> NULL, list |-> NULL,
         starts |-> NULL, exits |-> "no", fail_ok |-> TRUE]
Exits == {"no", "exit", "delete"}
Transfers ==
  [at : {"user", "grow", "save", "restore"}, from : Tealets \cup {NULL}, to : Tealets \cup {NULL},
   list : Stacks \cup {NULL}, starts : Tealets \cup {NULL}, exits : Exits, fail_ok : BOOLEAN]

InUser == transfer.at = "user"

(* Mutant: a block that is given back is still counted. *)
SubAllocBytes(st, n) == [st EXCEPT !.bytes = @ - n]

(* STATS_ADD_ALLOC and STATS_SUB_ALLOC, without the peaks. *)
AddAlloc(st, n) == [st EXCEPT !.bytes = @ + n, !.blocks = @ + 1]
SubAlloc(st, n) == [st EXCEPT !.bytes = @ - n, !.blocks = @ - 1]

(* tealet_statsalloc_malloc(), and tealet_statsalloc_free() of n blocks    *)
(* with size bytes in all.                                                 *)
Malloc(size) == alloc' = [n_allocs |-> alloc.n_allocs + 1, s_allocs |-> alloc.s_allocs + size]
Freed(al, n, size) == [n_allocs |-> al.n_allocs - n, s_allocs |-> al.s_allocs - size]

---------------------------------------------------------------------------
(* tealet_initialize() *)
Init ==
  /\ live = {Main}
  /\ next_tealet = [t \in Tealets |-> t]
  /\ prev_tealet = [t \in Tealets |-> t]
  /\ kind = [t \in Tealets |-> IF t = Main THEN "bound" ELSE "new"]
  /\ stack = [t \in Tealets |-> NULL]
  /\ block = [s \in Stacks |-> Free]
  /\ g_prev = NULL
  /\ g_current = Main
  /\ transfer = Idle
  /\ stats = [tealets |-> 1, bytes |-> TealetSize, blocks |-> 1,
              stack_count |-> 0, chunk_count |-> 0, stack_bytes |-> 0]
  /\ alloc = [n_allocs |-> 1, s_allocs |-> TealetSize]
  /\ lent = 0

(* Mutant: only the forward pointers are set. *)
ListAddForward(t) ==
  /\ next_tealet' = [next_tealet EXCEPT ![t] = next_tealet[Main], ![Main] = t]
  /\ prev_tealet' = [prev_tealet EXCEPT ![t] = Main]

(* TEALET_LIST_ADD and TEALET_LIST_REMOVE *)
ListAdd(t) ==
  /\ next_tealet' = [next_tealet EXCEPT ![t] = next_tealet[Main], ![Main] = t]
  /\ prev_tealet' = [prev_tealet EXCEPT ![t] = Main, ![next_tealet[Main]] = t]

ListRemove(t) ==
  /\ next_tealet' = [next_tealet EXCEPT ![prev_tealet[t]] = next_tealet[t]]
  /\ prev_tealet' = [prev_tealet EXCEPT ![next_tealet[t]] = prev_tealet[t]]

(* tealet_alloc() *)
Allocates(t) ==
  /\ t \notin live
  /\ live' = live \cup {t}
  /\ ListAdd(t)
  /\ stats' = [AddAlloc(stats, TealetSize) EXCEPT !.tealets = @ + 1]
  /\ Malloc(TealetSize)

New(t) ==
  /\ InUser
  /\ Allocates(t)
  /\ kind' = [kind EXCEPT ![t] = "new"]
  /\ stack' = [stack EXCEPT ![t] = NULL]
  /\ UNCHANGED <<block, g_prev, g_current, transfer, lent>>

(* tealet_duplicate() *)
Duplicate(t, copy) ==
  /\ InUser
  /\ t \in live \ {Main, g_current}
  /\ Allocates(copy)
  /\ kind' = [kind EXCEPT ![copy] = kind[t]]
  /\ stack' = [stack EXCEPT ![copy] = stack[t]]
  /\ block' = IF stack[t] = NULL THEN block ELSE [block EXCEPT ![stack[t]].refcount = @ + 1]
  /\ UNCHANGED <<g_prev, g_current, transfer, lent>>

---------------------------------------------------------------------------
(* The list.                                                               *)

(* tealet_stack_link() of the new block s with the fields b.               *)
Linked(s, b) ==
  [x \in Stacks |->
     IF x = s THEN [b EXCEPT !.next = g_prev, !.prev = Head]
     ELSE IF x = g_prev THEN [block[x] EXCEPT !.prev = s] ELSE block[x]]

(* Mutant: the node after it still points to it. *)
UnlinkedOneWay(b, s) ==
  [x \in Stacks |->
     IF x = s THEN [b[x] EXCEPT !.prev = NULL]
     ELSE IF x = b[s].prev THEN [b[x] EXCEPT !.next = b[s].next] ELSE b[x]]

(* tealet_stack_unlink(): the node keeps its own next.                     *)
Unlinked(b, s) ==
  [x \in Stacks |->
     IF x = s THEN [b[x] EXCEPT !.prev = NULL]
     ELSE IF x = b[s].prev THEN [b[x] EXCEPT !.next = b[s].next]
     ELSE IF x = b[s].next THEN [b[x] EXCEPT !.prev = b[s].prev] ELSE b[x]]

HeadWithout(s) == IF block[s].prev = Head THEN block[s].next ELSE g_prev

(* The bytes of the saved stack s, chunks and all.                         *)
ChunkBytes(s) == block[s].grown + ChunkHeader * block[s].chunks
StackBytes(s) == StackHeader + block[s].first + ChunkBytes(s)

(* The counters st when the chunks of s after the first are released.      *)
ChunksReleased(st, s) ==
  [st EXCEPT !.bytes = @ - ChunkBytes(s), !.blocks = @ - block[s].chunks,
             !.chunk_count = @ - block[s].chunks, !.stack_bytes = @ - ChunkBytes(s)]

(* Mutant: what is saved of a defunct stack is nothing, so nothing is      *)
(* taken off.                                                              *)
StackReleasedSaved(st, s) ==
  LET size == StackHeader + (IF block[s].defunct THEN 0 ELSE block[s].first)
  IN  [ChunksReleased(st, s) EXCEPT !.bytes = @ - size, !.blocks = @ - 1,
         !.stack_count = @ - 1, !.chunk_count = @ - 1, !.stack_bytes = @ - size]

StackReleased(st, s) ==
  LET size == StackHeader + block[s].first
  IN  [ChunksReleased(st, s) EXCEPT !.bytes = @ - size, !.blocks = @ - 1,
         !.stack_count = @ - 1, !.chunk_count = @ - 1, !.stack_bytes = @ - size]

(* tealet_stack_decref(): the pointers, and the counters st and al.        *)
Decref(s) ==
  IF s # NULL /\ block[s].refcount = 1 /\ block[s].prev # NULL
  THEN block' = [Unlinked(block, s) EXCEPT ![s] = Free] /\ g_prev' = HeadWithout(s)
  ELSE /\ block' = [x \in Stacks |->
                       IF x # s THEN block[x]
                       ELSE IF block[x].refcount = 1 THEN Free
                       ELSE [block[x] EXCEPT !.refcount = @ - 1]]
       /\ UNCHANGED g_prev
AfterDecref(st, s) ==
  IF s = NULL \/ block[s].refcount > 1 THEN st ELSE StackReleased(st, s)
AllocAfterDecref(al, s) ==
  IF s = NULL \/ block[s].refcount > 1 THEN al ELSE Freed(al, 1 + block[s].chunks, StackBytes(s))

(* tealet_free_tealet() of t, whose stack s was released before.           *)
FreesTealet(t, s) ==
  /\ live' = live \ {t}
  /\ ListRemove(t)
  /\ stats' = [SubAlloc(AfterDecref(stats, s), TealetSize) EXCEPT !.tealets = @ - 1]
  /\ alloc' = Freed(AllocAfterDecref(alloc, s), 1, TealetSize)
  /\ stack' = [stack EXCEPT ![t] = NULL]

(* tealet_delete() *)
Delete(t) ==
  /\ InUser
  /\ t \in live \ {Main, g_current}
  /\ Decref(stack[t])
  /\ FreesTealet(t, stack[t])
  /\ UNCHANGED <<kind, g_current, transfer, lent>>

---------------------------------------------------------------------------
(* A transfer: from is suspended, if it does not exit, and to runs.        *)

Begins(from, to, starts, exits, fail_ok) ==
  /\ transfer' = [at |-> "grow", from |-> from, to |-> to, list |-> g_prev,
                  starts |-> starts, exits |-> exits, fail_ok |-> fail_ok]
  /\ g_current' = from
  /\ UNCHANGED <<live, ring, stack, block, g_prev, counters, lent>>

(* tealet_run() and tealet_fork(), which make the new tealet g_current at  *)
(* once when it is to be captured.                                         *)
BeginStart(t, switched) ==
  /\ InUser
  /\ t \in live /\ kind[t] = "new"
  /\ kind' = [kind EXCEPT ![t] = "bound"]
  /\ IF switched THEN Begins(g_current, t, t, "no", TRUE) ELSE Begins(t, g_current, t, "no", TRUE)

(* tealet_switch() and tealet_exit(), forced or not.                       *)
BeginTransfer(t, exits, force) ==
  /\ InUser
  /\ t \in live \ {g_current} /\ kind[t] = "bound" /\ ~IsDefunct(t)
  /\ exits # "no" => g_current # Main
  /\ Begins(g_current, t, NULL, exits, ~force \/ g_current = Main)
  /\ UNCHANGED kind

(* The transfer is given up, and a start is taken back.                    *)
GivesUp ==
  /\ transfer' = Idle
  /\ g_current' = IF transfer.starts = transfer.from THEN transfer.to ELSE transfer.from
  /\ kind' = [t \in Tealets |-> IF t = transfer.starts THEN "new" ELSE kind[t]]
  /\ UNCHANGED <<live, ring, stack, block, g_prev, counters, lent>>

Target == stack[transfer.to]

(* tealet_stack_grow_list(): the node the walk has come to.                *)
At(s) == transfer.at = "grow" /\ transfer.list = s
MustGrow(s) == s # Target \/ block[s].refcount > 1

(* An unbounded stack is never wholly saved, and when it is resumed no     *)
(* other is left that is not.                                              *)
Unbounded(t) == t = Main /\ ~BoundedMain

(* Mutant: at the end of the list the walk stays at the last node. *)
WalksOnStaying(s) ==
  transfer' = IF s = Target THEN [transfer EXCEPT !.at = "save", !.list = NULL]
              ELSE [transfer EXCEPT !.list = IF block[s].next = NULL THEN s ELSE block[s].next]

(* On to the next node, which the node still points to when it was taken   *)
(* out.  The walk ends behind the target.                                  *)
WalksOn(s) ==
  transfer' = IF s = Target THEN [transfer EXCEPT !.at = "save", !.list = NULL]
              ELSE [transfer EXCEPT !.list = block[s].next]

(* The walk leaves s, whose blocks are now those of b, wholly saved.       *)
TakesOut(b, s) ==
  /\ block' = Unlinked(b, s)
  /\ g_prev' = HeadWithout(s)
  /\ WalksOn(s)

EndOfList ==
  /\ At(NULL)
  /\ transfer' = [transfer EXCEPT !.at = "save"]
  /\ UNCHANGED <<live, ring, kind, stack, block, g_prev, g_current, counters, lent>>

(* The target's stack, unless shared, need not be saved; and others may be *)
(* saved far enough.                                                       *)
PassTarget(s) ==
  /\ At(s) /\ ~MustGrow(s)
  /\ TakesOut(block, s)
  /\ UNCHANGED <<live, ring, kind, stack, g_current, counters, lent>>

Pass(s) ==
  /\ At(s) /\ s # Target /\ ~Unbounded(transfer.to)
  /\ WalksOn(s)
  /\ UNCHANGED <<live, ring, kind, stack, block, g_prev, g_current, counters, lent>>

(* tealet_stack_grow(): size bytes more in one chunk.                      *)
Grown(s, size, full) ==
  LET b == block[s]
  IN  [block EXCEPT ![s] = [b EXCEPT !.chunks = b.chunks + 1, !.grown = b.grown + size,
                                     !.partial = ~full]]
GrowAccounted(size) ==
  /\ stats' = [AddAlloc(stats, ChunkHeader + size) EXCEPT
                 !.chunk_count = @ + 1, !.stack_bytes = @ + ChunkHeader + size]
  /\ Malloc(ChunkHeader + size)

(* Not wholly, unless the target is beyond it.                             *)
GrowPart(s, size) ==
  /\ At(s) /\ s # Target /\ ~Unbounded(transfer.to)
  /\ block[s].grown + size < MaxGrown
  /\ block' = Grown(s, size, FALSE)
  /\ GrowAccounted(size)
  /\ WalksOn(s)
  /\ UNCHANGED <<live, ring, kind, stack, g_prev, g_current, lent>>

GrowWhole(s, size) ==
  /\ At(s) /\ MustGrow(s) /\ (s = stack[Main] => ~Unbounded(Main))
  /\ block[s].grown + size <= MaxGrown
  /\ TakesOut(Grown(s, size, TRUE), s)
  /\ GrowAccounted(size)
  /\ UNCHANGED <<live, ring, kind, stack, g_current, lent>>

GrowFails(s) ==
  /\ At(s) /\ MustGrow(s)
  /\ transfer.fail_ok \/ s = stack[Main]
  /\ GivesUp

(* Mutant: the chunks are released, and stay in the chain. *)
GrowDefunctChained(s) ==
  /\ At(s) /\ MustGrow(s) /\ ~transfer.fail_ok /\ s # stack[Main]
  /\ TakesOut([block EXCEPT ![s] = [@ EXCEPT !.defunct = TRUE]], s)
  /\ stats' = ChunksReleased(stats, s)
  /\ alloc' = Freed(alloc, block[s].chunks, ChunkBytes(s))
  /\ UNCHANGED <<live, ring, kind, stack, g_current, lent>>

(* tealet_stack_defunct(): its chunks are released, and it is off the list.*)
GrowDefunct(s) ==
  /\ At(s) /\ MustGrow(s) /\ ~transfer.fail_ok /\ s # stack[Main]
  /\ TakesOut([block EXCEPT ![s] = [@ EXCEPT !.chunks = 0, !.grown = 0, !.defunct = TRUE]], s)
  /\ stats' = ChunksReleased(stats, s)
  /\ alloc' = Freed(alloc, block[s].chunks, ChunkBytes(s))
  /\ UNCHANGED <<live, ring, kind, stack, g_current, lent>>

(* tealet_stack_saveto(): the outgoing stack, in a new block s.            *)
Save(s, size, full) ==
  LET tsize == StackHeader + size
      new   == [Free EXCEPT !.refcount = 1, !.first = size, !.partial = ~full]
  IN  /\ transfer.at = "save" /\ transfer.exits = "no"
      /\ s \notin Used
      /\ Unbounded(transfer.to) => full
      /\ Unbounded(transfer.from) => ~full
      /\ IF full THEN block' = [block EXCEPT ![s] = new] /\ UNCHANGED g_prev
                 ELSE block' = Linked(s, new) /\ g_prev' = s
      /\ stack' = [stack EXCEPT ![transfer.from] = s]
      /\ stats' = [AddAlloc(stats, tsize) EXCEPT
                     !.stack_count = @ + 1, !.chunk_count = @ + 1, !.stack_bytes = @ + tsize]
      /\ Malloc(tsize)
      /\ transfer' = [transfer EXCEPT !.at = "restore"]
      /\ UNCHANGED <<live, ring, kind, g_current, lent>>

SaveFails ==
  /\ transfer.at = "save" /\ transfer.exits = "no"
  /\ transfer.fail_ok
  /\ GivesUp

SaveDefunct ==
  /\ transfer.at = "save" /\ transfer.exits = "no"
  /\ ~transfer.fail_ok
  /\ kind' = [kind EXCEPT ![transfer.from] = "defunct"]
  /\ transfer' = [transfer EXCEPT !.at = "restore"]
  /\ UNCHANGED <<live, ring, stack, block, g_prev, g_current, counters, lent>>

(* An exiting tealet is not saved, and may be freed here.                  *)
LeaveExited ==
  /\ transfer.at = "save" /\ transfer.exits = "exit"
  /\ kind' = [kind EXCEPT ![transfer.from] = "exited"]
  /\ transfer' = [transfer EXCEPT !.at = "restore"]
  /\ UNCHANGED <<live, ring, stack, block, g_prev, g_current, counters, lent>>

LeaveDeleted ==
  /\ transfer.at = "save" /\ transfer.exits = "delete"
  /\ FreesTealet(transfer.from, NULL)
  /\ kind' = [kind EXCEPT ![transfer.from] = "exited"]
  /\ transfer' = [transfer EXCEPT !.at = "restore"]
  /\ UNCHANGED <<block, g_prev, g_current, lent>>

(* tealet_restore_state(), and the end of tealet_switchstack().            *)
Restore ==
  /\ transfer.at = "restore"
  /\ Decref(Target)
  /\ stats' = AfterDecref(stats, Target)
  /\ alloc' = AllocAfterDecref(alloc, Target)
  /\ stack' = [stack EXCEPT ![transfer.to] = NULL]
  /\ g_current' = transfer.to
  /\ transfer' = Idle
  /\ UNCHANGED <<live, ring, kind, lent>>

---------------------------------------------------------------------------
(* tealet_malloc() and tealet_free(): a block of one byte.                 *)
Lend ==
  /\ InUser
  /\ lent = 0
  /\ lent' = 1
  /\ Malloc(1)
  /\ UNCHANGED <<live, ring, kind, stack, block, g_prev, g_current, transfer, stats>>

Reclaim ==
  /\ InUser
  /\ lent = 1
  /\ lent' = 0
  /\ alloc' = Freed(alloc, 1, 1)
  /\ UNCHANGED <<live, ring, kind, stack, block, g_prev, g_current, transfer, stats>>

Next ==
  \/ \E t \in Tealets : New(t) \/ Delete(t)
  \/ \E t, copy \in Tealets : Duplicate(t, copy)
  \/ \E t \in Tealets, switched \in BOOLEAN : BeginStart(t, switched)
  \/ \E t \in Tealets, exits \in Exits, force \in BOOLEAN : BeginTransfer(t, exits, force)
  \/ EndOfList \/ SaveFails \/ SaveDefunct \/ LeaveExited \/ LeaveDeleted \/ Restore
  \/ \E s \in Stacks : PassTarget(s) \/ Pass(s) \/ GrowFails(s) \/ GrowDefunct(s)
  \/ \E s \in Stacks, size \in Sizes : GrowPart(s, size) \/ GrowWhole(s, size)
  \/ \E s \in Stacks, size \in Sizes, full \in BOOLEAN : Save(s, size, full)
  \/ Lend \/ Reclaim

Spec == Init /\ [][Next]_vars
---------------------------------------------------------------------------
TypeOK ==
  /\ live \subseteq Tealets
  /\ next_tealet \in [Tealets -> Tealets] /\ prev_tealet \in [Tealets -> Tealets]
  /\ kind \in [Tealets -> {"new", "bound", "defunct", "exited"}]
  /\ stack \in [Tealets -> Stacks \cup {NULL}]
  /\ block \in [Stacks -> Blocks]
  /\ g_prev \in Stacks \cup {NULL}
  /\ g_current \in Tealets
  /\ transfer \in Transfers
  /\ lent \in {0, 1}
  /\ \A field \in DOMAIN stats : stats[field] \in Nat
  /\ \A field \in DOMAIN alloc : alloc[field] \in Nat

(* The ring as tealet_get_stats() walks it, nth[n] being n steps from main.*)
RingFrom(next) ==
  LET nth[n \in 0 .. Cardinality(live)] == IF n = 0 THEN Main ELSE next[nth[n - 1]] IN nth

(* The walk over all tealets visits each that is allocated once, and comes *)
(* back to main, forwards and backwards, while tealets are made, deleted   *)
(* and delete themselves in any order.                                     *)
RingExact ==
  LET n == Cardinality(live)
  IN  \A nth \in {RingFrom(next_tealet), RingFrom(prev_tealet)} :
        nth[n] = Main /\ {nth[i] : i \in 0 .. n - 1} = live

(* The sum of size[s] over the blocks s of S, by counting their bytes.     *)
Sum(S, size) == Cardinality(UNION {{s} \X (1 .. size[s]) : s \in S})

(* The counters are what is on the heap, however a stack was grown, made   *)
(* defunct, shared, or given up half way.                                  *)
CountersExact ==
  LET chunks == [s \in Stacks |-> 1 + block[s].chunks]
      bytes  == [s \in Stacks |-> StackBytes(s)]
  IN  /\ stats.tealets = Cardinality(live)
      /\ stats.stack_count = Cardinality(Used)
      /\ stats.chunk_count = Sum(Used, chunks)
      /\ stats.stack_bytes = Sum(Used, bytes)
      /\ stats.blocks = stats.tealets + stats.chunk_count
      /\ stats.bytes = TealetSize * stats.tealets + stats.stack_bytes

(* The allocator under the domain counts the same blocks and bytes, and    *)
(* what the application has from tealet_malloc().                          *)
AllocatorsAgree ==
  alloc = [n_allocs |-> stats.blocks + lent, s_allocs |-> stats.bytes + lent]

IsLinked(s) == block[s].prev # NULL

(* The walk is always at a node of the list, or at its end, although it    *)
(* takes nodes out under way.                                              *)
WalkOnList == transfer.at = "grow" /\ transfer.list # NULL => IsLinked(transfer.list)

(* The list as it is found by following next from g_prev.                  *)
Order ==
  LET node[n \in 1 .. Cardinality(Stacks) + 1] ==
        IF n = 1 THEN g_prev ELSE IF node[n - 1] = NULL THEN NULL ELSE block[node[n - 1]].next
      length == Cardinality({n \in DOMAIN node : node[n] # NULL})
  IN  [n \in 1 .. length |-> node[n]]

P == INSTANCE PrevList WITH used <- Used, order <- Order

(* The pointers are a sequence from which stacks are taken out anywhere,   *)
(* always before they are freed.                                           *)
ImplementsPrevList == P!Spec

=============================================================================
