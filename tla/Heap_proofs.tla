---------------------------- MODULE Heap_proofs ----------------------------
(***************************************************************************)
(* Theorems about Heap: for any blocks and sizes, the ring and the list    *)
(* stay what their walks take them for, and the counters are exact.        *)
(*                                                                         *)
(* The inductive invariant grows by parts.  Typed, Roles and Owned say     *)
(* which tealet may have a saved stack and that a stack counts its owners; *)
(* Listed and Ringed give the sequence behind each set of pointers, which  *)
(* every step changes in one place; the counters need nothing more.        *)
(***************************************************************************)
EXTENDS Heap, FiniteSetTheorems, WellFoundedInduction, TLAPS

(* The types of all variables but the counters, with integers of any sign  *)
(* for these: that they are no less than 0 follows from their exactness.   *)
Typed ==
  /\ live \subseteq Tealets
  /\ next_tealet \in [Tealets -> Tealets] /\ prev_tealet \in [Tealets -> Tealets]
  /\ kind \in [Tealets -> {"new", "bound", "defunct", "exited"}]
  /\ stack \in [Tealets -> Stacks \cup {NULL}]
  /\ block \in [Stacks -> Blocks]
  /\ g_prev \in Stacks \cup {NULL}
  /\ g_current \in Tealets
  /\ transfer \in Transfers
  /\ lent \in {0, 1}

(* Who may have a saved stack, and what a transfer knows of its two sides. *)
Roles ==
  /\ Main \in live
  /\ \A t \in Tealets : t \notin live \/ kind[t] # "bound" => stack[t] = NULL
  /\ InUser => g_current \in live /\ kind[g_current] = "bound" /\ stack[g_current] = NULL
  /\ ~InUser =>
       /\ transfer.to \in live /\ kind[transfer.to] = "bound"
       /\ transfer.from \in Tealets \ {transfer.to}
       /\ transfer.starts # NULL =>
            /\ transfer.starts \in {transfer.from, transfer.to}
            /\ stack[transfer.to] = NULL /\ transfer.exits = "no"
  /\ transfer.at \in {"grow", "save"} =>
       transfer.from \in live /\ kind[transfer.from] = "bound" /\ stack[transfer.from] = NULL
  /\ transfer.exits # "no" => transfer.from # Main

Assignment == [Tealets -> Stacks \cup {NULL}]

(* How many tealets the assignment f of stacks to tealets gives stack x. *)
Count(f, x) == Cardinality({t \in Tealets : f[t] = x})

(* A saved stack counts the tealets that have it. *)
Owned == \A s \in Stacks : block[s].refcount = Count(stack, s)

---------------------------------------------------------------------------
(* Counting owners.                                                        *)

LEMMA CountNat ==
  ASSUME NEW f, NEW x
  PROVE  IsFiniteSet({t \in Tealets : f[t] = x}) /\ Count(f, x) \in Nat
<1>1. {t \in Tealets : f[t] = x} \in SUBSET Tealets
  OBVIOUS
<1> QED BY <1>1, HeapAssumption, FS_Subset, FS_CardinalityType DEF Count

LEMMA CountPositive ==
  ASSUME NEW f, NEW t \in Tealets
  PROVE  Count(f, f[t]) # 0
<1>1. {u \in Tealets : f[u] = f[t]} # {}
  OBVIOUS
<1> QED BY <1>1, CountNat, FS_EmptySet DEF Count

(* Giving stack s to c, which had none, adds one owner to s only. *)
LEMMA CountGain ==
  ASSUME NEW f \in Assignment, NEW c \in Tealets, NEW s \in Stacks, f[c] = NULL,
         NEW x \in Stacks
  PROVE  Count([f EXCEPT ![c] = s], x) = IF x = s THEN Count(f, x) + 1 ELSE Count(f, x)
<1> DEFINE g == [f EXCEPT ![c] = s]
           owners == {t \in Tealets : f[t] = x}
           owning == {t \in Tealets : g[t] = x}
<1>1. x # NULL
  BY HeapAssumption
<1>2. Count(f, x) = Cardinality(owners) /\ Count(g, x) = Cardinality(owning)
  BY DEF Count
<1>3. IsFiniteSet(owners)
  BY CountNat
<1>4. CASE x = s
  <2>1. owning = owners \cup {c}
    BY <1>4 DEF Assignment
  <2>2. c \notin owners
    BY <1>1
  <2> HIDE DEF owners, owning
  <2>3. Cardinality(owners \cup {c}) = Cardinality(owners) + 1
    BY <2>2, <1>3, FS_AddElement
  <2> QED BY <1>2, <1>4, <2>1, <2>3
<1>5. CASE x # s
  <2>1. owning = owners
    BY <1>1, <1>5 DEF Assignment
  <2> HIDE DEF owners, owning
  <2> QED BY <1>2, <1>5, <2>1
<1> QED BY <1>4, <1>5

(* Taking c's stack away removes one owner of that stack only. *)
LEMMA CountLose ==
  ASSUME NEW f \in Assignment, NEW c \in Tealets, NEW x \in Stacks
  PROVE  Count([f EXCEPT ![c] = NULL], x) =
           IF x = f[c] THEN Count(f, x) - 1 ELSE Count(f, x)
<1> DEFINE g == [f EXCEPT ![c] = NULL]
           owners == {t \in Tealets : f[t] = x}
           owning == {t \in Tealets : g[t] = x}
<1>1. x # NULL
  BY HeapAssumption
<1>2. Count(f, x) = Cardinality(owners) /\ Count(g, x) = Cardinality(owning)
  BY DEF Count
<1>3. IsFiniteSet(owners)
  BY CountNat
<1>4. CASE x = f[c]
  <2>1. owning = owners \ {c}
    BY <1>1, <1>4 DEF Assignment
  <2>2. c \in owners
    BY <1>4
  <2> HIDE DEF owners, owning
  <2>3. Cardinality(owners \ {c}) = Cardinality(owners) - 1
    BY <2>2, <1>3, FS_RemoveElement
  <2> QED BY <1>2, <1>4, <2>1, <2>3
<1>5. CASE x # f[c]
  <2>1. owning = owners
    BY <1>1, <1>5 DEF Assignment
  <2> HIDE DEF owners, owning
  <2> QED BY <1>2, <1>5, <2>1
<1> QED BY <1>4, <1>5

(* The stack of a tealet is in use. *)
LEMMA StackInUse ==
  ASSUME Typed, Owned, NEW t \in Tealets, stack[t] # NULL
  PROVE  stack[t] \in Used /\ block[stack[t]].refcount \in Nat \ {0}
<1>1. stack[t] \in Stacks
  BY DEF Typed
<1>2. block[stack[t]].refcount \in Nat
  BY <1>1 DEF Typed, Blocks
<1>3. block[stack[t]].refcount # 0
  BY <1>1, CountPositive DEF Owned
<1> QED BY <1>1, <1>2, <1>3 DEF Used

---------------------------------------------------------------------------
(* What each change of the blocks does to their fields.                    *)

LEMMA UnlinkedFields ==
  ASSUME NEW b \in [Stacks -> Blocks], NEW s \in Stacks
  PROVE  /\ Unlinked(b, s) \in [Stacks -> Blocks]
         /\ \A x \in Stacks : /\ Unlinked(b, s)[x].refcount = b[x].refcount
                              /\ Unlinked(b, s)[x].first = b[x].first
                              /\ Unlinked(b, s)[x].chunks = b[x].chunks
                              /\ Unlinked(b, s)[x].grown = b[x].grown
  BY DEF Unlinked, Blocks

LEMMA FreeIsBlock == Free \in Blocks
  BY DEF Free, Blocks

LEMMA GrownFields ==
  ASSUME Typed, NEW s \in Stacks, NEW size \in Sizes,
         NEW grown, \E full \in BOOLEAN : grown = Grown(s, size, full)
  PROVE  /\ grown \in [Stacks -> Blocks]
         /\ \A x \in Stacks :
              /\ grown[x].refcount = block[x].refcount
              /\ grown[x].first = block[x].first
              /\ grown[x].next = block[x].next
              /\ grown[x].prev = block[x].prev
              /\ grown[x].chunks = IF x = s THEN block[x].chunks + 1 ELSE block[x].chunks
              /\ grown[x].grown = IF x = s THEN block[x].grown + size ELSE block[x].grown
<1>1. PICK full \in BOOLEAN : grown = Grown(s, size, full)
  OBVIOUS
<1> DEFINE b == block[s]
           more == [b EXCEPT !.chunks = b.chunks + 1, !.grown = b.grown + size, !.partial = ~full]
<1>2. b \in Blocks
  BY DEF Typed
<1>3. b.chunks + 1 \in Nat /\ b.grown + size \in Nat
  <2>1. b.chunks \in Nat /\ b.grown \in Nat /\ size \in Nat
    BY <1>2, HeapAssumption DEF Blocks
  <2> QED BY <2>1
<1>4. more \in Blocks
  BY <1>2, <1>3 DEF Blocks
<1>5. /\ more.refcount = b.refcount /\ more.first = b.first /\ more.next = b.next
      /\ more.prev = b.prev /\ more.chunks = b.chunks + 1 /\ more.grown = b.grown + size
  BY <1>2 DEF Blocks
<1>6. grown = [block EXCEPT ![s] = more]
  BY <1>1 DEF Grown
<1> HIDE DEF more
<1> QED BY <1>4, <1>5, <1>6 DEF Typed

(* What grows by size bytes has been saved wholly, or not. *)
LEMMA GrownEither ==
  ASSUME NEW s, NEW size
  PROVE  /\ \E full \in BOOLEAN : Grown(s, size, TRUE) = Grown(s, size, full)
         /\ \E full \in BOOLEAN : Grown(s, size, FALSE) = Grown(s, size, full)
<1>1. TRUE \in BOOLEAN /\ FALSE \in BOOLEAN
  OBVIOUS
<1> QED BY <1>1, Zenon

(* A stack that a transfer makes defunct keeps its pointers for a moment. *)
Defuncted(s) == [block EXCEPT ![s] = [@ EXCEPT !.chunks = 0, !.grown = 0, !.defunct = TRUE]]

LEMMA DefunctedFields ==
  ASSUME Typed, NEW s \in Stacks
  PROVE  /\ Defuncted(s) \in [Stacks -> Blocks]
         /\ \A x \in Stacks : /\ Defuncted(s)[x].refcount = block[x].refcount
                              /\ Defuncted(s)[x].first = block[x].first
                              /\ Defuncted(s)[x].next = block[x].next
                              /\ Defuncted(s)[x].prev = block[x].prev
                              /\ Defuncted(s)[x].chunks = IF x = s THEN 0 ELSE block[x].chunks
                              /\ Defuncted(s)[x].grown = IF x = s THEN 0 ELSE block[x].grown
<1> DEFINE b == block[s]
           d == [b EXCEPT !.chunks = 0, !.grown = 0, !.defunct = TRUE]
<1>1. b \in Blocks
  BY DEF Typed
<1>2. d \in Blocks
  BY <1>1 DEF Blocks
<1>3. /\ d.refcount = b.refcount /\ d.first = b.first /\ d.next = b.next /\ d.prev = b.prev
      /\ d.chunks = 0 /\ d.grown = 0
  BY <1>1 DEF Blocks
<1>4. Defuncted(s) = [block EXCEPT ![s] = d]
  BY DEF Defuncted
<1> HIDE DEF d
<1> QED BY <1>2, <1>3, <1>4 DEF Typed

(* The block that a stack is saved in. *)
Saved(size, full) == [Free EXCEPT !.refcount = 1, !.first = size, !.partial = ~full]

LEMMA SavedFields ==
  ASSUME NEW size \in Sizes, NEW full \in BOOLEAN
  PROVE  /\ Saved(size, full) \in Blocks
         /\ Saved(size, full).refcount = 1 /\ Saved(size, full).first = size
         /\ Saved(size, full).chunks = 0 /\ Saved(size, full).grown = 0
         /\ Saved(size, full).prev = NULL
  BY HeapAssumption DEF Saved, Blocks, Free

LEMMA LinkedFields ==
  ASSUME Typed, NEW s \in Stacks, NEW b \in Blocks
  PROVE  /\ Linked(s, b) \in [Stacks -> Blocks]
         /\ \A x \in Stacks :
              /\ Linked(s, b)[x].refcount = IF x = s THEN b.refcount ELSE block[x].refcount
              /\ Linked(s, b)[x].first = IF x = s THEN b.first ELSE block[x].first
              /\ Linked(s, b)[x].chunks = IF x = s THEN b.chunks ELSE block[x].chunks
              /\ Linked(s, b)[x].grown = IF x = s THEN b.grown ELSE block[x].grown
  BY DEF Typed, Linked, Blocks

(* Giving up a reference counts one owner less, and frees the block when   *)
(* that was the last.                                                      *)
LEMMA DecrefFields ==
  ASSUME Typed, NEW s \in Stacks, block[s].refcount # 0, Decref(s)
  PROVE  /\ block' \in [Stacks -> Blocks] /\ g_prev' \in Stacks \cup {NULL}
         /\ \A x \in Stacks \ {s} : /\ block'[x].refcount = block[x].refcount
                                    /\ block'[x].first = block[x].first
                                    /\ block'[x].chunks = block[x].chunks
                                    /\ block'[x].grown = block[x].grown
         /\ block'[s].refcount = block[s].refcount - 1
         /\ block[s].refcount # 1 => /\ block'[s].first = block[s].first
                                     /\ block'[s].chunks = block[s].chunks
                                     /\ block'[s].grown = block[s].grown
<1>1. block[s] \in Blocks /\ block[s].refcount \in Nat
  BY DEF Typed, Blocks
<1>2. s # NULL
  BY HeapAssumption
<1>3. CASE block[s].refcount = 1 /\ block[s].prev # NULL
  <2>1. block' = [Unlinked(block, s) EXCEPT ![s] = Free] /\ g_prev' = HeadWithout(s)
    BY <1>2, <1>3 DEF Decref
  <2>2. HeadWithout(s) \in Stacks \cup {NULL}
    BY <1>1 DEF HeadWithout, Typed, Blocks
  <2>3. block \in [Stacks -> Blocks]
    BY DEF Typed
  <2> DEFINE u == Unlinked(block, s)
  <2>4. /\ u \in [Stacks -> Blocks]
        /\ \A x \in Stacks : /\ u[x].refcount = block[x].refcount
                             /\ u[x].first = block[x].first
                             /\ u[x].chunks = block[x].chunks
                             /\ u[x].grown = block[x].grown
    BY <2>3, UnlinkedFields
  <2>5. block' = [u EXCEPT ![s] = Free]
    BY <2>1
  <2> HIDE DEF u
  <2>6. block' \in [Stacks -> Blocks]
    BY <2>4, <2>5, FreeIsBlock
  <2>7. \A x \in Stacks : block'[x] = IF x = s THEN Free ELSE u[x]
    BY <2>4, <2>5
  <2> QED BY <1>3, <2>1, <2>2, <2>4, <2>6, <2>7 DEF Free
<1>4. CASE ~(block[s].refcount = 1 /\ block[s].prev # NULL)
  <2>1. /\ block' = [x \in Stacks |->
                       IF x # s THEN block[x]
                       ELSE IF block[x].refcount = 1 THEN Free
                       ELSE [block[x] EXCEPT !.refcount = @ - 1]]
        /\ g_prev' = g_prev
    BY <1>4 DEF Decref
  <2>2. CASE block[s].refcount = 1
    <3>1. block'[s] = Free /\ \A x \in Stacks \ {s} : block'[x] = block[x]
      BY <2>1, <2>2
    <3> QED BY <2>1, <2>2, <3>1, FreeIsBlock DEF Typed, Free
  <2>3. CASE block[s].refcount # 1
    <3> DEFINE less == [block[s] EXCEPT !.refcount = @ - 1]
    <3>1. /\ less \in Blocks /\ less.refcount = block[s].refcount - 1 /\ less.first = block[s].first
          /\ less.chunks = block[s].chunks /\ less.grown = block[s].grown
      BY <1>1, <2>3 DEF Blocks
    <3>2. block'[s] = less /\ \A x \in Stacks \ {s} : block'[x] = block[x]
      BY <2>1, <2>3
    <3> HIDE DEF less
    <3>3. block' \in [Stacks -> Blocks]
      BY <2>1, <3>1, <3>2 DEF Typed
    <3> QED BY <2>1, <3>1, <3>2, <3>3 DEF Typed
  <2> QED BY <2>2, <2>3
<1> QED BY <1>3, <1>4

LEMMA DecrefNull ==
  ASSUME Typed, Decref(NULL)
  PROVE  block' = block /\ g_prev' = g_prev
<1>1. block' = [x \in Stacks |-> block[x]] /\ g_prev' = g_prev
  BY HeapAssumption DEF Decref
<1> QED BY <1>1 DEF Typed

---------------------------------------------------------------------------
(* The types.                                                              *)

LEMMA TransferFields ==
  ASSUME Typed
  PROVE  /\ transfer \in Transfers
         /\ transfer.at \in {"user", "grow", "save", "restore"}
         /\ transfer.from \in Tealets \cup {NULL} /\ transfer.to \in Tealets \cup {NULL}
         /\ transfer.list \in Stacks \cup {NULL} /\ transfer.starts \in Tealets \cup {NULL}
         /\ transfer.exits \in Exits /\ transfer.fail_ok \in BOOLEAN
  BY DEF Typed, Transfers

LEMMA IdleIsTransfer == Idle \in Transfers
  BY DEF Idle, Transfers, Exits

LEMMA AllocatesTyped ==
  ASSUME Typed, NEW t \in Tealets, Allocates(t)
  PROVE  /\ live' \subseteq Tealets
         /\ next_tealet' \in [Tealets -> Tealets] /\ prev_tealet' \in [Tealets -> Tealets]
  BY HeapAssumption DEF Typed, Allocates, ListAdd

LEMMA FreesTyped ==
  ASSUME Typed, NEW t \in Tealets, NEW s, FreesTealet(t, s)
  PROVE  /\ live' \subseteq Tealets
         /\ next_tealet' \in [Tealets -> Tealets] /\ prev_tealet' \in [Tealets -> Tealets]
         /\ stack' \in [Tealets -> Stacks \cup {NULL}]
  BY DEF Typed, FreesTealet, ListRemove

LEMMA BeginsTyped ==
  ASSUME Typed, NEW from \in Tealets, NEW to \in Tealets, NEW starts \in Tealets \cup {NULL},
         NEW exits \in Exits, NEW fail_ok \in BOOLEAN, Begins(from, to, starts, exits, fail_ok),
         kind' \in [Tealets -> {"new", "bound", "defunct", "exited"}]
  PROVE  Typed'
<1>1. transfer' \in Transfers
  BY DEF Begins, Transfers, Typed
<1> QED BY <1>1 DEF Begins, Typed, ring

LEMMA WalksTyped ==
  ASSUME Typed, NEW s \in Stacks, WalksOn(s)
  PROVE  /\ transfer' \in Transfers
         /\ transfer'.list \in {NULL, block[s].next}
         /\ transfer'.at \in {transfer.at, "save"}
         /\ \/ s = Target /\ transfer'.at = "save" /\ transfer'.list = NULL
            \/ s # Target /\ transfer'.at = transfer.at /\ transfer'.list = block[s].next
         /\ transfer'.from = transfer.from /\ transfer'.to = transfer.to
         /\ transfer'.starts = transfer.starts /\ transfer'.exits = transfer.exits
         /\ transfer'.fail_ok = transfer.fail_ok
<1>1. block[s].next \in Stacks \cup {NULL}
  BY DEF Typed, Blocks
<1>2. transfer \in Transfers
  BY DEF Typed
<1>3. CASE s = Target
  <2>1. transfer' = [transfer EXCEPT !.at = "save", !.list = NULL]
    BY <1>3 DEF WalksOn
  <2> QED BY <1>2, <1>3, <2>1 DEF Transfers
<1>4. CASE s # Target
  <2>1. transfer' = [transfer EXCEPT !.list = block[s].next]
    BY <1>4 DEF WalksOn
  <2> QED BY <1>1, <1>2, <1>4, <2>1 DEF Transfers
<1> QED BY <1>3, <1>4

LEMMA TakesOutTyped ==
  ASSUME Typed, NEW s \in Stacks, NEW b \in [Stacks -> Blocks], TakesOut(b, s),
         UNCHANGED <<live, ring, kind, stack, g_current, lent>>
  PROVE  Typed'
<1>1. block' \in [Stacks -> Blocks]
  BY UnlinkedFields DEF TakesOut
<1>2. g_prev' \in Stacks \cup {NULL}
  BY DEF TakesOut, HeadWithout, Typed, Blocks
<1>3. transfer' \in Transfers
  BY WalksTyped DEF TakesOut
<1> QED BY <1>1, <1>2, <1>3 DEF Typed, ring

LEMMA GivesUpTyped == ASSUME Typed, Roles, ~InUser, GivesUp PROVE Typed'
<1>1. transfer.to \in Tealets /\ transfer.from \in Tealets
  BY DEF Roles, Typed
<1>2. transfer' \in Transfers /\ g_current' \in Tealets
  BY <1>1, IdleIsTransfer DEF GivesUp
<1>3. kind' \in [Tealets -> {"new", "bound", "defunct", "exited"}]
  BY DEF GivesUp, Typed
<1> QED BY <1>2, <1>3 DEF GivesUp, Typed, ring

LEMMA DuplicateTyped ==
  ASSUME Typed, Owned, NEW t \in Tealets, NEW copy \in Tealets, Duplicate(t, copy)
  PROVE  Typed'
<1>1. /\ kind' \in [Tealets -> {"new", "bound", "defunct", "exited"}]
      /\ stack' \in [Tealets -> Stacks \cup {NULL}]
  BY DEF Duplicate, Typed
<1>2. block' \in [Stacks -> Blocks]
  <2>1. CASE stack[t] = NULL
    BY <2>1 DEF Duplicate, Typed
  <2>2. CASE stack[t] # NULL
    <3>1. PICK s \in Stacks : s = stack[t]
      BY <2>2 DEF Typed
    <3>2. block[s] \in Blocks /\ block[s].refcount + 1 \in Nat
      BY DEF Typed, Blocks
    <3>3. [block[s] EXCEPT !.refcount = @ + 1] \in Blocks
      BY <3>2 DEF Blocks
    <3>4. block' = [block EXCEPT ![s] = [block[s] EXCEPT !.refcount = @ + 1]]
      BY <2>2, <3>1 DEF Duplicate
    <3> QED BY <3>3, <3>4 DEF Typed
  <2> QED BY <2>1, <2>2
<1> QED BY <1>1, <1>2, AllocatesTyped DEF Duplicate, Typed

LEMMA DecrefTyped ==
  ASSUME Typed, Owned, NEW t \in Tealets, Decref(stack[t])
  PROVE  block' \in [Stacks -> Blocks] /\ g_prev' \in Stacks \cup {NULL}
<1>1. CASE stack[t] = NULL
  BY <1>1, DecrefNull DEF Typed
<1>2. CASE stack[t] # NULL
  <2>1. stack[t] \in Stacks /\ block[stack[t]].refcount # 0
    BY <1>2, StackInUse DEF Typed
  <2> QED BY <2>1, DecrefFields
<1> QED BY <1>1, <1>2

LEMMA SaveTyped ==
  ASSUME Typed, Roles, NEW s \in Stacks, NEW size \in Sizes, NEW full \in BOOLEAN,
         Save(s, size, full)
  PROVE  Typed'
<1> DEFINE new == Saved(size, full)
<1>1. new \in Blocks
  BY SavedFields
<1>2. IF full THEN block' = [block EXCEPT ![s] = new] /\ UNCHANGED g_prev
              ELSE block' = Linked(s, new) /\ g_prev' = s
  BY DEF Save, Saved
<1> HIDE DEF new
<1>3. block' \in [Stacks -> Blocks] /\ g_prev' \in Stacks \cup {NULL}
  <2>1. CASE full
    BY <1>1, <1>2, <2>1 DEF Typed
  <2>2. CASE ~full
    BY <1>1, <1>2, <2>2, LinkedFields
  <2> QED BY <2>1, <2>2
<1>4. stack' \in [Tealets -> Stacks \cup {NULL}]
  BY DEF Save, Typed
<1>5. transfer' \in Transfers
  BY DEF Save, Typed, Transfers
<1> QED BY <1>3, <1>4, <1>5 DEF Save, Typed, ring

LEMMA RestoreTyped == ASSUME Typed, Roles, Owned, Restore PROVE Typed'
<1>1. transfer.to \in Tealets
  BY DEF Restore, InUser, Roles, Typed
<1>2. block' \in [Stacks -> Blocks] /\ g_prev' \in Stacks \cup {NULL}
  BY <1>1, DecrefTyped DEF Restore, Target
<1>3. stack' \in [Tealets -> Stacks \cup {NULL}] /\ transfer' \in Transfers
  BY IdleIsTransfer DEF Restore, Typed
<1> QED BY <1>1, <1>2, <1>3 DEF Restore, Typed, ring

LEMMA NextTyped == ASSUME Typed, Roles, Owned, Next PROVE Typed'
<1>1. ASSUME NEW t \in Tealets, New(t) PROVE Typed'
  BY <1>1, AllocatesTyped DEF New, Typed
<1>2. ASSUME NEW t \in Tealets, Delete(t) PROVE Typed'
  <2>1. block' \in [Stacks -> Blocks] /\ g_prev' \in Stacks \cup {NULL}
    BY <1>2, DecrefTyped DEF Delete
  <2> QED BY <1>2, <2>1, FreesTyped DEF Delete, Typed
<1>3. ASSUME NEW t \in Tealets, NEW copy \in Tealets, Duplicate(t, copy) PROVE Typed'
  BY <1>3, DuplicateTyped
<1>4. ASSUME NEW t \in Tealets, NEW switched \in BOOLEAN, BeginStart(t, switched) PROVE Typed'
  <2>1. kind' \in [Tealets -> {"new", "bound", "defunct", "exited"}]
    BY <1>4 DEF BeginStart, Typed
  <2>2. g_current \in Tealets /\ "no" \in Exits /\ TRUE \in BOOLEAN
    BY DEF Typed, Exits
  <2>3. Begins(g_current, t, t, "no", TRUE) \/ Begins(t, g_current, t, "no", TRUE)
    BY <1>4 DEF BeginStart
  <2> QED BY <2>1, <2>2, <2>3, BeginsTyped
<1>5. ASSUME NEW t \in Tealets, NEW exits \in Exits, NEW force \in BOOLEAN,
             BeginTransfer(t, exits, force)
      PROVE  Typed'
  <2> DEFINE fail_ok == ~force \/ g_current = Main
  <2>1. fail_ok \in BOOLEAN
    OBVIOUS
  <2>2. Begins(g_current, t, NULL, exits, fail_ok)
    BY <1>5 DEF BeginTransfer
  <2>3. kind' \in [Tealets -> {"new", "bound", "defunct", "exited"}] /\ g_current \in Tealets
    BY <1>5 DEF BeginTransfer, Typed
  <2> HIDE DEF fail_ok
  <2> QED BY <2>1, <2>2, <2>3, BeginsTyped
<1>6. CASE EndOfList
  BY <1>6 DEF EndOfList, Typed, Transfers, ring
<1>7. CASE SaveFails
  BY <1>7, GivesUpTyped DEF SaveFails, InUser
<1>8. CASE SaveDefunct
  BY <1>8 DEF SaveDefunct, Typed, Transfers, ring
<1>9. CASE LeaveExited
  BY <1>9 DEF LeaveExited, Typed, Transfers, ring
<1>10. CASE LeaveDeleted
  <2>1. transfer.from \in Tealets
    BY <1>10 DEF LeaveDeleted, InUser, Roles
  <2>2. transfer' \in Transfers /\ kind' \in [Tealets -> {"new", "bound", "defunct", "exited"}]
    BY <1>10 DEF LeaveDeleted, Typed, Transfers
  <2> QED BY <1>10, <2>1, <2>2, FreesTyped DEF LeaveDeleted, Typed
<1>11. CASE Restore
  BY <1>11, RestoreTyped
<1>12. ASSUME NEW s \in Stacks, PassTarget(s) PROVE Typed'
  BY <1>12, TakesOutTyped DEF PassTarget, Typed
<1>13. ASSUME NEW s \in Stacks, Pass(s) PROVE Typed'
  BY <1>13, WalksTyped DEF Pass, Typed, ring
<1>14. ASSUME NEW s \in Stacks, GrowFails(s) PROVE Typed'
  BY <1>14, GivesUpTyped DEF GrowFails, At, InUser
<1>15. ASSUME NEW s \in Stacks, GrowDefunct(s) PROVE Typed'
  <2>1. TakesOut(Defuncted(s), s)
    BY <1>15 DEF GrowDefunct, Defuncted
  <2> QED BY <1>15, <2>1, DefunctedFields, TakesOutTyped DEF GrowDefunct
<1>16. ASSUME NEW s \in Stacks, NEW size \in Sizes, GrowPart(s, size) PROVE Typed'
  <2>1. block' \in [Stacks -> Blocks]
    BY <1>16, GrownEither, GrownFields DEF GrowPart
  <2> QED BY <1>16, <2>1, WalksTyped DEF GrowPart, Typed, ring
<1>17. ASSUME NEW s \in Stacks, NEW size \in Sizes, GrowWhole(s, size) PROVE Typed'
  <2>1. Grown(s, size, TRUE) \in [Stacks -> Blocks]
    BY GrownEither, GrownFields
  <2> QED BY <1>17, <2>1, TakesOutTyped DEF GrowWhole
<1>18. ASSUME NEW s \in Stacks, NEW size \in Sizes, NEW full \in BOOLEAN, Save(s, size, full)
       PROVE  Typed'
  BY <1>18, SaveTyped
<1>19. CASE Lend \/ Reclaim
  BY <1>19 DEF Lend, Reclaim, Typed, ring
<1> QED BY <1>1, <1>2, <1>3, <1>4, <1>5, <1>6, <1>7, <1>8, <1>9, <1>10, <1>11, <1>12, <1>13,
           <1>14, <1>15, <1>16, <1>17, <1>18, <1>19 DEF Next

---------------------------------------------------------------------------
(* Roles and owners.                                                       *)

LEMMA WalkRoles ==
  ASSUME Typed, Roles, transfer.at = "grow", NEW s \in Stacks, WalksOn(s),
         UNCHANGED <<live, kind, stack, g_current>>
  PROVE  Roles'
<1>1. /\ transfer'.at \in {"grow", "save"}
      /\ transfer'.from = transfer.from /\ transfer'.to = transfer.to
      /\ transfer'.starts = transfer.starts /\ transfer'.exits = transfer.exits
  BY WalksTyped
<1> QED BY <1>1 DEF Roles, InUser

LEMMA GivesUpRoles ==
  ASSUME Typed, Roles, transfer.at \in {"grow", "save"}, GivesUp
  PROVE  Roles'
<1> DEFINE from == transfer.from
           to == transfer.to
           starts == transfer.starts
<1>1. /\ Main \in live /\ to \in live /\ kind[to] = "bound"
      /\ from \in Tealets \ {to} /\ from \in live /\ kind[from] = "bound" /\ stack[from] = NULL
      /\ starts # NULL => starts \in {from, to} /\ stack[to] = NULL
      /\ live \subseteq Tealets /\ NULL \notin Tealets
  BY HeapAssumption DEF Roles, InUser, Typed
<1>2. /\ transfer' = Idle /\ g_current' = IF starts = from THEN to ELSE from
      /\ kind' = [t \in Tealets |-> IF t = starts THEN "new" ELSE kind[t]]
      /\ live' = live /\ stack' = stack
  BY DEF GivesUp
<1>3. transfer'.at = "user" /\ transfer'.exits = "no"
  BY <1>2 DEF Idle
<1>4. \A t \in Tealets : t \notin live \/ kind'[t] # "bound" => stack[t] = NULL
  BY <1>1, <1>2 DEF Roles
<1>5. g_current' \in live /\ kind'[g_current'] = "bound" /\ stack[g_current'] = NULL
  BY <1>1, <1>2
<1> HIDE DEF from, to, starts
<1> QED BY <1>1, <1>2, <1>3, <1>4, <1>5 DEF Roles, InUser

LEMMA BeginsRoles ==
  ASSUME Typed, Roles, InUser, NEW from \in Tealets, NEW to \in Tealets \ {from},
         NEW starts \in Tealets \cup {NULL}, NEW exits \in Exits, NEW fail_ok,
         Begins(from, to, starts, exits, fail_ok),
         from \in live, to \in live, kind'[from] = "bound", kind'[to] = "bound",
         stack[from] = NULL, exits # "no" => from # Main,
         starts # NULL => starts \in {from, to} /\ stack[to] = NULL /\ exits = "no",
         \A t \in Tealets : kind'[t] \in {kind[t], "bound"}
  PROVE  Roles'
<1>1. /\ transfer'.at = "grow" /\ transfer'.from = from /\ transfer'.to = to
      /\ transfer'.starts = starts /\ transfer'.exits = exits
      /\ live' = live /\ stack' = stack
  BY DEF Begins
<1> QED BY <1>1 DEF Roles, InUser

LEMMA LeavesRoles ==
  ASSUME Typed, Roles, transfer.at = "save", transfer' = [transfer EXCEPT !.at = "restore"],
         live' \in {live, live \ {transfer.from}}, transfer.from # Main \/ live' = live,
         kind' = kind \/ \E k \in {"defunct", "exited"} :
                           kind' = [kind EXCEPT ![transfer.from] = k],
         stack' = stack \/ stack' = [stack EXCEPT ![transfer.from] = NULL]
  PROVE  Roles'
<1> DEFINE from == transfer.from
           to == transfer.to
<1>1. /\ Main \in live /\ to \in live /\ kind[to] = "bound" /\ to \in Tealets
      /\ from \in Tealets \ {to} /\ stack[from] = NULL
      /\ transfer.starts # NULL =>
           transfer.starts \in {from, to} /\ stack[to] = NULL /\ transfer.exits = "no"
      /\ transfer.exits # "no" => from # Main
  BY DEF Roles, InUser, Typed
<1>2. /\ transfer'.at = "restore" /\ transfer'.from = from /\ transfer'.to = to
      /\ transfer'.starts = transfer.starts /\ transfer'.exits = transfer.exits
  BY TransferFields DEF Transfers
<1>3. stack' = stack
  BY <1>1 DEF Typed
<1>4. kind'[to] = "bound" /\ \A t \in Tealets \ {from} : kind'[t] = kind[t]
  BY <1>1 DEF Typed
<1>5. \A t \in Tealets : t \notin live' \/ kind'[t] # "bound" => stack[t] = NULL
  BY <1>1, <1>4 DEF Roles
<1>6. Main \in live' /\ to \in live'
  BY <1>1
<1> HIDE DEF from, to
<1> QED BY <1>1, <1>2, <1>3, <1>4, <1>5, <1>6 DEF Roles, InUser

LEMMA NextRoles == ASSUME Typed, Roles, Next PROVE Roles'
<1>1. ASSUME NEW t \in Tealets, New(t) PROVE Roles'
  BY <1>1 DEF New, Allocates, Roles, InUser, Typed
<1>2. ASSUME NEW t \in Tealets, Delete(t) PROVE Roles'
  BY <1>2 DEF Delete, FreesTealet, Roles, InUser, Typed
<1>3. ASSUME NEW t \in Tealets, NEW copy \in Tealets, Duplicate(t, copy) PROVE Roles'
  BY <1>3 DEF Duplicate, Allocates, Roles, InUser, Typed
<1>4. ASSUME NEW t \in Tealets, NEW switched \in BOOLEAN, BeginStart(t, switched) PROVE Roles'
  <2> DEFINE c == g_current
  <2>1. /\ InUser /\ t \in live /\ kind[t] = "new" /\ kind' = [kind EXCEPT ![t] = "bound"]
        /\ Begins(c, t, t, "no", TRUE) \/ Begins(t, c, t, "no", TRUE)
    BY <1>4 DEF BeginStart
  <2>2. c \in live /\ c \in Tealets /\ kind[c] = "bound" /\ stack[c] = NULL
    BY <2>1 DEF Roles, Typed
  <2>3. stack[t] = NULL
    BY <2>1 DEF Roles
  <2>4. kind'[t] = "bound" /\ kind'[c] = "bound" /\ c # t
        /\ \A u \in Tealets : kind'[u] \in {kind[u], "bound"}
    BY <2>1, <2>2 DEF Typed
  <2>5. "no" \in Exits
    BY DEF Exits
  <2> HIDE DEF c
  <2> QED BY <2>1, <2>2, <2>3, <2>4, <2>5, BeginsRoles
<1>5. ASSUME NEW t \in Tealets, NEW exits \in Exits, NEW force \in BOOLEAN,
             BeginTransfer(t, exits, force)
      PROVE  Roles'
  <2> DEFINE c == g_current
             fail_ok == ~force \/ g_current = Main
  <2>1. /\ InUser /\ t \in live \ {c} /\ kind[t] = "bound" /\ kind' = kind
        /\ exits # "no" => c # Main
        /\ Begins(c, t, NULL, exits, fail_ok)
    BY <1>5 DEF BeginTransfer
  <2>2. c \in live /\ c \in Tealets /\ kind[c] = "bound" /\ stack[c] = NULL
    BY <2>1 DEF Roles, Typed
  <2> HIDE DEF c, fail_ok
  <2> QED BY <2>1, <2>2, BeginsRoles
<1>6. CASE EndOfList
  BY <1>6, TransferFields DEF EndOfList, At, Roles, InUser, Transfers
<1>7. CASE SaveFails
  BY <1>7, GivesUpRoles DEF SaveFails
<1>8. CASE SaveDefunct
  BY <1>8, LeavesRoles DEF SaveDefunct
<1>9. CASE LeaveExited
  BY <1>9, LeavesRoles DEF LeaveExited
<1>10. CASE LeaveDeleted
  <2>1. transfer.from # Main
    BY <1>10 DEF LeaveDeleted, Roles
  <2> QED BY <1>10, <2>1, LeavesRoles DEF LeaveDeleted, FreesTealet
<1>11. CASE Restore
  <2>1. /\ transfer.to \in live /\ kind[transfer.to] = "bound" /\ Main \in live
        /\ transfer' = Idle /\ g_current' = transfer.to /\ live' = live /\ kind' = kind
        /\ stack' = [stack EXCEPT ![transfer.to] = NULL]
    BY <1>11 DEF Restore, Roles, InUser
  <2>2. transfer'.at = "user" /\ transfer'.exits = "no"
    BY <2>1 DEF Idle
  <2> QED BY <2>1, <2>2 DEF Roles, InUser, Typed
<1>12. ASSUME NEW s \in Stacks, PassTarget(s) PROVE Roles'
  BY <1>12, WalkRoles DEF PassTarget, At, TakesOut
<1>13. ASSUME NEW s \in Stacks, Pass(s) PROVE Roles'
  BY <1>13, WalkRoles DEF Pass, At
<1>14. ASSUME NEW s \in Stacks, GrowFails(s) PROVE Roles'
  BY <1>14, GivesUpRoles DEF GrowFails, At
<1>15. ASSUME NEW s \in Stacks, GrowDefunct(s) PROVE Roles'
  BY <1>15, WalkRoles DEF GrowDefunct, At, TakesOut
<1>16. ASSUME NEW s \in Stacks, NEW size \in Sizes, GrowPart(s, size) PROVE Roles'
  BY <1>16, WalkRoles DEF GrowPart, At
<1>17. ASSUME NEW s \in Stacks, NEW size \in Sizes, GrowWhole(s, size) PROVE Roles'
  BY <1>17, WalkRoles DEF GrowWhole, At, TakesOut
<1>18. ASSUME NEW s \in Stacks, NEW size \in Sizes, NEW full \in BOOLEAN, Save(s, size, full)
       PROVE  Roles'
  <2> DEFINE from == transfer.from
             to == transfer.to
  <2>1. /\ Main \in live /\ to \in live /\ kind[to] = "bound" /\ to \in Tealets
        /\ from \in Tealets \ {to} /\ from \in live /\ kind[from] = "bound"
        /\ transfer.starts # NULL => transfer.starts \in {from, to} /\ stack[to] = NULL
        /\ transfer.exits = "no"
    BY <1>18 DEF Save, Roles, InUser, Typed
  <2>2. /\ transfer' = [transfer EXCEPT !.at = "restore"] /\ live' = live /\ kind' = kind
        /\ stack' = [stack EXCEPT ![from] = s]
    BY <1>18 DEF Save
  <2>3. /\ transfer'.at = "restore" /\ transfer'.from = from /\ transfer'.to = to
        /\ transfer'.starts = transfer.starts /\ transfer'.exits = "no"
    BY <2>1, <2>2, TransferFields DEF Transfers
  <2>4. \A t \in Tealets : t \notin live \/ kind[t] # "bound" => stack'[t] = NULL
    BY <2>1, <2>2 DEF Roles, Typed
  <2>5. transfer.starts # NULL => stack'[to] = NULL
    BY <2>1, <2>2 DEF Typed
  <2> HIDE DEF from, to
  <2> QED BY <2>1, <2>2, <2>3, <2>4, <2>5 DEF Roles, InUser
<1>19. CASE Lend \/ Reclaim
  BY <1>19 DEF Lend, Reclaim, Roles, InUser
<1> QED BY <1>1, <1>2, <1>3, <1>4, <1>5, <1>6, <1>7, <1>8, <1>9, <1>10, <1>11, <1>12, <1>13,
           <1>14, <1>15, <1>16, <1>17, <1>18, <1>19 DEF Next

LEMMA OwnedIfUnchanged ==
  ASSUME Owned, UNCHANGED stack, \A x \in Stacks : block'[x].refcount = block[x].refcount
  PROVE  Owned'
  BY DEF Owned, Count

(* What a tealet that is freed or restored does to its saved stack. *)
LEMMA DecrefOwned ==
  ASSUME Typed, Owned, NEW t \in Tealets, Decref(stack[t]), stack' = [stack EXCEPT ![t] = NULL]
  PROVE  Owned'
<1>1. CASE stack[t] = NULL
  <2>1. stack' = stack
    BY <1>1 DEF Typed
  <2> QED BY <1>1, <2>1, DecrefNull, OwnedIfUnchanged
<1>2. CASE stack[t] # NULL
  <2>1. stack[t] \in Stacks /\ block[stack[t]].refcount # 0
    BY <1>2, StackInUse DEF Typed
  <2>2. /\ \A x \in Stacks \ {stack[t]} : block'[x].refcount = block[x].refcount
        /\ block'[stack[t]].refcount = block[stack[t]].refcount - 1
    BY <2>1, DecrefFields
  <2>3. stack \in Assignment
    BY DEF Typed, Assignment
  <2>4. \A x \in Stacks :
          Count(stack', x) = IF x = stack[t] THEN Count(stack, x) - 1 ELSE Count(stack, x)
    BY <2>3, CountLose
  <2> QED BY <2>1, <2>2, <2>4 DEF Owned
<1> QED BY <1>1, <1>2

LEMMA GainOwned ==
  ASSUME Typed, Owned, NEW t \in Tealets, stack[t] = NULL, NEW s \in Stacks,
         stack' = [stack EXCEPT ![t] = s],
         \A x \in Stacks :
           block'[x].refcount = IF x = s THEN block[x].refcount + 1 ELSE block[x].refcount
  PROVE  Owned'
<1>1. stack \in Assignment
  BY DEF Typed, Assignment
<1>2. \A x \in Stacks : Count(stack', x) = IF x = s THEN Count(stack, x) + 1 ELSE Count(stack, x)
  BY <1>1, CountGain
<1> QED BY <1>2 DEF Owned

LEMMA TakesOutOwned ==
  ASSUME Owned, NEW s \in Stacks, NEW b \in [Stacks -> Blocks], TakesOut(b, s), UNCHANGED stack,
         \A x \in Stacks : b[x].refcount = block[x].refcount
  PROVE  Owned'
<1>1. \A x \in Stacks : block'[x].refcount = block[x].refcount
  BY UnlinkedFields DEF TakesOut
<1> QED BY <1>1, OwnedIfUnchanged

LEMMA DuplicateOwned ==
  ASSUME Typed, Roles, Owned, NEW t \in Tealets, NEW copy \in Tealets, Duplicate(t, copy)
  PROVE  Owned'
<1>1. stack[copy] = NULL
  BY DEF Duplicate, Allocates, Roles
<1>2. CASE stack[t] = NULL
  BY <1>1, <1>2, OwnedIfUnchanged DEF Duplicate, Typed
<1>3. CASE stack[t] # NULL
  <2>1. PICK s \in Stacks : s = stack[t]
    BY <1>3 DEF Typed
  <2>2. block' = [block EXCEPT ![s].refcount = @ + 1] /\ stack' = [stack EXCEPT ![copy] = s]
    BY <1>3, <2>1 DEF Duplicate
  <2>3. \A x \in Stacks :
          block'[x].refcount = IF x = s THEN block[x].refcount + 1 ELSE block[x].refcount
    BY <2>2 DEF Typed, Blocks
  <2> QED BY <1>1, <2>2, <2>3, GainOwned
<1> QED BY <1>2, <1>3

LEMMA SaveOwned ==
  ASSUME Typed, Roles, Owned, NEW s \in Stacks, NEW size \in Sizes, NEW full \in BOOLEAN,
         Save(s, size, full)
  PROVE  Owned'
<1> DEFINE new == Saved(size, full)
<1>1. new \in Blocks /\ new.refcount = 1
  BY SavedFields
<1>2. IF full THEN block' = [block EXCEPT ![s] = new] ELSE block' = Linked(s, new)
  BY DEF Save, Saved
<1>3. block[s].refcount = 0
  <2>1. s \notin Used
    BY DEF Save
  <2> QED BY <2>1 DEF Used, Typed, Blocks
<1> HIDE DEF new
<1>4. \A x \in Stacks :
        block'[x].refcount = IF x = s THEN block[x].refcount + 1 ELSE block[x].refcount
  <2>1. CASE full
    BY <1>1, <1>2, <1>3, <2>1 DEF Typed
  <2>2. CASE ~full
    <3>1. \A x \in Stacks :
            Linked(s, new)[x].refcount = IF x = s THEN new.refcount ELSE block[x].refcount
      BY <1>1, LinkedFields
    <3> QED BY <1>1, <1>2, <1>3, <2>2, <3>1
  <2> QED BY <2>1, <2>2
<1>5. transfer.from \in Tealets /\ stack[transfer.from] = NULL
      /\ stack' = [stack EXCEPT ![transfer.from] = s]
  BY DEF Save, Roles, Typed
<1> QED BY <1>4, <1>5, GainOwned

LEMMA NextOwned == ASSUME Typed, Roles, Owned, Next PROVE Owned'
<1>1. ASSUME NEW t \in Tealets, New(t) PROVE Owned'
  <2>1. stack[t] = NULL
    BY <1>1 DEF New, Allocates, Roles
  <2> QED BY <1>1, <2>1, OwnedIfUnchanged DEF New, Typed
<1>2. ASSUME NEW t \in Tealets, Delete(t) PROVE Owned'
  BY <1>2, DecrefOwned DEF Delete, FreesTealet
<1>3. ASSUME NEW t \in Tealets, NEW copy \in Tealets, Duplicate(t, copy) PROVE Owned'
  BY <1>3, DuplicateOwned
<1>4. ASSUME NEW t \in Tealets, NEW switched \in BOOLEAN, BeginStart(t, switched) PROVE Owned'
  BY <1>4, OwnedIfUnchanged DEF BeginStart, Begins
<1>5. ASSUME NEW t \in Tealets, NEW exits \in Exits, NEW force \in BOOLEAN,
             BeginTransfer(t, exits, force)
      PROVE  Owned'
  BY <1>5, OwnedIfUnchanged DEF BeginTransfer, Begins
<1>6. CASE EndOfList \/ SaveFails \/ SaveDefunct \/ LeaveExited
  BY <1>6, OwnedIfUnchanged DEF EndOfList, SaveFails, GivesUp, SaveDefunct, LeaveExited
<1>7. CASE LeaveDeleted
  <2>1. transfer.from \in Tealets /\ stack[transfer.from] = NULL
    BY <1>7 DEF LeaveDeleted, Roles, Typed
  <2>2. stack' = stack
    BY <1>7, <2>1 DEF LeaveDeleted, FreesTealet, Typed
  <2> QED BY <1>7, <2>2, OwnedIfUnchanged DEF LeaveDeleted
<1>8. CASE Restore
  <2>1. transfer.to \in Tealets
    BY <1>8 DEF Restore, InUser, Roles, Typed
  <2> QED BY <1>8, <2>1, DecrefOwned DEF Restore, Target
<1>9. ASSUME NEW s \in Stacks, PassTarget(s) PROVE Owned'
  BY <1>9, TakesOutOwned DEF PassTarget, Typed
<1>10. ASSUME NEW s \in Stacks, Pass(s) PROVE Owned'
  BY <1>10, OwnedIfUnchanged DEF Pass
<1>11. ASSUME NEW s \in Stacks, GrowFails(s) PROVE Owned'
  BY <1>11, OwnedIfUnchanged DEF GrowFails, GivesUp
<1>12. ASSUME NEW s \in Stacks, GrowDefunct(s) PROVE Owned'
  <2>1. TakesOut(Defuncted(s), s)
    BY <1>12 DEF GrowDefunct, Defuncted
  <2> QED BY <1>12, <2>1, DefunctedFields, TakesOutOwned DEF GrowDefunct
<1>13. ASSUME NEW s \in Stacks, NEW size \in Sizes, GrowPart(s, size) PROVE Owned'
  <2>1. \E full \in BOOLEAN : block' = Grown(s, size, full)
    BY <1>13, GrownEither DEF GrowPart
  <2>2. \A x \in Stacks : block'[x].refcount = block[x].refcount
    BY <2>1, GrownFields
  <2> QED BY <1>13, <2>2, OwnedIfUnchanged DEF GrowPart
<1>14. ASSUME NEW s \in Stacks, NEW size \in Sizes, GrowWhole(s, size) PROVE Owned'
  <2> DEFINE grown == Grown(s, size, TRUE)
  <2>1. TakesOut(grown, s) /\ UNCHANGED stack
    BY <1>14 DEF GrowWhole
  <2>2. \E full \in BOOLEAN : grown = Grown(s, size, full)
    BY GrownEither
  <2> HIDE DEF grown
  <2>3. grown \in [Stacks -> Blocks] /\ \A x \in Stacks : grown[x].refcount = block[x].refcount
    BY <2>2, GrownFields
  <2> QED BY <2>1, <2>3, TakesOutOwned
<1>15. ASSUME NEW s \in Stacks, NEW size \in Sizes, NEW full \in BOOLEAN, Save(s, size, full)
       PROVE  Owned'
  BY <1>15, SaveOwned
<1>16. CASE Lend \/ Reclaim
  BY <1>16, OwnedIfUnchanged DEF Lend, Reclaim
<1> QED BY <1>1, <1>2, <1>3, <1>4, <1>5, <1>6, <1>7, <1>8, <1>9, <1>10, <1>11, <1>12, <1>13,
           <1>14, <1>15, <1>16 DEF Next

---------------------------------------------------------------------------
(* The list.                                                               *)

(* The n stacks q are the list: g points to the first, and each to its     *)
(* neighbours.  No stack is linked that is not among them.                 *)
ChainBy(B, g, n, q) ==
  /\ \A i, j \in 1 .. n : q[i] = q[j] => i = j
  /\ g = IF n = 0 THEN NULL ELSE q[1]
  /\ \A i \in 1 .. n : /\ B[q[i]].next = IF i < n THEN q[i + 1] ELSE NULL
                       /\ B[q[i]].prev = IF i = 1 THEN Head ELSE q[i - 1]
                       /\ B[q[i]].refcount > 0
  /\ \A s \in Stacks : B[s].prev # NULL => \E i \in 1 .. n : q[i] = s

Listed == \E n \in Nat : \E q \in [1 .. n -> Stacks] : ChainBy(block, g_prev, n, q)

LEMMA ChainLinked ==
  ASSUME NEW B, NEW g, NEW n \in Nat, NEW q \in [1 .. n -> Stacks], ChainBy(B, g, n, q)
  PROVE  \A i \in 1 .. n : q[i] \in Stacks /\ B[q[i]].prev # NULL
<1> SUFFICES ASSUME NEW i \in 1 .. n PROVE q[i] \in Stacks /\ B[q[i]].prev # NULL
  OBVIOUS
<1>1. B[q[i]].prev = IF i = 1 THEN Head ELSE q[i - 1]
  BY DEF ChainBy
<1>2. i # 1 => q[i - 1] \in Stacks
  OBVIOUS
<1> QED BY <1>1, <1>2, HeapAssumption

(* Only the pointers of linked stacks matter. *)
LEMMA ChainKeeps ==
  ASSUME NEW B, NEW C, NEW g, NEW n \in Nat, NEW q \in [1 .. n -> Stacks], ChainBy(B, g, n, q),
         \A x \in Stacks : /\ C[x].prev = B[x].prev
                           /\ B[x].prev # NULL => C[x].next = B[x].next /\ C[x].refcount > 0
  PROVE  ChainBy(C, g, n, q)
<1>1. \A i \in 1 .. n : q[i] \in Stacks /\ B[q[i]].prev # NULL
  BY ChainLinked
<1> QED BY <1>1 DEF ChainBy

Pushed(s, n, q) == [i \in 1 .. n + 1 |-> IF i = 1 THEN s ELSE q[i - 1]]

(* A stack that is saved goes to the front. *)
LEMMA ChainPushed ==
  ASSUME Typed, NEW n \in Nat, NEW q \in [1 .. n -> Stacks], ChainBy(block, g_prev, n, q),
         NEW s \in Stacks, block[s].refcount = 0, NEW b \in Blocks, b.refcount > 0
  PROVE  /\ Pushed(s, n, q) \in [1 .. n + 1 -> Stacks]
         /\ ChainBy(Linked(s, b), s, n + 1, Pushed(s, n, q))
<1> DEFINE C == Linked(s, b)
           r == Pushed(s, n, q)
<1>1. r \in [1 .. n + 1 -> Stacks] /\ r[1] = s /\ \A i \in 2 .. n + 1 : r[i] = q[i - 1]
  BY DEF Pushed
<1>2. \A i \in 1 .. n : q[i] # s /\ q[i] \in Stacks
  BY DEF ChainBy
<1>3. g_prev # s /\ g_prev = IF n = 0 THEN NULL ELSE q[1]
  BY <1>2, HeapAssumption DEF ChainBy
<1>4. C[s].next = g_prev /\ C[s].prev = Head /\ C[s].refcount = b.refcount
  BY DEF Linked, Blocks
<1>5. \A x \in Stacks \ {s} : /\ C[x].next = block[x].next /\ C[x].refcount = block[x].refcount
                              /\ C[x].prev = IF x = g_prev THEN s ELSE block[x].prev
  BY DEF Linked, Blocks, Typed
<1> HIDE DEF C, r
<1>6. \A i, j \in 1 .. n + 1 : r[i] = r[j] => i = j
  <2> SUFFICES ASSUME NEW i \in 1 .. n + 1, NEW j \in 1 .. n + 1, r[i] = r[j] PROVE i = j
    OBVIOUS
  <2>1. CASE i = 1 /\ j = 1
    BY <2>1
  <2>2. CASE i = 1 /\ j # 1
    BY <1>1, <1>2, <2>2
  <2>3. CASE i # 1 /\ j = 1
    BY <1>1, <1>2, <2>3
  <2>4. CASE i # 1 /\ j # 1
    <3>1. q[i - 1] = q[j - 1] /\ i - 1 \in 1 .. n /\ j - 1 \in 1 .. n
      BY <1>1, <2>4
    <3>2. i - 1 = j - 1
      BY <3>1 DEF ChainBy
    <3> QED BY <3>2
  <2> QED BY <2>1, <2>2, <2>3, <2>4
<1>7. ASSUME NEW i \in 1 .. n + 1
      PROVE  /\ C[r[i]].next = IF i < n + 1 THEN r[i + 1] ELSE NULL
             /\ C[r[i]].prev = IF i = 1 THEN Head ELSE r[i - 1]
             /\ C[r[i]].refcount > 0
  <2>1. CASE i = 1
    BY <1>1, <1>3, <1>4, <2>1
  <2>2. CASE i # 1
    <3> DEFINE j == i - 1
    <3>1. j \in 1 .. n /\ r[i] = q[j] /\ q[j] \in Stacks \ {s}
      BY <1>1, <1>2, <2>2
    <3>2. /\ block[q[j]].next = IF j < n THEN q[j + 1] ELSE NULL
          /\ block[q[j]].prev = IF j = 1 THEN Head ELSE q[j - 1]
          /\ block[q[j]].refcount > 0
      BY <3>1 DEF ChainBy
    <3>3. q[j] = g_prev <=> j = 1
      BY <1>3, <3>1 DEF ChainBy
    <3>4. j < n => r[i + 1] = q[j + 1]
      BY <1>1, <3>1
    <3>5. r[i - 1] = IF j = 1 THEN s ELSE q[j - 1]
      BY <1>1, <3>1
    <3> QED BY <1>5, <2>2, <3>1, <3>2, <3>3, <3>4, <3>5
  <2> QED BY <2>1, <2>2
<1>8. ASSUME NEW x \in Stacks, C[x].prev # NULL PROVE \E i \in 1 .. n + 1 : r[i] = x
  <2>1. CASE x = s
    BY <1>1, <2>1
  <2>2. CASE x # s
    <3>1. block[x].prev # NULL \/ x = g_prev
      BY <1>5, <1>8, <2>2
    <3>2. PICK i \in 1 .. n : q[i] = x
      BY <1>3, <3>1, HeapAssumption DEF ChainBy
    <3>3. i + 1 \in 2 .. n + 1 /\ r[i + 1] = x
      BY <1>1, <3>2
    <3> QED BY <3>3
  <2> QED BY <2>1, <2>2
<1>9. s = IF n + 1 = 0 THEN NULL ELSE r[1]
  BY <1>1
<1>10. ChainBy(C, s, n + 1, r)
  BY <1>6, <1>7, <1>8, <1>9 DEF ChainBy
<1> QED BY <1>1, <1>10 DEF C, r

LEMMA UnlinkedPointers ==
  ASSUME NEW b \in [Stacks -> Blocks], NEW s \in Stacks, b[s].prev # s, b[s].next # s,
         b[s].prev # b[s].next
  PROVE  \A y \in Stacks :
           /\ Unlinked(b, s)[y].prev = IF y = s THEN NULL
                                       ELSE IF y = b[s].next THEN b[s].prev ELSE b[y].prev
           /\ Unlinked(b, s)[y].next = IF y = b[s].prev THEN b[s].next ELSE b[y].next
  BY DEF Unlinked, Blocks

Dropped(k, n, q) == [j \in 1 .. n - 1 |-> IF j < k THEN q[j] ELSE q[j + 1]]

(* A stack is taken out anywhere. *)
LEMMA ChainDropped ==
  ASSUME NEW b \in [Stacks -> Blocks], NEW g, NEW n \in Nat, NEW q \in [1 .. n -> Stacks],
         ChainBy(b, g, n, q), NEW k \in 1 .. n
  PROVE  /\ Dropped(k, n, q) \in [1 .. n - 1 -> Stacks]
         /\ ChainBy(Unlinked(b, q[k]), IF b[q[k]].prev = Head THEN b[q[k]].next ELSE g,
                    n - 1, Dropped(k, n, q))
<1> DEFINE s == q[k]
           C == Unlinked(b, s)
           h == IF b[s].prev = Head THEN b[s].next ELSE g
           r == Dropped(k, n, q)
           at(j) == IF j < k THEN j ELSE j + 1
<1>0. n - 1 \in Nat
  OBVIOUS
<1>1. /\ \A j \in 1 .. n - 1 : at(j) \in 1 .. n /\ at(j) # k
      /\ r \in [1 .. n - 1 -> Stacks] /\ \A j \in 1 .. n - 1 : r[j] = q[at(j)]
  BY DEF Dropped
<1>2. /\ b[s].next = IF k < n THEN q[k + 1] ELSE NULL
      /\ b[s].prev = IF k = 1 THEN Head ELSE q[k - 1]
      /\ s \in Stacks
  BY DEF ChainBy
<1>3. \A i, j \in 1 .. n : q[i] = q[j] => i = j
  BY DEF ChainBy
<1>4. \A i \in 1 .. n : q[i] \in Stacks /\ q[i] # NULL /\ q[i] # Head
  BY HeapAssumption
<1>5. b[s].prev # s /\ b[s].next # s /\ b[s].prev # b[s].next
  <2>1. k < n => k + 1 \in 1 .. n /\ q[k + 1] # s
    BY <1>3
  <2>2. k # 1 => k - 1 \in 1 .. n /\ q[k - 1] # s
    BY <1>3
  <2>3. k < n /\ k # 1 => q[k + 1] # q[k - 1]
    BY <1>3
  <2> QED BY <1>2, <1>4, <2>1, <2>2, <2>3, HeapAssumption
<1>6. /\ \A y \in Stacks :
           /\ C[y].prev = IF y = s THEN NULL ELSE IF y = b[s].next THEN b[s].prev ELSE b[y].prev
           /\ C[y].next = IF y = b[s].prev THEN b[s].next ELSE b[y].next
           /\ C[y].refcount = b[y].refcount
  <2>1. \A y \in Stacks : C[y].refcount = b[y].refcount
    BY <1>2, UnlinkedFields
  <2>2. \A y \in Stacks :
          /\ C[y].prev = IF y = s THEN NULL ELSE IF y = b[s].next THEN b[s].prev ELSE b[y].prev
          /\ C[y].next = IF y = b[s].prev THEN b[s].next ELSE b[y].next
    BY <1>2, <1>5, UnlinkedPointers
  <2> QED BY <2>1, <2>2
<1>7. h = IF n - 1 = 0 THEN NULL ELSE r[1]
  <2>1. CASE k = 1
    <3>1. b[s].prev = Head /\ h = IF 1 < n THEN q[2] ELSE NULL
      BY <1>2, <2>1
    <3>2. 1 < n => r[1] = q[2]
      BY <2>1 DEF Dropped
    <3> QED BY <3>1, <3>2
  <2>2. CASE k # 1
    <3>1. k - 1 \in 1 .. n /\ b[s].prev # Head /\ n - 1 # 0
      BY <1>2, <1>4, <2>2
    <3>2. h = q[1] /\ r[1] = q[1]
      BY <2>2, <3>1 DEF Dropped, ChainBy
    <3> QED BY <3>1, <3>2
  <2> QED BY <2>1, <2>2
<1> HIDE DEF C, h, r
<1>8. ASSUME NEW i \in 1 .. n - 1, NEW j \in 1 .. n - 1, r[i] = r[j] PROVE i = j
  <2>1. at(i) = at(j)
    <3> HIDE DEF at
    <3> QED BY <1>1, <1>3, <1>8
  <2> QED BY <2>1
<1>9. ASSUME NEW j \in 1 .. n - 1
      PROVE  /\ C[r[j]].next = IF j < n - 1 THEN r[j + 1] ELSE NULL
             /\ C[r[j]].prev = IF j = 1 THEN Head ELSE r[j - 1]
             /\ C[r[j]].refcount > 0
  <2> DEFINE i == at(j)
  <2>1. i \in 1 .. n /\ i # k /\ r[j] = q[i] /\ q[i] \in Stacks /\ q[i] # s
    <3>1. i \in 1 .. n /\ i # k /\ r[j] = q[i]
      BY <1>1
    <3> HIDE DEF i
    <3> QED BY <1>3, <3>1
  <2>2. /\ b[q[i]].next = IF i < n THEN q[i + 1] ELSE NULL
        /\ b[q[i]].prev = IF i = 1 THEN Head ELSE q[i - 1]
        /\ b[q[i]].refcount > 0
    <3> HIDE DEF i
    <3> QED BY <2>1 DEF ChainBy
  <2>3. q[i] = b[s].next <=> i = k + 1
    <3> HIDE DEF i
    <3> QED BY <1>2, <1>3, <1>4, <2>1
  <2>4. q[i] = b[s].prev <=> i = k - 1
    <3> HIDE DEF i
    <3> QED BY <1>2, <1>3, <1>4, <2>1
  <2>5. C[q[i]].next = IF i = k - 1 THEN b[s].next ELSE b[q[i]].next
    BY <1>6, <2>1, <2>4
  <2>6. C[q[i]].prev = IF i = k + 1 THEN b[s].prev ELSE b[q[i]].prev
    BY <1>6, <2>1, <2>3
  <2>7. C[q[i]].refcount > 0
    BY <1>6, <2>1, <2>2
  <2>8. CASE j < k
    <3>1. i = j
      BY <2>8
    <3>2. j < n - 1 => r[j + 1] = IF j + 1 < k THEN q[j + 1] ELSE q[j + 2]
      BY <1>1
    <3>3. j # 1 => r[j - 1] = q[j - 1]
      BY <1>1, <2>8
    <3>4. b[s].next = IF k < n THEN q[k + 1] ELSE NULL
      BY <1>2
    <3> HIDE DEF i
    <3>5. C[r[j]].next = IF j < n - 1 THEN r[j + 1] ELSE NULL
      <4>1. CASE j = k - 1
        BY <2>1, <2>5, <3>1, <3>2, <3>4, <4>1
      <4>2. CASE j # k - 1
        BY <2>1, <2>2, <2>5, <2>8, <3>1, <3>2, <4>2
      <4> QED BY <4>1, <4>2
    <3> QED BY <2>1, <2>2, <2>6, <2>7, <2>8, <3>1, <3>3, <3>5
  <2>9. CASE ~(j < k)
    <3>1. i = j + 1
      BY <2>9
    <3>2. j < n - 1 => r[j + 1] = q[j + 2]
      BY <1>1, <2>9
    <3>3. j # 1 => r[j - 1] = IF j - 1 < k THEN q[j - 1] ELSE q[j]
      BY <1>1
    <3> HIDE DEF i
    <3>4. C[r[j]].next = IF j < n - 1 THEN r[j + 1] ELSE NULL
      BY <2>1, <2>2, <2>5, <2>9, <3>1, <3>2
    <3>5. C[r[j]].prev = IF j = 1 THEN Head ELSE r[j - 1]
      <4>1. CASE j = k
        BY <1>2, <2>1, <2>6, <3>1, <3>3, <4>1
      <4>2. CASE j # k
        BY <2>1, <2>2, <2>6, <2>9, <3>1, <3>3, <4>2
      <4> QED BY <4>1, <4>2
    <3> QED BY <2>1, <2>7, <3>4, <3>5
  <2> QED BY <2>8, <2>9
<1>10. ASSUME NEW x \in Stacks, C[x].prev # NULL PROVE \E j \in 1 .. n - 1 : r[j] = x
  <2>1. x # s
    BY <1>6, <1>10
  <2>2. b[x].prev # NULL \/ x = b[s].next
    BY <1>6, <1>10, <2>1
  <2>3. PICK i \in 1 .. n : q[i] = x
    BY <1>2, <2>2, HeapAssumption DEF ChainBy
  <2>4. i # k
    BY <2>1, <2>3
  <2>5. CASE i < k
    <3>1. i \in 1 .. n - 1 /\ at(i) = i
      BY <2>5
    <3> QED BY <1>1, <2>3, <3>1
  <2>6. CASE i > k
    <3>1. i - 1 \in 1 .. n - 1 /\ at(i - 1) = i
      BY <2>6
    <3> QED BY <1>1, <2>3, <3>1
  <2> QED BY <2>4, <2>5, <2>6
<1>11. ChainBy(C, h, n - 1, r)
  BY <1>7, <1>8, <1>9, <1>10 DEF ChainBy
<1> QED BY <1>1, <1>11 DEF C, h, r

(* What a step does to the stacks in use and to the list: it leaves both,  *)
(* saves a stack, which may be linked, takes one out, or frees one, which  *)
(* is not on the list any more.                                            *)
Relinks(n, q, m, r) ==
  \/ Used' = Used /\ m = n /\ r = q
  \/ \E s \in Stacks \ Used : /\ Used' = Used \cup {s}
                              /\ \/ m = n /\ r = q
                                 \/ m = n + 1 /\ r = Pushed(s, n, q)
  \/ \E k \in 1 .. n : Used' = Used /\ m = n - 1 /\ r = Dropped(k, n, q)
  \/ \E s \in Used : /\ Used' = Used \ {s}
                     /\ \/ m = n /\ r = q /\ \A i \in 1 .. n : q[i] # s
                        \/ \E k \in 1 .. n : q[k] = s /\ m = n - 1 /\ r = Dropped(k, n, q)

ChainMoves(n, q) ==
  \E m \in Nat : \E r \in [1 .. m -> Stacks] :
    ChainBy(block', g_prev', m, r) /\ Relinks(n, q, m, r)

LEMMA ChainStays ==
  ASSUME Typed, NEW n \in Nat, NEW q \in [1 .. n -> Stacks], ChainBy(block, g_prev, n, q),
         g_prev' = g_prev,
         \A x \in Stacks : /\ block'[x].prev = block[x].prev /\ block'[x].next = block[x].next
                           /\ block'[x].refcount > 0 <=> block[x].refcount > 0
  PROVE  ChainMoves(n, q)
<1>1. ChainBy(block', g_prev', n, q)
  <2>1. \A x \in Stacks : block[x].prev # NULL => block[x].refcount > 0
    BY DEF ChainBy
  <2>2. ChainBy(block', g_prev, n, q)
    BY <2>1, ChainKeeps
  <2> QED BY <2>2
<1>2. Used' = Used
  BY DEF Used
<1> QED BY <1>1, <1>2 DEF ChainMoves, Relinks

LEMMA ChainTakesOut ==
  ASSUME Typed, NEW n \in Nat, NEW q \in [1 .. n -> Stacks], ChainBy(block, g_prev, n, q),
         NEW s \in Stacks, IsLinked(s), NEW b \in [Stacks -> Blocks], TakesOut(b, s),
         \A x \in Stacks : /\ b[x].prev = block[x].prev /\ b[x].next = block[x].next
                           /\ b[x].refcount = block[x].refcount
  PROVE  ChainMoves(n, q)
<1>1. PICK k \in 1 .. n : q[k] = s
  BY DEF IsLinked, ChainBy
<1>2. ChainBy(b, g_prev, n, q)
  <2>1. \A x \in Stacks : block[x].prev # NULL => block[x].refcount > 0
    BY DEF ChainBy
  <2> QED BY <2>1, ChainKeeps
<1>3. block' = Unlinked(b, s) /\ g_prev' = IF b[s].prev = Head THEN b[s].next ELSE g_prev
  BY DEF TakesOut, HeadWithout
<1>4. Dropped(k, n, q) \in [1 .. n - 1 -> Stacks] /\ ChainBy(block', g_prev', n - 1, Dropped(k, n, q))
  BY <1>1, <1>2, <1>3, ChainDropped
<1>5. Used' = Used
  BY <1>3, UnlinkedFields DEF Used
<1>6. n - 1 \in Nat
  BY <1>1
<1> QED BY <1>4, <1>5, <1>6 DEF ChainMoves, Relinks

LEMMA ChainDecref ==
  ASSUME Typed, Owned, NEW n \in Nat, NEW q \in [1 .. n -> Stacks],
         ChainBy(block, g_prev, n, q), NEW t \in Tealets, Decref(stack[t])
  PROVE  ChainMoves(n, q)
<1> DEFINE s == stack[t]
<1>1. CASE s = NULL
  BY <1>1, DecrefNull, ChainStays
<1>2. CASE s # NULL
  <2>1. s \in Stacks /\ s \in Used /\ block[s] \in Blocks /\ block[s].refcount \in Nat \ {0}
    BY <1>2, StackInUse DEF Typed
  <2>2. /\ \A x \in Stacks \ {s} : block'[x].refcount = block[x].refcount
        /\ block'[s].refcount = block[s].refcount - 1
    BY <2>1, DecrefFields
  <2>3. CASE block[s].refcount = 1 /\ block[s].prev # NULL
    <3>1. PICK k \in 1 .. n : q[k] = s
      BY <2>1, <2>3 DEF ChainBy
    <3> DEFINE u == Unlinked(block, s)
               r == Dropped(k, n, q)
    <3>2. block' = [u EXCEPT ![s] = Free] /\ g_prev' = HeadWithout(s)
      BY <1>2, <2>3 DEF Decref
    <3>3. block \in [Stacks -> Blocks]
      BY DEF Typed
    <3>4. r \in [1 .. n - 1 -> Stacks] /\ ChainBy(u, g_prev', n - 1, r)
      <4>1. /\ r \in [1 .. n - 1 -> Stacks]
            /\ ChainBy(Unlinked(block, q[k]),
                       IF block[q[k]].prev = Head THEN block[q[k]].next ELSE g_prev, n - 1, r)
        BY <3>3, ChainDropped
      <4>2. g_prev' = IF block[q[k]].prev = Head THEN block[q[k]].next ELSE g_prev
        BY <3>1, <3>2 DEF HeadWithout
      <4> HIDE DEF r
      <4> QED BY <3>1, <4>1, <4>2
    <3>5. u \in [Stacks -> Blocks] /\ u[s].prev = NULL
      <4>1. u \in [Stacks -> Blocks]
        BY <2>1, <3>3, UnlinkedFields
      <4>2. u[s].prev = NULL
        BY <2>1 DEF Unlinked, Blocks
      <4> QED BY <4>1, <4>2
    <3>6. n - 1 \in Nat /\ r \in [1 .. n - 1 -> Stacks]
      BY <3>1, <3>4
    <3> HIDE DEF u, r
    <3>7. block'[s] = Free /\ \A x \in Stacks \ {s} : block'[x] = u[x]
      BY <2>1, <3>2, <3>5
    <3>8. \A x \in Stacks : u[x].prev # NULL => u[x].refcount > 0
      BY <3>4 DEF ChainBy
    <3>9. ChainBy(block', g_prev', n - 1, r)
      <4>1. \A x \in Stacks : /\ block'[x].prev = u[x].prev
                              /\ u[x].prev # NULL => /\ block'[x].next = u[x].next
                                                     /\ block'[x].refcount > 0
        BY <2>1, <3>5, <3>7, <3>8 DEF Free
      <4> QED BY <3>4, <3>6, <4>1, ChainKeeps
    <3>10. Used' = Used \ {s}
      BY <2>1, <2>2, <2>3 DEF Used
    <3>11. Relinks(n, q, n - 1, r)
      BY <2>1, <3>1, <3>10 DEF Relinks, r
    <3> QED BY <3>6, <3>9, <3>11 DEF ChainMoves
  <2>4. CASE ~(block[s].refcount = 1 /\ block[s].prev # NULL)
    <3>1. /\ \A x \in Stacks \ {s} : block'[x] = block[x]
          /\ block'[s] = IF block[s].refcount = 1 THEN Free
                         ELSE [block[s] EXCEPT !.refcount = @ - 1]
          /\ g_prev' = g_prev
      BY <2>1, <2>4 DEF Decref
    <3>2. CASE block[s].refcount # 1
      <4>1. /\ block'[s].prev = block[s].prev /\ block'[s].next = block[s].next
            /\ block'[s].refcount > 0
        BY <2>1, <3>1, <3>2 DEF Blocks
      <4>2. \A x \in Stacks : /\ block'[x].prev = block[x].prev
                              /\ block'[x].next = block[x].next
                              /\ block'[x].refcount > 0 <=> block[x].refcount > 0
        <5>1. block[s].refcount > 0
          BY <2>1
        <5>2. \A x \in Stacks \ {s} : block'[x] = block[x]
          BY <3>1
        <5> HIDE DEF s
        <5> QED BY <4>1, <5>1, <5>2
      <4> QED BY <3>1, <4>2, ChainStays
    <3>3. CASE block[s].refcount = 1
      <4>1. block[s].prev = NULL /\ block'[s] = Free
        BY <2>4, <3>1, <3>3
      <4>2. \A i \in 1 .. n : q[i] # s
        BY <4>1, ChainLinked
      <4>3. ChainBy(block', g_prev, n, q)
        <5>1. \A x \in Stacks : block[x].prev # NULL => block[x].refcount > 0
          BY DEF ChainBy
        <5>2. \A x \in Stacks : /\ block'[x].prev = block[x].prev
                                /\ block[x].prev # NULL => /\ block'[x].next = block[x].next
                                                           /\ block'[x].refcount > 0
          BY <3>1, <4>1, <5>1 DEF Free
        <5> QED BY <5>2, ChainKeeps
      <4>4. Used' = Used \ {s}
        BY <2>1, <2>2, <3>3 DEF Used
      <4>5. Relinks(n, q, n, q)
        BY <2>1, <4>2, <4>4 DEF Relinks
      <4> QED BY <3>1, <4>3, <4>5 DEF ChainMoves
    <3> QED BY <3>2, <3>3
  <2> QED BY <2>3, <2>4
<1> QED BY <1>1, <1>2

LEMMA ChainSave ==
  ASSUME Typed, NEW n \in Nat, NEW q \in [1 .. n -> Stacks], ChainBy(block, g_prev, n, q),
         NEW s \in Stacks, NEW size \in Sizes, NEW full \in BOOLEAN, Save(s, size, full)
  PROVE  ChainMoves(n, q)
<1> DEFINE new == Saved(size, full)
<1>1. new \in Blocks /\ new.refcount = 1 /\ new.prev = NULL
  BY SavedFields
<1>2. IF full THEN block' = [block EXCEPT ![s] = new] /\ UNCHANGED g_prev
              ELSE block' = Linked(s, new) /\ g_prev' = s
  BY DEF Save, Saved
<1>3. s \in Stacks \ Used /\ block[s].refcount = 0
  <2>1. s \notin Used
    BY DEF Save
  <2> QED BY <2>1 DEF Used, Typed, Blocks
<1>4. block[s].prev = NULL
  BY <1>3 DEF ChainBy
<1> HIDE DEF new
<1>5. CASE full
  <2>1. block'[s] = new /\ \A x \in Stacks \ {s} : block'[x] = block[x]
    BY <1>2, <1>5 DEF Typed
  <2>2. \A x \in Stacks : block[x].prev # NULL => block[x].refcount > 0
    BY DEF ChainBy
  <2>3. \A x \in Stacks : /\ block'[x].prev = block[x].prev
                          /\ block[x].prev # NULL => /\ block'[x].next = block[x].next
                                                     /\ block'[x].refcount > 0
    BY <1>1, <1>4, <2>1, <2>2
  <2>4. ChainBy(block', g_prev, n, q)
    BY <2>3, ChainKeeps
  <2>5. Used' = Used \cup {s}
    BY <1>1, <2>1 DEF Used
  <2>6. Relinks(n, q, n, q)
    BY <1>3, <2>5 DEF Relinks
  <2> QED BY <1>2, <1>5, <2>4, <2>6 DEF ChainMoves
<1>6. CASE ~full
  <2>1. /\ Pushed(s, n, q) \in [1 .. n + 1 -> Stacks]
        /\ ChainBy(Linked(s, new), s, n + 1, Pushed(s, n, q))
    BY <1>1, <1>3, ChainPushed
  <2>2. block' = Linked(s, new) /\ g_prev' = s
    BY <1>2, <1>6
  <2>3. \A x \in Stacks : block'[x].refcount = IF x = s THEN new.refcount ELSE block[x].refcount
    <3> DEFINE b == Linked(s, new)
    <3>1. \A x \in Stacks : b[x].refcount = IF x = s THEN new.refcount ELSE block[x].refcount
      BY <1>1, LinkedFields
    <3> HIDE DEF b
    <3> QED BY <2>2, <3>1 DEF b
  <2>4. Used' = Used \cup {s}
    BY <1>1, <2>3 DEF Used
  <2>5. Relinks(n, q, n + 1, Pushed(s, n, q))
    BY <1>3, <2>4 DEF Relinks
  <2> QED BY <2>1, <2>2, <2>5 DEF ChainMoves
<1> QED BY <1>5, <1>6

LEMMA NextChain ==
  ASSUME Typed, Roles, Owned, WalkOnList, Next,
         NEW n \in Nat, NEW q \in [1 .. n -> Stacks], ChainBy(block, g_prev, n, q)
  PROVE  ChainMoves(n, q)
<1>1. ASSUME NEW t \in Tealets, Delete(t) PROVE ChainMoves(n, q)
  BY <1>1, ChainDecref DEF Delete
<1>2. ASSUME NEW t \in Tealets, NEW copy \in Tealets, Duplicate(t, copy) PROVE ChainMoves(n, q)
  <2>1. CASE stack[t] = NULL
    BY <1>2, <2>1, ChainStays DEF Duplicate
  <2>2. CASE stack[t] # NULL
    <3>1. PICK s \in Stacks : s = stack[t]
      BY <2>2 DEF Typed
    <3>2. block[s].refcount \in Nat \ {0} /\ block[s] \in Blocks
      BY <2>2, <3>1, StackInUse DEF Typed
    <3>3. block' = [block EXCEPT ![s] = [block[s] EXCEPT !.refcount = @ + 1]]
      BY <1>2, <2>2, <3>1 DEF Duplicate
    <3>4. /\ \A x \in Stacks \ {s} : block'[x] = block[x]
          /\ block'[s].prev = block[s].prev /\ block'[s].next = block[s].next
          /\ block'[s].refcount = block[s].refcount + 1
      BY <3>2, <3>3 DEF Typed, Blocks
    <3>5. \A x \in Stacks : /\ block'[x].prev = block[x].prev /\ block'[x].next = block[x].next
                            /\ block'[x].refcount > 0 <=> block[x].refcount > 0
      BY <3>2, <3>4
    <3> QED BY <1>2, <3>5, ChainStays DEF Duplicate
  <2> QED BY <2>1, <2>2
<1>3. CASE UNCHANGED <<block, g_prev>>
  BY <1>3, ChainStays
<1>4. CASE Restore
  <2>1. transfer.to \in Tealets
    BY <1>4 DEF Restore, InUser, Roles, Typed
  <2> QED BY <1>4, <2>1, ChainDecref DEF Restore, Target
<1>5. ASSUME NEW s \in Stacks, PassTarget(s) PROVE ChainMoves(n, q)
  <2>1. IsLinked(s)
    BY <1>5, HeapAssumption DEF PassTarget, At, WalkOnList
  <2> QED BY <1>5, <2>1, ChainTakesOut DEF PassTarget, Typed
<1>6. ASSUME NEW s \in Stacks, GrowDefunct(s) PROVE ChainMoves(n, q)
  <2>1. TakesOut(Defuncted(s), s)
    BY <1>6 DEF GrowDefunct, Defuncted
  <2>2. IsLinked(s)
    BY <1>6, HeapAssumption DEF GrowDefunct, At, WalkOnList
  <2> DEFINE b == Defuncted(s)
  <2>3. /\ b \in [Stacks -> Blocks]
        /\ \A x \in Stacks : /\ b[x].prev = block[x].prev /\ b[x].next = block[x].next
                             /\ b[x].refcount = block[x].refcount
    BY DefunctedFields
  <2> HIDE DEF b
  <2> QED BY <2>1, <2>2, <2>3, ChainTakesOut DEF b
<1>7. ASSUME NEW s \in Stacks, NEW size \in Sizes, GrowPart(s, size) PROVE ChainMoves(n, q)
  <2>1. \E full \in BOOLEAN : block' = Grown(s, size, full)
    BY <1>7, GrownEither DEF GrowPart
  <2>2. \A x \in Stacks : /\ block'[x].prev = block[x].prev /\ block'[x].next = block[x].next
                          /\ block'[x].refcount = block[x].refcount
    BY <2>1, GrownFields
  <2>3. g_prev' = g_prev
    BY <1>7 DEF GrowPart
  <2> QED BY <2>2, <2>3, ChainStays
<1>8. ASSUME NEW s \in Stacks, NEW size \in Sizes, GrowWhole(s, size) PROVE ChainMoves(n, q)
  <2> DEFINE grown == Grown(s, size, TRUE)
  <2>1. TakesOut(grown, s)
    BY <1>8 DEF GrowWhole
  <2>2. \E full \in BOOLEAN : grown = Grown(s, size, full)
    BY GrownEither
  <2>3. IsLinked(s)
    BY <1>8, HeapAssumption DEF GrowWhole, At, WalkOnList
  <2> HIDE DEF grown
  <2>4. /\ grown \in [Stacks -> Blocks]
        /\ \A x \in Stacks : /\ grown[x].prev = block[x].prev /\ grown[x].next = block[x].next
                             /\ grown[x].refcount = block[x].refcount
    BY <2>2, GrownFields
  <2> QED BY <2>1, <2>3, <2>4, ChainTakesOut
<1>9. ASSUME NEW s \in Stacks, NEW size \in Sizes, NEW full \in BOOLEAN, Save(s, size, full)
      PROVE  ChainMoves(n, q)
  BY <1>9, ChainSave
<1> QED
  BY <1>1, <1>2, <1>3, <1>4, <1>5, <1>6, <1>7, <1>8, <1>9
  DEF Next, New, BeginStart, BeginTransfer, Begins, EndOfList, SaveFails, GivesUp, SaveDefunct,
      LeaveExited, LeaveDeleted, Pass, GrowFails, Lend, Reclaim

LEMMA NextListed == ASSUME Typed, Roles, Owned, WalkOnList, Listed, Next PROVE Listed'
<1>0. PICK n \in Nat : \E q \in [1 .. n -> Stacks] : ChainBy(block, g_prev, n, q)
  BY DEF Listed
<1>1. PICK q \in [1 .. n -> Stacks] : ChainBy(block, g_prev, n, q)
  BY <1>0
<1>2. ChainMoves(n, q)
  BY <1>1, NextChain
<1> QED BY <1>2 DEF ChainMoves, Listed

(* The node behind one of the list is another one. *)
LEMMA NextIsLinked ==
  ASSUME Listed, NEW s \in Stacks, IsLinked(s), block[s].next # NULL
  PROVE  block[s].next \in Stacks \ {s} /\ IsLinked(block[s].next)
<1>0. PICK n \in Nat : \E q \in [1 .. n -> Stacks] : ChainBy(block, g_prev, n, q)
  BY DEF Listed
<1>1. PICK q \in [1 .. n -> Stacks] : ChainBy(block, g_prev, n, q)
  BY <1>0
<1>2. PICK i \in 1 .. n : q[i] = s
  BY <1>1 DEF ChainBy, IsLinked
<1>3. i + 1 \in 1 .. n /\ block[s].next = q[i + 1]
  BY <1>1, <1>2 DEF ChainBy
<1>4. q[i + 1] # s
  BY <1>1, <1>2, <1>3 DEF ChainBy
<1> QED BY <1>1, <1>3, <1>4, ChainLinked DEF IsLinked

LEMMA FirstIsLinked == ASSUME Listed, g_prev # NULL PROVE IsLinked(g_prev)
<1>0. PICK n \in Nat : \E q \in [1 .. n -> Stacks] : ChainBy(block, g_prev, n, q)
  BY DEF Listed
<1>1. PICK q \in [1 .. n -> Stacks] : ChainBy(block, g_prev, n, q)
  BY <1>0
<1>2. 1 \in 1 .. n /\ g_prev = q[1]
  BY <1>1 DEF ChainBy
<1> QED BY <1>1, <1>2, ChainLinked DEF IsLinked

LEMMA WalkStays ==
  ASSUME Typed, Listed, WalkOnList, NEW s \in Stacks, At(s), WalksOn(s),
         \A x \in Stacks \ {s} : IsLinked(x) => block'[x].prev # NULL
  PROVE  WalkOnList'
<1>1. IsLinked(s)
  BY HeapAssumption DEF At, WalkOnList
<1>2. transfer'.list \in {NULL, block[s].next}
  BY WalksTyped
<1>3. block[s].next # NULL => block[s].next \in Stacks \ {s} /\ IsLinked(block[s].next)
  BY <1>1, NextIsLinked
<1> QED BY <1>2, <1>3 DEF WalkOnList, IsLinked

LEMMA WalkTakesOut ==
  ASSUME Typed, Listed, WalkOnList, NEW s \in Stacks, At(s), NEW b \in [Stacks -> Blocks],
         TakesOut(b, s),
         \A x \in Stacks : b[x].prev = block[x].prev
  PROVE  WalkOnList'
<1>1. IsLinked(s)
  BY HeapAssumption DEF At, WalkOnList
<1>2. \A x \in Stacks \ {s} : Unlinked(b, s)[x].prev \in {b[x].prev, b[s].prev}
  BY DEF Unlinked, Blocks
<1>3. \A x \in Stacks \ {s} : IsLinked(x) => block'[x].prev # NULL
  BY <1>1, <1>2 DEF TakesOut, IsLinked
<1> QED BY <1>3, WalkStays DEF TakesOut

LEMMA NextWalk == ASSUME Typed, Listed, WalkOnList, Next PROVE WalkOnList'
<1>1. CASE InUser /\ UNCHANGED transfer
  BY <1>1 DEF InUser, WalkOnList
<1>2. CASE transfer'.at # "grow"
  BY <1>2 DEF WalkOnList
<1>4. ASSUME NEW t \in Tealets, NEW switched \in BOOLEAN, BeginStart(t, switched)
      PROVE  WalkOnList'
  <2>1. Begins(g_current, t, t, "no", TRUE) \/ Begins(t, g_current, t, "no", TRUE)
    BY <1>4 DEF BeginStart
  <2> QED BY <2>1, FirstIsLinked DEF Begins, WalkOnList, IsLinked
<1>5. ASSUME NEW t \in Tealets, NEW exits \in Exits, NEW force \in BOOLEAN,
             BeginTransfer(t, exits, force)
      PROVE  WalkOnList'
  BY <1>5, FirstIsLinked DEF BeginTransfer, Begins, WalkOnList, IsLinked
<1>6. CASE EndOfList
  BY <1>6, TransferFields DEF EndOfList, At, WalkOnList, Transfers
<1>7. CASE SaveFails \/ Restore \/ \E s \in Stacks : GrowFails(s)
  <2>1. transfer' = Idle
    BY <1>7 DEF SaveFails, Restore, GrowFails, GivesUp
  <2> QED BY <1>2, <2>1 DEF Idle
<1>8. CASE SaveDefunct \/ LeaveExited \/ LeaveDeleted
  <2>1. transfer' = [transfer EXCEPT !.at = "restore"]
    BY <1>8 DEF SaveDefunct, LeaveExited, LeaveDeleted
  <2> QED BY <1>2, <2>1, TransferFields DEF Transfers
<1>9. ASSUME NEW s \in Stacks, PassTarget(s) PROVE WalkOnList'
  BY <1>9, WalkTakesOut DEF PassTarget, Typed
<1>10. ASSUME NEW s \in Stacks, Pass(s) PROVE WalkOnList'
  BY <1>10, WalkStays DEF Pass, IsLinked
<1>11. ASSUME NEW s \in Stacks, GrowDefunct(s) PROVE WalkOnList'
  <2>1. TakesOut(Defuncted(s), s)
    BY <1>11 DEF GrowDefunct, Defuncted
  <2>2. At(s)
    BY <1>11 DEF GrowDefunct
  <2> QED BY <2>1, <2>2, DefunctedFields, WalkTakesOut
<1>12. ASSUME NEW s \in Stacks, NEW size \in Sizes, GrowPart(s, size) PROVE WalkOnList'
  <2>1. \E full \in BOOLEAN : block' = Grown(s, size, full)
    BY <1>12, GrownEither DEF GrowPart
  <2>2. \A x \in Stacks : block'[x].prev = block[x].prev
    BY <2>1, GrownFields
  <2>3. At(s) /\ WalksOn(s)
    BY <1>12 DEF GrowPart
  <2> QED BY <2>2, <2>3, WalkStays DEF IsLinked
<1>13. ASSUME NEW s \in Stacks, NEW size \in Sizes, GrowWhole(s, size) PROVE WalkOnList'
  <2> DEFINE grown == Grown(s, size, TRUE)
  <2>1. TakesOut(grown, s) /\ At(s)
    BY <1>13 DEF GrowWhole
  <2>2. \E full \in BOOLEAN : grown = Grown(s, size, full)
    BY GrownEither
  <2> HIDE DEF grown
  <2>3. grown \in [Stacks -> Blocks] /\ \A x \in Stacks : grown[x].prev = block[x].prev
    BY <2>2, GrownFields
  <2> QED BY <2>1, <2>3, WalkTakesOut
<1>14. ASSUME NEW s \in Stacks, NEW size \in Sizes, NEW full \in BOOLEAN, Save(s, size, full)
       PROVE  WalkOnList'
  <2>1. transfer' = [transfer EXCEPT !.at = "restore"]
    BY <1>14 DEF Save
  <2> QED BY <1>2, <2>1, TransferFields DEF Transfers
<1> QED
  BY <1>1, <1>4, <1>5, <1>6, <1>7, <1>8, <1>9, <1>10, <1>11, <1>12, <1>13, <1>14
  DEF Next, New, Delete, Duplicate, Lend, Reclaim

---------------------------------------------------------------------------
(* What is inductive so far.                                               *)

Sound == Typed /\ Roles /\ Owned /\ Listed /\ WalkOnList

LEMMA InitSound == Init => Sound
<1> SUFFICES ASSUME Init PROVE Sound
  OBVIOUS
<1>1. transfer.at = "user" /\ transfer.exits = "no"
  BY DEF Init, Idle
<1>2. Typed
  BY HeapAssumption, FreeIsBlock, IdleIsTransfer DEF Init, Typed
<1>3. Roles
  BY <1>1, HeapAssumption DEF Init, Roles, InUser
<1>4. Owned
  <2> SUFFICES ASSUME NEW s \in Stacks PROVE block[s].refcount = Count(stack, s)
    BY DEF Owned
  <2>1. {t \in Tealets : stack[t] = s} = {}
    BY HeapAssumption DEF Init
  <2> QED BY <2>1, FS_EmptySet DEF Count, Init, Free
<1>5. Listed
  <2> DEFINE q == [i \in 1 .. 0 |-> NULL]
  <2>1. q \in [1 .. 0 -> Stacks] /\ \A i \in 1 .. 0 : FALSE
    OBVIOUS
  <2>2. \A s \in Stacks : block[s].prev = NULL
    BY DEF Init, Free
  <2>3. g_prev = NULL
    BY DEF Init
  <2>4. ChainBy(block, g_prev, 0, q)
    BY <2>1, <2>2, <2>3 DEF ChainBy
  <2> HIDE DEF q
  <2> QED BY <2>1, <2>4 DEF Listed
<1>6. WalkOnList
  BY <1>1 DEF WalkOnList
<1> QED BY <1>2, <1>3, <1>4, <1>5, <1>6 DEF Sound

LEMMA StuttersSound == ASSUME Sound, UNCHANGED vars PROVE Sound'
<1>1. /\ live' = live /\ next_tealet' = next_tealet /\ prev_tealet' = prev_tealet
      /\ kind' = kind /\ stack' = stack /\ block' = block /\ g_prev' = g_prev
      /\ g_current' = g_current /\ transfer' = transfer /\ lent' = lent
  BY DEF vars, ring
<1>2. Typed'
  BY <1>1 DEF Sound, Typed
<1>3. Roles'
  BY <1>1 DEF Sound, Roles, InUser
<1>4. Owned'
  BY <1>1, OwnedIfUnchanged DEF Sound
<1>5. Listed'
  BY <1>1 DEF Sound, Listed
<1>6. WalkOnList'
  BY <1>1 DEF Sound, WalkOnList, IsLinked
<1> QED BY <1>2, <1>3, <1>4, <1>5, <1>6 DEF Sound

LEMMA StaysSound == Sound /\ [Next]_vars => Sound'
<1>1. Sound /\ Next => Sound'
  BY NextTyped, NextRoles, NextOwned, NextListed, NextWalk DEF Sound
<1> QED BY <1>1, StuttersSound

LEMMA AlwaysSound == Spec => []Sound
  BY InitSound, StaysSound, PTL DEF Spec

(* While a transfer walks the list, the node that it has come to is on it, *)
(* although the walk takes nodes out under way.                            *)
THEOREM WalkStaysOnList == Spec => []WalkOnList
<1>1. Sound => WalkOnList
  BY DEF Sound
<1> QED BY <1>1, AlwaysSound, PTL

---------------------------------------------------------------------------
(* The ring.                                                               *)

(* The n tealets r are the ring, from main back to main, and all of L.     *)
RingBy(L, nx, pv, n, r) ==
  /\ r[0] = Main /\ r[n] = Main
  /\ \A t \in L : \E i \in 0 .. n - 1 : r[i] = t
  /\ \A i, j \in 0 .. n - 1 : r[i] = r[j] => i = j
  /\ \A i \in 0 .. n - 1 : nx[r[i]] = r[i + 1] /\ pv[r[i + 1]] = r[i]

Ringed ==
  \E n \in Nat \ {0} : \E r \in [0 .. n -> live] : RingBy(live, next_tealet, prev_tealet, n, r)

(* Main is at both ends and nowhere between them. *)
LEMMA RingEnds ==
  ASSUME NEW L, NEW nx, NEW pv, NEW n \in Nat \ {0}, NEW r \in [0 .. n -> L],
         RingBy(L, nx, pv, n, r), NEW i \in 0 .. n
  PROVE  /\ r[i] = Main => i = 0 \/ i = n
         /\ \A j \in 0 .. n : r[i] = r[j] => i = j \/ (i = 0 /\ j = n) \/ (i = n /\ j = 0)
<1>1. r[0] = Main /\ r[n] = Main
  BY DEF RingBy
<1>2. \A j, k \in 0 .. n - 1 : r[j] = r[k] => j = k
  BY DEF RingBy
<1>3. 0 \in 0 .. n - 1
  OBVIOUS
<1>4. \A j \in 0 .. n : j \in 0 .. n - 1 \/ j = n
  OBVIOUS
<1>5. ASSUME NEW j \in 0 .. n, r[j] = Main PROVE j = 0 \/ j = n
  BY <1>1, <1>2, <1>3, <1>4, <1>5
<1>6. ASSUME NEW j \in 0 .. n, r[i] = r[j]
      PROVE  i = j \/ (i = 0 /\ j = n) \/ (i = n /\ j = 0)
  BY <1>1, <1>2, <1>4, <1>5, <1>6
<1> QED BY <1>5, <1>6

Joined(t, n, r) ==
  [i \in 0 .. n + 1 |-> IF i = 0 THEN Main ELSE IF i = 1 THEN t ELSE r[i - 1]]

(* A tealet joins the ring behind main. *)
LEMMA RingJoined ==
  ASSUME Typed, NEW n \in Nat \ {0}, NEW r \in [0 .. n -> live],
         RingBy(live, next_tealet, prev_tealet, n, r),
         NEW t \in Tealets \ live, ListAdd(t)
  PROVE  /\ Joined(t, n, r) \in [0 .. n + 1 -> live \cup {t}]
         /\ RingBy(live \cup {t}, next_tealet', prev_tealet', n + 1, Joined(t, n, r))
<1> DEFINE q == Joined(t, n, r)
<1>1. /\ \A i \in 0 .. n : r[i] \in live /\ r[i] \in Tealets /\ r[i] # t
      /\ r[0] = Main /\ r[n] = Main
  BY DEF RingBy, Typed
<1>2. /\ q \in [0 .. n + 1 -> live \cup {t}] /\ q[0] = Main /\ q[1] = t
      /\ \A i \in 1 .. n : q[i + 1] = r[i]
  <2>1. 0 \in 0 .. n
    OBVIOUS
  <2>2. Main \in live
    BY <1>1, <2>1
  <2> QED BY <1>1, <2>2 DEF Joined
<1>3. next_tealet[Main] = r[1] /\ Main # t /\ r[1] # t /\ r[1] \in Tealets
  BY <1>1 DEF RingBy
<1>4. /\ next_tealet'[Main] = t /\ next_tealet'[t] = r[1]
      /\ \A x \in Tealets \ {Main, t} : next_tealet'[x] = next_tealet[x]
  BY <1>3, HeapAssumption DEF ListAdd, Typed
<1>5. /\ prev_tealet'[t] = Main /\ prev_tealet'[r[1]] = t
      /\ \A x \in Tealets \ {r[1], t} : prev_tealet'[x] = prev_tealet[x]
  BY <1>3 DEF ListAdd, Typed
<1> HIDE DEF q
<1>6. q[n + 1] = Main
  BY <1>1, <1>2
<1>7. ASSUME NEW x \in live \cup {t} PROVE \E i \in 0 .. n : q[i] = x
  <2>1. CASE x = t
    BY <1>2, <2>1
  <2>2. CASE x # t
    <3>1. PICK i \in 0 .. n - 1 : r[i] = x
      BY <2>2 DEF RingBy
    <3>2. CASE i = 0
      BY <1>1, <1>2, <3>1, <3>2
    <3>3. CASE i # 0
      <4>1. i + 1 \in 0 .. n /\ q[i + 1] = x
        BY <1>2, <3>1, <3>3
      <4> QED BY <4>1
    <3> QED BY <3>2, <3>3
  <2> QED BY <2>1, <2>2
<1>8. ASSUME NEW i \in 0 .. n, NEW j \in 0 .. n, q[i] = q[j] PROVE i = j
  <2>1. \A k \in 2 .. n : k - 1 \in 1 .. n - 1 /\ q[k] = r[k - 1]
    BY <1>2
  <2>2. \A k \in 2 .. n : q[k] # Main /\ q[k] # t
    BY <1>1, <2>1, RingEnds
  <2>3. CASE i \in {0, 1} \/ j \in {0, 1}
    BY <1>2, <1>3, <1>8, <2>2, <2>3
  <2>4. CASE i \in 2 .. n /\ j \in 2 .. n
    <3>1. r[i - 1] = r[j - 1] /\ i - 1 \in 0 .. n - 1 /\ j - 1 \in 0 .. n - 1
      BY <1>8, <2>1, <2>4
    <3>2. i - 1 = j - 1
      BY <3>1 DEF RingBy
    <3> QED BY <3>2
  <2> QED BY <2>3, <2>4
<1>9. ASSUME NEW i \in 0 .. n PROVE next_tealet'[q[i]] = q[i + 1] /\ prev_tealet'[q[i + 1]] = q[i]
  <2>1. CASE i = 0
    BY <1>2, <1>4, <1>5, <2>1
  <2>2. CASE i = 1
    BY <1>2, <1>4, <1>5, <2>2
  <2>3. CASE i > 1
    <3> DEFINE j == i - 1
    <3>1. j \in 1 .. n - 1 /\ q[i] = r[j] /\ q[i + 1] = r[j + 1] /\ j \in 0 .. n /\ j + 1 \in 0 .. n
      BY <1>2, <2>3
    <3>2. next_tealet[r[j]] = r[j + 1] /\ prev_tealet[r[j + 1]] = r[j]
      BY <3>1 DEF RingBy
    <3> HIDE DEF j
    <3>3. r[j] # Main
      BY <3>1, RingEnds
    <3>4. r[j + 1] # r[1]
      <4>1. 1 \in 0 .. n
        OBVIOUS
      <4>2. r[j + 1] = r[1] => j + 1 = 1 \/ (j + 1 = 0 /\ 1 = n) \/ (j + 1 = n /\ 1 = 0)
        BY <3>1, <4>1, RingEnds
      <4> QED BY <3>1, <4>2
    <3>5. next_tealet'[r[j]] = r[j + 1]
      BY <1>1, <1>4, <3>1, <3>2, <3>3
    <3>6. prev_tealet'[r[j + 1]] = r[j]
      BY <1>1, <1>5, <3>1, <3>2, <3>4
    <3> QED BY <3>1, <3>5, <3>6
  <2> QED BY <2>1, <2>2, <2>3
<1>10. RingBy(live \cup {t}, next_tealet', prev_tealet', n + 1, q)
  BY <1>2, <1>6, <1>7, <1>8, <1>9 DEF RingBy
<1> QED BY <1>2, <1>10 DEF q

Left(k, n, r) == [i \in 0 .. n - 1 |-> IF i < k THEN r[i] ELSE r[i + 1]]

(* A tealet leaves it, anywhere but at main. *)
LEMMA RingLeft ==
  ASSUME Typed, NEW n \in Nat \ {0}, NEW r \in [0 .. n -> live],
         RingBy(live, next_tealet, prev_tealet, n, r), NEW k \in 1 .. n - 1, ListRemove(r[k])
  PROVE  /\ n - 1 \in Nat \ {0}
         /\ Left(k, n, r) \in [0 .. n - 1 -> live \ {r[k]}]
         /\ RingBy(live \ {r[k]}, next_tealet', prev_tealet', n - 1, Left(k, n, r))
<1> DEFINE t == r[k]
           q == Left(k, n, r)
           at(i) == IF i < k THEN i ELSE i + 1
<1>1. /\ \A i \in 0 .. n : r[i] \in live /\ r[i] \in Tealets
      /\ r[0] = Main /\ r[n] = Main
  BY DEF RingBy, Typed
<1>2. \A i, j \in 0 .. n : r[i] = r[j] => i = j \/ (i = 0 /\ j = n) \/ (i = n /\ j = 0)
  BY RingEnds
<1>3. /\ \A i \in 0 .. n - 1 : at(i) \in 0 .. n /\ at(i) # k /\ q[i] = r[at(i)]
      /\ q \in [0 .. n - 1 -> live \ {t}]
  <2>1. \A i \in 0 .. n - 1 : at(i) \in 0 .. n /\ at(i) # k /\ q[i] = r[at(i)]
    BY DEF Left
  <2>2. \A i \in 0 .. n : i # k => r[i] # t
    BY <1>2
  <2>3. \A i \in 0 .. n - 1 : q[i] \in live \ {t}
    <3> HIDE DEF at, q
    <3> QED BY <1>1, <2>1, <2>2
  <2>4. q = [i \in 0 .. n - 1 |-> q[i]]
    BY DEF Left
  <2> HIDE DEF q, at
  <2> QED BY <2>1, <2>3, <2>4
<1>4. next_tealet[t] = r[k + 1] /\ prev_tealet[t] = r[k - 1]
  <2>1. k \in 0 .. n - 1 /\ k - 1 \in 0 .. n - 1 /\ (k - 1) + 1 = k
    OBVIOUS
  <2> QED BY <2>1 DEF RingBy
<1>5. k - 1 \in 0 .. n /\ k + 1 \in 0 .. n /\ k \in 0 .. n
  OBVIOUS
<1>6. /\ next_tealet'[r[k - 1]] = r[k + 1]
      /\ \A x \in Tealets \ {r[k - 1]} : next_tealet'[x] = next_tealet[x]
      /\ prev_tealet'[r[k + 1]] = r[k - 1]
      /\ \A x \in Tealets \ {r[k + 1]} : prev_tealet'[x] = prev_tealet[x]
  BY <1>1, <1>4, <1>5 DEF ListRemove, Typed
<1> HIDE DEF q, t
<1>7. q[0] = Main /\ q[n - 1] = Main
  <2>1. at(0) = 0 /\ at(n - 1) = n
    OBVIOUS
  <2>2. 0 \in 0 .. n - 1 /\ n - 1 \in 0 .. n - 1
    OBVIOUS
  <2> HIDE DEF at
  <2> QED BY <1>1, <1>3, <2>1, <2>2
<1>8. ASSUME NEW x \in live \ {t} PROVE \E i \in 0 .. n - 2 : q[i] = x
  <2>1. PICK j \in 0 .. n - 1 : r[j] = x
    BY DEF RingBy
  <2>2. j # k
    BY <2>1 DEF t
  <2>3. CASE j < k
    <3>1. j \in 0 .. n - 2 /\ at(j) = j
      BY <2>3
    <3> QED BY <1>3, <2>1, <3>1
  <2>4. CASE j > k
    <3>1. j - 1 \in 0 .. n - 2 /\ j - 1 \in 0 .. n - 1 /\ at(j - 1) = j
      BY <2>4
    <3> HIDE DEF at
    <3>2. q[j - 1] = x
      BY <1>3, <2>1, <3>1
    <3> QED BY <3>1, <3>2
  <2> QED BY <2>2, <2>3, <2>4
<1>9. ASSUME NEW i \in 0 .. n - 2, NEW j \in 0 .. n - 2, q[i] = q[j] PROVE i = j
  <2>1. at(i) \in 0 .. n - 1 /\ at(j) \in 0 .. n - 1
    OBVIOUS
  <2>2. r[at(i)] = r[at(j)]
    BY <1>3, <1>9
  <2>3. at(i) = at(j)
    <3> HIDE DEF at
    <3> QED BY <2>1, <2>2 DEF RingBy
  <2> QED BY <2>3
<1>10. ASSUME NEW i \in 0 .. n - 2
       PROVE  next_tealet'[q[i]] = q[i + 1] /\ prev_tealet'[q[i + 1]] = q[i]
  <2>1. i \in 0 .. n - 1 /\ i + 1 \in 0 .. n - 1
    OBVIOUS
  <2>2. q[i] = r[at(i)] /\ q[i + 1] = r[at(i + 1)]
    BY <1>3, <2>1
  <2>3. CASE i = k - 1
    <3>1. at(i) = k - 1 /\ at(i + 1) = k + 1
      BY <2>3
    <3> HIDE DEF at
    <3> QED BY <1>6, <2>2, <3>1
  <2>4. CASE i # k - 1
    <3> DEFINE j == at(i)
    <3>1. j \in 0 .. n - 1 /\ j # k - 1 /\ j + 1 # k + 1 /\ at(i + 1) = j + 1
      BY <2>4
    <3> HIDE DEF at, j
    <3>2. next_tealet[r[j]] = r[j + 1] /\ prev_tealet[r[j + 1]] = r[j]
      BY <3>1 DEF RingBy
    <3>3. r[j] # r[k - 1]
      BY <1>2, <1>5, <3>1
    <3>4. r[j + 1] # r[k + 1]
      BY <1>2, <1>5, <3>1
    <3>5. r[j] \in Tealets /\ r[j + 1] \in Tealets
      BY <1>1, <3>1
    <3>6. q[i] = r[j] /\ q[i + 1] = r[j + 1]
      BY <2>2, <3>1 DEF j
    <3> QED BY <1>6, <3>2, <3>3, <3>4, <3>5, <3>6
  <2> QED BY <2>3, <2>4
<1>11. n - 1 \in Nat \ {0}
  OBVIOUS
<1>12. RingBy(live \ {t}, next_tealet', prev_tealet', n - 1, q)
  BY <1>7, <1>8, <1>9, <1>10 DEF RingBy
<1> QED BY <1>3, <1>11, <1>12 DEF q, t

LEMMA AllocatesRinged == ASSUME Typed, Ringed, NEW t \in Tealets, Allocates(t) PROVE Ringed'
<1>0. PICK n \in Nat \ {0} :
        \E r \in [0 .. n -> live] : RingBy(live, next_tealet, prev_tealet, n, r)
  BY DEF Ringed
<1>1. PICK r \in [0 .. n -> live] : RingBy(live, next_tealet, prev_tealet, n, r)
  BY <1>0
<1>2. t \in Tealets \ live /\ ListAdd(t) /\ live' = live \cup {t}
  BY DEF Allocates
<1>3. /\ Joined(t, n, r) \in [0 .. n + 1 -> live']
      /\ RingBy(live', next_tealet', prev_tealet', n + 1, Joined(t, n, r))
  BY <1>1, <1>2, RingJoined
<1>4. n + 1 \in Nat \ {0}
  OBVIOUS
<1> QED BY <1>3, <1>4 DEF Ringed

LEMMA FreesRinged ==
  ASSUME Typed, Ringed, NEW t \in live \ {Main}, NEW s, FreesTealet(t, s)
  PROVE  Ringed'
<1>0. PICK n \in Nat \ {0} :
        \E r \in [0 .. n -> live] : RingBy(live, next_tealet, prev_tealet, n, r)
  BY DEF Ringed
<1>1. PICK r \in [0 .. n -> live] : RingBy(live, next_tealet, prev_tealet, n, r)
  BY <1>0
<1>2. PICK k \in 0 .. n - 1 : r[k] = t
  BY <1>1 DEF RingBy
<1>3. k \in 1 .. n - 1
  BY <1>1, <1>2 DEF RingBy
<1>4. ListRemove(r[k]) /\ live' = live \ {r[k]}
  BY <1>2 DEF FreesTealet
<1>5. /\ n - 1 \in Nat \ {0} /\ Left(k, n, r) \in [0 .. n - 1 -> live']
      /\ RingBy(live', next_tealet', prev_tealet', n - 1, Left(k, n, r))
  BY <1>1, <1>3, <1>4, RingLeft
<1> QED BY <1>5 DEF Ringed

LEMMA RingedIfUnchanged ==
  ASSUME Ringed, UNCHANGED <<live, next_tealet, prev_tealet>>
  PROVE  Ringed'
  BY DEF Ringed

LEMMA NextRinged == ASSUME Typed, Roles, Ringed, Next PROVE Ringed'
<1>1. ASSUME NEW t \in Tealets, New(t) \/ \E u \in Tealets : Duplicate(u, t) PROVE Ringed'
  BY <1>1, AllocatesRinged DEF New, Duplicate
<1>2. ASSUME NEW t \in Tealets, Delete(t) PROVE Ringed'
  BY <1>2, FreesRinged DEF Delete
<1>3. CASE LeaveDeleted
  <2>1. transfer.from \in live \ {Main}
    BY <1>3 DEF LeaveDeleted, Roles
  <2> QED BY <1>3, <2>1, FreesRinged DEF LeaveDeleted
<1>4. CASE UNCHANGED <<live, ring>>
  BY <1>4, RingedIfUnchanged DEF ring
<1> QED
  BY <1>1, <1>2, <1>3, <1>4
  DEF Next, BeginStart, BeginTransfer, Begins, EndOfList, SaveFails, GivesUp, SaveDefunct,
      LeaveExited, Restore, PassTarget, Pass, GrowFails, GrowDefunct, GrowPart, GrowWhole, Save,
      Lend, Reclaim

LEMMA InitRinged == ASSUME Init PROVE Ringed
<1> DEFINE r == [i \in 0 .. 1 |-> Main]
<1>1. r \in [0 .. 1 -> live] /\ r[0] = Main /\ r[1] = Main /\ live = {Main}
  BY DEF Init
<1>2. next_tealet[Main] = Main /\ prev_tealet[Main] = Main
  BY HeapAssumption DEF Init
<1> HIDE DEF r
<1>3. RingBy(live, next_tealet, prev_tealet, 1, r)
  BY <1>1, <1>2 DEF RingBy
<1>4. 1 \in Nat \ {0}
  OBVIOUS
<1>5. \E q \in [0 .. 1 -> live] : RingBy(live, next_tealet, prev_tealet, 1, q)
  BY <1>1, <1>3
<1> QED BY <1>4, <1>5 DEF Ringed

LEMMA AlwaysRinged == Spec => []Ringed
<1>1. Sound /\ Ringed /\ [Next]_vars => Ringed'
  <2>1. Sound /\ Ringed /\ Next => Ringed'
    BY NextRinged DEF Sound
  <2>2. Ringed /\ UNCHANGED vars => Ringed'
    BY RingedIfUnchanged DEF vars, ring
  <2> QED BY <2>1, <2>2
<1> QED BY <1>1, InitRinged, AlwaysSound, PTL DEF Spec

(* A set of numbers has a least one. *)
LEMMA LeastNumber ==
  ASSUME NEW T \in SUBSET Nat, T # {}
  PROVE  \E m \in T : \A k \in T : ~(k < m)
<1>1. PICK m \in T : \A k \in T : ~(<<k, m>> \in OpToRel(<, Nat))
  BY NatLessThanWellFounded, WFMin
<1>2. \A k \in T : <<k, m>> \in OpToRel(<, Nat) <=> k < m
  BY DEF OpToRel
<1> QED BY <1>1, <1>2

LEMMA RingLength ==
  ASSUME NEW nx, NEW pv, NEW n \in Nat \ {0}, NEW r \in [0 .. n -> live],
         RingBy(live, nx, pv, n, r)
  PROVE  Cardinality(live) = n
<1> DEFINE f == [i \in 1 .. n |-> r[i]]
<1>1. f \in [1 .. n -> live]
  OBVIOUS
<1>2. \A i, j \in 1 .. n : f[i] = f[j] => i = j
  <2> SUFFICES ASSUME NEW i \in 1 .. n, NEW j \in 1 .. n, f[i] = f[j] PROVE i = j
    OBVIOUS
  <2>1. i \in 0 .. n /\ j \in 0 .. n /\ r[i] = r[j]
    OBVIOUS
  <2>2. i = j \/ (i = 0 /\ j = n) \/ (i = n /\ j = 0)
    BY <2>1, RingEnds
  <2> QED BY <2>2
<1>3. \A t \in live : \E i \in 1 .. n : f[i] = t
  <2> SUFFICES ASSUME NEW t \in live PROVE \E i \in 1 .. n : f[i] = t
    OBVIOUS
  <2>1. PICK i \in 0 .. n - 1 : r[i] = t
    BY DEF RingBy
  <2>2. CASE i = 0
    <3>1. n \in 1 .. n /\ f[n] = t
      BY <2>1, <2>2 DEF RingBy
    <3> QED BY <3>1
  <2>3. CASE i # 0
    <3>1. i \in 1 .. n /\ f[i] = t
      BY <2>1, <2>3
    <3> QED BY <3>1
  <2> QED BY <2>2, <2>3
<1> HIDE DEF f
<1>4. f \in Bijection(1 .. n, live)
  BY <1>1, <1>2, <1>3 DEF Bijection, Injection, Surjection, IsInjective
<1>5. ExistsBijection(1 .. n, live)
  BY <1>4 DEF ExistsBijection
<1>6. IsFiniteSet(1 .. n) /\ Cardinality(1 .. n) = n
  BY FS_Interval
<1> QED BY <1>5, <1>6, FS_Bijection

(* The walk of tealet_get_stats() follows the sequence behind the ring. *)
LEMMA RingFromIs ==
  ASSUME NEW nx, NEW pv, NEW n \in Nat \ {0}, NEW r \in [0 .. n -> live],
         RingBy(live, nx, pv, n, r)
  PROVE  \A i \in 0 .. n : RingFrom(nx)[i] = r[i]
<1> DEFINE nth == RingFrom(nx)
<1>1. Cardinality(live) = n
  BY RingLength
<1>2. r = [i \in 0 .. n |-> IF i = 0 THEN Main ELSE nx[r[i - 1]]]
  <2>1. ASSUME NEW i \in 0 .. n PROVE r[i] = IF i = 0 THEN Main ELSE nx[r[i - 1]]
    <3>1. CASE i = 0
      BY <3>1 DEF RingBy
    <3>2. CASE i # 0
      <4>1. i - 1 \in 0 .. n - 1 /\ (i - 1) + 1 = i
        BY <3>2
      <4> QED BY <3>2, <4>1 DEF RingBy
    <3> QED BY <3>1, <3>2
  <2> QED BY <2>1
<1>3. nth = [i \in 0 .. n |-> IF i = 0 THEN Main ELSE nx[nth[i - 1]]]
  <2>1. \E f : f = [i \in 0 .. n |-> IF i = 0 THEN Main ELSE nx[f[i - 1]]]
    BY <1>2
  <2>2. nth = CHOOSE f : f = [i \in 0 .. n |-> IF i = 0 THEN Main ELSE nx[f[i - 1]]]
    BY <1>1 DEF RingFrom
  <2> HIDE DEF nth
  <2> QED BY <2>1, <2>2, Zenon
<1> HIDE DEF nth
<1>4. \A i \in 0 .. n : nth[i] = IF i = 0 THEN Main ELSE nx[nth[i - 1]]
  BY <1>3
<1>5. \A i \in 0 .. n : r[i] = IF i = 0 THEN Main ELSE nx[r[i - 1]]
  BY <1>2
<1>6. \A i \in 0 .. n : nth[i] = r[i]
  <2> DEFINE T == {i \in 0 .. n : nth[i] # r[i]}
  <2> SUFFICES ASSUME T # {} PROVE FALSE
    OBVIOUS
  <2>1. T \in SUBSET Nat
    OBVIOUS
  <2>2. PICK m \in T : \A k \in T : ~(k < m)
    BY <2>1, LeastNumber
  <2>3. m \in 0 .. n /\ nth[m] # r[m]
    OBVIOUS
  <2>4. m # 0
    BY <1>4, <1>5, <2>3
  <2>5. m - 1 \in 0 .. n /\ m - 1 < m
    BY <2>3, <2>4
  <2>6. nth[m - 1] = r[m - 1]
    BY <2>2, <2>5
  <2> QED BY <1>4, <1>5, <2>3, <2>4, <2>6
<1> QED BY <1>6 DEF nth

Backwards(n, r) == [i \in 0 .. n |-> r[n - i]]

LEMMA RingBackwards ==
  ASSUME NEW nx, NEW pv, NEW n \in Nat \ {0}, NEW r \in [0 .. n -> live],
         RingBy(live, nx, pv, n, r)
  PROVE  Backwards(n, r) \in [0 .. n -> live] /\ RingBy(live, pv, nx, n, Backwards(n, r))
<1> DEFINE q == Backwards(n, r)
<1>1. q \in [0 .. n -> live] /\ \A i \in 0 .. n : q[i] = r[n - i]
  BY DEF Backwards
<1> HIDE DEF q
<1>2. r[0] = Main /\ r[n] = Main
  BY DEF RingBy
<1>3. q[0] = Main /\ q[n] = Main
  BY <1>1, <1>2
<1>4. ASSUME NEW t \in live PROVE \E i \in 0 .. n - 1 : q[i] = t
  <2>1. PICK j \in 0 .. n - 1 : r[j] = t
    BY DEF RingBy
  <2>2. CASE j = 0
    <3>1. 0 \in 0 .. n - 1 /\ q[0] = t
      BY <1>2, <1>3, <2>1, <2>2
    <3> QED BY <3>1
  <2>3. CASE j # 0
    <3>1. n - j \in 0 .. n - 1 /\ n - (n - j) = j
      BY <2>3
    <3>2. q[n - j] = t
      BY <1>1, <2>1, <3>1
    <3> QED BY <3>1, <3>2
  <2> QED BY <2>2, <2>3
<1>5. ASSUME NEW i \in 0 .. n - 1, NEW j \in 0 .. n - 1, q[i] = q[j] PROVE i = j
  <2>1. n - i \in 0 .. n /\ n - j \in 0 .. n /\ n - i # 0 /\ n - j # 0
    OBVIOUS
  <2>2. r[n - i] = r[n - j]
    BY <1>1, <1>5
  <2>3. n - i = n - j
    BY <2>1, <2>2, RingEnds
  <2> QED BY <2>3
<1>6. ASSUME NEW i \in 0 .. n - 1 PROVE pv[q[i]] = q[i + 1] /\ nx[q[i + 1]] = q[i]
  <2> DEFINE j == n - (i + 1)
  <2>1. j \in 0 .. n - 1 /\ j + 1 = n - i
    OBVIOUS
  <2>2. q[i] = r[j + 1] /\ q[i + 1] = r[j]
    BY <1>1, <2>1
  <2> HIDE DEF j
  <2> QED BY <2>1, <2>2 DEF RingBy
<1>7. RingBy(live, pv, nx, n, q)
  BY <1>3, <1>4, <1>5, <1>6 DEF RingBy
<1> QED BY <1>1, <1>7 DEF q

(* Walked either way, the ring visits each tealet that is allocated once,  *)
(* and comes back to main.                                                 *)
THEOREM RingIsExact == Spec => []RingExact
<1>1. ASSUME Ringed PROVE RingExact
  <2>0. PICK n \in Nat \ {0} :
          \E r \in [0 .. n -> live] : RingBy(live, next_tealet, prev_tealet, n, r)
    BY <1>1 DEF Ringed
  <2>1. PICK r \in [0 .. n -> live] : RingBy(live, next_tealet, prev_tealet, n, r)
    BY <2>0
  <2>2. Cardinality(live) = n
    BY <2>1, RingLength
  <2>3. ASSUME NEW nx, NEW pv, NEW q \in [0 .. n -> live], RingBy(live, nx, pv, n, q)
        PROVE  /\ RingFrom(nx)[n] = Main
               /\ {RingFrom(nx)[i] : i \in 0 .. n - 1} = live
    <3>1. \A i \in 0 .. n : RingFrom(nx)[i] = q[i]
      BY <2>3, RingFromIs
    <3>2. RingFrom(nx)[n] = Main
      <4>1. n \in 0 .. n /\ q[n] = Main
        BY <2>3 DEF RingBy
      <4> QED BY <3>1, <4>1
    <3>3. {RingFrom(nx)[i] : i \in 0 .. n - 1} = {q[i] : i \in 0 .. n - 1}
      BY <3>1
    <3>4. {q[i] : i \in 0 .. n - 1} = live
      <4>1. \A i \in 0 .. n - 1 : q[i] \in live
        BY <2>3
      <4>2. \A t \in live : \E i \in 0 .. n - 1 : q[i] = t
        BY <2>3 DEF RingBy
      <4> QED BY <4>1, <4>2
    <3> QED BY <3>2, <3>3, <3>4
  <2>4. /\ RingFrom(next_tealet)[n] = Main
        /\ {RingFrom(next_tealet)[i] : i \in 0 .. n - 1} = live
    BY <2>1, <2>3
  <2>5. /\ RingFrom(prev_tealet)[n] = Main
        /\ {RingFrom(prev_tealet)[i] : i \in 0 .. n - 1} = live
    BY <2>1, <2>3, RingBackwards
  <2> QED BY <2>2, <2>4, <2>5 DEF RingExact
<1> QED BY <1>1, AlwaysRinged, PTL

---------------------------------------------------------------------------
(* Sums over sets of stacks.                                               *)

(* The bytes that Sum counts. *)
Cells(S, size) == UNION {{s} \X (1 .. size[s]) : s \in S}

LEMMA CellsAre ==
  ASSUME NEW S, NEW size
  PROVE  /\ Sum(S, size) = Cardinality(Cells(S, size))
         /\ \A c : c \in Cells(S, size) <=> \E s \in S : c \in {s} \X (1 .. size[s])
  BY DEF Sum, Cells

LEMMA CellsFinite ==
  ASSUME NEW S \in SUBSET Stacks, NEW size \in [Stacks -> Nat]
  PROVE  IsFiniteSet(Cells(S, size)) /\ Sum(S, size) \in Nat
<1> DEFINE rows == {{s} \X (1 .. size[s]) : s \in S}
           row(s) == {s} \X (1 .. size[s])
<1>1. IsFiniteSet(S)
  BY HeapAssumption, FS_Subset
<1>2. IsFiniteSet(rows)
  <2> DEFINE f == [s \in S |-> {s} \X (1 .. size[s])]
  <2>1. f \in Surjection(S, rows)
    BY DEF Surjection
  <2> HIDE DEF f, rows
  <2> QED BY <1>1, <2>1, FS_Surjection
<1>3. \A T \in rows : IsFiniteSet(T)
  <2> SUFFICES ASSUME NEW s \in S PROVE IsFiniteSet({s} \X (1 .. size[s]))
    OBVIOUS
  <2>1. size[s] \in Nat
    OBVIOUS
  <2>2. IsFiniteSet({s})
    BY FS_Singleton
  <2>3. IsFiniteSet(1 .. size[s])
    BY <2>1, FS_Interval
  <2> QED BY <2>2, <2>3, FS_Product
<1>4. Cells(S, size) = UNION rows
  BY DEF Cells
<1> HIDE DEF rows
<1>5. IsFiniteSet(Cells(S, size))
  BY <1>2, <1>3, <1>4, FS_UNION
<1> QED BY <1>5, FS_CardinalityType, CellsAre

LEMMA SumKeeps ==
  ASSUME NEW S, NEW size, NEW other, \A s \in S : size[s] = other[s]
  PROVE  Sum(S, size) = Sum(S, other)
<1>1. {{s} \X (1 .. size[s]) : s \in S} = {{s} \X (1 .. other[s]) : s \in S}
  OBVIOUS
<1> QED BY <1>1 DEF Sum

LEMMA SumAdd ==
  ASSUME NEW S \in SUBSET Stacks, NEW size \in [Stacks -> Nat], NEW s \in Stacks \ S
  PROVE  Sum(S \cup {s}, size) = Sum(S, size) + size[s]
<1> DEFINE row == {s} \X (1 .. size[s])
           cells == Cells(S, size)
           all == Cells(S \cup {s}, size)
<1>1. all = cells \cup row
  <2>1. \A c : c \in all <=> \E x \in S \cup {s} : c \in {x} \X (1 .. size[x])
    BY CellsAre
  <2>2. \A c : c \in cells <=> \E x \in S : c \in {x} \X (1 .. size[x])
    BY CellsAre
  <2>3. \A c : c \in all <=> c \in cells \/ c \in row
    <3> HIDE DEF all, cells
    <3> QED BY <2>1, <2>2
  <2> HIDE DEF all, cells, row
  <2> QED BY <2>3
<1>2. cells \cap row = {}
  <2>1. ASSUME NEW c \in cells, c \in row PROVE FALSE
    <3>1. PICK x \in S : c \in {x} \X (1 .. size[x])
      BY CellsAre
    <3>2. c[1] = x /\ c[1] = s
      BY <2>1, <3>1
    <3> QED BY <3>2
  <2> QED BY <2>1
<1>3. IsFiniteSet(cells)
  BY CellsFinite
<1>4. IsFiniteSet(row) /\ Cardinality(row) = size[s]
  <2>1. IsFiniteSet({s}) /\ Cardinality({s}) = 1
    BY FS_Singleton
  <2>2. size[s] \in Nat
    OBVIOUS
  <2>3. IsFiniteSet(1 .. size[s]) /\ Cardinality(1 .. size[s]) = size[s]
    BY <2>2, FS_Interval
  <2>4. IsFiniteSet(row) /\ Cardinality(row) = Cardinality({s}) * Cardinality(1 .. size[s])
    BY <2>1, <2>3, FS_Product
  <2> QED BY <2>1, <2>2, <2>3, <2>4
<1>5. Sum(S, size) = Cardinality(cells) /\ Sum(S \cup {s}, size) = Cardinality(all)
  BY CellsAre
<1>6. Cardinality(cells) \in Nat /\ size[s] \in Nat
  BY <1>3, FS_CardinalityType
<1> HIDE DEF cells, row, all
<1>7. Cardinality(cells \cup row) = Cardinality(cells) + Cardinality(row) - Cardinality(cells \cap row)
  BY <1>3, <1>4, FS_Union
<1>8. Cardinality(cells \cap row) = 0
  BY <1>2, FS_EmptySet
<1> QED BY <1>1, <1>4, <1>5, <1>6, <1>7, <1>8

LEMMA SumRemove ==
  ASSUME NEW S \in SUBSET Stacks, NEW size \in [Stacks -> Nat], NEW s \in S
  PROVE  Sum(S \ {s}, size) = Sum(S, size) - size[s]
<1>1. S \ {s} \in SUBSET Stacks /\ s \in Stacks \ (S \ {s}) /\ (S \ {s}) \cup {s} = S
  OBVIOUS
<1>2. Sum(S, size) = Sum(S \ {s}, size) + size[s]
  BY <1>1, SumAdd
<1>3. Sum(S \ {s}, size) \in Nat /\ size[s] \in Nat
  BY <1>1, CellsFinite
<1> QED BY <1>2, <1>3

LEMMA SumChange ==
  ASSUME NEW S \in SUBSET Stacks, NEW size \in [Stacks -> Nat], NEW other \in [Stacks -> Nat],
         NEW s \in S, \A x \in S \ {s} : other[x] = size[x]
  PROVE  Sum(S, other) = Sum(S, size) + (other[s] - size[s])
<1>1. Sum(S \ {s}, other) = Sum(S \ {s}, size)
  BY SumKeeps
<1>2. /\ Sum(S \ {s}, other) = Sum(S, other) - other[s]
      /\ Sum(S \ {s}, size) = Sum(S, size) - size[s]
  BY SumRemove
<1>3. /\ Sum(S, other) \in Nat /\ Sum(S, size) \in Nat /\ other[s] \in Nat /\ size[s] \in Nat
  BY CellsFinite
<1> QED BY <1>1, <1>2, <1>3

---------------------------------------------------------------------------
(* What is on the heap.                                                    *)

Chunks == [s \in Stacks |-> 1 + block[s].chunks]
Bytes == [s \in Stacks |-> StackBytes(s)]

LEMMA SizesAreNumbers ==
  ASSUME Typed
  PROVE  /\ Chunks \in [Stacks -> Nat] /\ Bytes \in [Stacks -> Nat]
         /\ \A s \in Stacks : /\ block[s].chunks \in Nat /\ ChunkBytes(s) \in Nat
                              /\ StackBytes(s) \in Nat /\ Bytes[s] = StackBytes(s)
                              /\ Chunks[s] = 1 + block[s].chunks
<1>1. StackHeader \in Nat /\ ChunkHeader \in Nat
  BY HeapAssumption
<1>2. ASSUME NEW s \in Stacks
      PROVE  block[s].chunks \in Nat /\ ChunkBytes(s) \in Nat /\ StackBytes(s) \in Nat
  <2>1. block[s].chunks \in Nat /\ block[s].grown \in Nat /\ block[s].first \in Nat
    BY DEF Typed, Blocks
  <2>2. ChunkHeader * block[s].chunks \in Nat
    BY <1>1, <2>1
  <2>3. ChunkBytes(s) \in Nat
    BY <2>1, <2>2 DEF ChunkBytes
  <2> QED BY <1>1, <2>1, <2>3 DEF StackBytes
<1> QED BY <1>2 DEF Chunks, Bytes

(* The blocks of the heap grow by so many tealets, stacks and chunks, and  *)
(* the stacks by so many bytes.                                            *)
Grows(tealets, stacks, chunks, bytes) ==
  /\ Cardinality(live') = Cardinality(live) + tealets
  /\ Cardinality(Used)' = Cardinality(Used) + stacks
  /\ Sum(Used, Chunks)' = Sum(Used, Chunks) + chunks
  /\ Sum(Used, Bytes)' = Sum(Used, Bytes) + bytes

LEMMA HeapNumbers ==
  ASSUME Typed
  PROVE  /\ IsFiniteSet(live) /\ Cardinality(live) \in Nat
         /\ IsFiniteSet(Used) /\ Cardinality(Used) \in Nat
         /\ Sum(Used, Chunks) \in Nat /\ Sum(Used, Bytes) \in Nat
<1>1. live \in SUBSET Tealets /\ Used \in SUBSET Stacks
  BY DEF Typed, Used
<1>2. IsFiniteSet(live) /\ IsFiniteSet(Used)
  BY <1>1, HeapAssumption, FS_Subset
<1>3. Sum(Used, Chunks) \in Nat /\ Sum(Used, Bytes) \in Nat
  BY <1>1, SizesAreNumbers, CellsFinite
<1> QED BY <1>2, <1>3, FS_CardinalityType

SameSize(s) ==
  block'[s].first = block[s].first /\ block'[s].chunks = block[s].chunks
  /\ block'[s].grown = block[s].grown

LEMMA SameSizes ==
  ASSUME NEW s \in Stacks, SameSize(s)
  PROVE  (Chunks')[s] = Chunks[s] /\ (Bytes')[s] = Bytes[s]
  BY DEF SameSize, Chunks, Bytes, StackBytes, ChunkBytes

LEMMA StacksStay ==
  ASSUME Typed, Used' = Used, \A s \in Used : SameSize(s)
  PROVE  /\ Cardinality(Used)' = Cardinality(Used)
         /\ Sum(Used, Chunks)' = Sum(Used, Chunks)
         /\ Sum(Used, Bytes)' = Sum(Used, Bytes)
<1>1. \A s \in Used : (Chunks')[s] = Chunks[s] /\ (Bytes')[s] = Bytes[s]
  BY SameSizes DEF Used
<1>2. Sum(Used, Chunks') = Sum(Used, Chunks) /\ Sum(Used, Bytes') = Sum(Used, Bytes)
  BY <1>1, SumKeeps
<1>3. Sum(Used, Chunks)' = Sum(Used', Chunks') /\ Sum(Used, Bytes)' = Sum(Used', Bytes')
  BY DEF Sum
<1> QED BY <1>2, <1>3

LEMMA StackGoes ==
  ASSUME Typed, Typed', NEW s \in Used, Used' = Used \ {s}, \A x \in Used \ {s} : SameSize(x)
  PROVE  /\ Cardinality(Used)' = Cardinality(Used) - 1
         /\ Sum(Used, Chunks)' = Sum(Used, Chunks) - (1 + block[s].chunks)
         /\ Sum(Used, Bytes)' = Sum(Used, Bytes) - StackBytes(s)
<1>1. Used \in SUBSET Stacks
  BY DEF Used
<1>2. \A x \in Used \ {s} : (Chunks')[x] = Chunks[x] /\ (Bytes')[x] = Bytes[x]
  BY <1>1, SameSizes
<1>3. /\ Sum(Used \ {s}, Chunks') = Sum(Used \ {s}, Chunks)
      /\ Sum(Used \ {s}, Bytes') = Sum(Used \ {s}, Bytes)
  BY <1>2, SumKeeps
<1>4. Sum(Used, Chunks)' = Sum(Used', Chunks') /\ Sum(Used, Bytes)' = Sum(Used', Bytes')
  BY DEF Sum
<1>5. /\ Chunks \in [Stacks -> Nat] /\ Bytes \in [Stacks -> Nat]
      /\ Chunks[s] = 1 + block[s].chunks /\ Bytes[s] = StackBytes(s)
  BY <1>1, SizesAreNumbers
<1>6. /\ Sum(Used \ {s}, Chunks) = Sum(Used, Chunks) - Chunks[s]
      /\ Sum(Used \ {s}, Bytes) = Sum(Used, Bytes) - Bytes[s]
  BY <1>1, <1>5, SumRemove
<1>7. Cardinality(Used \ {s}) = Cardinality(Used) - 1
  BY HeapNumbers, FS_RemoveElement
<1> QED BY <1>3, <1>4, <1>5, <1>6, <1>7

LEMMA StackComes ==
  ASSUME Typed, Typed', NEW s \in Stacks \ Used, Used' = Used \cup {s},
         \A x \in Used : SameSize(x)
  PROVE  /\ Cardinality(Used)' = Cardinality(Used) + 1
         /\ Sum(Used, Chunks)' = Sum(Used, Chunks) + (Chunks')[s]
         /\ Sum(Used, Bytes)' = Sum(Used, Bytes) + (Bytes')[s]
<1>1. Used \in SUBSET Stacks
  BY DEF Used
<1>2. \A x \in Used : (Chunks')[x] = Chunks[x] /\ (Bytes')[x] = Bytes[x]
  BY <1>1, SameSizes
<1>3. Sum(Used, Chunks') = Sum(Used, Chunks) /\ Sum(Used, Bytes') = Sum(Used, Bytes)
  BY <1>2, SumKeeps
<1>4. Sum(Used, Chunks)' = Sum(Used', Chunks') /\ Sum(Used, Bytes)' = Sum(Used', Bytes')
  BY DEF Sum
<1>5. Chunks' \in [Stacks -> Nat] /\ Bytes' \in [Stacks -> Nat]
  <2>1. (Typed => Chunks \in [Stacks -> Nat] /\ Bytes \in [Stacks -> Nat])'
    BY SizesAreNumbers, PTL
  <2> QED BY <2>1
<1>6. /\ Sum(Used \cup {s}, Chunks') = Sum(Used, Chunks') + (Chunks')[s]
      /\ Sum(Used \cup {s}, Bytes') = Sum(Used, Bytes') + (Bytes')[s]
  BY <1>1, <1>5, SumAdd
<1>7. Cardinality(Used \cup {s}) = Cardinality(Used) + 1
  BY HeapNumbers, FS_AddElement
<1> QED BY <1>3, <1>4, <1>6, <1>7

LEMMA StackResized ==
  ASSUME Typed, Typed', NEW s \in Used, Used' = Used, \A x \in Used \ {s} : SameSize(x)
  PROVE  /\ Cardinality(Used)' = Cardinality(Used)
         /\ Sum(Used, Chunks)' = Sum(Used, Chunks) + ((Chunks')[s] - Chunks[s])
         /\ Sum(Used, Bytes)' = Sum(Used, Bytes) + ((Bytes')[s] - Bytes[s])
<1>1. Used \in SUBSET Stacks
  BY DEF Used
<1>2. \A x \in Used \ {s} : (Chunks')[x] = Chunks[x] /\ (Bytes')[x] = Bytes[x]
  BY <1>1, SameSizes
<1>3. Sum(Used, Chunks)' = Sum(Used', Chunks') /\ Sum(Used, Bytes)' = Sum(Used', Bytes')
  BY DEF Sum
<1>4. /\ Chunks \in [Stacks -> Nat] /\ Bytes \in [Stacks -> Nat]
      /\ Chunks' \in [Stacks -> Nat] /\ Bytes' \in [Stacks -> Nat]
  <2>1. (Typed => Chunks \in [Stacks -> Nat] /\ Bytes \in [Stacks -> Nat])'
    BY SizesAreNumbers, PTL
  <2> QED BY <2>1, SizesAreNumbers
<1>5. /\ Sum(Used, Chunks') = Sum(Used, Chunks) + ((Chunks')[s] - Chunks[s])
      /\ Sum(Used, Bytes') = Sum(Used, Bytes) + ((Bytes')[s] - Bytes[s])
  BY <1>1, <1>2, <1>4, SumChange
<1> QED BY <1>3, <1>5

---------------------------------------------------------------------------
(* What the counters say.                                                  *)

Stats ==
  [tealets : Int, bytes : Int, blocks : Int, stack_count : Int, chunk_count : Int,
   stack_bytes : Int]
Allocs == [n_allocs : Int, s_allocs : Int]
Counted == stats \in Stats /\ alloc \in Allocs

Balanced == Counted /\ CountersExact /\ AllocatorsAgree

(* The counters go up by as much. *)
Books(tealets, stacks, chunks, bytes) ==
  /\ stats' \in Stats /\ alloc' \in Allocs
  /\ stats'.tealets = stats.tealets + tealets
  /\ stats'.stack_count = stats.stack_count + stacks
  /\ stats'.chunk_count = stats.chunk_count + chunks
  /\ stats'.stack_bytes = stats.stack_bytes + bytes
  /\ stats'.blocks = stats.blocks + tealets + chunks
  /\ stats'.bytes = stats.bytes + TealetSize * tealets + bytes
  /\ alloc'.n_allocs - lent' = alloc.n_allocs - lent + tealets + chunks
  /\ alloc'.s_allocs - lent' = alloc.s_allocs - lent + TealetSize * tealets + bytes

LEMMA BooksBalance ==
  ASSUME Typed, Typed', Balanced, NEW tealets \in {-1, 0, 1}, NEW stacks \in Int, NEW chunks \in Int,
         NEW bytes \in Int, Books(tealets, stacks, chunks, bytes),
         Grows(tealets, stacks, chunks, bytes)
  PROVE  Balanced'
<1>1. /\ stats \in Stats /\ alloc \in Allocs /\ stats' \in Stats /\ alloc' \in Allocs
      /\ lent \in Int /\ lent' \in Int /\ TealetSize \in Int
  BY HeapAssumption DEF Balanced, Counted, Books, Typed
<1>2. /\ stats.tealets \in Int /\ stats.bytes \in Int /\ stats.blocks \in Int
      /\ stats.stack_count \in Int /\ stats.chunk_count \in Int /\ stats.stack_bytes \in Int
      /\ alloc.n_allocs \in Int /\ alloc.s_allocs \in Int
      /\ alloc'.n_allocs \in Int /\ alloc'.s_allocs \in Int
  BY <1>1 DEF Stats, Allocs
<1>3. /\ stats.tealets = Cardinality(live) /\ stats.stack_count = Cardinality(Used)
      /\ stats.chunk_count = Sum(Used, Chunks) /\ stats.stack_bytes = Sum(Used, Bytes)
      /\ stats.blocks = stats.tealets + stats.chunk_count
      /\ stats.bytes = TealetSize * stats.tealets + stats.stack_bytes
  BY DEF Balanced, CountersExact, Chunks, Bytes
<1>4. alloc.n_allocs = stats.blocks + lent /\ alloc.s_allocs = stats.bytes + lent
  BY DEF Balanced, AllocatorsAgree
<1>5. TealetSize * (stats.tealets + tealets) = TealetSize * stats.tealets + TealetSize * tealets
      /\ TealetSize * tealets \in Int /\ TealetSize * stats.tealets \in Int
  <2>1. stats.tealets \in Int /\ TealetSize \in Int
    BY <1>1, <1>2
  <2> QED BY <2>1
<1>6. /\ stats'.tealets = Cardinality(live') /\ stats'.stack_count = Cardinality(Used)'
      /\ stats'.chunk_count = Sum(Used, Chunks)' /\ stats'.stack_bytes = Sum(Used, Bytes)'
  BY <1>3 DEF Books, Grows
<1>7. /\ stats'.blocks = stats'.tealets + stats'.chunk_count
      /\ stats'.bytes = TealetSize * stats'.tealets + stats'.stack_bytes
  BY <1>2, <1>3, <1>5 DEF Books
<1>8. alloc'.n_allocs = stats'.blocks + lent' /\ alloc'.s_allocs = stats'.bytes + lent'
  BY <1>1, <1>2, <1>4, <1>5 DEF Books
<1>9. AllocatorsAgree'
  <2>1. alloc' = [n_allocs |-> alloc'.n_allocs, s_allocs |-> alloc'.s_allocs]
    BY <1>1 DEF Allocs
  <2> QED BY <1>8, <2>1 DEF AllocatorsAgree
<1>10. CountersExact'
  BY <1>6, <1>7 DEF CountersExact, Chunks, Bytes
<1> QED BY <1>1, <1>9, <1>10 DEF Balanced, Counted

LEMMA StatsFields ==
  ASSUME NEW st \in Stats
  PROVE  /\ st.tealets \in Int /\ st.bytes \in Int /\ st.blocks \in Int
         /\ st.stack_count \in Int /\ st.chunk_count \in Int /\ st.stack_bytes \in Int
  BY DEF Stats

LEMMA AddAllocFields ==
  ASSUME NEW st \in Stats, NEW n \in Int
  PROVE  /\ AddAlloc(st, n) \in Stats
         /\ AddAlloc(st, n).bytes = st.bytes + n /\ AddAlloc(st, n).blocks = st.blocks + 1
         /\ AddAlloc(st, n).tealets = st.tealets /\ AddAlloc(st, n).stack_count = st.stack_count
         /\ AddAlloc(st, n).chunk_count = st.chunk_count
         /\ AddAlloc(st, n).stack_bytes = st.stack_bytes
<1>1. st.bytes + n \in Int /\ st.blocks + 1 \in Int
  BY StatsFields
<1>2. AddAlloc(st, n) \in Stats
  BY <1>1 DEF Stats, AddAlloc
<1>3. AddAlloc(st, n).bytes = st.bytes + n /\ AddAlloc(st, n).blocks = st.blocks + 1
  BY DEF Stats, AddAlloc
<1>4. /\ AddAlloc(st, n).tealets = st.tealets /\ AddAlloc(st, n).stack_count = st.stack_count
      /\ AddAlloc(st, n).chunk_count = st.chunk_count
      /\ AddAlloc(st, n).stack_bytes = st.stack_bytes
  BY DEF Stats, AddAlloc
<1> QED BY <1>2, <1>3, <1>4

LEMMA SubAllocFields ==
  ASSUME NEW st \in Stats, NEW n \in Int
  PROVE  /\ SubAlloc(st, n) \in Stats
         /\ SubAlloc(st, n).bytes = st.bytes - n /\ SubAlloc(st, n).blocks = st.blocks - 1
         /\ SubAlloc(st, n).tealets = st.tealets /\ SubAlloc(st, n).stack_count = st.stack_count
         /\ SubAlloc(st, n).chunk_count = st.chunk_count
         /\ SubAlloc(st, n).stack_bytes = st.stack_bytes
<1>1. st.bytes - n \in Int /\ st.blocks - 1 \in Int
  BY StatsFields
<1>2. SubAlloc(st, n) \in Stats
  BY <1>1 DEF Stats, SubAlloc
<1>3. SubAlloc(st, n).bytes = st.bytes - n /\ SubAlloc(st, n).blocks = st.blocks - 1
  BY DEF Stats, SubAlloc
<1>4. /\ SubAlloc(st, n).tealets = st.tealets /\ SubAlloc(st, n).stack_count = st.stack_count
      /\ SubAlloc(st, n).chunk_count = st.chunk_count
      /\ SubAlloc(st, n).stack_bytes = st.stack_bytes
  BY DEF Stats, SubAlloc
<1> QED BY <1>2, <1>3, <1>4

LEMMA FreedFields ==
  ASSUME NEW al \in Allocs, NEW n \in Int, NEW size \in Int
  PROVE  /\ Freed(al, n, size) \in Allocs
         /\ Freed(al, n, size).n_allocs = al.n_allocs - n
         /\ Freed(al, n, size).s_allocs = al.s_allocs - size
  BY DEF Allocs, Freed

LEMMA MallocFields ==
  ASSUME Counted, NEW size \in Int, Malloc(size)
  PROVE  /\ alloc' \in Allocs /\ alloc'.n_allocs = alloc.n_allocs + 1
         /\ alloc'.s_allocs = alloc.s_allocs + size
  BY DEF Counted, Allocs, Malloc

LEMMA ChunksReleasedFields ==
  ASSUME Typed, NEW st \in Stats, NEW s \in Stacks
  PROVE  /\ ChunksReleased(st, s) \in Stats
         /\ ChunksReleased(st, s).tealets = st.tealets
         /\ ChunksReleased(st, s).bytes = st.bytes - ChunkBytes(s)
         /\ ChunksReleased(st, s).blocks = st.blocks - block[s].chunks
         /\ ChunksReleased(st, s).stack_count = st.stack_count
         /\ ChunksReleased(st, s).chunk_count = st.chunk_count - block[s].chunks
         /\ ChunksReleased(st, s).stack_bytes = st.stack_bytes - ChunkBytes(s)
<1>1. ChunkBytes(s) \in Int /\ block[s].chunks \in Int
  BY SizesAreNumbers
<1> DEFINE bytes == ChunkBytes(s)
           chunks == block[s].chunks
           cr == ChunksReleased(st, s)
<1>2. cr = [st EXCEPT !.bytes = @ - bytes, !.blocks = @ - chunks, !.chunk_count = @ - chunks,
                      !.stack_bytes = @ - bytes]
  BY DEF ChunksReleased
<1>3. bytes \in Int /\ chunks \in Int
  BY <1>1
<1> HIDE DEF bytes, chunks, cr
<1>4. /\ st.bytes - bytes \in Int /\ st.blocks - chunks \in Int
      /\ st.chunk_count - chunks \in Int /\ st.stack_bytes - bytes \in Int
  BY <1>3, StatsFields
<1>5. cr \in Stats
  BY <1>2, <1>4 DEF Stats
<1>6. /\ cr.bytes = st.bytes - bytes /\ cr.blocks = st.blocks - chunks
      /\ cr.chunk_count = st.chunk_count - chunks /\ cr.stack_bytes = st.stack_bytes - bytes
  BY <1>2 DEF Stats
<1>7. cr.tealets = st.tealets /\ cr.stack_count = st.stack_count
  BY <1>2 DEF Stats
<1> QED BY <1>5, <1>6, <1>7 DEF bytes, chunks, cr

LEMMA StackReleasedFields ==
  ASSUME Typed, NEW st \in Stats, NEW s \in Stacks
  PROVE  /\ StackReleased(st, s) \in Stats
         /\ StackReleased(st, s).tealets = st.tealets
         /\ StackReleased(st, s).bytes = st.bytes - StackBytes(s)
         /\ StackReleased(st, s).blocks = st.blocks - (1 + block[s].chunks)
         /\ StackReleased(st, s).stack_count = st.stack_count - 1
         /\ StackReleased(st, s).chunk_count = st.chunk_count - (1 + block[s].chunks)
         /\ StackReleased(st, s).stack_bytes = st.stack_bytes - StackBytes(s)
<1> DEFINE size == StackHeader + block[s].first
           cr == ChunksReleased(st, s)
<1>1. ChunkBytes(s) \in Int /\ block[s].chunks \in Int /\ StackBytes(s) \in Int
  BY SizesAreNumbers
<1>2. size \in Int /\ StackBytes(s) = size + ChunkBytes(s)
  BY HeapAssumption DEF StackBytes, Typed, Blocks
<1>3. StackReleased(st, s) =
        [cr EXCEPT !.bytes = @ - size, !.blocks = @ - 1, !.stack_count = @ - 1,
                   !.chunk_count = @ - 1, !.stack_bytes = @ - size]
  BY DEF StackReleased
<1>4. /\ cr \in Stats /\ cr.tealets = st.tealets /\ cr.bytes = st.bytes - ChunkBytes(s)
      /\ cr.blocks = st.blocks - block[s].chunks /\ cr.stack_count = st.stack_count
      /\ cr.chunk_count = st.chunk_count - block[s].chunks
      /\ cr.stack_bytes = st.stack_bytes - ChunkBytes(s)
  BY ChunksReleasedFields
<1> DEFINE sr == StackReleased(st, s)
<1> HIDE DEF size, cr, sr
<1>5. /\ sr \in Stats /\ sr.tealets = cr.tealets /\ sr.bytes = cr.bytes - size
      /\ sr.blocks = cr.blocks - 1 /\ sr.stack_count = cr.stack_count - 1
      /\ sr.chunk_count = cr.chunk_count - 1 /\ sr.stack_bytes = cr.stack_bytes - size
  <2>1. /\ cr.bytes - size \in Int /\ cr.blocks - 1 \in Int /\ cr.stack_count - 1 \in Int
        /\ cr.chunk_count - 1 \in Int /\ cr.stack_bytes - size \in Int
    BY <1>2, <1>4, StatsFields
  <2>2. cr \in Stats
    BY <1>4
  <2>3. sr = [cr EXCEPT !.bytes = @ - size, !.blocks = @ - 1, !.stack_count = @ - 1,
                        !.chunk_count = @ - 1, !.stack_bytes = @ - size]
    BY <1>3 DEF sr
  <2>4. sr \in Stats
    BY <2>1, <2>2, <2>3 DEF Stats
  <2>5. sr.tealets = cr.tealets /\ sr.bytes = cr.bytes - size /\ sr.blocks = cr.blocks - 1
    BY <2>2, <2>3 DEF Stats
  <2>6. /\ sr.stack_count = cr.stack_count - 1 /\ sr.chunk_count = cr.chunk_count - 1
        /\ sr.stack_bytes = cr.stack_bytes - size
    BY <2>2, <2>3 DEF Stats
  <2> QED BY <2>4, <2>5, <2>6
<1>6. /\ st.bytes \in Int /\ st.blocks \in Int /\ st.chunk_count \in Int
      /\ st.stack_bytes \in Int /\ st.stack_count \in Int
  BY StatsFields
<1>7. /\ sr \in Stats /\ sr.tealets = st.tealets /\ sr.bytes = st.bytes - StackBytes(s)
      /\ sr.blocks = st.blocks - (1 + block[s].chunks) /\ sr.stack_count = st.stack_count - 1
      /\ sr.chunk_count = st.chunk_count - (1 + block[s].chunks)
      /\ sr.stack_bytes = st.stack_bytes - StackBytes(s)
  BY <1>1, <1>2, <1>4, <1>5, <1>6
<1> QED BY <1>7 DEF sr

(* Whether the reference to s that is given up is the last one. *)
Last(s) == s # NULL /\ ~(block[s].refcount > 1)

LEMMA DecrefBooks ==
  ASSUME Typed, NEW t \in Tealets, NEW s, s = stack[t], NEW st \in Stats, NEW al \in Allocs
  PROVE  /\ AfterDecref(st, s) \in Stats /\ AllocAfterDecref(al, s) \in Allocs
         /\ ~Last(s) => AfterDecref(st, s) = st /\ AllocAfterDecref(al, s) = al
         /\ Last(s) =>
              /\ AfterDecref(st, s).tealets = st.tealets
              /\ AfterDecref(st, s).bytes = st.bytes - StackBytes(s)
              /\ AfterDecref(st, s).blocks = st.blocks - (1 + block[s].chunks)
              /\ AfterDecref(st, s).stack_count = st.stack_count - 1
              /\ AfterDecref(st, s).chunk_count = st.chunk_count - (1 + block[s].chunks)
              /\ AfterDecref(st, s).stack_bytes = st.stack_bytes - StackBytes(s)
              /\ AllocAfterDecref(al, s).n_allocs = al.n_allocs - (1 + block[s].chunks)
              /\ AllocAfterDecref(al, s).s_allocs = al.s_allocs - StackBytes(s)
<1>1. CASE ~Last(s)
  BY <1>1 DEF Last, AfterDecref, AllocAfterDecref
<1>2. CASE Last(s)
  <2>1. s \in Stacks
    BY <1>2 DEF Last, Typed
  <2>2. /\ AfterDecref(st, s) = StackReleased(st, s)
        /\ AllocAfterDecref(al, s) = Freed(al, 1 + block[s].chunks, StackBytes(s))
    BY <1>2 DEF Last, AfterDecref, AllocAfterDecref
  <2>3. 1 + block[s].chunks \in Int /\ StackBytes(s) \in Int
    BY <2>1, SizesAreNumbers
  <2> QED BY <1>2, <2>1, <2>2, <2>3, StackReleasedFields, FreedFields
<1> QED BY <1>1, <1>2

---------------------------------------------------------------------------
(* Every step keeps them in step with the heap.                            *)

(* What goes when a reference to s is given up. *)
GoneStacks(s) == IF Last(s) THEN -1 ELSE 0
GoneChunks(s) == IF Last(s) THEN -(1 + block[s].chunks) ELSE 0
GoneBytes(s) == IF Last(s) THEN -StackBytes(s) ELSE 0

LEMMA GoneIsInt ==
  ASSUME Typed, NEW t \in Tealets, NEW s, s = stack[t]
  PROVE  GoneStacks(s) \in Int /\ GoneChunks(s) \in Int /\ GoneBytes(s) \in Int
<1>1. CASE Last(s)
  <2>1. s \in Stacks
    BY <1>1 DEF Last, Typed
  <2> QED BY <1>1, <2>1, SizesAreNumbers DEF GoneStacks, GoneChunks, GoneBytes
<1>2. CASE ~Last(s)
  BY <1>2 DEF GoneStacks, GoneChunks, GoneBytes
<1> QED BY <1>1, <1>2

LEMMA DecrefGrows ==
  ASSUME Typed, Typed', Owned, NEW t \in Tealets, NEW s, s = stack[t], Decref(s)
  PROVE  /\ Cardinality(Used)' = Cardinality(Used) + GoneStacks(s)
         /\ Sum(Used, Chunks)' = Sum(Used, Chunks) + GoneChunks(s)
         /\ Sum(Used, Bytes)' = Sum(Used, Bytes) + GoneBytes(s)
<1>0. /\ Cardinality(Used) \in Nat /\ Sum(Used, Chunks) \in Nat /\ Sum(Used, Bytes) \in Nat
  BY HeapNumbers
<1>1. CASE s = NULL
  <2>1. block' = block
    BY <1>1, DecrefNull
  <2>2. Used' = Used /\ \A x \in Used : SameSize(x)
    BY <2>1 DEF Used, SameSize
  <2> QED BY <1>0, <1>1, <2>2, StacksStay DEF Last, GoneStacks, GoneChunks, GoneBytes
<1>2. CASE s # NULL
  <2>1. s \in Stacks /\ s \in Used /\ block[s].refcount \in Nat \ {0}
    BY <1>2, StackInUse DEF Typed
  <2>2. /\ \A x \in Stacks \ {s} : block'[x].refcount = block[x].refcount /\ SameSize(x)
        /\ block'[s].refcount = block[s].refcount - 1
        /\ block[s].refcount # 1 => SameSize(s)
    BY <2>1, DecrefFields DEF SameSize
  <2>3. CASE Last(s)
    <3>1. block[s].refcount = 1
      BY <2>1, <2>3 DEF Last
    <3>2. Used' = Used \ {s} /\ \A x \in Used \ {s} : SameSize(x)
      BY <2>1, <2>2, <3>1 DEF Used
    <3>3. /\ Cardinality(Used)' = Cardinality(Used) - 1
          /\ Sum(Used, Chunks)' = Sum(Used, Chunks) - (1 + block[s].chunks)
          /\ Sum(Used, Bytes)' = Sum(Used, Bytes) - StackBytes(s)
      BY <2>1, <3>2, StackGoes
    <3>4. block[s].chunks \in Nat /\ StackBytes(s) \in Nat
      BY <2>1, SizesAreNumbers
    <3> QED BY <1>0, <2>3, <3>3, <3>4 DEF GoneStacks, GoneChunks, GoneBytes
  <2>4. CASE ~Last(s)
    <3>1. block[s].refcount > 1
      BY <1>2, <2>4 DEF Last
    <3>2. Used' = Used /\ \A x \in Used : SameSize(x)
      BY <2>1, <2>2, <3>1 DEF Used
    <3> QED BY <1>0, <2>4, <3>2, StacksStay DEF GoneStacks, GoneChunks, GoneBytes
  <2> QED BY <2>3, <2>4
<1> QED BY <1>1, <1>2

(* A tealet that is freed with its stack. *)
LEMMA FreesBooks ==
  ASSUME Typed, Counted, NEW t \in Tealets, NEW s, s = stack[t], FreesTealet(t, s), lent' = lent
  PROVE  Books(-1, GoneStacks(s), GoneChunks(s), GoneBytes(s))
<1> DEFINE st == AfterDecref(stats, s)
           al == AllocAfterDecref(alloc, s)
           sub == SubAlloc(st, TealetSize)
<1>1. stats \in Stats /\ alloc \in Allocs /\ TealetSize \in Int /\ lent \in Int
  BY HeapAssumption DEF Counted, Typed
<1>2. /\ st \in Stats /\ al \in Allocs /\ st.tealets = stats.tealets
      /\ st.bytes = stats.bytes + GoneBytes(s) /\ st.blocks = stats.blocks + GoneChunks(s)
      /\ st.stack_count = stats.stack_count + GoneStacks(s)
      /\ st.chunk_count = stats.chunk_count + GoneChunks(s)
      /\ st.stack_bytes = stats.stack_bytes + GoneBytes(s)
      /\ al.n_allocs = alloc.n_allocs + GoneChunks(s)
      /\ al.s_allocs = alloc.s_allocs + GoneBytes(s)
  <2>1. stats.tealets \in Int /\ stats.bytes \in Int /\ stats.blocks \in Int
        /\ stats.stack_count \in Int /\ stats.chunk_count \in Int /\ stats.stack_bytes \in Int
        /\ alloc.n_allocs \in Int /\ alloc.s_allocs \in Int
    BY <1>1, StatsFields DEF Allocs
  <2>2. st \in Stats /\ al \in Allocs
    BY <1>1, DecrefBooks
  <2>3. CASE ~Last(s)
    <3>1. st = stats /\ al = alloc
      BY <1>1, <2>3, DecrefBooks
    <3> HIDE DEF st, al
    <3> QED BY <2>1, <2>2, <2>3, <3>1 DEF GoneStacks, GoneChunks, GoneBytes
  <2>4. CASE Last(s)
    <3>1. /\ st.tealets = stats.tealets /\ st.bytes = stats.bytes - StackBytes(s)
          /\ st.blocks = stats.blocks - (1 + block[s].chunks)
          /\ st.stack_count = stats.stack_count - 1
          /\ st.chunk_count = stats.chunk_count - (1 + block[s].chunks)
          /\ st.stack_bytes = stats.stack_bytes - StackBytes(s)
          /\ al.n_allocs = alloc.n_allocs - (1 + block[s].chunks)
          /\ al.s_allocs = alloc.s_allocs - StackBytes(s)
      BY <1>1, <2>4, DecrefBooks
    <3>2. s \in Stacks
      BY <2>4 DEF Last, Typed
    <3>3. block[s].chunks \in Int /\ StackBytes(s) \in Int
      BY <3>2, SizesAreNumbers
    <3> HIDE DEF st, al
    <3> QED BY <2>1, <2>2, <2>4, <3>1, <3>3 DEF GoneStacks, GoneChunks, GoneBytes
  <2> QED BY <2>3, <2>4
<1>3. stats' = [sub EXCEPT !.tealets = @ - 1] /\ alloc' = Freed(al, 1, TealetSize)
  BY DEF FreesTealet
<1> HIDE DEF st, al
<1>4. /\ sub \in Stats /\ sub.bytes = st.bytes - TealetSize /\ sub.blocks = st.blocks - 1
      /\ sub.tealets = st.tealets /\ sub.stack_count = st.stack_count
      /\ sub.chunk_count = st.chunk_count /\ sub.stack_bytes = st.stack_bytes
  BY <1>1, <1>2, SubAllocFields
<1>5. /\ alloc' \in Allocs /\ alloc'.n_allocs = al.n_allocs - 1
      /\ alloc'.s_allocs = al.s_allocs - TealetSize
  <2>1. al \in Allocs /\ 1 \in Int /\ TealetSize \in Int
    BY <1>1, <1>2
  <2>2. /\ Freed(al, 1, TealetSize) \in Allocs
        /\ Freed(al, 1, TealetSize).n_allocs = al.n_allocs - 1
        /\ Freed(al, 1, TealetSize).s_allocs = al.s_allocs - TealetSize
    BY <2>1, FreedFields
  <2> QED BY <1>3, <2>2
<1> HIDE DEF sub
<1>6. /\ stats' \in Stats /\ stats'.tealets = sub.tealets - 1 /\ stats'.bytes = sub.bytes
      /\ stats'.blocks = sub.blocks /\ stats'.stack_count = sub.stack_count
      /\ stats'.chunk_count = sub.chunk_count /\ stats'.stack_bytes = sub.stack_bytes
  <2>1. sub.tealets - 1 \in Int
    BY <1>4, StatsFields
  <2>2. stats' \in Stats
    BY <1>3, <1>4, <2>1 DEF Stats
  <2>3. stats'.tealets = sub.tealets - 1
    BY <1>3, <1>4 DEF Stats
  <2>4. /\ stats'.bytes = sub.bytes /\ stats'.blocks = sub.blocks
        /\ stats'.stack_count = sub.stack_count /\ stats'.chunk_count = sub.chunk_count
        /\ stats'.stack_bytes = sub.stack_bytes
    BY <1>3, <1>4 DEF Stats
  <2> QED BY <2>2, <2>3, <2>4
<1>7. GoneStacks(s) \in Int /\ GoneChunks(s) \in Int /\ GoneBytes(s) \in Int
  BY GoneIsInt
<1>8. /\ stats.tealets \in Int /\ stats.bytes \in Int /\ stats.blocks \in Int
      /\ alloc.n_allocs \in Int /\ alloc.s_allocs \in Int
  BY <1>1, StatsFields DEF Allocs
<1>9. TealetSize * (-1) = -TealetSize
  BY <1>1
<1> QED BY <1>1, <1>2, <1>4, <1>5, <1>6, <1>7, <1>8, <1>9 DEF Books

LEMMA FreesBalanced ==
  ASSUME Typed, Typed', Owned, Balanced, NEW t \in live, NEW s, s = stack[t],
         FreesTealet(t, s), lent' = lent, Decref(s)
  PROVE  Balanced'
<1>1. t \in Tealets
  BY DEF Typed
<1>2. Books(-1, GoneStacks(s), GoneChunks(s), GoneBytes(s))
  BY <1>1, FreesBooks DEF Balanced
<1>3. Cardinality(live') = Cardinality(live) + (-1)
  <2>1. live' = live \ {t}
    BY DEF FreesTealet
  <2>2. IsFiniteSet(live) /\ Cardinality(live) \in Nat
    BY HeapNumbers
  <2>3. Cardinality(live \ {t}) = Cardinality(live) - 1
    BY <2>2, FS_RemoveElement
  <2> QED BY <2>1, <2>2, <2>3
<1>4. Grows(-1, GoneStacks(s), GoneChunks(s), GoneBytes(s))
  BY <1>1, <1>3, DecrefGrows DEF Grows
<1>5. GoneStacks(s) \in Int /\ GoneChunks(s) \in Int /\ GoneBytes(s) \in Int
  BY <1>1, GoneIsInt
<1> QED BY <1>2, <1>4, <1>5, BooksBalance

LEMMA RestoreBalanced ==
  ASSUME Typed, Typed', Roles, Owned, Balanced, Restore
  PROVE  Balanced'
<1> DEFINE t == transfer.to
           s == stack[t]
<1>1. t \in Tealets
  BY DEF Restore, InUser, Roles, Typed
<1>2. /\ Decref(s) /\ stats' = AfterDecref(stats, s) /\ alloc' = AllocAfterDecref(alloc, s)
      /\ live' = live /\ lent' = lent
  BY DEF Restore, Target
<1>3. stats \in Stats /\ alloc \in Allocs /\ TealetSize \in Int /\ lent \in Int
  BY HeapAssumption DEF Balanced, Counted, Typed
<1>4. GoneStacks(s) \in Int /\ GoneChunks(s) \in Int /\ GoneBytes(s) \in Int
  BY <1>1, GoneIsInt
<1>5. /\ stats.tealets \in Int /\ stats.bytes \in Int /\ stats.blocks \in Int
      /\ stats.stack_count \in Int /\ stats.chunk_count \in Int /\ stats.stack_bytes \in Int
      /\ alloc.n_allocs \in Int /\ alloc.s_allocs \in Int /\ TealetSize * 0 = 0
  BY <1>3, StatsFields DEF Allocs
<1>6. Books(0, GoneStacks(s), GoneChunks(s), GoneBytes(s))
  <2>1. stats' \in Stats /\ alloc' \in Allocs
    BY <1>1, <1>2, <1>3, DecrefBooks
  <2>2. CASE ~Last(s)
    <3>1. stats' = stats /\ alloc' = alloc
      BY <1>1, <1>2, <1>3, <2>2, DecrefBooks
    <3> QED BY <1>2, <1>3, <1>5, <2>1, <2>2, <3>1 DEF Books, GoneStacks, GoneChunks, GoneBytes
  <2>3. CASE Last(s)
    <3>1. /\ stats'.tealets = stats.tealets /\ stats'.bytes = stats.bytes - StackBytes(s)
          /\ stats'.blocks = stats.blocks - (1 + block[s].chunks)
          /\ stats'.stack_count = stats.stack_count - 1
          /\ stats'.chunk_count = stats.chunk_count - (1 + block[s].chunks)
          /\ stats'.stack_bytes = stats.stack_bytes - StackBytes(s)
          /\ alloc'.n_allocs = alloc.n_allocs - (1 + block[s].chunks)
          /\ alloc'.s_allocs = alloc.s_allocs - StackBytes(s)
      BY <1>1, <1>2, <1>3, <2>3, DecrefBooks
    <3>2. s \in Stacks
      BY <1>1, <2>3 DEF Last, Typed
    <3>3. block[s].chunks \in Int /\ StackBytes(s) \in Int
      BY <3>2, SizesAreNumbers
    <3> QED BY <1>2, <1>3, <1>5, <2>1, <2>3, <3>1, <3>3
            DEF Books, GoneStacks, GoneChunks, GoneBytes
  <2> QED BY <2>2, <2>3
<1>7. Cardinality(live') = Cardinality(live) + 0
  BY <1>2, HeapNumbers
<1>8. Grows(0, GoneStacks(s), GoneChunks(s), GoneBytes(s))
  BY <1>1, <1>2, <1>7, DecrefGrows DEF Grows
<1> HIDE DEF s
<1> QED BY <1>4, <1>6, <1>8, BooksBalance

LEMMA CounterNumbers ==
  ASSUME Typed, Counted
  PROVE  /\ stats \in Stats /\ alloc \in Allocs /\ TealetSize \in Int /\ lent \in Int
         /\ stats.tealets \in Int /\ stats.bytes \in Int /\ stats.blocks \in Int
         /\ stats.stack_count \in Int /\ stats.chunk_count \in Int /\ stats.stack_bytes \in Int
         /\ alloc.n_allocs \in Int /\ alloc.s_allocs \in Int
         /\ TealetSize * 0 = 0 /\ TealetSize * 1 = TealetSize
<1>1. stats \in Stats /\ alloc \in Allocs /\ TealetSize \in Int /\ lent \in Int
  BY HeapAssumption DEF Counted, Typed
<1>2. TealetSize * 0 = 0 /\ TealetSize * 1 = TealetSize
  BY <1>1
<1> QED BY <1>1, <1>2, StatsFields DEF Allocs

LEMMA AllocatesBalanced ==
  ASSUME Typed, Typed', Balanced, NEW t \in Tealets, Allocates(t), lent' = lent,
         Used' = Used, \A s \in Used : SameSize(s)
  PROVE  Balanced'
<1> DEFINE st == AddAlloc(stats, TealetSize)
<1>1. /\ stats \in Stats /\ alloc \in Allocs /\ TealetSize \in Int /\ lent \in Int
      /\ stats.tealets \in Int /\ stats.bytes \in Int /\ stats.blocks \in Int
      /\ stats.stack_count \in Int /\ stats.chunk_count \in Int /\ stats.stack_bytes \in Int
      /\ alloc.n_allocs \in Int /\ alloc.s_allocs \in Int /\ TealetSize * 1 = TealetSize
  BY CounterNumbers DEF Balanced
<1>2. /\ st \in Stats /\ st.bytes = stats.bytes + TealetSize /\ st.blocks = stats.blocks + 1
      /\ st.tealets = stats.tealets /\ st.stack_count = stats.stack_count
      /\ st.chunk_count = stats.chunk_count /\ st.stack_bytes = stats.stack_bytes
  BY <1>1, AddAllocFields
<1>3. stats' = [st EXCEPT !.tealets = @ + 1] /\ Malloc(TealetSize)
  BY DEF Allocates
<1> HIDE DEF st
<1>4. /\ stats' \in Stats /\ stats'.tealets = st.tealets + 1 /\ stats'.bytes = st.bytes
      /\ stats'.blocks = st.blocks /\ stats'.stack_count = st.stack_count
      /\ stats'.chunk_count = st.chunk_count /\ stats'.stack_bytes = st.stack_bytes
  <2>1. st.tealets + 1 \in Int
    BY <1>2, StatsFields
  <2>2. stats' \in Stats
    BY <1>2, <1>3, <2>1 DEF Stats
  <2>3. stats'.tealets = st.tealets + 1
    BY <1>2, <1>3 DEF Stats
  <2>4. /\ stats'.bytes = st.bytes /\ stats'.blocks = st.blocks
        /\ stats'.stack_count = st.stack_count /\ stats'.chunk_count = st.chunk_count
        /\ stats'.stack_bytes = st.stack_bytes
    BY <1>2, <1>3 DEF Stats
  <2> QED BY <2>2, <2>3, <2>4
<1>5. /\ alloc' \in Allocs /\ alloc'.n_allocs = alloc.n_allocs + 1
      /\ alloc'.s_allocs = alloc.s_allocs + TealetSize
  BY <1>1, <1>3, MallocFields DEF Balanced
<1>6. Books(1, 0, 0, 0)
  <2>1. /\ stats'.tealets = stats.tealets + 1 /\ stats'.stack_count = stats.stack_count + 0
        /\ stats'.chunk_count = stats.chunk_count + 0
        /\ stats'.stack_bytes = stats.stack_bytes + 0
        /\ stats'.blocks = stats.blocks + 1 + 0
    BY <1>1, <1>2, <1>4
  <2>2. stats'.bytes = stats.bytes + TealetSize * 1 + 0
    BY <1>1, <1>2, <1>4
  <2>3. /\ alloc'.n_allocs - lent' = alloc.n_allocs - lent + 1 + 0
        /\ alloc'.s_allocs - lent' = alloc.s_allocs - lent + TealetSize * 1 + 0
    BY <1>1, <1>5
  <2> QED BY <1>4, <1>5, <2>1, <2>2, <2>3 DEF Books
<1>7. Cardinality(live') = Cardinality(live) + 1
  <2>1. live' = live \cup {t} /\ t \notin live
    BY DEF Allocates
  <2>2. IsFiniteSet(live)
    BY HeapNumbers
  <2> QED BY <2>1, <2>2, FS_AddElement
<1>8. Grows(1, 0, 0, 0)
  BY <1>7, HeapNumbers, StacksStay DEF Grows
<1> QED BY <1>6, <1>8, BooksBalance

LEMMA Stays ==
  ASSUME Typed, Typed', Balanced, UNCHANGED <<live, counters, lent>>,
         Used' = Used, \A s \in Used : SameSize(s)
  PROVE  Balanced'
<1>1. stats' = stats /\ alloc' = alloc /\ lent' = lent /\ live' = live
  BY DEF counters
<1>2. Books(0, 0, 0, 0)
  BY <1>1, CounterNumbers DEF Books, Balanced
<1>3. Grows(0, 0, 0, 0)
  BY <1>1, HeapNumbers, StacksStay DEF Grows
<1> QED BY <1>2, <1>3, BooksBalance

LEMMA BlocksStay ==
  ASSUME Typed, Typed', Balanced, UNCHANGED <<live, counters, lent, block>>
  PROVE  Balanced'
<1>1. Used' = Used /\ \A s \in Used : SameSize(s)
  BY DEF Used, SameSize
<1> QED BY <1>1, Stays

LEMMA LendBalanced ==
  ASSUME Typed, Typed', Balanced, Lend \/ Reclaim
  PROVE  Balanced'
<1>1. stats' = stats /\ live' = live /\ block' = block
  BY DEF Lend, Reclaim
<1>2. Used' = Used /\ \A s \in Used : SameSize(s)
  BY <1>1 DEF Used, SameSize
<1>3. Counted
  BY DEF Balanced
<1>4. /\ alloc' \in Allocs /\ alloc'.n_allocs - lent' = alloc.n_allocs - lent
      /\ alloc'.s_allocs - lent' = alloc.s_allocs - lent
  <2>1. alloc \in Allocs /\ alloc.n_allocs \in Int /\ alloc.s_allocs \in Int /\ 1 \in Int
    BY <1>3, CounterNumbers
  <2>2. CASE Lend
    <3>1. Malloc(1) /\ lent' = lent + 1
      BY <2>2 DEF Lend
    <3>2. /\ alloc' \in Allocs /\ alloc'.n_allocs = alloc.n_allocs + 1
          /\ alloc'.s_allocs = alloc.s_allocs + 1
      BY <1>3, <2>1, <3>1, MallocFields
    <3> QED BY <2>1, <3>1, <3>2, CounterNumbers, <1>3
  <2>3. CASE Reclaim
    <3>1. alloc' = Freed(alloc, 1, 1) /\ lent' = lent - 1
      BY <2>3 DEF Reclaim
    <3>2. /\ Freed(alloc, 1, 1) \in Allocs
          /\ Freed(alloc, 1, 1).n_allocs = alloc.n_allocs - 1
          /\ Freed(alloc, 1, 1).s_allocs = alloc.s_allocs - 1
      BY <2>1, FreedFields
    <3> QED BY <2>1, <3>1, <3>2, CounterNumbers, <1>3
  <2> QED BY <2>2, <2>3
<1>5. Books(0, 0, 0, 0)
  BY <1>1, <1>3, <1>4, CounterNumbers DEF Books
<1>6. Grows(0, 0, 0, 0)
  BY <1>1, <1>2, HeapNumbers, StacksStay DEF Grows
<1> QED BY <1>5, <1>6, BooksBalance

(* A stack grows by a chunk. *)
LEMMA GrowthBalanced ==
  ASSUME Typed, Typed', Balanced, NEW s \in Used, NEW size \in Sizes, GrowAccounted(size),
         UNCHANGED <<live, lent>>, \A x \in Stacks : block'[x].refcount = block[x].refcount,
         \A x \in Used \ {s} : SameSize(x), block'[s].first = block[s].first,
         block'[s].chunks = block[s].chunks + 1, block'[s].grown = block[s].grown + size
  PROVE  Balanced'
<1> DEFINE bytes == ChunkHeader + size
           st == AddAlloc(stats, bytes)
<1>1. ChunkHeader \in Int /\ size \in Int /\ bytes \in Int /\ Counted
  BY HeapAssumption DEF Balanced
<1>2. /\ stats \in Stats /\ alloc \in Allocs /\ TealetSize \in Int /\ lent \in Int
      /\ stats.tealets \in Int /\ stats.bytes \in Int /\ stats.blocks \in Int
      /\ stats.stack_count \in Int /\ stats.chunk_count \in Int /\ stats.stack_bytes \in Int
      /\ alloc.n_allocs \in Int /\ alloc.s_allocs \in Int /\ TealetSize * 0 = 0
  BY <1>1, CounterNumbers
<1>3. /\ st \in Stats /\ st.bytes = stats.bytes + bytes /\ st.blocks = stats.blocks + 1
      /\ st.tealets = stats.tealets /\ st.stack_count = stats.stack_count
      /\ st.chunk_count = stats.chunk_count /\ st.stack_bytes = stats.stack_bytes
  BY <1>1, <1>2, AddAllocFields
<1>4. /\ stats' = [st EXCEPT !.chunk_count = @ + 1, !.stack_bytes = @ + ChunkHeader + size]
      /\ Malloc(bytes)
  BY DEF GrowAccounted
<1>5. /\ alloc' \in Allocs /\ alloc'.n_allocs = alloc.n_allocs + 1
      /\ alloc'.s_allocs = alloc.s_allocs + bytes
  BY <1>1, <1>4, MallocFields
<1> HIDE DEF st
<1>6. /\ stats' \in Stats /\ stats'.chunk_count = st.chunk_count + 1
      /\ stats'.stack_bytes = st.stack_bytes + ChunkHeader + size
      /\ stats'.tealets = st.tealets /\ stats'.bytes = st.bytes /\ stats'.blocks = st.blocks
      /\ stats'.stack_count = st.stack_count
  <2>1. st.chunk_count + 1 \in Int /\ st.stack_bytes + ChunkHeader + size \in Int
    BY <1>1, <1>3, StatsFields
  <2>2. stats' \in Stats
    BY <1>3, <1>4, <2>1 DEF Stats
  <2>3. /\ stats'.chunk_count = st.chunk_count + 1
        /\ stats'.stack_bytes = st.stack_bytes + ChunkHeader + size
    BY <1>3, <1>4 DEF Stats
  <2>4. /\ stats'.tealets = st.tealets /\ stats'.bytes = st.bytes /\ stats'.blocks = st.blocks
        /\ stats'.stack_count = st.stack_count
    BY <1>3, <1>4 DEF Stats
  <2> QED BY <2>2, <2>3, <2>4
<1>7. Books(0, 0, 1, bytes)
  BY <1>1, <1>2, <1>3, <1>5, <1>6 DEF Books
<1>8. s \in Stacks /\ Used' = Used
  BY DEF Used
<1>9. (Chunks')[s] - Chunks[s] = 1 /\ (Bytes')[s] - Bytes[s] = bytes
  <2>1. /\ (Chunks')[s] = 1 + block'[s].chunks /\ Chunks[s] = 1 + block[s].chunks
        /\ Bytes[s] = StackHeader + block[s].first + (block[s].grown + ChunkHeader * block[s].chunks)
        /\ (Bytes')[s] =
             StackHeader + block'[s].first + (block'[s].grown + ChunkHeader * block'[s].chunks)
    BY <1>8 DEF Chunks, Bytes, StackBytes, ChunkBytes
  <2>2. /\ block[s].first \in Int /\ block[s].grown \in Int /\ block[s].chunks \in Int
        /\ StackHeader \in Int
    BY <1>8, HeapAssumption DEF Typed, Blocks
  <2>3. /\ ChunkHeader * (block[s].chunks + 1) = ChunkHeader * block[s].chunks + ChunkHeader
        /\ ChunkHeader * block[s].chunks \in Int
    BY <1>1, <2>2
  <2> DEFINE product == ChunkHeader * block[s].chunks
  <2>4. /\ (Chunks')[s] = 1 + (block[s].chunks + 1)
        /\ (Bytes')[s] =
             StackHeader + block[s].first + ((block[s].grown + size) + (product + ChunkHeader))
    BY <2>1, <2>3
  <2>5. Bytes[s] = StackHeader + block[s].first + (block[s].grown + product) /\ product \in Int
    BY <2>1, <2>3
  <2> HIDE DEF product
  <2>6. (Chunks')[s] - Chunks[s] = 1
    BY <2>1, <2>2, <2>4
  <2>7. (Bytes')[s] - Bytes[s] = ChunkHeader + size
    BY <1>1, <2>2, <2>4, <2>5
  <2> QED BY <2>6, <2>7
<1>10. Grows(0, 0, 1, bytes)
  <2>1. /\ Cardinality(Used)' = Cardinality(Used)
        /\ Sum(Used, Chunks)' = Sum(Used, Chunks) + ((Chunks')[s] - Chunks[s])
        /\ Sum(Used, Bytes)' = Sum(Used, Bytes) + ((Bytes')[s] - Bytes[s])
    BY <1>8, StackResized
  <2> HIDE DEF bytes
  <2> QED BY <1>9, <2>1, HeapNumbers DEF Grows
<1> HIDE DEF bytes
<1> QED BY <1>1, <1>7, <1>10, BooksBalance

LEMMA LinkedInUse == ASSUME Listed, NEW s \in Stacks, IsLinked(s) PROVE s \in Used
<1>0. PICK n \in Nat : \E q \in [1 .. n -> Stacks] : ChainBy(block, g_prev, n, q)
  BY DEF Listed
<1>1. PICK q \in [1 .. n -> Stacks] : ChainBy(block, g_prev, n, q)
  BY <1>0
<1>2. PICK i \in 1 .. n : q[i] = s
  BY <1>1 DEF ChainBy, IsLinked
<1> QED BY <1>1, <1>2 DEF ChainBy, Used

(* A stack that is made defunct gives its chunks back. *)
LEMMA DefunctBalanced ==
  ASSUME Typed, Typed', Listed, WalkOnList, Balanced, NEW s \in Stacks, GrowDefunct(s)
  PROVE  Balanced'
<1> DEFINE chunks == block[s].chunks
           bytes == ChunkBytes(s)
<1>1. /\ stats \in Stats /\ alloc \in Allocs /\ TealetSize \in Int /\ lent \in Int
      /\ stats.tealets \in Int /\ stats.bytes \in Int /\ stats.blocks \in Int
      /\ stats.stack_count \in Int /\ stats.chunk_count \in Int /\ stats.stack_bytes \in Int
      /\ alloc.n_allocs \in Int /\ alloc.s_allocs \in Int /\ TealetSize * 0 = 0
  BY CounterNumbers DEF Balanced
<1>2. chunks \in Int /\ bytes \in Int
  BY SizesAreNumbers
<1>3. s \in Used
  BY LinkedInUse, HeapAssumption DEF GrowDefunct, At, WalkOnList
<1>4. /\ stats' = ChunksReleased(stats, s) /\ alloc' = Freed(alloc, chunks, bytes)
      /\ block' = Unlinked(Defuncted(s), s) /\ live' = live /\ lent' = lent
  BY DEF GrowDefunct, TakesOut, Defuncted
<1>5. /\ stats' \in Stats /\ stats'.tealets = stats.tealets
      /\ stats'.bytes = stats.bytes - bytes /\ stats'.blocks = stats.blocks - chunks
      /\ stats'.stack_count = stats.stack_count
      /\ stats'.chunk_count = stats.chunk_count - chunks
      /\ stats'.stack_bytes = stats.stack_bytes - bytes
  BY <1>1, <1>4, ChunksReleasedFields
<1>6. /\ alloc' \in Allocs /\ alloc'.n_allocs = alloc.n_allocs - chunks
      /\ alloc'.s_allocs = alloc.s_allocs - bytes
  BY <1>1, <1>2, <1>4, FreedFields
<1>7. \A x \in Stacks :
        /\ block'[x].refcount = block[x].refcount /\ block'[x].first = block[x].first
        /\ block'[x].chunks = IF x = s THEN 0 ELSE block[x].chunks
        /\ block'[x].grown = IF x = s THEN 0 ELSE block[x].grown
  <2> DEFINE b == Defuncted(s)
  <2>1. /\ b \in [Stacks -> Blocks]
        /\ \A x \in Stacks : /\ b[x].refcount = block[x].refcount
                             /\ b[x].first = block[x].first
                             /\ b[x].chunks = IF x = s THEN 0 ELSE block[x].chunks
                             /\ b[x].grown = IF x = s THEN 0 ELSE block[x].grown
    BY DefunctedFields
  <2>2. block' = Unlinked(b, s)
    BY <1>4
  <2> HIDE DEF b
  <2> QED BY <2>1, <2>2, UnlinkedFields
<1>8. Used' = Used /\ \A x \in Used \ {s} : SameSize(x)
  BY <1>7 DEF Used, SameSize
<1>9. (Chunks')[s] - Chunks[s] = -chunks /\ (Bytes')[s] - Bytes[s] = -bytes
  <2>1. block'[s].first = block[s].first /\ block'[s].chunks = 0 /\ block'[s].grown = 0
    BY <1>7
  <2>2. /\ Chunks[s] = 1 + chunks /\ (Chunks')[s] = 1 + block'[s].chunks
        /\ Bytes[s] = StackHeader + block[s].first + bytes
        /\ (Bytes')[s] =
             StackHeader + block'[s].first + (block'[s].grown + ChunkHeader * block'[s].chunks)
    BY DEF Chunks, Bytes, StackBytes, ChunkBytes
  <2>3. block[s].first \in Int /\ StackHeader \in Int /\ ChunkHeader \in Int
    BY HeapAssumption DEF Typed, Blocks
  <2>4. ChunkHeader * 0 = 0
    BY <2>3
  <2> HIDE DEF chunks, bytes
  <2> QED BY <1>2, <2>1, <2>2, <2>3, <2>4
<1> HIDE DEF chunks, bytes
<1>10. Books(0, 0, -chunks, -bytes)
  BY <1>1, <1>2, <1>4, <1>5, <1>6 DEF Books
<1>11. Grows(0, 0, -chunks, -bytes)
  <2>1. /\ Cardinality(Used)' = Cardinality(Used)
        /\ Sum(Used, Chunks)' = Sum(Used, Chunks) + ((Chunks')[s] - Chunks[s])
        /\ Sum(Used, Bytes)' = Sum(Used, Bytes) + ((Bytes')[s] - Bytes[s])
    BY <1>3, <1>8, StackResized
  <2> QED BY <1>2, <1>4, <1>9, <2>1, HeapNumbers DEF Grows
<1>12. -chunks \in Int /\ -bytes \in Int
  BY <1>2
<1> QED BY <1>10, <1>11, <1>12, BooksBalance

(* A stack is saved in a block of its own. *)
LEMMA SaveBalanced ==
  ASSUME Typed, Typed', Balanced, NEW s \in Stacks, NEW size \in Sizes, NEW full \in BOOLEAN,
         Save(s, size, full)
  PROVE  Balanced'
<1> DEFINE bytes == StackHeader + size
           new == Saved(size, full)
           st == AddAlloc(stats, bytes)
<1>1. /\ stats \in Stats /\ alloc \in Allocs /\ TealetSize \in Int /\ lent \in Int
      /\ stats.tealets \in Int /\ stats.bytes \in Int /\ stats.blocks \in Int
      /\ stats.stack_count \in Int /\ stats.chunk_count \in Int /\ stats.stack_bytes \in Int
      /\ alloc.n_allocs \in Int /\ alloc.s_allocs \in Int /\ TealetSize * 0 = 0
  BY CounterNumbers DEF Balanced
<1>2. StackHeader \in Int /\ ChunkHeader \in Int /\ size \in Int /\ bytes \in Int /\ Counted
  BY HeapAssumption DEF Balanced
<1>3. /\ stats' = [st EXCEPT !.stack_count = @ + 1, !.chunk_count = @ + 1,
                             !.stack_bytes = @ + bytes]
      /\ Malloc(bytes) /\ live' = live /\ lent' = lent /\ s \notin Used
      /\ IF full THEN block' = [block EXCEPT ![s] = new] ELSE block' = Linked(s, new)
  BY DEF Save, Saved
<1>4. /\ st \in Stats /\ st.bytes = stats.bytes + bytes /\ st.blocks = stats.blocks + 1
      /\ st.tealets = stats.tealets /\ st.stack_count = stats.stack_count
      /\ st.chunk_count = stats.chunk_count /\ st.stack_bytes = stats.stack_bytes
  BY <1>1, <1>2, AddAllocFields
<1>5. /\ alloc' \in Allocs /\ alloc'.n_allocs = alloc.n_allocs + 1
      /\ alloc'.s_allocs = alloc.s_allocs + bytes
  BY <1>2, <1>3, MallocFields
<1>6. /\ new \in Blocks /\ new.refcount = 1 /\ new.first = size /\ new.chunks = 0
      /\ new.grown = 0
  BY SavedFields
<1> HIDE DEF st, new
<1>7. \A x \in Stacks :
        /\ block'[x].refcount = IF x = s THEN 1 ELSE block[x].refcount
        /\ block'[x].first = IF x = s THEN size ELSE block[x].first
        /\ block'[x].chunks = IF x = s THEN 0 ELSE block[x].chunks
        /\ block'[x].grown = IF x = s THEN 0 ELSE block[x].grown
  <2>1. CASE full
    <3>1. block'[s] = new /\ \A x \in Stacks \ {s} : block'[x] = block[x]
      BY <1>3, <2>1 DEF Typed
    <3> QED BY <1>6, <3>1
  <2>2. CASE ~full
    <3> DEFINE b == Linked(s, new)
    <3>1. block' = b
      BY <1>3, <2>2
    <3>2. new \in Blocks
      BY <1>6
    <3>3. \A x \in Stacks : /\ b[x].refcount = IF x = s THEN new.refcount ELSE block[x].refcount
                            /\ b[x].first = IF x = s THEN new.first ELSE block[x].first
                            /\ b[x].chunks = IF x = s THEN new.chunks ELSE block[x].chunks
                            /\ b[x].grown = IF x = s THEN new.grown ELSE block[x].grown
      BY <3>2, LinkedFields
    <3> HIDE DEF b
    <3> QED BY <1>6, <3>1, <3>3
  <2> QED BY <2>1, <2>2
<1>8. s \in Stacks \ Used /\ Used' = Used \cup {s} /\ \A x \in Used : SameSize(x)
  <2>1. s \notin Used
    BY <1>3
  <2> QED BY <1>7, <2>1 DEF Used, SameSize
<1>9. (Chunks')[s] = 1 /\ (Bytes')[s] = bytes
  <2>1. /\ (Chunks')[s] = 1 + block'[s].chunks
        /\ (Bytes')[s] =
             StackHeader + block'[s].first + (block'[s].grown + ChunkHeader * block'[s].chunks)
    BY DEF Chunks, Bytes, StackBytes, ChunkBytes
  <2>2. block'[s].first = size /\ block'[s].chunks = 0 /\ block'[s].grown = 0
    BY <1>7
  <2>3. ChunkHeader * 0 = 0
    BY <1>2
  <2>4. (Chunks')[s] = 1 + 0 /\ (Bytes')[s] = StackHeader + size + (0 + ChunkHeader * 0)
    BY <2>1, <2>2
  <2> QED BY <1>2, <2>3, <2>4
<1> HIDE DEF bytes
<1>10. /\ stats' \in Stats /\ stats'.stack_count = st.stack_count + 1
       /\ stats'.chunk_count = st.chunk_count + 1 /\ stats'.stack_bytes = st.stack_bytes + bytes
       /\ stats'.tealets = st.tealets /\ stats'.bytes = st.bytes /\ stats'.blocks = st.blocks
  <2>1. /\ st.stack_count + 1 \in Int /\ st.chunk_count + 1 \in Int
        /\ st.stack_bytes + bytes \in Int
    BY <1>2, <1>4, StatsFields
  <2>2. stats' \in Stats
    BY <1>3, <1>4, <2>1 DEF Stats
  <2>3. /\ stats'.stack_count = st.stack_count + 1 /\ stats'.chunk_count = st.chunk_count + 1
        /\ stats'.stack_bytes = st.stack_bytes + bytes
    BY <1>3, <1>4 DEF Stats
  <2>4. stats'.tealets = st.tealets /\ stats'.bytes = st.bytes /\ stats'.blocks = st.blocks
    BY <1>3, <1>4 DEF Stats
  <2> QED BY <2>2, <2>3, <2>4
<1>11. Books(0, 1, 1, bytes)
  BY <1>1, <1>2, <1>3, <1>4, <1>5, <1>10 DEF Books
<1>12. Grows(0, 1, 1, bytes)
  <2>1. /\ Cardinality(Used)' = Cardinality(Used) + 1
        /\ Sum(Used, Chunks)' = Sum(Used, Chunks) + (Chunks')[s]
        /\ Sum(Used, Bytes)' = Sum(Used, Bytes) + (Bytes')[s]
    BY <1>8, StackComes
  <2> QED BY <1>3, <1>9, <2>1, HeapNumbers DEF Grows
<1> QED BY <1>2, <1>11, <1>12, BooksBalance

LEMMA GrowPartBalanced ==
  ASSUME Typed, Typed', Listed, WalkOnList, Balanced, NEW s \in Stacks, NEW size \in Sizes,
         GrowPart(s, size)
  PROVE  Balanced'
<1>1. s \in Used
  BY LinkedInUse, HeapAssumption DEF GrowPart, At, WalkOnList
<1>2. \E full \in BOOLEAN : block' = Grown(s, size, full)
  BY GrownEither DEF GrowPart
<1>3. \A x \in Stacks :
        /\ block'[x].refcount = block[x].refcount /\ block'[x].first = block[x].first
        /\ block'[x].chunks = IF x = s THEN block[x].chunks + 1 ELSE block[x].chunks
        /\ block'[x].grown = IF x = s THEN block[x].grown + size ELSE block[x].grown
  BY <1>2, GrownFields
<1>4. GrowAccounted(size) /\ live' = live /\ lent' = lent
  BY DEF GrowPart
<1>5. \A x \in Used \ {s} : SameSize(x)
  BY <1>3 DEF Used, SameSize
<1> QED BY <1>1, <1>3, <1>4, <1>5, GrowthBalanced

LEMMA GrowWholeBalanced ==
  ASSUME Typed, Typed', Listed, WalkOnList, Balanced, NEW s \in Stacks, NEW size \in Sizes,
         GrowWhole(s, size)
  PROVE  Balanced'
<1> DEFINE b == Grown(s, size, TRUE)
<1>1. s \in Used
  BY LinkedInUse, HeapAssumption DEF GrowWhole, At, WalkOnList
<1>2. \E full \in BOOLEAN : b = Grown(s, size, full)
  BY GrownEither
<1>3. block' = Unlinked(b, s) /\ GrowAccounted(size) /\ live' = live /\ lent' = lent
  BY DEF GrowWhole, TakesOut
<1> HIDE DEF b
<1>4. /\ b \in [Stacks -> Blocks]
      /\ \A x \in Stacks :
           /\ b[x].refcount = block[x].refcount /\ b[x].first = block[x].first
           /\ b[x].chunks = IF x = s THEN block[x].chunks + 1 ELSE block[x].chunks
           /\ b[x].grown = IF x = s THEN block[x].grown + size ELSE block[x].grown
  BY <1>2, GrownFields
<1>5. \A x \in Stacks :
        /\ block'[x].refcount = block[x].refcount /\ block'[x].first = block[x].first
        /\ block'[x].chunks = IF x = s THEN block[x].chunks + 1 ELSE block[x].chunks
        /\ block'[x].grown = IF x = s THEN block[x].grown + size ELSE block[x].grown
  BY <1>3, <1>4, UnlinkedFields
<1>6. \A x \in Used \ {s} : SameSize(x)
  BY <1>5 DEF Used, SameSize
<1> QED BY <1>1, <1>3, <1>5, <1>6, GrowthBalanced

LEMMA DuplicateBalanced ==
  ASSUME Typed, Typed', Owned, Balanced, NEW t \in Tealets, NEW copy \in Tealets,
         Duplicate(t, copy)
  PROVE  Balanced'
<1>1. Allocates(copy) /\ lent' = lent
  BY DEF Duplicate
<1>2. Used' = Used /\ \A x \in Used : SameSize(x)
  <2>1. CASE stack[t] = NULL
    <3>1. block' = block
      BY <2>1 DEF Duplicate
    <3> QED BY <3>1 DEF Used, SameSize
  <2>2. CASE stack[t] # NULL
    <3>1. PICK s \in Stacks : s = stack[t]
      BY <2>2 DEF Typed
    <3>2. block[s].refcount \in Nat \ {0} /\ block[s] \in Blocks
      BY <2>2, <3>1, StackInUse DEF Typed
    <3>3. block' = [block EXCEPT ![s] = [block[s] EXCEPT !.refcount = @ + 1]]
      BY <2>2, <3>1 DEF Duplicate
    <3>4. /\ \A x \in Stacks \ {s} : block'[x] = block[x]
          /\ block'[s].first = block[s].first /\ block'[s].chunks = block[s].chunks
          /\ block'[s].grown = block[s].grown /\ block'[s].refcount = block[s].refcount + 1
      BY <3>2, <3>3 DEF Typed, Blocks
    <3>5. \A x \in Stacks : /\ block'[x].first = block[x].first
                            /\ block'[x].chunks = block[x].chunks
                            /\ block'[x].grown = block[x].grown
                            /\ block'[x].refcount > 0 <=> block[x].refcount > 0
      BY <3>2, <3>4
    <3> QED BY <3>5 DEF Used, SameSize
  <2> QED BY <2>1, <2>2
<1> QED BY <1>1, <1>2, AllocatesBalanced

LEMMA LeaveDeletedBalanced ==
  ASSUME Typed, Typed', Roles, Owned, Balanced, LeaveDeleted
  PROVE  Balanced'
<1>1. PICK t \in live : t = transfer.from /\ stack[t] = NULL
  BY DEF LeaveDeleted, Roles
<1>2. FreesTealet(t, NULL) /\ lent' = lent /\ block' = block /\ g_prev' = g_prev
  BY <1>1 DEF LeaveDeleted
<1>3. Decref(NULL)
  <2>1. block' = [x \in Stacks |-> block[x]]
    BY <1>2 DEF Typed
  <2> QED BY <1>2, <2>1, HeapAssumption DEF Decref
<1> QED BY <1>1, <1>2, <1>3, FreesBalanced

LEMMA NextBalanced ==
  ASSUME Typed, Typed', Roles, Owned, Listed, WalkOnList, Balanced, Next
  PROVE  Balanced'
<1>1. ASSUME NEW t \in Tealets, New(t) PROVE Balanced'
  <2>1. Allocates(t) /\ lent' = lent /\ Used' = Used /\ \A s \in Used : SameSize(s)
    BY <1>1 DEF New, Used, SameSize
  <2> QED BY <2>1, AllocatesBalanced
<1>2. ASSUME NEW t \in Tealets, Delete(t) PROVE Balanced'
  <2>1. t \in live /\ Decref(stack[t]) /\ FreesTealet(t, stack[t]) /\ lent' = lent
    BY <1>2 DEF Delete
  <2> QED BY <2>1, FreesBalanced
<1>3. ASSUME NEW t \in Tealets, NEW copy \in Tealets, Duplicate(t, copy) PROVE Balanced'
  BY <1>3, DuplicateBalanced
<1>4. CASE UNCHANGED <<live, counters, lent, block>>
  BY <1>4, BlocksStay
<1>5. ASSUME NEW s \in Stacks, PassTarget(s) PROVE Balanced'
  <2>1. block' = Unlinked(block, s) /\ UNCHANGED <<live, counters, lent>>
    BY <1>5 DEF PassTarget, TakesOut
  <2>2. \A x \in Stacks : /\ block'[x].refcount = block[x].refcount
                          /\ block'[x].first = block[x].first
                          /\ block'[x].chunks = block[x].chunks
                          /\ block'[x].grown = block[x].grown
    BY <2>1, UnlinkedFields DEF Typed
  <2>3. Used' = Used /\ \A x \in Used : SameSize(x)
    BY <2>2 DEF Used, SameSize
  <2> QED BY <2>1, <2>3, Stays
<1>6. ASSUME NEW s \in Stacks, GrowDefunct(s) PROVE Balanced'
  BY <1>6, DefunctBalanced
<1>7. ASSUME NEW s \in Stacks, NEW size \in Sizes, GrowPart(s, size) PROVE Balanced'
  BY <1>7, GrowPartBalanced
<1>8. ASSUME NEW s \in Stacks, NEW size \in Sizes, GrowWhole(s, size) PROVE Balanced'
  BY <1>8, GrowWholeBalanced
<1>9. ASSUME NEW s \in Stacks, NEW size \in Sizes, NEW full \in BOOLEAN, Save(s, size, full)
      PROVE  Balanced'
  BY <1>9, SaveBalanced
<1>10. CASE LeaveDeleted
  BY <1>10, LeaveDeletedBalanced
<1>11. CASE Restore
  BY <1>11, RestoreBalanced
<1>12. CASE Lend \/ Reclaim
  BY <1>12, LendBalanced
<1> QED
  BY <1>1, <1>2, <1>3, <1>4, <1>5, <1>6, <1>7, <1>8, <1>9, <1>10, <1>11, <1>12
  DEF Next, BeginStart, BeginTransfer, Begins, EndOfList, SaveFails, GivesUp, SaveDefunct,
      LeaveExited, Pass, GrowFails

LEMMA InitBalanced == ASSUME Init, Typed PROVE Balanced
<1>1. /\ live = {Main} /\ lent = 0
      /\ stats = [tealets |-> 1, bytes |-> TealetSize, blocks |-> 1,
                  stack_count |-> 0, chunk_count |-> 0, stack_bytes |-> 0]
      /\ alloc = [n_allocs |-> 1, s_allocs |-> TealetSize]
  BY DEF Init
<1>2. TealetSize \in Int
  BY HeapAssumption
<1>3. Counted
  BY <1>1, <1>2 DEF Counted, Stats, Allocs
<1>4. Used = {}
  BY DEF Init, Used, Free
<1>5. Sum(Used, Chunks) = 0 /\ Sum(Used, Bytes) = 0 /\ Cardinality(Used) = 0
  <2>1. \A size : UNION {{s} \X (1 .. size[s]) : s \in Used} = {}
    BY <1>4
  <2> QED BY <1>4, <2>1, FS_EmptySet DEF Sum
<1>6. Cardinality(live) = 1
  BY <1>1, FS_Singleton
<1>7. /\ stats.tealets = 1 /\ stats.bytes = TealetSize /\ stats.blocks = 1
      /\ stats.stack_count = 0 /\ stats.chunk_count = 0 /\ stats.stack_bytes = 0
  BY <1>1
<1>8. TealetSize * 1 + 0 = TealetSize
  BY <1>2
<1>9. CountersExact
  BY <1>5, <1>6, <1>7, <1>8 DEF CountersExact, Chunks, Bytes
<1>10. AllocatorsAgree
  <2>1. 1 + 0 = 1 /\ TealetSize + 0 = TealetSize
    BY <1>2
  <2> QED BY <1>1, <1>7, <2>1 DEF AllocatorsAgree
<1> QED BY <1>3, <1>9, <1>10 DEF Balanced

LEMMA AlwaysBalanced == Spec => []Balanced
<1>1. Sound /\ Balanced /\ [Next]_vars => Balanced'
  <2>1. Sound /\ Balanced /\ Next => Balanced'
    <3>1. Sound /\ Next => Typed'
      BY NextTyped DEF Sound
    <3> QED BY <3>1, NextBalanced DEF Sound
  <2>2. Balanced /\ UNCHANGED vars => Balanced'
    BY DEF vars, counters, Balanced, Counted, CountersExact, AllocatorsAgree, Used, StackBytes,
           ChunkBytes, Sum
  <2> QED BY <2>1, <2>2
<1>2. Sound /\ Init => Balanced
  BY InitBalanced DEF Sound
<1> QED BY <1>1, <1>2, AlwaysSound, PTL DEF Spec

(* tealet_get_stats() reports what is on the heap: one tealet for each     *)
(* that is allocated, one stack for each saved, the chunks and bytes in    *)
(* them, and the blocks and bytes of all these.                            *)
THEOREM StatsAreExact == Spec => []CountersExact
<1>1. Balanced => CountersExact
  BY DEF Balanced
<1> QED BY <1>1, AlwaysBalanced, PTL

(* A tealet_statsalloc_t under the domain counts the blocks and bytes that *)
(* the domain counts, and those that the application has.                  *)
THEOREM AllocatorAgrees == Spec => []AllocatorsAgree
<1>1. Balanced => AllocatorsAgree
  BY DEF Balanced
<1> QED BY <1>1, AlwaysBalanced, PTL

(* All variables keep their types, and no counter goes below 0.            *)
THEOREM TypesHold == Spec => []TypeOK
<1>1. ASSUME Sound, Balanced PROVE TypeOK
  <2>1. Typed /\ stats \in Stats /\ alloc \in Allocs
    BY <1>1 DEF Sound, Balanced, Counted
  <2>2. /\ stats.tealets = Cardinality(live) /\ stats.stack_count = Cardinality(Used)
        /\ stats.chunk_count = Sum(Used, Chunks) /\ stats.stack_bytes = Sum(Used, Bytes)
        /\ stats.blocks = stats.tealets + stats.chunk_count
        /\ stats.bytes = TealetSize * stats.tealets + stats.stack_bytes
    BY <1>1 DEF Balanced, CountersExact, Chunks, Bytes
  <2>3. /\ stats.tealets \in Nat /\ stats.stack_count \in Nat /\ stats.chunk_count \in Nat
        /\ stats.stack_bytes \in Nat
    BY <2>1, <2>2, HeapNumbers
  <2>4. TealetSize * stats.tealets \in Nat
    <3>1. TealetSize \in Nat
      BY HeapAssumption
    <3> QED BY <2>3, <3>1
  <2>5. stats.blocks \in Nat /\ stats.bytes \in Nat
    BY <2>2, <2>3, <2>4
  <2>6. lent \in Nat /\ alloc = [n_allocs |-> stats.blocks + lent, s_allocs |-> stats.bytes + lent]
    BY <1>1, <2>1 DEF Balanced, AllocatorsAgree, Typed
  <2>7. \A field \in DOMAIN stats : stats[field] \in Nat
    <3>1. DOMAIN stats = {"tealets", "bytes", "blocks", "stack_count", "chunk_count",
                          "stack_bytes"}
      BY <2>1 DEF Stats
    <3> QED BY <2>3, <2>5, <3>1
  <2>8. \A field \in DOMAIN alloc : alloc[field] \in Nat
    BY <2>5, <2>6
  <2> QED BY <2>1, <2>7, <2>8 DEF Typed, TypeOK
<1> QED BY <1>1, AlwaysSound, AlwaysBalanced, PTL

---------------------------------------------------------------------------
(* The list implements a sequence.                                         *)

Nodes(n, q) == [i \in 1 .. Cardinality(Stacks) + 1 |-> IF i <= n THEN q[i] ELSE NULL]

LEMMA ChainLength ==
  ASSUME NEW n \in Nat, NEW q \in [1 .. n -> Stacks], ChainBy(block, g_prev, n, q)
  PROVE  Cardinality(Stacks) \in Nat /\ n <= Cardinality(Stacks)
<1>1. q \in Injection(1 .. n, Stacks)
  BY DEF ChainBy, Injection, IsInjective
<1>2. IsFiniteSet(Stacks) /\ Cardinality(Stacks) \in Nat
  BY HeapAssumption, FS_CardinalityType
<1>3. Cardinality(1 .. n) = n
  BY FS_Interval
<1> QED BY <1>1, <1>2, <1>3, FS_Injection

Ordered ==
  \A n \in Nat : \A q \in [1 .. n -> Stacks] : ChainBy(block, g_prev, n, q) => Order = q

(* Following next from g_prev gives the stacks of the list, in order. *)
LEMMA OrderIs == Ordered
<1> SUFFICES ASSUME NEW n \in Nat, NEW q \in [1 .. n -> Stacks], ChainBy(block, g_prev, n, q)
             PROVE  Order = q
  BY DEF Ordered
<1> DEFINE D == 1 .. Cardinality(Stacks) + 1
           Step(f) == [i \in D |-> IF i = 1 THEN g_prev
                                   ELSE IF f[i - 1] = NULL THEN NULL ELSE block[f[i - 1]].next]
           node == CHOOSE f : f = Step(f)
           z == Nodes(n, q)
<1>1. Cardinality(Stacks) \in Nat /\ n <= Cardinality(Stacks)
  BY ChainLength
<1>2. \A i \in D : z[i] = IF i <= n THEN q[i] ELSE NULL
  BY DEF Nodes
<1>3. \A i \in D : z[i] = IF i = 1 THEN g_prev
                          ELSE IF z[i - 1] = NULL THEN NULL ELSE block[z[i - 1]].next
  <2> SUFFICES ASSUME NEW i \in D
               PROVE  z[i] = IF i = 1 THEN g_prev
                             ELSE IF z[i - 1] = NULL THEN NULL ELSE block[z[i - 1]].next
    OBVIOUS
  <2> HIDE DEF z
  <2>1. CASE i = 1
    BY <1>1, <1>2, <2>1 DEF ChainBy
  <2>2. CASE i # 1 /\ i - 1 <= n
    <3>1. i - 1 \in 1 .. n /\ i - 1 \in D /\ z[i - 1] = q[i - 1] /\ q[i - 1] \in Stacks
      BY <1>1, <1>2, <2>2
    <3>2. block[q[i - 1]].next = IF i - 1 < n THEN q[(i - 1) + 1] ELSE NULL
      BY <3>1 DEF ChainBy
    <3>3. (i - 1) + 1 = i /\ (i - 1 < n <=> i <= n)
      OBVIOUS
    <3> QED BY <1>2, <2>2, <3>1, <3>2, <3>3, HeapAssumption
  <2>3. CASE i # 1 /\ ~(i - 1 <= n)
    BY <1>1, <1>2, <2>3
  <2> QED BY <2>1, <2>2, <2>3
<1>4. z = Step(z)
  BY <1>3 DEF Nodes
<1>5. node = Step(node)
  <2> HIDE DEF z, D
  <2> QED BY <1>4, Zenon
<1>6. \A i \in D : node[i] = IF i = 1 THEN g_prev
                             ELSE IF node[i - 1] = NULL THEN NULL ELSE block[node[i - 1]].next
  <2> HIDE DEF node, D
  <2> QED BY <1>5
<1>7. DOMAIN node = D
  <2> HIDE DEF node, D
  <2> QED BY <1>5
<1>8. Order = [i \in 1 .. Cardinality({k \in DOMAIN node : node[k] # NULL}) |-> node[i]]
  BY DEF Order
<1> HIDE DEF node, z
<1>9. \A i \in D : node[i] = z[i]
  <2> DEFINE T == {i \in D : node[i] # z[i]}
  <2> SUFFICES ASSUME T # {} PROVE FALSE
    OBVIOUS
  <2>1. T \in SUBSET Nat
    BY <1>1
  <2>2. PICK m \in T : \A k \in T : ~(k < m)
    BY <2>1, LeastNumber
  <2>3. m \in D /\ node[m] # z[m]
    OBVIOUS
  <2>4. m # 1
    BY <1>3, <1>6, <2>3
  <2>5. m - 1 \in D /\ m - 1 < m
    BY <1>1, <2>3, <2>4
  <2>6. node[m - 1] = z[m - 1]
    BY <2>2, <2>5
  <2> QED BY <1>3, <1>6, <2>3, <2>4, <2>6
<1>10. {k \in DOMAIN node : node[k] # NULL} = 1 .. n
  <2>1. \A k \in D : node[k] # NULL <=> k <= n
    <3>1. \A k \in 1 .. n : q[k] # NULL
      BY HeapAssumption
    <3> QED BY <1>1, <1>2, <1>9, <3>1
  <2> QED BY <1>1, <1>7, <2>1
<1>11. Cardinality(1 .. n) = n
  BY FS_Interval
<1>12. Order = [i \in 1 .. n |-> node[i]]
  BY <1>8, <1>10, <1>11
<1>13. \A i \in 1 .. n : node[i] = q[i]
  BY <1>1, <1>2, <1>9
<1> QED BY <1>12, <1>13

LEMMA OrderMoves ==
  ASSUME Sound, [Next]_vars, NEW n \in Nat, NEW q \in [1 .. n -> Stacks],
         ChainBy(block, g_prev, n, q)
  PROVE  /\ Order = q
         /\ \E m \in Nat : \E r \in [1 .. m -> Stacks] : Order' = r /\ Relinks(n, q, m, r)
<1>1. Order = q
  BY OrderIs DEF Ordered
<1>2. ChainMoves(n, q)
  <2>1. CASE Next
    BY <2>1, NextChain DEF Sound
  <2>2. CASE UNCHANGED vars
    BY <2>2, ChainStays DEF vars, Sound
  <2> QED BY <2>1, <2>2
<1>3. PICK m \in Nat : \E r \in [1 .. m -> Stacks] :
                         ChainBy(block', g_prev', m, r) /\ Relinks(n, q, m, r)
  BY <1>2 DEF ChainMoves
<1>4. PICK r \in [1 .. m -> Stacks] : ChainBy(block', g_prev', m, r) /\ Relinks(n, q, m, r)
  BY <1>3
<1>5. Ordered'
  BY OrderIs, PTL
<1>6. Order' = r
  BY <1>4, <1>5 DEF Ordered
<1> QED BY <1>1, <1>4, <1>6

LEMMA NextImplements ==
  ASSUME Sound, [Next]_vars
  PROVE  P!Next \/ UNCHANGED <<Used, Order>>
<1>0. PICK n \in Nat : \E q \in [1 .. n -> Stacks] : ChainBy(block, g_prev, n, q)
  BY DEF Sound, Listed
<1>1. PICK q \in [1 .. n -> Stacks] : ChainBy(block, g_prev, n, q)
  BY <1>0
<1>2. /\ Order = q
      /\ \E m \in Nat : \E r \in [1 .. m -> Stacks] : Order' = r /\ Relinks(n, q, m, r)
  BY <1>1, OrderMoves
<1>3. PICK m \in Nat : \E r \in [1 .. m -> Stacks] : Order' = r /\ Relinks(n, q, m, r)
  BY <1>2
<1>4. PICK r \in [1 .. m -> Stacks] : Order' = r /\ Relinks(n, q, m, r)
  BY <1>3
<1>5. \A k \in 1 .. n : Dropped(k, n, q) = P!Without(k)
  BY <1>2 DEF Dropped, P!Without
<1>6. \A s \in Stacks : Pushed(s, n, q) = P!\o(<<s>>, Order)
  BY <1>2 DEF Pushed
<1>7. CASE Used' = Used /\ m = n /\ r = q
  BY <1>2, <1>4, <1>7
<1>8. ASSUME NEW s \in Stacks \ Used, Used' = Used \cup {s},
             r = q \/ r = Pushed(s, n, q)
      PROVE  P!Next
  <2>1. P!Save(s)
    BY <1>2, <1>4, <1>6, <1>8 DEF P!Save
  <2> QED BY <2>1 DEF P!Next
<1>9. ASSUME NEW k \in 1 .. n, r = Dropped(k, n, q)
      PROVE  q[k] \in Stacks /\ P!TakesOut(q[k])
  <2>1. k \in DOMAIN Order /\ Order[k] = q[k] /\ Order' = P!Without(k)
    BY <1>2, <1>4, <1>5, <1>9
  <2> QED BY <2>1 DEF P!TakesOut
<1>10. ASSUME NEW k \in 1 .. n, Used' = Used, r = Dropped(k, n, q)
       PROVE  P!Next
  <2>1. q[k] \in Stacks /\ P!Unlink(q[k])
    BY <1>9, <1>10 DEF P!Unlink
  <2> QED BY <2>1 DEF P!Next
<1>11. ASSUME NEW s \in Used, Used' = Used \ {s},
              \/ r = q /\ \A i \in 1 .. n : q[i] # s
              \/ \E k \in 1 .. n : q[k] = s /\ r = Dropped(k, n, q)
       PROVE  P!Next
  <2>1. CASE r = q /\ \A i \in 1 .. n : q[i] # s
    <3>1. Order' = Order /\ \A i \in DOMAIN Order : Order[i] # s
      BY <1>2, <1>4, <2>1
    <3> QED BY <1>11, <3>1 DEF P!Next, P!Free, Used
  <2>2. CASE \E k \in 1 .. n : q[k] = s /\ r = Dropped(k, n, q)
    <3>1. s \in Stacks /\ P!TakesOut(s)
      BY <1>9, <2>2
    <3> QED BY <1>11, <3>1 DEF P!Next, P!Free
  <2> QED BY <1>11, <2>1, <2>2
<1> QED BY <1>4, <1>7, <1>8, <1>10, <1>11 DEF Relinks

(* The pointers are a sequence from which stacks are taken out anywhere,   *)
(* always before they are freed: each step of a transfer, of tealet_delete *)
(* and of tealet_duplicate is one of the abstract list, or leaves it alone.*)
THEOREM ListImplementsSequence == Spec => ImplementsPrevList
<1>1. Init => P!Init
  <2> SUFFICES ASSUME Init PROVE P!Init
    OBVIOUS
  <2>1. Used = {} /\ g_prev = NULL /\ \A s \in Stacks : block[s].prev = NULL
    BY DEF Init, Used, Free
  <2> DEFINE q == [i \in 1 .. 0 |-> Main]
  <2>2. q \in [1 .. 0 -> Stacks] /\ ChainBy(block, g_prev, 0, q)
    BY <2>1 DEF ChainBy
  <2>3. Order = q
    BY <2>2, OrderIs DEF Ordered
  <2> QED BY <2>1, <2>3 DEF P!Init
<1>2. Sound /\ [Next]_vars => [P!Next]_(P!vars)
  BY NextImplements DEF P!vars
<1> QED BY <1>1, <1>2, AlwaysSound, PTL DEF Spec, ImplementsPrevList, P!Spec

---------------------------------------------------------------------------
(* Nothing leaks.                                                          *)

(* When all tealets but main are gone, no stack and no chunk is left: the  *)
(* domain counts the main tealet alone, and its allocator that and what    *)
(* the application has from tealet_malloc().                               *)
NothingLeft ==
  InUser /\ live = {Main} =>
    /\ Used = {}
    /\ stats.blocks = 1 /\ stats.bytes = TealetSize
    /\ alloc = [n_allocs |-> 1 + lent, s_allocs |-> TealetSize + lent]

(* A saved stack is on the heap exactly as long as a tealet has it, and    *)
(* counts those that do, through every step of a transfer.                 *)
THEOREM OwnersAreCounted == Spec => []Owned
<1>1. Sound => Owned
  BY DEF Sound
<1> QED BY <1>1, AlwaysSound, PTL

(* tealet_delete() of every tealet gives back all that a domain has saved, *)
(* whatever was shared, forced, or given up half way.                      *)
THEOREM NothingLeaks == Spec => []NothingLeft
<1>1. ASSUME Sound, Balanced PROVE NothingLeft
  <2> SUFFICES ASSUME InUser, live = {Main}
               PROVE  /\ Used = {}
                      /\ stats.blocks = 1 /\ stats.bytes = TealetSize
                      /\ alloc = [n_allocs |-> 1 + lent, s_allocs |-> TealetSize + lent]
    BY DEF NothingLeft
  <2>1. \A t \in Tealets : stack[t] = NULL
    BY <1>1 DEF Sound, Roles
  <2>2. Used = {}
    <3> SUFFICES ASSUME NEW s \in Used PROVE FALSE
      OBVIOUS
    <3>1. s \in Stacks /\ block[s].refcount > 0
      BY DEF Used
    <3>2. {t \in Tealets : stack[t] = s} = {}
      BY <2>1, <3>1, HeapAssumption
    <3>3. block[s].refcount = 0
      BY <1>1, <3>1, <3>2, FS_EmptySet DEF Sound, Owned, Count
    <3> QED BY <3>1, <3>3
  <2>3. Cardinality(live) = 1
    BY FS_Singleton
  <2>4. Sum(Used, Chunks) = 0 /\ Sum(Used, Bytes) = 0
    <3>1. \A size : UNION {{s} \X (1 .. size[s]) : s \in Used} = {}
      BY <2>2
    <3> QED BY <3>1, FS_EmptySet DEF Sum
  <2>5. /\ stats.tealets = Cardinality(live)
        /\ stats.chunk_count = Sum(Used, Chunks) /\ stats.stack_bytes = Sum(Used, Bytes)
        /\ stats.blocks = stats.tealets + stats.chunk_count
        /\ stats.bytes = TealetSize * stats.tealets + stats.stack_bytes
    BY <1>1 DEF Balanced, CountersExact, Chunks, Bytes
  <2>6. TealetSize * 1 + 0 = TealetSize
    BY HeapAssumption
  <2>7. stats.blocks = 1 /\ stats.bytes = TealetSize
    BY <2>3, <2>4, <2>5, <2>6
  <2> QED BY <1>1, <2>2, <2>7 DEF Balanced, AllocatorsAgree
<1> QED BY <1>1, AlwaysSound, AlwaysBalanced, PTL

=============================================================================
