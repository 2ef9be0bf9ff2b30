------------------------ MODULE StackRecovery_proofs ------------------------
(***************************************************************************)
(* No saved stack is ever lost silently: theorems about what the list of   *)
(* partly saved stacks guarantees, for every stack depth, every set of     *)
(* tealets and every allocator.                                            *)
(*                                                                         *)
(* The inductive invariant is Sound.  Its predicates take the stacks, the  *)
(* list, the C stack and the running tealet's boundary as arguments,       *)
(* because a transfer changes them one after the other: it grows the       *)
(* listed stacks, overwrites the C stack, releases the target's stack and  *)
(* adds the outgoing one.                                                  *)
(***************************************************************************)
EXTENDS StackSlicing_proofs

USE DepthAssumption, RangesAssumption, TealetsAssumption, StacksAssumption, OptionsAssumption

(* Intact(r), on the C stack m. *)
IntactIn(r, m) ==
  \A a \in Addr :
    /\ a \in r.near .. End(r) - 1 => r.data[a] = r.frames[a]
    /\ a \in End(r) .. r.far - 1 => m[a] = r.frames[a]

Usable(r) == r.refcount > 0 /\ ~r.defunct

(* The list L, where O[s] are the stacks behind s, holds usable stacks     *)
(* with something left to save, all of it beyond w and beyond the newer    *)
(* stacks of the list.                                                     *)
Listed(S, L, O, w) ==
  \A s \in L :
    /\ Usable(S[s]) /\ End(S[s]) < S[s].far /\ w <= End(S[s])
    /\ s \notin O[s] /\ O[s] \subseteq L
    /\ \A r \in O[s] : S[s].far <= End(S[r])
    /\ \A r \in L : r = s \/ r \in O[s] \/ s \in O[r]

(* The extents of a usable stack are nested, and if it is in the list L or *)
(* saved entirely it can be restored.                                      *)
Restorable(S, L, m) ==
  \A s \in Stacks :
    Usable(S[s]) =>
      /\ S[s].near + S[s].size <= End(S[s])
      /\ End(S[s]) <= S[s].far
      /\ s \in L \/ Full(S[s]) => IntactIn(S[s], m)

Sound ==
  /\ Listed(stacks, g_prev, older, stack_far[g_current])
  /\ Restorable(stacks, g_prev, mem)

---------------------------------------------------------------------------
(* Growing the list: tealet_stack_grow_list().                             *)

LEMMA RecordInts ==
  ASSUME NEW r \in StackRecord
  PROVE  /\ r.refcount \in Int /\ r.near \in Nat /\ r.size \in Nat /\ r.saved \in Nat
         /\ r.far \in Nat /\ End(r) \in Nat
<1>1. /\ r.refcount \in Int /\ r.near \in Nat /\ r.size \in Nat /\ r.saved \in Nat
      /\ r.far \in Nat
  BY DEF StackRecord, Edge
<1> QED BY <1>1 DEF End

LEMMA GrowtoEnd ==
  ASSUME NEW r \in StackRecord, NEW stop \in Edge, mem \in Image, End(r) <= r.far
  PROVE  /\ End(Growto(r, stop)) = Further(End(r), Nearer(r.far, stop))
         /\ End(r) <= End(Growto(r, stop)) /\ End(Growto(r, stop)) <= r.far
<1> DEFINE g == Growto(r, stop)
           n == Nearer(r.far, stop)
<1>1. r.near \in Int /\ r.saved \in Int /\ r.far \in Int /\ n \in Int /\ n <= r.far
  BY DEF StackRecord, Nearer, Edge
<1>2. g.near = r.near /\ g.saved = Further(r.saved, n - r.near)
  BY GrowtoFields
<1>3. r.near + r.saved <= r.far
  BY DEF End
<1> HIDE DEF g, n
<1>4. g.near + g.saved = Further(r.near + r.saved, n)
  BY <1>1, <1>2 DEF Further
<1>5. r.near + r.saved <= g.near + g.saved /\ g.near + g.saved <= r.far
  BY <1>1, <1>3, <1>4 DEF Further
<1> QED BY <1>4, <1>5 DEF End, g, n

(* What growing copies is still on the C stack, so the stack stays intact. *)
LEMMA GrowtoIntact ==
  ASSUME NEW r \in StackRecord, NEW stop \in Edge, mem \in Image, End(r) <= r.far,
         IntactIn(r, mem)
  PROVE  IntactIn(Growto(r, stop), mem)
<1> DEFINE g == Growto(r, stop)
<1>1. /\ g.near = r.near /\ g.far = r.far /\ g.frames = r.frames
      /\ \A a \in Addr :
           g.data[a] = IF a \in End(r) .. End(g) - 1 THEN mem[a] ELSE r.data[a]
  <2>1. /\ g.near = r.near /\ g.far = r.far /\ g.frames = r.frames
        /\ g.saved = Further(r.saved, Nearer(r.far, stop) - r.near)
    BY GrowtoFields
  <2>2. g.data = [a \in Addr |-> IF a \in End(r) .. r.near + g.saved - 1
                                 THEN mem[a] ELSE r.data[a]]
    BY GrowtoFields
  <2>3. End(g) = r.near + g.saved
    BY <2>1 DEF End
  <2>8. r.near \in Int /\ g.saved \in Int
    BY GrowtoType, RecordInts
  <2> HIDE DEF g
  <2>4. \A a \in Addr :
          g.data[a] = IF a \in End(r) .. r.near + g.saved - 1 THEN mem[a] ELSE r.data[a]
    BY <2>2
  <2>5. End(r) .. r.near + g.saved - 1 = End(r) .. End(g) - 1
    BY <2>3, <2>8
  <2>6. ASSUME NEW a \in Addr
        PROVE  g.data[a] = IF a \in End(r) .. End(g) - 1 THEN mem[a] ELSE r.data[a]
    BY <2>4, <2>5
  <2> QED BY <2>1, <2>6
<1>2. End(r) <= End(g) /\ End(g) <= r.far
  BY GrowtoEnd
<1>3. End(r) \in Int /\ End(g) \in Int /\ r.near \in Int /\ r.far \in Int
  BY GrowtoType, RecordInts
<1> HIDE DEF g
<1>4. ASSUME NEW a \in Addr, a \in g.near .. End(g) - 1
      PROVE  g.data[a] = g.frames[a]
  <2>1. CASE a \in End(r) .. End(g) - 1
    <3>1. g.data[a] = mem[a]
      BY <1>1, <2>1
    <3>2. a \in End(r) .. r.far - 1
      BY <1>2, <1>3, <2>1
    <3> QED BY <1>1, <3>1, <3>2 DEF IntactIn
  <2>2. CASE a \notin End(r) .. End(g) - 1
    <3>1. g.data[a] = r.data[a]
      BY <1>1, <2>2
    <3>2. a \in r.near .. End(r) - 1
      BY <1>1, <1>3, <1>4, <2>2
    <3> QED BY <1>1, <3>1, <3>2 DEF IntactIn
  <2> QED BY <2>1, <2>2
<1>5. ASSUME NEW a \in Addr, a \in End(g) .. g.far - 1
      PROVE  mem[a] = g.frames[a]
  <2>1. a \in End(r) .. r.far - 1
    BY <1>1, <1>2, <1>3, <1>5
  <2> QED BY <1>1, <2>1 DEF IntactIn
<1> QED BY <1>4, <1>5 DEF IntactIn, g

(* How the loop leaves each stack. *)
LEMMA GrownCases ==
  ASSUME TypeOK, NEW ts, NEW stop \in Edge, NEW fails, NEW fail_ok, NEW s \in Stacks
  PROVE  LET G == Grown(ts, stop, fails, fail_ok)
             reached == Reached(ts, fails, fail_ok)
         IN  \/ s \notin reached /\ G[s] = stacks[s]
             \/ s \in reached /\ s \in fails /\ G[s] = MakeDefunct(stacks[s])
             \/ s \in reached /\ s \notin fails /\ G[s] = Growto(stacks[s], stop)
  BY DEF Grown

(* A stack that stays in the list was not lost, has grown at most, and is  *)
(* still incomplete.                                                       *)
LEMMA KeptGrown ==
  ASSUME TypeOK, NEW ts, NEW stop \in Edge, NEW fails, NEW fail_ok, NEW w \in Edge,
         Listed(stacks, g_prev, older, w),
         NEW s \in g_prev \ Unlinked(ts, stop, fails, fail_ok)
  PROVE  LET g == Grown(ts, stop, fails, fail_ok)[s]
         IN  /\ Usable(g) /\ g.far = stacks[s].far
             /\ End(stacks[s]) <= End(g) /\ End(g) < g.far
             /\ s \in Reached(ts, fails, fail_ok) => stop <= End(g)
<1> DEFINE r == stacks[s]
           G == Grown(ts, stop, fails, fail_ok)
<1>0. s \in Stacks /\ s \in g_prev /\ r \in StackRecord /\ mem \in Image
  BY DEF TypeOK
<1>1. Usable(r) /\ End(r) < r.far
  BY <1>0 DEF Listed
<1>2. End(r) \in Int /\ r.far \in Edge /\ r.far \in Int
  BY <1>0, RecordInts DEF StackRecord
<1>3. CASE s \notin Reached(ts, fails, fail_ok)
  <2>1. G[s] = r
    BY <1>0, <1>3, GrownCases
  <2> QED BY <1>1, <1>2, <1>3, <2>1
<1>4. CASE s \in Reached(ts, fails, fail_ok)
  <2>1. s \notin fails /\ ~(r.far <= stop)
    BY <1>4 DEF Unlinked
  <2>2. G[s] = Growto(r, stop)
    BY <1>0, <1>4, <2>1, GrownCases
  <2>3. /\ Growto(r, stop).refcount = r.refcount /\ Growto(r, stop).far = r.far
        /\ Growto(r, stop).defunct = r.defunct
    BY <1>0, GrowtoFields
  <2>4. End(Growto(r, stop)) = Further(End(r), Nearer(r.far, stop))
    BY <1>0, <1>1, <1>2, GrowtoEnd
  <2> HIDE DEF r, G
  <2>5. /\ End(r) <= Further(End(r), Nearer(r.far, stop))
        /\ Further(End(r), Nearer(r.far, stop)) < r.far
        /\ stop <= Further(End(r), Nearer(r.far, stop))
    BY <1>1, <1>2, <2>1 DEF Further, Nearer, Edge
  <2> QED BY <1>1, <2>2, <2>3, <2>4, <2>5 DEF Usable, r, G
<1> QED BY <1>3, <1>4

LEMMA GrowingListed ==
  ASSUME TypeOK, NEW ts, NEW stop \in Edge, NEW fails, NEW fail_ok, NEW w \in Edge,
         Listed(stacks, g_prev, older, w),
         NEW L, L = g_prev \ Unlinked(ts, stop, fails, fail_ok),
         NEW O, \A s \in L : O[s] = older[s] \cap L
  PROVE  Listed(Grown(ts, stop, fails, fail_ok), L, O, w)
<1> DEFINE G == Grown(ts, stop, fails, fail_ok)
<1>1. \A s \in L : /\ Usable(G[s]) /\ G[s].far = stacks[s].far
                    /\ End(stacks[s]) <= End(G[s]) /\ End(G[s]) < G[s].far
  BY KeptGrown
<1>3. G \in [Stacks -> StackRecord]
  BY GrownType DEF TypeOK
<1>2. \A s \in L : /\ s \in g_prev /\ s \in Stacks
                    /\ End(stacks[s]) \in Int /\ End(G[s]) \in Int /\ stacks[s].far \in Int
  <2>1. \A s \in L : /\ s \in g_prev /\ s \in Stacks
                      /\ stacks[s] \in StackRecord /\ G[s] \in StackRecord
    BY <1>3 DEF TypeOK
  <2> HIDE DEF G
  <2> QED BY <2>1, RecordInts
<1> HIDE DEF G
<1>4. ASSUME NEW s \in L
      PROVE  /\ w <= End(G[s])
             /\ s \notin O[s] /\ O[s] \subseteq L
             /\ \A r \in O[s] : G[s].far <= End(G[r])
             /\ \A r \in L : r = s \/ r \in O[s] \/ s \in O[r]
  <2>1. w <= End(stacks[s])
    BY <1>2 DEF Listed
  <2>2. w <= End(G[s])
    BY <1>1, <1>2, <2>1 DEF Edge
  <2>3. s \notin O[s] /\ O[s] \subseteq L
    BY <1>2 DEF Listed
  <2>4. ASSUME NEW r \in O[s] PROVE G[s].far <= End(G[r])
    <3>1. r \in older[s] /\ r \in L
      OBVIOUS
    <3>2. stacks[s].far <= End(stacks[r])
      BY <1>2, <3>1 DEF Listed
    <3> QED BY <1>1, <1>2, <3>1, <3>2
  <2>5. \A r \in L : r = s \/ r \in O[s] \/ s \in O[r]
    BY <1>2 DEF Listed
  <2> QED BY <2>2, <2>3, <2>4, <2>5
<1> QED BY <1>1, <1>4 DEF Listed, G

LEMMA GrowingRestorable ==
  ASSUME TypeOK, NEW ts, NEW stop \in Edge, NEW fails, NEW fail_ok,
         Restorable(stacks, g_prev, mem),
         NEW L, L = g_prev \ Unlinked(ts, stop, fails, fail_ok)
  PROVE  Restorable(Grown(ts, stop, fails, fail_ok), L, mem)
<1> DEFINE G == Grown(ts, stop, fails, fail_ok)
<1> SUFFICES ASSUME NEW s \in Stacks, Usable(G[s])
             PROVE  /\ G[s].near + G[s].size <= End(G[s])
                    /\ End(G[s]) <= G[s].far
                    /\ s \in L \/ Full(G[s]) => IntactIn(G[s], mem)
  BY DEF Restorable
<1> DEFINE r == stacks[s]
           g == Growto(r, stop)
<1>0. r \in StackRecord /\ mem \in Image
  BY DEF TypeOK
<1>1. CASE s \notin Reached(ts, fails, fail_ok)
  <2>1. G[s] = r
    BY <1>1, GrownCases
  <2>2. s \in L => s \in g_prev
    OBVIOUS
  <2> HIDE DEF G
  <2> QED BY <2>1, <2>2 DEF Restorable
<1>2. CASE s \in Reached(ts, fails, fail_ok)
  <2>1. s \in g_prev
    BY <1>2 DEF Reached, Visited
  <2>2. ~MakeDefunct(r).refcount > 0 \/ MakeDefunct(r).defunct
    BY <1>0, MakeDefunctFields
  <2>3. G[s] = g
    BY <1>2, <2>2, GrownCases DEF Usable
  <2>4. /\ g.refcount = r.refcount /\ g.defunct = r.defunct
        /\ g.near = r.near /\ g.size = r.size /\ g.far = r.far
    BY <1>0, GrowtoFields
  <2> HIDE DEF G, g
  <2>5. Usable(r)
    BY <2>3, <2>4 DEF Usable
  <2>6. r.near + r.size <= End(r) /\ End(r) <= r.far /\ IntactIn(r, mem)
    BY <2>1, <2>5 DEF Restorable
  <2>7. End(r) <= End(g) /\ End(g) <= r.far /\ IntactIn(g, mem)
    BY <1>0, <2>6, GrowtoEnd, GrowtoIntact DEF g
  <2>8. End(g) \in Int /\ End(r) \in Int /\ r.near \in Int /\ r.size \in Int
    BY <1>0, GrowtoType, RecordInts DEF g
  <2>9. g.near + g.size <= End(g)
    <3> HIDE DEF r
    <3> QED BY <2>4, <2>6, <2>7, <2>8
  <2> QED BY <2>3, <2>4, <2>7, <2>9
<1> QED BY <1>1, <1>2

(* When the loop ran to its end every stack left in the list is saved up   *)
(* to the boundary stop of the target: the comment "previous stacks are    *)
(* already fully saved wrt. this" is what the list's order guarantees.     *)
LEMMA GrownToStop ==
  ASSUME TypeOK, NEW ts, NEW stop \in Edge, NEW fails, NEW fail_ok, NEW w \in Edge,
         Listed(stacks, g_prev, older, w), Stops(fails, fail_ok) = {},
         ts \in Stacks => stacks[ts].far = stop,
         NEW s \in g_prev \ Unlinked(ts, stop, fails, fail_ok)
  PROVE  stop <= End(Grown(ts, stop, fails, fail_ok)[s])
<1>0. s \in Stacks /\ g_prev \subseteq Stacks
  BY DEF TypeOK
<1>1. CASE s \in Visited(ts)
  <2>1. s \in Reached(ts, fails, fail_ok)
    BY <1>1 DEF Reached
  <2> QED BY <2>1, KeptGrown
<1>2. CASE s \notin Visited(ts)
  <2>1. ts \in g_prev /\ ts \notin older[s]
    BY <1>2 DEF Visited
  <2>2. s # ts
    BY DEF Unlinked
  <2>3. s \in older[ts]
    BY <2>1, <2>2 DEF Listed
  <2>4. stop <= End(stacks[s])
    BY <1>0, <2>1, <2>3 DEF Listed
  <2>5. Grown(ts, stop, fails, fail_ok)[s] = stacks[s]
    BY <1>0, <1>2, GrownCases DEF Reached
  <2> QED BY <2>4, <2>5
<1> QED BY <1>1, <1>2

---------------------------------------------------------------------------
(* The other steps of a transfer.                                          *)

(* Overwriting the C stack where nothing listed is unsaved. *)
LEMMA Overwriting ==
  ASSUME NEW S \in [Stacks -> StackRecord], NEW L, NEW O, NEW w, NEW m, NEW w2, NEW m2,
         Listed(S, L, O, w), Restorable(S, L, m), L \subseteq Stacks,
         \A s \in L : w2 <= End(S[s]),
         \A s \in L : \A a \in Addr : End(S[s]) <= a => m2[a] = m[a]
  PROVE  Listed(S, L, O, w2) /\ Restorable(S, L, m2)
<1>1. Listed(S, L, O, w2)
  BY DEF Listed
<1>2. ASSUME NEW s \in Stacks, Usable(S[s]), s \in L \/ Full(S[s])
      PROVE  IntactIn(S[s], m2)
  <2>1. IntactIn(S[s], m)
    BY <1>2 DEF Restorable
  <2>2. End(S[s]) \in Int /\ S[s].far \in Int
    BY RecordInts
  <2>3. ASSUME NEW a \in Addr, a \in End(S[s]) .. S[s].far - 1
        PROVE  s \in L /\ End(S[s]) <= a
    BY <1>2, <2>2, <2>3 DEF Full
  <2> QED BY <2>1, <2>3 DEF IntactIn
<1> QED BY <1>1, <1>2 DEF Restorable

(* Releasing a stack that is not in the list. *)
LEMMA Releasing ==
  ASSUME NEW S \in [Stacks -> StackRecord], NEW L, NEW O, NEW w, NEW m, NEW ts, ts \notin L,
         Listed(S, L, O, w), Restorable(S, L, m), L \subseteq Stacks
  PROVE  Listed(Released(S, ts), L, O, w) /\ Restorable(Released(S, ts), L, m)
<1> DEFINE R == Released(S, ts)
<1>1. \A x \in L : R[x] = S[x]
  BY DEF Released
<1>2. Listed(R, L, O, w)
  <2> HIDE DEF R
  <2> QED BY <1>1 DEF Listed
<1>3. ASSUME NEW s \in Stacks, Usable(R[s])
      PROVE  /\ R[s].near + R[s].size <= End(R[s])
             /\ End(R[s]) <= R[s].far
             /\ s \in L \/ Full(R[s]) => IntactIn(R[s], m)
  <2>1. CASE s # ts
    <3>1. R[s] = S[s]
      BY <2>1 DEF Released
    <3> HIDE DEF R
    <3> QED BY <1>3, <3>1 DEF Restorable
  <2>2. CASE s = ts
    <3> DEFINE r == S[s]
    <3>1. R[s] = Decref(r)
      BY <2>2 DEF Released
    <3> HIDE DEF R
    <3>2. Decref(r).refcount = r.refcount - 1 /\ r.refcount \in Int
      BY DecrefFields, RecordInts
    <3>3. r.refcount > 1
      BY <1>3, <3>1, <3>2 DEF Usable
    <3>4. /\ Decref(r).near = r.near /\ Decref(r).size = r.size
          /\ Decref(r).saved = r.saved /\ Decref(r).far = r.far
          /\ Decref(r).defunct = r.defunct
          /\ Decref(r).data = r.data /\ Decref(r).frames = r.frames
      BY <3>2, <3>3, DecrefFields
    <3> HIDE DEF r
    <3>5. Usable(r)
      BY <1>3, <3>1, <3>2, <3>3, <3>4 DEF Usable
    <3>6. r.near + r.size <= End(r) /\ End(r) <= r.far /\ (Full(r) => IntactIn(r, m))
      BY <3>5 DEF Restorable, r
    <3> QED BY <2>2, <3>1, <3>4, <3>6 DEF End, Full, IntactIn
  <2> QED BY <2>1, <2>2
<1> QED BY <1>2, <1>3 DEF Restorable

(* Adding the stack s that a suspended tealet was saved on: at the head of *)
(* the list if something of it is left to save.                            *)
LEMMA Adding ==
  ASSUME NEW S \in [Stacks -> StackRecord], NEW L, NEW O, NEW w, NEW m,
         Listed(S, L, O, w), Restorable(S, L, m), L \subseteq Stacks,
         NEW s \in Stacks, s \notin L,
         NEW r \in StackRecord, Usable(r), IntactIn(r, m),
         r.near + r.size <= End(r), End(r) <= r.far,
         NEW M, NEW P,
         \/ Full(r) /\ M = L /\ \A x \in L : P[x] = O[x]
         \/ /\ ~Full(r) /\ w <= End(r) /\ M = L \cup {s}
            /\ \A x \in L : P[x] = O[x]
            /\ P[s] = L
            /\ \A x \in L : r.far <= End(S[x])
  PROVE  Listed([S EXCEPT ![s] = r], M, P, w) /\ Restorable([S EXCEPT ![s] = r], M, m)
<1> DEFINE R == [S EXCEPT ![s] = r]
<1>1. R[s] = r /\ \A x \in Stacks \ {s} : R[x] = S[x]
  OBVIOUS
<1>2. \A x \in L : x \in Stacks \ {s}
  OBVIOUS
<1>3. End(r) \in Int /\ r.far \in Int
  BY RecordInts
<1> HIDE DEF R
<1>4. Restorable(R, M, m)
  BY <1>1, <1>2 DEF Restorable
<1>5. ASSUME NEW x \in L
      PROVE  /\ Usable(R[x]) /\ End(R[x]) < R[x].far /\ w <= End(R[x])
             /\ x \notin P[x] /\ P[x] \subseteq L
             /\ \A y \in P[x] : R[x].far <= End(R[y])
             /\ \A y \in L : y = x \/ y \in P[x] \/ x \in P[y]
  <2>1. P[x] = O[x] /\ O[x] \subseteq L
    BY DEF Listed
  <2> QED BY <1>1, <1>2, <2>1 DEF Listed
<1>6. M = L => Listed(R, M, P, w)
  <2>1. Listed(R, L, P, w)
    BY <1>5 DEF Listed
  <2> QED BY <2>1
<1>7. ASSUME ~Full(r), M = L \cup {s} PROVE Listed(R, M, P, w)
  <2>1. w <= End(r) /\ P[s] = L /\ \A x \in L : r.far <= End(S[x])
    BY <1>7
  <2>2. /\ Usable(R[s]) /\ End(R[s]) < R[s].far /\ w <= End(R[s])
        /\ s \notin P[s] /\ P[s] \subseteq M
        /\ \A y \in P[s] : R[s].far <= End(R[y])
        /\ \A y \in M : y = s \/ y \in P[s] \/ s \in P[y]
    BY <1>1, <1>2, <1>3, <1>7, <2>1 DEF Full
  <2>3. ASSUME NEW x \in L
        PROVE  /\ Usable(R[x]) /\ End(R[x]) < R[x].far /\ w <= End(R[x])
               /\ x \notin P[x] /\ P[x] \subseteq M
               /\ \A y \in P[x] : R[x].far <= End(R[y])
               /\ \A y \in M : y = x \/ y \in P[x] \/ x \in P[y]
    BY <1>5, <1>7, <2>1
  <2>4. \A x \in M : x = s \/ x \in L
    BY <1>7
  <2> QED BY <2>2, <2>3, <2>4 DEF Listed
<1> QED BY <1>4, <1>6, <1>7 DEF R

(* The chunks of the target's stack lie nearer than its far boundary.      *)
LEMMA HeldBelowFar ==
  ASSUME TypeOK, Restorable(stacks, g_prev, mem), NEW ts \in Stacks, Usable(stacks[ts]),
         NEW stop \in Edge, NEW fails, NEW fail_ok,
         NEW a \in Held(Grown(ts, stop, fails, fail_ok)[ts]), a \in Int
  PROVE  a < stacks[ts].far
<1> DEFINE r == stacks[ts]
           G == Grown(ts, stop, fails, fail_ok)
<1>1. r \in StackRecord /\ mem \in Image
  BY DEF TypeOK
<1>2. r.near + r.size <= End(r) /\ End(r) <= r.far
  BY DEF Restorable
<1>3. r.near \in Int /\ r.size \in Int /\ End(r) \in Int /\ r.far \in Int /\ r.saved \in Int
  BY <1>1, RecordInts
<1>4. CASE G[ts] = r
  <2>1. ~r.defunct
    BY DEF Usable
  <2>2. Held(r) = r.near .. r.near + r.saved - 1
    BY <2>1 DEF Held
  <2> HIDE DEF r, G
  <2>3. a \in r.near .. r.near + r.saved - 1
    BY <1>4, <2>2 DEF G
  <2> QED BY <1>2, <1>3, <2>3 DEF End, r
<1>5. CASE G[ts] = MakeDefunct(r)
  <2> DEFINE d == MakeDefunct(r)
  <2>1. d.defunct /\ d.near = r.near /\ d.size = r.size
    BY <1>1, MakeDefunctFields
  <2>2. Held(d) = r.near .. r.near + r.size - 1
    BY <2>1 DEF Held
  <2> HIDE DEF d, r, G
  <2>3. a \in r.near .. r.near + r.size - 1
    BY <1>5, <2>2 DEF d, G
  <2> QED BY <1>2, <1>3, <2>3 DEF r
<1>6. CASE G[ts] = Growto(r, stop)
  <2> DEFINE g == Growto(r, stop)
  <2>1. g.defunct = r.defunct /\ g.near = r.near
    BY <1>1, GrowtoFields
  <2>2. End(g) <= r.far
    BY <1>1, <1>2, GrowtoEnd
  <2>3. ~g.defunct
    BY <2>1 DEF Usable
  <2>4. Held(g) = g.near .. g.near + g.saved - 1
    BY <2>3 DEF Held
  <2>5. g.near \in Int /\ g.saved \in Int
    BY <1>1, GrowtoType, RecordInts
  <2> HIDE DEF g, r, G
  <2>6. a \in g.near .. g.near + g.saved - 1
    BY <1>6, <2>4 DEF g, G
  <2> QED BY <1>3, <2>2, <2>5, <2>6 DEF End, r
<1> QED BY <1>4, <1>5, <1>6, GrownCases

(* Resuming the target leaves the C stack beyond its boundary alone.       *)
LEMMA BeyondStop ==
  ASSUME TypeOK, Restorable(stacks, g_prev, mem), NEW t, NEW ts, NEW stop \in Edge,
         NEW fails, NEW fail_ok, NEW m,
         ts # NoStack => ts \in Stacks /\ Usable(stacks[ts]) /\ stacks[ts].far = stop,
         Resumes(t, ts, Grown(ts, stop, fails, fail_ok), m, stop),
         NEW a \in Addr, stop <= a
  PROVE  mem'[a] = m[a]
<1>0. a \in Int /\ stop \in Int /\ ~(a < stop)
  BY DEF Addr, Edge
<1>1. CASE ts = NoStack
  BY <1>0, <1>1 DEF Resumes, Running
<1>2. CASE ts # NoStack
  <2> DEFINE r == Grown(ts, stop, fails, fail_ok)[ts]
  <2>1. mem' = Running(Restored(r, m), stop)
    BY <1>2 DEF Resumes
  <2>2. a \notin Held(r)
    BY <1>0, <1>2, HeldBelowFar
  <2> HIDE DEF r
  <2>3. mem'[a] = Restored(r, m)[a]
    BY <1>0, <2>1 DEF Running
  <2> QED BY <2>2, <2>3 DEF Restored
<1> QED BY <1>1, <1>2

LEMMA TransferFailsSound ==
  ASSUME TypeOK, Sound, NEW ts, NEW stop \in Edge, NEW fail_ok, NEW saves,
         TransferFails(ts, stop, fail_ok, saves)
  PROVE  /\ Listed(stacks', g_prev', older', stack_far[g_current])
         /\ Restorable(stacks', g_prev', mem')
<1>1. PICK fails \in SUBSET MayFailToGrow(ts, stop) :
        /\ stacks' = Grown(ts, stop, fails, fail_ok)
        /\ ListBecomes(g_prev \ Unlinked(ts, stop, fails, fail_ok))
        /\ mem' = mem
  BY DEF TransferFails
<1>2. g_prev' = g_prev \ Unlinked(ts, stop, fails, fail_ok) /\ g_prev' \subseteq Stacks
  BY <1>1 DEF ListBecomes, TypeOK
<1>3. \A s \in g_prev' : older'[s] = older[s] \cap g_prev'
  BY <1>1, <1>2 DEF ListBecomes
<1>4. stack_far[g_current] \in Edge
  BY DEF TypeOK
<1> QED BY <1>1, <1>2, <1>3, <1>4, GrowingListed, GrowingRestorable DEF Sound

(* The target's stack, if any, is one that can be resumed at stop. *)
Resumable(ts, stop) ==
  ts # NoStack => ts \in Stacks /\ Usable(stacks[ts]) /\ stacks[ts].far = stop

LEMMA TransferDropsSound ==
  ASSUME TypeOK, Sound, NEW t, NEW ts, NEW stop \in Edge, NEW fail_ok, Resumable(ts, stop),
         TransferDrops(t, ts, stop, fail_ok)
  PROVE  Listed(stacks', g_prev', older', stop) /\ Restorable(stacks', g_prev', mem')
<1>1. PICK fails \in SUBSET MayFailToGrow(ts, stop) :
        LET G == Grown(ts, stop, fails, fail_ok)
        IN  /\ Stops(fails, fail_ok) = {}
            /\ stacks' = Released(G, ts)
            /\ ListBecomes(g_prev \ Unlinked(ts, stop, fails, fail_ok))
            /\ Resumes(t, ts, G, mem, stop)
  BY DEF TransferDrops
<1> DEFINE G == Grown(ts, stop, fails, fail_ok)
           w == stack_far[g_current]
<1>2. /\ g_prev' = g_prev \ Unlinked(ts, stop, fails, fail_ok)
      /\ g_prev' \subseteq Stacks /\ ts \notin g_prev'
  BY <1>1 DEF ListBecomes, Unlinked, TypeOK
<1>3. \A s \in g_prev' : older'[s] = older[s] \cap g_prev'
  BY <1>1, <1>2 DEF ListBecomes
<1>4. w \in Edge /\ G \in [Stacks -> StackRecord]
  BY GrownType DEF TypeOK
<1>5. Listed(G, g_prev', older', w) /\ Restorable(G, g_prev', mem)
  BY <1>2, <1>3, <1>4, GrowingListed, GrowingRestorable DEF Sound
<1>6. \A s \in g_prev' : stop <= End(G[s])
  BY <1>1, <1>2, <1>4, GrownToStop DEF Sound, Resumable
<1>7. \A a \in Addr : stop <= a => mem'[a] = mem[a]
  BY <1>1, BeyondStop DEF Sound, Resumable
<1>8. \A s \in g_prev' : \A a \in Addr : End(G[s]) <= a => mem'[a] = mem[a]
  <2>1. \A s \in g_prev' : End(G[s]) \in Int
    BY <1>2, <1>4, RecordInts
  <2>2. \A a \in Addr : a \in Int
    BY DEF Addr
  <2> HIDE DEF G
  <2> QED BY <1>6, <1>7, <2>1, <2>2 DEF Edge
<1> HIDE DEF G, w
<1>9. Listed(G, g_prev', older', stop) /\ Restorable(G, g_prev', mem')
  BY <1>2, <1>4, <1>5, <1>6, <1>8, Overwriting
<1> QED BY <1>1, <1>2, <1>4, <1>9, Releasing DEF G

(* The stack of the suspended tealet: saved up to stop, unsaved beyond.    *)
LEMMA SaveToSound ==
  ASSUME TypeOK, NEW s \in Stacks, NEW sp \in Pointers, NEW far \in Edge, NEW stop \in Edge,
         sp < far,
         NEW m2, \A a \in Addr : stop <= a => m2[a] = Suspended(s, sp)[a]
  PROVE  LET r == SaveTo(s, sp, far, stop)
         IN  /\ r \in StackRecord /\ Usable(r) /\ r.far = far
             /\ r.near + r.size <= End(r) /\ End(r) <= far
             /\ Full(r) <=> far <= stop
             /\ far <= stop \/ stop <= End(r)
             /\ IntactIn(r, m2)
<1> DEFINE r == SaveTo(s, sp, far, stop)
           size == Further(0, Nearer(far, stop) - sp)
           now == Suspended(s, sp)
<1>1. /\ r.refcount = 1 /\ r.near = sp /\ r.size = size /\ r.saved = size /\ r.far = far
      /\ ~r.defunct
  BY DEF SaveTo, StackNew
<1>2. /\ r.data = [a \in Addr |-> IF a \in sp .. sp + size - 1 THEN now[a] ELSE NoStack]
      /\ r.frames = [a \in Addr |-> IF a \in sp .. far - 1 THEN now[a] ELSE NoStack]
  BY DEF SaveTo, StackNew
<1>3. r \in StackRecord
  BY SaveToType
<1>4. sp \in Int /\ far \in Int /\ stop \in Int /\ size \in Int
  BY DEF Edge, Further, Nearer
<1>5. sp + size = Further(sp, Nearer(far, stop)) /\ 0 <= size
  BY <1>4 DEF Further, Nearer
<1>6. /\ sp + size <= far
      /\ sp + size = far <=> far <= stop
      /\ far <= stop \/ stop <= sp + size
  <2> HIDE DEF size
  <2> QED BY <1>4, <1>5 DEF Further, Nearer
<1> HIDE DEF r, size, now
<1>7. End(r) = sp + size
  BY <1>1 DEF End
<1>8. ASSUME NEW a \in Addr, a \in sp .. sp + size - 1
      PROVE  r.data[a] = r.frames[a]
  <2>1. a \in sp .. far - 1
    BY <1>4, <1>6, <1>8
  <2> QED BY <1>2, <1>8, <2>1
<1>9. ASSUME NEW a \in Addr, a \in sp + size .. far - 1
      PROVE  m2[a] = r.frames[a]
  <2>1. a \in sp .. far - 1 /\ stop <= a
    BY <1>4, <1>5, <1>6, <1>9
  <2>2. r.frames[a] = now[a]
    BY <1>2, <2>1
  <2> QED BY <2>1, <2>2 DEF now
<1>10. IntactIn(r, m2)
  <2>1. ASSUME NEW a \in Addr
        PROVE  /\ a \in r.near .. End(r) - 1 => r.data[a] = r.frames[a]
               /\ a \in End(r) .. r.far - 1 => m2[a] = r.frames[a]
    <3>1. r.near .. End(r) - 1 = sp .. sp + size - 1
      BY <1>1, <1>4, <1>7
    <3>2. End(r) .. r.far - 1 = sp + size .. far - 1
      BY <1>1, <1>7
    <3> QED BY <1>8, <1>9, <3>1, <3>2
  <2> QED BY <2>1 DEF IntactIn
<1>11. Usable(r) /\ r.far = far /\ r.near + r.size <= End(r) /\ End(r) <= far
  BY <1>1, <1>4, <1>6, <1>7 DEF Usable
<1>12. (Full(r) <=> far <= stop) /\ (far <= stop \/ stop <= End(r))
  BY <1>1, <1>6, <1>7 DEF Full
<1> QED BY <1>3, <1>10, <1>11, <1>12 DEF r

LEMMA TransferSavesSound ==
  ASSUME TypeOK, Sound, NEW t, NEW ts, NEW stop \in Edge, NEW fail_ok, Resumable(ts, stop),
         NEW s \in Stacks, NEW sp \in Pointers, NEW far \in Edge, sp < far,
         far = stack_far[g_current] \/ (far <= stop /\ stop = stack_far[g_current]),
         TransferSaves(t, ts, stop, fail_ok, s, sp, far)
  PROVE  Listed(stacks', g_prev', older', stop) /\ Restorable(stacks', g_prev', mem')
<1> DEFINE r == SaveTo(s, sp, far, stop)
           w == stack_far[g_current]
           m == Suspended(s, sp)
<1>1. PICK fails \in SUBSET MayFailToGrow(ts, stop) :
        LET G == Grown(ts, stop, fails, fail_ok)
            kept == g_prev \ Unlinked(ts, stop, fails, fail_ok)
        IN  /\ Stops(fails, fail_ok) = {}
            /\ stacks' = [Released(G, ts) EXCEPT ![s] = r]
            /\ g_prev' = IF far <= stop THEN kept ELSE kept \cup {s}
            /\ older' = [x \in Stacks |-> IF x \in kept THEN older[x] \cap kept
                                          ELSE IF x = s /\ far > stop THEN kept
                                          ELSE {}]
            /\ Resumes(t, ts, G, m, stop)
  BY DEF TransferSaves
<1> DEFINE G == Grown(ts, stop, fails, fail_ok)
           kept == g_prev \ Unlinked(ts, stop, fails, fail_ok)
<1>2. kept \subseteq Stacks /\ kept \subseteq g_prev /\ ts \notin kept /\ s \notin kept
  <2>1. s \notin g_prev
    BY DEF TransferSaves, Sound, Listed, Usable
  <2> QED BY <1>1, <2>1 DEF Unlinked, TypeOK
<1>3. \A x \in kept : older'[x] = older[x] \cap kept
  BY <1>1, <1>2
<1>4. w \in Edge /\ G \in [Stacks -> StackRecord]
  BY GrownType DEF TypeOK
<1>5. Listed(G, kept, older', w) /\ Restorable(G, kept, mem)
  BY <1>3, <1>4, GrowingListed, GrowingRestorable DEF Sound
<1>6. \A x \in kept : stop <= End(G[x])
  BY <1>1, <1>4, GrownToStop DEF Sound, Resumable
<1>7. \A a \in Addr : stop <= a => mem'[a] = m[a]
  BY <1>1, BeyondStop DEF Sound, Resumable
<1>8. \A x \in kept : \A a \in Addr : End(G[x]) <= a => mem'[a] = mem[a]
  <2>1. \A x \in kept : End(G[x]) \in Int /\ w <= End(G[x])
    BY <1>2, <1>4, <1>5, RecordInts DEF Listed
  <2>2. \A a \in Addr : a \in Int /\ (w <= a => m[a] = mem[a])
    BY <1>4 DEF Addr, Suspended, Edge
  <2> HIDE DEF G, w, m, kept
  <2> QED BY <1>4, <1>6, <1>7, <2>1, <2>2 DEF Edge
<1> HIDE DEF G, w
<1>9. Listed(G, kept, older', stop) /\ Restorable(G, kept, mem')
  BY <1>2, <1>4, <1>5, <1>6, <1>8, Overwriting
<1> DEFINE R == Released(G, ts)
<1>10. Listed(R, kept, older', stop) /\ Restorable(R, kept, mem')
  BY <1>2, <1>4, <1>9, Releasing
<1>11. R \in [Stacks -> StackRecord] /\ \A x \in kept : R[x] = G[x]
  BY <1>2, <1>4, ReleasedType DEF Released
<1>12. /\ r \in StackRecord /\ Usable(r) /\ r.far = far
       /\ r.near + r.size <= End(r) /\ End(r) <= far
       /\ Full(r) <=> far <= stop
       /\ far <= stop \/ stop <= End(r)
       /\ IntactIn(r, mem')
  BY <1>7, SaveToSound
<1>13. ~(far <= stop) => \A x \in kept : r.far <= End(R[x])
  <2>1. \A x \in kept : w <= End(G[x])
    BY <1>5 DEF Listed
  <2> QED BY <1>11, <1>12, <2>1 DEF w
<1>14. stacks' = [R EXCEPT ![s] = r]
  BY <1>1 DEF G
<1>15. far <= stop => g_prev' = kept
  BY <1>1
<1>16. ~(far <= stop) => g_prev' = kept \cup {s} /\ older'[s] = kept
  <2>1. ~(far <= stop) => far > stop
    BY DEF Edge
  <2> HIDE DEF kept
  <2> QED BY <1>1, <1>2, <2>1 DEF kept
<1> HIDE DEF R, r, kept
<1> QED BY <1>2, <1>10, <1>11, <1>12, <1>13, <1>14, <1>15, <1>16, Adding

---------------------------------------------------------------------------
(* The invariant, action by action.                                        *)

(* What every tealet that may be resumed has. *)
LEMMA CanResumeStack ==
  ASSUME TypeOK, Ownership, NEW t \in Tealets, CanResume(t)
  PROVE  stack[t] # NoStack /\ Resumable(stack[t], stack_far[t])
<1>1. /\ t # g_current /\ state[t] = "bound" /\ ~IsDefunct(t)
  BY DEF CanResume
<1>2. stack[t] # NoStack /\ stack[t] \in Stacks
  BY <1>1 DEF Ownership, Holders, TypeOK
<1>3. stacks[stack[t]].far = stack_far[t] /\ ~stacks[stack[t]].defunct
  BY <1>1, <1>2 DEF Ownership, Owned, IsDefunct
<1>4. stacks[stack[t]].refcount > 0
  <2>1. stacks[stack[t]].refcount = Count(stack, stack[t])
    BY <1>2 DEF Ownership, Owned
  <2>2. Count(stack, stack[t]) \in Nat /\ Count(stack, stack[t]) # 0
    BY CountNat, CountZero
  <2> QED BY <2>1, <2>2
<1> QED BY <1>2, <1>3, <1>4 DEF Resumable, Usable

LEMMA InitSound == Init => Sound
<1> SUFFICES ASSUME Init PROVE Sound
  OBVIOUS
<1>1. \A s \in Stacks : ~Usable(stacks[s])
  BY DEF Init, FreeStack, Usable
<1> QED BY <1>1 DEF Init, Sound, Listed, Restorable

(* Sound after a step that ends with the boundary w. *)
LEMMA SoundAfter ==
  ASSUME NEW w, stack_far'[g_current'] = w,
         Listed(stacks', g_prev', older', w), Restorable(stacks', g_prev', mem')
  PROVE  Sound'
  BY DEF Sound, Listed, Restorable, Usable, End, Full, IntactIn

LEMMA StartFailsSound ==
  ASSUME TypeOK, Sound, NEW stop \in Edge, StartFails(stop)
  PROVE  Sound'
<1>1. stack_far'[g_current'] = stack_far[g_current]
  BY DEF StartFails, tealetVars
<1>2. TransferFails(NoStack, stop, TRUE, TRUE)
  BY DEF StartFails
<1> QED BY <1>1, <1>2, TransferFailsSound, SoundAfter

LEMMA PointersBelowFar ==
  ASSUME NEW a \in Edge, NEW b \in Edge, NEW sp \in PointersBelow(Nearer(a, b))
  PROVE  sp \in Pointers /\ sp < a /\ sp < b
  BY DEF PointersBelow, Nearer, Edge

LEMMA RunSwitchSound ==
  ASSUME TypeOK, Ownership, Sound, NEW t \in Tealets, NEW far \in Boundaries,
         RunSwitch(t, far)
  PROVE  Sound'
<1>0. far \in Edge /\ stack_far[g_current] \in Edge
  BY BoundaryType DEF TypeOK
<1>1. CASE StartFails(far)
  BY <1>0, <1>1, StartFailsSound
<1>2. ASSUME NEW s \in Stacks,
             NEW sp \in PointersBelow(Nearer(far, stack_far[g_current])),
             TransferSaves(t, NoStack, far, TRUE, s, sp, stack_far[g_current]),
             g_current' = t,
             stack_far' = [stack_far EXCEPT ![t] = far]
      PROVE  Sound'
  <2>1. sp \in Pointers /\ sp < stack_far[g_current]
    BY <1>0, PointersBelowFar
  <2>2. stack_far'[g_current'] = far
    BY <1>2 DEF TypeOK
  <2>3. Resumable(NoStack, far)
    BY DEF Resumable
  <2>4. /\ Listed(stacks', g_prev', older', far)
        /\ Restorable(stacks', g_prev', mem')
    BY <1>0, <1>2, <2>1, <2>3, TransferSavesSound
  <2> QED BY <2>2, <2>4, SoundAfter
<1> QED BY <1>1, <1>2 DEF RunSwitch

LEMMA RunDefaultSound ==
  ASSUME TypeOK, Ownership, Sound, NEW t \in Tealets, NEW far \in Boundaries,
         ~Overreaching, RunDefault(t, far)
  PROVE  Sound'
<1> DEFINE w == stack_far[g_current]
<1>0. far \in Edge /\ w \in Edge /\ far <= w
  BY BoundaryType DEF TypeOK, RunDefault
<1>1. CASE StartFails(w)
  BY <1>0, <1>1, StartFailsSound
<1>2. ASSUME NEW s \in Stacks, NEW sp \in PointersBelow(Nearer(far, w)),
             TransferSaves(g_current, NoStack, w, TRUE, s, sp, far),
             stack_far' = [stack_far EXCEPT ![t] = far],
             UNCHANGED g_current
      PROVE  Sound'
  <2>1. sp \in Pointers /\ sp < far
    BY <1>0, PointersBelowFar
  <2>2. t # g_current
    BY DEF RunDefault, Ownership, Holders
  <2>3. stack_far'[g_current'] = w
    BY <1>2, <2>2 DEF TypeOK
  <2>4. Resumable(NoStack, w)
    BY DEF Resumable
  <2>5. /\ Listed(stacks', g_prev', older', w)
        /\ Restorable(stacks', g_prev', mem')
    BY <1>0, <1>2, <2>1, <2>4, TransferSavesSound
  <2> QED BY <2>3, <2>5, SoundAfter
<1> QED BY <1>1, <1>2 DEF RunDefault

LEMMA ForkSound ==
  ASSUME TypeOK, Ownership, Sound, NEW t \in Tealets, NEW start_switch \in BOOLEAN,
         Fork(t, start_switch)
  PROVE  Sound'
<1> DEFINE far == stack_far[g_current]
<1>0. far \in Edge
  BY DEF TypeOK
<1>1. CASE StartFails(far)
  BY <1>0, <1>1, StartFailsSound
<1>2. ASSUME NEW s \in Stacks, NEW sp \in PointersBelow(far),
             TransferSaves(t, NoStack, far, TRUE, s, sp, far),
             stack_far' = [stack_far EXCEPT ![t] = far],
             g_current' \in {t, g_current}
      PROVE  Sound'
  <2>1. sp \in Pointers /\ sp < far
    BY DEF PointersBelow
  <2>2. stack_far'[g_current'] = far
    BY <1>2 DEF TypeOK
  <2>3. Resumable(NoStack, far)
    BY DEF Resumable
  <2>4. /\ Listed(stacks', g_prev', older', far)
        /\ Restorable(stacks', g_prev', mem')
    BY <1>0, <1>2, <2>1, <2>3, TransferSavesSound
  <2> QED BY <2>2, <2>4, SoundAfter
<1> QED BY <1>1, <1>2 DEF Fork

LEMMA SwitchSound ==
  ASSUME TypeOK, Ownership, Sound, NEW t \in Tealets, NEW force \in BOOLEAN, Switch(t, force)
  PROVE  Sound'
<1> DEFINE ts == stack[t]
           stop == stack_far[t]
           far == stack_far[g_current]
<1>0. stop \in Edge /\ far \in Edge
  BY DEF TypeOK
<1>1. Resumable(ts, stop)
  BY CanResumeStack DEF Switch
<1>2. CASE TransferFails(ts, stop, FailOk(force), TRUE) /\ UNCHANGED tealetVars
  <2>1. stack_far'[g_current'] = far
    BY <1>2 DEF tealetVars
  <2> QED BY <1>0, <1>2, <2>1, TransferFailsSound, SoundAfter
<1>3. ASSUME NEW s \in Stacks, NEW sp \in PointersBelow(far),
             TransferSaves(t, ts, stop, FailOk(force), s, sp, far),
             g_current' = t, UNCHANGED <<state, stack_far>>
      PROVE  Sound'
  <2>1. sp \in Pointers /\ sp < far
    BY DEF PointersBelow
  <2>2. stack_far'[g_current'] = stop
    BY <1>3
  <2>3. /\ Listed(stacks', g_prev', older', stop)
        /\ Restorable(stacks', g_prev', mem')
    BY <1>0, <1>1, <1>3, <2>1, TransferSavesSound
  <2> QED BY <2>2, <2>3, SoundAfter
<1>4. CASE TransferDrops(t, ts, stop, FALSE) /\ g_current' = t /\ UNCHANGED stack_far
  <2>1. stack_far'[g_current'] = stop
    BY <1>4
  <2>2. /\ Listed(stacks', g_prev', older', stop)
        /\ Restorable(stacks', g_prev', mem')
    BY <1>0, <1>1, <1>4, TransferDropsSound
  <2> QED BY <2>1, <2>2, SoundAfter
<1> QED BY <1>2, <1>3, <1>4 DEF Switch

LEMMA ExitSound ==
  ASSUME TypeOK, Ownership, Sound, NEW t \in Tealets, NEW force \in BOOLEAN,
         NEW delete \in BOOLEAN, Exit(t, force, delete)
  PROVE  Sound'
<1> DEFINE ts == stack[t]
           stop == stack_far[t]
<1>0. stop \in Edge
  BY DEF TypeOK
<1>1. Resumable(ts, stop) /\ t # g_current
  BY CanResumeStack DEF Exit, CanResume
<1>2. CASE TransferFails(ts, stop, ~force, FALSE) /\ UNCHANGED tealetVars
  <2>1. stack_far'[g_current'] = stack_far[g_current]
    BY <1>2 DEF tealetVars
  <2> QED BY <1>0, <1>2, <2>1, TransferFailsSound, SoundAfter
<1>3. CASE /\ TransferDrops(t, ts, stop, ~force)
           /\ g_current' = t
           /\ stack_far' = IF delete THEN [stack_far EXCEPT ![g_current] = 0]
                           ELSE stack_far
  <2>1. stack_far'[g_current'] = stop
    BY <1>1, <1>3 DEF TypeOK
  <2>2. /\ Listed(stacks', g_prev', older', stop)
        /\ Restorable(stacks', g_prev', mem')
    BY <1>0, <1>1, <1>3, TransferDropsSound
  <2> QED BY <2>1, <2>2, SoundAfter
<1> QED BY <1>2, <1>3 DEF Exit

(* Changing how many tealets share a stack, while some do. *)
LEMMA Recounting ==
  ASSUME NEW S, NEW R, NEW L, NEW O, NEW w, NEW m,
         Listed(S, L, O, w), Restorable(S, L, m), L \subseteq Stacks,
         \A s \in Stacks :
           /\ R[s].near = S[s].near /\ R[s].size = S[s].size /\ R[s].saved = S[s].saved
           /\ R[s].far = S[s].far /\ R[s].defunct = S[s].defunct
           /\ R[s].data = S[s].data /\ R[s].frames = S[s].frames
           /\ (R[s].refcount > 0) = (S[s].refcount > 0)
  PROVE  Listed(R, L, O, w) /\ Restorable(R, L, m)
<1>1. ASSUME NEW s \in Stacks
      PROVE  /\ Usable(R[s]) = Usable(S[s]) /\ End(R[s]) = End(S[s]) /\ Full(R[s]) = Full(S[s])
             /\ IntactIn(S[s], m) => IntactIn(R[s], m)
  <2>1. Usable(R[s]) = Usable(S[s]) /\ End(R[s]) = End(S[s])
    BY DEF Usable, End
  <2>2. Full(R[s]) = Full(S[s])
    BY <2>1 DEF Full
  <2>3. IntactIn(S[s], m) => IntactIn(R[s], m)
    BY <2>1 DEF IntactIn
  <2> QED BY <2>1, <2>2, <2>3
<1>2. Listed(R, L, O, w)
  <2>1. ASSUME NEW s \in L
        PROVE  /\ Usable(R[s]) /\ End(R[s]) < R[s].far /\ w <= End(R[s])
               /\ s \notin O[s] /\ O[s] \subseteq L
               /\ \A r \in O[s] : R[s].far <= End(R[r])
               /\ \A r \in L : r = s \/ r \in O[s] \/ s \in O[r]
    <3>1. s \in Stacks /\ O[s] \subseteq L
      BY DEF Listed
    <3>2. \A r \in O[s] : R[s].far <= End(R[r])
      BY <1>1, <3>1 DEF Listed
    <3> QED BY <1>1, <3>1, <3>2 DEF Listed
  <2> QED BY <2>1 DEF Listed
<1>3. Restorable(R, L, m)
  BY <1>1 DEF Restorable
<1> QED BY <1>2, <1>3

LEMMA DuplicateSound ==
  ASSUME TypeOK, Ownership, Sound, NEW t \in Tealets, NEW copy \in Tealets, Duplicate(t, copy)
  PROVE  Sound'
<1>1. stack[copy] = NoStack /\ copy # g_current
  BY DEF Duplicate, Ownership, Holders
<1>2. stack_far'[g_current'] = stack_far[g_current]
  BY <1>1 DEF Duplicate, TypeOK
<1>3. ASSUME NEW s \in Stacks
      PROVE  /\ stacks'[s].near = stacks[s].near /\ stacks'[s].size = stacks[s].size
             /\ stacks'[s].saved = stacks[s].saved /\ stacks'[s].far = stacks[s].far
             /\ stacks'[s].defunct = stacks[s].defunct
             /\ stacks'[s].data = stacks[s].data /\ stacks'[s].frames = stacks[s].frames
             /\ (stacks'[s].refcount > 0) = (stacks[s].refcount > 0)
  <2>1. CASE stack[t] = s
    <3>1. stacks' = [stacks EXCEPT ![s].refcount = @ + 1]
      BY <2>1 DEF Duplicate
    <3>2. stacks[s].refcount = Count(stack, s) /\ Count(stack, s) # 0 /\ Count(stack, s) \in Nat
      BY <2>1, CountNat, CountZero DEF Ownership, Owned
    <3>3. stacks[s] \in StackRecord
      BY DEF TypeOK
    <3>4. stacks'[s] = [stacks[s] EXCEPT !.refcount = stacks[s].refcount + 1]
      BY <3>1 DEF TypeOK
    <3> QED BY <3>2, <3>3, <3>4 DEF StackRecord
  <2>2. CASE stack[t] # s
    <3>1. stacks'[s] = stacks[s]
      BY <2>2 DEF Duplicate, TypeOK
    <3> QED BY <3>1
  <2> QED BY <2>1, <2>2
<1>4. g_prev' = g_prev /\ older' = older /\ mem' = mem /\ g_prev \subseteq Stacks
  BY DEF Duplicate, TypeOK
<1> QED BY <1>2, <1>3, <1>4, Recounting, SoundAfter DEF Sound

(* Taking stacks out of the list: what is not listed promises less.        *)
LEMMA Shrinking ==
  ASSUME NEW S, NEW L, NEW O, NEW w, NEW m, Listed(S, L, O, w), Restorable(S, L, m),
         NEW M, M \subseteq L, NEW P, \A x \in M : P[x] = O[x] \cap M
  PROVE  Listed(S, M, P, w) /\ Restorable(S, M, m)
<1>1. Restorable(S, M, m)
  BY DEF Restorable
<1>2. ASSUME NEW s \in M
      PROVE  /\ Usable(S[s]) /\ End(S[s]) < S[s].far /\ w <= End(S[s])
             /\ s \notin P[s] /\ P[s] \subseteq M
             /\ \A r \in P[s] : S[s].far <= End(S[r])
             /\ \A r \in M : r = s \/ r \in P[s] \/ s \in P[r]
  BY DEF Listed
<1> QED BY <1>1, <1>2 DEF Listed

LEMMA DeleteSound ==
  ASSUME TypeOK, Ownership, Sound, NEW t \in Tealets, Delete(t)
  PROVE  Sound'
<1> DEFINE s == stack[t]
           w == stack_far[g_current]
<1>1. stack_far'[g_current'] = w
  BY DEF Delete, TypeOK
<1>2. mem' = mem
  BY DEF Delete
<1>3. CASE s = NoStack
  BY <1>1, <1>2, <1>3, SoundAfter DEF Delete, Sound
<1>4. CASE s # NoStack
  <2>1. s \in Stacks /\ stacks[s].refcount = Count(stack, s) /\ Count(stack, s) \in Nat
    BY <1>4, CountNat DEF TypeOK, Ownership, Owned
  <2>2. stacks' = Released(stacks, s)
    BY <1>4 DEF Delete, Released, TypeOK
  <2>3. g_prev' = IF stacks[s].refcount = 1 THEN g_prev \ {s} ELSE g_prev
    BY <1>4 DEF Delete, ListBecomes
  <2>4. g_prev' \subseteq g_prev /\ g_prev' \subseteq Stacks /\ g_prev \subseteq Stacks
    BY <2>3 DEF TypeOK
  <2>5. \A x \in g_prev' : older'[x] = older[x] \cap g_prev'
    BY <1>4, <2>4 DEF Delete, ListBecomes
  <2>6. Listed(stacks, g_prev', older', w) /\ Restorable(stacks, g_prev', mem)
    BY <2>4, <2>5, Shrinking DEF Sound
  <2>7. CASE s \notin g_prev'
    <3>1. Listed(stacks', g_prev', older', w) /\ Restorable(stacks', g_prev', mem)
      BY <2>2, <2>4, <2>6, <2>7, Releasing DEF TypeOK
    <3> QED BY <1>1, <1>2, <3>1, SoundAfter
  <2>8. CASE s \in g_prev'
    <3> DEFINE r == stacks[s]
               d == Decref(r)
    <3>1. r.refcount # 1 /\ r.refcount # 0 /\ r.refcount \in Nat
      <4>1. Count(stack, s) # 0
        BY CountZero
      <4> QED BY <2>1, <2>3, <2>8, <4>1
    <3>2. r \in StackRecord
      BY <2>1 DEF TypeOK
    <3>3. /\ d.near = r.near /\ d.size = r.size /\ d.saved = r.saved /\ d.far = r.far
          /\ d.defunct = r.defunct /\ d.data = r.data /\ d.frames = r.frames
          /\ d.refcount = r.refcount - 1
      BY <3>1, <3>2, DecrefFields
    <3>4. stacks'[s] = d /\ \A x \in Stacks \ {s} : stacks'[x] = stacks[x]
      BY <2>1, <2>2 DEF Released
    <3>5. ASSUME NEW x \in Stacks
          PROVE  /\ stacks'[x].near = stacks[x].near /\ stacks'[x].size = stacks[x].size
                 /\ stacks'[x].saved = stacks[x].saved /\ stacks'[x].far = stacks[x].far
                 /\ stacks'[x].defunct = stacks[x].defunct
                 /\ stacks'[x].data = stacks[x].data /\ stacks'[x].frames = stacks[x].frames
                 /\ (stacks'[x].refcount > 0) = (stacks[x].refcount > 0)
      <4>1. CASE x = s
        <5> HIDE DEF d
        <5> QED BY <3>1, <3>3, <3>4, <4>1
      <4>2. CASE x # s
        BY <3>4, <4>2
      <4> QED BY <4>1, <4>2
    <3>6. Listed(stacks', g_prev', older', w) /\ Restorable(stacks', g_prev', mem)
      BY <2>4, <2>6, <3>5, Recounting
    <3> QED BY <1>1, <1>2, <3>6, SoundAfter
  <2> QED BY <2>7, <2>8
<1> QED BY <1>3, <1>4

LEMMA SetFarSound ==
  ASSUME TypeOK, Sound, NEW far \in Boundaries, SetFar(far)
  PROVE  Sound'
<1>1. stack_far'[g_current'] = far /\ stack_far[g_current] = Depth
  BY DEF SetFar, TypeOK, Unbounded
<1>2. /\ stacks' = stacks /\ g_prev' = g_prev /\ older' = older /\ mem' = mem
      /\ g_prev \subseteq Stacks
  BY DEF SetFar, stackVars, TypeOK
<1>3. \A s \in g_prev : far <= End(stacks[s])
  <2>1. \A s \in g_prev : Depth <= End(stacks[s]) /\ End(stacks[s]) \in Int
    BY <1>1, <1>2, RecordInts DEF Sound, Listed, TypeOK
  <2>2. far <= Depth /\ far \in Int
    OBVIOUS
  <2> QED BY <2>1, <2>2
<1>4. Listed(stacks, g_prev, older, far)
  BY <1>3 DEF Sound, Listed
<1> QED BY <1>1, <1>2, <1>4, SoundAfter DEF Sound

LEMMA NextSound == TypeOK /\ Ownership /\ Sound /\ ~Overreaching /\ [Next]_vars => Sound'
<1> SUFFICES ASSUME TypeOK, Ownership, Sound, ~Overreaching, [Next]_vars PROVE Sound'
  OBVIOUS
<1>1. ASSUME NEW t \in Tealets, New(t) \/ RefuseDefunct(t) PROVE Sound'
  <2>1. /\ stack_far'[g_current'] = stack_far[g_current]
        /\ stacks' = stacks /\ g_prev' = g_prev /\ older' = older /\ mem' = mem
    BY <1>1 DEF New, RefuseDefunct, stackVars
  <2> QED BY <2>1, SoundAfter DEF Sound
<1>2. CASE UNCHANGED vars
  <2>1. /\ stack_far'[g_current'] = stack_far[g_current]
        /\ stacks' = stacks /\ g_prev' = g_prev /\ older' = older /\ mem' = mem
    BY <1>2 DEF vars, tealetVars, stackVars
  <2> QED BY <2>1, SoundAfter DEF Sound
<1>3. \A force \in {Forcing, FALSE} : force \in BOOLEAN
  OBVIOUS
<1> QED
  BY <1>1, <1>2, <1>3, RunSwitchSound, RunDefaultSound, ForkSound, SwitchSound, ExitSound,
     DuplicateSound, DeleteSound, SetFarSound
  DEF Next

---------------------------------------------------------------------------
(* The theorems.                                                           *)

(* The three invariants together, while every stack_far hint lies within   *)
(* its creator's boundary.                                                 *)
LEMMA Invariant == ~Overreaching /\ Spec => [](TypeOK /\ Ownership /\ Sound)
<1>1. TypeOK /\ Ownership /\ Sound /\ ~Overreaching /\ [Next]_vars
        => (TypeOK /\ Ownership /\ Sound)'
  BY NextTypeOK, NextOwnership, NextSound
<1>2. Init => TypeOK /\ Ownership /\ Sound
  BY InitTypeOK, InitOwnership, InitSound
<1>3. CASE ~Overreaching
  BY <1>1, <1>2, <1>3, PTL DEF Spec
<1> QED BY <1>3

(* What tealet_stack_grow_list() relies on when it stops at the target's   *)
(* stack: the older stacks of the list are already saved far enough.       *)
THEOREM StaircaseHolds == ~Overreaching /\ Spec => []Staircase
<1>1. TypeOK /\ Sound => Staircase
  <2> SUFFICES ASSUME TypeOK, Sound, NEW s \in g_prev
               PROVE  /\ End(stacks[s]) >= stack_far[g_current]
                      /\ \A r \in older[s] : End(stacks[r]) >= stacks[s].far
    BY DEF Staircase
  <2> QED BY DEF Sound, Listed
<1> QED BY <1>1, Invariant, PTL

(* g_prev never holds a freed, finished or defunct stack.                  *)
THEOREM ListIsPartialHolds == ~Overreaching /\ Spec => []ListIsPartial
<1>1. TypeOK /\ Sound => ListIsPartial
  BY RecordInts DEF Sound, Listed, Usable, ListIsPartial, Full, TypeOK
<1> QED BY <1>1, Invariant, PTL

(* A stack that is linked in g_prev, or saved entirely, can be restored    *)
(* exactly as it was suspended, in every reachable state, whichever        *)
(* allocations failed and whatever was shared, forced or deleted.          *)
THEOREM RecoverableHolds == ~Overreaching /\ Spec => []Recoverable
<1>1. TypeOK /\ Sound => Recoverable
  BY DEF TypeOK, Sound, Listed, Restorable, Usable, IntactIn, Recoverable, Intact
<1> QED BY <1>1, Invariant, PTL

============================================================================
