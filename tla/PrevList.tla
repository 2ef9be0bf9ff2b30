----------------------------- MODULE PrevList ------------------------------
(***************************************************************************)
(* What g_prev promises: a sequence of saved stacks, the last one first,   *)
(* from which stacks are taken out at any place, and always before their   *)
(* memory is given back.                                                   *)
(***************************************************************************)
EXTENDS Naturals, Sequences

CONSTANT Stacks   \* heap blocks that can hold a saved stack

VARIABLES
  used,   \* those that hold one
  order   \* those that are linked

vars == <<used, order>>

(* The list without its i-th node. *)
Without(i) == [j \in 1 .. Len(order) - 1 |-> IF j < i THEN order[j] ELSE order[j + 1]]

Init == used = {} /\ order = <<>>

(* A stack is saved, and linked in front unless it is wholly saved. *)
Save(s) ==
  /\ s \notin used
  /\ used' = used \cup {s}
  /\ order' \in {order, <<s>> \o order}

TakesOut(s) == \E i \in DOMAIN order : order[i] = s /\ order' = Without(i)

Unlink(s) ==
  /\ TakesOut(s)
  /\ UNCHANGED used

(* A stack that is freed is not on the list any more. *)
Free(s) ==
  /\ s \in used
  /\ used' = used \ {s}
  /\ \/ TakesOut(s)
     \/ /\ \A i \in DOMAIN order : order[i] # s
        /\ UNCHANGED order

Next == \E s \in Stacks : Save(s) \/ Unlink(s) \/ Free(s)

Spec == Init /\ [][Next]_vars

=============================================================================
