------------------------------ MODULE Partition ------------------------------
(***************************************************************************)
(* What the carrier of a structure promises its clients, without saying    *)
(* how: a set of obs split into equivalence classes, each named by its     *)
(* least member.  An ob is inserted as a class of its own, two classes     *)
(* are united in one atomic step, and only an ob that is not the name of   *)
(* its class (a dep) is ever taken out.                                    *)
(***************************************************************************)
EXTENDS Naturals

CONSTANT ItemDim    \* the number of slots for obs, item_dim() in the code

Ob == 1 .. ItemDim

VARIABLE cls        \* cls[x] = the least member of x's class, 0 if x is absent

Present == {x \in Ob : cls[x] # 0}

Init == \E S \in SUBSET Ob : cls = [x \in Ob |-> IF x \in S THEN x ELSE 0]

Insert(x) ==
  /\ cls[x] = 0
  /\ cls' = [cls EXCEPT ![x] = x]

\* The two classes become one, named by the smaller of their two names.
United(f, x, y) ==
  LET lo == IF f[x] < f[y] THEN f[x] ELSE f[y]
  IN  [z \in Ob |-> IF f[z] \in {f[x], f[y]} THEN lo ELSE f[z]]

Unite(x, y) ==
  /\ {x, y} \subseteq Present
  /\ cls' = United(cls, x, y)

Remove(x) ==
  /\ x \in Present
  /\ cls[x] # x
  /\ cls' = [cls EXCEPT ![x] = 0]

Next ==
  \/ \E x \in Ob : Insert(x)
  \/ \E x, y \in Ob : Unite(x, y)
  \/ \E x \in Ob : Remove(x)

Spec == Init /\ [][Next]_cls

=============================================================================
