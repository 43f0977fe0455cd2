----------------------------- MODULE Intervals -----------------------------
(***************************************************************************)
(* The analyst's approximations by intervals (analyst/intervals): what is  *)
(* known of an unknown ob, in four sets of obs, and how the facts about it *)
(* and the tables of the structure add to them.                            *)
(*                                                                         *)
(* A bound that is still being computed is pending: the SetId 0 of the     *)
(* code, {} here; {S} is the bound S.  A set stands for its SetId, and so  *)
(* fingerprints do not collide here.                                       *)
(*                                                                         *)
(* s is a structure: [dim, TOP, BOT, less, nless, constant, fun, ...]; a   *)
(* function is the set of its entries <<lhs, rhs, val>>, and a symmetric   *)
(* one has both orders.  less is transitive, as a normalized structure is. *)
(***************************************************************************)
EXTENDS Naturals, Sequences, FiniteSets, SequencesExt

Parity == {"ABOVE", "BELOW", "NABOVE", "NBELOW"}

Obs(s)       == 1 .. s.dim
Above(s, x)  == {y \in Obs(s) : <<x, y>> \in s.less}
Below(s, y)  == {x \in Obs(s) : <<x, y>> \in s.less}
NAbove(s, x) == {y \in Obs(s) : <<x, y>> \in s.nless}
NBelow(s, y) == {x \in Obs(s) : <<x, y>> \in s.nless}

Pending == {}

Known(s, x) == [ABOVE  |-> {Above(s, x)},  BELOW  |-> {Below(s, x)},
                NABOVE |-> {NAbove(s, x)}, NBELOW |-> {NBelow(s, x)}]

Unknown(s) == [ABOVE  |-> {Above(s, s.TOP)}, BELOW  |-> {Below(s, s.BOT)},
               NABOVE |-> {{}},              NBELOW |-> {{}}]

NullaryFunction(s, n) ==
  IF s.constant[n] = 0 THEN Unknown(s) ELSE Known(s, s.constant[n])

LessLhs(s, lhs)  == [Unknown(s) EXCEPT !.BELOW = lhs.BELOW, !.NABOVE = lhs.NABOVE]
LessRhs(s, rhs)  == [Unknown(s) EXCEPT !.ABOVE = rhs.ABOVE, !.NBELOW = rhs.NBELOW]
NLessLhs(s, lhs) == [Unknown(s) EXCEPT !.NBELOW = lhs.ABOVE]
NLessRhsAbove(s, rhs) == [Unknown(s) EXCEPT !.NABOVE = rhs.ABOVE]  \* mutant

NLessRhs(s, rhs) == [Unknown(s) EXCEPT !.NABOVE = rhs.BELOW]

Entries(s, f) == s.fun[f]

\* What propagation relies on: s is a part of a model, [order, meaning, model],
\* whose functions are monotone; BOT is below every ob and TOP above, and s knows
\* that much.
PartOfModel(s) ==
  LET leq(x, y) == <<x, y>> \in s.order
  IN  /\ s.dim \in Nat /\ s.TOP \in Obs(s) /\ s.BOT \in Obs(s)
      /\ \A x \in Obs(s) : leq(x, x) /\ leq(s.BOT, x) /\ leq(x, s.TOP)
      /\ \A x, y, z \in Obs(s) : leq(x, y) /\ leq(y, z) => leq(x, z)
      /\ \A x, y \in Obs(s) : leq(x, y) /\ leq(y, x) => x = y
      /\ \A x, y \in Obs(s) : <<x, y>> \in s.less => leq(x, y)
      /\ \A x, y \in Obs(s) : <<x, y>> \in s.nless => ~ leq(x, y)
      /\ \A x \in Obs(s) : {<<s.BOT, x>>, <<x, s.TOP>>} \subseteq s.less
      /\ \A n \in DOMAIN s.constant :
           s.constant[n] # 0 => s.constant[n] \in Obs(s) /\ s.constant[n] = s.meaning[n]
      /\ \A f \in DOMAIN s.model :
           LET val(x, y) == s.model[f][<<x, y>>]
           IN  /\ \A x, y \in Obs(s) : val(x, y) \in Obs(s)
               /\ \A x, y, z \in Obs(s) : leq(x, y) => leq(val(x, z), val(y, z)) /\ leq(val(z, x), val(z, y))
               /\ f \in s.symmetric => \A x, y \in Obs(s) : val(x, y) = val(y, x)
               /\ \A e \in Entries(s, f) : /\ {e[1], e[2], e[3]} \subseteq Obs(s)
                                           /\ e[3] = val(e[1], e[2])

-----------------------------------------------------------------------------
(* Functions of bounds.                                                    *)

\* convex_insert(), of a set of obs: an ob brings what is above it, or below.
Convex(s, obs, upward) ==
  UNION {IF upward THEN Above(s, x) ELSE Below(s, x) : x \in obs}

\* A function that has one value at both ends has it everywhere.
Constant(s, f, l) ==
  \E v \in Obs(s) : {<<l, s.TOP, v>>, <<l, s.BOT, v>>} \subseteq Entries(s, f)

FunctionLhsRhs(s, f, lhs, rhs, p) ==
  LET upward == p = "ABOVE"
      optimum == IF upward THEN s.TOP ELSE s.BOT
      vals == {e[3] : e \in {e \in Entries(s, f) :
                /\ e[1] \in lhs
                /\ IF Constant(s, f, e[1]) THEN e[2] = s.TOP ELSE e[2] \in rhs}}
  IN  {optimum} \cup Convex(s, vals, upward)

FunctionLhsVal(s, f, lhs, val, p) ==
  Convex(s, {e[2] : e \in {e \in Entries(s, f) : e[1] \in lhs /\ e[3] \in val}},
         p = "NBELOW")

FunctionRhsVal(s, f, rhs, val, p) ==
  Convex(s, {e[1] : e \in {e \in Entries(s, f) : e[2] \in rhs /\ e[3] \in val}},
         p = "NBELOW")

\* The functions behind the caches.  A symmetric function has one cache for
\* both of its arguments.
BinaryValue(s, k) ==
  CASE k.target = "VAL" -> FunctionLhsRhs(s, k.name, k.args[1], k.args[2], k.parity)
    [] k.target = "RHS" -> FunctionLhsVal(s, k.name, k.args[1], k.args[2], k.parity)
    [] k.target = "LHS" -> FunctionRhsVal(s, k.name, k.args[1], k.args[2], k.parity)

BinaryKey(s, name, target, p, a, b) ==
  [name |-> name, parity |-> p, args |-> <<a, b>>,
   target |-> IF name \in s.symmetric /\ target = "LHS" THEN "RHS" ELSE target]

Value(s, t) ==
  CASE t.cache = "binary"   -> BinaryValue(s, t.key)
    [] t.cache = "union"    -> UNION t.key
    [] t.cache = "disjoint" -> \A a, b \in t.key : a # b => a \cap b = {}

-----------------------------------------------------------------------------
(* Fusing and comparing.                                                   *)

\* What lazy_fuse() takes the union of: it ignores what says nothing.
Sets(s, heard, p) == UNION heard \ Unknown(s)[p]

AndTrool(x, y) ==
  CASE {FALSE} \in {x, y} -> {FALSE}
    [] x = {TRUE} /\ y = {TRUE} -> {TRUE}
    [] OTHER -> {}

ObservablyDiffer(x, y) ==
  \E p \in Parity : x[p] # Pending /\ y[p] # Pending /\ x[p] # y[p]

=============================================================================
