------------------------------- MODULE Order -------------------------------
(***************************************************************************)
(* infer_less() and infer_nless() of the cartographer (infer.cpp): the     *)
(* relations LESS and NLESS are extended by rules about the functions of a *)
(* structure, which do not change meanwhile.  Each rule is a loop over the *)
(* obs that several threads share; a thread gathers the theorems of an ob  *)
(* in a queue and flushes it under a mutex.  It reads without the mutex,   *)
(* so it sees what others flush in the midst of its own loops.             *)
(*                                                                         *)
(* A table is the set of its entries <<lhs, rhs, val>>, a symmetric one    *)
(* has both orders.  An iterator takes a copy of a word of the line it     *)
(* walks through; here that is the whole line.                             *)
(***************************************************************************)
EXTENDS Naturals, Sequences, FiniteSets

CONSTANTS
  Dim,        \* the largest ob
  Thread,     \* the threads of a parallel loop
  NoThread,   \* whoever holds the mutex when nobody does
  Orders      \* relations that the rules are to be sound for

ASSUME OrderAssumption ==
  /\ Dim \in Nat
  /\ NoThread \notin Thread

Ob   == 1 .. Dim
Pair == Ob \X Ob

Binary    == {"APP", "COMP"}
Symmetric == {"JOIN", "RAND"}
Rules     == Binary \cup Symmetric \cup {"transitive", "convex", "linear", "nless"}

VARIABLES
  support,   \* the carrier's obs
  constant,  \* the values of nullary functions, 0 where undefined
  fun,       \* the tables of the functions there are
  rows,      \* the bit lines of LESS and NLESS by lhs ...
  cols,      \* ... and by rhs
  rules,     \* the rules left, the first of which is being applied
  next,      \* the next ob of its loop
  at,        \* the ob that each thread is at, 0 for none
  left,      \* what its inner loop has still to visit
  queue,     \* its theorems
  half,      \* the theorems whose row is set but not yet their column
  lock       \* the holder of the mutex

tableVars == <<support, constant, fun>>
relVars   == <<rows, cols>>
loopVars  == <<rules, next, at, left, queue, half, lock>>
orderVars == <<tableVars, relVars, loopVars>>

Row(r, x) == {y \in Ob : <<x, y>> \in rows[r]}
Col(r, y) == {x \in Ob : <<x, y>> \in cols[r]}

\* The entries of a row of a table, and where they are.
Of(n, l)   == {a \in fun[n] : a[1] = l}
Args(n, l) == {a[2] : a \in Of(n, l)}

\* get_nonconst(): the obs that no APP K z is.
NonConst ==
  IF constant["K"] = 0 THEN support
  ELSE support \ {a[3] : a \in Of("APP", constant["K"])}

Rule == Head(rules)
Rel  == IF Rule = "nless" THEN "NLESS" ELSE "LESS"

-----------------------------------------------------------------------------
(* LESS.                                                                   *)

Undecided(x) == (support \ Row("LESS", x)) \ Row("NLESS", x)

TransitiveAt(x, y) ==
  IF Row("LESS", x) \cap Col("LESS", y) # {} THEN {<<x, y>>} ELSE {}

\* fun f x below fun g y, where f is below g.  The row of a constant function
\* is represented by its entry at the function itself.
BinaryPremise(n, f, g, a, b) ==
  CASE f \in NonConst /\ g = f -> a # b /\ <<a[2], b[2]>> \in rows["LESS"]
    [] f \in NonConst /\ g \in NonConst \ {f} ->
         \/ a[2] = b[2]
         \/ /\ a[2] \notin Args(n, g) /\ b[2] \notin Args(n, f)
            /\ <<a[2], b[2]>> \in rows["LESS"]
    [] f \in NonConst /\ g \notin NonConst -> b[2] = g
    [] f \notin NonConst /\ g \in NonConst -> a[2] = f
    [] f \notin NonConst /\ g \notin NonConst -> a[2] = f /\ b[2] = g

RandPremise(n, f, g, a, b) ==
  \/ a[2] = b[2]
  \/ /\ a[2] \notin Args(n, g) /\ b[2] \notin Args(n, f)
     /\ <<a[2], b[2]>> \in rows["LESS"]

Values(P) == {<<p[1][3], p[2][3]>> : p \in P}

MonotoneAt(n, f, g) ==
  Values({p \in Of(n, f) \X Of(n, g) :
            IF n \in Binary THEN BinaryPremise(n, f, g, p[1], p[2])
            ELSE RandPremise(n, f, g, p[1], p[2])}) \ rows["LESS"]

\* Faulty: only one of the arguments need be below.
JoinPremiseLoose(f, x, b) == <<f, b[1]>> \in rows["LESS"]

\* JOIN f x is below JOIN g y.
JoinPremise(f, x, b) ==
  \/ b[2] = x /\ <<f, b[1]>> \in rows["LESS"]
  \/ b[1] = f /\ <<x, b[2]>> \in rows["LESS"]
  \/ /\ <<f, b[1]>> \in rows["LESS"] /\ b[1] \notin Args("JOIN", x)
     /\ <<x, b[2]>> \in rows["LESS"]
     /\ b[2] \notin Row("LESS", b[1]) \cup Col("LESS", b[1])

JoinAt(f, x) ==
  UNION {{<<f, a[3]>>, <<x, a[3]>>}
           \cup {<<a[3], b[3]>> : b \in {c \in fun["JOIN"] : JoinPremise(f, x, c)}}
         : a \in {c \in Of("JOIN", f) : c[2] = x}} \ rows["LESS"]

\* The value of a function at x and y is below what both are below, and for
\* RAND also above what both are above.
ConvexAt(n, x, y) ==
  UNION {{a[3]} \X ((Row("LESS", x) \cap Row("LESS", y)) \ Row("LESS", a[3]))
         : a \in {c \in Of(n, x) : c[2] = y}}

ConcaveAt(n, x, y) ==
  UNION {((Col("LESS", x) \cap Col("LESS", y)) \ Col("LESS", a[3])) \X {a[3]}
         : a \in {c \in Of(n, x) : c[2] = y}}

-----------------------------------------------------------------------------
(* NLESS.                                                                  *)

NlessTransitive(x, y) ==
  \/ Row("NLESS", x) \cap Row("LESS", y) # {}
  \/ Col("LESS", x) \cap Col("NLESS", y) # {}

NlessPremise(n, x, y, a, b) ==
  \/ /\ a[1] = x /\ b[1] = y
     /\ \/ /\ n \in Symmetric \/ {x, y} \subseteq NonConst
           /\ a[2] = b[2]
           /\ <<a[3], b[3]>> \in rows["NLESS"]
        \/ /\ n \in Binary /\ x \in NonConst /\ y \notin NonConst
           /\ b[2] = y
           /\ <<a[3], b[3]>> \in cols["NLESS"]
        \/ /\ n \in Binary /\ x \notin NonConst /\ y \in NonConst
           /\ a[2] = x
           /\ <<a[3], b[3]>> \in rows["NLESS"]
  \/ /\ n \in Binary
     /\ a[2] = x /\ b[2] = y
     /\ a[1] = b[1] /\ a[1] \in NonConst
     /\ <<a[3], b[3]>> \in rows["NLESS"]

NlessAt(x, y) ==
  IF \/ NlessTransitive(x, y)
     \/ \E n \in DOMAIN fun : \E a, b \in fun[n] : NlessPremise(n, x, y, a, b)
  THEN {<<x, y>>} ELSE {}

-----------------------------------------------------------------------------
(* The parallel loops.                                                     *)

\* What the inner loop visits: other obs y below x for the symmetric rules.
Items(x) ==
  CASE Rule \in {"transitive", "nless"} -> Undecided(x)
    [] Rule \in Binary ->
         IF x \in NonConst \/ x \in Args(Rule, x) THEN Row("LESS", x) ELSE {}
    [] Rule = "RAND" -> Row("LESS", x) \ {x}
    [] Rule \in {"JOIN", "convex"} ->
         {y \in Args("JOIN", x) : y < x} \ (Row("LESS", x) \cup Col("LESS", x))
    [] Rule = "linear" ->
         {y \in Args("RAND", x) : y < x} \ (Row("LESS", x) \cup Col("LESS", x))

Theorems(x, y) ==
  CASE Rule = "transitive" -> TransitiveAt(x, y)
    [] Rule \in Binary \cup {"RAND"} -> MonotoneAt(Rule, x, y)
    [] Rule = "JOIN" -> JoinAt(x, y)
    [] Rule = "convex" -> ConvexAt("JOIN", x, y)
    [] Rule = "linear" -> ConvexAt("RAND", x, y) \cup ConcaveAt("RAND", x, y)
    [] Rule = "nless" -> NlessAt(x, y)

\* A thread takes the next ob of the loop.
TakeOb(t) ==
  /\ rules # <<>>
  /\ at[t] = 0
  /\ next <= Dim
  /\ next' = next + 1
  /\ IF next \in support
     THEN /\ at' = [at EXCEPT ![t] = next]
          /\ left' = [left EXCEPT ![t] = Items(next)]
     ELSE UNCHANGED <<at, left>>
  /\ UNCHANGED <<tableVars, relVars, rules, queue, half, lock>>

\* POMAGMA_ASSERT_UNDECIDED
StillUndecided(x, y) ==
  Rule \in {"transitive", "nless"} => y \in Undecided(x)

Look(t) ==
  /\ at[t] # 0 /\ lock # t
  /\ \E y \in left[t] :
       /\ \A z \in left[t] : y <= z
       /\ StillUndecided(at[t], y)
       /\ queue' = [queue EXCEPT ![t] = @ \cup Theorems(at[t], y)]
       /\ left' = [left EXCEPT ![t] = @ \ {y}]
  /\ UNCHANGED <<tableVars, relVars, rules, next, at, half, lock>>

\* flush()
FlushBegin(t) ==
  /\ at[t] # 0 /\ left[t] = {} /\ lock # t
  /\ IF queue[t] = {} THEN at' = [at EXCEPT ![t] = 0] /\ UNCHANGED lock
     ELSE lock = NoThread /\ lock' = t /\ UNCHANGED at
  /\ UNCHANGED <<tableVars, relVars, rules, next, left, queue, half>>

\* LhsFixedTheoremQueue sets the whole row and then the columns; TheoremQueue
\* goes from pair to pair.
RowAtOnce == Rule \in {"transitive", "nless"}

FlushRow(t) ==
  /\ lock = t /\ half = {}
  /\ \E S \in IF RowAtOnce THEN {queue[t]} ELSE {{p} : p \in queue[t]} :
       /\ S # {}
       /\ half' = S
       /\ queue' = [queue EXCEPT ![t] = @ \ S]
       /\ rows' = [rows EXCEPT ![Rel] = @ \cup S]
  /\ UNCHANGED <<tableVars, cols, rules, next, at, left, lock>>

FlushCol(t) ==
  /\ lock = t /\ half # {}
  /\ cols' = [cols EXCEPT ![Rel] = @ \cup half]
  /\ half' = {}
  /\ IF queue[t] = {} THEN lock' = NoThread /\ at' = [at EXCEPT ![t] = 0]
     ELSE UNCHANGED <<lock, at>>
  /\ UNCHANGED <<tableVars, rows, rules, next, left, queue>>

\* The threads are joined.
Joined == next > Dim /\ \A t \in Thread : at[t] = 0

\* Faulty: no barrier at the end of a loop.
EndRuleEarly ==
  /\ rules # <<>>
  /\ next > Dim
  /\ rules' = Tail(rules)
  /\ next' = 1
  /\ UNCHANGED <<tableVars, relVars, at, left, queue, half, lock>>

EndRule ==
  /\ rules # <<>>
  /\ Joined
  /\ rules' = Tail(rules)
  /\ next' = 1
  /\ UNCHANGED <<tableVars, relVars, at, left, queue, half, lock>>

ThreadStep(t) ==
  \/ TakeOb(t) \/ Look(t) \/ FlushBegin(t) \/ FlushRow(t) \/ FlushCol(t)

OrderNext == EndRule \/ \E t \in Thread : ThreadStep(t)

\* The rules of infer_less and of infer_nless.
LessRules ==
  <<"transitive", "APP", "COMP">>
    \o (IF "JOIN" \in DOMAIN fun THEN <<"JOIN", "convex">> ELSE <<>>)
    \o (IF "RAND" \in DOMAIN fun THEN <<"RAND", "linear">> ELSE <<>>)

NlessRules == <<"nless">>

Resting ==
  /\ next = 1
  /\ at = [t \in Thread |-> 0]
  /\ left = [t \in Thread |-> {}]
  /\ queue = [t \in Thread |-> {}]
  /\ half = {}
  /\ lock = NoThread

\* Any structure, at the beginning of either.
OrderInit ==
  /\ support \in SUBSET Ob
  /\ fun \in UNION {[N -> SUBSET (Ob \X Ob \X Ob)] :
                      N \in {Binary \cup S : S \in SUBSET Symmetric}}
  /\ constant \in [{"K"} -> 0 .. Dim]
  /\ rows \in [{"LESS", "NLESS"} -> SUBSET Pair]
  /\ cols \in [{"LESS", "NLESS"} -> SUBSET Pair]
  /\ rules \in {LessRules, NlessRules}
  /\ Resting

OrderSpec == OrderInit /\ [][OrderNext]_orderVars

-----------------------------------------------------------------------------
(* Properties.                                                             *)

Tables ==
  /\ support \subseteq Ob
  /\ DOMAIN fun \subseteq Binary \cup Symmetric
  /\ Binary \subseteq DOMAIN fun
  /\ \A n \in DOMAIN fun : fun[n] \subseteq Ob \X Ob \X Ob
  /\ rows \in [{"LESS", "NLESS"} -> SUBSET Pair]
  /\ cols \in [{"LESS", "NLESS"} -> SUBSET Pair]

\* The rules that the functions there are allow for.
Applicable ==
  {"transitive", "nless"} \cup DOMAIN fun
    \cup {r \in {"convex"} : "JOIN" \in DOMAIN fun}
    \cup {r \in {"linear"} : "RAND" \in DOMAIN fun}

\* The type invariant, and what the parallel loops rely on: a thread has
\* nothing to visit and no theorem but at the ob that it is at and during a
\* rule, only the holder of the mutex is between a row and its column, and what
\* a monotone rule visits is still in the row that it was taken from.
ThreadOK(t) ==
  /\ at[t] = 0 => left[t] = {} /\ queue[t] = {}
  /\ at[t] # 0 => rules # <<>>
  /\ at[t] # 0 /\ Head(rules) \in Binary \cup {"RAND"} =>
       \A y \in left[t] : <<at[t], y>> \in rows["LESS"]

LoopsOK ==
  /\ Tables
  /\ rules \in Seq(Applicable)
  /\ next \in Nat
  /\ at \in [Thread -> 0 .. Dim]
  /\ left \in [Thread -> SUBSET Ob]
  /\ queue \in [Thread -> SUBSET Pair]
  /\ half \subseteq Pair
  /\ lock \in Thread \cup {NoThread}
  /\ half # {} => lock # NoThread
  /\ lock \in Thread => at[lock] # 0 /\ left[lock] = {}
  /\ \A t \in Thread : ThreadOK(t)

\* An order that the structure may stand for: a preorder in which the
\* functions are monotone, the rows of constants constant, JOIN a join, and
\* RAND between what is below and what is above its arguments.
Models(leq) ==
  /\ \A x \in Ob : <<x, x>> \in leq
  /\ \A x, y, z \in Ob : <<x, y>> \in leq /\ <<y, z>> \in leq => <<x, z>> \in leq
  /\ \A n \in DOMAIN fun : \A a, b \in fun[n] :
       /\ <<a[1], b[1]>> \in leq
       /\ \/ <<a[2], b[2]>> \in leq
          \/ n \in Binary /\ ~({a[1], b[1]} \subseteq NonConst)
       => <<a[3], b[3]>> \in leq
  /\ \A n \in DOMAIN fun \cap Symmetric : \A a \in fun[n], z \in Ob :
       <<a[1], z>> \in leq /\ <<a[2], z>> \in leq => <<a[3], z>> \in leq
  /\ "JOIN" \in DOMAIN fun =>
       \A a \in fun["JOIN"] : <<a[1], a[3]>> \in leq /\ <<a[2], a[3]>> \in leq
  /\ "RAND" \in DOMAIN fun => \A a \in fun["RAND"], z \in Ob :
       <<z, a[1]>> \in leq /\ <<z, a[2]>> \in leq => <<z, a[3]>> \in leq

\* LESS is in the order and NLESS is not, in the lines as in the queues.
Agrees(leq) ==
  /\ rows["LESS"] \cup cols["LESS"] \subseteq leq
  /\ (rows["NLESS"] \cup cols["NLESS"]) \cap leq = {}
  /\ rules # <<>> => \A p \in half \cup UNION {queue[t] : t \in Thread} :
                       (Rule = "nless") <=> (p \notin leq)

\* The rules are sound: whatever order the structure stood for before a step
\* it stands for afterwards.
Sound ==
  [][\A leq \in Orders :
       rules # <<>> /\ Models(leq) /\ Agrees(leq) => Agrees(leq)']_orderVars

=============================================================================
