------------------------------- MODULE Infer -------------------------------
(***************************************************************************)
(* normalize() of the cartographer's client: infer requests, first the     *)
(* positive ones and then the negative ones, each kind until the server    *)
(* answers that no theorem was found.  A positive request applies, in      *)
(* turn, the rules of the constant K, associativity and transposition,     *)
(* which derive entries of functions and equations, then LESS (Order), and *)
(* the equations of obs below each other.                                  *)
(*                                                                         *)
(* Merges are by what process_mergers() promises (Quotient of the module   *)
(* Cartographer): the tables become those of the classes, and entries that *)
(* collide are merged too.                                                 *)
(***************************************************************************)
EXTENDS Order, SequencesExt

CONSTANT Worlds    \* structures to start with: [count, constant, fun, LESS, NLESS]

VARIABLES
  priority,  \* of the request: "pos", "neg", "done" when normalize returned
  stages,    \* what is left of the request
  tasks,     \* the BinaryTheoremQueue of a stage
  before,    \* start_count
  found,     \* whether theorem_count is positive
  root,      \* the carrier: the least ob that each is merged with, 0 for none
  world,     \* history: the structure it started with ...
  went       \* ... and the ob that each of its obs has become

inferVars == <<priority, stages, tasks, before, found, root, world, went>>
vars      == <<orderVars, inferVars>>

Arities == Binary \cup Symmetric
Assoc   == "assoc"

PosStages ==
  <<<<"const">>, <<Assoc, "APP", "COMP">>, <<Assoc, "COMP", "COMP">>>>
    \o (IF "JOIN" \in DOMAIN fun THEN <<<<Assoc, "JOIN", "JOIN">>>> ELSE <<>>)
    \o <<<<"transpose">>, <<"less">>, <<"equal">>>>

NegStages == <<<<"nless">>>>

Init ==
  \E w \in Worlds :
    /\ support = 1 .. w.count
    /\ constant = w.constant /\ fun = w.fun
    /\ rows = [LESS |-> w.LESS, NLESS |-> w.NLESS]
    /\ cols = rows
    /\ rules = <<>> /\ Resting
    /\ priority = "pos" /\ stages = PosStages
    /\ tasks = {} /\ before = 0 /\ found = FALSE
    /\ root = [x \in Ob |-> IF x \in support THEN x ELSE 0]
    /\ world = w
    /\ went = [x \in support |-> x]

Stage(name) == rules = <<>> /\ stages # <<>> /\ Head(stages)[1] = name

-----------------------------------------------------------------------------
(* Functions and merges.                                                   *)

FindIn(f, n, l, r) ==
  LET a == {b \in f[n] : b[1] = l /\ b[2] = r}
  IN  IF a = {} THEN 0 ELSE (CHOOSE b \in a : TRUE)[3]

Find(n, l, r) == FindIn(fun, n, l, r)

LeastOf(S)   == CHOOSE x \in S : \A y \in S : x <= y
Sorted(S)    == [i \in 1 .. Cardinality(S) |->
                   CHOOSE x \in S : Cardinality({y \in S : y < x}) = i - 1]

Merged(f, x, y) ==
  [z \in DOMAIN f |-> IF f[z] \in {f[x], f[y]} THEN LeastOf({f[x], f[y]}) ELSE f[z]]

Entries(n, l, r, v) ==
  IF n \in Symmetric THEN {<<l, r, v>>, <<r, l, v>>} ELSE {<<l, r, v>>}

\* insert() of a function; m holds the tables, the carrier, and whether it is
\* different from what the request found.
Insert(m, n, l, r, v) ==
  LET old == FindIn(m.fun, n, l, r)
      new == IF old = 0 THEN v ELSE LeastOf({m.root[old], m.root[v]})
  IN  IF old = v THEN m
      ELSE [fun   |-> [m.fun EXCEPT ![n] =
                         (@ \ Entries(n, l, r, old)) \cup Entries(n, l, r, new)],
            root  |-> IF old = 0 THEN m.root ELSE Merged(m.root, old, v),
            found |-> TRUE]

Moved(rel, f) == {[i \in DOMAIN p |-> f[p[i]]] : p \in rel}

\* Entries that f gives one key and two values.
Clash(f, table) ==
  {p \in table \X table : /\ f[p[1][1]] = f[p[2][1]] /\ f[p[1][2]] = f[p[2][2]]
                         /\ f[p[1][3]] # f[p[2][3]]}

Clashes(f, tables) == UNION {Clash(f, tables[n]) : n \in DOMAIN tables}

\* What merging the values of such entries makes of f.
Cascaded(f, tables) ==
  LET more(g) == LET c == Clashes(g, tables)
                     p == CHOOSE q \in c : TRUE
                 IN  IF c = {} THEN g ELSE Merged(g, p[1][3], p[2][3])
      merge[k \in 0 .. Dim] ==
        IF k = 0 THEN f ELSE CHOOSE h \in {more(g) : g \in {merge[k - 1]}} : TRUE
  IN  merge[Dim]

\* process_mergers(), where m is what was inserted and queued.
ProcessMergers(m) ==
  LET f == Cascaded(m.root, m.fun)
  IN  /\ support' = {x \in support : f[x] = x}
      /\ constant' = [c \in DOMAIN constant |->
                        IF constant[c] = 0 THEN 0 ELSE f[constant[c]]]
      /\ fun' = [n \in DOMAIN fun |-> Moved(m.fun[n], f)]
      /\ rows' = [r \in DOMAIN rows |-> Moved(rows[r], f)]
      /\ cols' = [r \in DOMAIN cols |-> Moved(cols[r], f)]
      /\ root' = [x \in Ob |-> IF x \in support /\ f[x] = x THEN x ELSE 0]
      /\ went' = [x \in DOMAIN went |-> f[went[x]]]

Here == [fun |-> fun, root |-> root, found |-> found]

-----------------------------------------------------------------------------
(* infer_const().                                                          *)

\* APP K x is constant: what is not yet known of its rows.
ConstRows(m, k) ==
  LET fill(q, x) ==
        LET c == FindIn(q.fun, "APP", k, x)
            miss(n) == Sorted({y \in support : FindIn(q.fun, n, c, y) = 0})
            app == FoldLeft(LAMBDA p, y : Insert(p, "APP", c, y, x), q, miss("APP"))
        IN  FoldLeft(LAMBDA p, y : Insert(p, "COMP", c, y, c), app, miss("COMP"))
  IN  FoldLeft(fill, m, Sorted({a[2] : a \in {b \in m.fun["APP"] : b[1] = k}}))

\* The obs that a function is defined at TOP and BOT for, with the same value.
Flat(m, n, top, bot) ==
  {x \in support : LET v == FindIn(m.fun, n, x, top)
                   IN  v # 0 /\ v = FindIn(m.fun, n, x, bot)}

\* They are APP K of that value; for COMP, of any value of theirs.
ConstFlat(m, k, top, bot) ==
  LET known == {FindIn(m.fun, "APP", k, x) : x \in support}
      app   == Sorted(Flat(m, "APP", top, bot) \ known)
      m1    == FoldLeft(LAMBDA p, x : Insert(p, "APP", k, FindIn(p.fun, "APP", x, top), x),
                        m, app)
      vals(p, x) == {a \in p.fun["APP"] : a[1] = x}
      first(p, x) == CHOOSE a \in vals(p, x) : \A b \in vals(p, x) : a[2] <= b[2]
      comp  == Sorted((Flat(m1, "COMP", top, bot) \ known) \ Range(app))
  IN  FoldLeft(LAMBDA p, x : IF vals(p, x) = {} THEN p
                             ELSE Insert(p, "APP", k, first(p, x)[3], x), m1, comp)

Const(m) ==
  LET k == constant["K"]
      top == constant["TOP"]
      bot == constant["BOT"]
  IN  IF k = 0 THEN m
      ELSE IF 0 \in {top, bot} THEN ConstRows(m, k)
      ELSE ConstFlat(ConstRows(m, k), k, top, bot)

InferConst ==
  /\ Stage("const")
  /\ LET m == Const(Here)
     IN  fun' = m.fun /\ root' = m.root /\ found' = m.found
  /\ stages' = Tail(stages)
  /\ UNCHANGED <<support, constant, relVars, loopVars, priority, tasks, before,
                 world, went>>

-----------------------------------------------------------------------------
(* Associativity and transposition.  The loops are parallel, but write to  *)
(* queues of their own until these are joined: one step.                   *)

\* Faulty: what is known already is inferred again.
EqualAgain(n, l1, r1, l2, r2) ==
  LET v1 == Find(n, l1, r1)
      v2 == Find(n, l2, r2)
  IN  IF v2 = 0 \/ (v1 # 0 /\ v2 >= v1) THEN {<<l2, r2, v1>>} ELSE {<<l1, r1, v2>>}

\* infer_equal(): the two entries should have one value, the lesser of the two
\* if both have one.
EqualTasks(n, l1, r1, l2, r2) ==
  LET v1 == Find(n, l1, r1)
      v2 == Find(n, l2, r2)
  IN  IF v1 = v2 THEN {}
      ELSE IF v2 = 0 \/ (v1 # 0 /\ v2 > v1) THEN {<<l2, r2, v1>>}
      ELSE {<<l1, r1, v2>>}

\* FUN1 x (FUN1 y z) and FUN1 (FUN2 x y) z
AssocTasks(n1, n2) ==
  UNION {EqualTasks(n1, p[1][1], p[2][3], p[1][3], p[2][2]) :
    p \in {ab \in fun[n2] \X fun[n1] :
      /\ ab[2][1] = ab[1][2]
      /\ IF n1 \in Symmetric THEN ab[2][2] < ab[1][1]
         ELSE {ab[1][1], ab[1][2]} \subseteq NonConst}}

\* APP (APP (APP C x) y) z and APP (APP x z) y
TransposeTasks(c) ==
  UNION {UNION {EqualTasks("APP", a[3], b[2], b[3], a[2]) :
           a \in Of("APP", cx[3]), b \in Of("APP", cx[2])} :
    cx \in {d \in Of("APP", c) : ~ (Find("APP", c, d[3]) = d[2] /\ d[3] < d[2])}}

Collect(T, n) ==
  /\ tasks' = T
  /\ found' = (found \/ T # {})
  /\ stages' = <<<<"process", n>>>> \o Tail(stages)
  /\ UNCHANGED <<orderVars, priority, before, root, world, went>>

InferAssoc == Stage(Assoc) /\ Collect(AssocTasks(Head(stages)[2], Head(stages)[3]), Head(stages)[2])

InferTranspose ==
  /\ Stage("transpose")
  /\ IF constant["C"] # 0 THEN Collect(TransposeTasks(constant["C"]), "APP")
     ELSE stages' = Tail(stages)
          /\ UNCHANGED <<orderVars, priority, tasks, before, found, root, world, went>>

\* process(): the queue is a hash set, in no order.
ProcessTask ==
  /\ Stage("process")
  /\ \E k \in tasks :
       /\ LET m == Insert(Here, Head(stages)[2], k[1], k[2], k[3])
          IN  fun' = m.fun /\ root' = m.root
       /\ tasks' = tasks \ {k}
  /\ UNCHANGED <<support, constant, relVars, loopVars, priority, stages, before,
                 found, world, went>>

EndProcess ==
  /\ Stage("process")
  /\ tasks = {}
  /\ ProcessMergers(Here)
  /\ stages' = Tail(stages)
  /\ UNCHANGED <<loopVars, priority, tasks, before, found, world>>

-----------------------------------------------------------------------------
(* infer_less(), infer_nless() and infer_equal().                          *)

BeginRules(name, r) ==
  /\ Stage(name)
  /\ rules' = r
  /\ before' = Cardinality(rows[IF name = "nless" THEN "NLESS" ELSE "LESS"])
  /\ stages' = <<<<"count", IF name = "nless" THEN "NLESS" ELSE "LESS">>>> \o Tail(stages)
  /\ UNCHANGED <<tableVars, relVars, next, at, left, queue, half, lock, priority,
                 tasks, found, root, world, went>>

InferLess  == BeginRules("less", LessRules)
InferNless == BeginRules("nless", NlessRules)

ApplyRules == OrderNext /\ UNCHANGED inferVars

\* Faulty: what the rules added is not counted.
CountNone ==
  /\ Stage("count")
  /\ stages' = Tail(stages)
  /\ UNCHANGED <<orderVars, priority, tasks, before, found, root, world, went>>

CountTheorems ==
  /\ Stage("count")
  /\ found' = (found \/ Cardinality(rows[Head(stages)[2]]) # before)
  /\ stages' = Tail(stages)
  /\ UNCHANGED <<orderVars, priority, tasks, before, root, world, went>>

Mutual == {p \in support \X support : /\ p[2] < p[1] /\ p[2] \in Row("LESS", p[1])
                                      /\ p[2] \in Col("LESS", p[1])}

InferEqual ==
  /\ Stage("equal")
  /\ LET f == FoldSet(LAMBDA p, g : Merged(g, p[1], p[2]), root, Mutual)
     IN  ProcessMergers([Here EXCEPT !.root = f])
  /\ found' = (found \/ support' # support)
  /\ stages' = Tail(stages)
  /\ UNCHANGED <<loopVars, priority, tasks, before, world>>

-----------------------------------------------------------------------------
\* The server answers, and the client asks again as long as there are theorems.
Answer ==
  /\ rules = <<>> /\ stages = <<>> /\ priority # "done"
  /\ found' = FALSE
  /\ priority' = CASE found -> priority
                   [] ~found /\ priority = "pos" -> "neg"
                   [] ~found /\ priority = "neg" -> "done"
  /\ stages' = CASE priority' = "pos" -> PosStages
                 [] priority' = "neg" -> NegStages
                 [] priority' = "done" -> <<>>
  /\ UNCHANGED <<orderVars, tasks, before, root, world, went>>

Done == priority = "done" /\ UNCHANGED vars

Next ==
  \/ InferConst \/ InferAssoc \/ InferTranspose \/ ProcessTask \/ EndProcess
  \/ InferLess \/ InferNless \/ ApplyRules \/ CountTheorems \/ InferEqual
  \/ Answer \/ Done

Spec == Init /\ [][Next]_vars

\* The server and its threads go on running: weak fairness of Next, which is
\* enabled until normalize() returns.
FairSpec == Spec /\ ([]<>(priority = "done") \/ []<><<TRUE>>_vars)

-----------------------------------------------------------------------------
(* What the rules can tell, in whatever order: the schemas that the source *)
(* writes over each of its functions, without filters and shortcuts, are   *)
(* applied to a world until nothing is new.                                *)

\* Two keys have one value.
Equation(f, n, l1, r1, l2, r2) ==
  {<<l2, r2, a[3]>> : a \in {b \in f[n] : b[1] = l1 /\ b[2] = r1}}
    \cup {<<l1, r1, a[3]>> : a \in {b \in f[n] : b[1] = l2 /\ b[2] = r2}}

AssocFacts(f, n1, n2) ==
  UNION {Equation(f, n1, p[1][1], p[2][3], p[1][3], p[2][2])
         : p \in {ab \in f[n2] \X f[n1] : ab[2][1] = ab[1][2]}}

AppFacts(f, S, k, top, bot, c) ==
  LET val(n, x, y) == FindIn(f, n, x, y)
      flat(n) == {x \in S : val(n, x, top) # 0 /\ val(n, x, top) = val(n, x, bot)}
  IN  UNION {{<<a[3], y, a[2]>> : y \in S} : a \in {b \in f["APP"] : b[1] = k}}
      \cup (IF 0 \in {k, top, bot} THEN {}
            ELSE {<<k, a[3], a[1]>> :
                    a \in {b \in f["APP"] : b[1] \in flat("APP") \cup flat("COMP")}})
      \cup AssocFacts(f, "APP", "COMP")
      \cup UNION {Equation(f, "APP", p[2][3], p[3][2], p[3][3], p[2][2])
                  : p \in {q \in f["APP"] \X f["APP"] \X f["APP"] :
                            q[1][1] = c /\ q[2][1] = q[1][3] /\ q[3][1] = q[1][2]}}

CompFacts(f, S, k) ==
  UNION {{<<a[3], y, a[3]>> : y \in S} : a \in {b \in f["APP"] : b[1] = k}}
    \cup AssocFacts(f, "COMP", "COMP")

MoreFunctions(f, S, c) ==
  [n \in DOMAIN f |-> f[n] \cup
    CASE n = "APP"  -> AppFacts(f, S, c["K"], c["TOP"], c["BOT"], c["C"])
      [] n = "COMP" -> CompFacts(f, S, c["K"])
      [] n = "JOIN" -> LET J == AssocFacts(f, "JOIN", "JOIN")
                       IN  J \cup {<<a[2], a[1], a[3]>> : a \in J}
      [] n = "RAND" -> {}]

MoreLess(f, L) ==
  LET below(x, y) == <<x, y>> \in L
  IN  L \cup {<<p[1][1], p[2][2]>> : p \in {q \in L \X L : q[1][2] = q[2][1]}}
        \cup UNION {{<<p[1][3], p[2][3]>> : p \in {q \in f[n] \X f[n] :
                       below(q[1][1], q[2][1]) /\ below(q[1][2], q[2][2])}}
                    : n \in DOMAIN f}
        \cup UNION {{<<a[3], p[2]>> : p \in {q \in L : q[1] = a[1] /\ below(a[2], q[2])}}
                    : a \in UNION {f[n] : n \in DOMAIN f \cap Symmetric}}
        \cup (IF "JOIN" \in DOMAIN f THEN {<<a[1], a[3]>> : a \in f["JOIN"]} ELSE {})
        \cup UNION {{<<p[1], a[3]>> : p \in {q \in L : q[2] = a[1] /\ below(q[1], a[2])}}
                    : a \in IF "RAND" \in DOMAIN f THEN f["RAND"] ELSE {}}

MoreNless(f, S, L, N) ==
  LET told(x, y) == <<x, y>> \in N
  IN  N \cup {p \in S \X S :
               \/ \E z \in S : \/ told(p[1], z) /\ <<p[2], z>> \in L
                               \/ told(z, p[2]) /\ <<z, p[1]>> \in L
               \/ \E n \in DOMAIN f : \E a, b \in f[n] :
                    /\ told(a[3], b[3])
                    /\ \/ a[2] = b[2] /\ <<a[1], b[1]>> = p
                       \/ a[1] = b[1] /\ <<a[2], b[2]>> = p}

\* One round; q maps the obs of the world to their representatives.
Round(w, c) ==
  LET S   == {c.q[x] : x \in 1 .. w.count}
      con == [n \in DOMAIN w.constant |->
                IF w.constant[n] = 0 THEN 0 ELSE c.q[w.constant[n]]]
      f   == MoreFunctions(c.fun, S, con)
      L   == MoreLess(c.fun, c.less)
      N   == MoreNless(c.fun, S, c.less, c.nless)
      eq  == FoldSet(LAMBDA p, g : Merged(g, p[1], p[2]), c.q,
                     {p \in L : p[2] < p[1] /\ <<p[2], p[1]>> \in L})
      q   == Cascaded(eq, f)
      new == [q |-> q, fun |-> [n \in DOMAIN f |-> Moved(f[n], q)],
              less |-> Moved(L, q), nless |-> Moved(N, q), known |-> FALSE]
  IN  IF new = c THEN [c EXCEPT !.known = TRUE] ELSE new

Rounds == 12    \* bound: no world needs more

Closure(w) ==
  LET more(c) == CHOOSE e \in {IF d.known THEN d ELSE Round(w, d) : d \in {c}} : TRUE
      round[k \in 0 .. Rounds] ==
        IF k = 0 THEN [q |-> [x \in 1 .. w.count |-> x], fun |-> w.fun, less |-> w.LESS,
                       nless |-> w.NLESS, known |-> FALSE]
        ELSE more(round[k - 1])
  IN  round[Rounds]

Closures == [w \in Worlds |-> Closure(w)]

ASSUME InferAssumption == \A w \in Worlds : Closures[w].known

-----------------------------------------------------------------------------
(* Properties.                                                             *)

Same(n, l1, r1, l2, r2) == Find(n, l1, r1) = Find(n, l2, r2)
Below(x, y) == <<x, y>> \in rows["LESS"]

\* When normalize() returns, the rules have nothing to add to the structure, as
\* far as the loops reach: the functions of constants are filled in, associative
\* and transposed, an order relates them monotonely, and no two obs are below
\* each other, although any of the passes may miss what others find meanwhile
\* and the monotone ones are marked incomplete.
Saturated ==
  priority = "done" =>
    /\ rows = cols
    /\ \A n \in DOMAIN fun : Clash([x \in Ob |-> x], fun[n]) = {}
    /\ \A a \in fun["APP"], y \in support :
         a[1] = constant["K"] => Find("APP", a[3], y) = a[2] /\ Find("COMP", a[3], y) = a[3]
    /\ \A n \in {"APP", "COMP"} : \A a \in fun["COMP"], b \in fun[n] :
         b[1] = a[2] /\ {a[1], a[2]} \subseteq NonConst => Same(n, a[1], b[3], a[3], b[2])
    /\ \A a, b, d \in fun["APP"] :
         a[1] = constant["C"] /\ b[1] = a[3] /\ d[1] = a[2] =>
           Same("APP", b[3], d[2], d[3], b[2])
    /\ \A x, y, z \in support : Below(x, z) /\ Below(z, y) => Below(x, y)
    /\ \A x, y \in support : Below(x, y) /\ Below(y, x) => x = y
    /\ \A n \in DOMAIN fun \ {"JOIN"} : \A a, b \in fun[n] :
         Below(a[1], b[1]) /\ Below(a[2], b[2]) => Below(a[3], b[3])
    /\ \A n \in DOMAIN fun \cap Symmetric : \A a \in fun[n], z \in support :
         {<<a[1], z>>, <<a[2], z>>} \subseteq rows["LESS"] =>
           Below(a[1], a[2]) \/ Below(a[2], a[1]) \/ Below(a[3], z)
    /\ \A x, y, z \in support :
         <<x, z>> \in rows["NLESS"] /\ Below(y, z) => <<x, y>> \in rows["NLESS"]

\* normalize() returns: the client asks again only when something is new.
Normalizes == <>(priority = "done")

=============================================================================
