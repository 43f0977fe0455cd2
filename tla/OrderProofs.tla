---------------------------- MODULE OrderProofs ----------------------------
(***************************************************************************)
(* Proofs about the module Order: the invariant of the parallel loops, and *)
(* that the rules are sound for every order that the structure may stand   *)
(* for, whatever the threads see of each other's theorems.                 *)
(***************************************************************************)
EXTENDS Order, TLAPS

-----------------------------------------------------------------------------
(* Types of what the rules derive.                                         *)

\* An entry of a table is a triple of obs.
LEMMA EntryTyped ==
  ASSUME Tables, NEW n \in DOMAIN fun, NEW a \in fun[n]
  PROVE  a[1] \in Ob /\ a[2] \in Ob /\ a[3] \in Ob
  BY DEF Tables

\* The rules are typed.
LEMMA TheoremsTyped ==
  ASSUME Tables, rules # <<>>, Head(rules) \in Applicable, NEW x \in Ob, NEW y \in Ob
  PROVE  Theorems(x, y) \subseteq Pair
<1>1. TransitiveAt(x, y) \subseteq Pair /\ NlessAt(x, y) \subseteq Pair
  BY DEF TransitiveAt, NlessAt, Pair
<1>2. ASSUME NEW n \in DOMAIN fun PROVE MonotoneAt(n, x, y) \subseteq Pair
  <2> SUFFICES ASSUME NEW p \in MonotoneAt(n, x, y) PROVE p \in Pair
    OBVIOUS
  <2>1. PICK q \in Of(n, x) \X Of(n, y) : p = <<q[1][3], q[2][3]>>
    BY DEF MonotoneAt, Values
  <2>2. q[1] \in fun[n] /\ q[2] \in fun[n]
    BY DEF Of
  <2>3. q[1][3] \in Ob /\ q[2][3] \in Ob
    BY <2>2, EntryTyped
  <2> QED BY <2>1, <2>3 DEF Pair
<1>3. ASSUME "JOIN" \in DOMAIN fun PROVE JoinAt(x, y) \subseteq Pair
  <2> SUFFICES ASSUME NEW p \in JoinAt(x, y) PROVE p \in Pair
    OBVIOUS
  <2>1. PICK a \in fun["JOIN"] :
          p \in {<<x, a[3]>>, <<y, a[3]>>} \cup
                {<<a[3], b[3]>> : b \in {c \in fun["JOIN"] : JoinPremise(x, y, c)}}
    BY DEF JoinAt, Of
  <2>2. a[3] \in Ob
    BY <1>3, EntryTyped
  <2>3. \A b \in fun["JOIN"] : b[3] \in Ob
    BY <1>3, EntryTyped
  <2> QED BY <2>1, <2>2, <2>3 DEF Pair
<1>4. ASSUME NEW n \in DOMAIN fun
      PROVE  ConvexAt(n, x, y) \subseteq Pair /\ ConcaveAt(n, x, y) \subseteq Pair
  <2>1. \A a \in Of(n, x) : a[3] \in Ob
    BY EntryTyped DEF Of
  <2>2. Row("LESS", x) \subseteq Ob /\ Col("LESS", x) \subseteq Ob
    BY DEF Row, Col
  <2>3. ASSUME NEW p \in ConvexAt(n, x, y) PROVE p \in Pair
    <3>1. PICK a \in Of(n, x) : p \in {a[3]} \X Row("LESS", x)
      BY DEF ConvexAt
    <3> QED BY <2>1, <2>2, <3>1 DEF Pair
  <2>4. ASSUME NEW p \in ConcaveAt(n, x, y) PROVE p \in Pair
    <3>1. PICK a \in Of(n, x) : p \in Col("LESS", x) \X {a[3]}
      BY DEF ConcaveAt
    <3> QED BY <2>1, <2>2, <3>1 DEF Pair
  <2> QED BY <2>3, <2>4
<1>5. CASE Rule = "transitive" \/ Rule = "nless"
  BY <1>1, <1>5 DEF Theorems, Binary
<1>6. CASE Rule \in DOMAIN fun /\ Rule \in Binary \cup {"RAND"}
  BY <1>2, <1>6 DEF Theorems, Binary
<1>7. CASE Rule \in DOMAIN fun /\ Rule = "JOIN"
  BY <1>3, <1>7 DEF Theorems, Binary
<1>8. CASE Rule = "convex" /\ "JOIN" \in DOMAIN fun
  BY <1>4, <1>8 DEF Theorems, Binary
<1>9. CASE Rule = "linear" /\ "RAND" \in DOMAIN fun
  BY <1>4, <1>9 DEF Theorems, Binary
<1> QED
  BY <1>5, <1>6, <1>7, <1>8, <1>9 DEF Applicable, Rule, Tables, Binary, Symmetric

\* What a loop visits are obs.
LEMMA ItemsTyped ==
  ASSUME Tables, rules # <<>>, Head(rules) \in Applicable, NEW x \in Ob
  PROVE  /\ Items(x) \subseteq Ob
         /\ Rule \in Binary \cup {"RAND"} => \A y \in Items(x) : <<x, y>> \in rows["LESS"]
<1>1. Row("LESS", x) \subseteq Ob /\ Undecided(x) \subseteq Ob
  BY DEF Row, Undecided, Tables
<1>2. \A n \in DOMAIN fun : Args(n, x) \subseteq Ob
  BY EntryTyped DEF Args, Of
<1>3. CASE Rule \in {"transitive", "nless"}
  BY <1>1, <1>3 DEF Items, Binary
<1>4. CASE Rule \in Binary
  BY <1>1, <1>4 DEF Items, Binary, Row
<1>5. CASE Rule = "RAND"
  BY <1>1, <1>5 DEF Items, Binary, Row
<1>6. CASE Rule \in {"JOIN", "convex"}
  <2>1. "JOIN" \in DOMAIN fun
    BY <1>6 DEF Applicable, Rule, Tables, Binary, Symmetric
  <2> QED BY <1>2, <1>6, <2>1 DEF Items, Binary
<1>7. CASE Rule = "linear"
  <2>1. "RAND" \in DOMAIN fun
    BY <1>7 DEF Applicable, Rule, Tables, Binary, Symmetric
  <2> QED BY <1>2, <1>7, <2>1 DEF Items, Binary
<1> QED
  BY <1>3, <1>4, <1>5, <1>6, <1>7 DEF Applicable, Rule, Tables, Binary, Symmetric

-----------------------------------------------------------------------------
(* The loops.                                                              *)

\* The sequences of rules are applicable.
LEMMA RulesApplicable ==
  ASSUME Tables
  PROVE  LessRules \in Seq(Applicable) /\ NlessRules \in Seq(Applicable)
<1>1. {"transitive", "nless", "APP", "COMP"} \subseteq Applicable
  BY DEF Applicable, Tables, Binary
<1>2. <<"transitive", "APP", "COMP">> \in Seq(Applicable) /\ <<"nless">> \in Seq(Applicable)
  BY <1>1
<1> DEFINE joins == IF "JOIN" \in DOMAIN fun THEN <<"JOIN", "convex">> ELSE <<>>
           rands == IF "RAND" \in DOMAIN fun THEN <<"RAND", "linear">> ELSE <<>>
<1>3. joins \in Seq(Applicable)
  <2>1. CASE "JOIN" \in DOMAIN fun
    <3>1. {"JOIN", "convex"} \subseteq Applicable
      BY <2>1 DEF Applicable
    <3>2. <<"JOIN", "convex">> \in Seq(Applicable)
      BY <3>1
    <3> QED BY <2>1, <3>2
  <2> QED BY <2>1
<1>4. rands \in Seq(Applicable)
  <2>1. CASE "RAND" \in DOMAIN fun
    <3>1. {"RAND", "linear"} \subseteq Applicable
      BY <2>1 DEF Applicable
    <3>2. <<"RAND", "linear">> \in Seq(Applicable)
      BY <3>1
    <3> QED BY <2>1, <3>2
  <2> QED BY <2>1
<1> HIDE DEF joins, rands
<1>5. (<<"transitive", "APP", "COMP">> \o joins) \o rands \in Seq(Applicable)
  BY <1>2, <1>3, <1>4
<1>6. LessRules = (<<"transitive", "APP", "COMP">> \o joins) \o rands
  BY DEF LessRules, joins, rands
<1> QED BY <1>2, <1>5, <1>6 DEF NlessRules

\* Both infer_less() and infer_nless() begin at rest.
LEMMA LoopsInit == OrderInit => LoopsOK
<1> SUFFICES ASSUME OrderInit PROVE LoopsOK
  OBVIOUS
<1>1. Tables
  <2>1. PICK S \in SUBSET Symmetric : fun \in [Binary \cup S -> SUBSET (Ob \X Ob \X Ob)]
    BY DEF OrderInit
  <2> QED BY <2>1 DEF Tables, OrderInit
<1>2. rules \in Seq(Applicable)
  BY <1>1, RulesApplicable DEF OrderInit
<1> QED
  BY <1>1, <1>2, OrderAssumption DEF LoopsOK, ThreadOK, OrderInit, Resting

\* The tables stay what they were but for LESS and NLESS.
LEMMA SameTables ==
  ASSUME LoopsOK, UNCHANGED tableVars,
         rows' \in [{"LESS", "NLESS"} -> SUBSET Pair],
         cols' \in [{"LESS", "NLESS"} -> SUBSET Pair]
  PROVE  Tables' /\ Applicable' = Applicable
  BY DEF LoopsOK, Tables, Applicable, tableVars

\* A thread takes an ob: what it has to visit was just read from its row.
LEMMA TakeObOK ==
  ASSUME LoopsOK, NEW t \in Thread, TakeOb(t)
  PROVE  LoopsOK'
<1> USE DEF TakeOb, tableVars, relVars
<1>1. Tables' /\ Applicable' = Applicable
  BY SameTables DEF LoopsOK, Tables
<1>2. CASE next \notin support
  BY <1>1, <1>2 DEF LoopsOK, ThreadOK
<1>3. CASE next \in support
  <2>1. next \in Ob /\ next \in 0 .. Dim /\ next # 0 /\ next' \in Nat
    BY <1>3, OrderAssumption DEF LoopsOK, Tables, Ob
  <2>2. Head(rules) \in Applicable
    BY DEF LoopsOK
  <2>3. /\ Items(next) \subseteq Ob
        /\ Rule \in Binary \cup {"RAND"} => \A y \in Items(next) : <<next, y>> \in rows["LESS"]
    BY <2>1, <2>2, ItemsTyped DEF LoopsOK
  <2>4. at' = [at EXCEPT ![t] = next] /\ left' = [left EXCEPT ![t] = Items(next)]
    BY <1>3
  <2>5. at' \in [Thread -> 0 .. Dim] /\ left' \in [Thread -> SUBSET Ob]
    BY <2>1, <2>3, <2>4 DEF LoopsOK
  <2>6. lock \in Thread => at'[lock] # 0 /\ left'[lock] = {}
    BY <2>4 DEF LoopsOK
  <2>7. ASSUME NEW u \in Thread PROVE ThreadOK(u)'
    <3>1. CASE u = t
      <4>1. at'[u] = next /\ left'[u] = Items(next)
        BY <2>4, <3>1 DEF LoopsOK
      <4> QED BY <2>1, <2>3, <4>1 DEF ThreadOK, Rule
    <3>2. CASE u # t
      BY <2>4, <3>2 DEF LoopsOK, ThreadOK
    <3> QED BY <3>1, <3>2
  <2> QED BY <1>1, <2>1, <2>5, <2>6, <2>7 DEF LoopsOK
<1> QED BY <1>2, <1>3

LEMMA LookOK ==
  ASSUME LoopsOK, NEW t \in Thread, Look(t)
  PROVE  LoopsOK'
<1> USE DEF Look, tableVars, relVars
<1>1. Tables' /\ Applicable' = Applicable
  BY SameTables DEF LoopsOK, Tables
<1>2. PICK y \in left[t] :
        /\ queue' = [queue EXCEPT ![t] = @ \cup Theorems(at[t], y)]
        /\ left' = [left EXCEPT ![t] = @ \ {y}]
  OBVIOUS
<1>3. at[t] \in Ob /\ y \in Ob /\ rules # <<>> /\ Head(rules) \in Applicable
  BY <1>2, OrderAssumption DEF LoopsOK, ThreadOK, Ob
<1>4. Theorems(at[t], y) \subseteq Pair
  BY <1>3, TheoremsTyped DEF LoopsOK
<1> QED BY <1>1, <1>2, <1>4 DEF LoopsOK, ThreadOK

LEMMA FlushBeginOK ==
  ASSUME LoopsOK, NEW t \in Thread, FlushBegin(t)
  PROVE  LoopsOK'
<1> USE DEF FlushBegin, tableVars, relVars
<1>1. Tables' /\ Applicable' = Applicable
  BY SameTables DEF LoopsOK, Tables
<1>2. CASE queue[t] = {}
  <2>1. at' = [at EXCEPT ![t] = 0] /\ at' \in [Thread -> 0 .. Dim]
    BY <1>2, OrderAssumption DEF LoopsOK
  <2>2. ASSUME NEW u \in Thread PROVE ThreadOK(u)'
    BY <1>2, <2>1 DEF LoopsOK, ThreadOK
  <2>3. lock' \in Thread => at'[lock'] # 0 /\ left'[lock'] = {}
    BY <1>2, <2>1 DEF LoopsOK
  <2> QED BY <1>1, <1>2, <2>1, <2>2, <2>3 DEF LoopsOK
<1>3. CASE queue[t] # {}
  BY <1>1, <1>3, OrderAssumption DEF LoopsOK, ThreadOK
<1> QED BY <1>2, <1>3

LEMMA FlushRowOK ==
  ASSUME LoopsOK, NEW t \in Thread, FlushRow(t)
  PROVE  LoopsOK'
<1> USE DEF FlushRow, tableVars
<1>1. PICK S : /\ S \subseteq queue[t] /\ S # {}
               /\ half' = S
               /\ queue' = [queue EXCEPT ![t] = @ \ S]
               /\ rows' = [rows EXCEPT ![Rel] = @ \cup S]
  BY DEF FlushRow
<1>2. S \subseteq Pair /\ Rel \in {"LESS", "NLESS"}
  BY <1>1 DEF LoopsOK, Rel
<1>3. rows' \in [{"LESS", "NLESS"} -> SUBSET Pair] /\ rows["LESS"] \subseteq rows'["LESS"]
  BY <1>1, <1>2 DEF LoopsOK, Tables
<1>4. Tables' /\ Applicable' = Applicable
  BY <1>3, SameTables DEF LoopsOK, Tables
<1>5. half' \subseteq Pair /\ queue' \in [Thread -> SUBSET Pair] /\ lock' # NoThread
  BY <1>1, <1>2, OrderAssumption DEF LoopsOK, ThreadOK
<1>6. \A u \in Thread : queue'[u] \subseteq queue[u]
  BY <1>1 DEF LoopsOK, ThreadOK
<1> QED BY <1>3, <1>4, <1>5, <1>6 DEF LoopsOK, ThreadOK

LEMMA FlushColOK ==
  ASSUME LoopsOK, NEW t \in Thread, FlushCol(t)
  PROVE  LoopsOK'
<1> USE DEF FlushCol, tableVars
<1>1. cols' \in [{"LESS", "NLESS"} -> SUBSET Pair]
  BY DEF LoopsOK, Tables, Rel
<1>2. Tables' /\ Applicable' = Applicable
  BY <1>1, SameTables DEF LoopsOK, Tables
<1>3. CASE queue[t] = {}
  BY <1>2, <1>3, OrderAssumption, SMTT(30) DEF LoopsOK, ThreadOK
<1>4. CASE queue[t] # {}
  BY <1>2, <1>4, OrderAssumption DEF LoopsOK, ThreadOK
<1> QED BY <1>3, <1>4

\* When the threads are joined nothing of the rule is left.
LEMMA EndRuleOK ==
  ASSUME LoopsOK, EndRule
  PROVE  LoopsOK' /\ half = {} /\ \A t \in Thread : queue[t] = {}
<1> USE DEF EndRule, Joined, tableVars, relVars
<1>1. Tables' /\ Applicable' = Applicable
  BY SameTables DEF LoopsOK, Tables
<1>2. rules' \in Seq(Applicable')
  BY <1>1 DEF LoopsOK, ThreadOK
<1>3. half = {} /\ \A t \in Thread : queue[t] = {}
  BY DEF LoopsOK, ThreadOK
<1>4. next' \in Nat
  OBVIOUS
<1> QED BY <1>1, <1>2, <1>3, <1>4 DEF LoopsOK, ThreadOK

\* Every step of the loops preserves their invariant.
LEMMA LoopsNext == LoopsOK /\ [OrderNext]_orderVars => LoopsOK'
<1> SUFFICES ASSUME LoopsOK, [OrderNext]_orderVars PROVE LoopsOK'
  OBVIOUS
<1>1. CASE EndRule
  BY <1>1, EndRuleOK
<1>2. ASSUME NEW t \in Thread, ThreadStep(t) PROVE LoopsOK'
  BY <1>2, TakeObOK, LookOK, FlushBeginOK, FlushRowOK, FlushColOK DEF ThreadStep
<1>3. CASE UNCHANGED orderVars
  BY <1>3 DEF orderVars, tableVars, relVars, loopVars, LoopsOK, ThreadOK, Tables, Applicable
<1> QED BY <1>1, <1>2, <1>3 DEF OrderNext

\* The loops of infer_less() and infer_nless() keep to their mutex, and queues
\* to their obs, for any structure and any number of threads.
THEOREM LoopsHold == OrderSpec => []LoopsOK
  BY LoopsInit, LoopsNext, PTL DEF OrderSpec

-----------------------------------------------------------------------------
(* The rules are sound.  `leq' is an order that the structure stands for,  *)
(* LESS a part of it and NLESS of its complement.                          *)

\* What Models() says of one order, as facts about its pairs.
LEMMA OrderFacts ==
  ASSUME NEW leq, Models(leq)
  PROVE  /\ \A x \in Ob : <<x, x>> \in leq
         /\ \A x, y, z \in Ob : <<x, y>> \in leq /\ <<y, z>> \in leq => <<x, z>> \in leq
  BY DEF Models

\* Functions are monotone.
LEMMA MonotoneFacts ==
  ASSUME NEW leq, Models(leq), NEW n \in DOMAIN fun, NEW a \in fun[n], NEW b \in fun[n],
         <<a[1], b[1]>> \in leq,
         <<a[2], b[2]>> \in leq \/ (n \in Binary /\ ~({a[1], b[1]} \subseteq NonConst))
  PROVE  <<a[3], b[3]>> \in leq
  BY DEF Models

\* LESS-transitive.
LEMMA TransitiveSound ==
  ASSUME NEW leq, Models(leq), rows["LESS"] \cup cols["LESS"] \subseteq leq,
         NEW x \in Ob, NEW y \in Ob
  PROVE  TransitiveAt(x, y) \subseteq leq
<1>1. CASE Row("LESS", x) \cap Col("LESS", y) = {}
  BY <1>1 DEF TransitiveAt
<1>2. CASE Row("LESS", x) \cap Col("LESS", y) # {}
  <2>1. PICK z \in Ob : <<x, z>> \in rows["LESS"] /\ <<z, y>> \in cols["LESS"]
    BY <1>2 DEF Row, Col
  <2>2. <<x, y>> \in leq
    BY <2>1, OrderFacts
  <2> QED BY <2>2 DEF TransitiveAt
<1> QED BY <1>1, <1>2

\* LESS-monotone, of binary functions and of RAND: the shortcuts for constant
\* functions are sound too.
LEMMA MonotoneSound ==
  ASSUME Tables, NEW leq, Models(leq), rows["LESS"] \subseteq leq,
         NEW n \in DOMAIN fun, NEW f, NEW g, <<f, g>> \in leq
  PROVE  MonotoneAt(n, f, g) \subseteq leq
<1> SUFFICES ASSUME NEW p \in MonotoneAt(n, f, g) PROVE p \in leq
  OBVIOUS
<1>1. PICK q \in Of(n, f) \X Of(n, g) :
        /\ p = <<q[1][3], q[2][3]>>
        /\ IF n \in Binary THEN BinaryPremise(n, f, g, q[1], q[2])
           ELSE RandPremise(n, f, g, q[1], q[2])
  BY DEF MonotoneAt, Values
<1> DEFINE a == q[1]
           b == q[2]
<1>2. a \in fun[n] /\ b \in fun[n] /\ a[1] = f /\ b[1] = g
  BY DEF Of
<1>3. a[2] \in Ob /\ b[2] \in Ob
  BY <1>2, EntryTyped
<1>4. a[2] = b[2] => <<a[2], b[2]>> \in leq
  BY <1>3, OrderFacts
<1>5. <<a[2], b[2]>> \in leq \/ (n \in Binary /\ ~({a[1], b[1]} \subseteq NonConst))
  <2>1. CASE n \in Binary
    <3>1. CASE f \in NonConst /\ g \in NonConst
      BY <1>1, <1>4, <2>1, <3>1 DEF BinaryPremise
    <3>2. CASE f \notin NonConst \/ g \notin NonConst
      BY <1>2, <2>1, <3>2
    <3> QED BY <3>1, <3>2
  <2>2. CASE n \notin Binary
    BY <1>1, <1>4, <2>2 DEF RandPremise
  <2> QED BY <2>1, <2>2
<1> HIDE DEF a, b
<1>6. <<a[3], b[3]>> \in leq
  BY <1>2, <1>5, MonotoneFacts
<1> QED BY <1>1, <1>6 DEF a, b

\* LESS-JOIN-monotone.
LEMMA JoinSound ==
  ASSUME Tables, NEW leq, Models(leq), rows["LESS"] \subseteq leq,
         "JOIN" \in DOMAIN fun, NEW f \in Ob, NEW x \in Ob
  PROVE  JoinAt(f, x) \subseteq leq
<1> SUFFICES ASSUME NEW p \in JoinAt(f, x) PROVE p \in leq
  OBVIOUS
<1>1. PICK a \in fun["JOIN"] :
        /\ a[1] = f /\ a[2] = x
        /\ p \in {<<f, a[3]>>, <<x, a[3]>>}
                 \cup {<<a[3], b[3]>> : b \in {c \in fun["JOIN"] : JoinPremise(f, x, c)}}
  BY DEF JoinAt, Of
<1>2. <<a[1], a[3]>> \in leq /\ <<a[2], a[3]>> \in leq
  BY DEF Models
<1>3. CASE p \in {<<f, a[3]>>, <<x, a[3]>>}
  BY <1>1, <1>2, <1>3
<1>4. CASE \E b \in fun["JOIN"] : JoinPremise(f, x, b) /\ p = <<a[3], b[3]>>
  <2>1. PICK b \in fun["JOIN"] : JoinPremise(f, x, b) /\ p = <<a[3], b[3]>>
    BY <1>4
  <2>2. <<a[1], b[1]>> \in leq /\ <<a[2], b[2]>> \in leq
    BY <1>1, <2>1, OrderFacts DEF JoinPremise
  <2>3. <<a[3], b[3]>> \in leq
    BY <2>2, MonotoneFacts
  <2> QED BY <2>1, <2>3
<1> QED BY <1>1, <1>3, <1>4

\* LESS-JOIN-convex and the first half of LESS-RAND-linear.
LEMMA ConvexSound ==
  ASSUME Tables, NEW leq, Models(leq), rows["LESS"] \subseteq leq,
         NEW n \in DOMAIN fun \cap Symmetric, NEW x \in Ob, NEW y \in Ob
  PROVE  ConvexAt(n, x, y) \subseteq leq
<1> SUFFICES ASSUME NEW p \in ConvexAt(n, x, y) PROVE p \in leq
  OBVIOUS
<1>1. PICK a \in fun[n] : /\ a[1] = x /\ a[2] = y
                          /\ p \in {a[3]} \X (Row("LESS", x) \cap Row("LESS", y))
  BY DEF ConvexAt, Of
<1>2. PICK z \in Ob : p = <<a[3], z>> /\ <<x, z>> \in leq /\ <<y, z>> \in leq
  BY <1>1 DEF Row
<1> QED BY <1>1, <1>2 DEF Models

\* The second half of LESS-RAND-linear.
LEMMA ConcaveSound ==
  ASSUME Tables, NEW leq, Models(leq), cols["LESS"] \subseteq leq,
         "RAND" \in DOMAIN fun, NEW x \in Ob, NEW y \in Ob
  PROVE  ConcaveAt("RAND", x, y) \subseteq leq
<1> SUFFICES ASSUME NEW p \in ConcaveAt("RAND", x, y) PROVE p \in leq
  OBVIOUS
<1>1. PICK a \in fun["RAND"] : /\ a[1] = x /\ a[2] = y
                               /\ p \in (Col("LESS", x) \cap Col("LESS", y)) \X {a[3]}
  BY DEF ConcaveAt, Of
<1>2. PICK z \in Ob : p = <<z, a[3]>> /\ <<z, x>> \in leq /\ <<z, y>> \in leq
  BY <1>1 DEF Col
<1> QED BY <1>1, <1>2 DEF Models

\* The rules of NLESS: were x below y, so would be what NLESS tells apart.
LEMMA NlessSound ==
  ASSUME Tables, NEW leq, Models(leq), rows["LESS"] \cup cols["LESS"] \subseteq leq,
         (rows["NLESS"] \cup cols["NLESS"]) \cap leq = {},
         NEW x \in Ob, NEW y \in Ob, <<x, y>> \in leq
  PROVE  NlessAt(x, y) = {}
<1>1. ~NlessTransitive(x, y)
  <2>1. ASSUME Row("NLESS", x) \cap Row("LESS", y) # {} PROVE FALSE
    <3>1. PICK z \in Ob : <<x, z>> \in rows["NLESS"] /\ <<y, z>> \in rows["LESS"]
      BY <2>1 DEF Row
    <3>2. <<x, z>> \in leq
      BY <3>1, OrderFacts
    <3> QED BY <3>1, <3>2
  <2>2. ASSUME Col("LESS", x) \cap Col("NLESS", y) # {} PROVE FALSE
    <3>1. PICK z \in Ob : <<z, x>> \in cols["LESS"] /\ <<z, y>> \in cols["NLESS"]
      BY <2>2 DEF Col
    <3>2. <<z, y>> \in leq
      BY <3>1, OrderFacts
    <3> QED BY <3>1, <3>2
  <2> QED BY <2>1, <2>2 DEF NlessTransitive
<1>2. ASSUME NEW n \in DOMAIN fun, NEW a \in fun[n], NEW b \in fun[n]
      PROVE  ~NlessPremise(n, x, y, a, b)
  <2>1. a[1] \in Ob /\ a[2] \in Ob /\ b[1] \in Ob /\ b[2] \in Ob
    BY <1>2, EntryTyped
  <2>2. (a[1] = b[1] => <<a[1], b[1]>> \in leq) /\ (a[2] = b[2] => <<a[2], b[2]>> \in leq)
    BY <2>1, OrderFacts
  <2>3. CASE /\ <<a[1], b[1]>> \in leq
             /\ <<a[2], b[2]>> \in leq \/ (n \in Binary /\ ~({a[1], b[1]} \subseteq NonConst))
    <3>1. <<a[3], b[3]>> \in leq
      BY <1>2, <2>3, MonotoneFacts
    <3>2. <<a[3], b[3]>> \notin rows["NLESS"] /\ <<a[3], b[3]>> \notin cols["NLESS"]
      BY <3>1
    <3> QED BY <3>2 DEF NlessPremise
  <2>4. CASE ~(/\ <<a[1], b[1]>> \in leq
               /\ <<a[2], b[2]>> \in leq \/ (n \in Binary /\ ~({a[1], b[1]} \subseteq NonConst)))
    BY <2>2, <2>4 DEF NlessPremise
  <2> QED BY <2>3, <2>4
<1> QED BY <1>1, <1>2 DEF NlessAt

\* What a rule derives belongs to the order, or for NLESS does not.
LEMMA TheoremsSound ==
  ASSUME LoopsOK, NEW leq, Models(leq), Agrees(leq),
         NEW t \in Thread, at[t] # 0, NEW y \in left[t],
         NEW p \in Theorems(at[t], y)
  PROVE  (Rule = "nless") <=> (p \notin leq)
<1> DEFINE x == at[t]
<1>1. x \in Ob /\ y \in Ob /\ rules # <<>> /\ Rule \in Applicable /\ Tables
  BY OrderAssumption DEF LoopsOK, ThreadOK, Ob, Rule
<1>2. Rule \in Binary \cup {"RAND"} => <<x, y>> \in leq
  BY DEF LoopsOK, ThreadOK, Agrees, Rule
<1>3. /\ rows["LESS"] \cup cols["LESS"] \subseteq leq
      /\ (rows["NLESS"] \cup cols["NLESS"]) \cap leq = {}
  BY DEF Agrees
<1> HIDE DEF x
<1>4. p \in Theorems(x, y)
  BY DEF x
<1>5. CASE Rule = "nless"
  <2>1. p \in NlessAt(x, y) /\ p = <<x, y>>
    BY <1>4, <1>5 DEF Theorems, Binary, NlessAt
  <2>2. p \notin leq
    BY <1>1, <1>3, <2>1, NlessSound
  <2> QED BY <1>5, <2>2
<1>6. CASE Rule = "transitive"
  <2>1. p \in TransitiveAt(x, y)
    BY <1>4, <1>6 DEF Theorems, Binary
  <2> QED BY <1>1, <1>3, <1>6, <2>1, TransitiveSound
<1>7. CASE Rule \in Binary \cup {"RAND"}
  <2>1. Rule \in DOMAIN fun /\ Rule # "nless"
    BY <1>1, <1>7 DEF Applicable, Binary
  <2>2. p \in MonotoneAt(Rule, x, y)
    BY <1>4, <1>7 DEF Theorems, Binary
  <2> QED BY <1>1, <1>2, <1>3, <1>7, <2>1, <2>2, MonotoneSound
<1>8. CASE Rule \in {"JOIN", "convex"}
  <2>1. "JOIN" \in DOMAIN fun \cap Symmetric
    BY <1>1, <1>8 DEF Applicable, Symmetric, Tables, Binary
  <2>2. p \in JoinAt(x, y) \/ p \in ConvexAt("JOIN", x, y)
    BY <1>4, <1>8 DEF Theorems, Binary
  <2>3. p \in leq
    BY <1>1, <1>3, <2>1, <2>2, JoinSound, ConvexSound
  <2> QED BY <1>8, <2>3
<1>9. CASE Rule = "linear"
  <2>1. "RAND" \in DOMAIN fun \cap Symmetric
    BY <1>1, <1>9 DEF Applicable, Symmetric, Tables, Binary
  <2>2. p \in ConvexAt("RAND", x, y) \/ p \in ConcaveAt("RAND", x, y)
    BY <1>4, <1>9 DEF Theorems, Binary
  <2>3. p \in leq
    BY <1>1, <1>3, <2>1, <2>2, ConvexSound, ConcaveSound
  <2> QED BY <1>9, <2>3
<1> QED
  BY <1>1, <1>5, <1>6, <1>7, <1>8, <1>9 DEF Applicable, Tables, Binary, Symmetric

\* A step keeps LESS within every order that it was within, and NLESS out of it.
LEMMA StepSound ==
  ASSUME LoopsOK, [OrderNext]_orderVars, NEW leq, rules # <<>>, Models(leq), Agrees(leq)
  PROVE  Agrees(leq)'
<1> DEFINE Told(p) == (Rule = "nless") <=> (p \notin leq)
<1>1. /\ rows["LESS"] \cup cols["LESS"] \subseteq leq
      /\ (rows["NLESS"] \cup cols["NLESS"]) \cap leq = {}
      /\ \A p \in half : Told(p)
      /\ \A t \in Thread : \A p \in queue[t] : Told(p)
  BY DEF Agrees
<1>2. CASE UNCHANGED orderVars
  BY <1>2 DEF orderVars, relVars, loopVars, Agrees, Rule
<1>3. CASE EndRule
  <2>1. half' = {} /\ \A t \in Thread : queue'[t] = {}
    BY <1>3, EndRuleOK DEF EndRule
  <2> QED BY <1>1, <1>3, <2>1 DEF EndRule, Agrees, relVars
<1>4. ASSUME NEW t \in Thread, TakeOb(t) \/ FlushBegin(t) PROVE Agrees(leq)'
  BY <1>4 DEF TakeOb, FlushBegin, Agrees, Rule, relVars
<1>5. ASSUME NEW t \in Thread, Look(t) PROVE Agrees(leq)'
  <2>1. PICK y \in left[t] : queue' = [queue EXCEPT ![t] = @ \cup Theorems(at[t], y)]
    BY <1>5 DEF Look
  <2>2. \A p \in Theorems(at[t], y) : Told(p)
    BY <1>5, TheoremsSound DEF Look
  <2>3. \A u \in Thread : \A p \in queue'[u] : Told(p)
    BY <1>1, <2>1, <2>2 DEF LoopsOK
  <2> HIDE DEF Told
  <2>4. Rule' = Rule /\ half' = half /\ rows' = rows /\ cols' = cols
    BY <1>5 DEF Look, Rule, relVars
  <2> QED BY <1>1, <2>3, <2>4 DEF Agrees, Told
<1>6. ASSUME NEW t \in Thread, FlushRow(t) PROVE Agrees(leq)'
  <2>1. PICK S : /\ S \subseteq queue[t]
                 /\ half' = S
                 /\ queue' = [queue EXCEPT ![t] = @ \ S]
                 /\ rows' = [rows EXCEPT ![Rel] = @ \cup S]
    BY <1>6 DEF FlushRow
  <2>2. Rule' = Rule /\ cols' = cols
    BY <1>6 DEF FlushRow, Rule
  <2>3. \A p \in S : Told(p)
    BY <1>1, <2>1
  <2>4. \A u \in Thread : \A p \in queue'[u] : Told(p)
    BY <1>1, <2>1 DEF LoopsOK
  <2>5. rows'["LESS"] \subseteq leq /\ rows'["NLESS"] \cap leq = {}
    BY <1>1, <2>1, <2>3 DEF Rel, LoopsOK, Tables
  <2> QED BY <1>1, <2>1, <2>2, <2>3, <2>4, <2>5 DEF Agrees
<1>7. ASSUME NEW t \in Thread, FlushCol(t) PROVE Agrees(leq)'
  <2>1. cols'["LESS"] \subseteq leq /\ cols'["NLESS"] \cap leq = {}
    BY <1>1, <1>7 DEF FlushCol, Rel, LoopsOK, Tables
  <2>2. Rule' = Rule /\ half' = {} /\ queue' = queue /\ rows' = rows
    BY <1>7 DEF FlushCol, Rule
  <2> QED BY <1>1, <2>1, <2>2 DEF Agrees
<1> QED BY <1>2, <1>3, <1>4, <1>5, <1>6, <1>7 DEF OrderNext, ThreadStep

\* infer_less() and infer_nless() are sound: of every order that is a model of
\* the structure, LESS stays a part and NLESS of its complement, for any
\* structure, any number of threads, and any relations to compare with.
THEOREM RulesSound == OrderSpec => Sound
<1>1. LoopsOK /\ [OrderNext]_orderVars
        => [\A leq \in Orders :
              rules # <<>> /\ Models(leq) /\ Agrees(leq) => Agrees(leq)']_orderVars
  BY StepSound
<1> QED BY <1>1, LoopsHold, PTL DEF OrderSpec, Sound
=============================================================================
