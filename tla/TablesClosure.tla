---------------------------- MODULE TablesClosure ----------------------------
(***************************************************************************)
(* Theorems about what the tables compute: whatever insertions, collisions *)
(* and MergeTasks do, and in which order, the carrier and the table end as *)
(* the congruence closure of what was asked for.                           *)
(***************************************************************************)
EXTENDS TablesProofs

-----------------------------------------------------------------------------
(* The inductive invariant.                                                *)

\* A fact is about the same classes as these obs are.
Like2(f, a, b) == cls[f[1]] = cls[a] /\ cls[f[2]] = cls[b]
Like3(f, l, r, v) ==
  /\ \/ cls[f[1]] = cls[l] /\ cls[f[2]] = cls[r]
     \/ kind = "symmetric" /\ cls[f[1]] = cls[r] /\ cls[f[2]] = cls[l]
  /\ cls[f[3]] = cls[v]

\* The class of an ob outlives the ob.
ClassInv ==
  /\ cls \in [Ob -> Ob]
  /\ \A x \in Ob : root[x] # 0 => cls[x] = root[x]
  /\ \A x \in Ob : root[cls[x]] = cls[x]
  /\ \A e \in eqs : e[1] \in Ob /\ e[2] \in Ob /\ cls[e[1]] = cls[e[2]]

\* What threads insert was asked for.
AskedInv ==
  /\ facts \subseteq FactsOf(kind)
  /\ \A t \in Thread : pc[t] # "idle" =>
       IF pc[t] \in LineLabel THEN arg[t] \subseteq facts ELSE arg[t] \in facts

\* One partition distinguishes all that another one does.
Finer(f, g) == \A x, y \in Ob : f[x] = f[y] => g[x] = g[y]

\* No two obs are equal but by what was asked for.
Finest == \A f \in Partitions : Closed(f) => Finer(cls, f)

\* Every entry stands for a fact; every fact has an entry, up to equality, once
\* its thread has set it.
FunFacts ==
  AFunction =>
    /\ \A l, r \in Ob : At(l, r) # 0 => \E f \in facts : Like3(f, l, r, At(l, r))
    /\ \A f \in facts :
         \/ \E l, r \in Ob : At(l, r) # 0 /\ Like3(f, l, r, At(l, r))
         \/ \E t \in Thread : pc[t] = "fun_set" /\ arg[t] = f

\* An injective function has two tables, from keys to values and back: the same
\* of each.
LikeAt(d, f, x, y) == IF d = 1 THEN Like2(f, x, y) ELSE Like2(f, y, x)

Backed(d, T, labels) ==
  /\ \A x \in Ob : T[x] # 0 => \E f \in facts : LikeAt(d, f, x, T[x])
  /\ \A f \in facts :
       \/ \E x \in Ob : T[x] # 0 /\ LikeAt(d, f, x, T[x])
       \/ \E t \in Thread : pc[t] \in labels /\ arg[t] = f

InjFacts ==
  kind = "injective" =>
    /\ Backed(1, val, {"inj_set"})
    /\ Backed(2, inv, {"inj_set", "inj_tell", "inj_inv"})

\* A fact that a relation does not have yet is with a thread that has still to
\* write its first line.
Coming(t, f) ==
  \/ pc[t] \in {"rel_Lx", "rel_Rx"} /\ arg[t] = f
  \/ pc[t] \in {"row_load", "row_or", "col_load", "col_or"} /\ f \in arg[t]

RelFacts ==
  kind = "relation" =>
    /\ \A p \in lx \cup rx : \E f \in facts : Like2(f, p[1], p[2])
    /\ \A f \in facts :
         \/ \E p \in lx \cup rx : Like2(f, p[1], p[2])
         \/ \E t \in Thread : Coming(t, f)

UnFacts ==
  kind = "unary" =>
    /\ \A x \in lx : \E f \in facts : cls[f] = cls[x]
    /\ \A f \in facts :
         \/ \E x \in lx : cls[f] = cls[x]
         \/ \E t \in Thread : pc[t] = "un_set" /\ arg[t] = f

CInv == ClassInv /\ AskedInv /\ Finest /\ FunFacts /\ InjFacts /\ RelFacts /\ UnFacts

-----------------------------------------------------------------------------
(* The classes.                                                            *)

\* What is equal stays equal.
Coarser == \A a, b \in Ob : cls[a] = cls[b] => cls'[a] = cls'[b]

\* An equation that follows from what was asked for.
Justified(x, y) == \A g \in Partitions : Closed(g) /\ Finer(cls, g) => g[x] = g[y]

\* The classes of two obs become one.
LEMMA ClassMerge ==
  ASSUME CarrierInv, ClassInv, UNCHANGED <<kind, dep>>, NEW x \in Live, NEW y \in Live,
         Merge(x, y), \A e \in eqs' \ eqs : e = <<x, y>>
  PROVE  /\ ClassInv' /\ Coarser /\ cls'[x] = cls'[y]
         /\ \A a, b \in Ob : cls'[a] = cls'[b] =>
              cls[a] = cls[b] \/ {cls[a], cls[b]} \subseteq {cls[x], cls[y]}
<1>1. /\ root \in [Ob -> Rep] /\ cls \in [Ob -> Ob]
      /\ x \in Ob /\ y \in Ob /\ root[x] # 0 /\ root[y] # 0 /\ root[x] = cls[x] /\ root[y] = cls[y]
      /\ Ob \subseteq Nat /\ 0 \notin Ob /\ \A r \in Rep : r # 0 => r \in Ob
  BY TablesAssumption, SMTT(30) DEF CarrierInv, ClassInv, Live, Ob, Rep
<1>2. PICK lo \in Ob, hi \in Ob :
        /\ {lo, hi} = {cls[x], cls[y]} /\ root[lo] = lo /\ root[hi] = hi
        /\ lo = LowerOf(root[x], root[y])
  <2>1. root[cls[x]] = cls[x] /\ root[cls[y]] = cls[y] /\ cls[x] \in Ob /\ cls[y] \in Ob
    BY <1>1 DEF ClassInv
  <2>2. CASE root[x] < root[y]
    <3>1. LowerOf(root[x], root[y]) = root[x]
      BY <2>2 DEF LowerOf
    <3> QED
      BY <1>1, <2>1, <3>1
  <2>3. CASE ~ (root[x] < root[y])
    <3>1. LowerOf(root[x], root[y]) = root[y]
      BY <2>3 DEF LowerOf
    <3> QED
      BY <1>1, <2>1, <3>1
  <2> QED
    BY <2>2, <2>3
<1>3. /\ root' = [z \in Ob |-> IF root[z] # 0 /\ root[z] \in {lo, hi} THEN lo ELSE root[z]]
      /\ cls' = [z \in Ob |-> IF cls[z] # 0 /\ cls[z] \in {lo, hi} THEN lo ELSE cls[z]]
  BY <1>1, <1>2 DEF Merge, United
<1>4. /\ \A z \in Ob : root'[z] = IF root[z] \in {lo, hi} THEN lo ELSE root[z]
      /\ \A z \in Ob : cls'[z] = IF cls[z] \in {lo, hi} THEN lo ELSE cls[z]
      /\ cls' \in [Ob -> Ob]
  BY <1>1, <1>2, <1>3
<1>5. Coarser /\ cls'[x] = cls'[y]
  BY <1>1, <1>2, <1>4 DEF Coarser
<1>6. \A a, b \in Ob : cls'[a] = cls'[b] =>
        cls[a] = cls[b] \/ {cls[a], cls[b]} \subseteq {cls[x], cls[y]}
  BY <1>1, <1>2, <1>4
<1>7. \A z \in Ob : root'[z] # 0 => cls'[z] = root'[z]
  BY <1>1, <1>2, <1>4 DEF ClassInv
<1>8. \A z \in Ob : root'[cls'[z]] = cls'[z]
  <2> SUFFICES ASSUME NEW z \in Ob PROVE root'[cls'[z]] = cls'[z]
    OBVIOUS
  <2>1. cls[z] \in Ob /\ root[cls[z]] = cls[z]
    BY <1>1 DEF ClassInv
  <2> QED
    BY <1>2, <1>4, <2>1
<1>9. \A e \in eqs' : e[1] \in Ob /\ e[2] \in Ob /\ cls'[e[1]] = cls'[e[2]]
  <2> SUFFICES ASSUME NEW e \in eqs' PROVE e[1] \in Ob /\ e[2] \in Ob /\ cls'[e[1]] = cls'[e[2]]
    OBVIOUS
  <2>1. CASE e \in eqs
    BY <1>5, <2>1 DEF ClassInv, Coarser
  <2>2. CASE e \notin eqs
    BY <1>1, <1>5, <2>2
  <2> QED
    BY <2>1, <2>2
<1> QED
  BY <1>4, <1>5, <1>6, <1>7, <1>8, <1>9 DEF ClassInv

\* More is asked for, and fewer partitions are closed.
LEMMA ClosedMore ==
  ASSUME UNCHANGED kind, facts \subseteq facts', eqs \subseteq eqs', NEW g, Closed(g)'
  PROVE  Closed(g)
<1>1. \A l, r : BothWays(l, r)' = BothWays(l, r)
  BY AtNext
<1> QED
  BY <1>1 DEF Closed

LEMMA FinestStays ==
  ASSUME Finest, UNCHANGED <<kind, cls>>, facts \subseteq facts', eqs \subseteq eqs'
  PROVE  Finest'
BY ClosedMore DEF Finest, Finer

LEMMA FinestMerge ==
  ASSUME CarrierInv, ClassInv, Finest, UNCHANGED <<kind, dep, facts>>, NEW x \in Live, NEW y \in Live,
         Merge(x, y), eqs \subseteq eqs', \A e \in eqs' \ eqs : e = <<x, y>>,
         \A g \in Partitions : Closed(g)' /\ Finer(cls, g) => g[x] = g[y]
  PROVE  Finest'
<1> SUFFICES ASSUME NEW g \in Partitions, Closed(g)', NEW a \in Ob, NEW b \in Ob, cls'[a] = cls'[b]
             PROVE  g[a] = g[b]
  BY DEF Finest, Finer
<1>1. Closed(g)
  BY ClosedMore
<1>2. Finer(cls, g)
  BY <1>1 DEF Finest
<1>3. g[x] = g[y]
  BY <1>2
<1>4. cls[a] = cls[b] \/ {cls[a], cls[b]} \subseteq {cls[x], cls[y]}
  BY ClassMerge
<1>5. x \in Ob /\ y \in Ob
  BY DEF Live
<1> QED
  BY <1>2, <1>3, <1>4, <1>5 DEF Finer

\* A step that asks for nothing, and merges at most what follows.
LEMMA ClassesStay ==
  ASSUME ClassInv, Finest, UNCHANGED <<kind, root, cls, facts, eqs>>
  PROVE  ClassInv' /\ Finest' /\ Coarser
<1>1. ClassInv' /\ Coarser
  BY DEF ClassInv, Coarser
<1> QED
  BY <1>1, FinestStays

LEMMA ClassesCollide ==
  ASSUME CarrierInv, ClassInv, Finest, UNCHANGED <<kind, dep, facts, eqs>>,
         NEW old, old = 0 \/ old \in Live, NEW v \in Live,
         MergeUnlessSet(old, v), old # 0 => Justified(old, v)
  PROVE  /\ ClassInv' /\ Finest' /\ Coarser
         /\ old # 0 => cls'[old] = cls'[v]
<1>1. CASE old \in {0, v}
  BY <1>1, ClassesStay DEF MergeUnlessSet, MergeNothing, carrierVars
<1>2. CASE old \notin {0, v}
  <2>1. Merge(old, v) /\ old \in Live /\ Justified(old, v)
    BY <1>2 DEF MergeUnlessSet
  <2>2. \A g \in Partitions : Closed(g)' /\ Finer(cls, g) => g[old] = g[v]
    BY <2>1, ClosedMore DEF Justified
  <2>3. \A e \in eqs' \ eqs : e = <<old, v>>
    OBVIOUS
  <2> QED
    BY <2>1, <2>2, <2>3, ClassMerge, FinestMerge
<1> QED
  BY <1>1, <1>2

\* The class of an ob that is there is its root.
LEMMA LiveClass ==
  ASSUME CarrierInv, ClassInv, NEW x \in Live, NEW y \in Live, root[x] = root[y]
  PROVE  cls[x] = cls[y]
BY DEF ClassInv, Live

-----------------------------------------------------------------------------
(* What is asked for.                                                      *)

\* Where a task goes from each place, unless it returns.
Onwards ==
  {<<"fun_set", "fun_lines">>, <<"fun_lines", "fun_index">>, <<"fun_index", "fun_tell">>,
   <<"inj_set", "inj_tell">>, <<"inj_set", "inj_inv">>, <<"inj_tell", "inj_inv">>,
   <<"inj_inv", "inj_invset">>,
   <<"rel_Lx", "rel_Rx2">>, <<"rel_Rx", "rel_Lx2">>, <<"rel_Rx2", "rel_tell">>,
   <<"rel_Lx2", "rel_tell">>,
   <<"row_load", "row_or">>, <<"row_or", "row_tell">>, <<"col_load", "col_or">>,
   <<"col_or", "col_tell">>}

\* A task goes on with its fact, or returns.
TaskGoes(t) ==
  /\ \A u \in Thread \ {t} : pc'[u] = pc[u] /\ arg'[u] = arg[u] /\ new'[u] = new[u]
  /\ pc[t] # "idle"
  /\ pc'[t] # "idle" => arg'[t] = arg[t] /\ <<pc[t], pc'[t]>> \in Onwards

LEMMA GoesTo ==
  ASSUME ThreadTypes, NEW t \in Thread, NEW l, Goto(t, l), arg' = arg,
         new' = new \/ \E n : new' = [new EXCEPT ![t] = n],
         pc[t] # "idle", <<pc[t], l>> \in Onwards
  PROVE  TaskGoes(t) /\ pc'[t] = l
<1>1. pc' = [pc EXCEPT ![t] = l]
  BY DEF Goto
<1>2. /\ pc'[t] = l
      /\ \A u \in Thread \ {t} : pc'[u] = pc[u]
  BY <1>1, ExceptOne DEF ThreadTypes
<1>3. \A u \in Thread \ {t} : new'[u] = new[u]
  <2>1. CASE new' = new
    BY <2>1
  <2>2. CASE \E n : new' = [new EXCEPT ![t] = n]
    <3>1. PICK n : new' = [new EXCEPT ![t] = n]
      BY <2>2
    <3> QED
      BY <3>1, ExceptOne DEF ThreadTypes
  <2> QED
    BY <2>1, <2>2
<1> QED
  BY <1>2, <1>3 DEF TaskGoes

LEMMA GoesHome ==
  ASSUME ThreadTypes, NEW t \in Thread, Return(t), pc[t] # "idle"
  PROVE  TaskGoes(t) /\ pc'[t] = "idle"
<1>1. /\ pc' = [pc EXCEPT ![t] = "idle"] /\ arg' = [arg EXCEPT ![t] = <<>>]
      /\ new' = [new EXCEPT ![t] = {}]
  BY DEF Return, Goto
<1>2. pc'[t] = "idle" /\ \A u \in Thread \ {t} : pc'[u] = pc[u]
  BY <1>1, ExceptOne DEF ThreadTypes
<1>3. \A u \in Thread \ {t} : arg'[u] = arg[u]
  BY <1>1, ExceptOne DEF ThreadTypes
<1>4. \A u \in Thread \ {t} : new'[u] = new[u]
  BY <1>1, ExceptOne DEF ThreadTypes
<1> QED
  BY <1>2, <1>3, <1>4 DEF TaskGoes

\* The steps of a task after its first.
Proceed(t) ==
  \/ FunSet(t) \/ FunLines(t) \/ FunIndex(t) \/ FunTell(t)
  \/ InjSet(t) \/ InjTell(t) \/ InjInv(t) \/ InjInvSet(t)
  \/ RelFirst(t) \/ RelSecond(t) \/ RelTell(t)
  \/ LineLoad(t) \/ LineOr(t) \/ LineTell(t) \/ UnSet(t)

LEMMA ProceedGoes ==
  ASSUME ThreadTypes, NEW t \in Thread, Proceed(t)
  PROVE  TaskGoes(t) /\ UNCHANGED <<kind, facts, eqs>>
<1>1. UNCHANGED <<kind, facts, eqs>>
  BY DEF Proceed, FunSet, FunLines, FunIndex, FunTell, InjSet, InjTell, InjInv, InjInvSet, RelFirst,
     RelSecond, RelTell, LineLoad, LineOr, LineTell, UnSet, askedVars
<1>2. CASE FunSet(t)
  <2>1. pc[t] = "fun_set" /\ (Return(t) \/ (Goto(t, "fun_lines") /\ UNCHANGED <<arg, new>>))
    BY <1>2 DEF FunSet, AfterValue
  <2>2. <<"fun_set", "fun_lines">> \in Onwards
    BY DEF Onwards
  <2> QED
    BY <1>1, <2>1, <2>2, GoesTo, GoesHome
<1>3. CASE FunLines(t)
  <2>1. pc[t] = "fun_lines" /\ Goto(t, "fun_index") /\ UNCHANGED <<arg, new>>
    BY <1>3 DEF FunLines
  <2>2. <<"fun_lines", "fun_index">> \in Onwards
    BY DEF Onwards
  <2> QED
    BY <1>1, <2>1, <2>2, GoesTo
<1>4. CASE FunIndex(t)
  <2>1. pc[t] = "fun_index" /\ Goto(t, "fun_tell") /\ UNCHANGED <<arg, new>>
    BY <1>4 DEF FunIndex
  <2>2. <<"fun_index", "fun_tell">> \in Onwards
    BY DEF Onwards
  <2> QED
    BY <1>1, <2>1, <2>2, GoesTo
<1>5. CASE FunTell(t) \/ InjInvSet(t) \/ RelTell(t) \/ LineTell(t) \/ UnSet(t)
  <2>1. Return(t) /\ pc[t] # "idle"
    BY <1>5 DEF FunTell, InjInvSet, RelTell, LineTell, UnSet
  <2> QED
    BY <1>1, <2>1, GoesHome
<1>6. CASE InjSet(t)
  <2>1. PICK l \in {"inj_tell", "inj_inv"} : pc[t] = "inj_set" /\ Goto(t, l) /\ UNCHANGED <<arg, new>>
    BY <1>6 DEF InjSet
  <2>2. <<"inj_set", l>> \in Onwards
    BY DEF Onwards
  <2> QED
    BY <1>1, <2>1, <2>2, GoesTo
<1>7. CASE InjTell(t)
  <2>1. pc[t] = "inj_tell" /\ Goto(t, "inj_inv") /\ UNCHANGED <<arg, new>>
    BY <1>7 DEF InjTell
  <2>2. <<"inj_tell", "inj_inv">> \in Onwards
    BY DEF Onwards
  <2> QED
    BY <1>1, <2>1, <2>2, GoesTo
<1>8. CASE InjInv(t)
  <2>1. pc[t] = "inj_inv" /\ (Return(t) \/ (Goto(t, "inj_invset") /\ UNCHANGED <<arg, new>>))
    BY <1>8 DEF InjInv
  <2>2. <<"inj_inv", "inj_invset">> \in Onwards
    BY DEF Onwards
  <2> QED
    BY <1>1, <2>1, <2>2, GoesTo, GoesHome
<1>9. CASE RelFirst(t)
  <2>1. \/ pc[t] # "idle" /\ Return(t)
        \/ pc[t] = "rel_Lx" /\ Goto(t, "rel_Rx2") /\ UNCHANGED <<arg, new>>
        \/ pc[t] = "rel_Rx" /\ Goto(t, "rel_Lx2") /\ UNCHANGED <<arg, new>>
    BY <1>9 DEF RelFirst
  <2>2. <<"rel_Lx", "rel_Rx2">> \in Onwards /\ <<"rel_Rx", "rel_Lx2">> \in Onwards
    BY DEF Onwards
  <2> QED
    BY <1>1, <2>1, <2>2, GoesTo, GoesHome
<1>10. CASE RelSecond(t)
  <2>1. pc[t] \in {"rel_Rx2", "rel_Lx2"} /\ Goto(t, "rel_tell") /\ UNCHANGED <<arg, new>>
    BY <1>10 DEF RelSecond
  <2>2. <<"rel_Rx2", "rel_tell">> \in Onwards /\ <<"rel_Lx2", "rel_tell">> \in Onwards
    BY DEF Onwards
  <2> QED
    BY <1>1, <2>1, <2>2, GoesTo
<1>11. CASE LineLoad(t)
  <2>1. /\ \/ pc[t] = "row_load" /\ Goto(t, "row_or")
           \/ pc[t] = "col_load" /\ Goto(t, "col_or")
        /\ arg' = arg /\ \E n : new' = [new EXCEPT ![t] = n]
    BY <1>11 DEF LineLoad
  <2>2. <<"row_load", "row_or">> \in Onwards /\ <<"col_load", "col_or">> \in Onwards
    BY DEF Onwards
  <2> QED
    BY <1>1, <2>1, <2>2, GoesTo
<1>12. CASE LineOr(t)
  <2>1. /\ \/ pc[t] = "row_or" /\ Goto(t, "row_tell")
           \/ pc[t] = "col_or" /\ Goto(t, "col_tell")
        /\ arg' = arg /\ new' = new
    BY <1>12 DEF LineOr
  <2>2. <<"row_or", "row_tell">> \in Onwards /\ <<"col_or", "col_tell">> \in Onwards
    BY DEF Onwards
  <2> QED
    BY <1>1, <2>1, <2>2, GoesTo
<1> QED
  BY <1>1, <1>2, <1>3, <1>4, <1>5, <1>6, <1>7, <1>8, <1>9, <1>10, <1>11, <1>12 DEF Proceed

\* What a task inserts it goes on inserting.
LEMMA AskedGoes ==
  ASSUME AskedInv, NEW t \in Thread, TaskGoes(t), UNCHANGED <<kind, facts>>
  PROVE  AskedInv'
<1>1. pc'[t] # "idle" => arg'[t] = arg[t] /\ (pc'[t] \in LineLabel <=> pc[t] \in LineLabel)
  BY DEF TaskGoes, Onwards, LineLabel
<1> QED
  BY <1>1 DEF AskedInv, TaskGoes, FactsOf

LEMMA AskedStays ==
  ASSUME AskedInv, UNCHANGED <<kind, facts, pc, arg>>
  PROVE  AskedInv'
BY DEF AskedInv, FactsOf

\* What the facts of each kind of table are about.
LEMMA FactTypes ==
  ASSUME AskedInv
  PROVE  /\ AFunction => facts \subseteq Ob \X Ob \X Ob
         /\ kind \in {"injective", "relation"} => facts \subseteq Ob \X Ob
         /\ kind = "unary" => facts \subseteq Ob
<1>1. AFunction => FactsOf(kind) = Ob \X Ob \X Ob
  BY DEF FactsOf, AFunction
<1>2. kind \in {"injective", "relation"} => FactsOf(kind) = Ob \X Ob
  BY DEF FactsOf
<1>3. kind = "unary" => FactsOf(kind) = Ob
  BY DEF FactsOf
<1> QED
  BY <1>1, <1>2, <1>3 DEF AskedInv

\* A task begins to insert facts that are asked for now.
StartsWith(t, label, f, asked) ==
  /\ pc[t] = "idle" /\ pc'[t] = label /\ arg'[t] = f
  /\ \A u \in Thread \ {t} : pc'[u] = pc[u] /\ arg'[u] = arg[u]
  /\ facts' = facts \cup asked
  /\ UNCHANGED <<kind, root, cls, eqs, val, inv, lx, rx>>

LEMMA StartAsks ==
  ASSUME ThreadTypes, AskedInv, NEW t \in Thread, NEW label, NEW f, NEW asked,
         Start(t, label, f, asked), asked \subseteq FactsOf(kind), label # "idle",
         IF label \in LineLabel THEN f \subseteq asked ELSE f \in asked
  PROVE  StartsWith(t, label, f, asked) /\ AskedInv'
<1>1. /\ pc' = [pc EXCEPT ![t] = label] /\ arg' = [arg EXCEPT ![t] = f]
      /\ pc[t] = "idle" /\ facts' = facts \cup asked
      /\ UNCHANGED <<kind, root, cls, eqs, val, inv, lx, rx>>
  BY DEF Start, Goto, carrierVars, tableVars
<1>2. pc'[t] = label /\ \A u \in Thread \ {t} : pc'[u] = pc[u]
  BY <1>1, ExceptOne DEF ThreadTypes
<1>3. arg'[t] = f /\ \A u \in Thread \ {t} : arg'[u] = arg[u]
  BY <1>1, ExceptOne DEF ThreadTypes
<1>4. StartsWith(t, label, f, asked)
  BY <1>1, <1>2, <1>3 DEF StartsWith
<1>5. facts' \subseteq FactsOf(kind)'
  BY <1>1 DEF AskedInv, FactsOf
<1>6. \A u \in Thread : pc'[u] # "idle" =>
        IF pc'[u] \in LineLabel THEN arg'[u] \subseteq facts' ELSE arg'[u] \in facts'
  BY <1>1, <1>2, <1>3 DEF AskedInv
<1> QED
  BY <1>4, <1>5, <1>6 DEF AskedInv

-----------------------------------------------------------------------------
(* Functions.                                                              *)

LEMMA AtTypes ==
  ASSUME FunInv, AFunction
  PROVE  /\ 0 \notin Ob /\ Live \subseteq Ob /\ Ob \subseteq Rep
         /\ \A l, r \in Ob : At(l, r) \in Rep /\ (At(l, r) # 0 => At(l, r) \in Live)
         /\ \A l, r \in Ob : At(l, r) # 0 => l \in Live /\ r \in Live
<1>1. 0 \notin Ob /\ Live \subseteq Ob /\ Ob \subseteq Rep
  BY TablesAssumption DEF Ob, Rep, Live
<1>2. ASSUME NEW l \in Ob, NEW r \in Ob
      PROVE  /\ At(l, r) \in Rep
             /\ At(l, r) # 0 => At(l, r) \in Live /\ l \in Live /\ r \in Live
  <2>1. Key(l, r) \in Pair /\ {Key(l, r)[1], Key(l, r)[2]} = {l, r}
    BY KeyPair DEF Key
  <2>2. val[Key(l, r)] # 0 => {Key(l, r)[1], Key(l, r)[2], val[Key(l, r)]} \subseteq Live
    BY <2>1 DEF FunInv, FunLive
  <2> QED
    BY <2>1, <2>2 DEF FunInv, FunTypes, At
<1> QED
  BY <1>1, <1>2

\* Two entries that are about the same classes of arguments have values that
\* follow to be equal.
LEMMA SameKey ==
  ASSUME AFunction, AskedInv, NEW f1 \in facts, NEW f2 \in facts,
         NEW a \in Ob, NEW b \in Ob, NEW u \in Ob, NEW c \in Ob, NEW d \in Ob, NEW w \in Ob,
         Like3(f1, a, b, u), Like3(f2, c, d, w), cls[a] = cls[c], cls[b] = cls[d]
  PROVE  Justified(u, w)
<1> SUFFICES ASSUME NEW g \in Partitions, Closed(g), Finer(cls, g) PROVE g[u] = g[w]
  BY DEF Justified
<1>1. /\ f1[1] \in Ob /\ f1[2] \in Ob /\ f1[3] \in Ob
      /\ f2[1] \in Ob /\ f2[2] \in Ob /\ f2[3] \in Ob
  BY FactTypes
<1>2. /\ \/ g[f1[1]] = g[a] /\ g[f1[2]] = g[b]
         \/ kind = "symmetric" /\ g[f1[1]] = g[b] /\ g[f1[2]] = g[a]
      /\ g[f1[3]] = g[u]
  BY <1>1 DEF Like3, Finer
<1>3. /\ \/ g[f2[1]] = g[c] /\ g[f2[2]] = g[d]
         \/ kind = "symmetric" /\ g[f2[1]] = g[d] /\ g[f2[2]] = g[c]
      /\ g[f2[3]] = g[w]
  BY <1>1 DEF Like3, Finer
<1>4. g[a] = g[c] /\ g[b] = g[d]
  BY DEF Finer
<1>5. \/ g[f1[1]] = g[f2[1]] /\ g[f1[2]] = g[f2[2]]
      \/ kind = "symmetric" /\ g[f1[1]] = g[f2[2]] /\ g[f1[2]] = g[f2[1]]
  BY <1>2, <1>3, <1>4
<1>6. \E p \in BothWays(f2[1], f2[2]) : g[f1[1]] = g[p[1]] /\ g[f1[2]] = g[p[2]]
  <2>1. /\ <<f2[1], f2[2]>> \in BothWays(f2[1], f2[2])
        /\ kind = "symmetric" => <<f2[2], f2[1]>> \in BothWays(f2[1], f2[2])
    BY DEF BothWays
  <2> QED
    BY <1>5, <2>1
<1>7. \A e1, e2 \in facts :
        (\E p \in BothWays(e2[1], e2[2]) : g[e1[1]] = g[p[1]] /\ g[e1[2]] = g[p[2]])
          => g[e1[3]] = g[e2[3]]
  BY DEF Closed, AFunction
<1>8. g[f1[3]] = g[f2[3]]
  BY <1>6, <1>7
<1> QED
  BY <1>2, <1>3, <1>8

\* Afterwards two entries are about the same classes.
SameNext(a, b, u, l, r, v) == cls'[a] = cls'[l] /\ cls'[b] = cls'[r] /\ cls'[u] = cls'[v]

LEMMA Like3Next ==
  ASSUME AFunction, AskedInv, Coarser, UNCHANGED kind, NEW f \in facts,
         NEW a \in Ob, NEW b \in Ob, NEW u \in Ob, NEW l \in Ob, NEW r \in Ob, NEW v \in Ob,
         Like3(f, a, b, u), SameNext(a, b, u, l, r, v)
  PROVE  Like3(f, l, r, v)'
<1>1. f[1] \in Ob /\ f[2] \in Ob /\ f[3] \in Ob
  BY FactTypes
<1>2. /\ \/ cls'[f[1]] = cls'[a] /\ cls'[f[2]] = cls'[b]
         \/ kind = "symmetric" /\ cls'[f[1]] = cls'[b] /\ cls'[f[2]] = cls'[a]
      /\ cls'[f[3]] = cls'[u]
  BY <1>1 DEF Like3, Coarser
<1> QED
  BY <1>2 DEF Like3, SameNext

\* Entries may move within their classes, and one may be set from a fact.
LEMMA FunFactsNext ==
  ASSUME AFunction, FunInv, AskedInv, FunFacts, Coarser, UNCHANGED <<kind, facts>>,
         \A l, r \in Ob : val'[Key(l, r)] # 0 => \E v \in Ob :
           /\ v = val'[Key(l, r)]
           /\ \/ \E f \in facts : Like3(f, l, r, v)'
              \/ \E a, b \in Ob : At(a, b) # 0 /\ SameNext(a, b, At(a, b), l, r, v),
         \A a, b \in Ob : At(a, b) # 0 =>
           \E l, r \in Ob : /\ val'[Key(l, r)] \in Ob
                            /\ SameNext(a, b, At(a, b), l, r, val'[Key(l, r)]),
         \A t \in Thread : pc[t] = "fun_set" =>
           \/ pc'[t] = "fun_set" /\ arg'[t] = arg[t]
           \/ \E f \in facts, l, r, v \in Ob : f = arg[t] /\ val'[Key(l, r)] = v /\ Like3(f, l, r, v)'
  PROVE  FunFacts'
<1>1. 0 \notin Ob /\ Live \subseteq Ob /\ \A l, r \in Ob : At(l, r) # 0 => At(l, r) \in Ob
  BY AtTypes
<1>2. ASSUME NEW l \in Ob, NEW r \in Ob, val'[Key(l, r)] # 0
      PROVE  \E f \in facts : \E v : v = val'[Key(l, r)] /\ Like3(f, l, r, v)'
  <2>1. PICK v \in Ob :
          /\ v = val'[Key(l, r)]
          /\ \/ \E f \in facts : Like3(f, l, r, v)'
             \/ \E a, b \in Ob : At(a, b) # 0 /\ SameNext(a, b, At(a, b), l, r, v)
    BY <1>2
  <2>2. CASE \E f \in facts : Like3(f, l, r, v)'
    BY <2>1, <2>2
  <2>3. CASE \E a, b \in Ob : At(a, b) # 0 /\ SameNext(a, b, At(a, b), l, r, v)
    <3>1. PICK a \in Ob, b \in Ob : At(a, b) # 0 /\ SameNext(a, b, At(a, b), l, r, v)
      BY <2>3
    <3>2. PICK f \in facts : Like3(f, a, b, At(a, b))
      BY <3>1 DEF FunFacts
    <3>3. Like3(f, l, r, v)'
      BY <1>1, <3>1, <3>2, Like3Next
    <3> QED
      BY <2>1, <3>3
  <2> QED
    BY <1>2, <2>1, <2>2, <2>3
<1>3. ASSUME NEW f \in facts
      PROVE  \/ \E l, r \in Ob : \E v : v = val'[Key(l, r)] /\ v # 0 /\ Like3(f, l, r, v)'
             \/ \E t \in Thread : pc'[t] = "fun_set" /\ arg'[t] = f
  <2>1. CASE \E l, r \in Ob : At(l, r) # 0 /\ Like3(f, l, r, At(l, r))
    <3>1. PICK a \in Ob, b \in Ob : At(a, b) # 0 /\ Like3(f, a, b, At(a, b))
      BY <2>1
    <3>2. PICK l \in Ob, r \in Ob : /\ val'[Key(l, r)] \in Ob
                                    /\ SameNext(a, b, At(a, b), l, r, val'[Key(l, r)])
      BY <3>1
    <3>3. PICK v \in Ob : v = val'[Key(l, r)]
      BY <3>2
    <3>4. Like3(f, l, r, v)'
      BY <1>1, <3>1, <3>2, <3>3, Like3Next
    <3> QED
      BY <1>1, <3>3, <3>4
  <2>2. CASE \E t \in Thread : pc[t] = "fun_set" /\ arg[t] = f
    <3>1. PICK t \in Thread : pc[t] = "fun_set" /\ arg[t] = f
      BY <2>2
    <3>2. CASE pc'[t] = "fun_set" /\ arg'[t] = arg[t]
      BY <3>1, <3>2
    <3>3. CASE \E h \in facts, l, r, v \in Ob : h = arg[t] /\ val'[Key(l, r)] = v /\ Like3(h, l, r, v)'
      BY <1>1, <3>1, <3>3
    <3> QED
      BY <3>1, <3>2, <3>3
  <2> QED
    BY <2>1, <2>2 DEF FunFacts
<1>4. facts' = facts /\ \A l, r : At(l, r)' = val'[Key(l, r)]
  BY AtNext
<1>5. ASSUME NEW l \in Ob, NEW r \in Ob, At(l, r)' # 0
      PROVE  \E f \in facts' : Like3(f, l, r, At(l, r))'
  <2>1. PICK f \in facts : \E v : v = val'[Key(l, r)] /\ Like3(f, l, r, v)'
    BY <1>2, <1>4, <1>5
  <2>2. Like3(f, l, r, At(l, r))'
    BY <1>4, <2>1 DEF Like3
  <2> QED
    BY <1>4, <2>2
<1>6. ASSUME NEW f \in facts'
      PROVE  \/ \E l, r \in Ob : At(l, r)' # 0 /\ Like3(f, l, r, At(l, r))'
             \/ \E t \in Thread : pc'[t] = "fun_set" /\ arg'[t] = f
  <2>1. CASE \E l, r \in Ob : \E v : v = val'[Key(l, r)] /\ v # 0 /\ Like3(f, l, r, v)'
    <3>1. PICK l \in Ob, r \in Ob : \E v : v = val'[Key(l, r)] /\ v # 0 /\ Like3(f, l, r, v)'
      BY <2>1
    <3>2. At(l, r)' # 0 /\ Like3(f, l, r, At(l, r))'
      BY <1>4, <3>1 DEF Like3
    <3> QED
      BY <3>2
  <2> QED
    BY <1>3, <1>4, <2>1
<1> QED
  BY <1>5, <1>6 DEF FunFacts

LEMMA FunFactsStay ==
  ASSUME AFunction, FunInv, AskedInv, FunFacts, Coarser, UNCHANGED <<kind, facts, val>>,
         \A t \in Thread : pc[t] = "fun_set" => pc'[t] = "fun_set" /\ arg'[t] = arg[t]
  PROVE  FunFacts'
<1>1. /\ 0 \notin Ob /\ \A l, r \in Ob : At(l, r) # 0 => At(l, r) \in Ob
      /\ \A l, r : val'[Key(l, r)] = At(l, r)
  BY AtTypes DEF At
<1>2. \A l, r \in Ob : val'[Key(l, r)] # 0 => \E v \in Ob :
        /\ v = val'[Key(l, r)]
        /\ \E a, b \in Ob : At(a, b) # 0 /\ SameNext(a, b, At(a, b), l, r, v)
  BY <1>1 DEF SameNext
<1>3. \A a, b \in Ob : At(a, b) # 0 =>
        \E l, r \in Ob : /\ val'[Key(l, r)] \in Ob
                         /\ SameNext(a, b, At(a, b), l, r, val'[Key(l, r)])
  BY <1>1 DEF SameNext
<1> QED
  BY <1>2, <1>3, FunFactsNext

LEMMA FunFactsStart ==
  ASSUME AFunction, FunFacts, NEW t \in Thread, NEW f, StartsWith(t, "fun_set", f, {f})
  PROVE  FunFacts'
<1>1. /\ facts' = facts \cup {f} /\ UNCHANGED <<kind, cls, val>>
      /\ pc[t] = "idle" /\ pc'[t] = "fun_set" /\ arg'[t] = f
      /\ \A u \in Thread \ {t} : pc'[u] = pc[u] /\ arg'[u] = arg[u]
  BY DEF StartsWith
<1>2. /\ \A l, r : At(l, r)' = At(l, r)
      /\ \A h, l, r, v : Like3(h, l, r, v)' = Like3(h, l, r, v)
  BY <1>1 DEF At, Key, Like3
<1>3. \A l, r \in Ob : At(l, r)' # 0 => \E h \in facts' : Like3(h, l, r, At(l, r))'
  BY <1>1, <1>2 DEF FunFacts, Like3
<1>4. ASSUME NEW h \in facts'
      PROVE  \/ \E l, r \in Ob : At(l, r)' # 0 /\ Like3(h, l, r, At(l, r))'
             \/ \E u \in Thread : pc'[u] = "fun_set" /\ arg'[u] = h
  <2>1. CASE h = f
    BY <1>1, <2>1
  <2>2. CASE h \in facts
    <3>1. CASE \E u \in Thread : pc[u] = "fun_set" /\ arg[u] = h
      BY <1>1, <3>1
    <3>2. CASE \E l, r \in Ob : At(l, r) # 0 /\ Like3(h, l, r, At(l, r))
      BY <1>1, <1>2, <3>2 DEF Like3
    <3> QED
      BY <2>2, <3>1, <3>2 DEF FunFacts
  <2> QED
    BY <1>1, <2>1, <2>2
<1> QED
  BY <1>3, <1>4 DEF FunFacts

\* A value is set, or merged with the one that is there.
LEMMA FunFactsSet ==
  ASSUME SInv, AFunction, ClassInv, AskedInv, Finest, FunFacts, NEW t \in Thread, FunSet(t)
  PROVE  ClassInv' /\ Finest' /\ FunFacts'
<1>0. CarrierInv /\ MergeInv /\ ThreadTypes /\ ThreadInv /\ FunInv
  BY DEF SInv
<1>1. pc[t] = "fun_set" /\ pc[t] \in FunLabel
  BY DEF FunSet, FunLabel
<1>2. PICK l \in Live, r \in Live, v \in Live : arg[t] = <<l, r, v>>
  BY <1>0, <1>1, FunAt
<1>3. PICK k \in Pair, old \in Rep : k = Key(l, r) /\ old = val[k] /\ old = At(l, r)
  BY <1>0, KeyPair DEF FunInv, FunTypes, Live, At
<1>4. /\ val' = [val EXCEPT ![k] = SetOr(@, v)] /\ MergeUnlessSet(old, v)
      /\ UNCHANGED <<kind, dep, facts, eqs>>
  <2>1. /\ val' = [val EXCEPT ![Key(l, r)] = SetOr(@, v)] /\ MergeUnlessSet(val[Key(l, r)], v)
        /\ UNCHANGED <<kind, mergeVars, askedVars>>
    BY <1>2 DEF FunSet
  <2> QED
    BY <1>3, <2>1 DEF askedVars, mergeVars
<1>5. /\ 0 \notin Ob /\ Live \subseteq Ob /\ Ob \subseteq Rep
      /\ \A x, y \in Ob : At(x, y) \in Rep /\ (At(x, y) # 0 => At(x, y) \in Live)
  BY <1>0, AtTypes
<1>6. PICK f \in facts : f = arg[t]
  BY <1>1 DEF AskedInv, LineLabel
<1>7. Like3(f, l, r, v)
  BY <1>2, <1>6 DEF Like3
<1>8. old # 0 => old \in Live /\ Justified(old, v)
  <2> SUFFICES ASSUME old # 0 PROVE old \in Live /\ Justified(old, v)
    OBVIOUS
  <2>1. old \in Live /\ old \in Ob /\ l \in Ob /\ r \in Ob /\ v \in Ob
    BY <1>3, <1>5
  <2>2. PICK h \in facts : Like3(h, l, r, old)
    BY <1>3, <2>1 DEF FunFacts
  <2> QED
    BY <1>7, <2>1, <2>2, SameKey
<1>9. ClassInv' /\ Finest' /\ Coarser /\ (old # 0 => cls'[old] = cls'[v])
  BY <1>0, <1>4, <1>8, ClassesCollide
<1>10. \A p \in Pair : val'[p] = IF p = k /\ old = 0 THEN v ELSE val[p]
  BY <1>0, <1>3, <1>4 DEF SetOr, FunInv, FunTypes
<1>11. \A x, y \in Ob : val'[Key(x, y)] = IF Key(x, y) = k /\ old = 0 THEN v ELSE At(x, y)
  BY <1>10, KeyPair DEF At
<1>12. Like3(f, l, r, v)'
  <2>1. SameNext(l, r, v, l, r, v)
    BY DEF SameNext
  <2> QED
    BY <1>4, <1>5, <1>7, <1>9, <2>1, Like3Next
<1>13. ASSUME NEW x \in Ob, NEW y \in Ob, val'[Key(x, y)] # 0
       PROVE  \E w \in Ob :
                /\ w = val'[Key(x, y)]
                /\ \/ \E h \in facts : Like3(h, x, y, w)'
                   \/ \E a, b \in Ob : At(a, b) # 0 /\ SameNext(a, b, At(a, b), x, y, w)
  <2>1. CASE Key(x, y) = k /\ old = 0
    <3>1. (x = l /\ y = r) \/ (kind = "symmetric" /\ x = r /\ y = l)
      BY <1>3, <1>5, <2>1, KeyEqual
    <3>2. Like3(f, x, y, v)'
      BY <1>4, <1>12, <3>1 DEF Like3
    <3>3. v \in Ob /\ v = val'[Key(x, y)]
      BY <1>5, <1>11, <2>1
    <3> QED
      BY <3>2, <3>3
  <2>2. CASE ~ (Key(x, y) = k /\ old = 0)
    BY <1>5, <1>11, <1>13, <2>2 DEF SameNext
  <2> QED
    BY <2>1, <2>2
<1>14. \A a, b \in Ob : At(a, b) # 0 =>
         \E x, y \in Ob : /\ val'[Key(x, y)] \in Ob
                          /\ SameNext(a, b, At(a, b), x, y, val'[Key(x, y)])
  <2>1. \A a, b \in Ob : At(a, b) # 0 => val'[Key(a, b)] = At(a, b) /\ At(a, b) \in Ob
    BY <1>3, <1>5, <1>11 DEF At
  <2> QED
    BY <2>1 DEF SameNext
<1>15. \E h \in facts, x, y, w \in Ob : h = arg[t] /\ val'[Key(x, y)] = w /\ Like3(h, x, y, w)'
  <2>1. PICK w \in Ob : w = val'[Key(l, r)] /\ (w = v \/ (w = old /\ old # 0))
    <3>1. val'[Key(l, r)] = IF old = 0 THEN v ELSE old
      BY <1>3, <1>5, <1>11
    <3>2. v \in Ob /\ (old # 0 => old \in Ob)
      BY <1>5, <1>8
    <3> QED
      BY <3>1, <3>2
  <2>2. SameNext(l, r, v, l, r, w)
    BY <1>9, <2>1 DEF SameNext
  <2>3. Like3(f, l, r, w)'
    BY <1>4, <1>5, <1>7, <1>9, <2>2, Like3Next
  <2> QED
    BY <1>5, <1>6, <2>1, <2>3
<1>16. \A u \in Thread \ {t} : pc'[u] = pc[u] /\ arg'[u] = arg[u]
  BY <1>0, ProceedGoes DEF Proceed, TaskGoes
<1>17. FunFacts'
  <2>1. \A u \in Thread : pc[u] = "fun_set" =>
          \/ pc'[u] = "fun_set" /\ arg'[u] = arg[u]
          \/ \E h \in facts, x, y, w \in Ob : h = arg[u] /\ val'[Key(x, y)] = w /\ Like3(h, x, y, w)'
    BY <1>15, <1>16
  <2> QED
    BY <1>0, <1>4, <1>9, <1>13, <1>14, <2>1, FunFactsNext
<1> QED
  BY <1>9, <1>17

\* An entry moves to another key of its class, or its value is merged with the
\* one that is there.
LEMMA EntryFacts ==
  ASSUME SInv, SInv', AFunction, ClassInv, AskedInv, Finest, FunFacts,
         UNCHANGED <<kind, dep, told, facts, eqs, pc, arg>>, dep # 0,
         NEW a \in Live, NEW b \in Live, NEW c \in Live, NEW d \in Live, dep \in {a, b},
         Key(a, b) # Key(c, d), At(a, b) # 0, MoveEntry(<<a, b>>, <<c, d>>),
         root[a] = root[c], root[b] = root[d]
  PROVE  ClassInv' /\ Finest' /\ FunFacts'
<1>0. CarrierInv /\ FunInv /\ Idle /\ FunInv'
  BY DEF SInv, MergeInv
<1>1. /\ 0 \notin Ob /\ Live \subseteq Ob /\ Ob \subseteq Rep
      /\ \A x, y \in Ob : At(x, y) \in Rep /\ (At(x, y) # 0 => At(x, y) \in Live)
  BY <1>0, AtTypes
<1>2. PICK v \in Live, old \in Rep :
        v = At(a, b) /\ old = At(c, d) /\ (old # 0 => old \in Live)
  BY <1>1
<1>3. MergeUnlessSet(old, v)
  BY <1>2 DEF MoveEntry, At
<1>4. ASSUME NEW l \in Ob, NEW r \in Ob
      PROVE  val'[Key(l, r)] = IF Key(l, r) = Key(a, b) THEN 0
                               ELSE IF Key(l, r) = Key(c, d) /\ old = 0 THEN v ELSE At(l, r)
  <2>1. AFunction'
    BY AtNext
  <2>2. /\ lx' \subseteq Pair /\ rx' \subseteq Pair /\ todo' \subseteq Ob
        /\ kind = "symmetric" => rx' = {}
    BY <1>0, <2>1 DEF FunInv, FunTypes, Pair
  <2>3. val'[Key(l, r)] = IF Key(l, r) = Key(a, b) THEN 0
                          ELSE IF Key(l, r) = Key(c, d) /\ At(c, d) = 0 THEN At(a, b) ELSE At(l, r)
    BY <1>0, <2>2, EntryMoves
  <2> QED
    BY <1>2, <2>3
<1>5. cls[a] = cls[c] /\ cls[b] = cls[d]
  BY <1>0, LiveClass
<1>6. old # 0 => Justified(old, v)
  <2> SUFFICES ASSUME old # 0 PROVE Justified(old, v)
    OBVIOUS
  <2>1. a \in Ob /\ b \in Ob /\ c \in Ob /\ d \in Ob /\ v \in Ob /\ old \in Ob
    BY <1>1, <1>2
  <2>2. PICK f1 \in facts : Like3(f1, a, b, v)
    BY <1>1, <1>2, <2>1 DEF FunFacts
  <2>3. PICK f2 \in facts : Like3(f2, c, d, old)
    BY <1>2, <2>1 DEF FunFacts
  <2>4. Justified(old, v)
    BY <1>5, <2>1, <2>2, <2>3, SameKey
  <2> QED
    BY <2>4
<1>7. ClassInv' /\ Finest' /\ Coarser /\ (old # 0 => cls'[old] = cls'[v])
  BY <1>0, <1>2, <1>3, <1>6, ClassesCollide
<1>8. cls'[a] = cls'[c] /\ cls'[b] = cls'[d]
  BY <1>1, <1>5, <1>7 DEF Coarser
<1>9. \A x, y \in Ob :
        /\ Key(x, y) = Key(a, b) => (x = a /\ y = b) \/ (kind = "symmetric" /\ x = b /\ y = a)
        /\ Key(x, y) = Key(c, d) => (x = c /\ y = d) \/ (kind = "symmetric" /\ x = d /\ y = c)
  BY <1>1, KeyEqual
<1>10. kind = "symmetric" => At(b, a) = v /\ Key(d, c) = Key(c, d)
  BY <1>1, <1>2, KeyEqual DEF At
<1>11. ASSUME NEW x \in Ob, NEW y \in Ob, val'[Key(x, y)] # 0
       PROVE  \E w \in Ob :
                /\ w = val'[Key(x, y)]
                /\ \E l, r \in Ob : At(l, r) # 0 /\ SameNext(l, r, At(l, r), x, y, w)
  <2>1. CASE Key(x, y) = Key(c, d) /\ old = 0
    <3>1. val'[Key(x, y)] = v
      BY <1>4, <1>11, <2>1
    <3>2. \E l, r \in Ob : At(l, r) # 0 /\ SameNext(l, r, At(l, r), x, y, v)
      <4>1. CASE x = c /\ y = d
        BY <1>1, <1>2, <1>8, <4>1 DEF SameNext
      <4>2. CASE kind = "symmetric" /\ x = d /\ y = c
        BY <1>1, <1>2, <1>8, <1>10, <4>2 DEF SameNext
      <4> QED
        BY <1>9, <2>1, <4>1, <4>2
    <3> QED
      BY <1>1, <3>1, <3>2
  <2>2. CASE ~ (Key(x, y) = Key(c, d) /\ old = 0)
    <3>1. val'[Key(x, y)] = At(x, y)
      BY <1>4, <1>11, <2>2
    <3> QED
      BY <1>1, <1>11, <3>1 DEF SameNext
  <2> QED
    BY <2>1, <2>2
<1>12. ASSUME NEW l \in Ob, NEW r \in Ob, At(l, r) # 0
       PROVE  \E x, y \in Ob : /\ val'[Key(x, y)] \in Ob
                               /\ SameNext(l, r, At(l, r), x, y, val'[Key(x, y)])
  <2>1. CASE Key(l, r) = Key(a, b)
    <3>1. At(l, r) = v
      BY <1>2, <2>1 DEF At
    <3>2. val'[Key(c, d)] \in Ob /\ cls'[val'[Key(c, d)]] = cls'[v]
      BY <1>1, <1>2, <1>4, <1>7
    <3>3. CASE l = a /\ r = b
      BY <1>1, <1>8, <3>1, <3>2, <3>3 DEF SameNext
    <3>4. CASE kind = "symmetric" /\ l = b /\ r = a
      BY <1>1, <1>8, <1>10, <3>1, <3>2, <3>4 DEF SameNext
    <3> QED
      BY <1>9, <2>1, <3>3, <3>4
  <2>2. CASE Key(l, r) # Key(a, b)
    <3>1. Key(l, r) = Key(c, d) => At(l, r) = old
      BY <1>2 DEF At
    <3>2. val'[Key(l, r)] = At(l, r)
      BY <1>4, <1>12, <2>2, <3>1
    <3> QED
      BY <1>1, <1>12, <3>2 DEF SameNext
  <2> QED
    BY <2>1, <2>2
<1>13. \A u \in Thread : pc[u] = "fun_set" => pc'[u] = "fun_set" /\ arg'[u] = arg[u]
  OBVIOUS
<1>14. FunFacts'
  BY <1>0, <1>7, <1>11, <1>12, <1>13, FunFactsNext
<1> QED
  BY <1>7, <1>14

\* The values that are the dep become the rep.
LEMMA ValueFacts ==
  ASSUME SInv, AFunction, ClassInv, AskedInv, Finest, FunFacts, MoveVal
  PROVE  ClassInv' /\ Finest' /\ FunFacts'
<1>0. CarrierInv /\ MergeInv /\ FunInv
  BY DEF SInv
<1>1. UNCHANGED <<kind, root, cls, facts, eqs, pc, arg>> /\ pass = "val"
  BY DEF MoveVal, carrierVars, taskVars, askedVars
<1>2. rep \in Live /\ dep \in Live /\ cls[rep] = cls[dep]
  BY <1>0, <1>1, RepIsLive, LiveClass
<1>3. /\ 0 \notin Ob /\ Live \subseteq Ob
      /\ \A x, y \in Ob : At(x, y) # 0 => At(x, y) \in Live
  BY <1>0, AtTypes
<1>4. \A l, r \in Ob : val'[Key(l, r)] = IF At(l, r) = dep THEN rep ELSE At(l, r)
  BY <1>0, ValMoves
<1>5. ClassInv' /\ Finest' /\ Coarser
  BY <1>1, ClassesStay
<1>6. ASSUME NEW l \in Ob, NEW r \in Ob
      PROVE  /\ val'[Key(l, r)] # 0 <=> At(l, r) # 0
             /\ At(l, r) # 0 => /\ val'[Key(l, r)] \in Ob
                                /\ SameNext(l, r, At(l, r), l, r, val'[Key(l, r)])
  BY <1>1, <1>2, <1>3, <1>4 DEF SameNext
<1>7. \A l, r \in Ob : val'[Key(l, r)] # 0 => \E v \in Ob :
        /\ v = val'[Key(l, r)]
        /\ \E a, b \in Ob : At(a, b) # 0 /\ SameNext(a, b, At(a, b), l, r, v)
  BY <1>6
<1>8. \A a, b \in Ob : At(a, b) # 0 =>
        \E l, r \in Ob : /\ val'[Key(l, r)] \in Ob
                         /\ SameNext(a, b, At(a, b), l, r, val'[Key(l, r)])
  BY <1>6
<1>9. \A u \in Thread : pc[u] = "fun_set" => pc'[u] = "fun_set" /\ arg'[u] = arg[u]
  BY <1>1
<1>10. FunFacts'
  BY <1>0, <1>1, <1>5, <1>7, <1>8, <1>9, FunFactsNext
<1> QED
  BY <1>5, <1>10

\* The steps of a merge that move one entry.
LEMMA MovingFacts ==
  ASSUME SInv, SInv', AFunction, ClassInv, AskedInv, Finest, FunFacts,
         MoveRhs \/ MoveDiagonal \/ MoveLhs
  PROVE  ClassInv' /\ Finest' /\ FunFacts'
<1>0. CarrierInv /\ MergeInv /\ FunInv
  BY DEF SInv
<1>1. /\ pass \in {"rhs", "diag", "lhs"}
      /\ UNCHANGED <<kind, dep, told, facts, eqs, pc, arg>>
  BY DEF MoveRhs, MoveDiagonal, MoveLhs, taskVars, askedVars
<1>2. /\ rep \in Live /\ rep # dep /\ root[rep] = root[dep] /\ dep \in Live /\ dep # 0 /\ Idle
      /\ rep \in Ob /\ dep \in Ob /\ Live \subseteq Ob
  BY <1>0, <1>1, RepIsLive DEF MergeInv, Live
<1>3. RightLines(rx, dep, rep, todo, pass) /\ LeftLines(lx, dep, rep, todo, pass)
  BY <1>0, <1>2, LinesOf
<1>4. ASSUME NEW a \in Ob, NEW b \in Ob, At(a, b) # 0 PROVE a \in Live /\ b \in Live
  BY <1>0, <1>4, AtTypes
<1>5. CASE MoveRhs
  <2>1. pass = "rhs" /\ todo # {} /\ kind = "binary"
    BY <1>0, <1>5 DEF MoveRhs, MergeInv
  <2>2. PICK l \in Ob : l = Least(todo) /\ l \in todo
    BY <1>0, <2>1, LeastIn DEF FunInv, FunTypes
  <2>3. MoveEntry(<<l, dep>>, <<l, rep>>)
    BY <1>5, <2>2 DEF MoveRhs
  <2>4. At(l, dep) # 0
    BY <1>2, <1>3, <2>1, <2>2 DEF RightLines
  <2>5. Key(l, dep) # Key(l, rep)
    BY <1>2, <2>1 DEF Key
  <2>6. PICK d \in Live, e \in Live : d = dep /\ e = rep
    BY <1>2
  <2>7. /\ l \in Live /\ dep \in {l, d} /\ Key(l, d) # Key(l, e) /\ At(l, d) # 0
        /\ MoveEntry(<<l, d>>, <<l, e>>) /\ root[l] = root[l] /\ root[d] = root[e]
    BY <1>2, <1>4, <2>3, <2>4, <2>5, <2>6
  <2> QED
    BY <1>1, <1>2, <2>7, EntryFacts
<1>6. CASE MoveDiagonal
  <2>1. CASE <<dep, dep>> \in lx
    <3>1. MoveEntry(<<dep, dep>>, <<rep, rep>>) /\ pass = "diag"
      BY <1>6, <2>1 DEF MoveDiagonal
    <3>2. At(dep, dep) # 0
      BY <1>2, <1>3, <2>1, <3>1 DEF LeftLines
    <3>3. Key(dep, dep) # Key(rep, rep)
      BY <1>2 DEF Key
    <3>4. PICK d \in Live, e \in Live : d = dep /\ e = rep
      BY <1>2
    <3>5. /\ dep \in {d, d} /\ Key(d, d) # Key(e, e) /\ At(d, d) # 0
          /\ MoveEntry(<<d, d>>, <<e, e>>) /\ root[d] = root[e]
      BY <1>2, <3>1, <3>2, <3>3, <3>4
    <3> QED
      BY <1>1, <1>2, <3>5, EntryFacts
  <2>2. CASE <<dep, dep>> \notin lx
    <3>1. UNCHANGED <<root, cls, val>>
      BY <1>6, <2>2 DEF MoveDiagonal, carrierVars
    <3>2. ClassInv' /\ Finest' /\ Coarser
      BY <1>1, <3>1, ClassesStay
    <3> QED
      BY <1>0, <1>1, <3>1, <3>2, FunFactsStay
  <2> QED
    BY <2>1, <2>2
<1>7. CASE MoveLhs
  <2>1. pass = "lhs" /\ todo # {}
    BY <1>7 DEF MoveLhs
  <2>2. PICK r \in Ob : r = Least(todo) /\ r \in todo
    BY <1>0, <2>1, LeastIn DEF FunInv, FunTypes
  <2>3. MoveEntry(<<dep, r>>, <<rep, r>>)
    BY <1>7, <2>2 DEF MoveLhs
  <2>4. At(dep, r) # 0
    BY <1>2, <1>3, <2>1, <2>2 DEF LeftLines
  <2>5. r # dep
    BY <1>0, <2>1, <2>4 DEF FunInv, FunCleared
  <2>6. Key(dep, r) # Key(rep, r)
    BY <1>2, <2>5, KeyEqual
  <2>7. PICK d \in Live, e \in Live : d = dep /\ e = rep
    BY <1>2
  <2>8. /\ r \in Live /\ dep \in {d, r} /\ Key(d, r) # Key(e, r) /\ At(d, r) # 0
        /\ MoveEntry(<<d, r>>, <<e, r>>) /\ root[r] = root[r] /\ root[d] = root[e]
    BY <1>2, <1>4, <2>3, <2>4, <2>6, <2>7
  <2> QED
    BY <1>1, <1>2, <2>8, EntryFacts
<1> QED
  BY <1>5, <1>6, <1>7

\* All the steps of a task on a function.
LEMMA FunTaskFacts ==
  ASSUME SInv, AFunction, ClassInv, AskedInv, Finest, FunFacts, NEW t \in Thread, Insert(t)
  PROVE  ClassInv' /\ AskedInv' /\ Finest' /\ FunFacts'
<1>0. CarrierInv /\ MergeInv /\ ThreadTypes /\ ThreadInv /\ FunInv
  BY DEF SInv
<1>1. CASE StartInsert(t)
  <2>1. PICK l \in Live, r \in Live, v \in Live : Start(t, "fun_set", <<l, r, v>>, {<<l, r, v>>})
    BY <1>1 DEF StartInsert, AFunction
  <2>2. PICK f : f = <<l, r, v>>
    OBVIOUS
  <2>3. {f} \subseteq FactsOf(kind)
    <3>1. FactsOf(kind) = Ob \X Ob \X Ob
      BY DEF FactsOf, AFunction
    <3> QED
      BY <2>2, <3>1 DEF Live
  <2>4. StartsWith(t, "fun_set", f, {f}) /\ AskedInv'
    <3>1. "fun_set" \notin LineLabel /\ "fun_set" # "idle"
      BY DEF LineLabel
    <3> QED
      BY <1>0, <2>1, <2>2, <2>3, <3>1, StartAsks
  <2>5. ClassInv' /\ Finest'
    <3>1. UNCHANGED <<kind, root, cls, eqs>> /\ facts \subseteq facts'
      BY <2>4 DEF StartsWith
    <3> QED
      BY <3>1, FinestStays DEF ClassInv
  <2> QED
    BY <2>4, <2>5, FunFactsStart
<1>2. CASE Proceed(t)
  <2>1. TaskGoes(t) /\ UNCHANGED <<kind, facts, eqs>> /\ AskedInv'
    BY <1>0, <1>2, ProceedGoes, AskedGoes
  <2>2. pc[t] \in FunLabel
    BY <1>0, <2>1 DEF ThreadInv, Placed, AFunction, TaskGoes
  <2>3. FunSet(t) \/ FunLines(t) \/ FunIndex(t) \/ FunTell(t)
    BY <1>2, <2>2 DEF Proceed, FunLabel, InjSet, InjTell, InjInv, InjInvSet, RelFirst, RelSecond,
       RelTell, LineLoad, LineOr, LineTell, UnSet
  <2>4. CASE FunSet(t)
    BY <2>1, <2>4, FunFactsSet
  <2>5. CASE FunLines(t) \/ FunIndex(t) \/ FunTell(t)
    <3>1. UNCHANGED <<root, cls, val>> /\ pc[t] # "fun_set"
      BY <2>5 DEF FunLines, FunIndex, FunTell, carrierVars, tableVars
    <3>2. ClassInv' /\ Finest' /\ Coarser
      BY <2>1, <3>1, ClassesStay
    <3>3. \A u \in Thread : pc[u] = "fun_set" => pc'[u] = "fun_set" /\ arg'[u] = arg[u]
      BY <2>1, <3>1 DEF TaskGoes
    <3> QED
      BY <1>0, <2>1, <3>1, <3>2, <3>3, FunFactsStay
  <2> QED
    BY <2>3, <2>4, <2>5
<1> QED
  BY <1>1, <1>2 DEF Insert, Proceed

-----------------------------------------------------------------------------
(* Injective functions.                                                    *)

\* Equal keys have equal values, and equal values equal keys.
LEMMA SameEntry ==
  ASSUME kind = "injective", AskedInv, NEW d \in {1, 2}, NEW f1 \in facts, NEW f2 \in facts,
         NEW a \in Ob, NEW u \in Ob, NEW c \in Ob, NEW w \in Ob,
         LikeAt(d, f1, a, u), LikeAt(d, f2, c, w), cls[a] = cls[c]
  PROVE  Justified(u, w)
<1> SUFFICES ASSUME NEW g \in Partitions, Closed(g), Finer(cls, g) PROVE g[u] = g[w]
  BY DEF Justified
<1>1. f1[1] \in Ob /\ f1[2] \in Ob /\ f2[1] \in Ob /\ f2[2] \in Ob
  BY FactTypes
<1>2. (g[f1[1]] = g[f2[1]]) <=> (g[f1[2]] = g[f2[2]])
  BY DEF Closed
<1>3. CASE d = 1
  BY <1>1, <1>2, <1>3 DEF LikeAt, Like2, Finer
<1>4. CASE d = 2
  BY <1>1, <1>2, <1>4 DEF LikeAt, Like2, Finer
<1> QED
  BY <1>3, <1>4

LEMMA LikeNext ==
  ASSUME kind = "injective", AskedInv, Coarser, NEW d \in {1, 2}, NEW f \in facts,
         NEW a \in Ob, NEW u \in Ob, NEW x \in Ob, NEW y \in Ob,
         LikeAt(d, f, a, u), cls'[a] = cls'[x], cls'[u] = cls'[y]
  PROVE  LikeAt(d, f, x, y)'
<1>1. f[1] \in Ob /\ f[2] \in Ob
  BY FactTypes
<1>2. CASE d = 1
  BY <1>1, <1>2 DEF LikeAt, Like2, Coarser
<1>3. CASE d = 2
  BY <1>1, <1>3 DEF LikeAt, Like2, Coarser
<1> QED
  BY <1>2, <1>3

\* Entries may move within their classes, and one may be set from a fact: every
\* new entry has an origin, every old one goes somewhere, and a thread goes on or
\* has written its fact.
Origins(d, T, U) ==
  \A x \in Ob : U[x] # 0 =>
    \/ \E f \in facts : LikeAt(d, f, x, U[x])'
    \/ \E a \in Ob : T[a] # 0 /\ cls'[a] = cls'[x] /\ cls'[T[a]] = cls'[U[x]]

Kept(T, U) ==
  \A a \in Ob : T[a] # 0 =>
    \E x \in Ob : U[x] # 0 /\ cls'[a] = cls'[x] /\ cls'[T[a]] = cls'[U[x]]

Written(d, U, L, M) ==
  \A t \in Thread : pc[t] \in L =>
    \/ pc'[t] \in M /\ arg'[t] = arg[t]
    \/ \E f \in facts, x \in Ob : f = arg[t] /\ U[x] # 0 /\ LikeAt(d, f, x, U[x])'

\* All go on but the thread that writes this fact.
HandedOn(f, L, M) ==
  \A t \in Thread : pc[t] \in L =>
    \/ pc'[t] \in M /\ arg'[t] = arg[t]
    \/ arg[t] = f

LEMMA BackedNext ==
  ASSUME kind = "injective", AskedInv, Coarser, facts' = facts, NEW d \in {1, 2},
         NEW T \in [Ob -> Rep], NEW U \in [Ob -> Rep], NEW L, NEW M, Backed(d, T, L),
         Origins(d, T, U), Kept(T, U), Written(d, U, L, M)
  PROVE  Backed(d, U, M)'
<1>1. \A r \in Rep : r # 0 => r \in Ob
  BY DEF Ob, Rep
<1>2. ASSUME NEW x \in Ob, U[x] # 0 PROVE \E f \in facts' : LikeAt(d, f, x, U[x])'
  <2>1. CASE \E f \in facts : LikeAt(d, f, x, U[x])'
    BY <2>1
  <2>2. CASE \E a \in Ob : T[a] # 0 /\ cls'[a] = cls'[x] /\ cls'[T[a]] = cls'[U[x]]
    <3>1. PICK a \in Ob : T[a] # 0 /\ cls'[a] = cls'[x] /\ cls'[T[a]] = cls'[U[x]]
      BY <2>2
    <3>2. PICK f \in facts : LikeAt(d, f, a, T[a])
      BY <3>1 DEF Backed
    <3>3. PICK u \in Ob, y \in Ob : u = T[a] /\ y = U[x]
      BY <1>1, <1>2, <3>1
    <3>4. LikeAt(d, f, x, y)'
      BY <3>1, <3>2, <3>3, LikeNext
    <3> QED
      BY <3>3, <3>4
  <2> QED
    BY <1>2, <2>1, <2>2 DEF Origins
<1>3. ASSUME NEW f \in facts
      PROVE  \/ \E x \in Ob : U[x] # 0 /\ LikeAt(d, f, x, U[x])'
             \/ \E t \in Thread : pc'[t] \in M /\ arg'[t] = f
  <2>1. CASE \E a \in Ob : T[a] # 0 /\ LikeAt(d, f, a, T[a])
    <3>1. PICK a \in Ob : T[a] # 0 /\ LikeAt(d, f, a, T[a])
      BY <2>1
    <3>2. PICK x \in Ob : U[x] # 0 /\ cls'[a] = cls'[x] /\ cls'[T[a]] = cls'[U[x]]
      BY <3>1 DEF Kept
    <3>3. PICK u \in Ob, y \in Ob : u = T[a] /\ y = U[x]
      BY <1>1, <3>1, <3>2
    <3>4. LikeAt(d, f, x, y)'
      BY <3>1, <3>2, <3>3, LikeNext
    <3> QED
      BY <3>2, <3>3, <3>4
  <2>2. CASE \E t \in Thread : pc[t] \in L /\ arg[t] = f
    BY <2>2 DEF Written
  <2> QED
    BY <2>1, <2>2 DEF Backed
<1> QED
  BY <1>2, <1>3 DEF Backed

LEMMA BackedStays ==
  ASSUME kind = "injective", AskedInv, Coarser, facts' = facts, NEW d \in {1, 2},
         NEW T \in [Ob -> Rep], NEW L, NEW M, Backed(d, T, L),
         \A t \in Thread : pc[t] \in L => pc'[t] \in M /\ arg'[t] = arg[t]
  PROVE  Backed(d, T, M)'
<1>1. Origins(d, T, T)
  BY DEF Origins
<1>2. Kept(T, T)
  BY DEF Kept
<1>3. Written(d, T, L, M)
  BY DEF Written
<1> QED
  BY <1>1, <1>2, <1>3, BackedNext

\* A fact is written into one table, or merged with the entry that is there.
LEMMA BackedSet ==
  ASSUME CarrierInv, ClassInv, AskedInv, Finest, kind = "injective",
         UNCHANGED <<kind, dep, facts, eqs>>, NEW d \in {1, 2},
         NEW T \in [Ob -> Rep], \A x \in Ob : T[x] # 0 => T[x] \in Live,
         NEW f \in facts, NEW k \in Live, NEW v \in Live, LikeAt(d, f, k, v),
         NEW w \in SetAnd(T[k], v), NEW U, U = [T EXCEPT ![k] = w], MergeUnlessSet(T[k], v),
         NEW L, NEW M, Backed(d, T, L),
         HandedOn(f, L, M)
  PROVE  ClassInv' /\ Finest' /\ Coarser /\ Backed(d, U, M)'
<1>1. Live \subseteq Ob /\ 0 \notin Ob /\ Ob \subseteq Rep
  BY TablesAssumption DEF Live, Ob, Rep
<1>2. PICK old : old = T[k] /\ w \in SetAnd(old, v) /\ (old = 0 \/ old \in Live)
  BY <1>1
<1>3. MergeUnlessSet(old, v)
  BY <1>2
<1>4. old # 0 => Justified(old, v)
  <2> SUFFICES ASSUME old # 0 PROVE Justified(old, v)
    OBVIOUS
  <2>1. old \in Ob /\ k \in Ob /\ v \in Ob
    BY <1>1, <1>2
  <2>2. PICK h \in facts : LikeAt(d, h, k, old)
    BY <1>2, <2>1 DEF Backed
  <2> QED
    BY <2>1, <2>2, SameEntry
<1>5. ClassInv' /\ Finest' /\ Coarser /\ (old # 0 => cls'[old] = cls'[v])
  BY <1>2, <1>3, <1>4, ClassesCollide
<1>6. w \in Live /\ cls'[w] = cls'[v]
  <2>1. w \in Live /\ CarrierInv' /\ Live' = Live /\ root'[w] = root'[v]
    BY <1>2, <1>3, SetAndLive
  <2>2. w \in Ob /\ v \in Ob /\ root'[w] # 0 /\ root'[v] # 0
    <3>1. w \in Live' /\ v \in Live'
      BY <2>1
    <3> QED
      BY <3>1 DEF Live
  <2>3. cls'[w] = root'[w] /\ cls'[v] = root'[v]
    BY <1>5, <2>2 DEF ClassInv
  <2> QED
    BY <2>1, <2>3
<1>7. /\ U \in [Ob -> Rep] /\ U[k] = w /\ \A x \in Ob \ {k} : U[x] = T[x]
      /\ k \in Ob /\ v \in Ob /\ w \in Ob /\ w # 0
  BY <1>1, <1>2, <1>6
<1>8. LikeAt(d, f, k, w)'
  BY <1>5, <1>6, <1>7, LikeNext
<1>9. Origins(d, T, U)
  <2> SUFFICES ASSUME NEW x \in Ob, U[x] # 0
               PROVE  \/ \E h \in facts : LikeAt(d, h, x, U[x])'
                      \/ \E a \in Ob : T[a] # 0 /\ cls'[a] = cls'[x] /\ cls'[T[a]] = cls'[U[x]]
    BY DEF Origins
  <2>1. CASE x = k
    BY <1>7, <1>8, <2>1
  <2>2. CASE x # k
    BY <1>7, <2>2
  <2> QED
    BY <2>1, <2>2
<1>10. Kept(T, U)
  <2> SUFFICES ASSUME NEW a \in Ob, T[a] # 0
               PROVE  U[a] # 0 /\ cls'[T[a]] = cls'[U[a]]
    BY DEF Kept
  <2>1. CASE a = k
    BY <1>2, <1>5, <1>6, <1>7, <2>1
  <2>2. CASE a # k
    BY <1>7, <2>2
  <2> QED
    BY <2>1, <2>2
<1>11. Written(d, U, L, M)
  <2>1. \E h \in facts, x \in Ob : h = f /\ U[x] # 0 /\ LikeAt(d, h, x, U[x])'
    BY <1>7, <1>8
  <2> QED
    BY <2>1 DEF HandedOn, Written
<1>12. Backed(d, U, M)'
  BY <1>5, <1>7, <1>9, <1>10, <1>11, BackedNext
<1> QED
  BY <1>5, <1>12

\* The entry of the dep, and the values that are the dep, go to the rep.
LEMMA BackedMoves ==
  ASSUME CarrierInv, ClassInv, AskedInv, Finest, kind = "injective",
         UNCHANGED <<kind, dep, facts, eqs, pc, arg>>, NEW d \in {1, 2},
         NEW T \in [Ob -> Rep], NEW set \in SUBSET Ob,
         \A x \in Ob : T[x] # 0 <=> x \in set,
         \A x \in Ob : T[x] # 0 => {x, T[x]} \subseteq Live,
         dep \in Live, rep \in Live, dep # rep, root[rep] = root[dep], MergeInjected(T, set),
         NEW U \in Injected(T, set), NEW L, Backed(d, T, L)
  PROVE  ClassInv' /\ Finest' /\ Coarser /\ Backed(d, U, L)'
<1>1. Live \subseteq Ob /\ 0 \notin Ob /\ Ob \subseteq Rep
  BY TablesAssumption DEF Live, Ob, Rep
<1>2. PICK old, v : old = T[rep] /\ v = T[dep]
  OBVIOUS
<1>3. cls[dep] = cls[rep] /\ dep \in Ob /\ rep \in Ob
  BY <1>1, LiveClass
<1>4. ClassInv' /\ Finest' /\ Coarser /\ (dep \in set /\ old # 0 => cls'[old] = cls'[v])
  <2>1. CASE dep \in set
    <3>1. v \in Live /\ v \in Ob /\ v # 0 /\ (old = 0 \/ old \in Live) /\ MergeUnlessSet(old, v)
      BY <1>1, <1>2, <1>3, <2>1 DEF MergeInjected
    <3>2. old # 0 => Justified(old, v)
      <4> SUFFICES ASSUME old # 0 PROVE Justified(old, v)
        OBVIOUS
      <4>1. old \in Ob
        BY <1>1, <3>1
      <4>2. PICK h1 \in facts : LikeAt(d, h1, rep, old)
        BY <1>2, <1>3 DEF Backed
      <4>3. PICK h2 \in facts : LikeAt(d, h2, dep, v)
        BY <1>2, <1>3, <3>1 DEF Backed
      <4>4. PICK a \in Ob, b \in Ob : a = rep /\ b = dep
        BY <1>3
      <4>5. LikeAt(d, h1, a, old) /\ LikeAt(d, h2, b, v) /\ cls[a] = cls[b]
        BY <1>3, <4>2, <4>3, <4>4
      <4> QED
        BY <3>1, <4>1, <4>5, SameEntry
    <3> QED
      BY <3>1, <3>2, ClassesCollide
  <2>2. CASE dep \notin set
    <3>1. UNCHANGED <<kind, root, cls, facts, eqs>>
      BY <2>2 DEF MergeInjected, MergeNothing, carrierVars
    <3> QED
      BY <2>2, <3>1, ClassesStay
  <2> QED
    BY <2>1, <2>2
<1>5. /\ CarrierInv' /\ Live' = Live /\ U \in [Ob -> Rep]
      /\ \A x \in Ob : U[x] # 0 => {x, U[x]} \subseteq Live
      /\ \A x \in Ob \ {dep, rep} : U[x] = IF T[x] = dep THEN rep ELSE T[x]
      /\ U[dep] = 0
      /\ dep \notin set => U[rep] = IF T[rep] = dep THEN rep ELSE T[rep]
      /\ dep \in set => \E w \in Live : /\ U[rep] = IF w = dep THEN rep ELSE w
                                       /\ root'[w] = root'[v]
  BY <1>2, InjectedTable
<1>6. cls'[dep] = cls'[rep]
  BY <1>3, <1>4 DEF Coarser
<1>7. dep \in set => \E w \in Ob : /\ U[rep] = IF w = dep THEN rep ELSE w
                                  /\ w # 0 /\ v # 0 /\ cls'[w] = cls'[v]
  <2> SUFFICES ASSUME dep \in set
               PROVE  \E w \in Ob : /\ U[rep] = IF w = dep THEN rep ELSE w
                                  /\ w # 0 /\ v # 0 /\ cls'[w] = cls'[v]
    OBVIOUS
  <2>0. PICK w \in Live : U[rep] = (IF w = dep THEN rep ELSE w) /\ root'[w] = root'[v]
    BY <1>5
  <2>1. w \in Live' /\ v \in Live' /\ v \in Live /\ w \in Live
    BY <1>1, <1>2, <1>3, <1>5
  <2>2. w \in Ob /\ v \in Ob /\ root'[w] # 0 /\ root'[v] # 0 /\ w # 0 /\ v # 0
    BY <1>1, <2>1 DEF Live
  <2>3. cls'[w] = root'[w] /\ cls'[v] = root'[v]
    BY <1>4, <2>2 DEF ClassInv
  <2> QED
    BY <2>0, <2>2, <2>3
<1>8. \A x \in Ob \ {dep, rep} :
        (T[x] # 0 <=> U[x] # 0) /\ (T[x] # 0 => cls'[T[x]] = cls'[U[x]])
  BY <1>1, <1>3, <1>5, <1>6
<1>9. dep \notin set => T[dep] = 0 /\ (T[rep] # 0 <=> U[rep] # 0)
                        /\ (T[rep] # 0 => cls'[T[rep]] = cls'[U[rep]])
  BY <1>1, <1>3, <1>5, <1>6
<1>10. dep \in set => /\ U[rep] # 0 /\ T[dep] # 0 /\ cls'[U[rep]] = cls'[T[dep]]
                      /\ T[rep] # 0 => cls'[T[rep]] = cls'[U[rep]]
  <2> SUFFICES ASSUME dep \in set
               PROVE  /\ U[rep] # 0 /\ T[dep] # 0 /\ cls'[U[rep]] = cls'[T[dep]]
                      /\ T[rep] # 0 => cls'[T[rep]] = cls'[U[rep]]
    OBVIOUS
  <2>1. PICK w \in Ob : /\ U[rep] = IF w = dep THEN rep ELSE w
                       /\ w # 0 /\ v # 0 /\ cls'[w] = cls'[v]
    BY <1>7
  <2>2. U[rep] # 0 /\ cls'[U[rep]] = cls'[v]
    BY <1>1, <1>3, <1>6, <2>1
  <2> QED
    BY <1>2, <1>4, <2>1, <2>2
<1>11. Origins(d, T, U)
  <2> SUFFICES ASSUME NEW x \in Ob, U[x] # 0
               PROVE  \E a \in Ob : T[a] # 0 /\ cls'[a] = cls'[x] /\ cls'[T[a]] = cls'[U[x]]
    BY DEF Origins
  <2>1. CASE x = rep /\ dep \in set
    <3>1. T[dep] # 0 /\ cls'[dep] = cls'[x] /\ cls'[T[dep]] = cls'[U[x]]
      BY <1>6, <1>10, <2>1
    <3> QED
      BY <1>3, <3>1
  <2>2. CASE x = rep /\ dep \notin set
    BY <1>9, <2>2
  <2>3. CASE x \notin {dep, rep}
    BY <1>8, <2>3
  <2> QED
    BY <1>5, <2>1, <2>2, <2>3
<1>12. Kept(T, U)
  <2> SUFFICES ASSUME NEW a \in Ob, T[a] # 0
               PROVE  \E x \in Ob : U[x] # 0 /\ cls'[a] = cls'[x] /\ cls'[T[a]] = cls'[U[x]]
    BY DEF Kept
  <2>1. CASE a = dep
    <3>1. U[rep] # 0 /\ cls'[a] = cls'[rep] /\ cls'[T[a]] = cls'[U[rep]]
      BY <1>6, <1>9, <1>10, <2>1
    <3> QED
      BY <1>3, <3>1
  <2>2. CASE a = rep
    BY <1>9, <1>10, <2>2
  <2>3. CASE a \notin {dep, rep}
    BY <1>8, <2>3
  <2> QED
    BY <2>1, <2>2, <2>3
<1>13. Written(d, U, L, L)
  BY DEF Written
<1>14. Backed(d, U, L)'
  BY <1>4, <1>5, <1>11, <1>12, <1>13, BackedNext
<1> QED
  BY <1>4, <1>14

\* A task that leaves the tables as they are.
LEMMA InjFactsStay ==
  ASSUME kind = "injective", InjTypes, AskedInv, InjFacts, Coarser,
         UNCHANGED <<kind, facts, val, inv>>,
         \A t \in Thread : \A l \in {"inj_set", "inj_tell", "inj_inv"} :
           pc[t] = l => pc'[t] \in {l, "inj_inv"} /\ arg'[t] = arg[t]
             /\ (l = "inj_set" => pc'[t] = l)
  PROVE  InjFacts'
<1>1. PICK T \in [Ob -> Rep], U \in [Ob -> Rep] : T = val /\ U = inv
  BY DEF InjTypes
<1>2. Backed(1, T, {"inj_set"}) /\ Backed(2, U, {"inj_set", "inj_tell", "inj_inv"})
  BY <1>1 DEF InjFacts
<1>3. Backed(1, T, {"inj_set"})'
  <2>1. \A t \in Thread : pc[t] \in {"inj_set"} => pc'[t] \in {"inj_set"} /\ arg'[t] = arg[t]
    OBVIOUS
  <2> QED
    BY <1>2, <2>1, BackedStays
<1>4. Backed(2, U, {"inj_set", "inj_tell", "inj_inv"})'
  <2>1. \A t \in Thread : pc[t] \in {"inj_set", "inj_tell", "inj_inv"} =>
          pc'[t] \in {"inj_set", "inj_tell", "inj_inv"} /\ arg'[t] = arg[t]
    OBVIOUS
  <2> QED
    BY <1>2, <2>1, BackedStays
<1>5. T = val' /\ U = inv'
  BY <1>1
<1> QED
  BY <1>3, <1>4, <1>5 DEF InjFacts, Backed

LEMMA InjFactsStart ==
  ASSUME kind = "injective", InjFacts, NEW t \in Thread, NEW f, StartsWith(t, "inj_set", f, {f})
  PROVE  InjFacts'
<1>1. /\ facts' = facts \cup {f} /\ UNCHANGED <<kind, cls, val, inv>>
      /\ pc[t] = "idle" /\ pc'[t] = "inj_set" /\ arg'[t] = f
      /\ \A u \in Thread \ {t} : pc'[u] = pc[u] /\ arg'[u] = arg[u]
  BY DEF StartsWith
<1>2. \A d, h, x, y : LikeAt(d, h, x, y)' = LikeAt(d, h, x, y)
  BY <1>1 DEF LikeAt, Like2
<1>3. ASSUME NEW d, NEW T, NEW L, Backed(d, T, L), "inj_set" \in L, "idle" \notin L
      PROVE  Backed(d, T, L)'
  <2>1. \A x \in Ob : T[x] # 0 => \E h \in facts' : LikeAt(d, h, x, T[x])'
    BY <1>1, <1>2, <1>3 DEF Backed
  <2>2. ASSUME NEW h \in facts'
        PROVE  \/ \E x \in Ob : T[x] # 0 /\ LikeAt(d, h, x, T[x])'
               \/ \E u \in Thread : pc'[u] \in L /\ arg'[u] = h
    <3>1. CASE h = f
      BY <1>1, <1>3, <3>1
    <3>2. CASE h \in facts
      <4>1. CASE \E x \in Ob : T[x] # 0 /\ LikeAt(d, h, x, T[x])
        BY <1>2, <4>1
      <4>2. CASE \E u \in Thread : pc[u] \in L /\ arg[u] = h
        BY <1>1, <1>3, <4>2
      <4> QED
        BY <1>3, <3>2, <4>1, <4>2 DEF Backed
    <3> QED
      BY <1>1, <3>1, <3>2
  <2> QED
    BY <2>1, <2>2 DEF Backed
<1>4. PICK T, U : T = val /\ U = inv
  OBVIOUS
<1>5. Backed(1, T, {"inj_set"})' /\ Backed(2, U, {"inj_set", "inj_tell", "inj_inv"})'
  BY <1>3, <1>4 DEF InjFacts
<1>6. T = val' /\ U = inv'
  BY <1>1, <1>4
<1> QED
  BY <1>5, <1>6 DEF InjFacts, Backed

\* All the steps of a task on an injective function.
LEMMA InjTaskFacts ==
  ASSUME SInv, kind = "injective", ClassInv, AskedInv, Finest, InjFacts, NEW t \in Thread, Insert(t)
  PROVE  ClassInv' /\ AskedInv' /\ Finest' /\ InjFacts'
<1>0. CarrierInv /\ MergeInv /\ ThreadTypes /\ ThreadInv /\ InjTypes
  BY DEF SInv, InjTables
<1>1. CASE StartInsert(t)
  <2>1. PICK k \in Live, v \in Live : Start(t, "inj_set", <<k, v>>, {<<k, v>>})
    BY <1>1 DEF StartInsert
  <2>2. PICK f : f = <<k, v>>
    OBVIOUS
  <2>3. {f} \subseteq FactsOf(kind)
    <3>1. FactsOf(kind) = Ob \X Ob
      BY DEF FactsOf
    <3> QED
      BY <2>2, <3>1 DEF Live
  <2>4. StartsWith(t, "inj_set", f, {f}) /\ AskedInv'
    <3>1. "inj_set" \notin LineLabel /\ "inj_set" # "idle"
      BY DEF LineLabel
    <3> QED
      BY <1>0, <2>1, <2>2, <2>3, <3>1, StartAsks
  <2>5. ClassInv' /\ Finest'
    <3>1. UNCHANGED <<kind, root, cls, eqs>> /\ facts \subseteq facts'
      BY <2>4 DEF StartsWith
    <3> QED
      BY <3>1, FinestStays DEF ClassInv
  <2> QED
    BY <2>4, <2>5, InjFactsStart
<1>2. CASE Proceed(t)
  <2>1. TaskGoes(t) /\ UNCHANGED <<kind, facts, eqs>> /\ AskedInv'
    BY <1>0, <1>2, ProceedGoes, AskedGoes
  <2>2. /\ \A u \in Thread \ {t} : pc'[u] = pc[u] /\ arg'[u] = arg[u]
        /\ pc[t] # "idle"
    BY <2>1 DEF TaskGoes
  <2>3. pc[t] \in InjLabel /\ arg[t] \in Live \X Live
    BY <1>0, <2>2 DEF ThreadInv, Placed, AFunction
  <2>4. InjSet(t) \/ InjTell(t) \/ InjInv(t) \/ InjInvSet(t)
    BY <1>2, <2>3 DEF Proceed, InjLabel, FunSet, FunLines, FunIndex, FunTell, RelFirst, RelSecond,
       RelTell, LineLoad, LineOr, LineTell, UnSet
  <2>5. PICK k \in Live, v \in Live, f \in facts : f = arg[t] /\ f = <<k, v>>
    BY <2>2, <2>3 DEF AskedInv, InjLabel, LineLabel
  <2>6. LikeAt(1, f, k, v) /\ LikeAt(2, f, v, k)
    BY <2>5 DEF LikeAt, Like2
  <2>7. PICK T \in [Ob -> Rep], U \in [Ob -> Rep] : T = val /\ U = inv
    BY <1>0 DEF InjTypes
  <2>8. /\ \A x \in Ob : T[x] # 0 => T[x] \in Live
        /\ \A x \in Ob : U[x] # 0 => U[x] \in Live
        /\ Backed(1, T, {"inj_set"}) /\ Backed(2, U, {"inj_set", "inj_tell", "inj_inv"})
    BY <1>0, <2>7 DEF InjTypes, InjFacts
  <2>9. pc'[t] # "idle" => arg'[t] = arg[t] /\ <<pc[t], pc'[t]>> \in Onwards
    BY <2>1 DEF TaskGoes
  <2>10. CASE InjSet(t)
    <3>1. /\ pc[t] = "inj_set" /\ pc'[t] \in {"inj_tell", "inj_inv"} /\ arg' = arg
          /\ \E w \in SetAnd(T[k], v) : val' = [T EXCEPT ![k] = w]
          /\ MergeUnlessSet(T[k], v)
          /\ inv' = U /\ UNCHANGED <<kind, dep, facts, eqs>>
      <4>1. /\ pc[t] = "inj_set" /\ MergeUnlessSet(val[k], v)
            /\ \E w \in SetAnd(val[k], v) : val' = [val EXCEPT ![k] = w]
            /\ UNCHANGED <<inv, dep, arg>>
            /\ Goto(t, IF val[k] = 0 THEN "inj_tell" ELSE "inj_inv")
        <5>1. /\ pc[t] = "inj_set"
              /\ \E w \in SetAnd(val[arg[t][1]], arg[t][2]) : val' = [val EXCEPT ![arg[t][1]] = w]
              /\ MergeUnlessSet(val[arg[t][1]], arg[t][2]) /\ UNCHANGED <<inv, dep, arg>>
              /\ Goto(t, IF val[arg[t][1]] = 0 THEN "inj_tell" ELSE "inj_inv")
          BY <2>10 DEF InjSet, mergeVars
        <5>2. arg[t][1] = k /\ arg[t][2] = v
          BY <2>5
        <5> QED
          BY <5>1, <5>2
      <4>2. pc'[t] = IF val[k] = 0 THEN "inj_tell" ELSE "inj_inv"
        BY <1>0, <4>1, ExceptOne DEF Goto, ThreadTypes
      <4> QED
        BY <2>1, <2>7, <4>1, <4>2
    <3>2. PICK V, w : V = val' /\ w \in SetAnd(T[k], v) /\ V = [T EXCEPT ![k] = w]
      BY <3>1
    <3>3. ClassInv' /\ Finest' /\ Coarser /\ Backed(1, V, {"inj_set"})'
      <4>1. HandedOn(f, {"inj_set"}, {"inj_set"})
        BY <2>2, <2>5 DEF HandedOn
      <4> QED
        BY <1>0, <2>6, <2>8, <3>1, <3>2, <4>1, BackedSet
    <3>4. Backed(2, U, {"inj_set", "inj_tell", "inj_inv"})'
      <4>1. \A u \in Thread : pc[u] \in {"inj_set", "inj_tell", "inj_inv"} =>
              pc'[u] \in {"inj_set", "inj_tell", "inj_inv"} /\ arg'[u] = arg[u]
        BY <2>2, <3>1
      <4> QED
        BY <2>1, <2>8, <3>3, <4>1, BackedStays
    <3> QED
      BY <2>1, <3>1, <3>2, <3>3, <3>4 DEF InjFacts, Backed
  <2>11. CASE InjInv(t)
    <3>1. /\ pc[t] = "inj_inv"
          /\ \E w \in SetAnd(U[v], k) : inv' = [U EXCEPT ![v] = w]
          /\ MergeUnlessSet(U[v], k)
          /\ val' = T /\ UNCHANGED <<kind, dep, facts, eqs>>
      <4>1. /\ pc[t] = "inj_inv"
            /\ \E w \in SetAnd(inv[arg[t][2]], arg[t][1]) : inv' = [inv EXCEPT ![arg[t][2]] = w]
            /\ MergeUnlessSet(inv[arg[t][2]], arg[t][1]) /\ UNCHANGED <<val, dep>>
        BY <2>11 DEF InjInv, mergeVars
      <4>2. arg[t][1] = k /\ arg[t][2] = v
        BY <2>5
      <4> QED
        BY <2>1, <2>7, <4>1, <4>2
    <3>2. PICK V, w : V = inv' /\ w \in SetAnd(U[v], k) /\ V = [U EXCEPT ![v] = w]
      BY <3>1
    <3>3. ClassInv' /\ Finest' /\ Coarser /\ Backed(2, V, {"inj_set", "inj_tell", "inj_inv"})'
      <4>1. HandedOn(f, {"inj_set", "inj_tell", "inj_inv"}, {"inj_set", "inj_tell", "inj_inv"})
        BY <2>2, <2>5 DEF HandedOn
      <4> QED
        BY <1>0, <2>6, <2>8, <3>1, <3>2, <4>1, BackedSet
    <3>4. Backed(1, T, {"inj_set"})'
      <4>1. \A u \in Thread : pc[u] \in {"inj_set"} => pc'[u] \in {"inj_set"} /\ arg'[u] = arg[u]
        BY <2>2, <3>1
      <4> QED
        BY <2>1, <2>8, <3>3, <4>1, BackedStays
    <3> QED
      BY <2>1, <3>1, <3>2, <3>3, <3>4 DEF InjFacts, Backed
  <2>12. CASE InjTell(t) \/ InjInvSet(t)
    <3>1. /\ pc[t] \in {"inj_tell", "inj_invset"} /\ UNCHANGED <<root, cls, val, inv>>
          /\ pc[t] = "inj_tell" => pc'[t] = "inj_inv" /\ arg'[t] = arg[t]
      <4>1. CASE InjTell(t)
        <5>1. pc[t] = "inj_tell" /\ UNCHANGED <<root, cls, val, inv, arg>> /\ Goto(t, "inj_inv")
          BY <4>1 DEF InjTell, carrierVars
        <5>2. pc'[t] = "inj_inv"
          BY <1>0, <5>1, ExceptOne DEF Goto, ThreadTypes
        <5> QED
          BY <5>1, <5>2
      <4>2. CASE InjInvSet(t)
        BY <4>2 DEF InjInvSet, carrierVars
      <4> QED
        BY <2>12, <4>1, <4>2
    <3>2. ClassInv' /\ Finest' /\ Coarser
      BY <2>1, <3>1, ClassesStay
    <3>3. \A u \in Thread : \A l \in {"inj_set", "inj_tell", "inj_inv"} :
            pc[u] = l => pc'[u] \in {l, "inj_inv"} /\ arg'[u] = arg[u]
              /\ (l = "inj_set" => pc'[u] = l)
      BY <2>2, <3>1
    <3> QED
      BY <1>0, <2>1, <3>1, <3>2, <3>3, InjFactsStay
  <2> QED
    BY <2>1, <2>4, <2>10, <2>11, <2>12
<1> QED
  BY <1>1, <1>2 DEF Insert, Proceed

\* The two passes of a merge.
LEMMA InjMergeFacts ==
  ASSUME SInv, ClassInv, AskedInv, Finest, InjFacts, MoveKeys \/ MoveInverse
  PROVE  ClassInv' /\ Finest' /\ InjFacts'
<1>0. CarrierInv /\ MergeInv /\ InjTables
  BY DEF SInv
<1>1. /\ kind = "injective" /\ pass \notin {"none", "start"}
      /\ UNCHANGED <<kind, dep, facts, eqs, pc, arg>>
  BY <1>0 DEF MergeInv, MoveKeys, MoveInverse, taskVars, askedVars
<1>2. rep \in Live /\ dep \in Live /\ rep # dep /\ root[rep] = root[dep] /\ Idle
  BY <1>0, <1>1, RepIsLive DEF MergeInv
<1>3. /\ \A x \in Ob : val[x] # 0 <=> x \in lx
      /\ \A x \in Ob : inv[x] # 0 <=> x \in rx
  BY <1>0, <1>1, <1>2, InjWhenIdle
<1>4. PICK T \in [Ob -> Rep], U \in [Ob -> Rep], S \in SUBSET Ob, R \in SUBSET Ob :
        T = val /\ U = inv /\ S = lx /\ R = rx
  BY <1>0, <1>1 DEF InjTables, InjTypes
<1>5. /\ Backed(1, T, {"inj_set"}) /\ Backed(2, U, {"inj_set", "inj_tell", "inj_inv"})
      /\ \A x \in Ob : T[x] # 0 => {x, T[x]} \subseteq Live
      /\ \A x \in Ob : U[x] # 0 => {x, U[x]} \subseteq Live
      /\ \A x \in Ob : T[x] # 0 <=> x \in S
      /\ \A x \in Ob : U[x] # 0 <=> x \in R
  BY <1>0, <1>1, <1>3, <1>4 DEF InjFacts, InjTables, InjTypes
<1>6. CASE MoveKeys
  <2>1. MergeInjected(T, S) /\ val' \in Injected(T, S) /\ inv' = U
    BY <1>4, <1>6 DEF MoveKeys
  <2>2. PICK V : V = val'
    OBVIOUS
  <2>3. ClassInv' /\ Finest' /\ Coarser /\ Backed(1, V, {"inj_set"})'
    BY <1>0, <1>1, <1>2, <1>5, <2>1, <2>2, BackedMoves
  <2>4. Backed(2, U, {"inj_set", "inj_tell", "inj_inv"})'
    BY <1>1, <1>5, <2>3, BackedStays
  <2> QED
    BY <1>1, <2>1, <2>2, <2>3, <2>4 DEF InjFacts, Backed
<1>7. CASE MoveInverse
  <2>1. MergeInjected(U, R) /\ inv' \in Injected(U, R) /\ val' = T
    BY <1>4, <1>7 DEF MoveInverse
  <2>2. PICK V : V = inv'
    OBVIOUS
  <2>3. ClassInv' /\ Finest' /\ Coarser /\ Backed(2, V, {"inj_set", "inj_tell", "inj_inv"})'
    BY <1>0, <1>1, <1>2, <1>5, <2>1, <2>2, BackedMoves
  <2>4. Backed(1, T, {"inj_set"})'
    BY <1>1, <1>5, <2>3, BackedStays
  <2> QED
    BY <1>1, <2>1, <2>2, <2>3, <2>4 DEF InjFacts, Backed
<1> QED
  BY <1>6, <1>7

-----------------------------------------------------------------------------
(* Relations.                                                              *)

\* A task adds pairs that were asked for, and its own is there once it is not
\* coming any more.
LEMMA RelFactsGrow ==
  ASSUME AskedInv, RelFacts, kind = "relation", UNCHANGED <<kind, cls, facts>>,
         lx' \cup rx' \subseteq lx \cup rx \cup facts, lx \cup rx \subseteq lx' \cup rx',
         \A t \in Thread : \A f \in facts : Coming(t, f) => Coming(t, f)' \/ f \in lx' \cup rx'
  PROVE  RelFacts'
<1>1. \A f, x, y : Like2(f, x, y)' = Like2(f, x, y)
  BY DEF Like2
<1>2. \A f : Like2(f, f[1], f[2])
  BY DEF Like2
<1>3. ASSUME NEW p \in lx' \cup rx' PROVE \E f \in facts : Like2(f, p[1], p[2])
  BY <1>2 DEF RelFacts
<1>4. ASSUME NEW f \in facts
      PROVE  \/ \E p \in lx' \cup rx' : Like2(f, p[1], p[2])
             \/ \E t \in Thread : Coming(t, f)'
  <2>1. CASE \E p \in lx \cup rx : Like2(f, p[1], p[2])
    BY <2>1
  <2>2. CASE \E t \in Thread : Coming(t, f)
    BY <1>2, <2>2
  <2> QED
    BY <2>1, <2>2 DEF RelFacts
<1>5. /\ \A p \in (lx \cup rx)' : \E f \in facts' : Like2(f, p[1], p[2])'
      /\ \A f \in facts' : \/ \E p \in (lx \cup rx)' : Like2(f, p[1], p[2])'
                           \/ \E t \in Thread : Coming(t, f)'
  BY <1>1, <1>3, <1>4
<1> QED
  BY <1>5 DEF RelFacts, Like2

\* Where no task goes on, only the classes may have changed.
LEMMA RelFactsStay ==
  ASSUME AskedInv, RelFacts, Coarser, UNCHANGED <<kind, facts, lx, rx, pc, arg>>,
         kind = "relation" => lx \cup rx \subseteq Ob \X Ob
  PROVE  RelFacts'
<1> SUFFICES ASSUME kind = "relation" PROVE RelFacts'
  BY DEF RelFacts
<1>1. \A f \in facts : f[1] \in Ob /\ f[2] \in Ob
  BY FactTypes
<1>2. \A p \in lx \cup rx : p[1] \in Ob /\ p[2] \in Ob
  OBVIOUS
<1>3. \A f \in facts : \A p \in lx \cup rx : Like2(f, p[1], p[2]) => Like2(f, p[1], p[2])'
  BY <1>1, <1>2 DEF Like2, Coarser
<1>4. \A t, f : Coming(t, f)' = Coming(t, f)
  BY DEF Coming
<1>5. /\ \A p \in lx \cup rx : \E f \in facts : Like2(f, p[1], p[2])'
      /\ \A f \in facts : \/ \E p \in lx \cup rx : Like2(f, p[1], p[2])'
                          \/ \E t \in Thread : Coming(t, f)'
  BY <1>3, <1>4 DEF RelFacts
<1> QED
  BY <1>5 DEF RelFacts, Like2

LEMMA RelFactsStart ==
  ASSUME kind = "relation", RelFacts, NEW t \in Thread, NEW l, NEW f, NEW asked,
         StartsWith(t, l, f, asked),
         \/ l \in {"rel_Lx", "rel_Rx"} /\ asked = {f}
         \/ l \in {"row_load", "col_load"} /\ asked = f
  PROVE  RelFacts'
<1>1. /\ facts' = facts \cup asked /\ UNCHANGED <<kind, cls, lx, rx>>
      /\ pc[t] = "idle" /\ pc'[t] = l /\ arg'[t] = f
      /\ \A u \in Thread \ {t} : pc'[u] = pc[u] /\ arg'[u] = arg[u]
  BY DEF StartsWith
<1>2. \A h, x, y : Like2(h, x, y)' = Like2(h, x, y)
  BY <1>1 DEF Like2
<1>3. \A h : ~ Coming(t, h)
  BY <1>1 DEF Coming
<1>4. \A u \in Thread \ {t} : \A h : Coming(u, h)' = Coming(u, h)
  BY <1>1 DEF Coming
<1>5. \A h \in asked : Coming(t, h)'
  BY <1>1 DEF Coming
<1>6. \A p \in lx \cup rx : \E h \in facts' : Like2(h, p[1], p[2])'
  BY <1>1, <1>2 DEF RelFacts
<1>7. ASSUME NEW h \in facts'
      PROVE  \/ \E p \in lx \cup rx : Like2(h, p[1], p[2])'
             \/ \E u \in Thread : Coming(u, h)'
  <2>1. CASE h \in asked
    BY <1>5, <2>1
  <2>2. CASE h \in facts
    <3>1. CASE \E p \in lx \cup rx : Like2(h, p[1], p[2])
      BY <1>2, <3>1
    <3>2. CASE \E u \in Thread : Coming(u, h)
      BY <1>3, <1>4, <3>2
    <3> QED
      BY <2>2, <3>1, <3>2 DEF RelFacts
  <2> QED
    BY <1>1, <2>1, <2>2
<1> QED
  BY <1>1, <1>6, <1>7 DEF RelFacts, Like2

\* All the steps of a task on a relation.
LEMMA RelTaskFacts ==
  ASSUME SInv, kind = "relation", ClassInv, AskedInv, Finest, RelFacts, NEW t \in Thread, Insert(t)
  PROVE  ClassInv' /\ AskedInv' /\ Finest' /\ RelFacts'
<1>0. CarrierInv /\ MergeInv /\ ThreadTypes /\ ThreadInv /\ RelThread(t)
  BY DEF SInv, RelInv
<1>1. CASE StartInsert(t)
  <2>1. PICK l, f, asked :
          /\ Start(t, l, f, asked) /\ asked \subseteq FactsOf(kind)
          /\ \/ l \in {"rel_Lx", "rel_Rx"} /\ asked = {f}
             \/ l \in {"row_load", "col_load"} /\ asked = f
    <3>1. FactsOf(kind) = Ob \X Ob /\ Live \subseteq Ob
      BY DEF FactsOf, Live
    <3>2. ASSUME NEW i \in Live, NEW js \in kSubset(2, Live)
          PROVE  {i} \X js \subseteq Ob \X Ob /\ js \X {i} \subseteq Ob \X Ob
      BY <3>1, <3>2 DEF kSubset
    <3> QED
      <4>1. \/ \E i, j \in Live, l \in {"rel_Lx", "rel_Rx"} : Start(t, l, <<i, j>>, {<<i, j>>})
            \/ \E i \in Live, js \in kSubset(2, Live) :
                 \/ Start(t, "row_load", {i} \X js, {i} \X js)
                 \/ Start(t, "col_load", js \X {i}, js \X {i})
        BY <1>1 DEF StartInsert
      <4>2. CASE \E i, j \in Live, l \in {"rel_Lx", "rel_Rx"} : Start(t, l, <<i, j>>, {<<i, j>>})
        BY <3>1, <4>2
      <4>3. CASE \E i \in Live, js \in kSubset(2, Live) :
                   \/ Start(t, "row_load", {i} \X js, {i} \X js)
                   \/ Start(t, "col_load", js \X {i}, js \X {i})
        <5>1. PICK i \in Live, js \in kSubset(2, Live) :
                \/ Start(t, "row_load", {i} \X js, {i} \X js)
                \/ Start(t, "col_load", js \X {i}, js \X {i})
          BY <4>3
        <5>2. PICK f : /\ f \in {{i} \X js, js \X {i}} /\ f \subseteq FactsOf(kind)
                       /\ Start(t, "row_load", f, f) \/ Start(t, "col_load", f, f)
          BY <3>1, <3>2, <5>1
        <5> QED
          BY <5>2
      <4> QED
        BY <4>1, <4>2, <4>3
  <2>2. StartsWith(t, l, f, asked) /\ AskedInv'
    <3>1. l # "idle" /\ IF l \in LineLabel THEN f \subseteq asked ELSE f \in asked
      BY <2>1 DEF LineLabel
    <3> QED
      BY <1>0, <2>1, <3>1, StartAsks
  <2>3. ClassInv' /\ Finest'
    <3>1. UNCHANGED <<kind, root, cls, eqs>> /\ facts \subseteq facts'
      BY <2>2 DEF StartsWith
    <3> QED
      BY <3>1, FinestStays DEF ClassInv
  <2> QED
    BY <2>1, <2>2, <2>3, RelFactsStart
<1>2. CASE Proceed(t)
  <2>1. TaskGoes(t) /\ UNCHANGED <<kind, facts, eqs>> /\ AskedInv'
    BY <1>0, <1>2, ProceedGoes, AskedGoes
  <2>2. /\ \A u \in Thread \ {t} : pc'[u] = pc[u] /\ arg'[u] = arg[u]
        /\ pc[t] # "idle" /\ (pc'[t] # "idle" => arg'[t] = arg[t])
    BY <2>1 DEF TaskGoes
  <2>3. pc[t] \in PairLabel \cup LineLabel
    BY <1>0, <2>2 DEF ThreadInv, Placed, AFunction
  <2>4. RelFirst(t) \/ RelSecond(t) \/ RelTell(t) \/ LineLoad(t) \/ LineOr(t) \/ LineTell(t)
    BY <1>2, <2>3 DEF Proceed, PairLabel, LineLabel, FunSet, FunLines, FunIndex, FunTell, InjSet,
       InjTell, InjInv, InjInvSet, UnSet
  <2>5. UNCHANGED <<root, cls>>
    BY <2>4 DEF RelFirst, RelSecond, RelTell, LineLoad, LineOr, LineTell, carrierVars
  <2>6. ClassInv' /\ Finest'
    BY <2>1, <2>5, ClassesStay
  <2>7. \A u \in Thread \ {t} : \A f : Coming(u, f) => Coming(u, f)'
    BY <2>2 DEF Coming
  <2>8. IF pc[t] \in LineLabel THEN arg[t] \subseteq facts ELSE arg[t] \in facts
    BY <2>2 DEF AskedInv
  <2>9. /\ lx' \cup rx' \subseteq lx \cup rx \cup facts
        /\ lx \cup rx \subseteq lx' \cup rx'
        /\ \A f \in facts : Coming(t, f) => Coming(t, f)' \/ f \in lx' \cup rx'
    <3>1. CASE RelFirst(t)
      <4>1. \/ pc[t] = "rel_Lx" /\ lx' = lx \cup {arg[t]} /\ rx' = rx
            \/ pc[t] = "rel_Rx" /\ rx' = rx \cup {arg[t]} /\ lx' = lx
        BY <3>1 DEF RelFirst
      <4> QED
        BY <2>8, <4>1 DEF Coming, LineLabel
    <3>2. CASE RelSecond(t)
      <4>1. /\ pc[t] \in {"rel_Rx2", "rel_Lx2"}
            /\ \/ rx' = rx \cup {arg[t]} /\ lx' = lx
               \/ lx' = lx \cup {arg[t]} /\ rx' = rx
        BY <3>2 DEF RelSecond
      <4> QED
        BY <2>8, <4>1 DEF Coming, LineLabel
    <3>3. CASE RelTell(t)
      <4>1. pc[t] = "rel_tell" /\ lx' = lx /\ rx' = rx
        BY <3>3 DEF RelTell, tableVars
      <4> QED
        BY <4>1 DEF Coming
    <3>4. CASE LineLoad(t)
      <4>1. /\ lx' = lx /\ rx' = rx /\ arg' = arg
            /\ \/ pc[t] = "row_load" /\ Goto(t, "row_or")
               \/ pc[t] = "col_load" /\ Goto(t, "col_or")
        BY <3>4 DEF LineLoad, tableVars
      <4>2. pc'[t] \in {"row_or", "col_or"} /\ pc[t] \in {"row_load", "col_load"}
        BY <1>0, <4>1, ExceptOne DEF Goto, ThreadTypes
      <4> QED
        BY <4>1, <4>2 DEF Coming
    <3>5. CASE LineOr(t)
      <4>1. \/ pc[t] = "row_or" /\ lx' = lx \cup arg[t] /\ rx' = rx
            \/ pc[t] = "col_or" /\ rx' = rx \cup arg[t] /\ lx' = lx
        BY <3>5 DEF LineOr
      <4> QED
        BY <2>8, <4>1 DEF Coming, LineLabel
    <3>6. CASE LineTell(t)
      <4>1. \/ pc[t] = "row_tell" /\ rx' = rx \cup new[t] /\ lx' = lx
            \/ pc[t] = "col_tell" /\ lx' = lx \cup new[t] /\ rx' = rx
        BY <3>6 DEF LineTell
      <4>2. new[t] \subseteq facts
        BY <1>0, <2>8, <4>1 DEF RelThread, LineLabel
      <4> QED
        BY <4>1, <4>2 DEF Coming
    <3> QED
      BY <2>4, <3>1, <3>2, <3>3, <3>4, <3>5, <3>6
  <2>10. \A u \in Thread : \A f \in facts : Coming(u, f) => Coming(u, f)' \/ f \in lx' \cup rx'
    BY <2>7, <2>9
  <2> QED
    BY <2>1, <2>5, <2>6, <2>9, <2>10, RelFactsGrow
<1> QED
  BY <1>1, <1>2 DEF Insert, Proceed

\* Folding the line of the dep changes no class.
SameClasses(p, q) == cls[p[1]] = cls[q[1]] /\ cls[p[2]] = cls[q[2]]

LEMMA FoldedClasses ==
  ASSUME cls[dep] = cls[rep], NEW S, NEW A, NEW B, S \subseteq A \X B
  PROVE  /\ \A p \in RowsFolded(S) : \E q \in S : SameClasses(p, q)
         /\ \A q \in S : \E p \in RowsFolded(S) : SameClasses(p, q)
         /\ \A p \in ColumnsFolded(S) : \E q \in S : SameClasses(p, q)
         /\ \A q \in S : \E p \in ColumnsFolded(S) : SameClasses(p, q)
<1>1. \A q \in S : <<rep, q[2]>> \in RowsFolded(S) \/ q[1] # dep
  BY DEF RowsFolded
<1>2. \A q \in S : <<q[1], rep>> \in ColumnsFolded(S) \/ q[2] # dep
  BY DEF ColumnsFolded
<1>3. \A p \in RowsFolded(S) : p \in S \/ \E q \in S : q[1] = dep /\ p = <<rep, q[2]>>
  BY DEF RowsFolded
<1>4. \A p \in ColumnsFolded(S) : p \in S \/ \E q \in S : q[2] = dep /\ p = <<q[1], rep>>
  BY DEF ColumnsFolded
<1>5. /\ \A q \in S : q[1] # dep => q \in RowsFolded(S)
      /\ \A q \in S : q[2] # dep => q \in ColumnsFolded(S)
  BY DEF RowsFolded, ColumnsFolded
<1>6. /\ \A q \in S : SameClasses(q, q)
      /\ \A q \in S : q[1] = dep => SameClasses(<<rep, q[2]>>, q)
      /\ \A q \in S : q[2] = dep => SameClasses(<<q[1], rep>>, q)
  BY DEF SameClasses
<1>7. \A p \in RowsFolded(S) : \E q \in S : SameClasses(p, q)
  BY <1>3, <1>6
<1>8. \A q \in S : \E p \in RowsFolded(S) : SameClasses(p, q)
  BY <1>1, <1>5, <1>6
<1>9. \A p \in ColumnsFolded(S) : \E q \in S : SameClasses(p, q)
  BY <1>4, <1>6
<1>10. \A q \in S : \E p \in ColumnsFolded(S) : SameClasses(p, q)
  BY <1>2, <1>5, <1>6
<1> QED
  BY <1>7, <1>8, <1>9, <1>10

LEMMA RelMergeFacts ==
  ASSUME SInv, ClassInv, AskedInv, Finest, RelFacts, MoveRelation
  PROVE  ClassInv' /\ Finest' /\ RelFacts'
<1>0. CarrierInv /\ MergeInv /\ RelInv
  BY DEF SInv
<1>1. /\ kind = "relation" /\ pass \notin {"none", "start"} /\ UNCHANGED <<kind, root, cls, facts, eqs>>
      /\ lx' = rx' /\ rx' = ColumnsFolded(RowsFolded(lx)) /\ lx = rx /\ pc' = pc
  BY <1>0, RelMerge DEF MoveRelation, carrierVars, taskVars, askedVars
<1>2. cls[dep] = cls[rep] /\ \A t \in Thread : pc[t] = "idle"
  BY <1>0, <1>1, RepIsLive, LiveClass DEF MergeInv, Idle
<1>3. PICK S, R : S = lx /\ R = RowsFolded(S)
  OBVIOUS
<1>4. /\ S \subseteq Live \X Live
      /\ R \subseteq (Live \cup {rep}) \X Live
  <2>1. S \subseteq Live \X Live
    BY <1>0, <1>1, <1>3 DEF RelInv, RelTypes
  <2> QED
    BY <1>3, <2>1 DEF RowsFolded
<1>a. /\ \A p \in R : \E q \in S : SameClasses(p, q)
      /\ \A q \in S : \E p \in R : SameClasses(p, q)
  BY <1>2, <1>3, <1>4, FoldedClasses
<1>b. /\ \A p \in lx' : \E q \in R : SameClasses(p, q)
      /\ \A q \in R : \E p \in lx' : SameClasses(p, q)
  <2>1. lx' = ColumnsFolded(R)
    BY <1>1, <1>3
  <2> QED
    BY <1>2, <1>4, <2>1, FoldedClasses
<1>c. \A p, q, r : SameClasses(p, q) /\ SameClasses(q, r) => SameClasses(p, r)
  BY DEF SameClasses
<1>5. \A p \in lx' : \E q \in S : SameClasses(p, q)
  BY <1>a, <1>b, <1>c
<1>6. \A q \in S : \E p \in lx' : SameClasses(p, q)
  BY <1>a, <1>b, <1>c
<1>7. /\ \A p \in S : \E f \in facts : Like2(f, p[1], p[2])
      /\ \A f \in facts : \E p \in S : Like2(f, p[1], p[2])
  BY <1>1, <1>2, <1>3 DEF RelFacts, Coming
<1>8. /\ \A p \in lx' : \E f \in facts : Like2(f, p[1], p[2])
      /\ \A f \in facts : \E p \in lx' : Like2(f, p[1], p[2])
  BY <1>5, <1>6, <1>7 DEF SameClasses, Like2
<1>9. RelFacts'
  BY <1>1, <1>8 DEF RelFacts, Like2
<1> QED
  BY <1>1, <1>9, ClassesStay

-----------------------------------------------------------------------------
(* Unary relations.                                                        *)

LEMMA UnFactsStay ==
  ASSUME AskedInv, UnFacts, Coarser, UNCHANGED <<kind, facts, lx, pc, arg>>,
         kind = "unary" => lx \subseteq Ob
  PROVE  UnFacts'
<1> SUFFICES ASSUME kind = "unary" PROVE UnFacts'
  BY DEF UnFacts
<1>1. \A f \in facts : \A x \in lx : cls[f] = cls[x] => cls'[f] = cls'[x]
  BY FactTypes DEF Coarser
<1> QED
  BY <1>1 DEF UnFacts

LEMMA UnTaskFacts ==
  ASSUME SInv, kind = "unary", ClassInv, AskedInv, Finest, UnFacts, NEW t \in Thread, Insert(t)
  PROVE  ClassInv' /\ AskedInv' /\ Finest' /\ UnFacts'
<1>0. CarrierInv /\ MergeInv /\ ThreadTypes /\ ThreadInv
  BY DEF SInv
<1>1. CASE StartInsert(t)
  <2>1. PICK i \in Live : Start(t, "un_set", i, {i})
    BY <1>1 DEF StartInsert
  <2>2. StartsWith(t, "un_set", i, {i}) /\ AskedInv'
    <3>1. "un_set" \notin LineLabel /\ "un_set" # "idle" /\ {i} \subseteq FactsOf(kind)
      BY DEF LineLabel, FactsOf, Live
    <3> QED
      BY <1>0, <2>1, <3>1, StartAsks
  <2>3. /\ facts' = facts \cup {i} /\ UNCHANGED <<kind, root, cls, eqs, lx>>
        /\ pc[t] = "idle" /\ pc'[t] = "un_set" /\ arg'[t] = i
        /\ \A u \in Thread \ {t} : pc'[u] = pc[u] /\ arg'[u] = arg[u]
    BY <2>2 DEF StartsWith
  <2>4. ClassInv' /\ Finest'
    BY <2>3, FinestStays DEF ClassInv
  <2>5. UnFacts'
    BY <2>3 DEF UnFacts
  <2> QED
    BY <2>2, <2>4, <2>5
<1>2. CASE Proceed(t)
  <2>1. TaskGoes(t) /\ UNCHANGED <<kind, facts, eqs>> /\ AskedInv'
    BY <1>0, <1>2, ProceedGoes, AskedGoes
  <2>2. /\ \A u \in Thread \ {t} : pc'[u] = pc[u] /\ arg'[u] = arg[u]
        /\ pc[t] # "idle"
    BY <2>1 DEF TaskGoes
  <2>3. pc[t] = "un_set"
    BY <1>0, <2>2 DEF ThreadInv, Placed, AFunction
  <2>4. lx' = lx \cup {arg[t]} /\ UNCHANGED <<root, cls>>
    BY <1>2, <2>3 DEF Proceed, FunSet, FunLines, FunIndex, FunTell, InjSet, InjTell, InjInv,
       InjInvSet, RelFirst, RelSecond, RelTell, LineLoad, LineOr, LineTell, UnSet, carrierVars
  <2>5. arg[t] \in facts
    BY <2>2, <2>3 DEF AskedInv, LineLabel
  <2>6. ClassInv' /\ Finest'
    BY <2>1, <2>4, ClassesStay
  <2>7. UnFacts'
    BY <2>1, <2>2, <2>4, <2>5 DEF UnFacts
  <2> QED
    BY <2>1, <2>6, <2>7
<1> QED
  BY <1>1, <1>2 DEF Insert, Proceed

LEMMA UnMergeFacts ==
  ASSUME SInv, ClassInv, AskedInv, Finest, UnFacts, MoveUnary
  PROVE  ClassInv' /\ Finest' /\ UnFacts'
<1>0. CarrierInv /\ MergeInv
  BY DEF SInv
<1>1. /\ kind = "unary" /\ pass \notin {"none", "start"} /\ UNCHANGED <<kind, root, cls, facts, eqs>>
      /\ lx' = IF dep \in lx THEN (lx \ {dep}) \cup {rep} ELSE lx
      /\ pc' = pc
  BY DEF MoveUnary, carrierVars, taskVars, askedVars
<1>2. cls[dep] = cls[rep] /\ \A t \in Thread : pc[t] = "idle"
  BY <1>0, <1>1, RepIsLive, LiveClass DEF MergeInv, Idle
<1>3. UnFacts'
  BY <1>1, <1>2 DEF UnFacts
<1> QED
  BY <1>1, <1>3, ClassesStay

-----------------------------------------------------------------------------
(* The steps that leave the values alone.                                  *)

LEMMA OtherFacts ==
  ASSUME UNCHANGED kind
  PROVE  /\ ~ AFunction => FunFacts'
         /\ kind # "injective" => InjFacts'
         /\ kind # "relation" => RelFacts'
         /\ kind # "unary" => UnFacts'
BY DEF AFunction, FunFacts, InjFacts, RelFacts, UnFacts

LEMMA CInvStays ==
  ASSUME SInv, CInv, UNCHANGED <<kind, val, inv, facts, pc, arg>>,
         kind \in {"relation", "unary"} => UNCHANGED <<lx, rx>>,
         ClassInv', Finest', Coarser
  PROVE  CInv'
<1>1. CarrierInv /\ FunInv /\ InjTables /\ RelInv /\ UnInv /\ Live \subseteq Ob
  BY DEF SInv, Live
<1>2. AskedInv /\ FunFacts /\ InjFacts /\ RelFacts /\ UnFacts
  BY DEF CInv
<1>3. AskedInv'
  BY <1>2, AskedStays
<1>4. CASE AFunction
  <2>1. FunFacts'
    BY <1>1, <1>2, <1>4, FunFactsStay
  <2> QED
    BY <1>3, <1>4, <2>1, OtherFacts DEF CInv, AFunction
<1>5. CASE kind = "injective"
  <2>1. InjTypes /\ \A t \in Thread : \A l \in {"inj_set", "inj_tell", "inj_inv"} :
          pc[t] = l => pc'[t] \in {l, "inj_inv"} /\ arg'[t] = arg[t]
            /\ (l = "inj_set" => pc'[t] = l)
    BY <1>1, <1>5 DEF InjTables
  <2>2. InjFacts'
    BY <1>2, <1>5, <2>1, InjFactsStay
  <2> QED
    BY <1>3, <1>5, <2>2, OtherFacts DEF CInv, AFunction
<1>6. CASE kind = "relation"
  <2>1. lx \cup rx \subseteq Ob \X Ob
    BY <1>1, <1>6 DEF RelInv, RelTypes
  <2>2. RelFacts'
    BY <1>2, <1>6, <2>1, RelFactsStay
  <2> QED
    BY <1>3, <1>6, <2>2, OtherFacts DEF CInv, AFunction
<1>7. CASE kind = "unary"
  <2>1. lx \subseteq Ob
    BY <1>1, <1>7 DEF UnInv
  <2>2. UnFacts'
    BY <1>2, <1>7, <2>1, UnFactsStay
  <2> QED
    BY <1>3, <1>7, <2>2, OtherFacts DEF CInv, AFunction
<1> QED
  BY <1>1, <1>4, <1>5, <1>6, <1>7 DEF CarrierInv, AFunction

\* An equation is one more fact that partitions must respect.
LEMMA EqualFacts ==
  ASSUME SInv, CInv, NEW x \in Live, NEW y \in Live, TaskMerge(x, y) \/ OtherMerge(x, y)
  PROVE  CInv'
<1>1. CarrierInv /\ ClassInv /\ Finest
  BY DEF SInv, CInv
<1>2. /\ Merge(x, y) /\ eqs' = eqs \cup {<<x, y>>}
      /\ UNCHANGED <<kind, val, inv, lx, rx, dep, facts, pc, arg>>
  BY DEF TaskMerge, OtherMerge, Equal, tableVars, mergeVars, taskVars
<1>3. eqs \subseteq eqs' /\ \A e \in eqs' \ eqs : e = <<x, y>>
  BY <1>2
<1>4. ClassInv' /\ Coarser
  BY <1>1, <1>2, <1>3, ClassMerge
<1>5. \A g \in Partitions : Closed(g)' /\ Finer(cls, g) => g[x] = g[y]
  <2>1. <<x, y>> \in eqs'
    BY <1>2
  <2>2. \A g : Closed(g)' => \A e \in eqs' : g[e[1]] = g[e[2]]
    BY DEF Closed
  <2> QED
    BY <2>1, <2>2
<1>6. Finest'
  BY <1>1, <1>2, <1>3, <1>5, FinestMerge
<1> QED
  BY <1>2, <1>4, <1>6, CInvStays

\* The dep is gone, its class is not.
LEMMA EndFacts ==
  ASSUME SInv, CInv, EndMerge
  PROVE  CInv'
<1>1. CarrierInv /\ MergeInv /\ ClassInv /\ Finest
  BY DEF SInv, CInv
<1>2. /\ UNCHANGED <<kind, cls, val, inv, lx, rx, facts, eqs, pc, arg>>
      /\ root' = [root EXCEPT ![dep] = 0] /\ pass = "done"
  BY DEF EndMerge, tableVars, taskVars, askedVars
<1>3. dep # 0
  BY <1>1, <1>2 DEF MergeInv
<1>4. dep \in Ob /\ root[dep] # dep /\ 0 \notin Ob /\ root \in [Ob -> Rep]
  BY <1>1, <1>3, DepIsLive, TablesAssumption DEF CarrierInv, Ob
<1>5. \A x \in Ob : root'[x] = IF x = dep THEN 0 ELSE root[x]
  BY <1>2, <1>4
<1>6. \A x \in Ob : cls[x] \in Ob /\ cls[x] # dep
  BY <1>1, <1>4 DEF ClassInv
<1>7. ClassInv'
  BY <1>1, <1>2, <1>5, <1>6 DEF ClassInv
<1>8. Finest' /\ Coarser
  BY <1>1, <1>2, FinestStays DEF Coarser
<1> QED
  BY <1>2, <1>7, <1>8, CInvStays

\* So do all the steps in which nothing is merged or written.
LEMMA StillFacts ==
  ASSUME SInv, CInv,
         \/ UNCHANGED vars \/ \E d \in Ob : BeginMerge(d)
         \/ FindRep \/ FoldRhs \/ FindRepAgain \/ FoldLhs
  PROVE  CInv'
<1>1. UNCHANGED <<kind, root, cls, val, inv, facts, eqs, pc, arg>>
  BY DEF vars, BeginMerge, FindRep, FoldRhs, FindRepAgain, FoldLhs, carrierVars, tableVars,
     taskVars, askedVars
<1>2. kind \in {"relation", "unary"} => UNCHANGED <<lx, rx>>
  <2>1. FoldRhs \/ FoldLhs => kind \notin {"relation", "unary"}
    BY DEF SInv, MergeInv, FoldRhs, FoldLhs
  <2> QED
    BY <2>1 DEF vars, BeginMerge, FindRep, FindRepAgain, tableVars
<1>3. ClassInv' /\ Finest' /\ Coarser
  BY <1>1, ClassesStay DEF CInv
<1> QED
  BY <1>1, <1>2, <1>3, CInvStays

\* A step of a task.
LEMMA TaskFacts ==
  ASSUME SInv, CInv, NEW t \in Thread, Insert(t)
  PROVE  CInv'
<1>1. ClassInv /\ AskedInv /\ Finest /\ FunFacts /\ InjFacts /\ RelFacts /\ UnFacts
  BY DEF CInv
<1>2. kind' = kind
  BY DEF Insert, StartInsert, Start, FunSet, FunLines, FunIndex, FunTell, InjSet, InjTell, InjInv,
     InjInvSet, RelFirst, RelSecond, RelTell, LineLoad, LineOr, LineTell, UnSet
<1>3. CASE AFunction
  BY <1>1, <1>2, <1>3, FunTaskFacts, OtherFacts DEF CInv, AFunction
<1>4. CASE kind = "injective"
  BY <1>1, <1>2, <1>4, InjTaskFacts, OtherFacts DEF CInv, AFunction
<1>5. CASE kind = "relation"
  BY <1>1, <1>2, <1>5, RelTaskFacts, OtherFacts DEF CInv, AFunction
<1>6. CASE kind = "unary"
  BY <1>1, <1>2, <1>6, UnTaskFacts, OtherFacts DEF CInv, AFunction
<1> QED
  BY <1>3, <1>4, <1>5, <1>6 DEF SInv, CarrierInv, AFunction

\* A step of a merge that moves entries.
LEMMA MergeFacts ==
  ASSUME SInv, SInv', CInv,
         \/ MoveRhs \/ MoveDiagonal \/ MoveLhs \/ MoveVal \/ MoveKeys \/ MoveInverse
         \/ MoveRelation \/ MoveUnary
  PROVE  CInv'
<1>1. ClassInv /\ AskedInv /\ Finest /\ FunFacts /\ InjFacts /\ RelFacts /\ UnFacts
  BY DEF CInv
<1>2. UNCHANGED <<kind, facts, pc, arg>>
  BY DEF MoveRhs, MoveDiagonal, MoveLhs, MoveVal, MoveKeys, MoveInverse, MoveRelation, MoveUnary,
     taskVars, askedVars
<1>3. AskedInv'
  BY <1>1, <1>2, AskedStays
<1>4. CASE MoveRhs \/ MoveDiagonal \/ MoveLhs \/ MoveVal
  <2>1. AFunction
    BY <1>4 DEF SInv, MergeInv, AFunction, MoveRhs, MoveDiagonal, MoveLhs, MoveVal
  <2>2. ClassInv' /\ Finest' /\ FunFacts'
    BY <1>1, <1>4, <2>1, MovingFacts, ValueFacts
  <2> QED
    BY <1>2, <1>3, <2>1, <2>2, OtherFacts DEF CInv, AFunction
<1>5. CASE MoveKeys \/ MoveInverse
  <2>1. kind = "injective"
    BY <1>5 DEF SInv, MergeInv, MoveKeys, MoveInverse
  <2>2. ClassInv' /\ Finest' /\ InjFacts'
    BY <1>1, <1>5, InjMergeFacts
  <2> QED
    BY <1>2, <1>3, <2>1, <2>2, OtherFacts DEF CInv, AFunction
<1>6. CASE MoveRelation
  <2>1. kind = "relation"
    BY <1>6 DEF MoveRelation
  <2>2. ClassInv' /\ Finest' /\ RelFacts'
    BY <1>1, <1>6, RelMergeFacts
  <2> QED
    BY <1>2, <1>3, <2>1, <2>2, OtherFacts DEF CInv, AFunction
<1>7. CASE MoveUnary
  <2>1. kind = "unary"
    BY <1>7 DEF MoveUnary
  <2>2. ClassInv' /\ Finest' /\ UnFacts'
    BY <1>1, <1>7, UnMergeFacts
  <2> QED
    BY <1>2, <1>3, <2>1, <2>2, OtherFacts DEF CInv, AFunction
<1> QED
  BY <1>4, <1>5, <1>6, <1>7

LEMMA CInvStep ==
  ASSUME SInv, CInv, [Next]_vars
  PROVE  CInv'
<1>0. SInv'
  BY StepInv
<1>1. CASE \E t \in Thread : Insert(t)
  BY <1>1, TaskFacts
<1>2. CASE \E x, y \in Live : TaskMerge(x, y) \/ OtherMerge(x, y)
  BY <1>2, EqualFacts
<1>3. CASE UNCHANGED vars \/ \E d \in Ob : BeginMerge(d)
  BY <1>3, StillFacts
<1>4. CASE MergePass
  BY <1>0, <1>4, StillFacts, MergeFacts, EndFacts DEF MergePass
<1> QED
  BY <1>1, <1>2, <1>3, <1>4 DEF Next

LEMMA CInvInit ==
  ASSUME Init
  PROVE  CInv
<1>1. /\ root = [x \in Ob |-> x] /\ cls = root /\ eqs = {} /\ facts = loaded
      /\ \A t \in Thread : pc[t] = "idle"
  BY DEF Init
<1>2. \A x \in Ob : cls[x] = x
  BY <1>1
<1>3. ClassInv
  BY <1>1, <1>2 DEF ClassInv
<1>4. AskedInv
  BY <1>1, LoadedFacts DEF AskedInv
<1>5. Finest
  BY <1>2 DEF Finest, Finer
<1>6. AFunction => FunFacts
  <2> SUFFICES ASSUME AFunction PROVE FunFacts
    OBVIOUS
  <2>1. ASSUME NEW l \in Ob, NEW r \in Ob, At(l, r) # 0
        PROVE  \E f \in facts : Like3(f, l, r, At(l, r))
    <3>1. Key(l, r) \in Pair
      BY KeyPair
    <3>2. PICK f \in loaded : Key(f[1], f[2]) = Key(l, r) /\ val[Key(l, r)] = f[3]
      BY <2>1, <3>1, LoadedValues DEF At
    <3>3. f[1] \in Ob /\ f[2] \in Ob
      BY LoadedValues
    <3>4. (f[1] = l /\ f[2] = r) \/ (kind = "symmetric" /\ f[1] = r /\ f[2] = l)
      BY <3>2, <3>3, KeyEqual
    <3> QED
      BY <1>1, <3>2, <3>4 DEF Like3, At
  <2>2. ASSUME NEW f \in facts
        PROVE  \E l, r \in Ob : At(l, r) # 0 /\ Like3(f, l, r, At(l, r))
    <3>1. f[1] \in Ob /\ f[2] \in Ob /\ f[3] \in Ob /\ At(f[1], f[2]) = f[3] /\ 0 \notin Ob
      BY <1>1, LoadedValues, TablesAssumption DEF At, Ob
    <3>2. At(f[1], f[2]) # 0 /\ Like3(f, f[1], f[2], At(f[1], f[2]))
      BY <3>1 DEF Like3
    <3> QED
      BY <3>1, <3>2
  <2> QED
    BY <2>1, <2>2 DEF FunFacts
<1>7. InjFacts
  <2> SUFFICES ASSUME kind = "injective" PROVE InjFacts
    BY DEF InjFacts
  <2>1. LoadedInjective(loaded) /\ 0 \notin Ob
    BY TablesAssumption DEF Init, Ob
  <2>2. \A f \in loaded : f = <<f[1], f[2]>> /\ f[1] \in Ob /\ f[2] \in Ob
    <3>1. FactsOf(kind) = Ob \X Ob
      BY DEF FactsOf
    <3> QED
      BY <3>1, LoadedFacts
  <2>3. \A x \in Ob : val[x] # 0 => <<x, val[x]>> \in loaded
    BY <2>1 DEF LoadedInjective
  <2>4. \A y \in Ob : inv[y] # 0 => <<inv[y], y>> \in loaded
    BY <2>1 DEF LoadedInjective
  <2>5. \A f \in loaded : val[f[1]] = f[2]
    <3> SUFFICES ASSUME NEW f \in loaded PROVE val[f[1]] = f[2]
      OBVIOUS
    <3>1. val[f[1]] # 0
      BY <2>1, <2>2 DEF LoadedInjective
    <3>2. <<f[1], val[f[1]]>> \in loaded
      BY <2>2, <2>3, <3>1
    <3> QED
      BY <2>1, <3>2 DEF LoadedInjective
  <2>6. \A f \in loaded : inv[f[2]] = f[1]
    <3> SUFFICES ASSUME NEW f \in loaded PROVE inv[f[2]] = f[1]
      OBVIOUS
    <3>1. inv[f[2]] # 0
      BY <2>1, <2>2 DEF LoadedInjective
    <3>2. <<inv[f[2]], f[2]>> \in loaded
      BY <2>2, <2>4, <3>1
    <3> QED
      BY <2>1, <3>2 DEF LoadedInjective
  <2>7. \A f \in loaded : LikeAt(1, f, f[1], f[2]) /\ LikeAt(2, f, f[2], f[1])
    BY DEF LikeAt, Like2
  <2>8. \A x, y : <<x, y>>[1] = x /\ <<x, y>>[2] = y
    OBVIOUS
  <2>9. Backed(1, val, {"inj_set"})
    <3>1. \A x \in Ob : val[x] # 0 => \E f \in facts : LikeAt(1, f, x, val[x])
      BY <1>1, <2>3, <2>7, <2>8
    <3>2. \A f \in facts : \E x \in Ob : val[x] # 0 /\ LikeAt(1, f, x, val[x])
      BY <1>1, <2>1, <2>2, <2>5, <2>7
    <3> QED
      BY <3>1, <3>2 DEF Backed
  <2>10. Backed(2, inv, {"inj_set", "inj_tell", "inj_inv"})
    <3>1. \A x \in Ob : inv[x] # 0 => \E f \in facts : LikeAt(2, f, x, inv[x])
      BY <1>1, <2>4, <2>7, <2>8
    <3>2. \A f \in facts : \E x \in Ob : inv[x] # 0 /\ LikeAt(2, f, x, inv[x])
      BY <1>1, <2>1, <2>2, <2>6, <2>7
    <3> QED
      BY <3>1, <3>2 DEF Backed
  <2> QED
    BY <2>9, <2>10 DEF InjFacts
<1>8. RelFacts
  <2> SUFFICES ASSUME kind = "relation" PROVE RelFacts
    BY DEF RelFacts
  <2>1. lx = facts /\ rx = facts
    BY <1>1 DEF Init, LoadedRelation
  <2>2. \A f \in facts : Like2(f, f[1], f[2])
    BY DEF Like2
  <2> QED
    BY <2>1, <2>2 DEF RelFacts
<1>9. UnFacts
  <2> SUFFICES ASSUME kind = "unary" PROVE UnFacts
    BY DEF UnFacts
  <2>1. lx = facts
    BY <1>1 DEF Init, LoadedRelation
  <2> QED
    BY <2>1 DEF UnFacts
<1> QED
  BY <1>3, <1>4, <1>5, <1>6, <1>7, <1>8, <1>9 DEF CInv, FunFacts

-----------------------------------------------------------------------------
(* Once nothing is queued, every ob that is there is its own class.        *)

LEMMA OwnClass ==
  ASSUME SInv, CInv, Quiet, due = {}
  PROVE  /\ \A x \in Live : cls[x] = x /\ root[x] = x
         /\ \A x \in Ob : cls[x] \in Live /\ cls[x] \in Ob
         /\ \A t \in Thread : pc[t] = "idle"
         /\ 0 \notin Ob /\ Live \subseteq Ob
<1>1. CarrierInv /\ ClassInv /\ dep = 0 /\ Idle
  BY DEF SInv, CInv, Quiet
<1>2. 0 \notin Ob /\ Live \subseteq Ob
  BY TablesAssumption DEF Ob, Live
<1>3. \A x \in Ob : root[x] \in {0, x}
  BY <1>1, <1>2 DEF CarrierInv
<1>4. \A x \in Live : cls[x] = x /\ root[x] = x
  BY <1>1, <1>2, <1>3 DEF ClassInv, Live
<1>5. \A x \in Ob : cls[x] \in Live /\ cls[x] \in Ob
  BY <1>1, <1>2 DEF ClassInv, Live
<1> QED
  BY <1>1, <1>2, <1>4, <1>5 DEF Idle

\* A function has the value of every fact under the names of the classes, and
\* nothing else.
LEMMA FunClosed ==
  ASSUME SInv, CInv, Quiet, due = {}, AFunction
  PROVE  /\ \A f \in facts : At(cls[f[1]], cls[f[2]]) = cls[f[3]]
         /\ \A l, r \in Ob : At(l, r) # 0 =>
              \E f \in facts : /\ Key(cls[f[1]], cls[f[2]]) = Key(l, r)
                               /\ cls[f[3]] = At(l, r)
<1>1. /\ \A x \in Live : cls[x] = x
      /\ \A t \in Thread : pc[t] = "idle"
      /\ 0 \notin Ob /\ Live \subseteq Ob
  BY OwnClass
<1>2. FunInv /\ FunFacts /\ AskedInv
  BY DEF SInv, CInv
<1>3. \A l, r \in Ob : At(l, r) # 0 => l \in Live /\ r \in Live /\ At(l, r) \in Live
  BY <1>2, AtTypes
<1>4. ASSUME NEW f \in facts, NEW l \in Ob, NEW r \in Ob, At(l, r) # 0, Like3(f, l, r, At(l, r))
      PROVE  /\ Key(cls[f[1]], cls[f[2]]) = Key(l, r)
             /\ cls[f[3]] = At(l, r)
  <2>1. cls[l] = l /\ cls[r] = r /\ cls[At(l, r)] = At(l, r)
    BY <1>1, <1>3, <1>4
  <2>2. (cls[f[1]] = l /\ cls[f[2]] = r) \/ (kind = "symmetric" /\ cls[f[1]] = r /\ cls[f[2]] = l)
    BY <1>4, <2>1 DEF Like3
  <2>3. cls[f[3]] = At(l, r)
    BY <1>4, <2>1 DEF Like3
  <2>4. kind = "symmetric" => Key(r, l) = Key(l, r)
    BY KeyEqual
  <2> QED
    BY <2>2, <2>3, <2>4
<1>5. ASSUME NEW f \in facts PROVE At(cls[f[1]], cls[f[2]]) = cls[f[3]]
  <2>1. PICK l \in Ob, r \in Ob : At(l, r) # 0 /\ Like3(f, l, r, At(l, r))
    BY <1>1, <1>2 DEF FunFacts
  <2> QED
    BY <1>4, <2>1 DEF At
<1>6. ASSUME NEW l \in Ob, NEW r \in Ob, At(l, r) # 0
      PROVE  \E f \in facts : /\ Key(cls[f[1]], cls[f[2]]) = Key(l, r)
                              /\ cls[f[3]] = At(l, r)
  <2>1. PICK f \in facts : Like3(f, l, r, At(l, r))
    BY <1>2, <1>6 DEF FunFacts
  <2> QED
    BY <1>4, <1>6, <2>1
<1> QED
  BY <1>5, <1>6

LEMMA FunReached ==
  ASSUME SInv, CInv, Quiet, due = {}, AFunction
  PROVE  Closed(cls) /\ Content = Image
<1>1. /\ \A f \in facts : At(cls[f[1]], cls[f[2]]) = cls[f[3]]
      /\ \A l, r \in Ob : At(l, r) # 0 =>
           \E f \in facts : Key(cls[f[1]], cls[f[2]]) = Key(l, r) /\ cls[f[3]] = At(l, r)
  BY FunClosed
<1>2. \A f \in facts : cls[f[1]] \in Ob /\ cls[f[2]] \in Ob /\ cls[f[3]] \in Ob
  BY OwnClass, FactTypes DEF CInv
<1>3. Closed(cls)
  <2>1. \A e \in eqs : cls[e[1]] = cls[e[2]]
    BY DEF CInv, ClassInv
  <2>2. ASSUME NEW a \in facts, NEW b \in facts, NEW p \in BothWays(b[1], b[2]),
               cls[a[1]] = cls[p[1]], cls[a[2]] = cls[p[2]]
        PROVE  cls[a[3]] = cls[b[3]]
    <3>1. \/ cls[a[1]] = cls[b[1]] /\ cls[a[2]] = cls[b[2]]
          \/ kind = "symmetric" /\ cls[a[1]] = cls[b[2]] /\ cls[a[2]] = cls[b[1]]
      BY <2>2 DEF BothWays
    <3>2. Key(cls[a[1]], cls[a[2]]) = Key(cls[b[1]], cls[b[2]])
      BY <1>2, <3>1, KeyEqual
    <3>3. At(cls[a[1]], cls[a[2]]) = At(cls[b[1]], cls[b[2]])
      BY <3>2 DEF At
    <3> QED
      BY <1>1, <3>3
  <2> QED
    BY <2>1, <2>2 DEF Closed, AFunction
<1>4. Content = vlr
  <2>1. Content = UNION {Entries(p[1], p[2], val[p]) : p \in Defined}
    BY DEF Content, AFunction
  <2>2. TableValid
    BY FunctionValid
  <2>3. CASE kind = "symmetric"
    BY <2>1, <2>2, <2>3 DEF TableValid
  <2>4. CASE kind = "binary"
    <3>1. vlr = {<<p[1], p[2], val[p]>> : p \in Defined}
      BY <2>2, <2>4 DEF TableValid
    <3>2. \A p \in Defined : Entries(p[1], p[2], val[p]) = {<<p[1], p[2], val[p]>>}
      BY <2>4 DEF Entries, BothWays
    <3> QED
      BY <2>1, <3>1, <3>2
  <2> QED
    BY <2>3, <2>4 DEF AFunction
<1>5. Image = UNION {Entries(cls[f[1]], cls[f[2]], cls[f[3]]) : f \in facts}
  BY DEF Image, AFunction
<1>6. vlr \subseteq Ob \X Ob \X Ob /\ \A l, r, v \in Ob : <<l, r, v>> \in vlr <=> At(l, r) = v
  <2>1. pass = "none" /\ Idle
    BY NoMerge DEF Quiet
  <2> QED
    BY <2>1, FunWhenIdle DEF SInv, FunInv, FunTypes
<1>7. Image \subseteq Ob \X Ob \X Ob
  <2>1. ASSUME NEW f \in facts PROVE Entries(cls[f[1]], cls[f[2]], cls[f[3]]) \subseteq Ob \X Ob \X Ob
    BY <1>2, EntryCovers
  <2> QED
    BY <1>5, <2>1
<1>8. ASSUME NEW l \in Ob, NEW r \in Ob, NEW v \in Ob
      PROVE  <<l, r, v>> \in Image <=> At(l, r) = v
  <2>1. ASSUME NEW f \in facts
        PROVE  <<l, r, v>> \in Entries(cls[f[1]], cls[f[2]], cls[f[3]])
                 <=> Key(l, r) = Key(cls[f[1]], cls[f[2]]) /\ v = cls[f[3]]
    BY <1>2, EntryCovers
  <2>2. ASSUME <<l, r, v>> \in Image PROVE At(l, r) = v
    <3>1. PICK f \in facts : <<l, r, v>> \in Entries(cls[f[1]], cls[f[2]], cls[f[3]])
      BY <1>5, <2>2
    <3>2. Key(l, r) = Key(cls[f[1]], cls[f[2]]) /\ v = cls[f[3]]
      BY <2>1, <3>1
    <3> QED
      BY <1>1, <3>2 DEF At
  <2>3. ASSUME At(l, r) = v PROVE <<l, r, v>> \in Image
    <3>1. At(l, r) # 0
      BY <2>3, OwnClass
    <3>2. PICK f \in facts : Key(cls[f[1]], cls[f[2]]) = Key(l, r) /\ cls[f[3]] = At(l, r)
      BY <1>1, <3>1
    <3>3. <<l, r, v>> \in Entries(cls[f[1]], cls[f[2]], cls[f[3]])
      BY <2>1, <2>3, <3>2
    <3> QED
      BY <1>5, <3>3
  <2> QED
    BY <2>2, <2>3
<1> HIDE DEF Content, Image
<1>9. Content = Image
  <2>1. ASSUME NEW e \in Ob \X Ob \X Ob PROVE e \in vlr <=> e \in Image
    <3>1. PICK l \in Ob, r \in Ob, v \in Ob : e = <<l, r, v>>
      BY <2>1
    <3>2. <<l, r, v>> \in vlr <=> <<l, r, v>> \in Image
      BY <1>6, <1>8
    <3> QED
      BY <3>1, <3>2
  <2>2. PICK I, V : I = Image /\ V = vlr
    OBVIOUS
  <2>3. I = V
    BY <1>6, <1>7, <2>1, <2>2
  <2> QED
    BY <1>4, <2>2, <2>3
<1> QED
  BY <1>3, <1>9

\* The two tables of an injective function are the facts and their inverse.
LEMMA InjClosed ==
  ASSUME SInv, CInv, Quiet, due = {}, kind = "injective"
  PROVE  /\ \A f \in facts : val[cls[f[1]]] = cls[f[2]] /\ inv[cls[f[2]]] = cls[f[1]]
         /\ \A x \in Ob : val[x] # 0 => \E f \in facts : cls[f[1]] = x /\ cls[f[2]] = val[x]
         /\ \A y \in Ob : inv[y] # 0 => \E f \in facts : cls[f[1]] = inv[y] /\ cls[f[2]] = y
<1>1. /\ \A x \in Live : cls[x] = x
      /\ \A t \in Thread : pc[t] = "idle"
      /\ 0 \notin Ob /\ Live \subseteq Ob
  BY OwnClass
<1>2. InjFacts /\ InjTypes
  BY DEF SInv, CInv, InjTables
<1>3. /\ \A x \in Ob : val[x] # 0 => cls[x] = x /\ cls[val[x]] = val[x]
      /\ \A x \in Ob : inv[x] # 0 => cls[x] = x /\ cls[inv[x]] = inv[x]
  BY <1>1, <1>2 DEF InjTypes
<1>4. /\ \A x \in Ob : val[x] # 0 => \E f \in facts : Like2(f, x, val[x])
      /\ \A f \in facts : \E x \in Ob : val[x] # 0 /\ Like2(f, x, val[x])
  BY <1>1, <1>2 DEF InjFacts, Backed, LikeAt
<1>5. /\ \A y \in Ob : inv[y] # 0 => \E f \in facts : Like2(f, inv[y], y)
      /\ \A f \in facts : \E y \in Ob : inv[y] # 0 /\ Like2(f, inv[y], y)
  BY <1>1, <1>2 DEF InjFacts, Backed, LikeAt
<1>6. \A f \in facts : val[cls[f[1]]] = cls[f[2]]
  BY <1>3, <1>4 DEF Like2
<1>7. \A f \in facts : inv[cls[f[2]]] = cls[f[1]]
  BY <1>3, <1>5 DEF Like2
<1>8. \A x \in Ob : val[x] # 0 => \E f \in facts : cls[f[1]] = x /\ cls[f[2]] = val[x]
  BY <1>3, <1>4 DEF Like2
<1>9. \A y \in Ob : inv[y] # 0 => \E f \in facts : cls[f[1]] = inv[y] /\ cls[f[2]] = y
  BY <1>3, <1>5 DEF Like2
<1> QED
  BY <1>6, <1>7, <1>8, <1>9

LEMMA InjReached ==
  ASSUME SInv, CInv, Quiet, due = {}, kind = "injective"
  PROVE  Closed(cls) /\ Content = Image
<1>1. /\ \A f \in facts : val[cls[f[1]]] = cls[f[2]] /\ inv[cls[f[2]]] = cls[f[1]]
      /\ \A x \in Ob : val[x] # 0 => \E f \in facts : cls[f[1]] = x /\ cls[f[2]] = val[x]
  BY InjClosed
<1>2. \A f \in facts : cls[f[1]] \in Ob /\ cls[f[2]] \in Ob /\ cls[f[2]] # 0
  <2>1. \A f \in facts : f[1] \in Ob /\ f[2] \in Ob
    BY FactTypes DEF CInv
  <2> QED
    BY <2>1, OwnClass
<1>3. Closed(cls)
  <2>1. \A e \in eqs : cls[e[1]] = cls[e[2]]
    BY DEF CInv, ClassInv
  <2>2. \A a, b \in facts : (cls[a[1]] = cls[b[1]]) <=> (cls[a[2]] = cls[b[2]])
    BY <1>1
  <2> QED
    BY <2>1, <2>2 DEF Closed
<1>4. lx \subseteq Ob /\ \A x \in Ob : val[x] # 0 <=> x \in lx
  BY InjWhenIdle DEF SInv, InjTables, InjTypes, Quiet
<1>5. Content = {<<x, val[x]>> : x \in lx} /\ Image = {<<cls[f[1]], cls[f[2]]>> : f \in facts}
  BY DEF Content, Image
<1>6. \A x \in lx : \E f \in facts : <<x, val[x]>> = <<cls[f[1]], cls[f[2]]>>
  BY <1>1, <1>4
<1>7. \A f \in facts : \E x \in lx : <<x, val[x]>> = <<cls[f[1]], cls[f[2]]>>
  BY <1>1, <1>2, <1>4
<1> HIDE DEF Content, Image
<1>8. Content = Image
  BY <1>5, <1>6, <1>7
<1> QED
  BY <1>3, <1>8

LEMMA InjectiveValid ==
  ASSUME SInv, CInv, Unindexed, kind = "injective"
  PROVE  TableValid
<1>1. vLr = vlr /\ vRl = IF kind = "symmetric" THEN {} ELSE vlr
  BY DEF Unindexed, AFunction
<1>2. InjTypes
  BY DEF SInv, InjTables
<1>3. SUFFICES ASSUME Quiet PROVE TableValid
  BY <1>1 DEF TableValid
<1>4. /\ \A x \in Ob : val[x] # 0 <=> x \in lx
      /\ \A x \in Ob : inv[x] # 0 <=> x \in rx
  BY <1>3, InjWhenIdle DEF SInv, Quiet
<1>5. /\ lx = {x \in Ob : val[x] # 0} /\ lx \subseteq Live
      /\ rx = {x \in Ob : inv[x] # 0} /\ rx \subseteq Live
  BY <1>2, <1>4 DEF InjTypes
<1>6. ASSUME due = {}, NEW x \in lx PROVE val[x] \in rx /\ root[inv[val[x]]] = root[x]
  <2>1. x \in Ob /\ val[x] # 0 /\ x # 0
    BY <1>2, <1>3, <1>4, <1>6, OwnClass DEF InjTypes
  <2>2. PICK f \in facts : cls[f[1]] = x /\ cls[f[2]] = val[x] /\ inv[cls[f[2]]] = cls[f[1]]
    BY <1>3, <1>6, <2>1, InjClosed
  <2>3. val[x] \in Ob
    BY <1>2, <1>3, <1>6, <2>1, OwnClass DEF InjTypes
  <2> QED
    BY <1>4, <2>1, <2>2, <2>3
<1>7. ASSUME due = {}, NEW x \in rx PROVE inv[x] \in lx /\ root[val[inv[x]]] = root[x]
  <2>1. x \in Ob /\ inv[x] # 0 /\ x # 0
    BY <1>2, <1>3, <1>4, <1>7, OwnClass DEF InjTypes
  <2>2. PICK f \in facts : cls[f[1]] = inv[x] /\ cls[f[2]] = x /\ val[cls[f[1]]] = cls[f[2]]
    BY <1>3, <1>7, <2>1, InjClosed
  <2>3. inv[x] \in Ob
    BY <1>2, <1>3, <1>7, <2>1, OwnClass DEF InjTypes
  <2> QED
    BY <1>4, <2>1, <2>2, <2>3
<1> QED
  BY <1>1, <1>5, <1>6, <1>7 DEF TableValid

\* A relation has every fact under the names of the classes, and nothing else.
LEMMA RelReached ==
  ASSUME SInv, CInv, Quiet, due = {}, kind \in {"relation", "unary"}
  PROVE  Closed(cls) /\ Content = Image
<1>1. /\ \A x \in Live : cls[x] = x
      /\ \A t \in Thread : pc[t] = "idle"
  BY OwnClass
<1>2. Closed(cls)
  BY DEF CInv, ClassInv, Closed
<1>3. CASE kind = "relation"
  <2>1. lx = rx /\ lx \subseteq Live \X Live
    BY <1>3, RelAgrees DEF SInv, Quiet
  <2>2. /\ \A p \in lx : \E f \in facts : Like2(f, p[1], p[2])
        /\ \A f \in facts : \E p \in lx : Like2(f, p[1], p[2])
    BY <1>1, <1>3, <2>1 DEF CInv, RelFacts, Coming
  <2>3. \A p \in lx : p = <<cls[p[1]], cls[p[2]]>>
    BY <1>1, <2>1
  <2>4. /\ \A p \in lx : \E f \in facts : p = <<cls[f[1]], cls[f[2]]>>
        /\ \A f \in facts : <<cls[f[1]], cls[f[2]]>> \in lx
    BY <2>2, <2>3 DEF Like2
  <2>5. Content = lx /\ Image = {<<cls[f[1]], cls[f[2]]>> : f \in facts}
    BY <1>3 DEF Content, Image
  <2> HIDE DEF Content, Image
  <2>6. Content = Image
    BY <2>4, <2>5
  <2> QED
    BY <1>2, <2>6
<1>4. CASE kind = "unary"
  <2>1. lx \subseteq Live
    BY <1>4 DEF SInv, UnInv
  <2>2. /\ \A x \in lx : \E f \in facts : x = cls[f]
        /\ \A f \in facts : cls[f] \in lx
    BY <1>1, <1>4, <2>1 DEF CInv, UnFacts
  <2>3. Content = lx /\ Image = {cls[f] : f \in facts}
    BY <1>4 DEF Content, Image
  <2> HIDE DEF Content, Image
  <2>4. Content = Image
    BY <2>2, <2>3
  <2> QED
    BY <1>2, <2>4
<1> QED
  BY <1>3, <1>4

-----------------------------------------------------------------------------
(* The theorems.                                                           *)

\* What every table holds stands for what was asked for, whatever insertions and
\* merges are under way.
THEOREM ClosureInvariant == Spec => [](SInv /\ CInv /\ Unindexed)
<1>1. Init => SInv /\ CInv /\ Unindexed
  BY InitInv, CInvInit, UnindexedInit
<1>2. SInv /\ CInv /\ Unindexed /\ [Next]_vars => (SInv /\ CInv /\ Unindexed)'
  BY StepInv, CInvStep, UnindexedStep
<1> QED
  BY <1>1, <1>2, PTL DEF Spec

\* validate() holds between tasks: the lines, the inverse tables and the two
\* tables of an injective function say what the values say.
THEOREM TablesValid == Spec => []TableValid
<1>1. SInv /\ CInv /\ Unindexed => TableValid
  BY FunctionValid, InjectiveValid, RelationValid DEF SInv, CarrierInv, AFunction
<1> QED
  BY <1>1, ClosureInvariant, PTL

\* Insertions, collisions and MergeTasks, in any order and by any number of
\* threads, compute the congruence closure of what was asked for: no equation is
\* invented, and once nothing is queued none is missing and the table holds every
\* fact under its classes' names and nothing else.
THEOREM ClosureCorrect == Spec => []CongruenceReached
<1>1. SInv /\ CInv => CongruenceReached
  <2> SUFFICES ASSUME SInv, CInv PROVE CongruenceReached
    OBVIOUS
  <2>1. ASSUME NEW f \in Partitions, Closed(f) PROVE \A x \in Ob : f[x] = f[cls[x]]
    <3>1. Finer(cls, f)
      BY <2>1 DEF CInv, Finest
    <3>2. \A x \in Ob : cls[x] \in Ob /\ cls[cls[x]] = cls[x]
      <4>1. 0 \notin Ob
        BY TablesAssumption DEF Ob
      <4> QED
        BY <4>1 DEF CInv, ClassInv
    <3> QED
      BY <3>1, <3>2 DEF Finer
  <2>2. ASSUME Quiet, due = {} PROVE Closed(cls) /\ Content = Image
    BY <2>2, FunReached, InjReached, RelReached DEF SInv, CarrierInv, AFunction
  <2> QED
    BY <2>1, <2>2 DEF CongruenceReached
<1> QED
  BY <1>1, ClosureInvariant, PTL

=============================================================================
