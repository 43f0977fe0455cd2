---------------------------- MODULE TablesProofs ----------------------------
(***************************************************************************)
(* Theorems about the tables, for every kind of table, every number of obs *)
(* and of threads: what the bit lines and the inverse tables say in the    *)
(* middle of an insertion and in the middle of a merge.                    *)
(***************************************************************************)
EXTENDS Tables, WellFoundedInduction, TLAPS

-----------------------------------------------------------------------------
(* The inductive invariant.                                                *)

AFunction == kind \in {"binary", "symmetric"}

\* The entry of a function at two arguments, in either order if it is symmetric.
At(l, r) == val[Key(l, r)]

FunLabel  == {"fun_set", "fun_lines", "fun_index", "fun_tell"}
InjLabel  == {"inj_set", "inj_tell", "inj_inv", "inj_invset"}
PairLabel == {"rel_Lx", "rel_Rx", "rel_Rx2", "rel_Lx2", "rel_tell"}
LineLabel == {"row_load", "row_or", "row_tell", "col_load", "col_or", "col_tell"}

\* A removed ob is 0; every other ob knows its root; the obs that are no roots
\* are those that have a MergeTask.
CarrierInv ==
  /\ kind \in {"binary", "symmetric", "injective", "relation", "unary"}
  /\ root \in [Ob -> Rep] /\ due \subseteq Ob /\ dep \in Rep
  /\ \A x \in Ob : root[x] # 0 => root[root[x]] = root[x]
  /\ \A x \in Ob : root[x] \notin {0, x} <=> x \in due \/ x = dep
  /\ dep \notin due

\* What is merged is merged into another ob of its class, while no task runs.
MergeInv ==
  /\ dep = 0 <=> pass = "none"
  /\ dep # 0 => Idle
  /\ pass \notin {"none", "start"} => rep \in Ob /\ rep # dep /\ root[rep] = root[dep]
  /\ pass \in {"none", "start", "rhs", "diag", "refind", "lhs", "val", "keys", "inverse",
               "all", "done"}
  /\ pass = "rhs" => kind = "binary"
  /\ pass = "diag" => kind = "symmetric"
  /\ pass = "refind" => kind \in {"symmetric", "injective"}
  /\ pass \in {"lhs", "val"} => kind \in {"binary", "symmetric"}
  /\ pass \in {"keys", "inverse"} => kind = "injective"
  /\ pass = "all" => kind \in {"relation", "unary"}

\* The facts that threads are inserting are about obs that are there.
Placed(label, f) ==
  \/ label = "idle"
  \/ AFunction /\ label \in FunLabel /\ f \in Live \X Live \X Live
  \/ kind = "injective" /\ label \in InjLabel /\ f \in Live \X Live
  \/ kind = "relation" /\ label \in PairLabel /\ f \in Live \X Live
  \/ kind = "relation" /\ label \in LineLabel /\ f \subseteq Live \X Live
  \/ kind = "unary" /\ label = "un_set" /\ f \in Live

ThreadTypes ==
  /\ pc  = [t \in Thread |-> pc[t]]
  /\ arg = [t \in Thread |-> arg[t]]
  /\ new = [t \in Thread |-> new[t]]

ThreadInv == \A t \in Thread : Placed(pc[t], arg[t])

\* A thread has still to write the entry of these arguments somewhere.
Pending(l, r, labels) ==
  \E t \in Thread : pc[t] \in labels /\ Key(arg[t][1], arg[t][2]) = Key(l, r)

FunTypes ==
  /\ val \in [Pair -> Rep]
  /\ lx \subseteq Pair /\ rx \subseteq Pair /\ (kind = "symmetric" => rx = {})
  /\ vlr \subseteq Ob \X Ob \X Ob
  /\ vLr = vlr /\ vRl = IF kind = "symmetric" THEN {} ELSE vlr
  /\ told \subseteq Pair /\ todo \subseteq Ob

\* The entries are about obs that are there, under sorted keys.
FunLive ==
  \A p \in Pair : val[p] # 0 =>
    /\ {p[1], p[2], val[p]} \subseteq Live
    /\ Key(p[1], p[2]) = p

\* How far the insertion of an entry has got.
FunThread(t) ==
  /\ pc[t] \in {"fun_lines", "fun_index", "fun_tell"} => At(arg[t][1], arg[t][2]) = arg[t][3]
  /\ pc[t] \in {"fun_index", "fun_tell"} =>
       /\ BothWays(arg[t][1], arg[t][2]) \subseteq lx
       /\ kind = "binary" => <<arg[t][1], arg[t][2]>> \in rx
  /\ pc[t] = "fun_tell" => Entries(arg[t][1], arg[t][2], arg[t][3]) \subseteq vlr

\* The inverse tables have the entries, up to those that are being inserted.
FunIndexed ==
  \A l, r, v \in Ob :
    /\ <<l, r, v>> \in vlr => At(l, r) = v
    /\ At(l, r) = v => <<l, r, v>> \in vlr \/ Pending(l, r, {"fun_lines", "fun_index"})

\* So have the lines, but for those that the pass of a merge is moving: the line
\* of the dep is left as it was, except for what is still to do.
FunLinesL ==
  \A l, r \in Ob :
    IF pass = "lhs"
    THEN At(l, r) # 0 <=> \/ <<l, r>> \in lx /\ l # dep
                          \/ l = rep /\ <<dep, r>> \in lx /\ r \notin todo
                          \/ l = dep /\ r \in todo
    ELSE /\ <<l, r>> \in lx => At(l, r) # 0
         /\ At(l, r) # 0 => <<l, r>> \in lx \/ Pending(l, r, {"fun_lines"})

FunLinesR ==
  kind = "binary" => \A l, r \in Ob :
    IF pass = "rhs"
    THEN At(l, r) # 0 <=> \/ <<l, r>> \in rx /\ r # dep
                          \/ r = rep /\ <<l, dep>> \in rx /\ l \notin todo
                          \/ r = dep /\ l \in todo
    ELSE /\ <<l, r>> \in rx => At(l, r) # 0
         /\ At(l, r) # 0 => <<l, r>> \in rx \/ Pending(l, r, {"fun_lines"})

FunTodo ==
  \A x \in todo : /\ pass = "lhs" => <<dep, x>> \in lx
                  /\ pass = "rhs" => <<x, dep>> \in rx

\* What the passes so far have cleared of the dep.
FunCleared ==
  /\ pass \in {"refind", "lhs", "val", "done"} => At(dep, dep) = 0
  /\ pass = "lhs" => <<dep, dep>> \notin lx
  /\ kind = "binary" /\ pass \in {"lhs", "val", "done"} =>
       \A l \in Ob : At(l, dep) = 0
  /\ pass \in {"val", "done"} => \A x \in Ob : At(dep, x) = 0 /\ At(x, dep) = 0
  /\ pass = "done" => \A p \in Pair : val[p] # dep

\* What was told stays defined as long as its arguments are there.
FunTold ==
  \A p \in told : {p[1], p[2]} \subseteq Live \ {dep} =>
    /\ At(p[1], p[2]) # 0
    /\ dep = 0 => p \in lx /\ <<p[1], p[2], At(p[1], p[2])>> \in vlr

FunInv ==
  AFunction =>
    /\ FunTypes /\ FunLive /\ FunIndexed /\ FunLinesL /\ FunLinesR /\ FunTodo /\ FunCleared
    /\ FunTold /\ \A t \in Thread : FunThread(t)

\* The two tables of an injective function, and the sets of their keys.
InjTypes ==
  /\ val \in [Ob -> Rep] /\ lx \subseteq Ob /\ inv \in [Ob -> Rep] /\ rx \subseteq Ob
  /\ \A x \in Ob : val[x] # 0 => {x, val[x]} \subseteq Live
  /\ \A x \in Ob : inv[x] # 0 => {x, inv[x]} \subseteq Live
  /\ \A x \in lx : val[x] # 0
  /\ \A x \in rx : inv[x] # 0

\* A key that is not in its set yet was set by a thread that will put it there.
InjThread ==
  /\ \A t \in Thread : pc[t] = "inj_tell" => val[arg[t][1]] # 0
  /\ \A t \in Thread : pc[t] = "inj_invset" => inv[arg[t][2]] # 0
  /\ \A x \in Ob : val[x] # 0 =>
       x \in lx \/ \E t \in Thread : pc[t] = "inj_tell" /\ arg[t][1] = x
  /\ \A x \in Ob : inv[x] # 0 =>
       x \in rx \/ \E t \in Thread : pc[t] = "inj_invset" /\ arg[t][2] = x

InjTables ==
  kind = "injective" =>
    /\ InjTypes /\ InjThread
    /\ pass \in {"refind", "inverse", "done"} =>
         dep \notin lx /\ \A x \in Ob : val[x] # dep
    /\ pass = "done" => dep \notin rx /\ \A x \in Ob : inv[x] # dep

\* The pairs that a thread will put into the columns, those that it will put
\* into the rows, and those that it will tell.
ToRight(t, p) ==
  \/ pc[t] = "rel_Rx2" /\ arg[t] = p
  \/ pc[t] = "row_tell" /\ p \in new[t]
ToLeft(t, p) ==
  \/ pc[t] = "rel_Lx2" /\ arg[t] = p
  \/ pc[t] = "col_tell" /\ p \in new[t]
ToTell(t, p) ==
  \/ pc[t] \in {"rel_Rx2", "rel_Lx2", "rel_tell"} /\ arg[t] = p
  \/ pc[t] \in {"row_tell", "col_tell"} /\ p \in new[t]

RelThread(t) ==
  /\ pc[t] \in {"row_or", "row_tell", "col_or", "col_tell"} => new[t] \subseteq arg[t]
  /\ pc[t] = "row_or" => arg[t] \ new[t] \subseteq lx
  /\ pc[t] = "col_or" => arg[t] \ new[t] \subseteq rx
  /\ pc[t] = "rel_Rx2" => arg[t] \in lx
  /\ pc[t] = "rel_Lx2" => arg[t] \in rx
  /\ pc[t] = "rel_tell" => arg[t] \in lx \cap rx
  /\ pc[t] = "row_tell" => arg[t] \subseteq lx
  /\ pc[t] = "col_tell" => arg[t] \subseteq rx

\* Whatever is in one line only will be put into the other one, and told, by the
\* thread that found it new.
RelTypes == lx \subseteq Live \X Live /\ rx \subseteq Live \X Live
RelRight == \A p \in lx \ rx : \E t \in Thread : ToRight(t, p)
RelLeft  == \A p \in rx \ lx : \E t \in Thread : ToLeft(t, p)
RelTold  == \A p \in (lx \cup rx) \ (told \cup loaded) : \E t \in Thread : ToTell(t, p)

RelInv ==
  kind = "relation" =>
    /\ RelTypes /\ RelRight /\ RelLeft /\ RelTold
    /\ \A t \in Thread : RelThread(t)
    /\ pass = "done" => \A p \in lx : p[1] # dep /\ p[2] # dep

UnInv ==
  kind = "unary" =>
    /\ lx \subseteq Live \cap (told \cup loaded)
    /\ pass = "done" => dep \notin lx

SInv == CarrierInv /\ MergeInv /\ ThreadTypes /\ ThreadInv /\ FunInv /\ InjTables /\ RelInv /\ UnInv

-----------------------------------------------------------------------------
(* The carrier.                                                            *)

\* Merging grows the classes and removes nothing.
LEMMA MergeGrows ==
  ASSUME CarrierInv, UNCHANGED <<kind, dep>>, NEW x \in Live, NEW y \in Live, Merge(x, y)
  PROVE  /\ CarrierInv'
         /\ Live' = Live
         /\ \A a, b \in Ob : root[a] = root[b] => root'[a] = root'[b]
         /\ root'[x] = root'[y]
         /\ LowerOf(root[x], root[y]) \in Live
         /\ root'[LowerOf(root[x], root[y])] = root'[x]
<1> DEFINE lo == LowerOf(root[x], root[y])
           hi == IF root[x] < root[y] THEN root[y] ELSE root[x]
<1>1. /\ root \in [Ob -> Rep] /\ due \subseteq Ob /\ dep \in Rep
      /\ x \in Ob /\ y \in Ob /\ root[x] # 0 /\ root[y] # 0 /\ root[x] \in Ob /\ root[y] \in Ob
      /\ Ob \subseteq Nat /\ Rep \subseteq Nat /\ 0 \notin Ob /\ \A r \in Rep : r # 0 => r \in Ob
  BY TablesAssumption DEF CarrierInv, Live, Ob, Rep
<1>2. /\ lo \in {root[x], root[y]} /\ hi \in {root[x], root[y]} /\ {lo, hi} = {root[x], root[y]}
      /\ (root[x] = root[y] => lo = hi) /\ (root[x] # root[y] => lo # hi)
      /\ lo \in Ob /\ hi \in Ob /\ root[lo] = lo /\ root[hi] = hi
  BY <1>1 DEF LowerOf, CarrierInv
<1>3. root' = [z \in Ob |-> IF root[z] # 0 /\ root[z] \in {lo, hi} THEN lo ELSE root[z]]
  BY <1>2 DEF Merge, United
<1>4. due' = due \cup ({hi} \ {lo})
  BY <1>2 DEF Merge
<1> HIDE DEF lo, hi
<1>5. \A z \in Ob : root'[z] = IF root[z] \in {lo, hi} THEN lo ELSE root[z]
  BY <1>1, <1>2, <1>3
<1>6. root' \in [Ob -> Rep] /\ due' \subseteq Ob /\ dep' \in Rep /\ dep' \notin due'
  <2>1. root' \in [Ob -> Rep]
    BY <1>1, <1>2, <1>3 DEF Ob, Rep
  <2>2. dep # hi \/ lo = hi
    BY <1>1, <1>2 DEF CarrierInv
  <2> QED
    BY <1>1, <1>2, <1>4, <2>1, <2>2 DEF CarrierInv
<1>7. ASSUME NEW z \in Ob PROVE (root'[z] # 0 => root'[root'[z]] = root'[z])
                                /\ (root'[z] = 0 <=> root[z] = 0)
  <2>1. root[z] \in Rep /\ (root[z] # 0 => root[z] \in Ob /\ root[root[z]] = root[z])
    BY <1>1 DEF CarrierInv
  <2> QED
    BY <1>1, <1>2, <1>5, <2>1
<1>8. ASSUME NEW z \in Ob PROVE root'[z] \notin {0, z} <=> z \in due' \/ z = dep'
  <2>1. root[z] \notin {0, z} <=> z \in due \/ z = dep
    BY DEF CarrierInv
  <2>2. root[z] \in Rep
    BY <1>1
  <2>3. CASE root[z] \notin {lo, hi}
    BY <1>2, <1>4, <1>5, <2>1, <2>3
  <2>4. CASE root[z] = lo
    BY <1>1, <1>2, <1>4, <1>5, <2>1, <2>4
  <2>5. CASE root[z] = hi /\ hi # lo
    <3>1. root'[z] = lo /\ lo # 0
      BY <1>1, <1>2, <1>5, <2>5
    <3>2. z # lo
      BY <1>2, <2>5
    <3>3. z = hi \/ root[z] \notin {0, z}
      BY <1>1, <1>2, <2>5
    <3> QED
      BY <1>4, <2>1, <2>5, <3>1, <3>2, <3>3
  <2> QED
    BY <2>3, <2>4, <2>5
<1>9. Live' = Live
  BY <1>7 DEF Live
<1>10. CarrierInv'
  BY <1>6, <1>7, <1>8 DEF CarrierInv
<1>11. lo \in Live /\ root'[lo] = root'[x] /\ root'[x] = root'[y]
  BY <1>1, <1>2, <1>5 DEF Live
<1> QED
  BY <1>5, <1>9, <1>10, <1>11 DEF lo

\* What most steps do to the carrier: at most they merge two obs.
Grows == UNCHANGED kind /\ (MergeNothing \/ \E x, y \in Live : Merge(x, y))

LEMMA CarrierGrows ==
  ASSUME CarrierInv, Grows, dep' = dep
  PROVE  /\ CarrierInv' /\ Live' = Live
         /\ \A a, b \in Ob : root[a] = root[b] => root'[a] = root'[b]
<1>1. CASE MergeNothing
  BY <1>1 DEF Grows, MergeNothing, carrierVars, CarrierInv, Live
<1>2. CASE \E x, y \in Live : Merge(x, y)
  BY <1>2, MergeGrows DEF Grows
<1> QED
  BY <1>1, <1>2 DEF Grows

LEMMA MergeUnlessSetGrows ==
  ASSUME NEW a \in Rep, NEW b \in Live, a # 0 => a \in Live, MergeUnlessSet(a, b), UNCHANGED kind
  PROVE  Grows
BY DEF MergeUnlessSet, Grows

\* A root other than the dep.
LEMMA RootOfRep ==
  ASSUME CarrierInv, NEW x \in Ob, root[x] # 0
  PROVE  root[x] \in Live /\ root[x] # dep /\ root[root[x]] = root[x]
<1>1. root[x] \in Ob /\ 0 \notin Ob /\ root[root[x]] = root[x]
  BY TablesAssumption DEF CarrierInv, Ob, Rep
<1> QED
  BY <1>1 DEF CarrierInv, Live

LEMMA DepIsLive ==
  ASSUME CarrierInv, dep # 0
  PROVE  dep \in Ob /\ dep \in Live /\ root[dep] \in Live /\ root[dep] # dep
<1>1. dep \in Ob /\ 0 \notin Ob
  BY TablesAssumption DEF CarrierInv, Ob, Rep
<1>2. root[dep] \notin {0, dep}
  BY <1>1 DEF CarrierInv
<1> QED
  BY <1>1, <1>2, RootOfRep DEF Live

LEMMA RepIsLive ==
  ASSUME CarrierInv, MergeInv, pass \notin {"none", "start"}
  PROVE  rep \in Live /\ rep # dep /\ root[rep] = root[dep] /\ dep \in Live /\ dep # 0
BY DepIsLive DEF MergeInv, Live

-----------------------------------------------------------------------------
(* The threads and the passes.                                             *)

\* What EXCEPT does to one component.
LEMMA ExceptOne ==
  ASSUME NEW S, NEW g, g = [x \in S |-> g[x]], NEW t \in S, NEW e, NEW h,
         h = [g EXCEPT ![t] = e]
  PROVE  /\ h = [x \in S |-> h[x]] /\ h[t] = e
         /\ \A u \in S \ {t} : h[u] = g[u]
<1>1. DOMAIN g = S
  OBVIOUS
<1>2. h = [x \in S |-> IF x = t THEN e ELSE g[x]]
  BY <1>1
<1> QED
  BY <1>2

ThreadFacts(t, label, f) ==
  /\ pc'[t] = label /\ arg'[t] = f
  /\ \A u \in Thread \ {t} : pc'[u] = pc[u] /\ arg'[u] = arg[u] /\ new'[u] = new[u]

\* A thread goes to another place, with another fact or with the one it has.
LEMMA ThreadMoves ==
  ASSUME ThreadTypes, ThreadInv, UNCHANGED kind, Live' = Live,
         NEW t \in Thread, NEW label, NEW f, Goto(t, label),
         \/ arg' = [arg EXCEPT ![t] = f]
         \/ arg' = arg /\ f = arg[t],
         \/ new' = new
         \/ \E n : new' = [new EXCEPT ![t] = n],
         Placed(label, f)
  PROVE  ThreadTypes' /\ ThreadInv' /\ ThreadFacts(t, label, f)
<1>1. pc' = [pc EXCEPT ![t] = label]
  BY DEF Goto
<1>a. /\ pc' = [x \in Thread |-> pc'[x]] /\ pc'[t] = label
      /\ \A u \in Thread \ {t} : pc'[u] = pc[u]
  BY <1>1, ExceptOne DEF ThreadTypes
<1>b. /\ arg' = [x \in Thread |-> arg'[x]] /\ arg'[t] = f
      /\ \A u \in Thread \ {t} : arg'[u] = arg[u]
  <2>1. CASE arg' = arg /\ f = arg[t]
    BY <2>1 DEF ThreadTypes
  <2>2. CASE arg' = [arg EXCEPT ![t] = f]
    BY <2>2, ExceptOne DEF ThreadTypes
  <2> QED
    BY <2>1, <2>2
<1>c. /\ new' = [x \in Thread |-> new'[x]]
      /\ \A u \in Thread \ {t} : new'[u] = new[u]
  <2>1. CASE new' = new
    BY <2>1 DEF ThreadTypes
  <2>2. CASE \E n : new' = [new EXCEPT ![t] = n]
    <3>1. PICK n : new' = [new EXCEPT ![t] = n]
      BY <2>2
    <3> QED
      BY <3>1, ExceptOne DEF ThreadTypes
  <2> QED
    BY <2>1, <2>2
<1>2. ThreadTypes'
  BY <1>a, <1>b, <1>c DEF ThreadTypes
<1>3. ThreadFacts(t, label, f)
  BY <1>a, <1>b, <1>c DEF ThreadFacts
<1>4. \A l, g : Placed(l, g) => Placed(l, g)'
  BY DEF Placed, AFunction
<1>5. ThreadInv'
  BY <1>3, <1>4 DEF ThreadInv, ThreadFacts
<1> QED
  BY <1>2, <1>3, <1>5

\* A thread returns.
LEMMA ThreadReturns ==
  ASSUME ThreadTypes, ThreadInv, UNCHANGED kind, Live' = Live, NEW t \in Thread, Return(t)
  PROVE  ThreadTypes' /\ ThreadInv' /\ ThreadFacts(t, "idle", <<>>)
BY ThreadMoves DEF Return, Placed

LEMMA ThreadsStay ==
  ASSUME ThreadTypes, ThreadInv, UNCHANGED <<kind, taskVars>>, Live' = Live \/ Idle
  PROVE  ThreadTypes' /\ ThreadInv'
<1>1. ThreadTypes'
  BY DEF ThreadTypes, taskVars
<1>2. CASE Live' = Live
  BY <1>1, <1>2 DEF ThreadInv, Placed, AFunction, taskVars
<1>3. CASE Idle
  BY <1>1, <1>3 DEF ThreadInv, Placed, Idle, taskVars
<1> QED
  BY <1>1, <1>2, <1>3

\* The passes in which nothing is merged.
LEMMA PassStays ==
  ASSUME CarrierInv, MergeInv, Grows, UNCHANGED <<dep, rep, pass>>, dep = 0 \/ UNCHANGED pc
  PROVE  MergeInv'
<1>1. dep' # 0 => Idle'
  BY DEF MergeInv, Idle
<1>2. pass # "none" => dep \in Ob
  BY DepIsLive DEF MergeInv
<1>3. pass \notin {"none", "start"} => root'[rep] = root'[dep]
  BY <1>2, CarrierGrows DEF MergeInv
<1> QED
  BY <1>1, <1>3 DEF MergeInv, Grows

\* A pass of a merge goes on, or gives way to the next one.
PassOf(p) ==
  /\ p \in {"rhs", "diag", "refind", "lhs", "val", "keys", "inverse", "all", "done"}
  /\ p = "rhs" => kind = "binary"
  /\ p = "diag" => kind = "symmetric"
  /\ p = "refind" => kind \in {"symmetric", "injective"}
  /\ p \in {"lhs", "val"} => kind \in {"binary", "symmetric"}
  /\ p \in {"keys", "inverse"} => kind = "injective"
  /\ p = "all" => kind \in {"relation", "unary"}

LEMMA PassGoesOn ==
  ASSUME CarrierInv, MergeInv, Grows, UNCHANGED <<dep, taskVars>>, dep # 0,
         rep' \in Live, rep' # dep, root[rep'] = root[dep], PassOf(pass')
  PROVE  MergeInv'
<1>1. dep' # 0 /\ Idle' /\ kind' = kind
  BY DEF MergeInv, Idle, taskVars, Grows
<1>2. rep' \in Ob /\ dep \in Ob
  BY DepIsLive DEF Live
<1>3. root'[rep'] = root'[dep]
  BY <1>2, CarrierGrows
<1>4. pass' \notin {"none", "start"}
  BY DEF PassOf
<1>5. \A r : root'[r] = (root[r])'
  OBVIOUS
<1>6. (root[rep])' = (root[dep])'
  BY <1>3
<1> QED
  BY <1>1, <1>2, <1>4, <1>6 DEF MergeInv, PassOf

LEMMA FirstPassOf ==
  ASSUME CarrierInv
  PROVE  /\ PassOf(FirstPass) /\ FirstPass # "done" /\ FirstPass \notin {"refind", "lhs", "val"}
         /\ kind = "binary" => FirstPass = "rhs"
         /\ kind = "symmetric" => FirstPass = "diag"
         /\ kind = "injective" => FirstPass = "keys"
         /\ kind \in {"relation", "unary"} => FirstPass = "all"
<1>1. CASE kind = "binary"
  BY <1>1 DEF FirstPass, PassOf
<1>2. CASE kind = "symmetric"
  BY <1>2 DEF FirstPass, PassOf
<1>3. CASE kind = "injective"
  BY <1>3 DEF FirstPass, PassOf
<1>4. CASE kind = "relation"
  BY <1>4 DEF FirstPass, PassOf
<1>5. CASE kind = "unary"
  BY <1>5 DEF FirstPass, PassOf
<1> QED
  BY <1>1, <1>2, <1>3, <1>4, <1>5 DEF CarrierInv

\* The steps that all kinds of tables have: a MergeTask begins, finds the
\* representative, and ends.
LEMMA BeginFrame ==
  ASSUME CarrierInv, MergeInv, NEW d \in Ob, BeginMerge(d)
  PROVE  CarrierInv' /\ MergeInv' /\ Live' = Live
<1>1. /\ dep' = d /\ due' = due \ {d} /\ root' = root /\ kind' = kind /\ d \in due
      /\ dep = 0 /\ pass' = "start" /\ Idle /\ pc' = pc
  BY DEF BeginMerge, taskVars
<1>2. 0 \notin Ob /\ d \in Rep
  BY TablesAssumption DEF Ob, Rep
<1>3. CarrierInv'
  BY <1>1, <1>2 DEF CarrierInv
<1>4. MergeInv'
  BY <1>1, <1>2 DEF MergeInv, Idle
<1> QED
  BY <1>1, <1>3, <1>4 DEF Live

LEMMA FindFrame ==
  ASSUME CarrierInv, MergeInv, FindRep
  PROVE  /\ CarrierInv' /\ MergeInv' /\ Live' = Live /\ Grows
         /\ dep # 0 /\ rep' \in Live /\ rep' # dep
<1>1. dep # 0
  BY DEF MergeInv, FindRep
<1>2. rep' = root[dep] /\ pass' = FirstPass /\ UNCHANGED <<kind, carrierVars, dep, taskVars>>
  BY DEF FindRep
<1>3. rep' \in Live /\ rep' # dep /\ root[rep'] = root[dep]
  BY <1>1, <1>2, DepIsLive, RootOfRep DEF CarrierInv, Live
<1>4. Grows
  BY <1>2 DEF Grows, MergeNothing
<1>5. PassOf(pass')
  BY <1>2, FirstPassOf
<1> QED
  BY <1>1, <1>2, <1>3, <1>4, <1>5, PassGoesOn, CarrierGrows

LEMMA EndFrame ==
  ASSUME CarrierInv, MergeInv, EndMerge
  PROVE  CarrierInv' /\ MergeInv' /\ Live' = Live \ {dep} /\ dep # 0 /\ dep \in Live
<1>1. /\ root' = [root EXCEPT ![dep] = 0] /\ dep' = 0 /\ pass' = "none" /\ due' = due
      /\ kind' = kind /\ pc' = pc /\ pass = "done"
  BY DEF EndMerge, taskVars
<1>2. dep # 0 /\ dep \in Ob /\ dep \in Live
  BY <1>1, DepIsLive DEF MergeInv
<1>3. 0 \in Rep /\ 0 \notin Ob
  BY TablesAssumption DEF Ob, Rep
<1>4. \A x \in Ob : root'[x] = IF x = dep THEN 0 ELSE root[x]
  BY <1>1 DEF CarrierInv
<1>5. \A x \in Ob : root[x] # dep
  BY <1>2, <1>3, RootOfRep DEF CarrierInv
<1>6. CarrierInv'
  BY <1>1, <1>2, <1>3, <1>4, <1>5 DEF CarrierInv
<1>7. MergeInv'
  BY <1>1 DEF MergeInv
<1>8. Live' = Live \ {dep}
  BY <1>2, <1>4 DEF Live
<1> QED
  BY <1>2, <1>6, <1>7, <1>8

\* An equation between two obs, by a task or by another merging thread.
LEMMA EqualFrame ==
  ASSUME CarrierInv, MergeInv, ThreadTypes, ThreadInv, NEW x \in Live, NEW y \in Live,
         TaskMerge(x, y) \/ OtherMerge(x, y)
  PROVE  /\ CarrierInv' /\ MergeInv' /\ ThreadTypes' /\ ThreadInv' /\ Live' = Live /\ Grows
         /\ UNCHANGED <<kind, tableVars, mergeVars, taskVars, told, loaded>>
<1>1. UNCHANGED <<kind, tableVars, mergeVars, taskVars, told, loaded>> /\ Merge(x, y)
  BY DEF TaskMerge, OtherMerge, Equal
<1>2. Grows
  BY <1>1 DEF Grows
<1>3. UNCHANGED <<kind, dep, rep, pass, pc>>
  BY <1>1 DEF mergeVars, taskVars
<1>4. CarrierInv' /\ Live' = Live
  BY <1>2, <1>3, CarrierGrows
<1>5. MergeInv'
  BY <1>2, <1>3, PassStays
<1> QED
  BY <1>1, <1>2, <1>4, <1>5, ThreadsStay

-----------------------------------------------------------------------------
(* Relations.                                                              *)

\* A thread that inserts pairs: what it does itself is all that matters.
LEMMA RelMoves ==
  ASSUME kind = "relation", RelInv, UNCHANGED <<kind, loaded, pass>>, pass = "none", Live' = Live,
         NEW t \in Thread, NEW label, NEW f, ThreadFacts(t, label, f),
         lx \subseteq lx', rx \subseteq rx', told \subseteq told',
         lx' \subseteq Live \X Live, rx' \subseteq Live \X Live,
         RelThread(t)',
         \A p \in lx' \ lx : p \in rx' \/ ToRight(t, p)',
         \A p \in rx' \ rx : p \in lx' \/ ToLeft(t, p)',
         \A p \in (lx' \cup rx') \ (lx \cup rx) : p \in told' \/ ToTell(t, p)',
         \A p : ToRight(t, p) => p \in rx' \/ ToRight(t, p)',
         \A p : ToLeft(t, p) => p \in lx' \/ ToLeft(t, p)',
         \A p : ToTell(t, p) => p \in told' \/ ToTell(t, p)'
  PROVE  RelInv'
<1>1. \A u \in Thread \ {t} : RelThread(u)'
  <2>1. \A u \in Thread \ {t} : RelThread(u)
    BY DEF RelInv
  <2>2. \A u \in Thread \ {t} : pc'[u] = pc[u] /\ arg'[u] = arg[u] /\ new'[u] = new[u]
    BY DEF ThreadFacts
  <2> QED
    BY <2>1, <2>2 DEF RelThread
<1>2. \A u \in Thread \ {t} : \A p :
        /\ ToRight(u, p) => ToRight(u, p)'
        /\ ToLeft(u, p) => ToLeft(u, p)'
        /\ ToTell(u, p) => ToTell(u, p)'
  BY DEF ThreadFacts, ToRight, ToLeft, ToTell
<1>3. RelRight'
  <2> SUFFICES ASSUME NEW p \in lx', p \notin rx' PROVE \E u \in Thread : ToRight(u, p)'
    BY DEF RelRight
  <2>1. CASE p \in lx
    <3>1. PICK u \in Thread : ToRight(u, p)
      BY <2>1 DEF RelInv, RelRight
    <3>2. CASE u = t
      BY <3>1, <3>2 DEF ToRight
    <3>3. CASE u # t
      BY <1>2, <3>1, <3>3 DEF ToRight
    <3> QED
      BY <3>2, <3>3
  <2> QED
    BY <2>1
<1>4. RelLeft'
  <2> SUFFICES ASSUME NEW p \in rx', p \notin lx' PROVE \E u \in Thread : ToLeft(u, p)'
    BY DEF RelLeft
  <2>1. CASE p \in rx
    <3>1. PICK u \in Thread : ToLeft(u, p)
      BY <2>1 DEF RelInv, RelLeft
    <3>2. CASE u = t
      BY <3>1, <3>2 DEF ToLeft
    <3>3. CASE u # t
      BY <1>2, <3>1, <3>3 DEF ToLeft
    <3> QED
      BY <3>2, <3>3
  <2> QED
    BY <2>1
<1>5. RelTold'
  <2> SUFFICES ASSUME NEW p \in lx' \cup rx', p \notin told', p \notin loaded'
               PROVE  \E u \in Thread : ToTell(u, p)'
    BY DEF RelTold
  <2>1. CASE p \in lx \cup rx
    <3>1. PICK u \in Thread : ToTell(u, p)
      BY <2>1 DEF RelInv, RelTold
    <3>2. CASE u = t
      BY <3>1, <3>2 DEF ToTell
    <3>3. CASE u # t
      BY <1>2, <3>1, <3>3 DEF ToTell
    <3> QED
      BY <3>2, <3>3
  <2> QED
    BY <2>1
<1>6. RelTypes'
  BY DEF RelTypes
<1> QED
  BY <1>1, <1>3, <1>4, <1>5, <1>6 DEF RelInv

\* A step of a thread while no MergeTask runs.
LEMMA NoMergeRuns ==
  ASSUME MergeInv, NEW t \in Thread, pc[t] # "idle"
  PROVE  dep = 0 /\ pass = "none"
BY DEF MergeInv, Idle

\* One pair is inserted from one of its two lines.
LEMMA RelPair ==
  ASSUME CarrierInv, MergeInv, ThreadTypes, ThreadInv, RelInv, kind = "relation",
         NEW t \in Thread, RelFirst(t) \/ RelSecond(t) \/ RelTell(t)
  PROVE  ThreadTypes' /\ ThreadInv' /\ RelInv'
<1>1. /\ UNCHANGED <<kind, loaded, pass>> /\ Live' = Live /\ pc[t] # "idle"
      /\ pc[t] \in PairLabel
  BY DEF RelFirst, RelSecond, RelTell, carrierVars, mergeVars, askedVars, Live, PairLabel
<1>2. pass = "none" /\ arg[t] \in Live \X Live
  BY <1>1, NoMergeRuns DEF ThreadInv, Placed, AFunction, PairLabel, LineLabel
<1>3. lx \subseteq Live \X Live /\ rx \subseteq Live \X Live /\ RelThread(t)
  BY DEF RelInv, RelTypes
<1>a. ASSUME NEW l \in {"rel_Rx2", "rel_Lx2", "rel_tell"}, Goto(t, l), UNCHANGED <<arg, new>>
      PROVE  ThreadTypes' /\ ThreadInv' /\ ThreadFacts(t, l, arg[t])
  <2>1. Placed(l, arg[t])
    BY <1>2, <1>a DEF Placed, PairLabel
  <2> QED
    BY <1>1, <1>a, <2>1, ThreadMoves
<1>b. ASSUME Return(t)
      PROVE  ThreadTypes' /\ ThreadInv' /\ ThreadFacts(t, "idle", <<>>)
  BY <1>1, <1>b, ThreadReturns
<1>c. ASSUME NEW l, NEW f, ThreadFacts(t, l, f), l \in {"rel_Rx2", "rel_Lx2", "rel_tell", "idle"},
             f = arg[t] \/ l = "idle",
             lx \subseteq lx', rx \subseteq rx', told \subseteq told',
             lx' \subseteq lx \cup {arg[t]}, rx' \subseteq rx \cup {arg[t]},
             l = "rel_Rx2" => arg[t] \in lx', l = "rel_Lx2" => arg[t] \in rx',
             l = "rel_tell" => arg[t] \in lx' \cap rx',
             arg[t] \in lx' \ rx' => lx' = lx \/ l = "rel_Rx2",
             arg[t] \in rx' \ lx' => rx' = rx \/ l = "rel_Lx2",
             (lx' = lx /\ rx' = rx) \/ l # "idle",
             pc[t] \in {"rel_Rx2", "rel_Lx2"} => l = "rel_tell" /\ arg[t] \in lx' \cap rx',
             pc[t] = "rel_tell" => arg[t] \in told'
      PROVE  RelInv'
  <2>1. pc'[t] = l /\ arg'[t] = f
    BY <1>c DEF ThreadFacts
  <2>2. RelThread(t)'
    BY <1>c, <2>1 DEF RelThread
  <2>3. lx' \subseteq Live \X Live /\ rx' \subseteq Live \X Live
    BY <1>2, <1>3, <1>c
  <2>4. \A p \in lx' \ lx : p \in rx' \/ ToRight(t, p)'
    BY <1>c, <2>1 DEF ToRight
  <2>5. \A p \in rx' \ rx : p \in lx' \/ ToLeft(t, p)'
    BY <1>c, <2>1 DEF ToLeft
  <2>6. \A p \in (lx' \cup rx') \ (lx \cup rx) : p \in told' \/ ToTell(t, p)'
    BY <1>c, <2>1 DEF ToTell
  <2>7. \A p : ToRight(t, p) => p \in rx' \/ ToRight(t, p)'
    BY <1>1, <1>c, <2>1 DEF ToRight, PairLabel
  <2>8. \A p : ToLeft(t, p) => p \in lx' \/ ToLeft(t, p)'
    BY <1>1, <1>c, <2>1 DEF ToLeft, PairLabel
  <2>9. \A p : ToTell(t, p) => p \in told' \/ ToTell(t, p)'
    BY <1>1, <1>c, <2>1 DEF ToTell, PairLabel
  <2> QED
    BY <1>1, <1>2, <1>c, <2>2, <2>3, <2>4, <2>5, <2>6, <2>7, <2>8, <2>9, RelMoves
<1>4. CASE RelFirst(t)
  <2>1. \/ /\ pc[t] = "rel_Lx" /\ lx' = lx \cup {arg[t]} /\ rx' = rx /\ told' = told
           /\ IF arg[t] \in lx THEN Return(t) ELSE Goto(t, "rel_Rx2") /\ UNCHANGED <<arg, new>>
        \/ /\ pc[t] = "rel_Rx" /\ rx' = rx \cup {arg[t]} /\ lx' = lx /\ told' = told
           /\ IF arg[t] \in rx THEN Return(t) ELSE Goto(t, "rel_Lx2") /\ UNCHANGED <<arg, new>>
    BY <1>4 DEF RelFirst
  <2>2. CASE \/ pc[t] = "rel_Lx" /\ arg[t] \in lx
             \/ pc[t] = "rel_Rx" /\ arg[t] \in rx
    <3>1. lx' = lx /\ rx' = rx /\ told' = told /\ Return(t) /\ pc[t] \in {"rel_Lx", "rel_Rx"}
      BY <2>1, <2>2
    <3> QED
      BY <1>b, <1>c, <3>1
  <2>3. CASE pc[t] = "rel_Lx" /\ arg[t] \notin lx
    BY <1>a, <1>c, <2>1, <2>3
  <2>4. CASE pc[t] = "rel_Rx" /\ arg[t] \notin rx
    BY <1>a, <1>c, <2>1, <2>4
  <2> QED
    BY <2>1, <2>2, <2>3, <2>4
<1>5. CASE RelSecond(t)
  <2>1. /\ \/ pc[t] = "rel_Rx2" /\ rx' = rx \cup {arg[t]} /\ lx' = lx
           \/ pc[t] = "rel_Lx2" /\ lx' = lx \cup {arg[t]} /\ rx' = rx
        /\ Goto(t, "rel_tell") /\ UNCHANGED <<arg, new, told>>
    BY <1>5 DEF RelSecond
  <2>2. arg[t] \in lx' \cap rx'
    BY <1>3, <2>1 DEF RelThread
  <2>3. ThreadTypes' /\ ThreadInv' /\ ThreadFacts(t, "rel_tell", arg[t])
    BY <1>a, <2>1
  <2> QED
    BY <1>c, <2>1, <2>2, <2>3
<1>6. CASE RelTell(t)
  <2>1. pc[t] = "rel_tell" /\ told' = told \cup {arg[t]} /\ Return(t) /\ lx' = lx /\ rx' = rx
    BY <1>6 DEF RelTell, tableVars
  <2> QED
    BY <1>b, <1>c, <2>1
<1> QED
  BY <1>4, <1>5, <1>6

\* A whole line is inserted: only what was not there when it was loaded.
LEMMA RelLine ==
  ASSUME CarrierInv, MergeInv, ThreadTypes, ThreadInv, RelInv, kind = "relation",
         NEW t \in Thread, LineLoad(t) \/ LineOr(t) \/ LineTell(t)
  PROVE  ThreadTypes' /\ ThreadInv' /\ RelInv'
<1>1. /\ UNCHANGED <<kind, loaded, pass>> /\ Live' = Live /\ pc[t] # "idle"
      /\ pc[t] \in LineLabel
  BY DEF LineLoad, LineOr, LineTell, carrierVars, mergeVars, askedVars, Live, LineLabel
<1>2. pass = "none" /\ arg[t] \subseteq Live \X Live
  BY <1>1, NoMergeRuns DEF ThreadInv, Placed, AFunction, PairLabel, LineLabel
<1>3. lx \subseteq Live \X Live /\ rx \subseteq Live \X Live /\ RelThread(t)
  BY DEF RelInv, RelTypes
<1>a. ASSUME NEW l \in LineLabel, Goto(t, l), arg' = arg,
             new' = new \/ \E n : new' = [new EXCEPT ![t] = n]
      PROVE  ThreadTypes' /\ ThreadInv' /\ ThreadFacts(t, l, arg[t])
  <2>1. Placed(l, arg[t])
    BY <1>2, <1>a DEF Placed
  <2> QED
    BY <1>1, <1>a, <2>1, ThreadMoves
<1>4. CASE LineLoad(t)
  <2>1. PICK l \in {"row_or", "col_or"}, s \in {lx, rx} :
          /\ pc[t] \in {"row_load", "col_load"}
          /\ new' = [new EXCEPT ![t] = arg[t] \ s] /\ Goto(t, l) /\ (l = "row_or" => s = lx)
          /\ (l = "col_or" => s = rx) /\ arg' = arg /\ UNCHANGED <<lx, rx, told>>
    BY <1>4 DEF LineLoad, tableVars
  <2>2. ThreadTypes' /\ ThreadInv' /\ ThreadFacts(t, l, arg[t])
    BY <1>a, <2>1 DEF LineLabel
  <2>3. pc'[t] = l /\ arg'[t] = arg[t] /\ new'[t] = arg[t] \ s
    BY <2>1, <2>2, ExceptOne DEF ThreadFacts, ThreadTypes
  <2>4. RelThread(t)'
    BY <1>3, <2>1, <2>3 DEF RelThread
  <2>5. /\ \A p : ~ ToRight(t, p)
        /\ \A p : ~ ToLeft(t, p)
        /\ \A p : ~ ToTell(t, p)
    BY <2>1 DEF ToRight, ToLeft, ToTell
  <2> QED
    BY <1>1, <1>2, <1>3, <2>1, <2>2, <2>4, <2>5, RelMoves
<1>5. CASE LineOr(t)
  <2>1. /\ \/ pc[t] = "row_or" /\ lx' = lx \cup arg[t] /\ rx' = rx /\ Goto(t, "row_tell")
           \/ pc[t] = "col_or" /\ rx' = rx \cup arg[t] /\ lx' = lx /\ Goto(t, "col_tell")
        /\ arg' = arg /\ new' = new /\ told' = told
    BY <1>5 DEF LineOr
  <2>2. PICK l \in {"row_tell", "col_tell"} :
          /\ \/ pc[t] = "row_or" /\ lx' = lx \cup arg[t] /\ rx' = rx /\ l = "row_tell"
             \/ pc[t] = "col_or" /\ rx' = rx \cup arg[t] /\ lx' = lx /\ l = "col_tell"
          /\ Goto(t, l)
    BY <2>1
  <2>3. ThreadTypes' /\ ThreadInv' /\ ThreadFacts(t, l, arg[t])
    BY <1>a, <2>1, <2>2 DEF LineLabel
  <2>4. pc'[t] = l /\ arg'[t] = arg[t] /\ new'[t] = new[t]
    BY <2>1, <2>3 DEF ThreadFacts
  <2>5. RelThread(t)'
    BY <1>3, <2>2, <2>4 DEF RelThread
  <2>6. /\ \A p \in lx' \ lx : ToRight(t, p)' /\ ToTell(t, p)'
        /\ \A p \in rx' \ rx : ToLeft(t, p)' /\ ToTell(t, p)'
    BY <1>3, <2>2, <2>4 DEF RelThread, ToRight, ToLeft, ToTell
  <2>7. /\ \A p : ~ ToRight(t, p)
        /\ \A p : ~ ToLeft(t, p)
        /\ \A p : ~ ToTell(t, p)
    BY <2>2 DEF ToRight, ToLeft, ToTell
  <2>8. /\ lx \subseteq lx' /\ rx \subseteq rx' /\ told \subseteq told'
        /\ lx' \subseteq Live \X Live /\ rx' \subseteq Live \X Live
    BY <1>2, <1>3, <2>1, <2>2
  <2>9. \A p \in (lx' \cup rx') \ (lx \cup rx) : p \in told' \/ ToTell(t, p)'
    BY <2>6
  <2>10. /\ \A p \in lx' \ lx : p \in rx' \/ ToRight(t, p)'
         /\ \A p \in rx' \ rx : p \in lx' \/ ToLeft(t, p)'
    BY <2>6
  <2> QED
    BY <1>1, <1>2, <2>3, <2>5, <2>7, <2>8, <2>9, <2>10, RelMoves
<1>6. CASE LineTell(t)
  <2>1. /\ \/ pc[t] = "row_tell" /\ rx' = rx \cup new[t] /\ lx' = lx
           \/ pc[t] = "col_tell" /\ lx' = lx \cup new[t] /\ rx' = rx
        /\ told' = told \cup new[t] /\ Return(t)
    BY <1>6 DEF LineTell
  <2>2. ThreadTypes' /\ ThreadInv' /\ ThreadFacts(t, "idle", <<>>)
    BY <1>1, <2>1, ThreadReturns
  <2>3. pc'[t] = "idle"
    BY <2>2 DEF ThreadFacts
  <2>4. RelThread(t)'
    BY <2>3 DEF RelThread
  <2>5. new[t] \subseteq arg[t] /\ new[t] \subseteq Live \X Live
        /\ (pc[t] = "row_tell" => new[t] \subseteq lx)
        /\ (pc[t] = "col_tell" => new[t] \subseteq rx)
    BY <1>2, <1>3, <2>1 DEF RelThread
  <2>6. /\ lx \subseteq lx' /\ rx \subseteq rx' /\ told \subseteq told'
        /\ lx' \subseteq Live \X Live /\ rx' \subseteq Live \X Live
    BY <1>3, <2>1, <2>5
  <2>7. /\ \A p : ToRight(t, p) => p \in rx'
        /\ \A p : ToLeft(t, p) => p \in lx'
        /\ \A p : ToTell(t, p) => p \in told'
    BY <2>1 DEF ToRight, ToLeft, ToTell
  <2>8. lx' \ lx \subseteq rx' /\ rx' \ rx \subseteq lx' /\ (lx' \cup rx') \ (lx \cup rx) \subseteq told'
    BY <2>1, <2>5
  <2> QED
    BY <1>1, <1>2, <2>2, <2>4, <2>6, <2>7, <2>8, RelMoves
<1> QED
  BY <1>4, <1>5, <1>6

LEMMA RelStart ==
  ASSUME CarrierInv, MergeInv, ThreadTypes, ThreadInv, RelInv, kind = "relation",
         NEW t \in Thread, StartInsert(t)
  PROVE  ThreadTypes' /\ ThreadInv' /\ RelInv'
<1>1. PICK l, f : /\ \/ l \in {"rel_Lx", "rel_Rx"} /\ f \in Live \X Live
                     \/ l \in {"row_load", "col_load"} /\ f \subseteq Live \X Live
                  /\ \E a : Start(t, l, f, a)
  <2>1. ASSUME NEW i \in Live, NEW js \in kSubset(2, Live)
        PROVE  {i} \X js \subseteq Live \X Live /\ js \X {i} \subseteq Live \X Live
    BY <2>1 DEF kSubset
  <2> QED
    BY <2>1 DEF StartInsert
<1>2. /\ UNCHANGED <<kind, loaded, pass, lx, rx, told>> /\ Live' = Live /\ pass = "none" /\ pc[t] = "idle"
      /\ Goto(t, l) /\ arg' = [arg EXCEPT ![t] = f] /\ new' = new
  BY <1>1 DEF Start, carrierVars, mergeVars, tableVars, Live, MergeInv
<1>3. Placed(l, f)
  BY <1>1 DEF Placed, PairLabel, LineLabel
<1>4. ThreadTypes' /\ ThreadInv' /\ ThreadFacts(t, l, f)
  BY <1>2, <1>3, ThreadMoves
<1>5. RelThread(t)'
  BY <1>1, <1>4 DEF RelThread, ThreadFacts
<1>6. /\ \A p : ~ ToRight(t, p)
      /\ \A p : ~ ToLeft(t, p)
      /\ \A p : ~ ToTell(t, p)
  BY <1>2 DEF ToRight, ToLeft, ToTell
<1>7. lx \subseteq Live \X Live /\ rx \subseteq Live \X Live
  BY DEF RelInv, RelTypes
<1> QED
  BY <1>2, <1>4, <1>5, <1>6, <1>7, RelMoves

\* The insertions into the tables of a kind leave the carrier alone.
LEMMA RelInsert ==
  ASSUME CarrierInv, MergeInv, ThreadTypes, ThreadInv, RelInv, kind = "relation",
         NEW t \in Thread, Insert(t)
  PROVE  /\ ThreadTypes' /\ ThreadInv' /\ RelInv'
         /\ dep = 0 /\ UNCHANGED <<kind, carrierVars, mergeVars, loaded>>
<1>1. CASE StartInsert(t)
  <2>1. dep = 0 /\ UNCHANGED <<kind, carrierVars, mergeVars, loaded>>
    BY <1>1 DEF StartInsert, Start
  <2> QED
    BY <1>1, <2>1, RelStart
<1>2. CASE RelFirst(t) \/ RelSecond(t) \/ RelTell(t)
  <2>1. pc[t] # "idle" /\ UNCHANGED <<kind, carrierVars, mergeVars, loaded>>
    BY <1>2 DEF RelFirst, RelSecond, RelTell, askedVars
  <2> QED
    BY <1>2, <2>1, RelPair, NoMergeRuns
<1>3. CASE LineLoad(t) \/ LineOr(t) \/ LineTell(t)
  <2>1. pc[t] # "idle" /\ UNCHANGED <<kind, carrierVars, mergeVars, loaded>>
    BY <1>3 DEF LineLoad, LineOr, LineTell, askedVars
  <2> QED
    BY <1>3, <2>1, RelLine, NoMergeRuns
<1> QED
  BY <1>1, <1>2, <1>3 DEF Insert, ThreadInv, Placed, FunSet, FunLines, FunIndex, FunTell,
     InjSet, InjTell, InjInv, InjInvSet, UnSet, AFunction, PairLabel, LineLabel

LEMMA RelStays ==
  ASSUME RelInv, UNCHANGED <<kind, lx, rx, told, loaded, taskVars>>, Live' = Live,
         pass' # "done" \/ UNCHANGED <<dep, pass>>
  PROVE  RelInv'
<1>1. UNCHANGED <<pc, arg, new>>
  BY DEF taskVars
<1>2. \A t : /\ RelThread(t)' <=> RelThread(t)
             /\ \A p : /\ ToRight(t, p)' <=> ToRight(t, p)
                       /\ ToLeft(t, p)' <=> ToLeft(t, p)
                       /\ ToTell(t, p)' <=> ToTell(t, p)
  BY <1>1 DEF RelThread, ToRight, ToLeft, ToTell
<1>3. kind = "relation" => RelTypes' /\ RelRight' /\ RelLeft' /\ RelTold'
  BY <1>2 DEF RelInv, RelTypes, RelRight, RelLeft, RelTold
<1> QED
  BY <1>2, <1>3 DEF RelInv

\* Between two tasks both lines have the same pairs, and all of them were told.
LEMMA RelAgrees ==
  ASSUME RelInv, kind = "relation", Idle
  PROVE  lx = rx /\ lx \subseteq told \cup loaded /\ lx \subseteq Live \X Live
<1>1. \A t \in Thread : \A p : ~ ToRight(t, p) /\ ~ ToLeft(t, p) /\ ~ ToTell(t, p)
  BY DEF Idle, ToRight, ToLeft, ToTell
<1> QED
  BY <1>1 DEF RelInv, RelRight, RelLeft, RelTold, RelTypes

\* The converse, in a state in which no thread inserts anything.
LEMMA RelWhenIdle ==
  ASSUME Idle, lx = rx, lx \subseteq told \cup loaded, lx \subseteq Live \X Live,
         pass = "done" => \A p \in lx : p[1] # dep /\ p[2] # dep
  PROVE  RelInv
<1>1. \A t \in Thread : RelThread(t)
  BY DEF Idle, RelThread
<1> QED
  BY <1>1 DEF RelInv, RelRight, RelLeft, RelTold, RelTypes

\* The pairs of the dep go to the rep, rows first, in both lines alike.
LEMMA RelMerge ==
  ASSUME CarrierInv, MergeInv, RelInv, MoveRelation
  PROVE  /\ RelInv' /\ dep # 0 /\ UNCHANGED <<kind, carrierVars, dep, rep, taskVars>> /\ pass' = "done"
         /\ lx' = rx' /\ rx' = ColumnsFolded(RowsFolded(lx)) /\ lx = rx
<1>1. /\ kind = "relation" /\ pass = "all" /\ pass' = "done" /\ loaded' = loaded
      /\ UNCHANGED <<kind, carrierVars, dep, rep, taskVars>>
  BY DEF MoveRelation, askedVars
<1>2. rep \in Live /\ rep # dep /\ dep # 0 /\ Idle
  BY <1>1, RepIsLive DEF MergeInv
<1>3. lx = rx /\ lx \subseteq told \cup loaded /\ lx \subseteq Live \X Live
  BY <1>1, <1>2, RelAgrees
<1> DEFINE row  == {p \in lx : p[1] = dep}
           rows == {<<rep, p[2]>> : p \in row}
           rx1  == (rx \ row) \cup (rows \ lx)
           col  == {p \in rx1 : p[2] = dep}
           cols == {<<p[1], rep>> : p \in col}
<1>4. /\ lx' = (RowsFolded(lx) \ col) \cup (cols \ rx1)
      /\ rx' = ColumnsFolded(rx1)
      /\ told' = told \cup ((rows \ lx) \cup (cols \ rx1))
  BY DEF MoveRelation, News
<1>5. RowsFolded(lx) = rx1 /\ rx1 \subseteq Live \X Live /\ \A p \in rx1 : p[1] # dep
  <2>1. \A p \in lx : p = <<p[1], p[2]>> /\ p[1] \in Live /\ p[2] \in Live
    BY <1>3
  <2>2. rows \subseteq Live \X Live /\ \A p \in rows : p[1] # dep
    BY <1>2, <2>1
  <2>3. RowsFolded(lx) = (lx \ row) \cup rows
    BY DEF RowsFolded
  <2>4. (lx \ row) \cup rows = rx1
    BY <1>3, <2>2
  <2>5. rx1 \subseteq Live \X Live /\ \A p \in rx1 : p[1] # dep
    BY <1>3, <2>2
  <2> QED
    BY <2>3, <2>4, <2>5
<1>6. rx1 \subseteq told \cup loaded \cup (rows \ lx)
  BY <1>3
<1> HIDE DEF row, rows, rx1
<1>7. cols \subseteq Live \X Live /\ \A p \in cols : p[1] # dep /\ p[2] # dep
  <2>1. \A p \in rx1 : p = <<p[1], p[2]>> /\ p[1] \in Live /\ p[2] \in Live
    BY <1>5
  <2> QED
    BY <1>2, <1>5, <2>1
<1>8. rx' = (rx1 \ col) \cup cols
  BY <1>4 DEF ColumnsFolded
<1>9. lx' = (rx1 \ col) \cup (cols \ rx1)
  BY <1>4, <1>5
<1>10. \A p \in cols : p \notin col
  BY <1>7
<1> HIDE DEF cols
<1>11. lx' = rx'
  BY <1>8, <1>9, <1>10
<1>12. lx' \subseteq told' \cup loaded'
  BY <1>1, <1>4, <1>6, <1>9
<1>13. lx' \subseteq Live \X Live /\ \A p \in lx' : p[1] # dep /\ p[2] # dep
  BY <1>5, <1>7, <1>9
<1>14. Live' = Live /\ Idle' /\ dep' = dep
  BY <1>1, <1>2 DEF Live, carrierVars, Idle, taskVars
<1>15. (Live \X Live)' = Live \X Live
  BY <1>14
<1>16. RelInv'
  BY <1>1, <1>11, <1>12, <1>13, <1>14 DEF RelInv, RelThread, RelRight, RelLeft, RelTold, RelTypes, Idle
<1> QED
  BY <1>1, <1>2, <1>3, <1>4, <1>5, <1>11, <1>16

\* The dep is removed: no pair has it.
LEMMA RelEnd ==
  ASSUME CarrierInv, MergeInv, RelInv, EndMerge
  PROVE  RelInv'
<1>1. kind = "relation" => RelInv'
  <2> SUFFICES ASSUME kind = "relation" PROVE RelInv'
    OBVIOUS
  <2>1. /\ pass = "done" /\ UNCHANGED <<kind, lx, rx, told, loaded, pc>> /\ pass' = "none"
    BY DEF EndMerge, tableVars, askedVars, taskVars
  <2>2. Idle /\ Live' = Live \ {dep}
    BY EndFrame DEF MergeInv
  <2>3. lx = rx /\ lx \subseteq told \cup loaded /\ lx \subseteq Live \X Live
    BY <2>2, RelAgrees
  <2>4. \A p \in lx : p[1] # dep /\ p[2] # dep
    BY <2>1 DEF RelInv
  <2>5. lx \subseteq Live' \X Live'
    BY <2>2, <2>3, <2>4
  <2> QED
    BY <2>1, <2>2, <2>3, <2>5 DEF RelInv, RelThread, RelRight, RelLeft, RelTold, RelTypes, Idle
<1>2. kind # "relation" => RelInv'
  BY DEF RelInv, EndMerge
<1> QED
  BY <1>1, <1>2

-----------------------------------------------------------------------------
(* Unary relations.                                                        *)

LEMMA UnInsert ==
  ASSUME CarrierInv, MergeInv, ThreadTypes, ThreadInv, UnInv, kind = "unary",
         NEW t \in Thread, Insert(t)
  PROVE  /\ ThreadTypes' /\ ThreadInv' /\ UnInv'
         /\ dep = 0 /\ UNCHANGED <<kind, carrierVars, mergeVars, loaded>>
<1>1. CASE StartInsert(t)
  <2>1. PICK i \in Live : Start(t, "un_set", i, {i})
    BY <1>1 DEF StartInsert
  <2>2. /\ dep = 0 /\ UNCHANGED <<kind, carrierVars, mergeVars, loaded, pass, lx, told>>
        /\ Live' = Live /\ Goto(t, "un_set") /\ arg' = [arg EXCEPT ![t] = i] /\ new' = new
    BY <2>1 DEF Start, carrierVars, mergeVars, tableVars, Live
  <2>3. Placed("un_set", i)
    BY DEF Placed
  <2>4. ThreadTypes' /\ ThreadInv'
    BY <2>2, <2>3, ThreadMoves
  <2>5. UnInv'
    BY <2>2, MergeInv DEF UnInv, MergeInv
  <2> QED
    BY <2>2, <2>4, <2>5
<1>2. CASE UnSet(t)
  <2>1. /\ pc[t] = "un_set" /\ lx' = lx \cup {arg[t]} /\ Return(t)
        /\ told' = IF arg[t] \in lx THEN told ELSE told \cup {arg[t]}
        /\ UNCHANGED <<kind, carrierVars, mergeVars, loaded, pass>> /\ Live' = Live
    BY <1>2 DEF UnSet, askedVars, carrierVars, mergeVars, Live
  <2>2. dep = 0 /\ pass = "none" /\ arg[t] \in Live
    BY <2>1, NoMergeRuns DEF ThreadInv, Placed, AFunction, FunLabel, InjLabel, PairLabel, LineLabel
  <2>3. ThreadTypes' /\ ThreadInv'
    BY <2>1, ThreadReturns
  <2>4. UnInv'
    BY <2>1, <2>2 DEF UnInv
  <2> QED
    BY <2>1, <2>2, <2>3, <2>4
<1> QED
  BY <1>1, <1>2 DEF Insert, ThreadInv, Placed, FunSet, FunLines, FunIndex, FunTell,
     InjSet, InjTell, InjInv, InjInvSet, RelFirst, RelSecond, RelTell, LineLoad, LineOr,
     LineTell, AFunction

LEMMA UnMerge ==
  ASSUME CarrierInv, MergeInv, UnInv, MoveUnary
  PROVE  UnInv' /\ dep # 0 /\ UNCHANGED <<kind, carrierVars, dep, rep, taskVars>> /\ pass' = "done"
<1>1. /\ kind = "unary" /\ pass = "all" /\ pass' = "done" /\ loaded' = loaded
      /\ UNCHANGED <<kind, carrierVars, dep, rep, taskVars>>
      /\ lx' = IF dep \in lx THEN (lx \ {dep}) \cup {rep} ELSE lx
      /\ told' = told \cup (IF dep \in lx /\ rep \notin lx THEN {rep} ELSE {})
  BY DEF MoveUnary, News, askedVars
<1>2. rep \in Live /\ rep # dep /\ dep # 0
  BY <1>1, RepIsLive
<1>3. Live' = Live
  BY <1>1 DEF Live, carrierVars
<1> QED
  BY <1>1, <1>2, <1>3 DEF UnInv

LEMMA UnStays ==
  ASSUME UnInv, UNCHANGED <<kind, lx, told, loaded>>, Live' = Live,
         pass' # "done" \/ UNCHANGED <<dep, pass>>
  PROVE  UnInv'
BY DEF UnInv

LEMMA UnEnd ==
  ASSUME CarrierInv, MergeInv, UnInv, EndMerge
  PROVE  UnInv'
<1>1. /\ pass = "done" /\ UNCHANGED <<kind, lx, told, loaded>> /\ pass' = "none"
  BY DEF EndMerge, tableVars, askedVars
<1>2. Live' = Live \ {dep}
  BY EndFrame
<1> QED
  BY <1>1, <1>2 DEF UnInv

-----------------------------------------------------------------------------
(* Injective functions.                                                    *)

\* A value that is set or merged is there, and only a value that was not there
\* takes the place of nothing.
LEMMA SetAndLive ==
  ASSUME CarrierInv, NEW old, old = 0 \/ old \in Live, NEW v \in Live, UNCHANGED <<kind, dep>>,
         MergeUnlessSet(old, v), NEW w \in SetAnd(old, v)
  PROVE  /\ w \in Live
         /\ CarrierInv' /\ Live' = Live /\ Grows
         /\ root'[w] = root'[v]
         /\ old # 0 => root'[old] = root'[v]
<1>1. CASE old \in {0, v}
  <2>1. MergeNothing
    BY <1>1 DEF MergeUnlessSet
  <2>2. Grows
    BY <2>1 DEF Grows
  <2>3. w = v
    BY <1>1 DEF SetAnd
  <2> QED
    BY <1>1, <2>2, <2>3, CarrierGrows
<1>2. CASE old \notin {0, v}
  <2>1. Merge(old, v) /\ old \in Live
    BY <1>2 DEF MergeUnlessSet
  <2>2. Grows
    BY <2>1 DEF Grows
  <2>3. w \in Live /\ root[w] = LowerOf(root[old], root[v])
    BY <1>2 DEF SetAnd
  <2>4. PICK u : u = LowerOf(root[old], root[v])
    OBVIOUS
  <2>5. /\ CarrierInv' /\ Live' = Live /\ u \in Live
        /\ root'[old] = root'[v] /\ root'[u] = root'[old]
        /\ \A a, b \in Ob : root[a] = root[b] => root'[a] = root'[b]
    BY <2>1, <2>4, MergeGrows
  <2>6. root[w] = root[u] /\ w \in Ob /\ u \in Ob
    BY <2>3, <2>4, <2>5 DEF Live, CarrierInv
  <2> QED
    BY <2>2, <2>3, <2>5, <2>6
<1> QED
  BY <1>1, <1>2

LEMMA InjInsert ==
  ASSUME CarrierInv, MergeInv, ThreadTypes, ThreadInv, InjTables, kind = "injective",
         NEW t \in Thread, Insert(t)
  PROVE  /\ ThreadTypes' /\ ThreadInv' /\ InjTables'
         /\ dep = 0 /\ Grows /\ UNCHANGED mergeVars
<1>0. /\ val \in [Ob -> Rep] /\ inv \in [Ob -> Rep] /\ lx \subseteq Ob /\ rx \subseteq Ob
      /\ Live \subseteq Ob /\ 0 \notin Ob /\ Ob \subseteq Rep
  BY TablesAssumption, SMTT(30) DEF InjTables, InjTypes, Live, Ob, Rep
<1>1. CASE StartInsert(t)
  <2>1. PICK k \in Live, v \in Live : Start(t, "inj_set", <<k, v>>, {<<k, v>>})
    BY <1>1 DEF StartInsert
  <2>2. /\ dep = 0 /\ UNCHANGED <<kind, carrierVars, mergeVars, val, inv, lx, rx>>
        /\ Goto(t, "inj_set") /\ arg' = [arg EXCEPT ![t] = <<k, v>>] /\ new' = new
    BY <2>1 DEF Start, tableVars
  <2>3. /\ Live' = Live /\ UNCHANGED <<dep, pass>> /\ pass = "none" /\ pc[t] = "idle"
    BY <2>1, <2>2 DEF carrierVars, mergeVars, Live, MergeInv, Start
  <2>4. Placed("inj_set", <<k, v>>)
    BY DEF Placed, InjLabel
  <2>5. ThreadTypes' /\ ThreadInv' /\ ThreadFacts(t, "inj_set", <<k, v>>)
    BY <2>2, <2>3, <2>4, ThreadMoves
  <2>6. InjTables'
    <3>1. InjTypes'
      BY <2>2, <2>3 DEF InjTables, InjTypes
    <3>2. InjThread'
      BY <2>2, <2>3, <2>5 DEF InjTables, InjThread, ThreadFacts
    <3> QED
      BY <2>3, <3>1, <3>2 DEF InjTables
  <2>7. Grows
    BY <2>2 DEF Grows, MergeNothing
  <2> QED
    BY <2>2, <2>5, <2>6, <2>7
<1>2. ASSUME pc[t] \in InjLabel, UNCHANGED <<kind, mergeVars>>
      PROVE  /\ dep = 0 /\ pass = "none" /\ UNCHANGED <<dep, pass>>
             /\ arg[t] \in Live \X Live /\ arg[t][1] \in Live /\ arg[t][2] \in Live
  <2>1. pc[t] # "idle"
    BY <1>2 DEF InjLabel
  <2>2. arg[t] \in Live \X Live
    BY <1>2, <2>1 DEF ThreadInv, Placed, AFunction
  <2> QED
    BY <1>2, <2>1, <2>2, NoMergeRuns DEF mergeVars
<1>3. ASSUME NEW l \in InjLabel, Goto(t, l), UNCHANGED <<kind, arg, new>>,
             Live' = Live, arg[t] \in Live \X Live
      PROVE  ThreadTypes' /\ ThreadInv' /\ ThreadFacts(t, l, arg[t])
  <2>1. Placed(l, arg[t])
    BY <1>3 DEF Placed
  <2> QED
    BY <1>3, <2>1, ThreadMoves
<1>4. CASE InjSet(t)
  <2>1. /\ pc[t] = "inj_set" /\ pc[t] \in InjLabel
        /\ \E w \in SetAnd(val[arg[t][1]], arg[t][2]) : val' = [val EXCEPT ![arg[t][1]] = w]
        /\ MergeUnlessSet(val[arg[t][1]], arg[t][2])
        /\ Goto(t, IF val[arg[t][1]] = 0 THEN "inj_tell" ELSE "inj_inv")
        /\ UNCHANGED <<kind, inv, lx, rx, mergeVars, arg, new>>
    BY <1>4 DEF InjSet, InjLabel
  <2>2. PICK k \in Live, v \in Live : k = arg[t][1] /\ v = arg[t][2] /\ arg[t] \in Live \X Live
    BY <1>2, <2>1
  <2>3. dep = 0 /\ pass = "none" /\ UNCHANGED <<dep, pass>>
    BY <1>2, <2>1
  <2>4. PICK w \in SetAnd(val[k], v) : val' = [val EXCEPT ![k] = w]
    BY <2>1, <2>2
  <2>5. w \in Live /\ CarrierInv' /\ Live' = Live /\ Grows
    <3>1. val[k] = 0 \/ val[k] \in Live
      BY <1>0, <2>2 DEF InjTables, InjTypes
    <3> QED
      BY <2>1, <2>2, <2>3, <2>4, <3>1, SetAndLive
  <2>6. val' \in [Ob -> Rep] /\ val'[k] = w /\ \A x \in Ob \ {k} : val'[x] = val[x]
    BY <1>0, <2>1, <2>2, <2>4, <2>5
  <2>7. PICK l \in {"inj_tell", "inj_inv"} :
          Goto(t, l) /\ (val[k] = 0 => l = "inj_tell")
    BY <2>1, <2>2
  <2>8. ThreadTypes' /\ ThreadInv' /\ ThreadFacts(t, l, arg[t])
    BY <1>3, <2>1, <2>2, <2>5, <2>7 DEF InjLabel
  <2>9. w # 0
    BY <1>0, <2>5
  <2>10. InjTypes'
    BY <1>0, <2>1, <2>2, <2>5, <2>6, <2>9 DEF InjTables, InjTypes
  <2>11. InjThread'
    <3>1. \A u \in Thread : pc'[u] = "inj_tell" => val'[arg'[u][1]] # 0
      BY <1>0, <2>1, <2>2, <2>5, <2>6, <2>8, <2>9 DEF InjTables, InjThread, ThreadFacts,
         ThreadInv, Placed, InjLabel, AFunction
    <3>2. \A u \in Thread : pc'[u] = "inj_invset" => inv'[arg'[u][2]] # 0
      BY <2>1, <2>8 DEF InjTables, InjThread, ThreadFacts
    <3>3. \A x \in Ob : val'[x] # 0 => x \in lx' \/ \E u \in Thread : pc'[u] = "inj_tell" /\ arg'[u][1] = x
      <4> SUFFICES ASSUME NEW x \in Ob, val'[x] # 0, x \notin lx'
                   PROVE  \E u \in Thread : pc'[u] = "inj_tell" /\ arg'[u][1] = x
        OBVIOUS
      <4>1. CASE val[x] # 0
        <5>1. PICK u \in Thread : pc[u] = "inj_tell" /\ arg[u][1] = x
          BY <2>1, <4>1 DEF InjTables, InjThread
        <5> QED
          BY <2>1, <2>8, <5>1 DEF ThreadFacts
      <4>2. CASE val[x] = 0
        <5>1. x = k /\ l = "inj_tell"
          BY <2>6, <2>7, <4>2
        <5> QED
          BY <2>2, <2>8, <5>1 DEF ThreadFacts
      <4> QED
        BY <4>1, <4>2
    <3>4. \A x \in Ob : inv'[x] # 0 => x \in rx' \/ \E u \in Thread : pc'[u] = "inj_invset" /\ arg'[u][2] = x
      BY <2>1, <2>8 DEF InjTables, InjThread, ThreadFacts
    <3> QED
      BY <3>1, <3>2, <3>3, <3>4 DEF InjThread
  <2> QED
    BY <2>1, <2>3, <2>5, <2>8, <2>10, <2>11 DEF InjTables
<1>5. CASE InjTell(t)
  <2>1. /\ pc[t] = "inj_tell" /\ pc[t] \in InjLabel /\ lx' = lx \cup {arg[t][1]}
        /\ Goto(t, "inj_inv") /\ UNCHANGED <<kind, carrierVars, val, inv, rx, mergeVars, arg, new>>
    BY <1>5 DEF InjTell, InjLabel
  <2>2. dep = 0 /\ pass = "none" /\ UNCHANGED <<dep, pass>> /\ arg[t] \in Live \X Live
        /\ arg[t][1] \in Live
    BY <1>2, <2>1
  <2>3. Live' = Live /\ Grows
    BY <2>1 DEF Live, carrierVars, Grows, MergeNothing
  <2>4. ThreadTypes' /\ ThreadInv' /\ ThreadFacts(t, "inj_inv", arg[t])
    BY <1>3, <2>1, <2>2, <2>3 DEF InjLabel
  <2>5. InjTypes'
    BY <1>0, <2>1, <2>2, <2>3 DEF InjTables, InjTypes, InjThread
  <2>6. InjThread'
    BY <2>1, <2>2, <2>4 DEF InjTables, InjThread, ThreadFacts
  <2> QED
    BY <2>1, <2>2, <2>3, <2>4, <2>5, <2>6 DEF InjTables
<1>6. CASE InjInv(t)
  <2>1. /\ pc[t] = "inj_inv" /\ pc[t] \in InjLabel
        /\ \E w \in SetAnd(inv[arg[t][2]], arg[t][1]) : inv' = [inv EXCEPT ![arg[t][2]] = w]
        /\ MergeUnlessSet(inv[arg[t][2]], arg[t][1])
        /\ IF inv[arg[t][2]] = 0 THEN Goto(t, "inj_invset") /\ UNCHANGED <<arg, new>> ELSE Return(t)
        /\ UNCHANGED <<kind, val, lx, rx, mergeVars>>
    BY <1>6 DEF InjInv, InjLabel
  <2>2. PICK k \in Live, v \in Live : k = arg[t][1] /\ v = arg[t][2] /\ arg[t] \in Live \X Live
    BY <1>2, <2>1
  <2>3. dep = 0 /\ pass = "none" /\ UNCHANGED <<dep, pass>>
    BY <1>2, <2>1
  <2>4. PICK w \in SetAnd(inv[v], k) : inv' = [inv EXCEPT ![v] = w]
    BY <2>1, <2>2
  <2>5. w \in Live /\ CarrierInv' /\ Live' = Live /\ Grows
    <3>1. inv[v] = 0 \/ inv[v] \in Live
      BY <1>0, <2>2 DEF InjTables, InjTypes
    <3> QED
      BY <2>1, <2>2, <2>3, <2>4, <3>1, SetAndLive
  <2>6. inv' \in [Ob -> Rep] /\ inv'[v] = w /\ \A x \in Ob \ {v} : inv'[x] = inv[x]
    BY <1>0, <2>1, <2>2, <2>4, <2>5
  <2>7. PICK l, f : /\ ThreadTypes' /\ ThreadInv' /\ ThreadFacts(t, l, f)
                    /\ \/ l = "inj_invset" /\ f = arg[t]
                       \/ l = "idle" /\ inv[v] # 0
    <3>1. CASE inv[v] = 0
      BY <1>3, <2>1, <2>2, <2>5, <3>1 DEF InjLabel
    <3>2. CASE inv[v] # 0
      BY <2>1, <2>2, <2>5, <3>2, ThreadReturns
    <3> QED
      BY <3>1, <3>2
  <2>8. w # 0
    BY <1>0, <2>5
  <2>9. InjTypes'
    BY <1>0, <2>1, <2>2, <2>5, <2>6, <2>8 DEF InjTables, InjTypes
  <2>10. InjThread'
    <3>1. \A u \in Thread : pc'[u] = "inj_tell" => val'[arg'[u][1]] # 0
      BY <2>1, <2>7 DEF InjTables, InjThread, ThreadFacts
    <3>2. \A u \in Thread : pc'[u] = "inj_invset" => inv'[arg'[u][2]] # 0
      BY <1>0, <2>1, <2>2, <2>5, <2>6, <2>7, <2>8 DEF InjTables, InjThread, ThreadFacts,
         ThreadInv, Placed, InjLabel, AFunction
    <3>3. \A x \in Ob : val'[x] # 0 => x \in lx' \/ \E u \in Thread : pc'[u] = "inj_tell" /\ arg'[u][1] = x
      BY <2>1, <2>7 DEF InjTables, InjThread, ThreadFacts
    <3>4. \A x \in Ob : inv'[x] # 0 => x \in rx' \/ \E u \in Thread : pc'[u] = "inj_invset" /\ arg'[u][2] = x
      <4> SUFFICES ASSUME NEW x \in Ob, inv'[x] # 0, x \notin rx'
                   PROVE  \E u \in Thread : pc'[u] = "inj_invset" /\ arg'[u][2] = x
        OBVIOUS
      <4>1. CASE inv[x] # 0
        <5>1. PICK u \in Thread : pc[u] = "inj_invset" /\ arg[u][2] = x
          BY <2>1, <4>1 DEF InjTables, InjThread
        <5> QED
          BY <2>1, <2>7, <5>1 DEF ThreadFacts
      <4>2. CASE inv[x] = 0
        <5>1. x = v /\ l = "inj_invset"
          BY <2>6, <2>7, <4>2
        <5> QED
          BY <2>2, <2>7, <5>1 DEF ThreadFacts
      <4> QED
        BY <4>1, <4>2
    <3> QED
      BY <3>1, <3>2, <3>3, <3>4 DEF InjThread
  <2> QED
    BY <2>1, <2>3, <2>5, <2>7, <2>9, <2>10 DEF InjTables
<1>7. CASE InjInvSet(t)
  <2>1. /\ pc[t] = "inj_invset" /\ pc[t] \in InjLabel /\ rx' = rx \cup {arg[t][2]}
        /\ Return(t) /\ UNCHANGED <<kind, carrierVars, val, inv, lx, mergeVars>>
    BY <1>7 DEF InjInvSet, InjLabel
  <2>2. dep = 0 /\ pass = "none" /\ UNCHANGED <<dep, pass>> /\ arg[t][2] \in Live
    BY <1>2, <2>1
  <2>3. Live' = Live /\ Grows
    BY <2>1 DEF Live, carrierVars, Grows, MergeNothing
  <2>4. ThreadTypes' /\ ThreadInv' /\ ThreadFacts(t, "idle", <<>>)
    BY <2>1, <2>3, ThreadReturns
  <2>5. InjTypes'
    BY <1>0, <2>1, <2>2, <2>3 DEF InjTables, InjTypes, InjThread
  <2>6. InjThread'
    BY <2>1, <2>2, <2>4 DEF InjTables, InjThread, ThreadFacts
  <2> QED
    BY <2>1, <2>2, <2>3, <2>4, <2>5, <2>6 DEF InjTables
<1> QED
  BY <1>1, <1>4, <1>5, <1>6, <1>7 DEF Insert, ThreadInv, Placed, FunSet, FunLines, FunIndex,
     FunTell, RelFirst, RelSecond, RelTell, LineLoad, LineOr, LineTell, UnSet, AFunction, InjLabel

\* One direction of a merge: the dep is neither a key nor a value any more, and
\* what else is set was set before.
LEMMA InjectedTable ==
  ASSUME CarrierInv, NEW f \in [Ob -> Rep], NEW set \in SUBSET Ob,
         \A x \in Ob : f[x] # 0 <=> x \in set,
         \A x \in Ob : f[x] # 0 => {x, f[x]} \subseteq Live,
         dep \in Live, rep \in Live, dep # rep, UNCHANGED <<kind, dep>>, MergeInjected(f, set),
         NEW h \in Injected(f, set)
  PROVE  /\ CarrierInv' /\ Live' = Live /\ Grows
         /\ h \in [Ob -> Rep]
         /\ \A x \in Ob : h[x] # 0 => {x, h[x]} \subseteq Live
         /\ \A x \in Ob : h[x] # 0 <=> x \in InjectedSet(set)
         /\ \A x \in Ob : h[x] # dep
         /\ InjectedSet(set) \subseteq Ob /\ dep \notin InjectedSet(set)
         /\ \A x \in Ob \ {dep, rep} : h[x] = IF f[x] = dep THEN rep ELSE f[x]
         /\ h[dep] = 0
         /\ dep \notin set => h[rep] = IF f[rep] = dep THEN rep ELSE f[rep]
         /\ dep \in set =>
              /\ \E w \in Live : /\ h[rep] = IF w = dep THEN rep ELSE w
                                /\ root'[w] = root'[f[dep]]
              /\ f[rep] # 0 => root'[f[rep]] = root'[f[dep]]
<1>0. Live \subseteq Ob /\ 0 \notin Ob /\ Ob \subseteq Rep /\ 0 \in Rep
  BY TablesAssumption DEF Live, Ob, Rep
<1>1. CASE dep \in set
  <2>1. f[dep] \in Live /\ (f[rep] = 0 \/ f[rep] \in Live)
    BY <1>0, <1>1
  <2>2. PICK w \in SetAnd(f[rep], f[dep]) :
          h = Replaced([f EXCEPT ![rep] = w, ![dep] = 0], InjectedSet(set))
    BY <1>1 DEF Injected
  <2>3. MergeUnlessSet(f[rep], f[dep])
    BY <1>1 DEF MergeInjected
  <2>4. /\ w \in Live /\ CarrierInv' /\ Live' = Live /\ Grows
        /\ root'[w] = root'[f[dep]] /\ (f[rep] # 0 => root'[f[rep]] = root'[f[dep]])
    BY <2>1, <2>2, <2>3, SetAndLive
  <2>5. InjectedSet(set) = (set \ {dep}) \cup {rep}
    BY <1>1 DEF InjectedSet
  <2>6. PICK g : g = [f EXCEPT ![rep] = w, ![dep] = 0]
    OBVIOUS
  <2>7. h = [x \in Ob |-> IF x \in (set \ {dep}) \cup {rep} /\ g[x] = dep THEN rep ELSE g[x]]
    BY <2>2, <2>5, <2>6 DEF Replaced
  <2>8. \A x \in Ob : g[x] = IF x = dep THEN 0 ELSE IF x = rep THEN w ELSE f[x]
    BY <1>0, <2>6
  <2>9. \A x \in Ob : h[x] =
          IF x = dep THEN 0 ELSE IF x = rep THEN (IF w = dep THEN rep ELSE w)
          ELSE IF f[x] = dep THEN rep ELSE f[x]
    BY <1>0, <2>7, <2>8
  <2>10. h \in [Ob -> Rep]
    <3>1. DOMAIN h = Ob /\ h = [x \in Ob |-> h[x]]
      BY <2>7
    <3>2. \A x \in Ob : h[x] \in Rep
      BY <1>0, <2>4, <2>9
    <3> QED
      BY <3>1, <3>2
  <2>11. w # 0 /\ dep \in Ob /\ rep \in Ob /\ dep # 0 /\ rep # 0
    BY <1>0, <2>4
  <2>12. /\ h[rep] = IF w = dep THEN rep ELSE w
         /\ h[dep] = 0
         /\ \A x \in Ob \ {dep, rep} : h[x] = IF f[x] = dep THEN rep ELSE f[x]
    BY <2>9, <2>11
  <2>13. \A x \in Ob : /\ h[x] # 0 => {x, h[x]} \subseteq Live
                      /\ h[x] # 0 <=> x \in InjectedSet(set)
                      /\ h[x] # dep
    BY <1>0, <2>4, <2>5, <2>11, <2>12
  <2> QED
    BY <1>1, <2>4, <2>5, <2>10, <2>11, <2>12, <2>13
<1>2. CASE dep \notin set
  <2>1. Grows
    BY <1>2 DEF MergeInjected, Grows
  <2>2. InjectedSet(set) = set
    BY <1>2 DEF InjectedSet
  <2>3. h = [x \in Ob |-> IF x \in set /\ f[x] = dep THEN rep ELSE f[x]]
    BY <1>2 DEF Injected, Replaced
  <2>4. \A x \in Ob : h[x] = IF f[x] = dep THEN rep ELSE f[x]
    BY <1>0, <2>3
  <2>5. h \in [Ob -> Rep]
    BY <1>0, <2>3
  <2>6. dep \in Ob /\ rep \in Ob /\ dep # 0 /\ rep # 0 /\ f[dep] = 0
    BY <1>0, <1>2
  <2> QED
    BY <1>2, <2>1, <2>2, <2>4, <2>5, <2>6, CarrierGrows
<1> QED
  BY <1>1, <1>2

LEMMA InjStays ==
  ASSUME InjTables, UNCHANGED <<kind, val, inv, lx, rx, taskVars>>, Live' = Live,
         \/ UNCHANGED <<dep, pass>>
         \/ pass' \notin {"refind", "inverse", "done"}
         \/ pass = "refind" /\ pass' = "inverse" /\ dep' = dep
  PROVE  InjTables'
<1>1. InjTypes => InjTypes'
  BY DEF InjTypes
<1>2. InjThread => InjThread'
  BY DEF InjThread, taskVars
<1> QED
  BY <1>1, <1>2 DEF InjTables

LEMMA InjWhenIdle ==
  ASSUME InjTables, kind = "injective", Idle
  PROVE  /\ \A x \in Ob : val[x] # 0 <=> x \in lx
         /\ \A x \in Ob : inv[x] # 0 <=> x \in rx
<1>1. \A t \in Thread : pc[t] # "inj_tell" /\ pc[t] # "inj_invset"
  BY DEF Idle
<1> QED
  BY <1>1 DEF InjTables, InjTypes, InjThread

LEMMA InjMerge ==
  ASSUME CarrierInv, MergeInv, InjTables, MoveKeys \/ MoveInverse
  PROVE  /\ InjTables' /\ CarrierInv' /\ Live' = Live /\ Grows
         /\ dep # 0 /\ UNCHANGED <<dep, rep, taskVars>> /\ PassOf(pass')
<1>1. /\ kind = "injective" /\ dep # 0 /\ rep \in Live /\ dep \in Live /\ rep # dep /\ Idle
      /\ UNCHANGED <<kind, dep, rep, taskVars>>
  BY RepIsLive DEF MergeInv, MoveKeys, MoveInverse
<1>2. /\ \A x \in Ob : val[x] # 0 <=> x \in lx
      /\ \A x \in Ob : inv[x] # 0 <=> x \in rx
  BY <1>1, InjWhenIdle
<1>3. InjTypes
  BY <1>1 DEF InjTables
<1>4. Idle'
  BY <1>1 DEF Idle, taskVars
<1>5. CASE MoveKeys
  <2>1. /\ val' \in Injected(val, lx) /\ lx' = InjectedSet(lx) /\ MergeInjected(val, lx)
        /\ pass' = "refind" /\ inv' = inv /\ rx' = rx
    BY <1>5 DEF MoveKeys
  <2>2. PICK f, S : f = val' /\ f \in Injected(val, lx) /\ S = InjectedSet(lx)
    BY <2>1
  <2>3. /\ CarrierInv' /\ Live' = Live /\ Grows
        /\ f \in [Ob -> Rep] /\ S \subseteq Ob /\ dep \notin S
        /\ \A x \in Ob : f[x] # 0 => {x, f[x]} \subseteq Live
        /\ \A x \in Ob : f[x] # 0 <=> x \in S
        /\ \A x \in Ob : f[x] # dep
    <3>1. lx \in SUBSET Ob /\ val \in [Ob -> Rep]
      BY <1>3 DEF InjTypes
    <3>2. \A x \in Ob : val[x] # 0 => {x, val[x]} \subseteq Live
      BY <1>3 DEF InjTypes
    <3> QED
      BY <1>1, <1>2, <2>1, <2>2, <3>1, <3>2, InjectedTable
  <2>4. val' = f /\ lx' = S
    BY <2>1, <2>2
  <2>5. InjTypes'
    BY <1>3, <2>1, <2>3, <2>4 DEF InjTypes
  <2>6. InjThread'
    BY <1>2, <1>4, <2>1, <2>3, <2>4 DEF InjThread, Idle
  <2>7. InjTables'
    BY <1>1, <2>1, <2>3, <2>4, <2>5, <2>6 DEF InjTables
  <2> QED
    BY <1>1, <2>1, <2>3, <2>7 DEF PassOf
<1>6. CASE MoveInverse
  <2>1. /\ inv' \in Injected(inv, rx) /\ rx' = InjectedSet(rx) /\ MergeInjected(inv, rx)
        /\ pass = "inverse" /\ pass' = "done" /\ val' = val /\ lx' = lx
    BY <1>6 DEF MoveInverse
  <2>2. PICK f, S : f = inv' /\ f \in Injected(inv, rx) /\ S = InjectedSet(rx)
    BY <2>1
  <2>3. /\ CarrierInv' /\ Live' = Live /\ Grows
        /\ f \in [Ob -> Rep] /\ S \subseteq Ob /\ dep \notin S
        /\ \A x \in Ob : f[x] # 0 => {x, f[x]} \subseteq Live
        /\ \A x \in Ob : f[x] # 0 <=> x \in S
        /\ \A x \in Ob : f[x] # dep
    <3>1. rx \in SUBSET Ob /\ inv \in [Ob -> Rep]
      BY <1>3 DEF InjTypes
    <3>2. \A x \in Ob : inv[x] # 0 => {x, inv[x]} \subseteq Live
      BY <1>3 DEF InjTypes
    <3> QED
      BY <1>1, <1>2, <2>1, <2>2, <3>1, <3>2, InjectedTable
  <2>4. inv' = f /\ rx' = S
    BY <2>1, <2>2
  <2>5. InjTypes'
    BY <1>3, <2>1, <2>3, <2>4 DEF InjTypes
  <2>6. InjThread'
    BY <1>2, <1>4, <2>1, <2>3, <2>4 DEF InjThread, Idle
  <2>7. InjTables'
    BY <1>1, <2>1, <2>3, <2>4, <2>5, <2>6 DEF InjTables
  <2> QED
    BY <1>1, <2>1, <2>3, <2>7 DEF PassOf
<1> QED
  BY <1>5, <1>6

LEMMA InjEnd ==
  ASSUME CarrierInv, MergeInv, InjTables, EndMerge
  PROVE  InjTables'
<1>1. CASE kind = "injective"
  <2>1. /\ pass = "done" /\ UNCHANGED <<kind, val, inv, lx, rx, pc>> /\ pass' = "none"
    BY DEF EndMerge, tableVars, taskVars
  <2>2. Idle /\ Idle' /\ Live' = Live \ {dep}
    BY <2>1, EndFrame DEF MergeInv, Idle
  <2>3. /\ dep \notin lx /\ \A x \in Ob : val[x] # dep
        /\ dep \notin rx /\ \A x \in Ob : inv[x] # dep
    BY <1>1, <2>1 DEF InjTables
  <2>4. /\ \A x \in Ob : val[x] # 0 <=> x \in lx
        /\ \A x \in Ob : inv[x] # 0 <=> x \in rx
    BY <1>1, <2>2, InjWhenIdle
  <2>5. InjTypes'
    BY <1>1, <2>1, <2>2, <2>3, <2>4 DEF InjTables, InjTypes
  <2>6. InjThread'
    BY <2>1, <2>2, <2>4 DEF InjThread, Idle
  <2> QED
    BY <2>1, <2>5, <2>6 DEF InjTables
<1>2. CASE kind # "injective"
  BY <1>2 DEF InjTables, EndMerge
<1> QED
  BY <1>1, <1>2

-----------------------------------------------------------------------------
(* Functions: their keys.                                                  *)

LEMMA KeyPair ==
  ASSUME AFunction, NEW l \in Ob, NEW r \in Ob
  PROVE  /\ Key(l, r) \in Pair /\ Key(Key(l, r)[1], Key(l, r)[2]) = Key(l, r)
         /\ Key(l, r) = <<l, r>> \/ (kind = "symmetric" /\ Key(l, r) = <<r, l>>)
BY DEF Key, Pair, Ob

LEMMA KeyEqual ==
  ASSUME AFunction, NEW a \in Ob, NEW b \in Ob, NEW l \in Ob, NEW r \in Ob
  PROVE  Key(l, r) = Key(a, b) <=>
           \/ l = a /\ r = b
           \/ kind = "symmetric" /\ l = b /\ r = a
BY DEF Key, Ob

\* A key covers a pair, and the same pair the other way round if the function is
\* symmetric.
LEMMA KeyCovers ==
  ASSUME AFunction, NEW a \in Ob, NEW b \in Ob, NEW l \in Ob, NEW r \in Ob
  PROVE  <<l, r>> \in BothWays(a, b) <=> Key(l, r) = Key(a, b)
BY DEF Key, BothWays, Ob

LEMMA EntryCovers ==
  ASSUME AFunction, NEW a \in Ob, NEW b \in Ob, NEW v
  PROVE  /\ BothWays(a, b) \subseteq Pair
         /\ \A l, r \in Ob : \A w :
              <<l, r, w>> \in Entries(a, b, v) <=> Key(l, r) = Key(a, b) /\ w = v
         /\ \A e \in Entries(a, b, v) : e = <<e[1], e[2], v>> /\ e[1] \in Ob /\ e[2] \in Ob
<1>1. BothWays(a, b) \subseteq Pair
  BY DEF BothWays, Pair
<1>2. ASSUME NEW l \in Ob, NEW r \in Ob, NEW w
      PROVE  <<l, r, w>> \in Entries(a, b, v) <=> <<l, r>> \in BothWays(a, b) /\ w = v
  <2>1. ASSUME <<l, r, w>> \in Entries(a, b, v) PROVE <<l, r>> \in BothWays(a, b) /\ w = v
    <3>1. PICK p \in BothWays(a, b) : <<l, r, w>> = <<p[1], p[2], v>>
      BY <2>1 DEF Entries
    <3>2. p = <<l, r>> /\ w = v
      BY <1>1, <3>1 DEF Pair
    <3> QED
      BY <3>1, <3>2
  <2>2. ASSUME <<l, r>> \in BothWays(a, b), w = v PROVE <<l, r, w>> \in Entries(a, b, v)
    BY <2>2 DEF Entries
  <2> QED
    BY <2>1, <2>2
<1>3. \A e \in Entries(a, b, v) : e = <<e[1], e[2], v>> /\ e[1] \in Ob /\ e[2] \in Ob
  BY <1>1 DEF Entries, Pair
<1>4. \A l, r \in Ob : \A w :
        <<l, r, w>> \in Entries(a, b, v) <=> Key(l, r) = Key(a, b) /\ w = v
  <2> SUFFICES ASSUME NEW l \in Ob, NEW r \in Ob, NEW w
               PROVE  <<l, r, w>> \in Entries(a, b, v) <=> Key(l, r) = Key(a, b) /\ w = v
    OBVIOUS
  <2>1. <<l, r>> \in BothWays(a, b) <=> Key(l, r) = Key(a, b)
    BY KeyCovers
  <2> QED
    BY <1>2, <2>1
<1> QED
  BY <1>1, <1>3, <1>4

LEMMA AtNext ==
  ASSUME UNCHANGED kind
  PROVE  /\ \A l, r : Key(l, r)' = Key(l, r)
         /\ \A l, r : At(l, r)' = val'[Key(l, r)]
         /\ \A l, r : BothWays(l, r)' = BothWays(l, r)
         /\ \A l, r, v : Entries(l, r, v)' = Entries(l, r, v)
         /\ AFunction' = AFunction
<1>1. \A l, r : BothWays(l, r)' = BothWays(l, r)
  BY DEF BothWays
<1> QED
  BY <1>1 DEF Key, At, AFunction, Entries

-----------------------------------------------------------------------------
(* Functions: insertion.                                                   *)


\* What an insertion does to the invariant: it sets at most one value, and only
\* adds to the lines and the inverse tables what is set already.
LEMMA FunMoves ==
  ASSUME CarrierInv, ThreadInv, FunInv, AFunction, UNCHANGED <<kind, pass, dep>>,
         pass = "none", dep = 0,
         Live' = Live, NEW t \in Thread, NEW label, NEW f, ThreadFacts(t, label, f),
         FunTypes', FunLive', FunThread(t)',
         lx \subseteq lx', rx \subseteq rx', vlr \subseteq vlr',
         \A l, r \in Ob : At(l, r) # 0 => val'[Key(l, r)] = At(l, r),
         \A l, r \in Ob : At(l, r) = 0 /\ val'[Key(l, r)] # 0 =>
           label = "fun_lines" /\ Key(f[1], f[2]) = Key(l, r),
         \A l, r \in Ob : <<l, r>> \in (lx' \ lx) \cup (rx' \ rx) => At(l, r) # 0,
         \A l, r, v \in Ob : <<l, r, v>> \in vlr' \ vlr => At(l, r) = v,
         \A l, r \in Ob : pc[t] = "fun_lines" /\ Key(arg[t][1], arg[t][2]) = Key(l, r) =>
           <<l, r>> \in lx' /\ (kind = "binary" => <<l, r>> \in rx'),
         \A l, r \in Ob :
           pc[t] \in {"fun_lines", "fun_index"} /\ Key(arg[t][1], arg[t][2]) = Key(l, r) =>
             \/ <<l, r, At(l, r)>> \in vlr'
             \/ label \in {"fun_lines", "fun_index"} /\ f = arg[t],
         \A p \in told' \ told :
           /\ At(p[1], p[2]) # 0 /\ p \in lx'
           /\ <<p[1], p[2], At(p[1], p[2])>> \in vlr'
  PROVE  FunInv'
<1>0. /\ 0 \notin Ob /\ Live \subseteq Ob /\ \A l, r : At(l, r)' = val'[Key(l, r)]
      /\ \A l, r : Key(l, r)' = Key(l, r)
      /\ pc'[t] = label /\ arg'[t] = f
      /\ \A u \in Thread \ {t} : pc'[u] = pc[u] /\ arg'[u] = arg[u]
  BY TablesAssumption, AtNext DEF Ob, Live, ThreadFacts
<1>1. FunTypes /\ FunLive /\ FunIndexed /\ FunLinesL /\ FunLinesR /\ FunTold
      /\ \A u \in Thread : FunThread(u)
  BY DEF FunInv
<1>2. ASSUME NEW l \in Ob, NEW r \in Ob, NEW labels, Pending(l, r, labels)
      PROVE  \/ Pending(l, r, labels)'
             \/ pc[t] \in labels /\ Key(arg[t][1], arg[t][2]) = Key(l, r)
  <2>1. PICK u \in Thread : pc[u] \in labels /\ Key(arg[u][1], arg[u][2]) = Key(l, r)
    BY <1>2 DEF Pending
  <2>2. CASE u = t
    BY <2>1, <2>2
  <2>3. CASE u # t
    BY <1>0, <2>1, <2>3 DEF Pending
  <2> QED
    BY <2>2, <2>3
<1>3. ASSUME NEW l \in Ob, NEW r \in Ob, NEW labels,
             label \in labels, Key(f[1], f[2]) = Key(l, r)
      PROVE  Pending(l, r, labels)'
  BY <1>0, <1>3 DEF Pending
<1>4. FunIndexed'
  <2> SUFFICES ASSUME NEW l \in Ob, NEW r \in Ob, NEW v \in Ob
               PROVE  /\ <<l, r, v>> \in vlr' => val'[Key(l, r)] = v
                      /\ val'[Key(l, r)] = v =>
                           <<l, r, v>> \in vlr' \/ Pending(l, r, {"fun_lines", "fun_index"})'
    BY <1>0 DEF FunIndexed
  <2>1. <<l, r, v>> \in vlr' => At(l, r) = v /\ v # 0
    BY <1>0, <1>1 DEF FunIndexed
  <2>2. CASE At(l, r) = 0
    BY <1>0, <1>3, <2>1, <2>2
  <2>3. CASE At(l, r) # 0
    <3>1. val'[Key(l, r)] = At(l, r)
      BY <2>3
    <3>2. At(l, r) = v => <<l, r, v>> \in vlr' \/ Pending(l, r, {"fun_lines", "fun_index"})'
      <4> SUFFICES ASSUME At(l, r) = v, Pending(l, r, {"fun_lines", "fun_index"})
                   PROVE  <<l, r, v>> \in vlr' \/ Pending(l, r, {"fun_lines", "fun_index"})'
        BY <1>1 DEF FunIndexed
      <4>1. CASE pc[t] \in {"fun_lines", "fun_index"} /\ Key(arg[t][1], arg[t][2]) = Key(l, r)
        BY <1>3, <4>1
      <4> QED
        BY <1>2, <4>1
    <3> QED
      BY <2>1, <3>1, <3>2
  <2> QED
    BY <2>2, <2>3
<1>5. FunLinesL'
  <2> SUFFICES ASSUME NEW l \in Ob, NEW r \in Ob
               PROVE  /\ <<l, r>> \in lx' => val'[Key(l, r)] # 0
                      /\ val'[Key(l, r)] # 0 => <<l, r>> \in lx' \/ Pending(l, r, {"fun_lines"})'
    BY <1>0 DEF FunLinesL
  <2>1. /\ <<l, r>> \in lx => At(l, r) # 0
        /\ At(l, r) # 0 => <<l, r>> \in lx \/ Pending(l, r, {"fun_lines"})
    BY <1>1 DEF FunLinesL
  <2>2. CASE At(l, r) = 0
    BY <1>3, <2>1, <2>2
  <2>3. CASE At(l, r) # 0
    BY <1>2, <2>1, <2>3
  <2> QED
    BY <2>2, <2>3
<1>6. FunLinesR'
  <2> SUFFICES ASSUME kind = "binary", NEW l \in Ob, NEW r \in Ob
               PROVE  /\ <<l, r>> \in rx' => val'[Key(l, r)] # 0
                      /\ val'[Key(l, r)] # 0 => <<l, r>> \in rx' \/ Pending(l, r, {"fun_lines"})'
    BY <1>0 DEF FunLinesR
  <2>1. /\ <<l, r>> \in rx => At(l, r) # 0
        /\ At(l, r) # 0 => <<l, r>> \in rx \/ Pending(l, r, {"fun_lines"})
    BY <1>1 DEF FunLinesR
  <2>2. CASE At(l, r) = 0
    BY <1>3, <2>1, <2>2
  <2>3. CASE At(l, r) # 0
    BY <1>2, <2>1, <2>3
  <2> QED
    BY <2>2, <2>3
<1>7. FunTodo' /\ FunCleared'
  BY DEF FunTodo, FunCleared
<1>8. FunTold'
  <2> SUFFICES ASSUME NEW p \in told', p[1] \in Live, p[2] \in Live
               PROVE  /\ val'[Key(p[1], p[2])] # 0 /\ p \in lx'
                      /\ <<p[1], p[2], val'[Key(p[1], p[2])]>> \in vlr'
    BY <1>0 DEF FunTold
  <2>1. At(p[1], p[2]) # 0 /\ p \in lx' /\ <<p[1], p[2], At(p[1], p[2])>> \in vlr'
    <3>1. CASE p \in told
      BY <1>0, <1>1, <3>1 DEF FunTold
    <3> QED
      BY <3>1
  <2> QED
    BY <1>0, <2>1
<1>9. ASSUME NEW u \in Thread, u # t PROVE FunThread(u)'
  <2>1. CASE pc[u] \notin FunLabel
    BY <1>0, <1>9, <2>1 DEF FunThread, FunLabel
  <2>2. CASE pc[u] \in FunLabel
    <3>1. PICK l \in Ob, r \in Ob, v \in Ob : arg[u] = <<l, r, v>>
      BY <1>0, <2>2 DEF ThreadInv, Placed, FunLabel, InjLabel, PairLabel, LineLabel
    <3>2. At(l, r) = v => val'[Key(l, r)] = v
      BY <1>0
    <3>3. FunThread(u) /\ arg'[u] = arg[u] /\ pc'[u] = pc[u]
      BY <1>0, <1>1, <1>9
    <3>4. /\ BothWays(l, r)' = BothWays(l, r) /\ Entries(l, r, v)' = Entries(l, r, v)
          /\ At(l, r)' = val'[Key(l, r)]
      BY AtNext
    <3>5. /\ pc[u] \in {"fun_lines", "fun_index", "fun_tell"} => At(l, r) = v
          /\ pc[u] \in {"fun_index", "fun_tell"} =>
               BothWays(l, r) \subseteq lx /\ (kind = "binary" => <<l, r>> \in rx)
          /\ pc[u] = "fun_tell" => Entries(l, r, v) \subseteq vlr
      BY <3>1, <3>3 DEF FunThread
    <3>6. /\ pc'[u] \in {"fun_lines", "fun_index", "fun_tell"} => At(l, r)' = v
          /\ pc'[u] \in {"fun_index", "fun_tell"} =>
               BothWays(l, r)' \subseteq lx' /\ (kind' = "binary" => <<l, r>> \in rx')
          /\ pc'[u] = "fun_tell" => Entries(l, r, v)' \subseteq vlr'
      BY <3>2, <3>3, <3>4, <3>5
    <3>7. arg'[u][1] = l /\ arg'[u][2] = r /\ arg'[u][3] = v
      BY <3>1, <3>3
    <3> QED
      BY <3>6, <3>7 DEF FunThread, BothWays, Entries, At, Key
  <2> QED
    BY <2>1, <2>2
<1>10. \A u \in Thread : FunThread(u)'
  BY <1>9
<1> QED
  BY <1>4, <1>5, <1>6, <1>7, <1>8, <1>10 DEF FunInv

\* Where a thread that inserts an entry is.
LEMMA FunAt ==
  ASSUME CarrierInv, MergeInv, ThreadInv, FunInv, AFunction, NEW t \in Thread, pc[t] \in FunLabel
  PROVE  /\ dep = 0 /\ pass = "none"
         /\ \E l, r, v \in Live : arg[t] = <<l, r, v>>
<1>1. pc[t] # "idle"
  BY DEF FunLabel
<1>2. arg[t] \in Live \X Live \X Live
  BY <1>1 DEF ThreadInv, Placed, AFunction, InjLabel, PairLabel, LineLabel, FunLabel
<1> QED
  BY <1>1, <1>2, NoMergeRuns

LEMMA FunStart ==
  ASSUME CarrierInv, MergeInv, ThreadTypes, ThreadInv, FunInv, AFunction,
         NEW t \in Thread, StartInsert(t)
  PROVE  /\ ThreadTypes' /\ ThreadInv' /\ FunInv'
         /\ dep = 0 /\ Grows /\ UNCHANGED mergeVars
<1>1. PICK l \in Live, r \in Live, v \in Live : Start(t, "fun_set", <<l, r, v>>, {<<l, r, v>>})
  BY DEF StartInsert, AFunction
<1>2. /\ dep = 0 /\ UNCHANGED <<kind, carrierVars, mergeVars, dep, pass, tableVars, told>>
      /\ UNCHANGED <<val, lx, rx, vlr, vLr, vRl>>
      /\ Goto(t, "fun_set") /\ arg' = [arg EXCEPT ![t] = <<l, r, v>>] /\ new' = new
      /\ pc[t] = "idle"
  BY <1>1 DEF Start, tableVars, indexVars, mergeVars
<1>3. Live' = Live /\ pass = "none" /\ Grows /\ UNCHANGED todo
  BY <1>2 DEF Live, carrierVars, MergeInv, Grows, MergeNothing, mergeVars
<1>4. ThreadTypes' /\ ThreadInv' /\ ThreadFacts(t, "fun_set", <<l, r, v>>)
  <2>1. Placed("fun_set", <<l, r, v>>)
    BY DEF Placed, FunLabel
  <2> QED
    BY <1>2, <1>3, <2>1, ThreadMoves
<1>5. FunTypes' /\ FunLive'
  BY <1>2, <1>3 DEF FunInv, FunTypes, FunLive, Key
<1>6. FunThread(t)'
  BY <1>4 DEF FunThread, ThreadFacts
<1>7. FunInv'
  <2>1. \A a, b \in Ob : val'[Key(a, b)] = At(a, b)
    BY <1>2 DEF At
  <2>2. told' \ told = {} /\ lx' \ lx = {} /\ rx' \ rx = {} /\ vlr' \ vlr = {}
    BY <1>2
  <2>3. pc[t] \notin {"fun_lines", "fun_index"}
    BY <1>2
  <2> QED
    BY <1>2, <1>3, <1>4, <1>5, <1>6, <2>1, <2>2, <2>3, FunMoves
<1> QED
  BY <1>2, <1>3, <1>4, <1>7

LEMMA FunSetStep ==
  ASSUME CarrierInv, MergeInv, ThreadTypes, ThreadInv, FunInv, AFunction,
         NEW t \in Thread, FunSet(t)
  PROVE  /\ ThreadTypes' /\ ThreadInv' /\ FunInv'
         /\ dep = 0 /\ Grows /\ UNCHANGED mergeVars
<1>1. pc[t] = "fun_set" /\ pc[t] \in FunLabel
  BY DEF FunSet, FunLabel
<1>2. PICK l \in Live, r \in Live, v \in Live : arg[t] = <<l, r, v>>
  BY <1>1, FunAt
<1>3. PICK k \in Pair, old \in Rep : k = Key(l, r) /\ old = val[k]
  BY KeyPair DEF FunInv, FunTypes, Live
<1>4. /\ val' = [val EXCEPT ![k] = SetOr(@, v)]
      /\ MergeUnlessSet(old, v)
      /\ IF old = 0 THEN Goto(t, "fun_lines") /\ UNCHANGED <<arg, new>> ELSE Return(t)
      /\ UNCHANGED <<kind, lx, rx, vlr, vLr, vRl, mergeVars, dep, pass, todo, told>>
  BY <1>2, <1>3 DEF FunSet, AfterValue, indexVars, mergeVars
<1>5. dep = 0 /\ pass = "none"
  BY <1>1, FunAt
<1>6. 0 \notin Ob /\ Live \subseteq Ob /\ Ob \subseteq Rep
  BY TablesAssumption DEF Ob, Rep, Live
<1>7. Grows /\ Live' = Live
  <2>1. old # 0 => old \in Live
    BY <1>3 DEF FunInv, FunLive
  <2> QED
    BY <1>4, <2>1, MergeUnlessSetGrows, CarrierGrows
<1>8. /\ val' \in [Pair -> Rep] /\ val'[k] = IF old = 0 THEN v ELSE old
      /\ \A p \in Pair \ {k} : val'[p] = val[p]
  BY <1>3, <1>4, <1>6 DEF SetOr, FunInv, FunTypes
<1>9. PICK label, f : /\ ThreadTypes' /\ ThreadInv' /\ ThreadFacts(t, label, f)
                      /\ \/ old = 0 /\ label = "fun_lines" /\ f = <<l, r, v>>
                         \/ old # 0 /\ label = "idle"
  <2>1. CASE old = 0
    <3>1. Placed("fun_lines", <<l, r, v>>)
      BY DEF Placed, FunLabel
    <3>2. Goto(t, "fun_lines") /\ UNCHANGED <<arg, new>>
      BY <1>4, <2>1
    <3> QED
      BY <1>2, <1>4, <1>7, <2>1, <3>1, <3>2, ThreadMoves
  <2>2. CASE old # 0
    BY <1>4, <1>7, <2>2, ThreadReturns
  <2> QED
    BY <2>1, <2>2
<1>10. FunTypes'
  BY <1>4, <1>8 DEF FunInv, FunTypes
<1>11. FunLive'
  <2> SUFFICES ASSUME NEW p \in Pair, val'[p] # 0
               PROVE  {p[1], p[2], val'[p]} \subseteq Live /\ Key(p[1], p[2]) = p
    BY <1>4, <1>7, AtNext DEF FunLive
  <2>1. CASE val[p] # 0
    BY <1>3, <1>8, <2>1 DEF FunInv, FunLive
  <2>2. CASE val[p] = 0
    <3>1. p = k /\ old = 0 /\ val'[p] = v
      BY <1>3, <1>8, <2>2
    <3>2. p[1] \in Live /\ p[2] \in Live /\ Key(p[1], p[2]) = p
      BY <1>3, <1>6, <3>1, KeyPair
    <3> QED
      BY <3>1, <3>2
  <2> QED
    BY <2>1, <2>2
<1>12. FunThread(t)'
  BY <1>3, <1>4, <1>8, <1>9, AtNext DEF FunThread, ThreadFacts
<1>13. FunInv'
  <2>1. ASSUME NEW a \in Ob, NEW b \in Ob
        PROVE  /\ At(a, b) # 0 => val'[Key(a, b)] = At(a, b)
               /\ At(a, b) = 0 /\ val'[Key(a, b)] # 0 =>
                    label = "fun_lines" /\ Key(f[1], f[2]) = Key(a, b)
    <3>1. Key(a, b) \in Pair
      BY KeyPair
    <3>2. CASE Key(a, b) # k
      BY <1>8, <3>1, <3>2 DEF At
    <3>3. CASE Key(a, b) = k
      BY <1>3, <1>8, <1>9, <3>3 DEF At
    <3> QED
      BY <3>2, <3>3
  <2>2. told' \ told = {} /\ lx' \ lx = {} /\ rx' \ rx = {} /\ vlr' \ vlr = {}
    BY <1>4
  <2>3. pc[t] \notin {"fun_lines", "fun_index"}
    BY <1>1
  <2> QED
    BY <1>4, <1>5, <1>7, <1>9, <1>10, <1>11, <1>12, <2>1, <2>2, <2>3, FunMoves
<1> QED
  BY <1>4, <1>5, <1>7, <1>9, <1>13

LEMMA FunLinesStep ==
  ASSUME CarrierInv, MergeInv, ThreadTypes, ThreadInv, FunInv, AFunction,
         NEW t \in Thread, FunLines(t)
  PROVE  /\ ThreadTypes' /\ ThreadInv' /\ FunInv'
         /\ dep = 0 /\ Grows /\ UNCHANGED mergeVars
<1>1. pc[t] = "fun_lines" /\ pc[t] \in FunLabel
  BY DEF FunLines, FunLabel
<1>2. PICK l \in Live, r \in Live, v \in Live : arg[t] = <<l, r, v>>
  BY <1>1, FunAt
<1>3. 0 \notin Ob /\ Live \subseteq Ob /\ At(l, r) = v
  <2>1. arg[t][1] = l /\ arg[t][2] = r /\ arg[t][3] = v
    BY <1>2
  <2>2. FunThread(t)
    BY DEF FunInv
  <2>3. At(l, r) = v
    BY <1>1, <2>1, <2>2 DEF FunThread
  <2> QED
    BY <2>3, TablesAssumption DEF Ob, Live
<1>4. /\ lx' = lx \cup BothWays(l, r)
      /\ rx' = IF kind = "symmetric" THEN rx ELSE rx \cup {<<l, r>>}
      /\ Goto(t, "fun_index")
      /\ UNCHANGED <<kind, carrierVars, val, vlr, vLr, vRl, mergeVars, dep, pass, todo, arg, new, told>>
  BY <1>2 DEF FunLines, indexVars, mergeVars
<1>5. dep = 0 /\ pass = "none"
  BY <1>1, FunAt
<1>6. Grows /\ Live' = Live
  BY <1>4 DEF Grows, MergeNothing, Live, carrierVars
<1>7. ThreadTypes' /\ ThreadInv' /\ ThreadFacts(t, "fun_index", <<l, r, v>>)
  <2>1. Placed("fun_index", <<l, r, v>>)
    BY DEF Placed, FunLabel
  <2> QED
    BY <1>2, <1>4, <1>6, <2>1, ThreadMoves
<1>8. FunTypes' /\ FunLive'
  <2>1. <<l, r>> \in Pair /\ BothWays(l, r) \subseteq Pair
    BY <1>3, EntryCovers DEF Pair
  <2>2. FunTypes'
    BY <1>4, <2>1 DEF FunInv, FunTypes
  <2> QED
    BY <1>4, <1>6, <2>2, AtNext DEF FunInv, FunLive
<1>9. FunThread(t)'
  <2>1. \A a, b : At(a, b)' = At(a, b) /\ BothWays(a, b)' = BothWays(a, b)
    BY <1>4, AtNext DEF At
  <2> QED
    BY <1>3, <1>4, <1>7, <2>1 DEF FunThread, ThreadFacts
<1>10. FunInv'
  <2>1. \A a, b \in Ob : val'[Key(a, b)] = At(a, b)
    BY <1>4 DEF At
  <2>2. told' \ told = {} /\ vlr' \ vlr = {}
    BY <1>4
  <2>3. ASSUME NEW a \in Ob, NEW b \in Ob, <<a, b>> \in BothWays(l, r) PROVE At(a, b) # 0
    BY <1>3, <2>3, KeyCovers DEF At
  <2>4. <<l, r>> \in BothWays(l, r)
    BY <1>3, KeyCovers
  <2>5. \A a, b \in Ob : <<a, b>> \in (lx' \ lx) \cup (rx' \ rx) => At(a, b) # 0
    BY <1>4, <2>3, <2>4
  <2>6. ASSUME NEW a \in Ob, NEW b \in Ob, Key(arg[t][1], arg[t][2]) = Key(a, b)
        PROVE  <<a, b>> \in lx' /\ (kind = "binary" => <<a, b>> \in rx')
    <3>1. Key(a, b) = Key(l, r)
      BY <1>2, <2>6
    <3>2. <<a, b>> \in BothWays(l, r) /\ (kind = "binary" => a = l /\ b = r)
      BY <1>3, <3>1, KeyCovers, KeyEqual
    <3> QED
      BY <1>4, <3>2
  <2>7. lx \subseteq lx' /\ rx \subseteq rx' /\ vlr \subseteq vlr'
    BY <1>4
  <2>8. arg[t] = <<l, r, v>>
    BY <1>2
  <2> QED
    BY <1>4, <1>5, <1>6, <1>7, <1>8, <1>9, <2>1, <2>2, <2>5, <2>6, <2>7, <2>8, FunMoves
<1> QED
  BY <1>4, <1>5, <1>6, <1>7, <1>10

LEMMA FunIndexStep ==
  ASSUME CarrierInv, MergeInv, ThreadTypes, ThreadInv, FunInv, AFunction,
         NEW t \in Thread, FunIndex(t)
  PROVE  /\ ThreadTypes' /\ ThreadInv' /\ FunInv'
         /\ dep = 0 /\ Grows /\ UNCHANGED mergeVars
<1>1. pc[t] = "fun_index" /\ pc[t] \in FunLabel
  BY DEF FunIndex, FunLabel
<1>2. PICK l \in Live, r \in Live, v \in Live : arg[t] = <<l, r, v>>
  BY <1>1, FunAt
<1>3. /\ 0 \notin Ob /\ Live \subseteq Ob /\ At(l, r) = v
      /\ BothWays(l, r) \subseteq lx /\ (kind = "binary" => <<l, r>> \in rx)
  BY <1>1, <1>2, TablesAssumption DEF Ob, Live, FunInv, FunThread
<1>4. /\ vlr' = vlr \cup Entries(l, r, v)
      /\ vLr' = vLr \cup Entries(l, r, v)
      /\ vRl' = IF kind = "symmetric" THEN {} ELSE vRl \cup Entries(l, r, v)
      /\ Goto(t, "fun_tell")
      /\ UNCHANGED <<kind, carrierVars, val, lx, rx, mergeVars, dep, pass, todo, arg, new, told>>
  BY <1>2 DEF FunIndex, Reindex, mergeVars
<1>5. dep = 0 /\ pass = "none"
  BY <1>1, FunAt
<1>6. Grows /\ Live' = Live
  BY <1>4 DEF Grows, MergeNothing, Live, carrierVars
<1>7. ThreadTypes' /\ ThreadInv' /\ ThreadFacts(t, "fun_tell", <<l, r, v>>)
  <2>1. Placed("fun_tell", <<l, r, v>>)
    BY DEF Placed, FunLabel
  <2> QED
    BY <1>2, <1>4, <1>6, <2>1, ThreadMoves
<1>8. FunTypes' /\ FunLive'
  <2>1. Entries(l, r, v) \subseteq Ob \X Ob \X Ob
    BY <1>3, EntryCovers
  <2>2. FunTypes'
    BY <1>4, <2>1 DEF FunInv, FunTypes
  <2> QED
    BY <1>4, <1>6, <2>2, AtNext DEF FunInv, FunLive
<1>9. FunThread(t)'
  <2>1. \A a, b : At(a, b)' = At(a, b) /\ BothWays(a, b)' = BothWays(a, b)
    BY <1>4, AtNext DEF At
  <2>2. Entries(l, r, v)' = Entries(l, r, v)
    BY <1>4, AtNext
  <2>3. Entries(arg[t][1], arg[t][2], arg[t][3])' = Entries(l, r, v)
    BY <1>7, <2>1 DEF Entries, ThreadFacts
  <2> QED
    BY <1>3, <1>4, <1>7, <2>1, <2>2, <2>3 DEF FunThread, ThreadFacts
<1>10. FunInv'
  <2>1. \A a, b \in Ob : val'[Key(a, b)] = At(a, b)
    BY <1>4 DEF At
  <2>2. told' \ told = {} /\ lx' \ lx = {} /\ rx' \ rx = {}
    BY <1>4
  <2>3. ASSUME NEW a \in Ob, NEW b \in Ob, NEW w \in Ob, <<a, b, w>> \in vlr' \ vlr
        PROVE  At(a, b) = w
    <3>1. <<a, b, w>> \in Entries(l, r, v)
      BY <1>4, <2>3
    <3>2. Key(a, b) = Key(l, r) /\ w = v
      BY <1>3, <3>1, EntryCovers
    <3> QED
      BY <1>3, <3>2 DEF At
  <2>4. ASSUME NEW a \in Ob, NEW b \in Ob, Key(arg[t][1], arg[t][2]) = Key(a, b)
        PROVE  <<a, b, At(a, b)>> \in vlr'
    <3>1. Key(a, b) = Key(l, r)
      BY <1>2, <2>4
    <3>2. <<a, b, v>> \in Entries(l, r, v) /\ At(a, b) = v
      BY <1>3, <3>1, EntryCovers DEF At
    <3> QED
      BY <1>4, <3>2
  <2>5. lx \subseteq lx' /\ rx \subseteq rx' /\ vlr \subseteq vlr' /\ pc[t] # "fun_lines"
    BY <1>1, <1>4
  <2> QED
    BY <1>4, <1>5, <1>6, <1>7, <1>8, <1>9, <2>1, <2>2, <2>3, <2>4, <2>5, FunMoves
<1> QED
  BY <1>4, <1>5, <1>6, <1>7, <1>10

LEMMA FunTellStep ==
  ASSUME CarrierInv, MergeInv, ThreadTypes, ThreadInv, FunInv, AFunction,
         NEW t \in Thread, FunTell(t)
  PROVE  /\ ThreadTypes' /\ ThreadInv' /\ FunInv'
         /\ dep = 0 /\ Grows /\ UNCHANGED mergeVars
<1>1. pc[t] = "fun_tell" /\ pc[t] \in FunLabel
  BY DEF FunTell, FunLabel
<1>2. PICK l \in Live, r \in Live, v \in Live : arg[t] = <<l, r, v>>
  BY <1>1, FunAt
<1>3. /\ 0 \notin Ob /\ Live \subseteq Ob /\ At(l, r) = v
      /\ BothWays(l, r) \subseteq lx /\ Entries(l, r, v) \subseteq vlr
  <2>1. arg[t][1] = l /\ arg[t][2] = r /\ arg[t][3] = v
    BY <1>2
  <2>2. FunThread(t)
    BY DEF FunInv
  <2>3. At(l, r) = v /\ BothWays(l, r) \subseteq lx /\ Entries(l, r, v) \subseteq vlr
    BY <1>1, <2>1, <2>2 DEF FunThread
  <2> QED
    BY <2>3, TablesAssumption DEF Ob, Live
<1>4. /\ told' = told \cup {<<l, r>>} /\ Return(t)
      /\ UNCHANGED <<kind, carrierVars, val, lx, rx, vlr, vLr, vRl, mergeVars, dep, pass, todo>>
  BY <1>2 DEF FunTell, tableVars, indexVars, mergeVars
<1>5. dep = 0 /\ pass = "none"
  BY <1>1, FunAt
<1>6. Grows /\ Live' = Live
  BY <1>4 DEF Grows, MergeNothing, Live, carrierVars
<1>7. ThreadTypes' /\ ThreadInv' /\ ThreadFacts(t, "idle", <<>>)
  BY <1>4, <1>6, ThreadReturns
<1>8. FunTypes' /\ FunLive'
  BY <1>3, <1>4, <1>6, AtNext DEF FunInv, FunTypes, FunLive, Pair
<1>9. FunThread(t)'
  BY <1>7 DEF FunThread, ThreadFacts
<1>10. FunInv'
  <2>1. \A a, b \in Ob : val'[Key(a, b)] = At(a, b)
    BY <1>4 DEF At
  <2>2. lx' \ lx = {} /\ rx' \ rx = {} /\ vlr' \ vlr = {}
    BY <1>4
  <2>3. <<l, r>> \in lx /\ <<l, r, v>> \in vlr
    <3>1. Key(l, r) = Key(l, r)
      OBVIOUS
    <3> QED
      BY <1>3, <3>1, KeyCovers, EntryCovers
  <2>4. \A p \in told' \ told :
           /\ At(p[1], p[2]) # 0 /\ p \in lx'
           /\ <<p[1], p[2], At(p[1], p[2])>> \in vlr'
    BY <1>3, <1>4, <2>3
  <2>5. pc[t] \notin {"fun_lines", "fun_index"}
    BY <1>1
  <2> QED
    BY <1>4, <1>5, <1>6, <1>7, <1>8, <1>9, <2>1, <2>2, <2>4, <2>5, FunMoves
<1> QED
  BY <1>4, <1>5, <1>6, <1>7, <1>10

LEMMA FunInsert ==
  ASSUME CarrierInv, MergeInv, ThreadTypes, ThreadInv, FunInv, AFunction,
         NEW t \in Thread, Insert(t)
  PROVE  /\ ThreadTypes' /\ ThreadInv' /\ FunInv'
         /\ dep = 0 /\ Grows /\ UNCHANGED mergeVars
<1>1. pc[t] \in FunLabel \/ pc[t] = "idle"
  BY DEF ThreadInv, Placed, AFunction
<1>2. \/ StartInsert(t) \/ FunSet(t) \/ FunLines(t) \/ FunIndex(t) \/ FunTell(t)
  BY <1>1 DEF Insert, FunLabel, InjSet, InjTell, InjInv, InjInvSet, RelFirst, RelSecond,
     RelTell, LineLoad, LineOr, LineTell, UnSet
<1> QED
  BY <1>2, FunStart, FunSetStep, FunLinesStep, FunIndexStep, FunTellStep

-----------------------------------------------------------------------------
(* Functions: the passes of a merge.                                       *)

\* A set of obs that has a member has a least one.
LEMMA LeastIn ==
  ASSUME NEW S \in SUBSET Ob, S # {}
  PROVE  Least(S) \in S
<1>1. S \subseteq Nat
  BY TablesAssumption DEF Ob
<1>2. PICK x \in S : \A y \in S : ~ (<<y, x>> \in OpToRel(<, Nat))
  BY <1>1, WFMin, NatLessThanWellFounded
<1>3. ASSUME NEW y \in S PROVE x <= y
  <2>1. ~ (y < x)
    BY <1>1, <1>2 DEF OpToRel
  <2> QED
    BY <1>1, <2>1
<1> QED
  BY <1>3 DEF Least

\* While no task runs, the inverse tables and the lines are complete.
LEMMA FunWhenIdle ==
  ASSUME FunInv, AFunction, Idle
  PROVE  /\ \A l, r, v \in Ob : <<l, r, v>> \in vlr <=> At(l, r) = v
         /\ pass # "lhs" => \A l, r \in Ob : <<l, r>> \in lx <=> At(l, r) # 0
         /\ kind = "binary" /\ pass # "rhs" => \A l, r \in Ob : <<l, r>> \in rx <=> At(l, r) # 0
<1>1. ASSUME NEW l, NEW r, NEW labels, "idle" \notin labels PROVE ~ Pending(l, r, labels)
  BY <1>1 DEF Pending, Idle
<1>2. \A l, r : ~ Pending(l, r, {"fun_lines"}) /\ ~ Pending(l, r, {"fun_lines", "fun_index"})
  BY <1>1
<1>3. \A l, r, v \in Ob : <<l, r, v>> \in vlr <=> At(l, r) = v
  BY <1>2 DEF FunInv, FunIndexed
<1>4. pass # "lhs" => \A l, r \in Ob : <<l, r>> \in lx <=> At(l, r) # 0
  BY <1>2 DEF FunInv, FunLinesL
<1>5. kind = "binary" /\ pass # "rhs" => \A l, r \in Ob : <<l, r>> \in rx <=> At(l, r) # 0
  BY <1>2 DEF FunInv, FunLinesR
<1> QED
  BY <1>3, <1>4, <1>5

\* The lines, as they are while a pass over them runs, and otherwise.
LeftLines(ls, d, rp, td, p) ==
  \A l, r \in Ob : At(l, r) # 0 <=>
    IF p = "lhs"
    THEN \/ <<l, r>> \in ls /\ l # d
         \/ l = rp /\ <<d, r>> \in ls /\ r \notin td
         \/ l = d /\ r \in td
    ELSE <<l, r>> \in ls

RightLines(rs, d, rp, td, p) ==
  kind = "binary" => \A l, r \in Ob : At(l, r) # 0 <=>
    IF p = "rhs"
    THEN \/ <<l, r>> \in rs /\ r # d
         \/ r = rp /\ <<l, d>> \in rs /\ l \notin td
         \/ r = d /\ l \in td
    ELSE <<l, r>> \in rs

\* What has to be shown of a step of a merge.
LEMMA FunInvOf ==
  ASSUME UNCHANGED kind, Idle', FunTypes', FunLive',
         (\A l, r, v \in Ob : <<l, r, v>> \in vlr <=> At(l, r) = v)',
         LeftLines(lx, dep, rep, todo, pass)', RightLines(rx, dep, rep, todo, pass)',
         FunTodo', FunCleared', FunTold'
  PROVE  FunInv'
<1>1. FunIndexed'
  BY DEF FunIndexed
<1>2. FunLinesL'
  BY DEF FunLinesL, LeftLines
<1>3. FunLinesR'
  BY DEF FunLinesR, RightLines
<1>4. \A t \in Thread : FunThread(t)'
  BY DEF FunThread, Idle
<1> QED
  BY <1>1, <1>2, <1>3, <1>4 DEF FunInv

LEMMA LinesOf ==
  ASSUME FunInv, AFunction, Idle
  PROVE  LeftLines(lx, dep, rep, todo, pass) /\ RightLines(rx, dep, rep, todo, pass)
<1>1. LeftLines(lx, dep, rep, todo, pass)
  BY FunWhenIdle DEF LeftLines, FunInv, FunLinesL
<1>2. RightLines(rx, dep, rep, todo, pass)
  BY FunWhenIdle DEF RightLines, FunInv, FunLinesR
<1> QED
  BY <1>1, <1>2

\* Steps that leave the table alone.
LEMMA FunStays ==
  ASSUME CarrierInv, MergeInv, FunInv, UNCHANGED <<kind, val, lx, rx, vlr, vLr, vRl, told, taskVars>>,
         Live' = Live,
         \/ UNCHANGED <<dep, rep, pass, todo>>
         \/ pass = "none" /\ pass' = "start" /\ UNCHANGED <<rep, todo>> /\ Idle /\ dep' # 0
  PROVE  FunInv'
<1> SUFFICES ASSUME AFunction PROVE FunInv'
  BY DEF FunInv, AFunction
<1>1. /\ \A l, r : At(l, r)' = At(l, r) /\ Key(l, r)' = Key(l, r)
      /\ \A l, r, v : Entries(l, r, v)' = Entries(l, r, v)
      /\ \A l, r : BothWays(l, r)' = BothWays(l, r)
  BY AtNext DEF At
<1>2. UNCHANGED <<pc, arg>>
  BY DEF taskVars
<1>3. FunTypes' /\ FunLive'
  BY <1>1 DEF FunInv, FunTypes, FunLive
<1>4. CASE UNCHANGED <<dep, rep, pass, todo>>
  <2>1. \A l, r, labels : Pending(l, r, labels)' = Pending(l, r, labels)
    BY <1>1, <1>2 DEF Pending
  <2>2. FunIndexed' /\ FunTodo' /\ FunCleared'
    BY <1>1, <1>4, <2>1 DEF FunInv, FunIndexed, FunTodo, FunCleared
  <2>3. FunLinesL' /\ FunLinesR'
    BY <1>1, <1>4, <2>1 DEF FunInv, FunLinesL, FunLinesR
  <2>4. FunTold'
    BY <1>1, <1>4 DEF FunInv, FunTold
  <2>5. \A t \in Thread : FunThread(t)'
    BY <1>1, <1>2, <1>4 DEF FunInv, FunThread
  <2> QED
    BY <1>3, <2>2, <2>3, <2>4, <2>5 DEF FunInv
<1>5. CASE pass = "none" /\ pass' = "start" /\ UNCHANGED <<rep, todo>> /\ Idle /\ dep' # 0
  <2>1. /\ (\A l, r, v \in Ob : <<l, r, v>> \in vlr <=> At(l, r) = v)'
        /\ LeftLines(lx, dep, rep, todo, pass)' /\ RightLines(rx, dep, rep, todo, pass)'
    BY <1>1, <1>5, FunWhenIdle DEF LeftLines, RightLines
  <2>2. FunTodo' /\ FunCleared'
    BY <1>5 DEF FunTodo, FunCleared
  <2>3. FunTold'
    <3>1. dep = 0 /\ 0 \notin Live /\ dep' # 0
      BY <1>5, TablesAssumption DEF MergeInv, Live, Ob
    <3> QED
      BY <1>1, <3>1 DEF FunInv, FunTold
  <2>4. Idle'
    BY <1>2, <1>5 DEF Idle
  <2> QED
    BY <1>3, <2>1, <2>2, <2>3, <2>4, FunInvOf
<1> QED
  BY <1>4, <1>5

\* One entry of the dep goes to another key.
LEMMA EntryMoves ==
  ASSUME CarrierInv, FunInv, AFunction, Idle, UNCHANGED <<kind, dep, told>>, dep # 0,
         NEW a \in Live, NEW b \in Live, NEW c \in Live, NEW d \in Live, dep \in {a, b},
         Key(a, b) # Key(c, d), At(a, b) # 0, MoveEntry(<<a, b>>, <<c, d>>),
         lx' \subseteq Pair, rx' \subseteq Pair, kind = "symmetric" => rx' = {},
         todo' \subseteq Ob
  PROVE  /\ CarrierInv' /\ Live' = Live /\ Grows
         /\ FunTypes' /\ FunLive' /\ FunTold'
         /\ (\A l, r, v \in Ob : <<l, r, v>> \in vlr <=> At(l, r) = v)'
         /\ \A l, r \in Ob :
              val'[Key(l, r)] =
                IF Key(l, r) = Key(a, b) THEN 0
                ELSE IF Key(l, r) = Key(c, d) /\ At(c, d) = 0 THEN At(a, b) ELSE At(l, r)
<1>0. 0 \notin Ob /\ Live \subseteq Ob /\ Ob \subseteq Rep /\ 0 \in Rep
  BY TablesAssumption DEF Ob, Rep, Live
<1>1. PICK from \in Pair, to \in Pair :
        /\ from = Key(a, b) /\ to = Key(c, d) /\ from # to
        /\ Key(from[1], from[2]) = from /\ Key(to[1], to[2]) = to
        /\ {from[1], from[2], to[1], to[2]} = {a, b, c, d}
  <2>1. /\ Key(a, b) \in Pair /\ Key(c, d) \in Pair
        /\ Key(Key(a, b)[1], Key(a, b)[2]) = Key(a, b)
        /\ Key(Key(c, d)[1], Key(c, d)[2]) = Key(c, d)
    BY <1>0, KeyPair
  <2>2. {Key(a, b)[1], Key(a, b)[2]} = {a, b} /\ {Key(c, d)[1], Key(c, d)[2]} = {c, d}
    BY DEF Key
  <2> QED
    BY <2>1, <2>2
<1>2. PICK v \in Live, old \in Rep : v = val[from] /\ old = val[to] /\ (old # 0 => old \in Live)
  BY <1>0, <1>1 DEF FunInv, FunTypes, FunLive, At
<1>3. /\ val' = [val EXCEPT ![from] = 0, ![to] = SetOr(old, v)]
      /\ MergeUnlessSet(old, v)
      /\ Reindex(Entries(a, b, v), IF old = 0 THEN Entries(c, d, v) ELSE {})
  BY <1>1, <1>2 DEF MoveEntry
<1>4. CarrierInv' /\ Live' = Live /\ Grows
  <2>1. Grows
    BY <1>0, <1>2, <1>3, MergeUnlessSetGrows
  <2> QED
    BY <2>1, CarrierGrows
<1>5. /\ val' \in [Pair -> Rep]
      /\ \A p \in Pair : val'[p] = IF p = from THEN 0 ELSE IF p = to /\ old = 0 THEN v ELSE val[p]
  BY <1>0, <1>1, <1>2, <1>3 DEF FunInv, FunTypes, SetOr
<1>6. \A l, r \in Ob :
        val'[Key(l, r)] =
          IF Key(l, r) = Key(a, b) THEN 0
          ELSE IF Key(l, r) = Key(c, d) /\ At(c, d) = 0 THEN At(a, b) ELSE At(l, r)
  <2> SUFFICES ASSUME NEW l \in Ob, NEW r \in Ob
               PROVE  val'[Key(l, r)] =
                        IF Key(l, r) = from THEN 0
                        ELSE IF Key(l, r) = to /\ old = 0 THEN v ELSE val[Key(l, r)]
    BY <1>1, <1>2 DEF At
  <2>1. Key(l, r) \in Pair
    BY KeyPair
  <2> QED
    BY <1>5, <2>1
<1>7. FunLive'
  <2> SUFFICES ASSUME NEW p \in Pair, val'[p] # 0
               PROVE  {p[1], p[2], val'[p]} \subseteq Live /\ Key(p[1], p[2]) = p
    BY <1>4, AtNext DEF FunLive
  <2>1. CASE p = to
    <3>1. p[1] \in Live /\ p[2] \in Live /\ Key(p[1], p[2]) = p
      BY <1>1, <2>1
    <3>2. val'[p] \in Live
      BY <1>1, <1>2, <1>5, <2>1
    <3> QED
      BY <3>1, <3>2
  <2>2. CASE p # to
    BY <1>5, <2>2 DEF FunInv, FunLive
  <2> QED
    BY <2>1, <2>2
<1>8. FunTold'
  <2> SUFFICES ASSUME NEW p \in told, {p[1], p[2]} \subseteq Live \ {dep}
               PROVE  val'[Key(p[1], p[2])] # 0
    BY <1>4, AtNext DEF FunTold
  <2>1. At(p[1], p[2]) # 0 /\ p[1] \in Ob /\ p[2] \in Ob
    BY <1>0 DEF FunInv, FunTold
  <2>2. Key(p[1], p[2]) # Key(a, b)
    BY <1>0, <2>1, KeyEqual
  <2> QED
    BY <1>0, <1>6, <2>1, <2>2
<1>9. /\ vlr' = (vlr \ Entries(a, b, v)) \cup (IF old = 0 THEN Entries(c, d, v) ELSE {})
      /\ vLr' = vlr' /\ vRl' = IF kind = "symmetric" THEN {} ELSE vlr'
  BY <1>3 DEF Reindex, FunInv, FunTypes
<1>10. FunTypes'
  <2>1. Entries(c, d, v) \subseteq Ob \X Ob \X Ob
    BY <1>0, EntryCovers
  <2>2. vlr' \subseteq Ob \X Ob \X Ob
    BY <1>9, <2>1 DEF FunInv, FunTypes
  <2> QED
    BY <1>5, <1>9, <2>2 DEF FunInv, FunTypes
<1>11. ASSUME NEW l \in Ob, NEW r \in Ob, NEW w \in Ob
       PROVE  <<l, r, w>> \in vlr' <=> val'[Key(l, r)] = w
  <2>1. <<l, r, w>> \in vlr <=> At(l, r) = w
    BY FunWhenIdle
  <2>2. <<l, r, w>> \in Entries(a, b, v) <=> Key(l, r) = from /\ w = v
    BY <1>0, <1>1, EntryCovers
  <2>3. <<l, r, w>> \in Entries(c, d, v) <=> Key(l, r) = to /\ w = v
    BY <1>0, <1>1, EntryCovers
  <2>4. val'[Key(l, r)] =
          IF Key(l, r) = from THEN 0
          ELSE IF Key(l, r) = to /\ old = 0 THEN v ELSE At(l, r)
    BY <1>1, <1>2, <1>6 DEF At
  <2>5. (Key(l, r) = from => At(l, r) = v) /\ (Key(l, r) = to => At(l, r) = old)
    BY <1>2 DEF At
  <2> QED
    BY <1>0, <1>1, <1>9, <2>1, <2>2, <2>3, <2>4, <2>5
<1>12. (\A l, r, w \in Ob : <<l, r, w>> \in vlr <=> At(l, r) = w)'
  BY <1>11 DEF At, Key
<1> QED
  BY <1>4, <1>6, <1>7, <1>8, <1>10, <1>12

\* The find() of a merge starts the first pass.
LEMMA FunFind ==
  ASSUME CarrierInv, MergeInv, FunInv, AFunction, FindRep
  PROVE  FunInv'
<1>1. /\ UNCHANGED <<kind, root, val, lx, rx, vlr, vLr, vRl, told, dep, pc>> /\ pass' = FirstPass
      /\ todo' = IF kind = "binary" THEN {l \in Ob : <<l, dep>> \in rx} ELSE {}
      /\ pass = "start"
  BY DEF FindRep, carrierVars, tableVars, indexVars, taskVars
<1>2. Idle /\ Idle' /\ Live' = Live /\ dep # 0
  BY <1>1 DEF MergeInv, Idle, Live
<1>3. /\ pass' \notin {"lhs", "refind", "val", "done"} /\ (pass' = "rhs" => kind = "binary")
      /\ kind = "binary" => pass' = "rhs"
  BY <1>1, FirstPassOf DEF AFunction
<1>4. \A l, r : At(l, r)' = At(l, r) /\ Key(l, r)' = Key(l, r)
  BY <1>1, AtNext DEF At
<1>5. FunTypes' /\ FunLive' /\ FunTold'
  BY <1>1, <1>2, <1>4 DEF FunInv, FunTypes, FunLive, FunTold
<1>6. FunTodo' /\ FunCleared'
  BY <1>1, <1>3 DEF FunTodo, FunCleared
<1>7. (\A l, r, v \in Ob : <<l, r, v>> \in vlr <=> At(l, r) = v)'
  BY <1>1, <1>2, <1>4, FunWhenIdle
<1>8. LeftLines(lx, dep, rep, todo, pass)'
  BY <1>1, <1>2, <1>3, <1>4, FunWhenIdle DEF LeftLines
<1>9. RightLines(rx, dep, rep, todo, pass)'
  <2> SUFFICES ASSUME kind = "binary", NEW l \in Ob, NEW r \in Ob
               PROVE  At(l, r) # 0 <=> \/ <<l, r>> \in rx /\ r # dep
                                       \/ r = rep' /\ <<l, dep>> \in rx /\ l \notin todo'
                                       \/ r = dep /\ l \in todo'
    BY <1>1, <1>3, <1>4 DEF RightLines
  <2>1. <<l, r>> \in rx <=> At(l, r) # 0
    BY <1>1, <1>2, FunWhenIdle
  <2>2. l \in todo' <=> <<l, dep>> \in rx
    BY <1>1
  <2> QED
    BY <2>1, <2>2
<1> QED
  BY <1>1, <1>2, <1>5, <1>6, <1>7, <1>8, <1>9, FunInvOf

\* One entry of the dep's column, of a function that is not symmetric.
LEMMA FunMoveRhs ==
  ASSUME CarrierInv, MergeInv, FunInv, AFunction, MoveRhs
  PROVE  FunInv' /\ CarrierInv' /\ Grows
<1>1. /\ pass = "rhs" /\ todo # {} /\ kind = "binary"
      /\ UNCHANGED <<kind, rx, dep, rep, pass, pc, told>>
  BY DEF MoveRhs, MergeInv, taskVars
<1>2. rep \in Live /\ rep # dep /\ dep \in Live /\ dep # 0 /\ Idle /\ Idle' /\ Live \subseteq Ob
  BY <1>1, RepIsLive DEF MergeInv, Idle, Live
<1>3. PICK l \in Ob : l = Least(todo) /\ l \in todo /\ <<l, dep>> \in rx
  BY <1>1, LeastIn DEF FunInv, FunTypes, FunTodo
<1>4. /\ MoveEntry(<<l, dep>>, <<l, rep>>) /\ todo' = todo \ {l}
      /\ lx' = (lx \ {<<l, dep>>}) \cup (IF val[<<l, rep>>] = 0 THEN {<<l, rep>>} ELSE {})
  BY <1>3 DEF MoveRhs, Moved
<1>5. \A x, y : Key(x, y) = <<x, y>>
  BY <1>1 DEF Key
<1>6. RightLines(rx, dep, rep, todo, pass) /\ LeftLines(lx, dep, rep, todo, pass)
  BY <1>2, LinesOf
<1>7. At(l, dep) # 0 /\ l \in Live
  <2>1. At(l, dep) # 0
    BY <1>1, <1>2, <1>3, <1>6 DEF RightLines
  <2>2. <<l, dep>> \in Pair
    BY <1>2 DEF Pair
  <2>3. l \in Live
    BY <1>5, <2>1, <2>2 DEF FunInv, FunLive, At
  <2> QED
    BY <2>1, <2>3
<1>8. /\ lx' \subseteq Pair /\ rx' \subseteq Pair /\ (kind = "symmetric" => rx' = {}) /\ todo' \subseteq Ob
  BY <1>1, <1>2, <1>4 DEF FunInv, FunTypes, Pair
<1>9. /\ CarrierInv' /\ Live' = Live /\ Grows
      /\ FunTypes' /\ FunLive' /\ FunTold'
      /\ (\A x, y, v \in Ob : <<x, y, v>> \in vlr <=> At(x, y) = v)'
      /\ \A x, y \in Ob :
           val'[Key(x, y)] =
             IF Key(x, y) = Key(l, dep) THEN 0
             ELSE IF Key(x, y) = Key(l, rep) /\ At(l, rep) = 0 THEN At(l, dep) ELSE At(x, y)
  <2>1. Key(l, dep) # Key(l, rep)
    BY <1>2, <1>5
  <2> QED
    BY <1>1, <1>2, <1>4, <1>7, <1>8, <2>1, EntryMoves
<1>10. \A x, y \in Ob :
         At(x, y)' = IF x = l /\ y = dep THEN 0
                     ELSE IF x = l /\ y = rep /\ At(l, rep) = 0 THEN At(l, dep) ELSE At(x, y)
  BY <1>1, <1>5, <1>9, AtNext
<1>11. LeftLines(lx, dep, rep, todo, pass)'
  <2> SUFFICES ASSUME NEW x \in Ob, NEW y \in Ob
               PROVE  At(x, y)' # 0 <=> <<x, y>> \in lx'
    BY <1>1 DEF LeftLines
  <2>1. \A z \in Ob : At(x, z) # 0 <=> <<x, z>> \in lx
    BY <1>1, <1>6 DEF LeftLines
  <2>2. val[<<l, rep>>] = At(l, rep)
    BY <1>5 DEF At
  <2> QED
    BY <1>2, <1>4, <1>7, <1>10, <2>1, <2>2
<1>12. RightLines(rx, dep, rep, todo, pass)'
  <2> SUFFICES ASSUME NEW x \in Ob, NEW y \in Ob
               PROVE  At(x, y)' # 0 <=> \/ <<x, y>> \in rx /\ y # dep
                                        \/ y = rep /\ <<x, dep>> \in rx /\ x \notin todo'
                                        \/ y = dep /\ x \in todo'
    BY <1>1 DEF RightLines
  <2>1. At(x, y) # 0 <=> \/ <<x, y>> \in rx /\ y # dep
                         \/ y = rep /\ <<x, dep>> \in rx /\ x \notin todo
                         \/ y = dep /\ x \in todo
    BY <1>1, <1>6 DEF RightLines
  <2> QED
    BY <1>2, <1>3, <1>4, <1>7, <1>10, <2>1
<1>13. FunTodo' /\ FunCleared'
  BY <1>1, <1>4 DEF FunInv, FunTodo, FunCleared
<1> QED
  BY <1>1, <1>2, <1>9, <1>11, <1>12, <1>13, FunInvOf

\* The dep's column is folded into that of the rep.
LEMMA FunFoldRhs ==
  ASSUME CarrierInv, MergeInv, FunInv, AFunction, FoldRhs
  PROVE  FunInv'
<1>1. /\ pass = "rhs" /\ pass' = "lhs" /\ todo = {} /\ kind = "binary"
      /\ UNCHANGED <<kind, root, val, lx, vlr, vLr, vRl, dep, pc, told>>
      /\ rx' = ColumnsFolded(rx) /\ todo' = {r \in Ob : <<dep, r>> \in lx}
  BY DEF FoldRhs, MergeInv, taskVars, indexVars, carrierVars
<1>2. rep \in Live /\ rep # dep /\ dep \in Live /\ Idle /\ Idle' /\ Live' = Live /\ Live \subseteq Ob
  BY <1>1, RepIsLive DEF MergeInv, Idle, Live
<1>3. RightLines(rx, dep, rep, todo, pass) /\ LeftLines(lx, dep, rep, todo, pass)
  BY <1>2, LinesOf
<1>4. \A l, r : At(l, r)' = At(l, r) /\ Key(l, r)' = Key(l, r)
  BY <1>1, AtNext DEF At
<1>5. rx \subseteq Pair /\ rx' \subseteq Pair
  BY <1>1, <1>2 DEF FunInv, FunTypes, ColumnsFolded, Pair
<1>6. \A l, r \in Ob :
        <<l, r>> \in rx' <=> (<<l, r>> \in rx /\ r # dep) \/ (r = rep /\ <<l, dep>> \in rx)
  <2> SUFFICES ASSUME NEW l \in Ob, NEW r \in Ob
               PROVE  <<l, r>> \in {<<p[1], rep>> : p \in {q \in rx : q[2] = dep}}
                        <=> r = rep /\ <<l, dep>> \in rx
    BY <1>1 DEF ColumnsFolded
  <2>1. ASSUME NEW p \in rx, p[2] = dep, <<l, r>> = <<p[1], rep>> PROVE r = rep /\ <<l, dep>> \in rx
    <3>1. p = <<l, dep>>
      BY <1>5, <2>1 DEF Pair
    <3> QED
      BY <2>1, <3>1
  <2>2. ASSUME r = rep, <<l, dep>> \in rx
        PROVE  <<l, r>> \in {<<p[1], rep>> : p \in {q \in rx : q[2] = dep}}
    BY <2>2
  <2> QED
    BY <2>1, <2>2
<1>7. FunTypes' /\ FunLive' /\ FunTold'
  BY <1>1, <1>2, <1>4, <1>5 DEF FunInv, FunTypes, FunLive, FunTold
<1>8. \A l \in Ob : At(l, dep) = 0
  BY <1>1, <1>2, <1>3 DEF RightLines
<1>9. <<dep, dep>> \notin lx
  BY <1>1, <1>2, <1>3, <1>8 DEF LeftLines
<1>10. FunTodo' /\ FunCleared'
  BY <1>1, <1>2, <1>4, <1>8, <1>9 DEF FunTodo, FunCleared
<1>11. (\A l, r, v \in Ob : <<l, r, v>> \in vlr <=> At(l, r) = v)'
  BY <1>1, <1>2, <1>4, FunWhenIdle
<1>12. LeftLines(lx, dep, rep, todo, pass)'
  <2> SUFFICES ASSUME NEW l \in Ob, NEW r \in Ob
               PROVE  At(l, r) # 0 <=> \/ <<l, r>> \in lx /\ l # dep
                                       \/ l = rep' /\ <<dep, r>> \in lx /\ r \notin todo'
                                       \/ l = dep /\ r \in todo'
    BY <1>1, <1>4 DEF LeftLines
  <2>1. <<l, r>> \in lx <=> At(l, r) # 0
    BY <1>1, <1>3 DEF LeftLines
  <2> QED
    BY <1>1, <2>1
<1>13. RightLines(rx, dep, rep, todo, pass)'
  BY <1>1, <1>3, <1>4, <1>6 DEF RightLines
<1> QED
  BY <1>1, <1>2, <1>7, <1>10, <1>11, <1>12, <1>13, FunInvOf

\* The entry of the dep with itself, of a symmetric function.
LEMMA FunMoveDiagonal ==
  ASSUME CarrierInv, MergeInv, FunInv, AFunction, MoveDiagonal
  PROVE  FunInv' /\ CarrierInv' /\ Grows
<1>1. /\ pass = "diag" /\ pass' = "refind" /\ kind = "symmetric"
      /\ UNCHANGED <<kind, rx, dep, rep, todo, pc, told>>
  BY DEF MoveDiagonal, MergeInv, taskVars
<1>2. /\ rep \in Live /\ rep # dep /\ dep \in Live /\ dep # 0 /\ Idle /\ Idle'
      /\ rep \in Ob /\ dep \in Ob /\ Live \subseteq Ob
  BY <1>1, RepIsLive DEF MergeInv, Idle, Live
<1>3. LeftLines(lx, dep, rep, todo, pass)
  BY <1>2, LinesOf
<1>4. RightLines(rx, dep, rep, todo, pass)' /\ FunTodo'
  BY <1>1 DEF RightLines, FunTodo
<1>5. Key(dep, dep) = <<dep, dep>> /\ Key(rep, rep) = <<rep, rep>>
  BY DEF Key
<1>6. CASE <<dep, dep>> \in lx
  <2>1. /\ MoveEntry(<<dep, dep>>, <<rep, rep>>)
        /\ lx' = (lx \ {<<dep, dep>>}) \cup (IF val[<<rep, rep>>] = 0 THEN {<<rep, rep>>} ELSE {})
    BY <1>6 DEF MoveDiagonal, Moved
  <2>2. At(dep, dep) # 0
    BY <1>1, <1>2, <1>3, <1>6 DEF LeftLines
  <2>3. /\ lx' \subseteq Pair /\ rx' \subseteq Pair /\ (kind = "symmetric" => rx' = {})
        /\ todo' \subseteq Ob
    BY <1>1, <1>2, <2>1 DEF FunInv, FunTypes, Pair
  <2>4. /\ CarrierInv' /\ Live' = Live /\ Grows
        /\ FunTypes' /\ FunLive' /\ FunTold'
        /\ (\A x, y, v \in Ob : <<x, y, v>> \in vlr <=> At(x, y) = v)'
        /\ \A x, y \in Ob :
             val'[Key(x, y)] =
               IF Key(x, y) = Key(dep, dep) THEN 0
               ELSE IF Key(x, y) = Key(rep, rep) /\ At(rep, rep) = 0 THEN At(dep, dep) ELSE At(x, y)
    <3>1. PICK d \in Live, e \in Live : d = dep /\ e = rep
      BY <1>2
    <3>2. Key(d, d) # Key(e, e) /\ dep \in {d, d} /\ At(d, d) # 0
      BY <1>2, <1>5, <2>2, <3>1
    <3>3. MoveEntry(<<d, d>>, <<e, e>>)
      BY <2>1, <3>1
    <3>4. UNCHANGED <<kind, dep, told>>
      BY <1>1
    <3>5. /\ CarrierInv' /\ Live' = Live /\ Grows
          /\ FunTypes' /\ FunLive' /\ FunTold'
          /\ (\A x, y, v \in Ob : <<x, y, v>> \in vlr <=> At(x, y) = v)'
          /\ \A x, y \in Ob :
               val'[Key(x, y)] =
                 IF Key(x, y) = Key(d, d) THEN 0
                 ELSE IF Key(x, y) = Key(e, e) /\ At(e, e) = 0 THEN At(d, d) ELSE At(x, y)
      BY <1>2, <2>3, <3>2, <3>3, <3>4, EntryMoves
    <3> QED
      BY <3>1, <3>5
  <2>5. ASSUME NEW x \in Ob, NEW y \in Ob
        PROVE  val'[Key(x, y)] =
                           IF x = dep /\ y = dep THEN 0
                           ELSE IF x = rep /\ y = rep /\ At(rep, rep) = 0 THEN At(dep, dep)
                           ELSE At(x, y)
    <3>1. /\ Key(x, y) = Key(dep, dep) <=> x = dep /\ y = dep
          /\ Key(x, y) = Key(rep, rep) <=> x = rep /\ y = rep
      BY <1>2, KeyEqual
    <3> QED
      BY <2>4, <3>1
  <2>6. LeftLines(lx, dep, rep, todo, pass)'
    <3> SUFFICES ASSUME NEW x \in Ob, NEW y \in Ob
                 PROVE  val'[Key(x, y)] # 0 <=> <<x, y>> \in lx'
      BY <1>1, AtNext, ZenonT(60) DEF LeftLines
    <3>1. At(x, y) # 0 <=> <<x, y>> \in lx
      BY <1>1, <1>3 DEF LeftLines
    <3>2. val[<<rep, rep>>] = At(rep, rep)
      BY <1>5 DEF At
    <3> QED
      BY <1>2, <2>1, <2>2, <2>5, <3>1, <3>2
  <2>7. FunCleared'
    <3>1. val'[Key(dep, dep)] = 0
      BY <1>2, <2>5
    <3> QED
      BY <1>1, <3>1 DEF FunCleared, At, Key
  <2> QED
    BY <1>1, <1>2, <1>4, <2>4, <2>6, <2>7, FunInvOf
<1>7. CASE <<dep, dep>> \notin lx
  <2>1. UNCHANGED <<carrierVars, root, val, lx, vlr, vLr, vRl>>
    BY <1>7 DEF MoveDiagonal, indexVars, carrierVars
  <2>2. Grows /\ CarrierInv' /\ Live' = Live
    BY <1>1, <2>1, CarrierGrows DEF Grows, MergeNothing
  <2>3. \A l, r : At(l, r)' = At(l, r) /\ Key(l, r)' = Key(l, r)
    BY <1>1, <2>1, AtNext DEF At
  <2>4. FunTypes' /\ FunLive' /\ FunTold'
    BY <1>1, <2>1, <2>2, <2>3 DEF FunInv, FunTypes, FunLive, FunTold
  <2>5. (\A l, r, v \in Ob : <<l, r, v>> \in vlr <=> At(l, r) = v)'
    BY <1>1, <1>2, <2>1, <2>3, FunWhenIdle
  <2>6. LeftLines(lx, dep, rep, todo, pass)'
    BY <1>1, <1>3, <2>1, <2>3 DEF LeftLines
  <2>7. FunCleared'
    <3>1. At(dep, dep) = 0
      BY <1>1, <1>2, <1>3, <1>7 DEF LeftLines
    <3> QED
      BY <1>1, <2>3, <3>1 DEF FunCleared
  <2> QED
    BY <1>1, <1>2, <1>4, <2>2, <2>4, <2>5, <2>6, <2>7, FunInvOf
<1> QED
  BY <1>6, <1>7

LEMMA FunFindAgain ==
  ASSUME CarrierInv, MergeInv, FunInv, AFunction, FindRepAgain
  PROVE  FunInv'
<1>1. /\ pass = "refind" /\ pass' = "lhs" /\ kind = "symmetric"
      /\ UNCHANGED <<kind, root, val, lx, rx, vlr, vLr, vRl, dep, pc, told>>
      /\ todo' = {r \in Ob : <<dep, r>> \in lx}
  BY DEF FindRepAgain, MergeInv, AFunction, taskVars, carrierVars, tableVars, indexVars
<1>2. rep \in Live /\ rep # dep /\ dep \in Live /\ Idle /\ Idle' /\ Live' = Live /\ Live \subseteq Ob
  BY <1>1, RepIsLive DEF MergeInv, Idle, Live
<1>3. LeftLines(lx, dep, rep, todo, pass)
  BY <1>2, LinesOf
<1>4. \A l, r : At(l, r)' = At(l, r) /\ Key(l, r)' = Key(l, r)
  BY <1>1, AtNext DEF At
<1>5. FunTypes' /\ FunLive' /\ FunTold'
  BY <1>1, <1>2, <1>4 DEF FunInv, FunTypes, FunLive, FunTold
<1>6. (\A l, r, v \in Ob : <<l, r, v>> \in vlr <=> At(l, r) = v)'
  BY <1>1, <1>2, <1>4, FunWhenIdle
<1>7. At(dep, dep) = 0 /\ <<dep, dep>> \notin lx
  BY <1>1, <1>2, <1>3 DEF FunInv, FunCleared, LeftLines
<1>8. FunTodo' /\ FunCleared' /\ RightLines(rx, dep, rep, todo, pass)'
  BY <1>1, <1>4, <1>7 DEF FunTodo, FunCleared, RightLines
<1>9. LeftLines(lx, dep, rep, todo, pass)'
  <2> SUFFICES ASSUME NEW l \in Ob, NEW r \in Ob
               PROVE  At(l, r) # 0 <=> \/ <<l, r>> \in lx /\ l # dep
                                       \/ l = rep' /\ <<dep, r>> \in lx /\ r \notin todo'
                                       \/ l = dep /\ r \in todo'
    BY <1>1, <1>4 DEF LeftLines
  <2>1. <<l, r>> \in lx <=> At(l, r) # 0
    BY <1>1, <1>3 DEF LeftLines
  <2> QED
    BY <1>1, <2>1
<1> QED
  BY <1>1, <1>2, <1>5, <1>6, <1>8, <1>9, FunInvOf

\* One entry of the dep's line; a symmetric function has only this kind of line,
\* which holds every pair both ways round.
LEMMA FunMoveLhs ==
  ASSUME CarrierInv, MergeInv, FunInv, AFunction, MoveLhs
  PROVE  FunInv' /\ CarrierInv' /\ Grows
<1>1. /\ pass = "lhs" /\ todo # {} /\ UNCHANGED <<kind, dep, rep, pass, pc, told>>
  BY DEF MoveLhs, taskVars
<1>2. /\ rep \in Live /\ rep # dep /\ dep \in Live /\ dep # 0 /\ Idle /\ Idle'
      /\ rep \in Ob /\ dep \in Ob /\ Live \subseteq Ob
  BY <1>1, RepIsLive DEF MergeInv, Idle, Live
<1>3. PICK r \in Ob : r = Least(todo) /\ r \in todo /\ <<dep, r>> \in lx
  BY <1>1, LeastIn DEF FunInv, FunTypes, FunTodo
<1>4. /\ MoveEntry(<<dep, r>>, <<rep, r>>) /\ todo' = todo \ {r}
      /\ kind = "binary" =>
           /\ rx' = (rx \ {<<dep, r>>}) \cup (IF val[<<rep, r>>] = 0 THEN {<<rep, r>>} ELSE {})
           /\ lx' = lx
      /\ kind = "symmetric" =>
           /\ lx' = (lx \ {<<r, dep>>}) \cup (IF val[Key(rep, r)] = 0 THEN {<<r, rep>>} ELSE {})
           /\ rx' = rx
  BY <1>3 DEF MoveLhs, Moved
<1>5. RightLines(rx, dep, rep, todo, pass) /\ LeftLines(lx, dep, rep, todo, pass)
  BY <1>2, LinesOf
<1>6. At(dep, r) # 0 /\ r # dep /\ r \in Live
  <2>1. At(dep, r) # 0
    BY <1>1, <1>2, <1>3, <1>5 DEF LeftLines
  <2>2. At(dep, dep) = 0
    BY <1>1 DEF FunInv, FunCleared
  <2>3. Key(dep, r) \in Pair /\ r \in {Key(dep, r)[1], Key(dep, r)[2]}
    BY <1>2, KeyPair
  <2>4. r \in Live
    BY <2>1, <2>3 DEF FunInv, FunLive, At
  <2> QED
    BY <2>1, <2>2, <2>4
<1>7. /\ lx' \subseteq Pair /\ rx' \subseteq Pair /\ (kind = "symmetric" => rx' = {}) /\ todo' \subseteq Ob
  BY <1>1, <1>2, <1>4 DEF FunInv, FunTypes, Pair, AFunction
<1>8. /\ CarrierInv' /\ Live' = Live /\ Grows
      /\ FunTypes' /\ FunLive' /\ FunTold'
      /\ (\A x, y, v \in Ob : <<x, y, v>> \in vlr <=> At(x, y) = v)'
      /\ \A x, y \in Ob :
           val'[Key(x, y)] =
             IF Key(x, y) = Key(dep, r) THEN 0
             ELSE IF Key(x, y) = Key(rep, r) /\ At(rep, r) = 0 THEN At(dep, r) ELSE At(x, y)
  <2>1. Key(dep, r) # Key(rep, r) /\ dep \in {dep, r}
    BY <1>2, KeyEqual
  <2> QED
    BY <1>1, <1>2, <1>4, <1>6, <1>7, <2>1, EntryMoves
<1>9. ASSUME NEW x \in Ob, NEW y \in Ob
      PROVE  val'[Key(x, y)] =
               IF (x = dep /\ y = r) \/ (kind = "symmetric" /\ x = r /\ y = dep) THEN 0
               ELSE IF ((x = rep /\ y = r) \/ (kind = "symmetric" /\ x = r /\ y = rep)) /\ At(rep, r) = 0
               THEN At(dep, r) ELSE At(x, y)
  <2>1. /\ Key(x, y) = Key(dep, r) <=> (x = dep /\ y = r) \/ (kind = "symmetric" /\ x = r /\ y = dep)
        /\ Key(x, y) = Key(rep, r) <=> (x = rep /\ y = r) \/ (kind = "symmetric" /\ x = r /\ y = rep)
    BY <1>2, KeyEqual
  <2> QED
    BY <1>8, <2>1
<1>10. FunTodo'
  <2>1. \A x \in todo : <<dep, x>> \in lx
    BY <1>1 DEF FunInv, FunTodo
  <2>2. \A x \in Ob : <<dep, x>> \in lx => <<dep, x>> \in lx'
    BY <1>4, <1>6 DEF AFunction
  <2> QED
    BY <1>1, <1>4, <2>1, <2>2 DEF FunInv, FunTypes, FunTodo
<1>11. FunCleared'
  <2>1. val'[Key(dep, dep)] = 0
    <3>1. At(dep, dep) = 0
      BY <1>1 DEF FunInv, FunCleared
    <3> QED
      BY <1>2, <1>6, <1>9, <3>1
  <2>2. <<dep, dep>> \notin lx'
    BY <1>1, <1>2, <1>4, <1>6 DEF FunInv, FunCleared, AFunction
  <2>3. kind = "binary" => \A l \in Ob : val'[Key(l, dep)] = 0
    <3>1. kind = "binary" => \A l \in Ob : At(l, dep) = 0
      BY <1>1 DEF FunInv, FunCleared
    <3> QED
      BY <1>2, <1>6, <1>9, <3>1
  <2> QED
    BY <1>1, <2>1, <2>2, <2>3 DEF FunCleared, At, Key
<1>12. LeftLines(lx, dep, rep, todo, pass)'
  <2> SUFFICES ASSUME NEW x \in Ob, NEW y \in Ob
               PROVE  val'[Key(x, y)] # 0 <=>
                        \/ <<x, y>> \in lx' /\ x # dep
                        \/ x = rep /\ <<dep, y>> \in lx' /\ y \notin todo'
                        \/ x = dep /\ y \in todo'
    BY <1>1, AtNext, ZenonT(60) DEF LeftLines
  <2>1. At(x, y) # 0 <=> \/ <<x, y>> \in lx /\ x # dep
                         \/ x = rep /\ <<dep, y>> \in lx /\ y \notin todo
                         \/ x = dep /\ y \in todo
    BY <1>1, <1>5 DEF LeftLines
  <2>0. todo' = todo \ {r}
    BY <1>4
  <2>2. CASE kind = "binary"
    <3>1. lx' = lx
      BY <1>4, <2>2
    <3>2. val'[Key(x, y)] = IF x = dep /\ y = r THEN 0
                            ELSE IF x = rep /\ y = r /\ At(rep, r) = 0 THEN At(dep, r)
                            ELSE At(x, y)
      BY <1>9, <2>2
    <3>3. CASE x = dep /\ y = r
      BY <1>2, <2>0, <3>1, <3>2, <3>3
    <3>4. CASE x = rep /\ y = r
      <4>1. val'[Key(x, y)] # 0
        BY <1>2, <1>6, <3>2, <3>4
      <4> QED
        BY <1>3, <2>0, <3>1, <3>4, <4>1
    <3>5. CASE (x # dep \/ y # r) /\ (x # rep \/ y # r)
      <4>1. val'[Key(x, y)] = At(x, y)
        BY <3>2, <3>5
      <4> QED
        BY <2>0, <2>1, <3>1, <3>5, <4>1
    <3> QED
      BY <3>3, <3>4, <3>5
  <2>3. CASE kind = "symmetric"
    <3>1. lx' = (lx \ {<<r, dep>>}) \cup (IF At(rep, r) = 0 THEN {<<r, rep>>} ELSE {})
      BY <1>4, <2>3 DEF At
    <3>2. <<dep, dep>> \notin lx /\ <<dep, r>> \in lx'
      BY <1>1, <1>3, <1>6, <3>1 DEF FunInv, FunCleared
    <3>3. CASE (x = dep /\ y = r) \/ (x = r /\ y = dep)
      <4>1. val'[Key(x, y)] = 0
        BY <1>9, <2>3, <3>3
      <4> QED
        BY <1>2, <1>6, <2>0, <3>1, <3>2, <3>3, <4>1
    <3>4. CASE x = rep /\ y = r
      <4>1. val'[Key(x, y)] # 0
        BY <1>2, <1>6, <1>9, <2>3, <3>4
      <4> QED
        BY <2>0, <3>2, <3>4, <4>1
    <3>5. CASE x = r /\ y = rep /\ r # rep
      <4>2. At(rep, r) = At(r, rep)
        <5>1. Key(rep, r) = Key(r, rep)
          BY <1>2, <2>3, KeyEqual
        <5> QED
          BY <5>1 DEF At
      <4>1. val'[Key(x, y)] # 0
        BY <1>2, <1>6, <1>9, <2>3, <3>5, <4>2
      <4> QED
        BY <1>2, <1>6, <2>1, <3>1, <3>5, <4>1, <4>2
    <3>6. CASE (x # dep \/ y # r) /\ (x # r \/ y # dep) /\ (x # rep \/ y # r) /\ (x # r \/ y # rep)
      <4>1. val'[Key(x, y)] = At(x, y)
        BY <1>9, <3>6
      <4>2. <<x, y>> \in lx' <=> <<x, y>> \in lx
        BY <3>1, <3>6
      <4>3. <<dep, y>> \in lx' <=> <<dep, y>> \in lx
        BY <1>6, <3>1
      <4> QED
        BY <2>0, <2>1, <3>6, <4>1, <4>2, <4>3
    <3> QED
      BY <3>3, <3>4, <3>5, <3>6
  <2> QED
    BY <2>2, <2>3 DEF AFunction
<1>13. RightLines(rx, dep, rep, todo, pass)'
  <2> SUFFICES ASSUME kind = "binary", NEW x \in Ob, NEW y \in Ob
               PROVE  val'[Key(x, y)] # 0 <=> <<x, y>> \in rx'
    BY <1>1, AtNext, ZenonT(60) DEF RightLines
  <2>1. At(x, y) # 0 <=> <<x, y>> \in rx
    BY <1>1, <1>5 DEF RightLines
  <2>2. val[<<rep, r>>] = At(rep, r)
    BY DEF At, Key
  <2>3. rx' = (rx \ {<<dep, r>>}) \cup (IF At(rep, r) = 0 THEN {<<rep, r>>} ELSE {})
    BY <1>4, <2>2
  <2>4. At(rep, r) # 0 <=> <<rep, r>> \in rx
    BY <1>1, <1>2, <1>5 DEF RightLines
  <2> QED
    BY <1>2, <1>6, <1>9, <2>1, <2>3, <2>4
<1> QED
  BY <1>1, <1>2, <1>8, <1>10, <1>11, <1>12, <1>13, FunInvOf

\* The dep's row is folded into that of the rep.
LEMMA FunFoldLhs ==
  ASSUME CarrierInv, MergeInv, FunInv, AFunction, FoldLhs
  PROVE  FunInv'
<1>1. /\ pass = "lhs" /\ pass' = "val" /\ todo = {}
      /\ UNCHANGED <<kind, root, val, rx, vlr, vLr, vRl, dep, todo, pc, told>>
      /\ lx' = RowsFolded(lx)
  BY DEF FoldLhs, taskVars, indexVars, carrierVars
<1>2. /\ rep \in Live /\ rep # dep /\ dep \in Live /\ Idle /\ Idle' /\ Live' = Live
      /\ Live \subseteq Ob /\ dep \in Ob /\ rep \in Ob /\ dep # 0
  BY <1>1, RepIsLive DEF MergeInv, Idle, Live
<1>3. RightLines(rx, dep, rep, todo, pass) /\ LeftLines(lx, dep, rep, todo, pass)
  BY <1>2, LinesOf
<1>4. \A l, r : At(l, r)' = At(l, r) /\ Key(l, r)' = Key(l, r)
  BY <1>1, AtNext DEF At
<1>5. lx \subseteq Pair /\ lx' \subseteq Pair
  BY <1>1, <1>2 DEF FunInv, FunTypes, RowsFolded, Pair
<1>6. \A l, r \in Ob :
        <<l, r>> \in lx' <=> (<<l, r>> \in lx /\ l # dep) \/ (l = rep /\ <<dep, r>> \in lx)
  <2> SUFFICES ASSUME NEW l \in Ob, NEW r \in Ob
               PROVE  <<l, r>> \in {<<rep, p[2]>> : p \in {q \in lx : q[1] = dep}}
                        <=> l = rep /\ <<dep, r>> \in lx
    BY <1>1 DEF RowsFolded
  <2>1. ASSUME NEW p \in lx, p[1] = dep, <<l, r>> = <<rep, p[2]>> PROVE l = rep /\ <<dep, r>> \in lx
    <3>1. p = <<dep, r>>
      BY <1>5, <2>1 DEF Pair
    <3> QED
      BY <2>1, <3>1
  <2>2. ASSUME l = rep, <<dep, r>> \in lx
        PROVE  <<l, r>> \in {<<rep, p[2]>> : p \in {q \in lx : q[1] = dep}}
    BY <2>2
  <2> QED
    BY <2>1, <2>2
<1>7. FunTypes' /\ FunLive' /\ FunTold'
  <2>1. FunTypes'
    BY <1>1, <1>5 DEF FunInv, FunTypes
  <2>2. FunLive' /\ FunTold'
    BY <1>1, <1>2, <1>4 DEF FunInv, FunLive, FunTold
  <2> QED
    BY <2>1, <2>2
<1>8. \A x \in Ob : At(dep, x) = 0
  BY <1>1, <1>2, <1>3 DEF LeftLines
<1>9. \A x \in Ob : At(x, dep) = 0
  <2>1. CASE kind = "binary"
    BY <1>1, <2>1 DEF FunInv, FunCleared
  <2>2. CASE kind = "symmetric"
    <3>1. ASSUME NEW x \in Ob PROVE Key(x, dep) = Key(dep, x)
      BY <1>2, <2>2, KeyEqual
    <3> QED
      BY <1>8, <3>1 DEF At
  <2> QED
    BY <2>1, <2>2 DEF AFunction
<1>10. FunTodo' /\ FunCleared'
  BY <1>1, <1>2, <1>4, <1>8, <1>9 DEF FunTodo, FunCleared
<1>11. (\A l, r, v \in Ob : <<l, r, v>> \in vlr <=> At(l, r) = v)'
  BY <1>1, <1>2, <1>4, FunWhenIdle
<1>12. LeftLines(lx, dep, rep, todo, pass)'
  BY <1>1, <1>3, <1>4, <1>6 DEF LeftLines
<1>13. RightLines(rx, dep, rep, todo, pass)'
  BY <1>1, <1>3, <1>4 DEF RightLines
<1> QED
  BY <1>1, <1>2, <1>7, <1>10, <1>11, <1>12, <1>13, FunInvOf

\* The dep as a value.
LEMMA ValMoves ==
  ASSUME CarrierInv, MergeInv, FunInv, AFunction, MoveVal
  PROVE  /\ val' \in [Pair -> Rep]
         /\ \A p \in Pair : val'[p] = IF val[p] = dep THEN rep ELSE val[p]
         /\ \A l, r \in Ob : val'[Key(l, r)] = IF At(l, r) = dep THEN rep ELSE At(l, r)
<1> DEFINE found == {e \in vlr : e[3] = dep}
<1>1. /\ pass = "val"
      /\ val' = [p \in Pair |-> IF \E e \in found : Key(e[1], e[2]) = p THEN rep ELSE val[p]]
  BY DEF MoveVal
<1>2. /\ rep \in Live /\ dep \in Live /\ Idle
      /\ Live \subseteq Ob /\ dep \in Ob /\ rep \in Ob /\ 0 \notin Ob /\ Ob \subseteq Rep
  BY <1>1, RepIsLive, TablesAssumption DEF MergeInv, Live, Ob, Rep
<1>4. vlr \subseteq Ob \X Ob \X Ob /\ val \in [Pair -> Rep]
  BY DEF FunInv, FunTypes
<1>5. \A l, r, v \in Ob : <<l, r, v>> \in vlr <=> At(l, r) = v
  BY <1>2, FunWhenIdle
<1>6. ASSUME NEW p \in Pair
      PROVE  (\E e \in found : Key(e[1], e[2]) = p) <=> val[p] = dep
  <2>1. ASSUME NEW e \in found, Key(e[1], e[2]) = p PROVE val[p] = dep
    <3>1. PICK l \in Ob, r \in Ob : e = <<l, r, dep>> /\ e \in vlr
      BY <1>4
    <3> QED
      BY <1>2, <1>5, <2>1, <3>1 DEF At
  <2>2. ASSUME val[p] = dep PROVE \E e \in found : Key(e[1], e[2]) = p
    <3>1. Key(p[1], p[2]) = p /\ p[1] \in Ob /\ p[2] \in Ob
      BY <1>2, <2>2 DEF FunInv, FunLive, Pair
    <3>2. <<p[1], p[2], dep>> \in vlr
      BY <1>2, <1>5, <2>2, <3>1 DEF At
    <3>3. <<p[1], p[2], dep>> \in found
      BY <3>2
    <3> QED
      BY <3>1, <3>3
  <2> QED
    BY <2>1, <2>2
<1>7. val' \in [Pair -> Rep] /\ \A p \in Pair : val'[p] = IF val[p] = dep THEN rep ELSE val[p]
  BY <1>1, <1>2, <1>4, <1>6
<1>8. \A l, r \in Ob : val'[Key(l, r)] = IF At(l, r) = dep THEN rep ELSE At(l, r)
  <2> SUFFICES ASSUME NEW l \in Ob, NEW r \in Ob
               PROVE  val'[Key(l, r)] = IF At(l, r) = dep THEN rep ELSE At(l, r)
    OBVIOUS
  <2>1. Key(l, r) \in Pair
    BY KeyPair
  <2> QED
    BY <1>7, <2>1 DEF At
<1> HIDE DEF found
<1> QED
  BY <1>7, <1>8

\* An ob that is a value of the dep's entries becomes the rep.
LEMMA FunMoveVal ==
  ASSUME CarrierInv, MergeInv, FunInv, AFunction, MoveVal
  PROVE  FunInv'
<1> DEFINE found == {e \in vlr : e[3] = dep}
           moved == {<<e[1], e[2], rep>> : e \in found}
<1>1. /\ pass = "val" /\ pass' = "done"
      /\ UNCHANGED <<kind, root, lx, rx, dep, rep, todo, pc, told>>
      /\ val' = [p \in Pair |-> IF \E e \in found : Key(e[1], e[2]) = p THEN rep ELSE val[p]]
      /\ vlr' = (vlr \ found) \cup moved
      /\ vLr' = (vLr \ found) \cup moved
      /\ vRl' = IF kind = "symmetric" THEN {} ELSE (vRl \ found) \cup moved
  BY DEF MoveVal, Reindex, taskVars, carrierVars
<1>0. UNCHANGED <<kind, lx, rx, dep, rep, todo, told>> /\ pass = "val" /\ pass' = "done"
  BY <1>1
<1>2. /\ rep \in Live /\ rep # dep /\ dep \in Live /\ Idle /\ Idle' /\ Live' = Live
      /\ Live \subseteq Ob /\ dep \in Ob /\ rep \in Ob /\ 0 \notin Ob /\ Ob \subseteq Rep
  BY <1>1, RepIsLive, TablesAssumption DEF MergeInv, Idle, Live, Ob, Rep
<1>3. RightLines(rx, dep, rep, todo, pass) /\ LeftLines(lx, dep, rep, todo, pass)
  BY <1>2, LinesOf
<1>4. vlr \subseteq Ob \X Ob \X Ob /\ val \in [Pair -> Rep]
  BY DEF FunInv, FunTypes
<1>5. \A l, r, v \in Ob : <<l, r, v>> \in vlr <=> At(l, r) = v
  BY <1>2, FunWhenIdle
<1>7. val' \in [Pair -> Rep] /\ \A p \in Pair : val'[p] = IF val[p] = dep THEN rep ELSE val[p]
  BY ValMoves
<1>8. \A l, r \in Ob : val'[Key(l, r)] = IF At(l, r) = dep THEN rep ELSE At(l, r)
  BY ValMoves
<1>9. \A l, r, v \in Ob : <<l, r, v>> \in vlr' <=>
        (<<l, r, v>> \in vlr /\ v # dep) \/ (v = rep /\ <<l, r, dep>> \in vlr)
  <2> SUFFICES ASSUME NEW l \in Ob, NEW r \in Ob, NEW v \in Ob
               PROVE  <<l, r, v>> \in vlr' <=>
                        (<<l, r, v>> \in vlr /\ v # dep) \/ (v = rep /\ <<l, r, dep>> \in vlr)
    OBVIOUS
  <2>1. ASSUME NEW e \in found, <<l, r, v>> = <<e[1], e[2], rep>> PROVE v = rep /\ <<l, r, dep>> \in vlr
    <3>1. e = <<l, r, dep>>
      BY <1>4, <2>1
    <3> QED
      BY <2>1, <3>1
  <2>2. ASSUME v = rep, <<l, r, dep>> \in vlr PROVE <<l, r, v>> \in moved
    BY <2>2
  <2>3. <<l, r, v>> \in moved <=> v = rep /\ <<l, r, dep>> \in vlr
    BY <2>1, <2>2
  <2>4. <<l, r, v>> \in found <=> v = dep /\ <<l, r, v>> \in vlr
    OBVIOUS
  <2>5. vlr' = (vlr \ found) \cup moved
    BY <1>1
  <2> HIDE DEF found, moved
  <2> QED
    BY <1>2, <2>3, <2>4, <2>5
<1>10. \A l, r, v \in Ob : <<l, r, v>> \in vlr' <=> val'[Key(l, r)] = v
  <2> SUFFICES ASSUME NEW l \in Ob, NEW r \in Ob, NEW v \in Ob
               PROVE  <<l, r, v>> \in vlr' <=> val'[Key(l, r)] = v
    OBVIOUS
  <2>1. (<<l, r, v>> \in vlr <=> At(l, r) = v) /\ (<<l, r, dep>> \in vlr <=> At(l, r) = dep)
    BY <1>2, <1>5
  <2>2. val'[Key(l, r)] = IF At(l, r) = dep THEN rep ELSE At(l, r)
    BY <1>8
  <2>3. <<l, r, v>> \in vlr' <=>
          (<<l, r, v>> \in vlr /\ v # dep) \/ (v = rep /\ <<l, r, dep>> \in vlr)
    BY <1>9
  <2> QED
    BY <1>2, <2>1, <2>2, <2>3
<1>11. vlr' \subseteq Ob \X Ob \X Ob
  BY <1>1, <1>2, <1>4
<1>12. FunTypes'
  <2>1. vLr' = vlr' /\ vRl' = IF kind = "symmetric" THEN {} ELSE vlr'
    BY <1>1 DEF FunInv, FunTypes
  <2> HIDE DEF found, moved
  <2> QED
    BY <1>1, <1>7, <1>11, <2>1 DEF FunInv, FunTypes
<1> HIDE DEF found, moved
<1>13. FunLive'
  <2> SUFFICES ASSUME NEW p \in Pair, val'[p] # 0
               PROVE  {p[1], p[2], val'[p]} \subseteq Live /\ Key(p[1], p[2]) = p
    BY <1>0, <1>2, AtNext DEF FunLive
  <2> QED
    BY <1>2, <1>7 DEF FunInv, FunLive
<1>14. FunTold'
  <2> SUFFICES ASSUME NEW p \in told, {p[1], p[2]} \subseteq Live \ {dep}
               PROVE  val'[Key(p[1], p[2])] # 0
    BY <1>0, <1>2, AtNext DEF FunTold
  <2> QED
    BY <1>2, <1>8 DEF FunInv, FunTold
<1>15. FunTodo' /\ FunCleared'
  <2>1. \A x \in Ob : At(dep, x) = 0 /\ At(x, dep) = 0
    BY <1>1 DEF FunInv, FunCleared
  <2>2. \A x \in Ob : val'[Key(dep, x)] = 0 /\ val'[Key(x, dep)] = 0
    BY <1>2, <1>8, <2>1
  <2>3. \A p \in Pair : val'[p] # dep
    BY <1>2, <1>7
  <2> QED
    BY <1>1, <1>2, <2>2, <2>3 DEF FunTodo, FunCleared, At, Key
<1>16. (\A l, r, v \in Ob : <<l, r, v>> \in vlr <=> At(l, r) = v)'
  BY <1>1, <1>10 DEF At, Key
<1>17. LeftLines(lx, dep, rep, todo, pass)'
  <2> SUFFICES ASSUME NEW l \in Ob, NEW r \in Ob
               PROVE  val'[Key(l, r)] # 0 <=> <<l, r>> \in lx
    BY <1>0, AtNext, ZenonT(60) DEF LeftLines
  <2> QED
    BY <1>0, <1>2, <1>3, <1>8 DEF LeftLines
<1>18. RightLines(rx, dep, rep, todo, pass)'
  <2> SUFFICES ASSUME kind = "binary", NEW l \in Ob, NEW r \in Ob
               PROVE  val'[Key(l, r)] # 0 <=> <<l, r>> \in rx
    BY <1>0, AtNext, ZenonT(60) DEF RightLines
  <2> QED
    BY <1>0, <1>2, <1>3, <1>8 DEF RightLines
<1> QED
  BY <1>1, <1>2, <1>12, <1>13, <1>14, <1>15, <1>16, <1>17, <1>18, FunInvOf

\* The dep is removed.
LEMMA FunEnd ==
  ASSUME CarrierInv, MergeInv, FunInv, AFunction, EndMerge
  PROVE  FunInv'
<1>1. /\ pass = "done" /\ pass' = "none" /\ dep' = 0 /\ todo' = {}
      /\ UNCHANGED <<kind, val, lx, rx, vlr, vLr, vRl, pc, told>>
  BY DEF EndMerge, taskVars, tableVars, indexVars
<1>2. dep \in Live /\ Idle /\ Idle' /\ Live' = Live \ {dep} /\ Live \subseteq Ob /\ dep # 0
  BY <1>1, EndFrame DEF MergeInv, Idle, Live
<1>3. /\ \A l, r, v \in Ob : <<l, r, v>> \in vlr <=> At(l, r) = v
      /\ \A l, r \in Ob : <<l, r>> \in lx <=> At(l, r) # 0
      /\ kind = "binary" => \A l, r \in Ob : <<l, r>> \in rx <=> At(l, r) # 0
  BY <1>1, <1>2, FunWhenIdle
<1>4. \A l, r : At(l, r)' = At(l, r) /\ Key(l, r)' = Key(l, r)
  BY <1>1, AtNext DEF At
<1>5. FunTypes'
  BY <1>1 DEF FunInv, FunTypes
<1>6. FunLive'
  <2> SUFFICES ASSUME NEW p \in Pair, val[p] # 0
               PROVE  {p[1], p[2], val[p]} \subseteq Live \ {dep} /\ Key(p[1], p[2]) = p
    BY <1>1, <1>2, <1>4 DEF FunLive
  <2>1. {p[1], p[2], val[p]} \subseteq Live /\ Key(p[1], p[2]) = p
    BY DEF FunInv, FunLive
  <2>2. val[p] # dep /\ \A x \in Ob : At(dep, x) = 0 /\ At(x, dep) = 0
    BY <1>1 DEF FunInv, FunCleared
  <2>3. At(p[1], p[2]) # 0
    BY <2>1 DEF At
  <2>4. p[1] # dep /\ p[2] # dep
    BY <1>2, <2>1, <2>2, <2>3
  <2> QED
    BY <2>1, <2>2, <2>4
<1>7. FunTold'
  <2> SUFFICES ASSUME NEW p \in told, {p[1], p[2]} \subseteq Live \ {dep}
               PROVE  At(p[1], p[2]) # 0 /\ p \in lx /\ <<p[1], p[2], At(p[1], p[2])>> \in vlr
    BY <1>1, <1>2, <1>4 DEF FunTold
  <2>1. At(p[1], p[2]) # 0
    BY DEF FunInv, FunTold
  <2>2. p = <<p[1], p[2]>> /\ p[1] \in Ob /\ p[2] \in Ob
    BY DEF FunInv, FunTypes, Pair
  <2>3. At(p[1], p[2]) \in Ob
    <3>1. Key(p[1], p[2]) \in Pair
      BY <2>2, KeyPair
    <3> QED
      BY <1>2, <2>1, <3>1 DEF FunInv, FunLive, At
  <2> QED
    BY <1>3, <2>1, <2>2, <2>3
<1>8. FunTodo' /\ FunCleared'
  BY <1>1 DEF FunTodo, FunCleared
<1>9. /\ (\A l, r, v \in Ob : <<l, r, v>> \in vlr <=> At(l, r) = v)'
      /\ LeftLines(lx, dep, rep, todo, pass)' /\ RightLines(rx, dep, rep, todo, pass)'
  BY <1>1, <1>3, <1>4 DEF LeftLines, RightLines
<1> QED
  BY <1>1, <1>2, <1>5, <1>6, <1>7, <1>8, <1>9, FunInvOf

\* All the passes of a merge.
LEMMA FunMerge ==
  ASSUME CarrierInv, MergeInv, FunInv, AFunction,
         \/ MoveRhs \/ FoldRhs \/ MoveDiagonal \/ FindRepAgain \/ MoveLhs \/ FoldLhs \/ MoveVal
  PROVE  /\ FunInv' /\ CarrierInv' /\ Live' = Live /\ Grows
         /\ dep # 0 /\ rep' \in Live /\ rep' # dep /\ root[rep'] = root[dep] /\ PassOf(pass')
         /\ UNCHANGED <<dep, taskVars>>
<1>1. pass \in {"rhs", "diag", "refind", "lhs", "val"}
  BY DEF MoveRhs, FoldRhs, MoveDiagonal, FindRepAgain, MoveLhs, FoldLhs, MoveVal
<1>2. dep # 0 /\ rep \in Live /\ rep # dep /\ root[rep] = root[dep]
  BY <1>1, RepIsLive
<1>3. root[rep] \in Live /\ root[rep] # dep /\ root[root[rep]] = root[dep]
  BY <1>2, RootOfRep DEF Live
<1>4. CASE MoveRhs \/ MoveDiagonal \/ MoveLhs
  <2>1. UNCHANGED <<dep, taskVars, rep>> /\ PassOf(pass')
    BY <1>4 DEF MoveRhs, MoveDiagonal, MoveLhs, MergeInv, PassOf
  <2>2. FunInv' /\ CarrierInv' /\ Grows
    BY <1>4, FunMoveRhs, FunMoveDiagonal, FunMoveLhs
  <2>3. Live' = Live
    BY <2>1, <2>2, CarrierGrows
  <2> QED
    BY <1>2, <2>1, <2>2, <2>3
<1>5. CASE FoldRhs \/ FindRepAgain \/ FoldLhs
  <2>1. /\ UNCHANGED <<dep, taskVars, kind, carrierVars>> /\ rep' = root[rep] /\ PassOf(pass')
    BY <1>5 DEF FoldRhs, FindRepAgain, FoldLhs, MergeInv, PassOf, AFunction
  <2>2. FunInv'
    BY <1>5, FunFoldRhs, FunFindAgain, FunFoldLhs
  <2>3. Grows
    BY <2>1 DEF Grows, MergeNothing
  <2>4. CarrierInv' /\ Live' = Live
    BY <2>1, <2>3, CarrierGrows
  <2> QED
    BY <1>2, <1>3, <2>1, <2>2, <2>3, <2>4
<1>6. CASE MoveVal
  <2>1. UNCHANGED <<dep, taskVars, kind, carrierVars, rep>> /\ PassOf(pass')
    BY <1>6 DEF MoveVal, PassOf
  <2>2. Grows
    BY <2>1 DEF Grows, MergeNothing
  <2>3. CarrierInv' /\ Live' = Live
    BY <2>1, <2>2, CarrierGrows
  <2> QED
    BY <1>2, <1>6, <2>1, <2>2, <2>3, FunMoveVal
<1> QED
  BY <1>4, <1>5, <1>6

-----------------------------------------------------------------------------
(* The invariant, for every kind of table.                                 *)

KindInv == FunInv /\ InjTables /\ RelInv /\ UnInv

\* Only the table of this kind is there.
LEMMA OtherKinds ==
  ASSUME UNCHANGED kind
  PROVE  /\ ~ AFunction => FunInv'
         /\ kind # "injective" => InjTables'
         /\ kind # "relation" => RelInv'
         /\ kind # "unary" => UnInv'
BY DEF AFunction, FunInv, InjTables, RelInv, UnInv

LEMMA KindNext ==
  ASSUME CarrierInv, UNCHANGED kind,
         AFunction => FunInv', kind = "injective" => InjTables',
         kind = "relation" => RelInv', kind = "unary" => UnInv'
  PROVE  KindInv'
<1>1. /\ ~ AFunction => FunInv'
      /\ kind # "injective" => InjTables'
      /\ kind # "relation" => RelInv'
      /\ kind # "unary" => UnInv'
  BY OtherKinds
<1> QED
  BY <1>1 DEF KindInv

LEMMA InsertInv ==
  ASSUME SInv, NEW t \in Thread, Insert(t)
  PROVE  SInv'
<1>1. /\ CarrierInv /\ MergeInv /\ ThreadTypes /\ ThreadInv
      /\ FunInv /\ InjTables /\ RelInv /\ UnInv
  BY DEF SInv
<1>2. ThreadTypes' /\ ThreadInv' /\ KindInv' /\ dep = 0 /\ Grows /\ UNCHANGED mergeVars
  <2>1. CASE AFunction
    <3>1. /\ ThreadTypes' /\ ThreadInv' /\ FunInv' /\ dep = 0 /\ Grows /\ UNCHANGED mergeVars
      BY <1>1, <2>1, FunInsert
    <3>2. KindInv'
      BY <1>1, <2>1, <3>1, KindNext DEF Grows, AFunction
    <3> QED
      BY <3>1, <3>2
  <2>2. CASE kind = "injective"
    <3>1. /\ ThreadTypes' /\ ThreadInv' /\ InjTables' /\ dep = 0 /\ Grows /\ UNCHANGED mergeVars
      BY <1>1, <2>2, InjInsert
    <3>2. KindInv'
      BY <1>1, <2>2, <3>1, KindNext DEF Grows, AFunction
    <3> QED
      BY <3>1, <3>2
  <2>3. CASE kind = "relation"
    <3>1. /\ ThreadTypes' /\ ThreadInv' /\ RelInv' /\ dep = 0
          /\ UNCHANGED <<kind, carrierVars, mergeVars>>
      BY <1>1, <2>3, RelInsert
    <3>2. KindInv'
      BY <1>1, <2>3, <3>1, KindNext DEF AFunction
    <3> QED
      BY <3>1, <3>2 DEF Grows, MergeNothing
  <2>4. CASE kind = "unary"
    <3>1. /\ ThreadTypes' /\ ThreadInv' /\ UnInv' /\ dep = 0
          /\ UNCHANGED <<kind, carrierVars, mergeVars>>
      BY <1>1, <2>4, UnInsert
    <3>2. KindInv'
      BY <1>1, <2>4, <3>1, KindNext DEF AFunction
    <3> QED
      BY <3>1, <3>2 DEF Grows, MergeNothing
  <2> QED
    BY <1>1, <2>1, <2>2, <2>3, <2>4 DEF CarrierInv, AFunction
<1>3. UNCHANGED <<dep, rep, pass>>
  BY <1>2 DEF mergeVars
<1>4. CarrierInv'
  BY <1>1, <1>2, <1>3, CarrierGrows
<1>5. MergeInv'
  BY <1>1, <1>2, <1>3, PassStays
<1> QED
  BY <1>2, <1>4, <1>5 DEF SInv, KindInv

LEMMA EqualInv ==
  ASSUME SInv, NEW x \in Live, NEW y \in Live, TaskMerge(x, y) \/ OtherMerge(x, y)
  PROVE  SInv'
<1>1. /\ CarrierInv /\ MergeInv /\ ThreadTypes /\ ThreadInv
      /\ FunInv /\ InjTables /\ RelInv /\ UnInv
  BY DEF SInv
<1>2. /\ CarrierInv' /\ MergeInv' /\ ThreadTypes' /\ ThreadInv' /\ Live' = Live
      /\ UNCHANGED <<kind, tableVars, mergeVars, taskVars, told, loaded>>
  BY <1>1, EqualFrame
<1>3. UNCHANGED <<val, inv, lx, rx, vlr, vLr, vRl, dep, rep, pass, todo>>
  BY <1>2 DEF tableVars, indexVars, mergeVars
<1>4. FunInv' /\ InjTables' /\ RelInv' /\ UnInv'
  BY <1>1, <1>2, <1>3, FunStays, InjStays, RelStays, UnStays
<1> QED
  BY <1>2, <1>4 DEF SInv

LEMMA BeginInv ==
  ASSUME SInv, NEW d \in Ob, BeginMerge(d)
  PROVE  SInv'
<1>1. /\ CarrierInv /\ MergeInv /\ ThreadTypes /\ ThreadInv
      /\ FunInv /\ InjTables /\ RelInv /\ UnInv
  BY DEF SInv
<1>2. CarrierInv' /\ MergeInv' /\ Live' = Live
  BY <1>1, BeginFrame
<1>3. /\ UNCHANGED <<kind, val, inv, lx, rx, vlr, vLr, vRl, rep, todo, taskVars, told, loaded>>
      /\ pass = "none" /\ pass' = "start" /\ Idle /\ dep' # 0
  BY <1>1, TablesAssumption DEF BeginMerge, tableVars, indexVars, askedVars, MergeInv, Ob
<1>4. ThreadTypes' /\ ThreadInv'
  BY <1>1, <1>2, <1>3, ThreadsStay
<1>5. FunInv'
  BY <1>1, <1>2, <1>3, FunStays
<1>6. InjTables' /\ RelInv' /\ UnInv'
  BY <1>1, <1>2, <1>3, InjStays, RelStays, UnStays
<1> QED
  BY <1>2, <1>4, <1>5, <1>6 DEF SInv

LEMMA FindInv ==
  ASSUME SInv, FindRep
  PROVE  SInv'
<1>1. /\ CarrierInv /\ MergeInv /\ ThreadTypes /\ ThreadInv
      /\ FunInv /\ InjTables /\ RelInv /\ UnInv
  BY DEF SInv
<1>2. CarrierInv' /\ MergeInv' /\ Live' = Live
  BY <1>1, FindFrame
<1>3. /\ UNCHANGED <<kind, val, inv, lx, rx, taskVars, told, loaded, dep>>
      /\ pass' = FirstPass
  BY DEF FindRep, tableVars, askedVars
<1>4. pass' # "done" /\ (kind = "injective" => pass' = "keys")
  BY <1>1, <1>3, FirstPassOf
<1>5. ThreadTypes' /\ ThreadInv'
  BY <1>1, <1>2, <1>3, ThreadsStay
<1>6. RelInv' /\ UnInv'
  BY <1>1, <1>2, <1>3, <1>4, RelStays, UnStays
<1>7. kind = "injective" => InjTables'
  BY <1>1, <1>2, <1>3, <1>4, InjStays
<1>8. AFunction => FunInv'
  BY <1>1, FunFind
<1>9. KindInv'
  BY <1>1, <1>3, <1>6, <1>7, <1>8, KindNext
<1> QED
  BY <1>2, <1>5, <1>9 DEF SInv, KindInv

\* One pass of a merge.
LEMMA PassInv ==
  ASSUME SInv,
         \/ MoveRhs \/ FoldRhs \/ MoveDiagonal \/ FindRepAgain \/ MoveLhs \/ FoldLhs \/ MoveVal
         \/ MoveKeys \/ MoveInverse \/ MoveRelation \/ MoveUnary
  PROVE  SInv'
<1>1. /\ CarrierInv /\ MergeInv /\ ThreadTypes /\ ThreadInv
      /\ FunInv /\ InjTables /\ RelInv /\ UnInv
  BY DEF SInv
<1>2. /\ KindInv' /\ CarrierInv' /\ Live' = Live /\ Grows /\ UNCHANGED <<dep, taskVars>> /\ dep # 0
      /\ rep' \in Live /\ rep' # dep /\ root[rep'] = root[dep] /\ PassOf(pass')
  <2>1. CASE AFunction
    <3>1. \/ MoveRhs \/ FoldRhs \/ MoveDiagonal \/ FindRepAgain \/ MoveLhs \/ FoldLhs \/ MoveVal
      BY <1>1, <2>1 DEF AFunction, MergeInv, MoveKeys, MoveInverse, MoveRelation, MoveUnary
    <3>2. /\ FunInv' /\ CarrierInv' /\ Live' = Live /\ Grows
          /\ dep # 0 /\ rep' \in Live /\ rep' # dep /\ root[rep'] = root[dep] /\ PassOf(pass')
          /\ UNCHANGED <<dep, taskVars>>
      BY <1>1, <2>1, <3>1, FunMerge
    <3>3. KindInv'
      BY <1>1, <2>1, <3>2, KindNext DEF AFunction, Grows
    <3> QED
      BY <3>2, <3>3
  <2>2. CASE kind = "injective" /\ FindRepAgain
    <3>1. /\ UNCHANGED <<kind, carrierVars, val, inv, lx, rx, taskVars, dep>>
          /\ pass = "refind" /\ pass' = "inverse" /\ rep' = root[rep]
      BY <2>2 DEF FindRepAgain, tableVars
    <3>2. rep \in Live /\ dep # 0 /\ root[rep] = root[dep]
      BY <1>1, <3>1, RepIsLive
    <3>3. rep' \in Live /\ rep' # dep /\ root[rep'] = root[dep]
      BY <1>1, <3>1, <3>2, RootOfRep DEF Live
    <3>4. Grows /\ Live' = Live /\ CarrierInv'
      BY <1>1, <3>1, CarrierGrows DEF Grows, MergeNothing
    <3>5. InjTables'
      BY <1>1, <3>1, <3>4, InjStays
    <3>6. KindInv' /\ PassOf(pass')
      BY <1>1, <2>2, <3>1, <3>5, KindNext DEF AFunction, PassOf
    <3> QED
      BY <3>1, <3>2, <3>3, <3>4, <3>6
  <2>3. CASE kind = "injective" /\ ~ FindRepAgain
    <3>1. MoveKeys \/ MoveInverse
      BY <1>1, <2>3 DEF MergeInv, MoveRhs, FoldRhs, MoveDiagonal, MoveLhs, FoldLhs, MoveVal,
         MoveRelation, MoveUnary
    <3>2. /\ InjTables' /\ CarrierInv' /\ Live' = Live /\ Grows
          /\ dep # 0 /\ UNCHANGED <<dep, rep, taskVars>> /\ PassOf(pass')
      BY <1>1, <3>1, InjMerge
    <3>3. pass \notin {"none", "start"}
      BY <3>1 DEF MoveKeys, MoveInverse
    <3>4. rep' \in Live /\ rep' # dep /\ root[rep'] = root[dep]
      BY <1>1, <3>2, <3>3, RepIsLive
    <3>5. KindInv'
      BY <1>1, <2>3, <3>2, KindNext DEF AFunction, Grows
    <3> QED
      BY <3>2, <3>4, <3>5
  <2>4. CASE kind \in {"relation", "unary"}
    <3>1. MoveRelation \/ MoveUnary
      BY <1>1, <2>4 DEF MergeInv, MoveRhs, FoldRhs, MoveDiagonal, FindRepAgain, MoveLhs, FoldLhs,
         MoveVal, MoveKeys, MoveInverse
    <3>2. /\ dep # 0 /\ UNCHANGED <<kind, carrierVars, dep, rep, taskVars>> /\ pass' = "done"
          /\ pass \notin {"none", "start"}
          /\ kind = "relation" => RelInv'
          /\ kind = "unary" => UnInv'
      BY <1>1, <3>1, RelMerge, UnMerge DEF MoveRelation, MoveUnary
    <3>3. rep' \in Live /\ rep' # dep /\ root[rep'] = root[dep]
      BY <1>1, <3>2, RepIsLive
    <3>4. Grows /\ Live' = Live /\ CarrierInv'
      BY <1>1, <3>2, CarrierGrows DEF Grows, MergeNothing
    <3>5. KindInv' /\ PassOf(pass')
      BY <1>1, <2>4, <3>2, KindNext DEF AFunction, PassOf
    <3> QED
      BY <3>2, <3>3, <3>4, <3>5
  <2> QED
    BY <1>1, <2>1, <2>2, <2>3, <2>4 DEF CarrierInv, AFunction
<1>3. MergeInv'
  BY <1>1, <1>2, PassGoesOn
<1>4. ThreadTypes' /\ ThreadInv'
  BY <1>1, <1>2, ThreadsStay DEF Grows
<1> QED
  BY <1>2, <1>3, <1>4 DEF SInv, KindInv

LEMMA EndInv ==
  ASSUME SInv, EndMerge
  PROVE  SInv'
<1>1. /\ CarrierInv /\ MergeInv /\ ThreadTypes /\ ThreadInv
      /\ FunInv /\ InjTables /\ RelInv /\ UnInv
  BY DEF SInv
<1>2. CarrierInv' /\ MergeInv' /\ dep # 0
  BY <1>1, EndFrame
<1>3. UNCHANGED <<kind, taskVars>> /\ Idle
  BY <1>1, <1>2 DEF EndMerge, MergeInv
<1>4. ThreadTypes' /\ ThreadInv'
  BY <1>1, <1>3, ThreadsStay
<1>5. KindInv'
  BY <1>1, <1>3, KindNext, FunEnd, InjEnd, RelEnd, UnEnd
<1> QED
  BY <1>2, <1>4, <1>5 DEF SInv, KindInv

-----------------------------------------------------------------------------
(* A table as it is loaded.                                                *)

LEMMA LoadedFacts ==
  ASSUME Init
  PROVE  loaded \subseteq FactsOf(kind)
<1>1. PICK n \in 0 .. Effort - 1 :
        \E s \in [1 .. n -> FactsOf(kind)] : loaded = {s[i] : i \in 1 .. n}
  BY DEF Init
<1>2. PICK s \in [1 .. n -> FactsOf(kind)] : loaded = {s[i] : i \in 1 .. n}
  BY <1>1
<1> QED
  BY <1>2

\* A function has one value to a key.
LEMMA LoadedValues ==
  ASSUME Init, AFunction
  PROVE  /\ \A f \in loaded : f = <<f[1], f[2], f[3]>> /\ f[1] \in Ob /\ f[2] \in Ob /\ f[3] \in Ob
         /\ \A f \in loaded : Key(f[1], f[2]) \in Pair /\ val[Key(f[1], f[2])] = f[3]
         /\ \A p \in Pair : val[p] = 0 \/ \E f \in loaded : Key(f[1], f[2]) = p /\ val[p] = f[3]
<1>1. /\ loaded \subseteq Ob \X Ob \X Ob
      /\ \A f \in loaded : f = <<f[1], f[2], f[3]>> /\ f[1] \in Ob /\ f[2] \in Ob /\ f[3] \in Ob
  <2>1. FactsOf(kind) = Ob \X Ob \X Ob
    BY DEF AFunction, FactsOf
  <2> QED
    BY <2>1, LoadedFacts
<1>2. LoadedFunction(loaded)
  BY DEF Init, AFunction
<1>5. \A p \in Pair : val[p] = IF \E f \in loaded : Key(f[1], f[2]) = p
                               THEN (CHOOSE f \in loaded : Key(f[1], f[2]) = p)[3] ELSE 0
  BY <1>2 DEF LoadedFunction
<1>6. \A f \in loaded : Key(f[1], f[2]) \in Pair /\ val[Key(f[1], f[2])] = f[3]
  <2> SUFFICES ASSUME NEW f \in loaded
               PROVE  Key(f[1], f[2]) \in Pair /\ val[Key(f[1], f[2])] = f[3]
    OBVIOUS
  <2>1. Key(f[1], f[2]) \in Pair
    BY <1>1, KeyPair
  <2>2. PICK g : g = CHOOSE h \in loaded : Key(h[1], h[2]) = Key(f[1], f[2])
    OBVIOUS
  <2>3. g \in loaded /\ Key(g[1], g[2]) = Key(f[1], f[2])
    BY <2>2
  <2>4. g = f
    BY <1>2, <2>3 DEF LoadedFunction
  <2>5. val[Key(f[1], f[2])] = g[3]
    BY <1>5, <2>1, <2>2
  <2> QED
    BY <2>1, <2>4, <2>5
<1>7. \A p \in Pair : val[p] = 0 \/ \E f \in loaded : Key(f[1], f[2]) = p /\ val[p] = f[3]
  <2> SUFFICES ASSUME NEW p \in Pair, val[p] # 0
               PROVE  \E f \in loaded : Key(f[1], f[2]) = p /\ val[p] = f[3]
    OBVIOUS
  <2>1. PICK f \in loaded : Key(f[1], f[2]) = p
    BY <1>5
  <2> QED
    BY <1>6, <2>1
<1> QED
  BY <1>1, <1>6, <1>7

LEMMA FunLoaded ==
  ASSUME Init, AFunction
  PROVE  FunInv
<1>1. /\ loaded \subseteq Ob \X Ob \X Ob
      /\ \A f \in loaded : f = <<f[1], f[2], f[3]>> /\ f[1] \in Ob /\ f[2] \in Ob /\ f[3] \in Ob
  <2>1. FactsOf(kind) = Ob \X Ob \X Ob
    BY DEF AFunction, FactsOf
  <2> QED
    BY <2>1, LoadedFacts
<1>2. LoadedFunction(loaded)
  BY DEF Init, AFunction
<1>3. /\ root = [x \in Ob |-> x] /\ dep = 0 /\ pass = "none" /\ todo = {} /\ told = {}
      /\ \A t \in Thread : pc[t] = "idle"
  BY DEF Init
<1>4. Live = Ob /\ 0 \notin Ob /\ Ob \subseteq Rep /\ 0 \in Rep
  BY <1>3, TablesAssumption DEF Live, Ob, Rep
<1>6. \A f \in loaded : Key(f[1], f[2]) \in Pair /\ val[Key(f[1], f[2])] = f[3]
  BY LoadedValues
<1>7. \A p \in Pair : val[p] = 0 \/ \E f \in loaded : Key(f[1], f[2]) = p /\ val[p] = f[3]
  BY LoadedValues
<1>8. val \in [Pair -> Rep]
  <2>1. \A p \in Pair : val[p] \in Rep
    BY <1>1, <1>4, <1>7
  <2>2. val = [p \in Pair |-> val[p]]
    BY <1>2 DEF LoadedFunction
  <2> QED
    BY <2>1, <2>2
<1>9. ASSUME NEW l \in Ob, NEW r \in Ob
      PROVE  At(l, r) # 0 <=> \E f \in loaded : Key(l, r) = Key(f[1], f[2])
  <2>1. Key(l, r) \in Pair
    BY KeyPair
  <2> QED
    BY <1>1, <1>4, <1>6, <1>7, <2>1 DEF At
<1>10. ASSUME NEW l \in Ob, NEW r \in Ob
       PROVE  (\E f \in loaded : <<l, r>> \in BothWays(f[1], f[2])) <=> At(l, r) # 0
  <2>1. \A f \in loaded : <<l, r>> \in BothWays(f[1], f[2]) <=> Key(l, r) = Key(f[1], f[2])
    BY <1>1, KeyCovers
  <2> QED
    BY <1>9, <2>1
<1>11. lx = UNION {BothWays(f[1], f[2]) : f \in loaded} /\ rx = IF kind = "symmetric" THEN {} ELSE lx
  BY <1>2 DEF LoadedFunction
<1>12. \A l, r \in Ob : <<l, r>> \in lx <=> At(l, r) # 0
  BY <1>10, <1>11
<1>13. vlr = UNION {Entries(f[1], f[2], f[3]) : f \in loaded}
  BY <1>2 DEF LoadedFunction
<1>14. ASSUME NEW l \in Ob, NEW r \in Ob, NEW v \in Ob
       PROVE  <<l, r, v>> \in vlr <=> At(l, r) = v
  <2>1. \A f \in loaded : <<l, r, v>> \in Entries(f[1], f[2], f[3])
                            <=> Key(l, r) = Key(f[1], f[2]) /\ v = f[3]
    BY <1>1, EntryCovers
  <2>2. <<l, r, v>> \in vlr <=> \E f \in loaded : Key(l, r) = Key(f[1], f[2]) /\ v = f[3]
    BY <1>13, <2>1
  <2>3. Key(l, r) \in Pair
    BY KeyPair
  <2> QED
    BY <1>4, <1>6, <1>7, <2>2, <2>3 DEF At
<1>15. FunTypes
  <2>1. lx \subseteq Pair
    <3>1. \A f \in loaded : BothWays(f[1], f[2]) \subseteq Pair
      BY <1>1, EntryCovers
    <3> QED
      BY <1>11, <3>1
  <2>2. vlr \subseteq Ob \X Ob \X Ob
    <3>1. \A f \in loaded : Entries(f[1], f[2], f[3]) \subseteq Ob \X Ob \X Ob
      BY <1>1, EntryCovers
    <3> QED
      BY <1>13, <3>1
  <2>3. vLr = vlr /\ vRl = IF kind = "symmetric" THEN {} ELSE vlr
    BY <1>2 DEF LoadedFunction
  <2>4. rx \subseteq Pair /\ (kind = "symmetric" => rx = {})
    BY <1>11, <2>1
  <2> QED
    BY <1>3, <1>8, <2>1, <2>2, <2>3, <2>4 DEF FunTypes
<1>16. FunLive
  <2> SUFFICES ASSUME NEW p \in Pair, val[p] # 0
               PROVE  {p[1], p[2], val[p]} \subseteq Live /\ Key(p[1], p[2]) = p
    BY DEF FunLive
  <2>1. PICK f \in loaded : Key(f[1], f[2]) = p /\ val[p] = f[3]
    BY <1>7
  <2>2. Key(p[1], p[2]) = p
    BY <1>1, <2>1, KeyPair
  <2> QED
    BY <1>1, <1>4, <2>1, <2>2 DEF Pair
<1>17. FunIndexed
  BY <1>14 DEF FunIndexed
<1>18. FunLinesL
  BY <1>3, <1>12 DEF FunLinesL
<1>19. FunLinesR
  BY <1>3, <1>11, <1>12 DEF FunLinesR
<1>20. FunTodo /\ FunCleared /\ FunTold /\ \A t \in Thread : FunThread(t)
  BY <1>3 DEF FunTodo, FunCleared, FunTold, FunThread
<1> QED
  BY <1>15, <1>16, <1>17, <1>18, <1>19, <1>20 DEF FunInv

LEMMA InjLoaded ==
  ASSUME Init, kind = "injective"
  PROVE  InjTables
<1>1. /\ loaded \subseteq Ob \X Ob
      /\ \A f \in loaded : f = <<f[1], f[2]>> /\ f[1] \in Ob /\ f[2] \in Ob
  <2>1. FactsOf(kind) = Ob \X Ob
    BY DEF FactsOf
  <2> QED
    BY <2>1, LoadedFacts
<1>2. LoadedInjective(loaded)
  BY DEF Init
<1>3. /\ root = [x \in Ob |-> x] /\ dep = 0 /\ pass = "none"
      /\ \A t \in Thread : pc[t] = "idle"
  BY DEF Init
<1>4. Live = Ob /\ 0 \notin Ob /\ Ob \subseteq Rep /\ 0 \in Rep
  BY <1>3, TablesAssumption DEF Live, Ob, Rep
<1>5. /\ \A k \in Ob : IF k \in lx THEN val[k] \in Ob ELSE val[k] = 0
      /\ val = [k \in Ob |-> val[k]] /\ lx \subseteq Ob
  <2>1. val = [k \in Ob |-> IF \E v \in Ob : <<k, v>> \in loaded
                            THEN CHOOSE v \in Ob : <<k, v>> \in loaded ELSE 0]
        /\ lx = {f[1] : f \in loaded}
    BY <1>2 DEF LoadedInjective
  <2>2. \A k \in Ob : k \in lx <=> \E v \in Ob : <<k, v>> \in loaded
    BY <1>1, <2>1
  <2> QED
    BY <1>1, <2>1, <2>2
<1>6. /\ \A v \in Ob : IF v \in rx THEN inv[v] \in Ob ELSE inv[v] = 0
      /\ inv = [v \in Ob |-> inv[v]] /\ rx \subseteq Ob
  <2>1. inv = [v \in Ob |-> IF \E k \in Ob : <<k, v>> \in loaded
                            THEN CHOOSE k \in Ob : <<k, v>> \in loaded ELSE 0]
        /\ rx = {f[2] : f \in loaded}
    BY <1>2 DEF LoadedInjective
  <2>2. \A v \in Ob : v \in rx <=> \E k \in Ob : <<k, v>> \in loaded
    BY <1>1, <2>1
  <2> QED
    BY <1>1, <2>1, <2>2
<1>7. InjTypes
  <2>1. val \in [Ob -> Rep] /\ inv \in [Ob -> Rep]
    BY <1>4, <1>5, <1>6
  <2> QED
    BY <1>4, <1>5, <1>6, <2>1 DEF InjTypes
<1>8. InjThread
  BY <1>3, <1>5, <1>6 DEF InjThread
<1> QED
  BY <1>3, <1>7, <1>8 DEF InjTables

LEMMA RelationLoaded ==
  ASSUME Init
  PROVE  RelInv /\ UnInv
<1>1. root = [x \in Ob |-> x] /\ pass = "none" /\ \A t \in Thread : pc[t] = "idle"
  BY DEF Init
<1>2. Live = Ob
  BY <1>1, TablesAssumption DEF Live, Ob
<1>3. CASE kind = "relation"
  <2>1. LoadedRelation(loaded) /\ loaded \subseteq Ob \X Ob
    BY <1>3, LoadedFacts DEF Init, FactsOf
  <2>2. RelTypes /\ RelRight /\ RelLeft /\ RelTold /\ lx = rx
    BY <1>2, <1>3, <2>1 DEF LoadedRelation, RelTypes, RelRight, RelLeft, RelTold
  <2>3. \A t \in Thread : RelThread(t)
    BY <1>1 DEF RelThread
  <2> QED
    BY <1>1, <1>3, <2>2, <2>3 DEF RelInv, UnInv
<1>4. CASE kind = "unary"
  <2>1. LoadedRelation(loaded) /\ loaded \subseteq Ob
    BY <1>4, LoadedFacts DEF Init, FactsOf
  <2> QED
    BY <1>1, <1>2, <1>4, <2>1 DEF LoadedRelation, RelInv, UnInv
<1> QED
  BY <1>3, <1>4 DEF RelInv, UnInv

LEMMA InitInv ==
  ASSUME Init
  PROVE  SInv
<1>1. /\ root = [x \in Ob |-> x] /\ due = {} /\ dep = 0 /\ pass = "none" /\ kind \in Kinds
      /\ pc = [t \in Thread |-> "idle"] /\ arg = [t \in Thread |-> <<>>]
      /\ new = [t \in Thread |-> {}]
  BY DEF Init
<1>2. CarrierInv
  BY <1>1, TablesAssumption DEF CarrierInv, Ob, Rep
<1>3. MergeInv /\ ThreadTypes /\ ThreadInv
  BY <1>1 DEF MergeInv, ThreadTypes, ThreadInv, Placed
<1>4. FunInv
  BY FunLoaded DEF FunInv, AFunction
<1>5. InjTables
  BY InjLoaded DEF InjTables
<1> QED
  BY <1>2, <1>3, <1>4, <1>5, RelationLoaded DEF SInv

-----------------------------------------------------------------------------
(* The theorems.                                                           *)

LEMMA StutterInv ==
  ASSUME SInv, UNCHANGED vars
  PROVE  SInv'
<1>1. /\ CarrierInv /\ MergeInv /\ ThreadTypes /\ ThreadInv
      /\ FunInv /\ InjTables /\ RelInv /\ UnInv
  BY DEF SInv
<1>2. /\ UNCHANGED <<kind, root, due, val, inv, lx, rx, vlr, vLr, vRl, dep, rep, pass, todo,
                    pc, taskVars, told, loaded>>
      /\ Live' = Live
  BY DEF vars, carrierVars, tableVars, indexVars, mergeVars, taskVars, askedVars, Live
<1>3. CarrierInv' /\ MergeInv'
  BY <1>1, <1>2 DEF CarrierInv, MergeInv, Idle
<1>4. ThreadTypes' /\ ThreadInv'
  BY <1>1, <1>2, ThreadsStay
<1>5. FunInv' /\ InjTables' /\ RelInv' /\ UnInv'
  BY <1>1, <1>2, FunStays, InjStays, RelStays, UnStays
<1> QED
  BY <1>3, <1>4, <1>5 DEF SInv

LEMMA StepInv ==
  ASSUME SInv, [Next]_vars
  PROVE  SInv'
<1>1. CASE Next
  <2>1. CASE \E t \in Thread : Insert(t)
    BY <2>1, InsertInv
  <2>2. CASE \E x, y \in Live : TaskMerge(x, y) \/ OtherMerge(x, y)
    BY <2>2, EqualInv
  <2>3. CASE \E d \in Ob : BeginMerge(d)
    BY <2>3, BeginInv
  <2>4. CASE MergePass
    BY <2>4, FindInv, PassInv, EndInv DEF MergePass
  <2> QED
    BY <1>1, <2>1, <2>2, <2>3, <2>4 DEF Next
<1>2. CASE UNCHANGED vars
  BY <1>2, StutterInv
<1> QED
  BY <1>1, <1>2

\* Every table, of every kind, says what it should about every insertion and
\* every merge that is under way.
THEOREM TablesInvariant == Spec => []SInv
<1>1. Init => SInv
  BY InitInv
<1>2. SInv /\ [Next]_vars => SInv'
  BY StepInv
<1> QED
  BY <1>1, <1>2, PTL DEF Spec

LEMMA NoMerge ==
  ASSUME SInv, dep = 0
  PROVE  pass = "none" /\ Live \ {dep} = Live /\ 0 \notin Ob /\ Live \subseteq Ob
BY TablesAssumption DEF SInv, MergeInv, Live, Ob

\* The inverse tables are behind the lines while tasks run: a MergeTask leaves
\* them in step, and insert() writes them after the lines.
IndexedIn(l, r) == <<l, r>> \in lx /\ (kind = "binary" => <<l, r>> \in rx)

FunBehind ==
  AFunction /\ dep = 0 => \A l, r, v \in Ob : <<l, r, v>> \in vlr => IndexedIn(l, r)

\* With no insertion under way and no pass running nothing is missing.
LEMMA BehindWhenIdle ==
  ASSUME SInv, Idle, AFunction, pass \in {"none", "done"}, NEW l \in Ob, NEW r \in Ob, NEW v \in Ob,
         <<l, r, v>> \in vlr
  PROVE  IndexedIn(l, r)
<1>1. FunInv /\ 0 \notin Ob
  BY TablesAssumption DEF SInv, Ob
<1>2. At(l, r) # 0
  BY <1>1, FunWhenIdle
<1> QED
  BY <1>1, <1>2, FunWhenIdle DEF IndexedIn

\* Where the lines only grow and the inverse tables stay, these stay behind.
LEMMA BehindGrows ==
  ASSUME FunBehind, UNCHANGED <<kind, dep, vlr>>, lx \subseteq lx', rx \subseteq rx'
  PROVE  FunBehind'
BY DEF FunBehind, IndexedIn, AFunction

\* A step of an insertion: only FunIndex writes an inverse table, and the lines
\* have its pair by then.
LEMMA BehindInsert ==
  ASSUME SInv, FunBehind, NEW t \in Thread, Insert(t)
  PROVE  FunBehind'
<1>1. CASE FunIndex(t)
  <2>1. /\ pc[t] = "fun_index" /\ UNCHANGED <<kind, dep, lx, rx>>
        /\ vlr' = vlr \cup Entries(arg[t][1], arg[t][2], arg[t][3])
    BY <1>1 DEF FunIndex, Reindex, mergeVars
  <2> SUFFICES ASSUME AFunction, dep = 0, NEW l \in Ob, NEW r \in Ob, NEW v \in Ob,
                      <<l, r, v>> \in vlr'
               PROVE  IndexedIn(l, r)
    BY <2>1 DEF FunBehind, IndexedIn, AFunction
  <2>2. CASE <<l, r, v>> \in vlr
    BY <2>2 DEF FunBehind
  <2>3. CASE <<l, r, v>> \in Entries(arg[t][1], arg[t][2], arg[t][3])
    <3>1. PICK a, b : a = arg[t][1] /\ b = arg[t][2]
      OBVIOUS
    <3>2. FunThread(t)
      BY DEF SInv, FunInv
    <3>3. BothWays(a, b) \subseteq lx /\ (kind = "binary" => <<a, b>> \in rx)
      BY <2>1, <3>1, <3>2 DEF FunThread
    <3>4. <<l, r>> \in BothWays(a, b)
      BY <2>3, <3>1 DEF Entries, BothWays
    <3>5. kind = "binary" => <<l, r>> = <<a, b>>
      BY <3>4 DEF BothWays
    <3> QED
      BY <3>3, <3>4, <3>5 DEF IndexedIn
  <2> QED
    BY <2>1, <2>2, <2>3
<1>2. CASE ~FunIndex(t)
  <2>1. UNCHANGED <<kind, dep, vlr>> /\ lx \subseteq lx' /\ rx \subseteq rx'
    BY <1>2 DEF Insert, StartInsert, Start, FunSet, FunLines, FunTell, InjSet, InjTell, InjInv,
       InjInvSet, RelFirst, RelSecond, RelTell, LineLoad, LineOr, LineTell, UnSet, tableVars,
       indexVars, mergeVars
  <2> QED
    BY <2>1, BehindGrows
<1> QED
  BY <1>1, <1>2

\* A merge ends with the lines and the inverse tables in step.
LEMMA BehindStep ==
  ASSUME SInv, FunBehind, [Next]_vars
  PROVE  FunBehind'
<1>1. CASE \E t \in Thread : Insert(t)
  BY <1>1, BehindInsert
<1>2. CASE (\E x, y \in Live : TaskMerge(x, y) \/ OtherMerge(x, y)) \/ UNCHANGED vars
  <2>1. UNCHANGED <<kind, dep, vlr, lx, rx>>
    BY <1>2 DEF TaskMerge, OtherMerge, Equal, vars, tableVars, indexVars, mergeVars
  <2> QED
    BY <2>1, BehindGrows
<1>3. CASE EndMerge
  <2>1. pass = "done" /\ UNCHANGED <<kind, vlr, lx, rx>>
    BY <1>3 DEF EndMerge, tableVars, indexVars
  <2>2. Idle
    BY <2>1 DEF SInv, MergeInv
  <2>3. AFunction => \A l, r, v \in Ob : <<l, r, v>> \in vlr => IndexedIn(l, r)
    BY <2>1, <2>2, BehindWhenIdle
  <2> QED
    BY <2>1, <2>3 DEF FunBehind, IndexedIn, AFunction
<1>4. CASE (\E d \in Ob : BeginMerge(d)) \/ (MergePass /\ ~EndMerge)
  <2>1. dep' # 0
    <3>1. CASE \E d \in Ob : BeginMerge(d)
      BY <3>1, TablesAssumption DEF BeginMerge, Ob
    <3>2. CASE MergePass /\ ~EndMerge
      <4>1. pass # "none" /\ dep' = dep
        BY <3>2 DEF MergePass, FindRep, MoveRhs, FoldRhs, MoveDiagonal, FindRepAgain, MoveLhs,
           FoldLhs, MoveVal, MoveKeys, MoveInverse, MoveRelation, MoveUnary
      <4> QED
        BY <4>1 DEF SInv, MergeInv
    <3> QED
      BY <1>4, <3>1, <3>2
  <2> QED
    BY <2>1 DEF FunBehind
<1> QED
  BY <1>1, <1>2, <1>3, <1>4 DEF Next

\* A reader that finds a pair in the bit lines of a function finds its value, a
\* fact in an inverse table is in the lines already, and what a task was told of
\* is in both: insert() writes the value first, then the lines, then the inverse
\* tables, and calls back last.
THEOREM LinesNeverLead == Spec => []LinesLag
<1>1. Init => FunBehind
  <2> SUFFICES ASSUME Init PROVE FunBehind
    OBVIOUS
  <2>1. SInv /\ Idle /\ pass = "none"
    BY InitInv DEF Init, Idle
  <2> QED
    BY <2>1, BehindWhenIdle DEF FunBehind
<1>2. SInv /\ FunBehind /\ [Next]_vars => FunBehind'
  BY BehindStep
<1>3. SInv /\ FunBehind => LinesLag
  <2> SUFFICES ASSUME SInv, FunBehind, AFunction, dep = 0 PROVE LinesLag
    BY DEF LinesLag, AFunction
  <2>1. FunTypes /\ FunIndexed /\ FunLinesL /\ FunLinesR /\ FunTold
    BY DEF SInv, FunInv
  <2>2. pass = "none" /\ Live \ {dep} = Live
    BY NoMerge
  <2>3. \A p \in lx \cup rx : val[Key(p[1], p[2])] # 0
    <3>1. ASSUME NEW p \in lx \cup rx PROVE At(p[1], p[2]) # 0
      <4>1. PICK l \in Ob, r \in Ob : p = <<l, r>>
        BY <2>1 DEF FunTypes, Pair
      <4>2. p \in rx => kind = "binary"
        BY <2>1 DEF FunTypes, AFunction
      <4> QED
        BY <2>1, <2>2, <4>1, <4>2 DEF FunLinesL, FunLinesR
    <3> QED
      BY <3>1 DEF At
  <2>4. \A e \in vlr \cup vLr \cup vRl :
          /\ <<e[1], e[2]>> \in lx /\ (kind = "binary" => <<e[1], e[2]>> \in rx)
          /\ val[Key(e[1], e[2])] = e[3]
    <3> SUFFICES ASSUME NEW e \in vlr \cup vLr \cup vRl
                 PROVE  /\ <<e[1], e[2]>> \in lx /\ (kind = "binary" => <<e[1], e[2]>> \in rx)
                        /\ At(e[1], e[2]) = e[3]
      BY DEF At
    <3>1. e \in vlr /\ e \in Ob \X Ob \X Ob
      BY <2>1 DEF FunTypes
    <3>2. PICK l \in Ob, r \in Ob, v \in Ob : e = <<l, r, v>>
      BY <3>1
    <3> QED
      BY <2>1, <3>1, <3>2 DEF FunBehind, IndexedIn, FunIndexed
  <2>5. \A p \in told : {p[1], p[2]} \subseteq Live =>
          /\ p \in lx
          /\ <<p[1], p[2], val[Key(p[1], p[2])]>> \in vlr \cap vLr
    BY <2>1, <2>2 DEF FunTold, FunTypes, At
  <2> QED
    BY <2>3, <2>4, <2>5 DEF LinesLag
<1> QED
  BY <1>1, <1>2, <1>3, TablesInvariant, PTL DEF Spec

\* Whatever a relation holds between tasks was loaded or told under the names it
\* is stored with, by the thread that found the bit clear or by the merge.
THEOREM RelationsAlwaysTold == Spec => []RelationsTold
<1>1. SInv => RelationsTold
  <2> SUFFICES ASSUME SInv, Quiet, kind \in {"relation", "unary"} PROVE RelationsTold
    BY DEF RelationsTold
  <2>1. CASE kind = "relation"
    BY <2>1, RelAgrees DEF SInv, Quiet, RelationsTold
  <2>2. CASE kind = "unary"
    BY <2>2 DEF SInv, UnInv, RelationsTold
  <2> QED
    BY <2>1, <2>2
<1> QED
  BY <1>1, TablesInvariant, PTL

\* What validate() checks of a function.
LEMMA FunctionValid ==
  ASSUME SInv, AFunction
  PROVE  TableValid
<1>0. 0 \notin Ob /\ Live \subseteq Ob
  BY TablesAssumption DEF Live, Ob
<1>1. vLr = vlr /\ vRl = (IF kind = "symmetric" THEN {} ELSE vlr) /\ lx \subseteq Pair
      /\ rx \subseteq Pair /\ vlr \subseteq Ob \X Ob \X Ob /\ val \in [Pair -> Rep]
  BY DEF SInv, FunInv, FunTypes
<1>2. SUFFICES ASSUME Quiet PROVE TableValid
  BY <1>1 DEF TableValid
<1>3. /\ \A l, r, v \in Ob : <<l, r, v>> \in vlr <=> At(l, r) = v
      /\ \A l, r \in Ob : <<l, r>> \in lx <=> At(l, r) # 0
      /\ kind = "binary" => \A l, r \in Ob : <<l, r>> \in rx <=> At(l, r) # 0
  <2>1. pass = "none" /\ Idle
    BY <1>2, NoMerge DEF Quiet
  <2> QED
    BY <2>1, FunWhenIdle DEF SInv
<1>4. \A p \in Pair : val[p] # 0 =>
        {p[1], p[2], val[p]} \subseteq Live /\ Key(p[1], p[2]) = p
  BY DEF SInv, FunInv, FunLive
<1>5. \A e \in vlr : {e[1], e[2], e[3]} \subseteq Live
  <2> SUFFICES ASSUME NEW l \in Ob, NEW r \in Ob, NEW v \in Ob, <<l, r, v>> \in vlr
               PROVE  {l, r, v} \subseteq Live
    BY <1>1
  <2>1. At(l, r) = v /\ Key(l, r) \in Pair
    BY <1>3, KeyPair
  <2>2. {Key(l, r)[1], Key(l, r)[2], v} \subseteq Live
    BY <1>0, <1>4, <2>1 DEF At
  <2>3. {Key(l, r)[1], Key(l, r)[2]} = {l, r}
    BY DEF Key
  <2> QED
    BY <2>2, <2>3
<1>6. ASSUME NEW l \in Ob, NEW r \in Ob
      PROVE  <<l, r>> \in UNION {BothWays(p[1], p[2]) : p \in Defined} <=> At(l, r) # 0
  <2>1. ASSUME NEW p \in Defined, <<l, r>> \in BothWays(p[1], p[2]) PROVE At(l, r) # 0
    <3>1. p \in Pair /\ val[p] # 0 /\ p[1] \in Ob /\ p[2] \in Ob
      BY DEF Defined, Pair
    <3>2. Key(l, r) = p
      BY <1>4, <2>1, <3>1, KeyCovers
    <3> QED
      BY <3>1, <3>2 DEF At
  <2>2. ASSUME At(l, r) # 0 PROVE \E p \in Defined : <<l, r>> \in BothWays(p[1], p[2])
    <3>1. PICK p \in Pair : p = Key(l, r)
      BY KeyPair
    <3>2. p \in Defined /\ Key(p[1], p[2]) = p /\ p[1] \in Ob /\ p[2] \in Ob
      BY <1>4, <2>2, <3>1 DEF Defined, At, Pair
    <3>3. <<l, r>> \in BothWays(p[1], p[2])
      BY <3>1, <3>2, KeyCovers
    <3> QED
      BY <3>2, <3>3
  <2> QED
    BY <2>1, <2>2
<1>7. ASSUME NEW l \in Ob, NEW r \in Ob, NEW v \in Ob
      PROVE  <<l, r, v>> \in UNION {Entries(p[1], p[2], val[p]) : p \in Defined} <=> At(l, r) = v
  <2>1. ASSUME NEW p \in Defined, <<l, r, v>> \in Entries(p[1], p[2], val[p]) PROVE At(l, r) = v
    <3>1. p \in Pair /\ val[p] # 0 /\ p[1] \in Ob /\ p[2] \in Ob
      BY DEF Defined, Pair
    <3>2. Key(l, r) = p /\ v = val[p]
      BY <1>4, <2>1, <3>1, EntryCovers
    <3> QED
      BY <3>2 DEF At
  <2>2. ASSUME At(l, r) = v PROVE \E p \in Defined : <<l, r, v>> \in Entries(p[1], p[2], val[p])
    <3>1. PICK p \in Pair : p = Key(l, r)
      BY KeyPair
    <3>2. /\ p \in Defined /\ Key(p[1], p[2]) = p /\ p[1] \in Ob /\ p[2] \in Ob /\ val[p] = v
      BY <1>0, <1>4, <2>2, <3>1 DEF Defined, At, Pair
    <3>3. <<l, r, v>> \in Entries(p[1], p[2], val[p])
      BY <3>1, <3>2, EntryCovers
    <3> QED
      BY <3>2, <3>3
  <2> QED
    BY <2>1, <2>2
<1>8. UNION {BothWays(p[1], p[2]) : p \in Defined} \subseteq Pair
  <2>1. \A p \in Defined : BothWays(p[1], p[2]) \subseteq Pair
    BY EntryCovers DEF Defined, Pair
  <2> QED
    BY <2>1
<1>9. lx = UNION {BothWays(p[1], p[2]) : p \in Defined}
  BY <1>1, <1>3, <1>6, <1>8 DEF Pair
<1>10. vlr = UNION {Entries(p[1], p[2], val[p]) : p \in Defined}
  <2>1. \A p \in Defined : Entries(p[1], p[2], val[p]) \subseteq Ob \X Ob \X Ob
    <3> SUFFICES ASSUME NEW p \in Defined PROVE Entries(p[1], p[2], val[p]) \subseteq Ob \X Ob \X Ob
      OBVIOUS
    <3>1. p[1] \in Ob /\ p[2] \in Ob /\ val[p] \in Ob
      BY <1>0, <1>4 DEF Defined, Pair
    <3> QED
      BY <3>1, EntryCovers
  <2>2. UNION {Entries(p[1], p[2], val[p]) : p \in Defined} \subseteq Ob \X Ob \X Ob
    BY <2>1
  <2> QED
    BY <1>1, <1>3, <1>7, <2>2
<1>11. CASE kind = "symmetric"
  BY <1>1, <1>5, <1>9, <1>10, <1>11 DEF TableValid
<1>12. CASE kind = "binary"
  <2>1. \A p \in Defined : BothWays(p[1], p[2]) = {p} /\ Entries(p[1], p[2], val[p]) = {<<p[1], p[2], val[p]>>}
    BY <1>12 DEF Defined, Pair, BothWays, Entries
  <2>2. lx = Defined
    BY <1>9, <2>1
  <2>3. vlr = {<<p[1], p[2], val[p]>> : p \in Defined}
    BY <1>10, <2>1
  <2>4. rx = lx
    <3>1. \A l, r \in Ob : <<l, r>> \in rx <=> <<l, r>> \in lx
      BY <1>3, <1>12
    <3>2. \A p \in Pair : p \in rx <=> p \in lx
      BY <3>1 DEF Pair
    <3> QED
      BY <1>1, <3>2
  <2> QED
    BY <1>1, <1>5, <1>12, <2>2, <2>3, <2>4 DEF TableValid
<1> QED
  BY <1>11, <1>12 DEF AFunction

\* Only functions have inverse tables.
Unindexed == ~ AFunction => vlr = {} /\ vLr = {} /\ vRl = {}

LEMMA UnindexedStep ==
  ASSUME SInv, Unindexed, [Next]_vars
  PROVE  Unindexed'
<1>1. kind' = kind
  BY ZenonT(60) DEF Next, Insert, MergePass, StartInsert, Start, FunSet, FunLines, FunIndex, FunTell, InjSet,
     InjTell, InjInv, InjInvSet, RelFirst, RelSecond, RelTell, LineLoad, LineOr, LineTell, UnSet,
     TaskMerge, OtherMerge, Equal, BeginMerge, FindRep, MoveRhs, FoldRhs, MoveDiagonal, FindRepAgain,
     MoveLhs, FoldLhs, MoveVal, MoveKeys, MoveInverse, MoveRelation, MoveUnary, EndMerge, vars
<1>2. SUFFICES ASSUME ~ AFunction PROVE UNCHANGED indexVars
  BY <1>1 DEF Unindexed, AFunction, indexVars
<1>3. ASSUME NEW t \in Thread, Insert(t) PROVE UNCHANGED indexVars
  <2>1. pc[t] \notin FunLabel
    BY <1>2 DEF SInv, ThreadInv, Placed, FunLabel, InjLabel, PairLabel, LineLabel
  <2> QED
    BY <1>3, <2>1 DEF Insert, FunLabel, StartInsert, Start, FunSet, FunLines, FunIndex, FunTell,
       InjSet, InjTell, InjInv, InjInvSet, RelFirst, RelSecond, RelTell, LineLoad, LineOr, LineTell,
       UnSet, tableVars
<1>4. ASSUME MergePass PROVE UNCHANGED indexVars
  BY <1>2, <1>4 DEF MergePass, SInv, MergeInv, AFunction, FindRep, MoveRhs, FoldRhs, MoveDiagonal,
     FindRepAgain, MoveLhs, FoldLhs, MoveVal, MoveKeys, MoveInverse, MoveRelation, MoveUnary,
     EndMerge, tableVars
<1> QED
  BY <1>3, <1>4 DEF Next, TaskMerge, OtherMerge, Equal, BeginMerge, tableVars, vars

LEMMA UnindexedInit ==
  ASSUME Init
  PROVE  Unindexed
<1>1. CASE kind = "injective"
  BY <1>1 DEF Init, LoadedInjective, Unindexed
<1>2. CASE kind \in {"relation", "unary"}
  BY <1>2 DEF Init, LoadedRelation, Unindexed
<1> QED
  BY <1>1, <1>2, TablesAssumption DEF Init, Unindexed, AFunction

\* What validate() checks of a relation.
LEMMA RelationValid ==
  ASSUME SInv, Unindexed, kind \in {"relation", "unary"}
  PROVE  TableValid
<1>0. vLr = vlr /\ vRl = IF kind = "symmetric" THEN {} ELSE vlr
  BY DEF Unindexed, AFunction
<1>1. CASE kind = "relation"
  <2>1. Quiet => lx = rx /\ lx \subseteq Live \X Live
    BY <1>1, RelAgrees DEF SInv, Quiet
  <2> QED
    BY <1>0, <1>1, <2>1 DEF TableValid
<1>2. CASE kind = "unary"
  <2>1. lx \subseteq Live
    BY <1>2 DEF SInv, UnInv
  <2> QED
    BY <1>0, <1>2, <2>1 DEF TableValid
<1> QED
  BY <1>1, <1>2
=============================================================================
