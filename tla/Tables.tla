------------------------------- MODULE Tables -------------------------------
(***************************************************************************)
(* The functions and relations of the surveyor's structure (in             *)
(* atlas/micro, binary_function to unary_relation, with their inverse      *)
(* tables): tasks insert facts concurrently, and a MergeTask moves the     *)
(* entries of a merged ob (the dep) to its representative in several       *)
(* passes, merging the values that collide.                                *)
(*                                                                         *)
(* Tables share nothing but the carrier, so a behaviour has one table, of  *)
(* one kind; what the threads that merge other tables do meanwhile is      *)
(* OtherMerge.  The carrier is used by what it promises (Partition): find, *)
(* merge and the set operations are atomic steps here.                     *)
(***************************************************************************)
EXTENDS Integers, FiniteSets, FiniteSetsExt

CONSTANTS
  ItemDim,   \* the number of obs
  Kinds,     \* which kinds of table
  Thread,    \* the threads that execute tasks
  Effort     \* bounds the facts loaded and the requests made by tasks

ASSUME TablesAssumption ==
  /\ ItemDim \in Nat \ {0}
  /\ Kinds \subseteq {"binary", "symmetric", "injective", "relation", "unary"}
  /\ Effort \in Nat

Ob   == 1 .. ItemDim
Rep  == 0 .. ItemDim
Pair == Ob \X Ob

VARIABLES
  kind,    \* the kind of the table
  root,    \* the carrier: the representative of each ob, 0 once removed
  due,     \* the MergeTasks that are queued
  val,     \* m_tiles or m_values: the source of truth, 0 where undefined
  inv,     \* m_inverse of an injective function
  lx, rx,  \* the bit lines; the two sets of an injective function; the set
           \* of a unary relation
  vlr, vLr, vRl,  \* the inverse tables: entries <<lhs, rhs, val>>
  dep,     \* the ob being merged, 0 if no MergeTask runs
  rep,     \* what the merging thread took for its representative
  pass,    \* the pass of unsafe_merge
  todo,    \* what the loop of this pass has still to visit
  pc, arg, new, \* where each thread is, its fact, and ensure()'s diff
  told,    \* history: what the insert callback was called with
  loaded,  \* history: the facts the table was loaded with
  facts, eqs, cls, \* history: the facts and equations asked for so far, and
                   \* the class of every ob, removed or not
  effort   \* what is left of Effort

carrierVars == <<root, due, cls>>
indexVars   == <<vlr, vLr, vRl>>
tableVars   == <<val, inv, lx, rx, indexVars>>
mergeVars   == <<dep, rep, pass, todo>>
taskVars    == <<pc, arg, new>>
askedVars   == <<loaded, facts, eqs, effort>>
vars == <<kind, carrierVars, tableVars, mergeVars, taskVars, told, askedVars>>

Live == {x \in Ob : root[x] # 0}
Idle == \A t \in Thread : pc[t] = "idle"

\* What a fact is about, for each kind of table.
FactsOf(k) == CASE k \in {"binary", "symmetric"} -> Ob \X Ob \X Ob
                [] k \in {"injective", "relation"} -> Ob \X Ob
                [] k = "unary" -> Ob

LowerOf(x, y) == IF x < y THEN x ELSE y
Least(S) == CHOOSE x \in S : \A y \in S : x <= y

-----------------------------------------------------------------------------
(* The carrier, by what it promises.                                       *)

United(f, x, y) ==
  [z \in Ob |-> IF f[z] # 0 /\ f[z] \in {f[x], f[y]}
                THEN LowerOf(f[x], f[y]) ELSE f[z]]

\* carrier().merge: the higher of the two roots becomes due.
Merge(x, y) ==
  /\ root' = United(root, x, y)
  /\ due' = IF root[x] = root[y] THEN due
            ELSE due \cup ({root[x], root[y]} \ {LowerOf(root[x], root[y])})
  /\ cls' = United(cls, x, y)

MergeNothing == UNCHANGED carrierVars

\* set_or_merge and set_and_merge of a cell that holds `old`: the value it
\* holds afterwards, and what happens to the carrier.
SetOr(old, v) == IF old = 0 THEN v ELSE old

\* set_and_merge leaves what merge() returns, where its walk from the two obs
\* has ended: an ob of the lower class, not above either and below the root it
\* was linked to, but not always a root itself.
SetAnd(old, v) ==
  IF old \in {0, v} THEN {v}
  ELSE {w \in Live : /\ root[w] = LowerOf(root[old], root[v])
                     /\ \A x \in {old, v} : w <= x /\ (root[x] = root[w] \/ w < root[x])}

\* Faulty: the value that loses is dropped.
MergeNever(old, v) == MergeNothing

MergeUnlessSet(old, v) == IF old \in {0, v} THEN MergeNothing ELSE Merge(old, v)

-----------------------------------------------------------------------------
(* Keys of a symmetric function are sorted pairs.                          *)

Key(l, r) == IF kind = "symmetric" /\ r < l THEN <<r, l>> ELSE <<l, r>>

\* The entries that one fact has in the lines and in the inverse tables.
BothWays(l, r) == IF kind = "symmetric" THEN {<<l, r>>, <<r, l>>} ELSE {<<l, r>>}

Entries(l, r, v) == {<<p[1], p[2], v>> : p \in BothWays(l, r)}

\* The inverse tables once entries are removed and inserted; a symmetric
\* function has no table by value and rhs.
Reindex(removed, inserted) ==
  /\ vlr' = (vlr \ removed) \cup inserted
  /\ vLr' = (vLr \ removed) \cup inserted
  /\ vRl' = IF kind = "symmetric" THEN {} ELSE (vRl \ removed) \cup inserted

\* clear() and raw_insert(): a table as it is loaded, one value to a key.
LoadedFunction(S) ==
  /\ \A f, g \in S : Key(f[1], f[2]) = Key(g[1], g[2]) => f = g
  /\ val = [p \in Pair |-> IF \E f \in S : Key(f[1], f[2]) = p
                           THEN (CHOOSE f \in S : Key(f[1], f[2]) = p)[3] ELSE 0]
  /\ inv = <<>>
  /\ lx = UNION {BothWays(f[1], f[2]) : f \in S}
  /\ rx = IF kind = "symmetric" THEN {} ELSE lx
  /\ vlr = UNION {Entries(f[1], f[2], f[3]) : f \in S}
  /\ vLr = vlr
  /\ vRl = IF kind = "symmetric" THEN {} ELSE vlr

LoadedInjective(S) ==
  /\ \A f, g \in S : (f[1] = g[1]) = (f[2] = g[2])
  /\ val = [k \in Ob |-> IF \E v \in Ob : <<k, v>> \in S
                         THEN CHOOSE v \in Ob : <<k, v>> \in S ELSE 0]
  /\ inv = [v \in Ob |-> IF \E k \in Ob : <<k, v>> \in S
                         THEN CHOOSE k \in Ob : <<k, v>> \in S ELSE 0]
  /\ lx = {f[1] : f \in S}
  /\ rx = {f[2] : f \in S}
  /\ vlr = {} /\ vLr = {} /\ vRl = {}

\* BinaryRelation::update() copies the rows to the columns.
LoadedRelation(S) ==
  /\ val = <<>> /\ inv = <<>>
  /\ lx = S
  /\ rx = IF kind = "relation" THEN S ELSE {}
  /\ vlr = {} /\ vLr = {} /\ vRl = {}

Init ==
  /\ kind \in Kinds
  /\ \E n \in 0 .. Effort - 1 : \E s \in [1 .. n -> FactsOf(kind)] :
       loaded = {s[i] : i \in 1 .. n}
  /\ CASE kind \in {"binary", "symmetric"} -> LoadedFunction(loaded)
       [] kind = "injective" -> LoadedInjective(loaded)
       [] kind \in {"relation", "unary"} -> LoadedRelation(loaded)
  /\ facts = loaded
  /\ effort = Effort - Cardinality(loaded)
  /\ root = [x \in Ob |-> x]
  /\ cls = root
  /\ due = {}
  /\ dep = 0 /\ rep = 0 /\ pass = "none" /\ todo = {}
  /\ pc = [t \in Thread |-> "idle"]
  /\ arg = [t \in Thread |-> <<>>]
  /\ new = [t \in Thread |-> {}]
  /\ told = {}
  /\ eqs = {}

-----------------------------------------------------------------------------
(* insert(): what tasks do to a table, concurrently.                       *)

Goto(t, label) == pc' = [pc EXCEPT ![t] = label]

Return(t) ==
  /\ Goto(t, "idle")
  /\ arg' = [arg EXCEPT ![t] = <<>>]
  /\ new' = [new EXCEPT ![t] = {}]

\* A task inserts fact f, entering at `label`.
Start(t, label, f, asked) ==
  /\ pc[t] = "idle" /\ dep = 0 /\ effort > 0
  /\ Goto(t, label)
  /\ arg' = [arg EXCEPT ![t] = f]
  /\ facts' = facts \cup asked
  /\ effort' = effort - 1
  /\ UNCHANGED <<kind, carrierVars, tableVars, mergeVars, new, told, loaded, eqs>>

StartInsert(t) ==
  \/ /\ kind \in {"binary", "symmetric"}
     /\ \E l, r, v \in Live : Start(t, "fun_set", <<l, r, v>>, {<<l, r, v>>})
  \/ /\ kind = "injective"
     /\ \E k, v \in Live : Start(t, "inj_set", <<k, v>>, {<<k, v>>})
  \/ /\ kind = "relation"
     /\ \E i, j \in Live, label \in {"rel_Lx", "rel_Rx"} :
          Start(t, label, <<i, j>>, {<<i, j>>})
  \/ /\ kind = "relation"
     /\ \E i \in Live, js \in kSubset(2, Live) :
          \/ Start(t, "row_load", {i} \X js, {i} \X js)
          \/ Start(t, "col_load", js \X {i}, js \X {i})
  \/ /\ kind = "unary"
     /\ \E i \in Live : Start(t, "un_set", i, {i})

\* Faulty: the inverse tables are written before the lines.
AfterValueIndex == "fun_index"

\* What insert() does after the value was set.
AfterValue == "fun_lines"

\* BinaryFunction::insert, SymmetricFunction::insert: a value that loses is
\* merged with the one that stays, and nothing else is done.
FunSet(t) ==
  /\ pc[t] = "fun_set"
  /\ LET l == arg[t][1]  r == arg[t][2]  v == arg[t][3]
         old == val[Key(l, r)]
     IN  /\ val' = [val EXCEPT ![Key(l, r)] = SetOr(@, v)]
         /\ MergeUnlessSet(old, v)
         /\ IF old = 0 THEN Goto(t, AfterValue) /\ UNCHANGED <<arg, new>>
                       ELSE Return(t)
  /\ UNCHANGED <<kind, inv, lx, rx, indexVars, mergeVars, told, askedVars>>

FunLines(t) ==
  /\ pc[t] = "fun_lines"
  /\ lx' = lx \cup BothWays(arg[t][1], arg[t][2])
  /\ rx' = IF kind = "symmetric" THEN rx ELSE rx \cup {<<arg[t][1], arg[t][2]>>}
  /\ Goto(t, "fun_index")
  /\ UNCHANGED <<kind, carrierVars, val, inv, indexVars, mergeVars, arg, new,
                 told, askedVars>>

FunIndex(t) ==
  /\ pc[t] = "fun_index"
  /\ Reindex({}, Entries(arg[t][1], arg[t][2], arg[t][3]))
  /\ Goto(t, "fun_tell")
  /\ UNCHANGED <<kind, carrierVars, val, inv, lx, rx, mergeVars, arg, new, told,
                 askedVars>>

FunTell(t) ==
  /\ pc[t] = "fun_tell"
  /\ told' = told \cup {<<arg[t][1], arg[t][2]>>}
  /\ Return(t)
  /\ UNCHANGED <<kind, carrierVars, tableVars, mergeVars, askedVars>>

\* InjectiveFunction::insert: the value, then the inverse.
InjSet(t) ==
  /\ pc[t] = "inj_set"
  /\ LET k == arg[t][1]  v == arg[t][2]
     IN  /\ \E w \in SetAnd(val[k], v) : val' = [val EXCEPT ![k] = w]
         /\ MergeUnlessSet(val[k], v)
         /\ Goto(t, IF val[k] = 0 THEN "inj_tell" ELSE "inj_inv")
  /\ UNCHANGED <<kind, inv, lx, rx, indexVars, mergeVars, arg, new, told, askedVars>>

InjTell(t) ==
  /\ pc[t] = "inj_tell"
  /\ lx' = lx \cup {arg[t][1]}
  /\ told' = told \cup {arg[t][1]}
  /\ Goto(t, "inj_inv")
  /\ UNCHANGED <<kind, carrierVars, val, inv, rx, indexVars, mergeVars, arg, new,
                 askedVars>>

InjInv(t) ==
  /\ pc[t] = "inj_inv"
  /\ LET k == arg[t][1]  v == arg[t][2]
     IN  /\ \E w \in SetAnd(inv[v], k) : inv' = [inv EXCEPT ![v] = w]
         /\ MergeUnlessSet(inv[v], k)
         /\ IF inv[v] = 0 THEN Goto(t, "inj_invset") /\ UNCHANGED <<arg, new>>
                          ELSE Return(t)
  /\ UNCHANGED <<kind, val, lx, rx, indexVars, mergeVars, told, askedVars>>

InjInvSet(t) ==
  /\ pc[t] = "inj_invset"
  /\ rx' = rx \cup {arg[t][2]}
  /\ Return(t)
  /\ UNCHANGED <<kind, carrierVars, val, inv, lx, indexVars, mergeVars, told,
                 askedVars>>

\* BinaryRelation::insert_Lx and insert_Rx: fetch_one of one bit line; who
\* finds it clear writes the other line and tells.
RelFirst(t) ==
  /\ \/ /\ pc[t] = "rel_Lx"
        /\ lx' = lx \cup {arg[t]}
        /\ IF arg[t] \in lx THEN Return(t)
           ELSE Goto(t, "rel_Rx2") /\ UNCHANGED <<arg, new>>
        /\ UNCHANGED rx
     \/ /\ pc[t] = "rel_Rx"
        /\ rx' = rx \cup {arg[t]}
        /\ IF arg[t] \in rx THEN Return(t)
           ELSE Goto(t, "rel_Lx2") /\ UNCHANGED <<arg, new>>
        /\ UNCHANGED lx
  /\ UNCHANGED <<kind, carrierVars, val, inv, indexVars, mergeVars, told, askedVars>>

RelSecond(t) ==
  /\ \/ pc[t] = "rel_Rx2" /\ rx' = rx \cup {arg[t]} /\ UNCHANGED lx
     \/ pc[t] = "rel_Lx2" /\ lx' = lx \cup {arg[t]} /\ UNCHANGED rx
  /\ Goto(t, "rel_tell")
  /\ UNCHANGED <<kind, carrierVars, val, inv, indexVars, mergeVars, arg, new, told,
                 askedVars>>

RelTell(t) ==
  /\ pc[t] = "rel_tell"
  /\ told' = told \cup {arg[t]}
  /\ Return(t)
  /\ UNCHANGED <<kind, carrierVars, tableVars, mergeVars, askedVars>>

\* insert(i, js) and insert(is, j): ensure() loads the line and then sets its
\* bits, which is not one step; each pair that was not in the line is told.
LineLoad(t) ==
  /\ \/ pc[t] = "row_load" /\ new' = [new EXCEPT ![t] = arg[t] \ lx] /\ Goto(t, "row_or")
     \/ pc[t] = "col_load" /\ new' = [new EXCEPT ![t] = arg[t] \ rx] /\ Goto(t, "col_or")
  /\ UNCHANGED <<kind, carrierVars, tableVars, mergeVars, arg, told, askedVars>>

LineOr(t) ==
  /\ \/ pc[t] = "row_or" /\ lx' = lx \cup arg[t] /\ UNCHANGED rx /\ Goto(t, "row_tell")
     \/ pc[t] = "col_or" /\ rx' = rx \cup arg[t] /\ UNCHANGED lx /\ Goto(t, "col_tell")
  /\ UNCHANGED <<kind, carrierVars, val, inv, indexVars, mergeVars, arg, new,
                 told, askedVars>>

LineTell(t) ==
  /\ \/ pc[t] = "row_tell" /\ rx' = rx \cup new[t] /\ UNCHANGED lx
     \/ pc[t] = "col_tell" /\ lx' = lx \cup new[t] /\ UNCHANGED rx
  /\ told' = told \cup new[t]
  /\ Return(t)
  /\ UNCHANGED <<kind, carrierVars, val, inv, indexVars, mergeVars, askedVars>>

\* UnaryRelation::insert.
UnSet(t) ==
  /\ pc[t] = "un_set"
  /\ lx' = lx \cup {arg[t]}
  /\ told' = IF arg[t] \in lx THEN told ELSE told \cup {arg[t]}
  /\ Return(t)
  /\ UNCHANGED <<kind, carrierVars, val, inv, rx, indexVars, mergeVars, askedVars>>

\* ensure_equal, by a task; and, while a MergeTask runs, by the threads that
\* merge the other tables.
Equal(x, y) ==
  /\ effort > 0
  /\ x # y
  /\ Merge(x, y)
  /\ eqs' = eqs \cup {<<x, y>>}
  /\ effort' = effort - 1
  /\ UNCHANGED <<kind, tableVars, mergeVars, taskVars, told, loaded, facts>>

TaskMerge(x, y)  == dep = 0 /\ Equal(x, y)
OtherMerge(x, y) == dep # 0 /\ pass # "done" /\ Equal(x, y)

-----------------------------------------------------------------------------
(* execute(MergeTask), unsafe_merge: no task runs meanwhile.               *)

BeginMerge(d) ==
  /\ Idle /\ dep = 0 /\ d \in due
  /\ due' = due \ {d}
  /\ dep' = d
  /\ pass' = "start"
  /\ UNCHANGED <<kind, root, cls, tableVars, rep, todo, taskVars, told, askedVars>>

FirstPass ==
  CASE kind = "binary" -> "rhs" [] kind = "symmetric" -> "diag"
    [] kind = "injective" -> "keys" [] OTHER -> "all"

\* The find() with which unsafe_merge starts.
FindRep ==
  /\ pass = "start"
  /\ rep' = root[dep]
  /\ pass' = FirstPass
  /\ todo' = IF kind = "binary" THEN {l \in Ob : <<l, dep>> \in rx} ELSE {}
  /\ UNCHANGED <<kind, carrierVars, tableVars, dep, taskVars, told, askedVars>>

\* One entry goes to another key: its value is set there or merged.
MoveEntry(from, to) ==
  LET v == val[Key(from[1], from[2])]
      old == val[Key(to[1], to[2])]
  IN  /\ val' = [val EXCEPT ![Key(from[1], from[2])] = 0,
                            ![Key(to[1], to[2])] = SetOr(old, v)]
      /\ MergeUnlessSet(old, v)
      /\ Reindex(Entries(from[1], from[2], v),
                 IF old = 0 THEN Entries(to[1], to[2], v) ELSE {})
      /\ UNCHANGED inv

\* Faulty: the line of the rep is not extended.
MovedAway(lines, from, to, key) == lines \ {from}

\* The bit lines after one step of a loop: a bit is cleared, and another is
\* set if the entry was moved rather than merged.
Moved(lines, from, to, key) ==
  (lines \ {from}) \cup (IF val[key] = 0 THEN {to} ELSE {})

\* A whole line is merged into another and cleared.
RowsFolded(lines) ==
  {p \in lines : p[1] # dep} \cup {<<rep, p[2]>> : p \in {q \in lines : q[1] = dep}}

ColumnsFolded(lines) ==
  {p \in lines : p[2] # dep} \cup {<<p[1], rep>> : p \in {q \in lines : q[2] = dep}}

\* (lhs, dep) --> (lhs, rep)
MoveRhs ==
  /\ pass = "rhs" /\ todo # {}
  /\ LET l == Least(todo)
     IN  /\ MoveEntry(<<l, dep>>, <<l, rep>>)
         /\ lx' = Moved(lx, <<l, dep>>, <<l, rep>>, <<l, rep>>)
         /\ todo' = todo \ {l}
  /\ UNCHANGED <<kind, rx, dep, rep, pass, taskVars, told, askedVars>>

FoldRhs ==
  /\ pass = "rhs" /\ todo = {}
  /\ rx' = ColumnsFolded(rx)
  /\ rep' = root[rep]
  /\ pass' = "lhs"
  /\ todo' = {r \in Ob : <<dep, r>> \in lx}
  /\ UNCHANGED <<kind, carrierVars, val, inv, lx, indexVars, dep, taskVars, told,
                 askedVars>>

\* (dep, dep) --> (rep, rep) of a symmetric function
MoveDiagonal ==
  /\ pass = "diag"
  /\ IF <<dep, dep>> \in lx
     THEN /\ MoveEntry(<<dep, dep>>, <<rep, rep>>)
          /\ lx' = Moved(lx, <<dep, dep>>, <<rep, rep>>, <<rep, rep>>)
     ELSE UNCHANGED <<carrierVars, val, inv, lx, indexVars>>
  /\ pass' = "refind"
  /\ UNCHANGED <<kind, rx, dep, rep, todo, taskVars, told, askedVars>>

\* find() again, before the second part of a merge.
FindRepAgain ==
  /\ pass = "refind"
  /\ rep' = root[rep]
  /\ IF kind = "symmetric"
     THEN pass' = "lhs" /\ todo' = {r \in Ob : <<dep, r>> \in lx}
     ELSE pass' = "inverse" /\ UNCHANGED todo
  /\ UNCHANGED <<kind, carrierVars, tableVars, dep, taskVars, told, askedVars>>

\* (dep, rhs) --> (rep, rhs); a symmetric function has only one kind of line.
MoveLhs ==
  /\ pass = "lhs" /\ todo # {}
  /\ LET r == Least(todo)
     IN  /\ MoveEntry(<<dep, r>>, <<rep, r>>)
         /\ IF kind = "binary"
            THEN rx' = Moved(rx, <<dep, r>>, <<rep, r>>, <<rep, r>>) /\ UNCHANGED lx
            ELSE lx' = Moved(lx, <<r, dep>>, <<r, rep>>, Key(rep, r)) /\ UNCHANGED rx
         /\ todo' = todo \ {r}
  /\ UNCHANGED <<kind, dep, rep, pass, taskVars, told, askedVars>>

FoldLhs ==
  /\ pass = "lhs" /\ todo = {}
  /\ lx' = RowsFolded(lx)
  /\ rep' = root[rep]
  /\ pass' = "val"
  /\ UNCHANGED <<kind, carrierVars, val, inv, rx, indexVars, dep, todo, taskVars,
                 told, askedVars>>

\* dep as a value: the entries are found in the inverse table.
MoveVal ==
  /\ pass = "val"
  /\ LET found == {e \in vlr : e[3] = dep}
         moved == {<<e[1], e[2], rep>> : e \in found}
     IN  /\ val' = [p \in Pair |->
                      IF \E e \in found : Key(e[1], e[2]) = p THEN rep ELSE val[p]]
         /\ Reindex(found, moved)
  /\ pass' = "done"
  /\ UNCHANGED <<kind, carrierVars, inv, lx, rx, dep, rep, todo, taskVars, told,
                 askedVars>>

\* One direction of an injective function: the entry of dep is merged into
\* that of rep, then every value that is dep becomes rep.
InjectedSet(set) == IF dep \in set THEN (set \ {dep}) \cup {rep} ELSE set

Replaced(f, set) == [x \in Ob |-> IF x \in set /\ f[x] = dep THEN rep ELSE f[x]]

Injected(f, set) ==
  IF dep \notin set THEN {Replaced(f, set)}
  ELSE {Replaced([f EXCEPT ![rep] = w, ![dep] = 0], InjectedSet(set)) :
          w \in SetAnd(f[rep], f[dep])}

MergeInjected(f, set) ==
  IF dep \in set THEN MergeUnlessSet(f[rep], f[dep]) ELSE MergeNothing

MoveKeys ==
  /\ pass = "keys"
  /\ val' \in Injected(val, lx)
  /\ lx' = InjectedSet(lx)
  /\ MergeInjected(val, lx)
  /\ pass' = "refind"
  /\ UNCHANGED <<kind, inv, rx, indexVars, dep, rep, todo, taskVars, told, askedVars>>

MoveInverse ==
  /\ pass = "inverse"
  /\ inv' \in Injected(inv, rx)
  /\ rx' = InjectedSet(rx)
  /\ MergeInjected(inv, rx)
  /\ pass' = "done"
  /\ UNCHANGED <<kind, val, lx, indexVars, dep, rep, todo, taskVars, told, askedVars>>

\* Faulty: nobody is told of the pairs that a merge brings.
NoNews(pairs) == {}

\* The insert callback is called for each of these pairs.
News(pairs) == pairs

\* BinaryRelation::unsafe_merge: rows, then columns.
MoveRelation ==
  /\ pass = "all" /\ kind = "relation"
  /\ LET row   == {p \in lx : p[1] = dep}
         rows  == {<<rep, p[2]>> : p \in row}
         lx1   == RowsFolded(lx)
         rx1   == (rx \ row) \cup (rows \ lx)
         col   == {p \in rx1 : p[2] = dep}
         cols  == {<<p[1], rep>> : p \in col}
     IN  /\ lx' = (lx1 \ col) \cup (cols \ rx1)
         /\ rx' = ColumnsFolded(rx1)
         /\ told' = told \cup News((rows \ lx) \cup (cols \ rx1))
  /\ pass' = "done"
  /\ UNCHANGED <<kind, carrierVars, val, inv, indexVars, dep, rep, todo, taskVars,
                 askedVars>>

MoveUnary ==
  /\ pass = "all" /\ kind = "unary"
  /\ lx' = IF dep \in lx THEN (lx \ {dep}) \cup {rep} ELSE lx
  /\ told' = told \cup News(IF dep \in lx /\ rep \notin lx THEN {rep} ELSE {})
  /\ pass' = "done"
  /\ UNCHANGED <<kind, carrierVars, val, inv, rx, indexVars, dep, rep, todo,
                 taskVars, askedVars>>

\* The threads are joined and the dep is removed from the carrier.
EndMerge ==
  /\ pass = "done"
  /\ root' = [root EXCEPT ![dep] = 0]
  /\ dep' = 0 /\ rep' = 0 /\ pass' = "none" /\ todo' = {}
  /\ UNCHANGED <<kind, due, cls, tableVars, taskVars, told, askedVars>>

-----------------------------------------------------------------------------
Insert(t) ==
  \/ StartInsert(t)
  \/ FunSet(t) \/ FunLines(t) \/ FunIndex(t) \/ FunTell(t)
  \/ InjSet(t) \/ InjTell(t) \/ InjInv(t) \/ InjInvSet(t)
  \/ RelFirst(t) \/ RelSecond(t) \/ RelTell(t)
  \/ LineLoad(t) \/ LineOr(t) \/ LineTell(t) \/ UnSet(t)

MergePass ==
  \/ FindRep \/ MoveRhs \/ FoldRhs \/ MoveDiagonal \/ FindRepAgain \/ MoveLhs
  \/ FoldLhs \/ MoveVal \/ MoveKeys \/ MoveInverse \/ MoveRelation \/ MoveUnary
  \/ EndMerge

Next ==
  \/ \E t \in Thread : Insert(t)
  \/ \E x, y \in Live : TaskMerge(x, y) \/ OtherMerge(x, y)
  \/ \E d \in Ob : BeginMerge(d)
  \/ MergePass

Spec == Init /\ [][Next]_vars

-----------------------------------------------------------------------------
(* Properties.                                                             *)

Quiet == Idle /\ dep = 0

Defined == {p \in Pair : val[p] # 0}

\* validate(): between tasks the bit lines and the inverse tables of a
\* function say what its values say, and nothing mentions an ob that was
\* removed; the two tables of an injective function are inverse to each other
\* up to equality once no MergeTask is queued; the rows and the columns of a
\* relation agree.  While a MergeTask runs the inverse tables agree with each
\* other, without which unsafe_remove would erase an entry twice.
TableValid ==
  /\ dep # 0 => vLr = vlr /\ vRl = IF kind = "symmetric" THEN {} ELSE vlr
  /\ Quiet =>
    CASE kind = "binary" ->
           /\ lx = Defined /\ rx = Defined
           /\ vlr = {<<p[1], p[2], val[p]>> : p \in Defined}
           /\ vLr = vlr /\ vRl = vlr
           /\ \A e \in vlr : {e[1], e[2], e[3]} \subseteq Live
      [] kind = "symmetric" ->
           /\ lx = UNION {BothWays(p[1], p[2]) : p \in Defined}
           /\ vlr = UNION {Entries(p[1], p[2], val[p]) : p \in Defined}
           /\ vLr = vlr
           /\ \A e \in vlr : {e[1], e[2], e[3]} \subseteq Live
      [] kind = "injective" ->
           /\ lx = {x \in Ob : val[x] # 0} /\ lx \subseteq Live
           /\ rx = {x \in Ob : inv[x] # 0} /\ rx \subseteq Live
           /\ due = {} =>
                /\ \A x \in lx : val[x] \in rx /\ root[inv[val[x]]] = root[x]
                /\ \A x \in rx : inv[x] \in lx /\ root[val[inv[x]]] = root[x]
      [] kind = "relation" -> lx = rx /\ lx \subseteq Live \X Live
      [] kind = "unary" -> lx \subseteq Live

\* "m_tiles is source of truth; m_lines lag": a reader that found a pair in
\* the lines or a fact in an inverse table, or was told of one, finds its value;
\* what the inverse tables have is in the lines, and what was told is in both.
LinesLag ==
  kind \in {"binary", "symmetric"} /\ dep = 0 =>
    /\ \A p \in lx \cup rx : val[Key(p[1], p[2])] # 0
    /\ \A e \in vlr \cup vLr \cup vRl :
         /\ <<e[1], e[2]>> \in lx /\ (kind = "binary" => <<e[1], e[2]>> \in rx)
         /\ val[Key(e[1], e[2])] = e[3]
    /\ \A p \in told : {p[1], p[2]} \subseteq Live =>
         /\ p \in lx
         /\ <<p[1], p[2], val[Key(p[1], p[2])]>> \in vlr \cap vLr

\* A fact of a relation that no task was told of would never be acted upon:
\* whatever a relation holds between tasks was loaded or told under the very
\* names it is stored with.
RelationsTold ==
  Quiet /\ kind \in {"relation", "unary"} => lx \subseteq told \cup loaded

\* A partition that knows what was asked for so far: equal pairs are equal, a
\* function has one value at equal keys, an injective one one key at equal
\* values.
Closed(f) ==
  /\ \A e \in eqs : f[e[1]] = f[e[2]]
  /\ kind \in {"binary", "symmetric"} =>
       \A a, b \in facts :
         (\E p \in BothWays(b[1], b[2]) : f[a[1]] = f[p[1]] /\ f[a[2]] = f[p[2]])
           => f[a[3]] = f[b[3]]
  /\ kind = "injective" =>
       \A a, b \in facts : (f[a[1]] = f[b[1]]) <=> (f[a[2]] = f[b[2]])

\* Every partition of the obs, each class under its least ob.
Partitions == {f \in [Ob -> Ob] : \A x \in Ob : f[x] <= x /\ f[f[x]] = f[x]}

\* The entries of the table, and what they should be.
Content ==
  CASE kind \in {"binary", "symmetric"} -> UNION {Entries(p[1], p[2], val[p]) : p \in Defined}
    [] kind = "injective" -> {<<x, val[x]>> : x \in lx}
    [] OTHER -> lx

Image ==
  CASE kind \in {"binary", "symmetric"} ->
         UNION {Entries(cls[f[1]], cls[f[2]], cls[f[3]]) : f \in facts}
    [] kind \in {"injective", "relation"} -> {<<cls[f[1]], cls[f[2]]>> : f \in facts}
    [] kind = "unary" -> {cls[f] : f \in facts}

\* Insertions, collisions and MergeTasks in any order compute the congruence
\* closure: no equation is invented, and once nothing is queued none is missing
\* and the table holds the facts asked for, each under its classes' names.
CongruenceReached ==
  /\ \A f \in Partitions : (\A x \in Ob : f[x] = f[cls[x]]) \/ ~ Closed(f)
  /\ Quiet /\ due = {} => Closed(cls) /\ Content = Image

=============================================================================
