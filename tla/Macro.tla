------------------------------- MODULE Macro -------------------------------
(***************************************************************************)
(* The structure of the cartographer (atlas/macro): a carrier whose obs    *)
(* are merged in batches, and tables over it.  One thread owns the         *)
(* structure, so an operation is an operator from structures to            *)
(* structures; the module Cartographer takes the steps.  Only the merge of *)
(* two obs is ever called by several threads, under a mutex.               *)
(*                                                                         *)
(* A structure is a record                                                 *)
(*   dim      item_dim()                                                   *)
(*   support  m_support                                                    *)
(*   reps     m_reps, 0 where there is no ob                               *)
(*   queue    g_merge_queue, the obs whose entries must move               *)
(*   checked  whether the merge callback is schedule_merge_if_consistent   *)
(*            (it is schedule_merge otherwise)                             *)
(*   exit     whether that callback has ended the process                  *)
(*   tab      its tables: name -> [val, inv, lx, rx]                       *)
(* where val is m_values (a function of the defined keys), inv the inverse *)
(* of an injective function, lx and rx the bit lines, or the two sets of   *)
(* an injective function, or the set of a unary relation.                  *)
(***************************************************************************)
EXTENDS Naturals, Sequences, FiniteSets, SequencesExt

CONSTANTS
  MaxDim,    \* bound: no structure has more obs
  Arity      \* the kind of every table that a structure may have, by name

Kinds == {"binary", "symmetric", "injective", "nullary", "unary", "relation"}

ASSUME MacroAssumption ==
  /\ MaxDim \in Nat \ {0}
  /\ \A n \in DOMAIN Arity : Arity[n] \in Kinds

Ob  == 1 .. MaxDim
Rep == 0 .. MaxDim

\* The members of a finite set by a strict total order.
InOrder(S, less(_, _)) ==
  [i \in 1 .. Cardinality(S) |->
     CHOOSE x \in S : Cardinality({y \in S : less(y, x)}) = i - 1]

Ascending(S) == InOrder(S, <)
Low(S)  == CHOOSE x \in S : \A y \in S : x <= y
High(S) == CHOOSE x \in S : \A y \in S : x >= y

-----------------------------------------------------------------------------
(* The carrier.                                                            *)

NoReps == [x \in Rep |-> 0]

\* carrier.find(): the end of the chain of reps.
Root(reps, ob) ==
  LET find[x \in Rep] == IF reps[x] = x THEN x ELSE find[reps[x]]
  IN  find[ob]

RepCount(s) == Cardinality({x \in s.support : s.reps[x] = x})

\* unsafe_insert() takes the lowest free slot.
FreeSlot(s) == Low((1 .. s.dim) \ s.support)

InsertOb(s) ==
  [s EXCEPT !.support = @ \cup {FreeSlot(s)}, !.reps[FreeSlot(s)] = FreeSlot(s)]

\* The walk of merge() from dep to an ob without rep, swapping the two so that
\* the dep is always the higher; it stops early where the obs are equal already.
Walk(reps, dep, rep) ==
  LET walk[p \in Rep \X Rep] ==
        LET up == reps[p[1]]
        IN  CASE up = p[1] -> [dep |-> p[1], rep |-> p[2], equal |-> FALSE]
              [] up = p[2] -> [dep |-> up, rep |-> p[2], equal |-> TRUE]
              [] up # p[1] /\ up < p[2] -> walk[<<p[2], up>>]
              [] OTHER -> walk[<<up, p[2]>>]
  IN  walk[<<dep, rep>>]

\* UniqueFifoQueue::push
Pushed(queue, ob) == IF Contains(queue, ob) THEN queue ELSE Append(queue, ob)

\* schedule_merge_if_consistent() ends the process where NLESS tells the two
\* obs apart.
Conflict(s, reps, dep) ==
  s.checked /\ {<<dep, Root(reps, dep)>>, <<Root(reps, dep), dep>>}
                \cap s.tab["NLESS"].lx # {}

\* merge() and its callback.
Merged(s, dep, rep) ==
  LET end  == Walk(s.reps, dep, rep)
      reps == [s.reps EXCEPT ![end.dep] = end.rep]
  IN  IF end.equal THEN s
      ELSE [s EXCEPT !.reps = reps, !.queue = Pushed(@, end.dep),
                     !.exit = @ \/ Conflict(s, reps, end.dep)]

\* ensure_equal(), and the ob it returns.
EnsureEqual(s, x, y) == IF x = y THEN s ELSE Merged(s, High({x, y}), Low({x, y}))

Equated(s, x, y) ==
  IF x = y THEN x ELSE Walk(s.reps, High({x, y}), Low({x, y})).rep

\* unsafe_remove(): whoever had dep as its rep gets the rep of dep.
Removed(s, dep) ==
  [s EXCEPT !.support = @ \ {dep},
            !.reps = [x \in Rep |-> CASE x = dep -> 0
                                      [] s.reps[x] = dep -> Root(s.reps, dep)
                                      [] OTHER -> s.reps[x]]]

-----------------------------------------------------------------------------
(* Tables.                                                                 *)

EmptyTable == [val |-> <<>>, inv |-> <<>>, lx |-> {}, rx |-> {}]

Empty(dim, names) ==
  [dim |-> dim, support |-> {}, reps |-> NoReps, queue |-> <<>>,
   checked |-> FALSE, exit |-> FALSE, tab |-> [n \in names |-> EmptyTable]]

Without(f, key) == [k \in DOMAIN f \ {key} |-> f[k]]
With(f, key, v) == [k \in DOMAIN f \cup {key} |-> IF k = key THEN v ELSE f[k]]

Sorted(key) == IF Len(key) = 2 /\ key[2] < key[1] THEN Reverse(key) ELSE key
Both(key)   == {key, Reverse(key)}

\* What the bit lines hold for a key: a symmetric function has one table of
\* lines, read both ways, and both are in it.
Lines(n, key) == IF Arity[n] = "symmetric" THEN Both(key) ELSE {key}
KeyOf(n, key) == IF Arity[n] = "symmetric" THEN Sorted(key) ELSE key

\* set_and_merge is for entries that have a value, set_or_merge for entries
\* that may have none (written 0): the value and the structure afterwards.
SetAndMerge(s, old, v) == [s |-> EnsureEqual(s, old, v), val |-> Equated(s, old, v)]

SetOrMerge(s, old, v) ==
  IF old = 0 THEN [s |-> s, val |-> v] ELSE [s |-> EnsureEqual(s, old, v), val |-> old]

Entry(f, key) == IF key \in DOMAIN f THEN f[key] ELSE 0

\* insert() of a function; <<>> is the key of a nullary one.
InsertFunction(s, n, key, v) ==
  LET t   == s.tab[n]
      k   == KeyOf(n, key)
      old == Entry(t.val, k)
      set == IF old # 0 /\ Arity[n] \in {"binary", "symmetric"}
             THEN SetAndMerge(s, old, v) ELSE SetOrMerge(s, old, v)
  IN  [set.s EXCEPT !.tab[n].val = With(t.val, k, set.val),
                    !.tab[n].lx = IF old = 0 THEN @ \cup Lines(n, k) ELSE @,
                    !.tab[n].rx = IF old = 0 /\ Arity[n] = "binary"
                                  THEN @ \cup {k} ELSE @]

\* insert() of an injective function sets the inverse too.
InsertInjective(s, n, key, v) ==
  LET forth == InsertFunction(s, n, key, v)
      old   == Entry(forth.tab[n].inv, <<v>>)
      back  == SetOrMerge(forth, old, key[1])
  IN  [back.s EXCEPT !.tab[n].inv = With(@, <<v>>, back.val),
                     !.tab[n].rx = @ \cup {<<v>>}]

InsertRelation(s, n, key) ==
  [s EXCEPT !.tab[n].lx = @ \cup {key},
            !.tab[n].rx = IF Arity[n] = "relation" THEN @ \cup {key} ELSE @]

\* A fact is a table's name with the tuple of its obs, the value last.
InsertFact(s, n, fact) ==
  CASE Arity[n] \in {"unary", "relation"} -> InsertRelation(s, n, fact)
    [] Arity[n] = "injective" -> InsertInjective(s, n, Front(fact), Last(fact))
    [] OTHER -> InsertFunction(s, n, Front(fact), Last(fact))

-----------------------------------------------------------------------------
(* unsafe_merge(): the entries of dep move to its rep, in a table's own    *)
(* passes; what collides is merged.                                        *)

\* Faulty: the value that was there is overwritten.
MovedOver(s, n, from, to, line) ==
  LET t == s.tab[n]
      f == KeyOf(n, from)
      k == KeyOf(n, to)
      moved == [s EXCEPT !.tab[n].val = With(Without(@, f), k, t.val[f])]
  IN  CASE line = "lx" -> [moved EXCEPT !.tab[n].lx = (@ \ {from}) \cup {to}]
        [] line = "rx" -> [moved EXCEPT !.tab[n].rx = (@ \ {from}) \cup {to}]

\* A step of a pass: the entry at `from` moves to `to`; the lines that the
\* pass does not iterate over follow.
MovedEntry(s, n, from, to, line) ==
  LET t   == s.tab[n]
      f   == KeyOf(n, from)
      k   == KeyOf(n, to)
      v   == t.val[f]
      old == Entry(Without(t.val, f), k)
      set == SetOrMerge(s, old, v)
      moved == [set.s EXCEPT !.tab[n].val = With(Without(@, f), k, set.val)]
  IN  CASE line = "lx" -> [moved EXCEPT !.tab[n].lx =
                             (@ \ {from}) \cup (IF old = 0 THEN {to} ELSE {})]
        [] line = "rx" -> [moved EXCEPT !.tab[n].rx =
                             (@ \ {from}) \cup (IF old = 0 THEN {to} ELSE {})]

\* The whole line of dep is merged into that of rep.
Folded(lines, at, dep, rep) ==
  {IF key[at] = dep THEN [key EXCEPT ![at] = rep] ELSE key : key \in lines}

MergeRhs(s, n, dep) ==
  LET rep == Root(s.reps, dep)
      lhs == {key[1] : key \in {k \in s.tab[n].rx : k[2] = dep}}
      all == FoldLeft(LAMBDA q, l : MovedEntry(q, n, <<l, dep>>, <<l, rep>>, "lx"),
                     s, Ascending(lhs))
  IN  [all EXCEPT !.tab[n].rx = Folded(@, 2, dep, rep)]

MergeLhs(s, n, dep, before) ==
  LET rep == Root(s.reps, Root(before.reps, dep))
      rhs == {key[2] : key \in {k \in s.tab[n].lx : k[1] = dep}}
      all == FoldLeft(LAMBDA q, r : MovedEntry(q, n, <<dep, r>>, <<rep, r>>, "rx"),
                     s, Ascending(rhs))
  IN  [all EXCEPT !.tab[n].lx = Folded(@, 1, dep, rep)]

MergeBinary(s, n, dep) == MergeLhs(MergeRhs(s, n, dep), n, dep, s)

\* A symmetric function moves its diagonal entry first, then the rest: what
\* the loop does to Rx(dep, rhs) is the bit dep of the line of rhs.
MergeSymmetric(s, n, dep) ==
  LET rep0 == Root(s.reps, dep)
      diagonal == IF <<dep, dep>> \in s.tab[n].lx
                  THEN MovedEntry(s, n, <<dep, dep>>, <<rep0, rep0>>, "lx")
                  ELSE s
      rep  == Root(diagonal.reps, rep0)
      rhs  == {key[2] : key \in {k \in diagonal.tab[n].lx : k[1] = dep}}
      all  == FoldLeft(LAMBDA q, r : MovedEntry(q, n, <<r, dep>>, <<r, rep>>, "lx"),
                      diagonal, Ascending(rhs))
  IN  [all EXCEPT !.tab[n].lx = Folded(@, 1, dep, rep)]

Replaced(f, dep, rep) == [k \in DOMAIN f |-> IF f[k] = dep THEN rep ELSE f[k]]

\* The two halves of an injective function are moved in turn: the entry of
\* dep with set_and_merge, although rep may have none.
MovedHalf(s, f, dep, rep) ==
  IF <<dep>> \notin DOMAIN f THEN [s |-> s, f |-> Replaced(f, dep, rep), zero |-> FALSE]
  ELSE LET old == Entry(f, <<rep>>)
           set == SetAndMerge(s, old, f[<<dep>>])
       IN  [s |-> set.s,
            f |-> Replaced(With(Without(f, <<dep>>), <<rep>>, set.val), dep, rep),
            zero |-> old = 0]

InjectiveHalves(s, n, dep) ==
  LET rep   == Root(s.reps, dep)
      forth == MovedHalf(s, s.tab[n].val, dep, rep)
      again == Root(forth.s.reps, rep)
  IN  [forth |-> forth, back |-> MovedHalf(forth.s, s.tab[n].inv, dep, again)]

MergeInjective(s, n, dep) ==
  LET h == InjectiveHalves(s, n, dep)
  IN  [h.back.s EXCEPT !.tab[n] =
        [val |-> h.forth.f, inv |-> h.back.f,
         lx |-> DOMAIN h.forth.f, rx |-> DOMAIN h.back.f]]

MergeNullary(s, n, dep) ==
  [s EXCEPT !.tab[n].val = Replaced(@, dep, Root(s.reps, dep))]

\* A relation moves the row of dep, then its column; the pairs that are new
\* to rep are added on the other side.
MergeRelation(s, n, dep) ==
  LET rep  == Root(s.reps, dep)
      t    == s.tab[n]
      row  == {k \in t.lx : k[1] = dep}
      lx1  == Folded(t.lx, 1, dep, rep)
      rx1  == (t.rx \ row) \cup {<<rep, k[2]>> : k \in row}
      col  == {k \in rx1 : k[2] = dep}
  IN  [s EXCEPT !.tab[n].rx = Folded(rx1, 2, dep, rep),
                !.tab[n].lx = (lx1 \ col) \cup {<<k[1], rep>> : k \in col}]

MergeUnary(s, n, dep) ==
  [s EXCEPT !.tab[n].lx = Folded(@, 1, dep, Root(s.reps, dep))]

MergedTable(s, n, dep) ==
  CASE Arity[n] = "binary"    -> MergeBinary(s, n, dep)
    [] Arity[n] = "symmetric" -> MergeSymmetric(s, n, dep)
    [] Arity[n] = "injective" -> MergeInjective(s, n, dep)
    [] Arity[n] = "nullary"   -> MergeNullary(s, n, dep)
    [] Arity[n] = "unary"     -> MergeUnary(s, n, dep)
    [] Arity[n] = "relation"  -> MergeRelation(s, n, dep)

\* The order in which process_mergers() takes the kinds of tables.
Turn(kind) == CASE kind = "binary" -> 1 [] kind = "symmetric" -> 2
                [] kind = "injective" -> 3 [] kind = "nullary" -> 4
                [] kind = "unary" -> 5 [] kind = "relation" -> 6

NotUpdated(s) == s     \* Faulty: values stay under obs that are removed.

\* update_values(): only binary and symmetric functions have anything to do.
Updated(s) ==
  [s EXCEPT !.tab = [n \in DOMAIN s.tab |->
     IF Arity[n] \in {"binary", "symmetric"}
     THEN [s.tab[n] EXCEPT !.val = [k \in DOMAIN @ |-> Root(s.reps, @[k])]]
     ELSE s.tab[n]]]

-----------------------------------------------------------------------------
(* Facts, files, and structures made of them.                              *)

\* The facts of a table as the iterators give them: through the lines.
Facts(s, n) ==
  IF Arity[n] \in {"unary", "relation"} THEN s.tab[n].lx
  ELSE {Append(k, s.tab[n].val[k]) :
          k \in {KeyOf(n, l) : l \in s.tab[n].lx} \cap DOMAIN s.tab[n].val}

AllFacts(s) == [n \in DOMAIN s.tab |-> Facts(s, n)]

\* Obs that a structure of its own has: raw_insert() and update().
RawObs(s, obs) ==
  [s EXCEPT !.support = obs, !.reps = [x \in Rep |-> IF x \in obs THEN x ELSE 0]]

\* A table filled by raw_insert() from facts, one value to a key.
RawTable(n, facts) ==
  LET keys == {Front(f) : f \in facts}
      val  == [k \in keys |-> Last(CHOOSE f \in facts : Front(f) = k)]
  IN  CASE Arity[n] = "unary" -> [EmptyTable EXCEPT !.lx = facts]
        [] Arity[n] = "relation" -> [EmptyTable EXCEPT !.lx = facts, !.rx = facts]
        [] Arity[n] = "nullary" -> [EmptyTable EXCEPT !.val = val, !.lx = keys]
        [] Arity[n] = "symmetric" ->
             [EmptyTable EXCEPT !.val = val, !.lx = UNION {Both(k) : k \in keys}]
        [] Arity[n] = "binary" ->
             [EmptyTable EXCEPT !.val = val, !.lx = keys, !.rx = keys]
        [] Arity[n] = "injective" ->
             [val |-> val, lx |-> keys, rx |-> {<<val[k]>> : k \in keys},
              inv |-> [v \in {<<val[k]>> : k \in keys} |->
                         (CHOOSE k \in keys : <<val[k]>> = v)[1]]]

\* A file holds a number of obs and the facts by table.  load(): obs 1 to
\* that number, with room for `extra` more.
Loaded(file, extra) ==
  [RawObs(Empty(file.count + extra, DOMAIN file.facts), 1 .. file.count)
     EXCEPT !.tab = [n \in DOMAIN file.facts |-> RawTable(n, file.facts[n])]]

\* dump() writes the rows of every table, those of a symmetric function up to
\* the diagonal.
Dumped(s) == [count |-> Cardinality(s.support), facts |-> AllFacts(s)]

\* assert_contiguous()
Contiguous(s) == s.support = 1 .. Cardinality(s.support)

\* resize(): the same obs and tables, in blocks of another size.
Resizable(s, dim) ==
  /\ Cardinality(s.support) = RepCount(s)
  /\ \A x \in s.support : x <= dim
  /\ \A n \in DOMAIN s.tab : Arity[n] = "nullary" =>
       \A k \in DOMAIN s.tab[n].val : s.tab[n].val[k] <= dim

Within(lines, dim) == {k \in lines : \A i \in DOMAIN k : k[i] <= dim}

Resized(s, dim) ==
  [s EXCEPT !.dim = dim,
            !.tab = [n \in DOMAIN s.tab |->
              [s.tab[n] EXCEPT !.lx = Within(@, dim), !.rx = Within(@, dim)]]]

-----------------------------------------------------------------------------
(* validate(): what every table asserts of itself.                         *)

Defined(s, keys) == \A k \in keys : \A i \in DOMAIN k : k[i] \in s.support

CarrierOK(s) ==
  \A x \in Rep : IF x \in s.support THEN s.reps[x] \in 1 .. x ELSE s.reps[x] = 0

FunctionOK(s, t, lines) ==
  /\ lines = t.lx
  /\ Defined(s, DOMAIN t.val)
  /\ \A k \in DOMAIN t.val : t.val[k] \in s.support

InverseOK(s, t) ==
  /\ t.lx = DOMAIN t.val /\ t.rx = DOMAIN t.inv
  /\ Defined(s, t.lx \cup t.rx)
  /\ \A k \in t.lx : LET back == Entry(t.inv, <<t.val[k]>>)
                     IN  Root(s.reps, back) = Root(s.reps, k[1])
  /\ \A v \in t.rx : LET forth == Entry(t.val, <<t.inv[v]>>)
                     IN  Root(s.reps, forth) = Root(s.reps, v[1])

TableOK(s, n) ==
  LET t == s.tab[n]
  IN  CASE Arity[n] = "binary" -> FunctionOK(s, t, DOMAIN t.val) /\ t.rx = t.lx
        [] Arity[n] = "symmetric" -> FunctionOK(s, t, UNION {Both(k) : k \in DOMAIN t.val})
        [] Arity[n] = "nullary" -> FunctionOK(s, t, DOMAIN t.val)
        [] Arity[n] = "injective" -> InverseOK(s, t)
        [] Arity[n] = "unary" -> Defined(s, t.lx)
        [] Arity[n] = "relation" -> t.lx = t.rx /\ Defined(s, t.lx)

Valid(s) == CarrierOK(s) /\ \A n \in DOMAIN s.tab : TableOK(s, n)

=============================================================================
