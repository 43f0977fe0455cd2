------------------------------- MODULE Corpus -------------------------------
(***************************************************************************)
(* The analyst's corpus: lines that may define names, linked into terms    *)
(* that are shared (analyst/corpus).  A term is a node [arity, name, args, *)
(* ob]; equal nodes are one, as Dag's UniqueSet makes them, so a node      *)
(* stands for its pointer.  The order of pointers, in which the arguments  *)
(* of a symmetric function are kept, is not modelled.                      *)
(***************************************************************************)
EXTENDS Approximate, SequencesExt, TLC

Term(arity, name, args) == [arity |-> arity, name |-> name, args |-> args, ob |-> 0]
ObTerm(ob) == [arity |-> "OB", name |-> "", args |-> <<>>, ob |-> ob]
DagHole     == Term("HOLE", "", <<>>)
Variable(name) == Term("VARIABLE", name, <<>>)

SemiNullary(s, name) ==
  IF s.constant[name] # 0 THEN ObTerm(s.constant[name])
  ELSE Term("NULLARY_FUNCTION", name, <<>>)

\* The Dag's constructors: a term of obs that the structure knows is an ob.
\* BINARY_FUNCTION may come with the name of a symmetric function, which it
\* does not find.
Node(s, arity, name, args) ==
  LET obs == [i \in DOMAIN args |-> args[i].ob]
      ground == \A i \in DOMAIN obs : obs[i] # 0
      fun == IF arity = "BINARY_FUNCTION" /\ name \in s.symmetric THEN {} ELSE s.fun[name]
      val == FindIn(fun, obs)
  IN  CASE arity = "NULLARY_FUNCTION" -> SemiNullary(s, name)
        [] arity \in {"INJECTIVE_FUNCTION", "BINARY_FUNCTION", "SYMMETRIC_FUNCTION"} ->
             IF ground /\ val # 0 THEN ObTerm(val) ELSE Term(arity, name, args)
        [] arity \in {"UNARY_RELATION", "BINARY_RELATION"} ->
             CASE ground /\ obs \in s.rel[name] -> SemiNullary(s, "I")
               [] /\ ground /\ obs \notin s.rel[name]
                  /\ s.negate[name] # "" /\ obs \in s.rel[s.negate[name]] ->
                    SemiNullary(s, "BOT")
               [] OTHER -> Term(arity, name, args)

\* Both ways of the order; equal obs need no table.
DagEqual(s, lhs, rhs) ==
  IF lhs.ob # 0 /\ lhs = rhs THEN SemiNullary(s, "I")
  ELSE Node(s, "BINARY_FUNCTION", "APP",
            <<Node(s, "BINARY_RELATION", "LESS", <<lhs, rhs>>),
              Node(s, "BINARY_RELATION", "LESS", <<rhs, lhs>>)>>)

\* Parser and Reducer.  Symmetric functions are reduced as binary ones.
RECURSIVE ParseExpr(_, _)
ParseExpr(s, e) ==
  LET args == [i \in DOMAIN e.args |-> ParseExpr(s, e.args[i])]
  IN  CASE e.arity = "VAR" -> Variable(e.name)
        [] e.arity \in {"HOLE", "ERROR"} -> DagHole
        [] e.arity = "EQUAL" -> DagEqual(s, args[1], args[2])
        [] e.arity = "SYMMETRIC_FUNCTION" -> Node(s, "BINARY_FUNCTION", e.name, args)
        [] OTHER -> Node(s, e.arity, e.name, args)

-----------------------------------------------------------------------------
(* The linker.  defs is m_definitions, from names to terms.                *)

\* Of two definitions of one name, the first counts.
Definitions(s, lines) ==
  LET named == SelectSeq(lines, LAMBDA l : l.name # "")
      First(name) == CHOOSE i \in DOMAIN named :
                       named[i].name = name /\ \A j \in 1 .. i - 1 : named[j].name # name
  IN  [name \in {named[i].name : i \in DOMAIN named} |->
         ParseExpr(s, named[First(name)].body)]

RECURSIVE Free(_)
Free(t) == IF t.arity = "VARIABLE" THEN {t.name}
           ELSE UNION {Free(t.args[i]) : i \in DOMAIN t.args}

\* link(): variables that are ground give way to their definitions.
RECURSIVE Link(_, _, _, _)
Link(s, defs, ground, t) ==
  CASE t.arity \in {"OB", "HOLE", "NULLARY_FUNCTION"} -> t
    [] t.arity = "VARIABLE" -> IF t.name \in ground THEN defs[t.name] ELSE t
    [] OTHER -> Node(s, t.arity, t.name,
                     [i \in DOMAIN t.args |-> Link(s, defs, ground, t.args[i])])

\* The loop of finish(): free_counts is set by the body of a definition and
\* counted down by its variable, so that only a definition whose variable is
\* the whole body of another can follow the ones that are ground at first.
RECURSIVE FinishLoop(_, _, _, _, _)
FinishLoop(s, linker, counts, occurrences, queue) ==
  IF queue = <<>> THEN linker
  ELSE LET var == Head(queue)
           linked == Link(s, linker.defs, linker.ground, linker.defs[var])
           supers == occurrences[var]
           Count(v) == IF Variable(v) \in DOMAIN counts THEN counts[Variable(v)] ELSE 0
           next == {v \in supers : Count(v) = 1}
       IN  FinishLoop(s,
             [defs |-> [linker.defs EXCEPT ![var] = linked],
              ground |-> linker.ground \cup {var}],
             [t \in DOMAIN counts |->
                IF t.arity = "VARIABLE" /\ t.name \in supers /\ counts[t] # 0
                  THEN counts[t] - 1 ELSE counts[t]],
             [occurrences EXCEPT ![var] = {}],
             Tail(queue) \o SetToSeq(next))

Finish(s, defs) ==
  LET names == DOMAIN defs
      all == names \cup UNION {Free(defs[v]) : v \in names}
  IN  FinishLoop(s, [defs |-> defs, ground |-> {}],
                 [t \in {defs[v] : v \in names} |-> Cardinality(Free(t))],
                 [x \in all |-> {v \in names : x \in Free(defs[v])}],
                 SetToSeq({v \in names : Free(defs[v]) = {}}))

Linker(s, lines) == Finish(s, Definitions(s, lines))

ParseCorpus(s, linker, lines) ==
  [i \in DOMAIN lines |-> Link(s, linker.defs, linker.ground, ParseExpr(s, lines[i].body))]

\* approximate(): each name is unrolled at most depth times on the way to a leaf.
RECURSIVE Unrolled(_, _, _, _)
Unrolled(s, defs, depths, t) ==
  CASE t.arity \in {"OB", "HOLE", "NULLARY_FUNCTION"} -> t
    [] t.arity = "VARIABLE" ->
         IF t.name \notin DOMAIN defs THEN DagHole
         ELSE IF depths[t.name] = 0 THEN DagHole
         ELSE Unrolled(s, defs, [depths EXCEPT ![t.name] = @ - 1], defs[t.name])
    [] OTHER -> Node(s, t.arity, t.name,
                     [i \in DOMAIN t.args |-> Unrolled(s, defs, depths, t.args[i])])

Approximated(s, linker, t, depth) ==
  Unrolled(s, linker.defs, [v \in DOMAIN linker.defs |-> depth], t)

=============================================================================
