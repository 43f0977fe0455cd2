------------------------------- MODULE Router -------------------------------
(***************************************************************************)
(* The index of a structure's facts by value (atlas/macro/router) and what *)
(* the cartographer finds with it: the obs that a language can define.     *)
(* Positions in the sorted vector of segments count from 0, as there.      *)
(***************************************************************************)
EXTENDS Macro

\* The functions of the language, in the order the constructor takes them.
TypesOf(s, language) ==
  LET of(kind) == SetToSeq({n \in DOMAIN s.tab \cap language : Arity[n] = kind})
  IN  of("nullary") \o of("injective") \o of("binary") \o of("symmetric")

\* A segment is a fact <<val, type, arg1, arg2>>; a symmetric function has one
\* for each order of its arguments.
SegmentsOf(s, types, i) ==
  LET n == types[i]
      t == s.tab[n]
  IN  {CASE Arity[n] = "nullary" -> <<t.val[l], i, 0, 0>>
         [] Arity[n] = "injective" -> <<t.val[l], i, l[1], 0>>
         [] OTHER -> <<t.val[KeyOf(n, l)], i, l[1], l[2]>> : l \in t.lx}

Before(a, b) ==
  \E i \in DOMAIN a : a[i] < b[i] /\ \A j \in 1 .. i - 1 : a[j] = b[j]

Segments(s, types) ==
  InOrder(UNION {SegmentsOf(s, types, i) : i \in DOMAIN types}, Before)

\* m_value_index: where the last segment of each value is; 0 for a value that
\* has none ("assume all values are reached by at least one segment").
ValueIndex(segments, count) ==
  [v \in 0 .. count |->
     LET at == {i \in DOMAIN segments : segments[i][1] = v}
     IN  IF at = {} THEN 0 ELSE High(at) - 1]

\* iter_val(): from the last segment of the value before to the last of val.
FirstOf(index, val) == index[val - 1]
PastOf(index, val)  == index[val] + 1

IterVal(segments, index, val) ==
  SubSeq(segments, FirstOf(index, val) + 1, PastOf(index, val))

\* The range is ill-formed: the loop runs off the vector and may see anything.
RunsOff(segments, index, val) ==
  PastOf(index, val) < FirstOf(index, val) \/ PastOf(index, val) > Len(segments)

\* defines(): a nullary function, or one whose arguments are defined.
Defines(segment, defined) == {segment[3], segment[4]} \ {0} \subseteq defined

\* find_defined(), when the loops that run off the vector find a segment for
\* the obs in `wild` and none for the others.
FindDefined(s, language, wild) ==
  LET types    == TypesOf(s, language)
      segments == Segments(s, types)
      index    == ValueIndex(segments, Cardinality(s.support))
      reached(defined) ==
        {x \in s.support :
           IF RunsOff(segments, index, x) THEN x \in wild
           ELSE \E i \in DOMAIN IterVal(segments, index, x) :
                  Defines(IterVal(segments, index, x)[i], defined)}
      found[k \in 0 .. Cardinality(s.support)] ==
        IF k = 0 THEN {} ELSE found[k - 1] \cup reached(found[k - 1])
  IN  found[Cardinality(s.support)]

\* What a language can define from obs that are there already, said without
\* the index: the least set of obs that has those and is closed under its
\* functions.
DefinableFrom(s, language, start) ==
  LET facts == UNION {Facts(s, n) : n \in {m \in DOMAIN s.tab \cap language :
                                             Turn(Arity[m]) <= 4}}
      defined[k \in 0 .. Cardinality(s.support)] ==
        IF k = 0 THEN start
        ELSE defined[k - 1] \cup
               {Last(f) : f \in {g \in facts :
                  \A i \in 1 .. Len(g) - 1 : g[i] \in defined[k - 1]}}
  IN  defined[Cardinality(s.support)]

Definable(s, language) == DefinableFrom(s, language, {})

=============================================================================
