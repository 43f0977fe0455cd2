------------------------------- MODULE Parser -------------------------------
(***************************************************************************)
(* parse_theory() of the analyst (analyst/propagate.cpp): the expressions  *)
(* of all facts, without duplicates, arguments before what they are        *)
(* arguments of.                                                           *)
(***************************************************************************)
EXTENDS Naturals, Sequences, SequencesExt

Relations == {"UNARY_RELATION", "BINARY_RELATION", "EQUAL"}

RECURSIVE Terms(_)
Terms(e) == FoldLeft(LAMBDA q, a : q \o Terms(a), <<>>, e.args) \o <<e>>

\* ExprSet: equal expressions are one.
Insert(q, e) == IF e \in Range(q) THEN q ELSE Append(q, e)

Parses(e) == /\ e.arity \in Relations
             /\ \A t \in Range(Terms(e)) : t.arity # "ERROR"

\* A fact that does not parse leaves an empty theory.
Parse(facts) ==
  LET all == FoldLeft(LAMBDA q, e : q \o Terms(e), <<>>, facts)
      exprs == IF \A i \in DOMAIN facts : Parses(facts[i])
                 THEN FoldLeft(Insert, <<>>, all) ELSE <<>>
      Place(e) == CHOOSE i \in DOMAIN exprs : exprs[i] = e
  IN  [i \in DOMAIN exprs |->
         [exprs[i] EXCEPT !.args = [a \in DOMAIN @ |-> Place(@[a])]]]

=============================================================================
