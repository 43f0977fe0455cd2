---------------------------- MODULE Approximate ----------------------------
(***************************************************************************)
(* The analyst's approximations by an ob and two sets (analyst/approximate):*)
(* what is known of the value of a term, closed under the order, JOIN and  *)
(* RAND.  s is a structure as in Intervals, with the unary and binary      *)
(* relations and their negations in s.rel, and 0 for "no ob".              *)
(***************************************************************************)
EXTENDS Naturals, Sequences, FiniteSets

Obs(s)      == 1 .. s.dim
Above(s, x) == {y \in Obs(s) : <<x, y>> \in s.less}
Below(s, y) == {x \in Obs(s) : <<x, y>> \in s.less}
LeastOb(S)  == IF S = {} THEN 0 ELSE CHOOSE x \in S : \A y \in S : x <= y

Known(s, ob) == [ob |-> ob, upper |-> Above(s, ob), lower |-> Below(s, ob)]
Unknown(s)   == [ob |-> 0, upper |-> {s.TOP}, lower |-> {s.BOT}]
Truthy(s)    == Known(s, s.constant.I)
Falsey(s)    == Known(s, s.BOT)
Maybe(s)     == [ob |-> 0, upper |-> Above(s, s.constant.I), lower |-> Below(s, s.BOT)]

FindIn(entries, args) ==
  LET vals == {e[Len(e)] : e \in {e \in entries : SubSeq(e, 1, Len(e) - 1) = args}}
  IN  LeastOb(vals)

-----------------------------------------------------------------------------
(* Closure.                                                                *)

\* The values of a symmetric function at two members of a set, if there is one.
Combined(s, name, set) ==
  IF name \notin DOMAIN s.fun THEN {}
  ELSE {e[3] : e \in {e \in s.fun[name] : e[1] \in set /\ e[2] \in set}}

\* One pass; the ob is found where both sets meet.
TryClose(s, approx) ==
  LET ob    == {approx.ob} \ {0}
      upper == approx.upper \cup ob \cup {s.TOP}
      lower == approx.lower \cup ob \cup {s.BOT}
      upper2 == UNION {Above(s, x) : x \in upper} \cup Combined(s, "RAND", upper)
      lower2 == UNION {Below(s, x) : x \in lower} \cup Combined(s, "JOIN", lower)
                  \cup Combined(s, "RAND", lower)
  IN  [ob |-> IF approx.ob # 0 THEN approx.ob ELSE LeastOb(upper2 \cap lower2),
       upper |-> upper2, lower |-> lower2]

RECURSIVE Close(_, _)
Close(s, approx) ==
  LET closed == TryClose(s, approx)
  IN  IF closed = approx THEN approx ELSE Close(s, closed)

-----------------------------------------------------------------------------
(* Application.                                                            *)

\* Mutant: a function that has a value at TOP has it everywhere.
MapBinaryTop(s, name, lhs, rhs) ==
  LET f == s.fun[name]
      flat == {l \in lhs : name \notin s.symmetric /\ FindIn(f, <<l, s.TOP>>) # 0}
  IN  {FindIn(f, <<l, s.TOP>>) : l \in flat}
        \cup {e[3] : e \in {e \in f : e[1] \in lhs \ flat /\ e[2] \in rhs}}

\* A function of APP's kind that has one value at both ends has it everywhere.
MapBinary(s, name, lhs, rhs) ==
  LET f == s.fun[name]
      Flat(l) == \E v \in Obs(s) : {<<l, s.TOP, v>>, <<l, s.BOT, v>>} \subseteq f
      flat == {l \in lhs : name \notin s.symmetric /\ Flat(l)}
  IN  {FindIn(f, <<l, s.TOP>>) : l \in flat}
        \cup {e[3] : e \in {e \in f : e[1] \in lhs \ flat /\ e[2] \in rhs}}

MapInjective(s, name, keys) ==
  {e[2] : e \in {e \in s.fun[name] : e[1] \in keys}}

FindNullary(s, name) ==
  IF s.constant[name] = 0 THEN Unknown(s) ELSE Known(s, s.constant[name])

FindFunction(s, name, args) ==
  LET obs == [i \in DOMAIN args |-> args[i].ob]
      val == FindIn(s.fun[name], obs)
      Map(part) == IF Len(args) = 1 THEN MapInjective(s, name, args[1][part])
                   ELSE MapBinary(s, name, args[1][part], args[2][part])
  IN  CASE val # 0 -> Known(s, val)
        [] val = 0 /\ name = "QUOTE" -> Unknown(s)   \* not monotone
        [] val = 0 /\ name # "QUOTE" ->
             Close(s, [ob |-> 0, upper |-> {s.TOP} \cup Map("upper"),
                       lower |-> {s.BOT} \cup Map("lower")])

FindRelation(s, name, args) ==
  LET obs == [i \in DOMAIN args |-> args[i].ob]
      negated == s.negate[name]
  IN  CASE negated = "" -> Unknown(s)
        [] negated # "" /\ obs \in s.rel[name] -> Truthy(s)
        [] negated # "" /\ obs \notin s.rel[name] /\ obs \in s.rel[negated] -> Falsey(s)
        [] OTHER -> Maybe(s)

\* Approximator::find() of a name and arguments; a name that the structure does
\* not have is unknown.
FindTerm(s, name, args) ==
  CASE args = <<>> /\ name \in DOMAIN s.constant -> FindNullary(s, name)
    [] args # <<>> /\ name \in DOMAIN s.fun -> FindFunction(s, name, args)
    [] args # <<>> /\ name \in DOMAIN s.rel -> FindRelation(s, name, args)
    [] OTHER -> Unknown(s)

-----------------------------------------------------------------------------
(* Validity.                                                               *)

IsTop(s, approx) ==
  CASE s.TOP \in approx.lower -> "TRUE"
    [] s.TOP \notin approx.lower /\ \E x \in approx.upper : <<s.TOP, x>> \in s.nless -> "FALSE"
    [] OTHER -> "MAYBE"

IsBot(s, approx) ==
  CASE s.BOT \in approx.upper -> "TRUE"
    [] s.BOT \notin approx.upper /\ \E x \in approx.lower : <<x, s.BOT>> \in s.nless -> "FALSE"
    [] OTHER -> "MAYBE"

IsValid(s, approx) == [is_top |-> IsTop(s, approx), is_bot |-> IsBot(s, approx)]
UnknownValidity == [is_top |-> "MAYBE", is_bot |-> "MAYBE"]
IsAmbiguous(validity) == "MAYBE" \in {validity.is_top, validity.is_bot}

=============================================================================
