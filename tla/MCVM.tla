------------------------------- MODULE MCVM -------------------------------
(* Small surveyors.  The programs are what the repository's compiler makes *)
(* of the rules that stand above them.                                     *)
EXTENDS Derivation

Ln(op, tables, args) == [op |-> op, tables |-> tables, args |-> args]

New(a) == <<"new", a>>
Old(a) == <<"old", a>>
Jmp(n) == <<"jump", n>>

NewSet(a) == <<"newset", a>>
Pos(a)    == <<"pos", a>>
Neg(a)    == <<"neg", a>>

\* LESS is transitive and antisymmetric.
OrderPrograms ==
  <<<<Ln("FOR_BLOCK", <<>>, <<>>),
      Ln("FOR_ALL", <<>>, <<New("a")>>),
      Ln("IF_BLOCK", <<>>, <<Old("a")>>),
      Ln("FOR", <<"LESS">>, <<Old("a"), New("b")>>),
      Ln("LETS", <<"LESS">>, <<Old("b"), NewSet("c")>>),
      Ln("LETS", <<"LESS">>, <<Old("a"), NewSet("d")>>),
      Ln("FOR_SETS", <<>>, <<New("e"), Pos("c"), Neg("d")>>),
      Ln("INFER", <<"LESS">>, <<Old("a"), Old("e")>>)>>,

    <<Ln("FOR_BLOCK", <<>>, <<>>),
      Ln("FOR_ALL", <<>>, <<New("a")>>),
      Ln("IF_BLOCK", <<>>, <<Old("a")>>),
      Ln("FOR", <<"LESS">>, <<Old("a"), New("b")>>),
      Ln("LETS", <<"NLESS">>, <<Old("a"), NewSet("c")>>),
      Ln("LETS", <<"NLESS">>, <<Old("b"), NewSet("d")>>),
      Ln("FOR_SETS", <<>>, <<New("e"), Pos("c"), Neg("d")>>),
      Ln("INFER", <<"NLESS">>, <<Old("b"), Old("e")>>)>>,

    <<Ln("FOR_BLOCK", <<>>, <<>>),
      Ln("FOR_ALL", <<>>, <<New("a")>>),
      Ln("IF_BLOCK", <<>>, <<Old("a")>>),
      Ln("LETS", <<"LESS">>, <<Old("a"), NewSet("b")>>),
      Ln("LETS", <<"LESS">>, <<NewSet("c"), Old("a")>>),
      Ln("FOR_SETS", <<>>, <<New("d"), Pos("b"), Pos("c")>>),
      Ln("INFER_EQUAL", <<>>, <<Old("a"), Old("d")>>)>>,

    <<Ln("FOR_BLOCK", <<>>, <<>>),
      Ln("FOR_ALL", <<>>, <<New("a")>>),
      Ln("IF_BLOCK", <<>>, <<Old("a")>>),
      Ln("LETS", <<"NLESS">>, <<Old("a"), NewSet("b")>>),
      Ln("FOR_SETS", <<>>, <<New("c"), Neg("b")>>),
      Ln("LETS", <<"LESS">>, <<Old("c"), NewSet("d")>>),
      Ln("LETS", <<"NLESS">>, <<Old("a"), NewSet("e")>>),
      Ln("FOR_SETS", <<>>, <<New("f"), Pos("d"), Pos("e")>>),
      Ln("INFER", <<"NLESS">>, <<Old("a"), Old("c")>>)>>,

    <<Ln("GIVEN", <<"LESS">>, <<New("a"), New("b")>>),
      Ln("SEQUENCE", <<>>, <<Jmp(12)>>),
      Ln("IF", <<"LESS">>, <<Old("b"), Old("a")>>),
      Ln("SEQUENCE", <<>>, <<Jmp(3)>>),
      Ln("INFER_EQUAL", <<>>, <<Old("a"), Old("b")>>),
      Ln("INFER_EQUAL", <<>>, <<Old("b"), Old("a")>>),
      Ln("SEQUENCE", <<>>, <<Jmp(16)>>),
      Ln("LETS", <<"NLESS">>, <<NewSet("c"), Old("b")>>),
      Ln("LETS", <<"NLESS">>, <<NewSet("d"), Old("a")>>),
      Ln("FOR_SETS", <<>>, <<New("e"), Pos("c"), Neg("d")>>),
      Ln("INFER", <<"NLESS">>, <<Old("e"), Old("a")>>),
      Ln("SEQUENCE", <<>>, <<Jmp(16)>>),
      Ln("LETS", <<"LESS">>, <<NewSet("c"), Old("a")>>),
      Ln("LETS", <<"LESS">>, <<NewSet("d"), Old("b")>>),
      Ln("FOR_SETS", <<>>, <<New("e"), Pos("c"), Neg("d")>>),
      Ln("INFER", <<"LESS">>, <<Old("e"), Old("b")>>),
      Ln("SEQUENCE", <<>>, <<Jmp(16)>>),
      Ln("LETS", <<"LESS">>, <<Old("b"), NewSet("c")>>),
      Ln("LETS", <<"LESS">>, <<Old("a"), NewSet("d")>>),
      Ln("FOR_SETS", <<>>, <<New("e"), Pos("c"), Neg("d")>>),
      Ln("INFER", <<"LESS">>, <<Old("a"), Old("e")>>),
      Ln("LETS", <<"NLESS">>, <<Old("a"), NewSet("c")>>),
      Ln("LETS", <<"NLESS">>, <<Old("b"), NewSet("d")>>),
      Ln("FOR_SETS", <<>>, <<New("e"), Pos("c"), Neg("d")>>),
      Ln("INFER", <<"NLESS">>, <<Old("b"), Old("e")>>)>>,

    <<Ln("GIVEN", <<"NLESS">>, <<New("a"), New("b")>>),
      Ln("LETS", <<"LESS">>, <<Old("a"), NewSet("c")>>),
      Ln("LETS", <<"NLESS">>, <<NewSet("d"), Old("b")>>),
      Ln("FOR_SETS", <<>>, <<New("e"), Pos("c"), Neg("d")>>),
      Ln("INFER", <<"NLESS">>, <<Old("e"), Old("b")>>)>>>>

\* LESS x x.  EQUAL APP I x x.
IdentityPrograms ==
  <<<<Ln("FOR_ALL", <<>>, <<New("a")>>),
      Ln("INFER", <<"LESS">>, <<Old("a"), Old("a")>>)>>,

    <<Ln("FOR", <<"I">>, <<New("a")>>),
      Ln("FOR_ALL", <<>>, <<New("b")>>),
      Ln("INFER", <<"APP">>, <<Old("a"), Old("b"), Old("b")>>)>>,

    <<Ln("GIVEN_EXISTS", <<>>, <<New("a")>>),
      Ln("SEQUENCE", <<>>, <<Jmp(4)>>),
      Ln("INFER", <<"LESS">>, <<Old("a"), Old("a")>>),
      Ln("FOR", <<"I">>, <<New("b")>>),
      Ln("INFER", <<"APP">>, <<Old("b"), Old("a"), Old("a")>>)>>>>

\* CLOSED x, LESS x y |- CLOSED y.  LESS x JOIN x y.  LESS x x |- CLOSED x.
ClosedPrograms ==
  <<<<Ln("FOR", <<"CLOSED">>, <<New("a")>>),
      Ln("SEQUENCE", <<>>, <<Jmp(14)>>),
      Ln("LETS", <<"LESS">>, <<Old("a"), NewSet("b")>>),
      Ln("LETS", <<"CLOSED">>, <<NewSet("c")>>),
      Ln("FOR_SETS", <<>>, <<New("d"), Pos("b"), Neg("c")>>),
      Ln("INFER", <<"CLOSED">>, <<Old("d")>>),
      Ln("LETS", <<"NCLOSED">>, <<NewSet("b")>>),
      Ln("LETS", <<"NLESS">>, <<Old("a"), NewSet("c")>>),
      Ln("FOR_SETS", <<>>, <<New("d"), Pos("b"), Neg("c")>>),
      Ln("INFER", <<"NLESS">>, <<Old("a"), Old("d")>>)>>,

    <<Ln("LETS", <<"NCLOSED">>, <<NewSet("a")>>),
      Ln("FOR_SETS", <<>>, <<New("b"), Neg("a")>>),
      Ln("LETS", <<"LESS">>, <<Old("b"), NewSet("c")>>),
      Ln("LETS", <<"NCLOSED">>, <<NewSet("d")>>),
      Ln("FOR_SETS", <<>>, <<New("e"), Pos("c"), Pos("d")>>),
      Ln("INFER", <<"NCLOSED">>, <<Old("b")>>)>>,

    <<Ln("FOR_BLOCK", <<>>, <<>>),
      Ln("FOR_ALL", <<>>, <<New("a")>>),
      Ln("IF_BLOCK", <<>>, <<Old("a")>>),
      Ln("FOR", <<"JOIN">>, <<Old("a"), New("b"), New("c")>>),
      Ln("INFER", <<"LESS">>, <<Old("a"), Old("c")>>)>>,

    <<Ln("GIVEN", <<"LESS">>, <<New("a"), New("b")>>),
      Ln("SEQUENCE", <<>>, <<Jmp(6)>>),
      Ln("IF", <<"CLOSED">>, <<Old("a")>>),
      Ln("INFER", <<"CLOSED">>, <<Old("b")>>),
      Ln("IF", <<"NCLOSED">>, <<Old("b")>>),
      Ln("INFER", <<"NCLOSED">>, <<Old("a")>>)>>,

    <<Ln("GIVEN", <<"LESS">>, <<New("a"), New("b")>>),
      Ln("IF_EQUAL", <<>>, <<Old("a"), Old("b")>>),
      Ln("INFER", <<"CLOSED">>, <<Old("a")>>)>>>>

\* LESS x y |- LESS QUOTE x QUOTE y.  EQUAL APP E QUOTE x x.
QuotePrograms ==
  <<<<Ln("FOR", <<"QUOTE">>, <<New("a"), New("b")>>),
      Ln("SEQUENCE", <<>>, <<Jmp(19)>>),
      Ln("LETS", <<"LESS">>, <<Old("a"), NewSet("c")>>),
      Ln("LETS", <<"QUOTE">>, <<NewSet("d")>>),
      Ln("FOR_SETS", <<>>, <<New("e"), Pos("c"), Pos("d")>>),
      Ln("LET", <<"QUOTE">>, <<Old("e"), New("d")>>),
      Ln("INFER", <<"LESS">>, <<Old("b"), Old("d")>>),
      Ln("LETS", <<"QUOTE">>, <<NewSet("c")>>),
      Ln("LETS", <<"NLESS">>, <<Old("a"), NewSet("d")>>),
      Ln("FOR_SETS", <<>>, <<New("e"), Pos("c"), Neg("d")>>),
      Ln("LET", <<"QUOTE">>, <<Old("e"), New("c")>>),
      Ln("IF", <<"NLESS">>, <<Old("b"), Old("c")>>),
      Ln("INFER", <<"NLESS">>, <<Old("a"), Old("e")>>)>>,

    <<Ln("FOR", <<"E">>, <<New("a")>>),
      Ln("FOR", <<"QUOTE">>, <<New("b"), New("c")>>),
      Ln("INFER", <<"APP">>, <<Old("a"), Old("c"), Old("b")>>)>>,

    <<Ln("GIVEN", <<"LESS">>, <<New("a"), New("b")>>),
      Ln("FOR", <<"QUOTE">>, <<Old("a"), New("c")>>),
      Ln("FOR", <<"QUOTE">>, <<Old("b"), New("d")>>),
      Ln("INFER", <<"LESS">>, <<Old("c"), Old("d")>>)>>>>

\* EQUAL APP x y RAND x y.
PairPrograms ==
  <<<<Ln("FOR_BLOCK", <<>>, <<>>),
      Ln("FOR_ALL", <<>>, <<New("a")>>),
      Ln("IF_BLOCK", <<>>, <<Old("a")>>),
      Ln("FOR_ALL", <<>>, <<New("b")>>),
      Ln("INFER_PAIR", <<"APP", "RAND">>, <<Old("a"), Old("b"), Old("a"), Old("b")>>)>>>>

OrderRules ==
  {[vars  |-> {"x", "y", "z"},
    given |-> {<<"LESS", <<"x", "y">>>>, <<"LESS", <<"y", "z">>>>},
    then  |-> <<"LESS", <<"x", "z">>>>],
   [vars  |-> {"x", "y", "z"},
    given |-> {<<"LESS", <<"x", "y">>>>, <<"NLESS", <<"x", "z">>>>},
    then  |-> <<"NLESS", <<"y", "z">>>>],
   [vars  |-> {"x", "y", "z"},
    given |-> {<<"LESS", <<"y", "z">>>>, <<"NLESS", <<"x", "z">>>>},
    then  |-> <<"NLESS", <<"x", "y">>>>],
   [vars  |-> {"x", "y"},
    given |-> {<<"LESS", <<"x", "y">>>>, <<"LESS", <<"y", "x">>>>},
    then  |-> <<"EQUAL", "x", "y">>]}

Identity(n) == [x \in 1 .. n |-> x]

\* Two obs that are equal, as they are below each other, and one above them.
\* (Without the cleanup programs of NLESS.)
Circle ==
  [dim |-> 3, count |-> 3, phase |-> "initialize",
   tables |-> [LESS |-> {<<1, 2>>, <<2, 1>>, <<2, 3>>}, NLESS |-> {<<3, 2>>}],
   programs |-> <<OrderPrograms[1], OrderPrograms[3], OrderPrograms[5]>>, rules |-> OrderRules, assume |-> <<>>,
   model |-> [LESS |-> {<<1, 1>>, <<1, 3>>, <<3, 3>>}, NLESS |-> {<<3, 1>>}],
   meaning |-> <<1, 1, 3>>]

\* Facts about order are assumed one by one.
Chain ==
  [dim |-> 3, count |-> 3, phase |-> "initialize",
   tables |-> [LESS |-> {}, NLESS |-> {}, I |-> {<<1>>}, K |-> {<<2>>}, E |-> {<<3>>}],
   programs |-> <<OrderPrograms[2], OrderPrograms[5], OrderPrograms[6]>>,
   rules |-> OrderRules,
   assume |-> <<<<"I", "K", "LESS">>, <<"I", "E", "NLESS">>>>,
   model |-> [LESS |-> {<<1, 2>>}, NLESS |-> {<<1, 3>>, <<2, 3>>},
              I |-> {<<1>>}, K |-> {<<2>>}, E |-> {<<3>>}],
   meaning |-> Identity(3)]

\* What is below an ob and what is above another one meet when they are equal.
Meeting ==
  [dim |-> 4, count |-> 4, phase |-> "initialize",
   tables |-> [LESS |-> {<<3, 1>>, <<2, 4>>}, NLESS |-> {}, I |-> {<<1>>}, K |-> {<<2>>}],
   programs |-> <<OrderPrograms[1], OrderPrograms[5]>>,
   rules |-> OrderRules, assume |-> <<<<"I", "K", "EQUAL">>>>,
   model |-> [LESS |-> {<<3, 1>>, <<1, 4>>, <<3, 4>>}, NLESS |-> {},
              I |-> {<<1>>}, K |-> {<<1>>}],
   meaning |-> <<1, 1, 3, 4>>]

\* The cleanup is restarted until it finds nothing.
Restarting ==
  [dim |-> 3, count |-> 2, phase |-> "survey",
   tables |-> [LESS |-> {<<1, 2>>, <<2, 1>>}, NLESS |-> {}, K |-> {}],
   programs |-> <<OrderPrograms[1]>>,
   rules |-> {r \in OrderRules : r.then[1] = "LESS"}, assume |-> <<>>,
   model |-> [LESS |-> {1, 2} \X {1, 2}, NLESS |-> {}, K |-> {<<3>>}],
   meaning |-> Identity(2)]

IdentityRules ==
  {[vars |-> {"x"}, given |-> {}, then |-> <<"LESS", <<"x", "x">>>>],
   [vars |-> {"i", "x"}, given |-> {<<"I", <<"i">>>>}, then |-> <<"APP", <<"i", "x", "x">>>>]}

\* An algebra of two elements, 1 = I and 2 = K.
IdentityModel ==
  [LESS |-> {<<1, 1>>, <<2, 2>>}, NLESS |-> {},
   I |-> {<<1>>}, K |-> {<<2>>},
   APP |-> {<<1, 1, 1>>, <<1, 2, 2>>, <<2, 1, 2>>, <<2, 2, 2>>}]

\* The facts EQUAL APP K I K and LESS K K are assumed.
Assuming ==
  [dim |-> 4, count |-> 2, phase |-> "initialize",
   tables |-> [LESS |-> {<<1, 1>>, <<2, 2>>}, NLESS |-> {}, I |-> {<<1>>}, K |-> {<<2>>}, APP |-> {}],
   programs |-> <<IdentityPrograms[2], IdentityPrograms[3]>>,
   rules |-> {r \in IdentityRules : r.given # {}},
   assume |-> <<<<"K", "I", "APP", "K", "EQUAL">>, <<"K", "I", "APP", "K", "LESS">>>>,
   model |-> IdentityModel, meaning |-> Identity(2)]

Sampling ==
  [dim |-> 3, count |-> 2, phase |-> "survey",
   tables |-> [LESS |-> {<<1, 1>>, <<2, 2>>}, NLESS |-> {}, I |-> {<<1>>}, K |-> {<<2>>},
               APP |-> {<<1, 1, 1>>, <<1, 2, 2>>}],
   programs |-> IdentityPrograms, rules |-> IdentityRules, assume |-> <<>>,
   model |-> IdentityModel, meaning |-> Identity(2)]

ClosedRules ==
  {[vars  |-> {"x", "y"},
    given |-> {<<"CLOSED", <<"x">>>>, <<"LESS", <<"x", "y">>>>},
    then  |-> <<"CLOSED", <<"y">>>>],
   [vars  |-> {"x", "y"},
    given |-> {<<"NCLOSED", <<"y">>>>, <<"LESS", <<"x", "y">>>>},
    then  |-> <<"NCLOSED", <<"x">>>>],
   [vars  |-> {"x", "y"},
    given |-> {<<"CLOSED", <<"x">>>>, <<"NCLOSED", <<"y">>>>},
    then  |-> <<"NLESS", <<"x", "y">>>>],
   [vars  |-> {"x", "y", "z"}, given |-> {<<"JOIN", <<"x", "y", "z">>>>},
    then  |-> <<"LESS", <<"x", "z">>>>]}

Inheriting ==
  [dim |-> 3, count |-> 3, phase |-> "initialize",
   tables |-> [LESS |-> {}, NLESS |-> {}, CLOSED |-> {<<1>>}, NCLOSED |-> {<<3>>},
               JOIN |-> {<<1, 1, 2>>, <<2, 2, 2>>}],
   programs |-> ClosedPrograms, rules |-> ClosedRules, assume |-> <<>>,
   model |-> [LESS |-> {<<1, 2>>, <<2, 2>>}, NLESS |-> {<<1, 3>>, <<2, 3>>},
              CLOSED |-> {<<1>>, <<2>>}, NCLOSED |-> {<<3>>},
              JOIN |-> {<<1, 1, 2>>, <<2, 2, 2>>}],
   meaning |-> Identity(3)]

QuoteRules ==
  {[vars  |-> {"x", "y", "a", "b"},
    given |-> {<<"LESS", <<"x", "y">>>>, <<"QUOTE", <<"x", "a">>>>, <<"QUOTE", <<"y", "b">>>>},
    then  |-> <<"LESS", <<"a", "b">>>>],
   [vars  |-> {"e", "x", "a"},
    given |-> {<<"E", <<"e">>>>, <<"QUOTE", <<"x", "a">>>>},
    then  |-> <<"APP", <<"e", "a", "x">>>>]}

Quoting ==
  [dim |-> 4, count |-> 3, phase |-> "initialize",
   tables |-> [LESS |-> {<<1, 2>>}, NLESS |-> {<<2, 1>>, <<3, 2>>}, E |-> {},
               QUOTE |-> {<<1, 2>>, <<2, 3>>}, APP |-> {}],
   programs |-> QuotePrograms, rules |-> QuoteRules, assume |-> <<>>,
   model |-> [LESS |-> {<<1, 2>>, <<2, 3>>}, NLESS |-> {<<2, 1>>, <<3, 2>>}, E |-> {<<4>>},
              QUOTE |-> {<<1, 2>>, <<2, 3>>}, APP |-> {<<4, 2, 1>>, <<4, 3, 2>>}],
   meaning |-> Identity(3)]

PairRules ==
  {[vars |-> {"x", "y"}, given |-> {}, then |-> <<"PAIR", "APP", <<"x", "y">>, "RAND", <<"x", "y">>>>]}

Pairing ==
  [dim |-> 3, count |-> 3, phase |-> "initialize",
   tables |-> [LESS |-> {}, NLESS |-> {},
               APP |-> {<<1, 2, 3>>, <<2, 2, 2>>}, RAND |-> {<<1, 2, 2>>, <<2, 1, 2>>, <<1, 1, 1>>}],
   programs |-> PairPrograms, rules |-> PairRules, assume |-> <<>>,
   model |-> [LESS |-> {}, NLESS |-> {},
              APP  |-> {<<1, 1, 1>>, <<1, 2, 2>>, <<2, 1, 2>>, <<2, 2, 2>>},
              RAND |-> {<<1, 1, 1>>, <<1, 2, 2>>, <<2, 1, 2>>, <<2, 2, 2>>}],
   meaning |-> <<1, 2, 2>>]

MCWorlds == {Circle, Chain, Meeting, Restarting, Assuming, Sampling, Inheriting, Quoting, Pairing}

\* All that the programs and facts come to, in the models.
RECURSIVE Explored(_, _, _, _)
Explored(w, Next1(_, _), seen, new) ==
  IF new = {} THEN seen
  ELSE Explored(w, Next1, seen \cup new, UNION {Next1(w, c) : c \in new} \ (seen \cup new))

MCCertificate(w) == [places |-> Explored(w, Successors, {}, Starts(w)),
                     facts  |-> Explored(w, FactSuccessors, {}, FactStarts(w))]

\* The rules are true in the models.
ASSUME ModelsObeyRules ==
  \A w \in MCWorlds : \A rule \in w.rules :
    Holds(rule, UNION {{u[i] : i \in DOMAIN u} :
                          u \in UNION {w.model[n] : n \in DOMAIN w.model}},
          w.model, LAMBDA x, y : x = y)

=============================================================================
