----------------------------- MODULE MCAnalyst -----------------------------
(* Expressions and structures for the models of the analyst.               *)
EXTENDS Naturals, Sequences

\* Expressions.
C(n)       == [arity |-> "NULLARY_FUNCTION", name |-> n, args |-> <<>>]
X(n)       == [arity |-> "VAR", name |-> n, args |-> <<>>]
Hole       == [arity |-> "HOLE", name |-> "", args |-> <<>>]
Bad        == [arity |-> "ERROR", name |-> "", args |-> <<>>]
APP(a, b)  == [arity |-> "BINARY_FUNCTION", name |-> "APP", args |-> <<a, b>>]
JOIN(a, b) == [arity |-> "SYMMETRIC_FUNCTION", name |-> "JOIN", args |-> <<a, b>>]
QUOTE(a)   == [arity |-> "INJECTIVE_FUNCTION", name |-> "QUOTE", args |-> <<a>>]
LESS(a, b)  == [arity |-> "BINARY_RELATION", name |-> "LESS", args |-> <<a, b>>]
NLESS(a, b) == [arity |-> "BINARY_RELATION", name |-> "NLESS", args |-> <<a, b>>]
CLOSED(a)   == [arity |-> "UNARY_RELATION", name |-> "CLOSED", args |-> <<a>>]
EQUAL(a, b) == [arity |-> "EQUAL", name |-> "", args |-> <<a, b>>]

TOP == C("TOP")
BOT == C("BOT")
I   == C("I")
F   == C("F")

\* Models of TOP = 1, BOT = 2, I = 3 and, if there is a fourth, of F = K I = 4,
\* which is incomparable with I.
Order(n) == {p \in (1 .. n) \X (1 .. n) : p[1] = p[2] \/ p[1] = 2 \/ p[2] = 1}
App(n)   == [p \in (1 .. n) \X (1 .. n) |->
               CASE p[1] = 3 -> p[2] [] p[1] = 4 -> 3 [] OTHER -> p[1]]
Join(n)  == [p \in (1 .. n) \X (1 .. n) |->
               CASE p[1] = p[2] \/ p[2] = 2 -> p[1] [] p[1] = 2 -> p[2] [] OTHER -> 1]
Graph(f) == {<<p[1], p[2], f[p]>> : p \in DOMAIN f}

\* A structure that knows such a model but for some entries and constants.
Part(n, missing, unknown) ==
  LET meaning == [TOP |-> 1, BOT |-> 2, I |-> 3, F |-> 4]
  IN  [dim |-> n, TOP |-> 1, BOT |-> 2, symmetric |-> {"JOIN"},
       less |-> Order(n), nless |-> ((1 .. n) \X (1 .. n)) \ Order(n),
       constant |-> [c \in DOMAIN meaning |->
                       IF meaning[c] > n \/ c \in unknown THEN 0 ELSE meaning[c]],
       fun |-> [APP |-> Graph(App(n)) \ missing, JOIN |-> Graph(Join(n)),
                QUOTE |-> {<<i, i>> : i \in 2 .. n}],
       rel |-> [LESS |-> Order(n), NLESS |-> ((1 .. n) \X (1 .. n)) \ Order(n),
                CLOSED |-> {<<3>>}, NCLOSED |-> {<<1>>}],
       negate |-> [LESS |-> "NLESS", NLESS |-> "LESS",
                   CLOSED |-> "NCLOSED", NCLOSED |-> "CLOSED"],
       order |-> Order(n), closed |-> 2 .. n,
       model |-> [APP |-> App(n), JOIN |-> Join(n)],
       meaning |-> meaning, quoted |-> [i \in 1 .. n |-> i]]

Chain   == Part(3, {}, {})
Holed   == Part(3, {<<3, 3, 3>>, <<1, 2, 1>>}, {})
Diamond == Part(4, {}, {})
Partial == Part(4, {<<4, 3, 3>>}, {"F"})

x == X("x")
y == X("y")

=============================================================================
