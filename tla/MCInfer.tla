------------------------------ MODULE MCInfer ------------------------------
EXTENDS Infer, TLC

Constants(K, TOP, BOT, C) == [K |-> K, TOP |-> TOP, BOT |-> BOT, C |-> C]

Known(APP, COMP) == [APP |-> APP, COMP |-> COMP]
Both(T) == T \cup {<<a[2], a[1], a[3]>> : a \in T}

\* LESS as it is given, and reflexive.
World(n, c, f, LESS, NLESS) ==
  [count |-> n, constant |-> c, fun |-> f,
   LESS |-> LESS \cup {<<x, x>> : x \in 1 .. n}, NLESS |-> NLESS]

\* K = 1, TOP = 2, BOT = 3 below it, 4 = K BOT, and 5 has the values of K BOT at
\* both ends: 4 and 5 are equal, and TOP is a constant function.
Ends == World(5, Constants(1, 2, 3, 0),
  Known({<<1, 3, 4>>, <<5, 2, 3>>, <<5, 3, 3>>}, {<<1, 5, 2>>}), {<<3, 2>>}, {<<2, 3>>})

\* C = 1, C 2 = 3: 3 y z = 2 z y; and a composite of 2.
Transposed == World(4, Constants(0, 0, 0, 1),
  Known({<<1, 2, 3>>, <<3, 1, 4>>, <<2, 4, 1>>, <<2, 2, 4>>}, {<<2, 3, 4>>}), {<<2, 3>>}, {})

\* A chain 1 below 2 below 3, and 4; the join of 1 and 4 is 5.
Lattice == World(5, Constants(0, 0, 0, 0),
  Known({<<4, 1, 1>>, <<4, 3, 2>>}, {}) @@ [JOIN |-> Both({<<1, 4, 5>>, <<2, 4, 3>>})],
  {<<1, 2>>, <<2, 3>>}, {<<3, 4>>})

\* Joins in two ways: 4 is the join of 1, 2 and 3, and so is 5.
Joined3 == World(6, Constants(0, 0, 0, 0),
  Known({<<1, 6, 2>>, <<6, 6, 3>>}, {}) @@ [JOIN |-> Both({<<1, 2, 6>>, <<6, 3, 4>>, <<2, 3, 5>>, <<1, 5, 5>>})],
  {<<1, 6>>}, {})

\* Mixtures of 1 and 2, which are both below 4.
Mixed == World(5, Constants(0, 0, 0, 0),
  Known({}, {}) @@ [RAND |-> Both({<<1, 2, 3>>, <<3, 4, 4>>, <<1, 5, 2>>})],
  {<<1, 4>>, <<2, 4>>, <<5, 1>>, <<5, 2>>}, {<<4, 3>>})

\* K = 1, 3 = K 2; 4 maps 2 to 5, which is not above 2.
Refuted == World(6, Constants(1, 0, 0, 0),
  Known({<<1, 2, 3>>, <<4, 2, 5>>, <<6, 2, 2>>}, {<<6, 4, 4>>}), {<<4, 6>>, <<5, 2>>}, {<<2, 5>>})

\* A chain, and an ob that is not below its end.
Chain == World(6, Constants(0, 0, 0, 0), Known({}, {}),
  {<<1, 2>>, <<2, 3>>, <<3, 4>>, <<4, 5>>}, {<<6, 5>>})

MCWorlds == {Chain, Ends, Transposed, Lattice, Joined3, Mixed, Refuted}

\* The least order of each world, and one that makes everything equal.
Least(w) ==
  LET c == Closures[w]
  IN  {p \in Ob \X Ob : \/ p[1] = p[2]
                        \/ /\ p[1] <= w.count /\ p[2] <= w.count
                           /\ <<c.q[p[1]], c.q[p[2]]>> \in c.less}

MCOrders == {Least(w) : w \in Worlds} \cup {Ob \X Ob}
=============================================================================
