--------------------------- MODULE MCCartographer ---------------------------
EXTENDS Cartographer, TLC

MCArity == "X" :> "nullary" @@ "Y" :> "nullary" @@ "APP" :> "binary" @@
           "JOIN" :> "symmetric" @@ "CLOSED" :> "unary" @@ "NLESS" :> "relation"

None == [n \in DOMAIN MCArity \ {"Y"} |-> {}]

File(count, facts) ==
  [count |-> count, facts |-> [n \in DOMAIN None \cup DOMAIN facts |->
     IF n \in DOMAIN facts THEN facts[n] ELSE None[n]]]

\* X = 1, APP X X = 2, JOIN X 2 = 3, APP 2 X = 4
Small == File(1, "X" :> {<<1>>})
World == File(4, "X" :> {<<1>>} @@ "APP" :> {<<1, 1, 2>>, <<2, 1, 4>>} @@ "JOIN" :> {<<1, 2, 3>>} @@
                 "NLESS" :> {<<2, 1>>} @@ "CLOSED" :> {<<2>>})

\* The same constant is another ob, and two more values are known.
Other == File(3, "X" :> {<<2>>} @@ "APP" :> {<<2, 2, 3>>, <<3, 2, 1>>} @@
                 "JOIN" :> {<<1, 2, 1>>, <<2, 3, 3>>} @@ "NLESS" :> {<<1, 3>>})

\* JOIN X (APP X X) is APP X X here: aggregated, 2 and 3 of World are one.
Merging == File(2, "X" :> {<<2>>} @@ "APP" :> {<<2, 2, 1>>, <<1, 1, 1>>} @@
                   "JOIN" :> {<<1, 2, 1>>, <<1, 1, 2>>} @@ "CLOSED" :> {<<1>>, <<2>>})

MCWorlds  == {Small, World}

\* Y is a constant that the worlds do not have, and there is no saying 3 and 4
\* without it; the world's functions define 1 and 2.
Stranger == File(4, "X" :> {<<1>>} @@ "Y" :> {<<3>>} @@
                    "APP" :> {<<1, 1, 2>>, <<3, 3, 2>>, <<3, 1, 3>>, <<3, 2, 4>>})

MCSurveys == {Other, Merging, Stranger}

Line(rel, terms) == [rel |-> rel, terms |-> terms]
MCTheories ==
  {<<Line("EQUAL", <<<<"X">>, <<"APP", "X", "X">>>>), Line("CLOSED", <<<<"X">>>>)>>,
   <<Line("NLESS", <<<<"X">>, <<"JOIN", "X", "X">>>>),
     Line("EQUAL", <<<<"JOIN", "X", "X">>, <<"X">>>>), Line("CLOSED", <<<<"Y">>>>)>>}

MCCore     == {<<"APP", "X", "X">>}
MCLanguage == {"X", "APP", "JOIN"}

\* Y is a constant that the world does not have, 2 and 3 are made of it.
Dropped == File(3, "X" :> {<<1>>} @@ "Y" :> {<<2>>} @@ "APP" :> {<<2, 2, 3>>})

MCDropped == {Dropped}

\* An injective function; the survey knows its value at the constant.
MCQuoting == [n \in DOMAIN MCArity \cup {"QUOTE"} |->
                IF n = "QUOTE" THEN "injective" ELSE MCArity[n]]

MCUnquoted == {File(1, "X" :> {<<1>>} @@ "QUOTE" :> {})}
MCQuoted   == {File(2, "X" :> {<<1>>} @@ "QUOTE" :> {<<1, 2>>})}
=============================================================================
