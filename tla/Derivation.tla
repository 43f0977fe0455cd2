----------------------------- MODULE Derivation -----------------------------
(***************************************************************************)
(* What it takes for the programs and facts that a surveyor is given to be *)
(* true in a model: run in the model itself, whose tables hold all that is *)
(* true, they conclude nothing else.  A certificate has all places that    *)
(* such a run comes to.                                                    *)
(***************************************************************************)
EXTENDS VM

CONSTANT Certificate(_)   \* of the programs and facts of a world: see Verified

\* Everything that obs may denote.
Elements(w) == {w.meaning[x] : x \in 1 .. w.count}
                 \cup UNION {UNION {{e[i] : i \in DOMAIN e} : e \in w.model[n]} : n \in DOMAIN w.model}

-----------------------------------------------------------------------------
(* Runs of programs.  A place is                                           *)
(*                                                                         *)
(*   program, at  a line                                                   *)
(*   obs          the elements in the registers set so far                 *)
(*   sets         what the set registers are: the entries of table that    *)
(*                have at each position of from what is in a register      *)
(*   known        entries that have been found: of table, with what is in  *)
(*                the registers at the positions of from                   *)

LineAt(w, c) == w.programs[c.program].code[c.at]

Place(i, at, obs) == [program |-> i, at |-> at, obs |-> obs, sets |-> <<>>, known |-> {}]

\* The places that a line sets (see VM), and what it is told of them.
Event(w, i) ==
  LET line == w.programs[i].code[1]
  IN  CASE line.op = "GIVEN_EXISTS" -> {<<x>> : x \in Elements(w)}
        [] line.op = "GIVEN" -> w.model[line.tables[1]]
        [] OTHER -> {<<>>}

Begins(w, i) ==
  IF w.programs[i].code[1].op \in {"GIVEN_EXISTS", "GIVEN", "FOR_BLOCK"} THEN 2 ELSE 1

Starts(w) ==
  UNION {{Place(i, Begins(w, i), [x \in 0 .. Len(e) - 1 |-> e[x + 1]]) : e \in Event(w, i)}
           : i \in DOMAIN w.programs}

\* The members of a set, in the model.
MembersIn(w, c, s) ==
  {e[s.hole] : e \in {e \in w.model[s.table] :
                        \A p \in DOMAIN s.from : e[p] = c.obs[s.from[p]]}}

\* What a line finds in the model.
Found(w, c) ==
  LET line == LineAt(w, c)
      args == line.args
  IN  CASE line.op \in {"FOR", "LET", "IF"} ->
             {e \in w.model[line.tables[1]] :
                \A i \in Positions(args, "old") : e[i] = c.obs[args[i][2]]}
        [] line.op = "FOR_ALL" -> {<<x>> : x \in Elements(w)}
        [] line.op = "FOR_SETS" ->
             {<<x>> : x \in {x \in Elements(w) : \A i \in Positions(args, "pos") :
                               x \in MembersIn(w, c, c.sets[args[i][2]])}}
        [] line.op = "IF_EQUAL" ->
             {e \in {<<>>} : c.obs[args[1][2]] = c.obs[args[2][2]]}
        [] line.op \in {"SEQUENCE", "LETS", "IF_BLOCK"} -> {<<>>}
        [] OTHER -> {}

SetsAfter(c, line) ==
  IF line.op # "LETS" THEN c.sets
  ELSE LET hole == Only(Positions(line.args, "newset"))
           set  == [table |-> line.tables[1], hole |-> hole,
                    from |-> [i \in Positions(line.args, "old") |-> line.args[i][2]]]
       IN  [x \in DOMAIN c.sets \cup {line.args[hole][2]} |->
              IF x = line.args[hole][2] THEN set ELSE c.sets[x]]

\* A member of a set completes an entry.
Completed(s, reg) ==
  [table |-> s.table,
   from  |-> [p \in DOMAIN s.from \cup {s.hole} |-> IF p = s.hole THEN reg ELSE s.from[p]]]

KnownAfter(c, line) ==
  IF line.op # "FOR_SETS" THEN c.known
  ELSE c.known \cup {Completed(c.sets[line.args[i][2]], line.args[1][2])
                       : i \in Positions(line.args, "pos")}

After(c, line, e) ==
  [program |-> c.program, at |-> c.at + 1, obs |-> Bound(c.obs, line.args, e),
   sets |-> SetsAfter(c, line), known |-> KnownAfter(c, line)]

\* The second branch of a SEQUENCE begins with what the first one did.
Rejoining(c, at) ==
  [program |-> c.program, at |-> at, obs |-> c.obs, sets |-> c.sets, known |-> c.known]

Successors(w, c) ==
  LET line == LineAt(w, c)
  IN  {After(c, line, e) : e \in Found(w, c)}
        \cup {Rejoining(c, Jump(w.programs[c.program].code, c.at))
                : x \in {x \in {0} : line.op = "SEQUENCE"}}

\* The line that is next is one that can be executed: what it reads is set,
\* what it sets is not yet, and the value that LET takes is known to be there.
Executable(w, c) ==
  /\ c.program \in DOMAIN w.programs
  /\ c.at \in DOMAIN w.programs[c.program].code \ {0}
  /\ LET line == LineAt(w, c)
         args == line.args
     IN  /\ args \in Seq(Range(args))
         /\ \A i \in DOMAIN args :
              /\ args[i][1] = "old" => args[i][2] \in DOMAIN c.obs
              /\ args[i][1] = "new" => args[i][2] \notin DOMAIN c.obs
              /\ args[i][1] \in {"pos", "neg"} => args[i][2] \in DOMAIN c.sets
              /\ args[i][1] = "newset" => args[i][2] \notin DOMAIN c.sets
         /\ line.op # "PADDING"
         /\ line.op \in {"FOR", "LET", "IF", "LETS"} =>
              /\ line.tables[1] \in DOMAIN w.model
              /\ \A e \in w.model[line.tables[1]] : DOMAIN args \subseteq DOMAIN e
         /\ line.op \in {"FOR_ALL", "FOR_SETS"} => Positions(args, "new") = {1}
         /\ line.op = "LETS" => Positions(args, "newset") # {}
         /\ line.op \in {"SEQUENCE", "LETS", "IF_BLOCK", "IF_EQUAL", "IF"} =>
              Positions(args, "new") = {}
         /\ line.op \in {"IF_EQUAL", "INFER_EQUAL"} => Len(args) = 2
         /\ line.op \in {"IF_EQUAL", "INFER_EQUAL", "INFER", "INFER_PAIR"} =>
              Positions(args, "old") = DOMAIN args
         /\ line.op = "LET" =>
              \E k \in c.known : /\ k.table = line.tables[1]
                                 /\ \A i \in Positions(args, "old") :
                                      i \in DOMAIN k.from /\ k.from[i] = args[i][2]

\* What a line infers is true.
Concludes(w, c) ==
  LET line == LineAt(w, c)
      v == [i \in DOMAIN line.args |-> c.obs[line.args[i][2]]]
  IN  /\ line.op = "INFER_EQUAL" => v[1] = v[2]
      /\ line.op = "INFER" =>
           line.tables[1] \in DOMAIN w.model /\ v \in w.model[line.tables[1]]
      /\ line.op = "INFER_PAIR" =>
           LET f == line.tables[1]
               g == line.tables[2]
           IN  /\ f \in FunctionNames \cap DOMAIN w.model
               /\ g \in FunctionNames \cap DOMAIN w.model
               /\ Len(v) = Arity(f) + Arity(g)
               /\ \A y \in Elements(w) :
                    Append(SubSeq(v, 1, Arity(f)), y) \in w.model[f]
                      <=> Append(SubSeq(v, Arity(f) + 1, Len(v)), y) \in w.model[g]

-----------------------------------------------------------------------------
(* Facts, in postfix: what is left of one, and the elements that the terms *)
(* before it stand for.                                                    *)

FactStarts(w) == {[todo |-> w.assume[i], stack |-> <<>>] : i \in DOMAIN w.assume}

Rest(f) == SubSeq(f.stack, 1, Len(f.stack) - Arity(Head(f.todo)))
Key(f)  == SubSeq(f.stack, Len(f.stack) - Arity(Head(f.todo)) + 1, Len(f.stack))

Values(w, f) == {y \in Elements(w) : Append(Key(f), y) \in w.model[Head(f.todo)]}

FactSuccessors(w, f) ==
  IF Len(f.todo) = 1 THEN {}
  ELSE {[todo |-> Tail(f.todo), stack |-> Append(Rest(f), y)] : y \in Values(w, f)}

\* Terms have values, and what is said of them is true.
Asserts(w, f) ==
  /\ f.todo # <<>> /\ f.todo \in Seq(Range(f.todo)) /\ f.stack \in Seq(Elements(w))
  /\ Len(f.todo) > 1 =>
       /\ Head(f.todo) \in FunctionNames \cap DOMAIN w.model
       /\ Arity(Head(f.todo)) <= Len(f.stack)
       /\ Values(w, f) # {}
  /\ f.todo = <<"EQUAL">> => Len(f.stack) = 2 /\ f.stack[1] = f.stack[2]
  /\ Len(f.todo) = 1 /\ f.todo # <<"EQUAL">> =>
       Head(f.todo) \in DOMAIN w.model /\ f.stack \in w.model[Head(f.todo)]

-----------------------------------------------------------------------------

\* The programs load, and they and the facts are true in the model: the
\* certificate has where they start and what that leads to.
Verified(w, cert) ==
  /\ \A i \in DOMAIN w.programs : w.programs[i].ok
  /\ Starts(w) \subseteq cert.places
  /\ \A c \in cert.places : Executable(w, c) /\ Concludes(w, c)
                              /\ Successors(w, c) \subseteq cert.places
  /\ FactStarts(w) \subseteq cert.facts
  /\ \A f \in cert.facts : Asserts(w, f) /\ FactSuccessors(w, f) \subseteq cert.facts

\* Entries have the length of their table.
IsEntry(n, u) ==
  /\ u \in Seq(Range(u)) /\ Len(u) \in 1 .. 3
  /\ n \in FunctionNames => Len(u) = Arity(n) + 1
  /\ n \in Told => Len(u) = 2

\* A model is one: functions have one value, as the keys of injective ones have,
\* symmetric ones do not tell their arguments apart, and nothing is not below
\* itself.
IsModel(w) ==
  /\ Told \subseteq DOMAIN w.model
  /\ \A n \in DOMAIN w.model :
       /\ \A e \in w.model[n] : IsEntry(n, e)
       /\ \A d, e \in w.model[n] : Len(d) = Len(e)
       /\ n \in FunctionNames => \A d, e \in w.model[n] : Front(d) = Front(e) => Last(d) = Last(e)
       /\ n \in Injective => \A d, e \in w.model[n] : d[2] = e[2] => d[1] = e[1]
       /\ n \in Symmetric => \A e \in w.model[n] : <<e[2], e[1], e[3]>> \in w.model[n]
  /\ \A x \in Elements(w) : <<x, x>> \notin w.model["NLESS"]

\* What is not in the tables yet.
MissingFrom(w) == {n \in Nullary \cap DOMAIN w.tables : w.tables[n] = {}}

\* The surveyor has room for what it starts with, and the model has the values
\* that it will make obs for.
Provides(w) ==
  IF w.phase = "initialize"
    THEN /\ w.count + Cardinality(MissingFrom(w)) <= w.dim
         /\ \A n \in MissingFrom(w) : w.model[n] # {}
    ELSE /\ w.count <= w.dim
         /\ \A n \in FunctionNames \cap DOMAIN w.model :
              \A key \in [1 .. Arity(n) -> Elements(w)] :
                \E y \in Elements(w) : Append(key, y) \in w.model[n]

\* The tables that a surveyor starts with are true in the model.
TrueIn(w) ==
  /\ DOMAIN w = {"dim", "count", "phase", "tables", "programs", "rules", "assume", "model", "meaning"}
  /\ w.dim \in Nat /\ w.count \in Nat
  /\ IsModel(w) /\ Provides(w)
  /\ DOMAIN w.tables = DOMAIN w.model
  /\ \A n \in DOMAIN w.model : \A u \in w.tables[n] :
       /\ u \in Seq(1 .. w.count)
       /\ [i \in DOMAIN u |-> w.meaning[u[i]]] \in w.model[n]
  /\ w.assume \in Seq(Range(w.assume)) /\ w.programs \in Seq(Range(w.programs))

ASSUME SurveyAssumption ==
  /\ BlockSize \in Nat \ {0}
  /\ \A w \in Worlds : TrueIn(w) /\ Verified(Loaded(w), Certificate(Loaded(w)))

=============================================================================
