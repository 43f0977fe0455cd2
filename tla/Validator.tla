----------------------------- MODULE Validator -----------------------------
(***************************************************************************)
(* validate_corpus of the analyst's server.  The terms of a corpus are     *)
(* approximated in the caches of the module AsyncMap; a line is validated  *)
(* at more and more depth, and what is not computed yet is pending: a      *)
(* client that waits asks again.                                           *)
(***************************************************************************)
EXTENDS AsyncMap, Corpus

CONSTANTS
  MaxDepth,   \* the depths that validate() tries: 10 in the code
  Sessions    \* [structure, requests: [lines, block]] that a server may meet: see Init

VARIABLES
  structure, requests,
  linker,     \* of the request in hand
  lines,      \* its linked bodies that have no result yet
  depth,      \* the depth that the first of them is tried at
  approx,     \* what the depth before gave, or NoValue
  validity,   \* of the first line so far
  results,    \* of the lines before
  reply       \* history: the last request and its results

server == <<requests, linker, lines, depth, approx, validity, results, reply>>
vars   == <<structure, server, asyncVars>>

Compute(s, k) ==
  LET args == [i \in DOMAIN k.args |-> CHOOSE a \in k.args[i] : TRUE]
  IN  CASE k.arity = "OB" -> Known(s, k.ob)
        [] k.arity = "HOLE" -> Unknown(s)
        [] OTHER -> FindTerm(s, k.name, args)

-----------------------------------------------------------------------------
(* The server.                                                             *)

AtDepth(d) == Approximated(structure, linker, Head(lines), d)

\* linker(), parse(), and the first find().
Begin ==
  /\ lines = <<>> /\ results = <<>> /\ requests # <<>>
  /\ linker' = Linker(structure, Head(requests).lines)
  /\ lines' = ParseCorpus(structure, linker', Head(requests).lines)
  /\ depth' = 0 /\ approx' = NoValue /\ validity' = UnknownValidity
  /\ Ask(Approximated(structure, linker', Head(lines'), 0))
  /\ UNCHANGED <<structure, requests, results, reply>>

\* The value that find() returns, and the loops of validate().
Look ==
  /\ lines # <<>> /\ stack[Server] = <<>>
  /\ LET found == Value("term", AtDepth(depth))
         known == IF found = NoValue \/ found = approx THEN validity
                  ELSE IsValid(structure, CHOOSE a \in found : TRUE)
         deeper == /\ found # NoValue /\ found # approx
                   /\ IsAmbiguous(known) /\ depth + 1 < MaxDepth
     IN  IF deeper
           THEN /\ depth' = depth + 1 /\ approx' = found /\ validity' = known
                /\ Ask(AtDepth(depth + 1))
                /\ UNCHANGED <<lines, results>>
           ELSE /\ results' = Append(results, [validity |-> known,
                                               pending |-> found = NoValue])
                /\ lines' = Tail(lines)
                /\ depth' = 0 /\ approx' = NoValue /\ validity' = UnknownValidity
                /\ IF Len(lines) = 1 THEN UNCHANGED asyncVars
                   ELSE Ask(Approximated(structure, linker, lines[2], 0))
  /\ UNCHANGED <<structure, requests, linker, reply>>

\* A client that waits asks again while a line is pending.
Reply ==
  /\ lines = <<>> /\ results # <<>>
  /\ reply' = [lines |-> Head(requests).lines, results |-> results]
  /\ requests' = IF Head(requests).block /\ \E i \in DOMAIN results : results[i].pending
                   THEN requests ELSE Tail(requests)
  /\ results' = <<>> /\ linker' = [defs |-> <<>>, ground |-> {}]
  /\ UNCHANGED <<structure, lines, depth, approx, validity, asyncVars>>

Serve == Begin \/ Look \/ Reply

Step(t) ==
  /\ AsyncStep(t) \/ Work(t, {Compute(structure, Head(queue))})
  /\ UNCHANGED <<structure, server>>

Next == Serve \/ \E t \in Thread : Step(t)

Init ==
  /\ AsyncInit
  /\ \E s \in Sessions : structure = s.structure /\ requests = s.requests
  /\ linker = [defs |-> <<>>, ground |-> {}]
  /\ lines = <<>> /\ results = <<>>
  /\ depth = 0 /\ approx = NoValue /\ validity = UnknownValidity
  /\ reply = [lines |-> <<>>, results |-> <<>>]

Spec == Init /\ [][Next]_vars

\* Weak fairness of the server and of each worker, spelt out: a thread that has
\* something to do does it.
FairSpec ==
  /\ Spec
  /\ \/ []<>(requests = <<>>)
     \/ []<><<server' # server \/ stack'[Server] # stack[Server]>>_vars
  /\ \A w \in Worker :
       \/ []<>(stack[w] = <<>> /\ queue = <<>>)
       \/ []<><<stack'[w] # stack[w]>>_vars
-----------------------------------------------------------------------------
(* Properties.                                                             *)

\* What an expression may be, if env has the values of names and a hole may be
\* anything.  Relations are I or BOT.
RECURSIVE Meanings(_, _, _)
Meanings(s, env, e) ==
  LET a(i) == Meanings(s, env, e.args[i])
      Semi(b) == IF b THEN s.meaning.I ELSE s.meaning.BOT
  IN  CASE e.arity = "VAR" -> {env[e.name]}
        [] e.arity \in {"HOLE", "ERROR"} -> Obs(s)
        [] e.arity = "NULLARY_FUNCTION" -> {s.meaning[e.name]}
        [] e.arity \in {"BINARY_FUNCTION", "SYMMETRIC_FUNCTION"} ->
             {s.model[e.name][p] : p \in a(1) \X a(2)}
        [] e.arity = "INJECTIVE_FUNCTION" -> {s.quoted[p] : p \in a(1)}
        [] e.arity = "UNARY_RELATION" -> {Semi(p \in s.closed) : p \in a(1)}
        [] e.arity = "EQUAL" -> {Semi(p[1] = p[2]) : p \in a(1) \X a(2)}
        [] e.name = "LESS" -> {Semi(p \in s.order) : p \in a(1) \X a(2)}
        [] e.name = "NLESS" -> {Semi(p \notin s.order) : p \in a(1) \X a(2)}

RECURSIVE Names(_)
Names(e) == IF e.arity = "VAR" THEN {e.name}
            ELSE UNION {Names(e.args[i]) : i \in DOMAIN e.args}

\* A verdict that is not MAYBE holds of the line in every solution of the
\* corpus, in a model of which the structure is a part.
VerdictsTrue ==
  lines = <<>> /\ results = <<>> => \A i \in DOMAIN reply.results :
    LET s == structure
        all == reply.lines
        names == UNION {Names(all[j].body) \cup ({all[j].name} \ {""}) : j \in DOMAIN all}
        Solves(env) == \A j \in DOMAIN all : all[j].name # "" =>
                         env[all[j].name] \in Meanings(s, env, all[j].body)
        v == reply.results[i].validity
    IN  \A env \in {env \in [names -> Obs(s)] : Solves(env)} :
          \A ob \in Meanings(s, env, all[i].body) :
            /\ v.is_top # "MAYBE" => ((v.is_top = "TRUE") <=> (ob = s.TOP))
            /\ v.is_bot # "MAYBE" => ((v.is_bot = "TRUE") <=> (ob = s.BOT))

\* A client that asks until nothing is pending is answered: no callback is lost.
Validated == <>(requests = <<>>)

=============================================================================
