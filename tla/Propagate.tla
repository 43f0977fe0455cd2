----------------------------- MODULE Propagate -----------------------------
(***************************************************************************)
(* validate_facts of the analyst's server: lazy_validate() propagates the  *)
(* facts of a theory over approximations, and takes what is expensive from *)
(* the caches of an Approximator.  A LazyMap that misses a key hands it to *)
(* a pool of workers and answers that it is pending; the server then       *)
(* replies with what it knows, and the client asks again.                  *)
(*                                                                         *)
(* A step of the server is one access to a cache, with the computation     *)
(* after it; a step of a worker takes a task, or stores its value.         *)
(***************************************************************************)
EXTENDS Intervals

CONSTANTS
  Sessions,        \* [structure, workers, requests] that a server may meet: see Init
  ParseTheory(_)   \* parse_theory(), of facts: see Parser

VARIABLES
  structure,  \* the structure that the server has loaded
  workers,    \* the number of threads of the pool
  requests,   \* what the client will ask: [facts, block]
  theory,     \* the expressions of the facts in hand, arguments by index
  states,     \* what is known of each
  inbox,      \* message_queues: the bounds that each was told
  changed,    \* whether change_count is positive
  valid,      \* the conjunction so far, {} for MAYBE
  stage,      \* of lazy_validate()
  agenda,     \* what is left of the stage
  cache,      \* the LazyMaps
  queue,      \* the tasks of the pool whose values are not stored yet
  reply       \* history: the last request, and its result

server == <<requests, theory, states, inbox, changed, valid, stage, agenda, reply>>
pool   == <<cache, queue>>
vars   == <<structure, workers, server, pool>>

-----------------------------------------------------------------------------
(* Messages.                                                               *)

IsFunction(e) == e.arity \in {"BINARY_FUNCTION", "SYMMETRIC_FUNCTION"}

Says(to, approx) == [to |-> to, approx |-> approx]

\* What propagate_constraint() sends without asking a cache.
Told(s, th, st, i) ==
  LET e == th[i]
      l == e.args[1]
      r == e.args[2]
  IN  CASE e.arity = "NULLARY_FUNCTION" -> {Says(i, NullaryFunction(s, e.name))}
        [] e.name = "LESS"  -> {Says(l, LessRhs(s, st[r])), Says(r, LessLhs(s, st[l]))}
        [] e.name = "NLESS" -> {Says(l, NLessRhs(s, st[r])), Says(r, NLessLhs(s, st[l]))}
        [] e.arity = "EQUAL" -> {Says(l, st[r]), Says(r, st[l])}
        [] OTHER -> {}  \* QUOTE, HOLE, VAR, and functions

\* What it asks the caches of a function: [of, parity, key] for each bound,
\* the key pending if an argument is.
Asks(s, th, st, i) ==
  LET e == th[i]
      l == e.args[1]
      r == e.args[2]
      Ask(to, target, p, x, y) ==
        [do |-> "find", of |-> to, parity |-> p,
         key |-> {BinaryKey(s, e.name, target, p, a, b) : a \in x, b \in y}]
  IN  IF ~ IsFunction(e) THEN <<>>
      ELSE <<Ask(i, "VAL", "ABOVE", st[l].ABOVE, st[r].ABOVE),
             Ask(i, "VAL", "BELOW", st[l].BELOW, st[r].BELOW),
             Ask(r, "RHS", "NABOVE", st[l].ABOVE, st[i].NABOVE),
             Ask(r, "RHS", "NBELOW", st[l].BELOW, st[i].NBELOW),
             Ask(l, "LHS", "NABOVE", st[r].ABOVE, st[i].NABOVE),
             Ask(l, "LHS", "NBELOW", st[r].BELOW, st[i].NBELOW)>>

Silence == [p \in Parity |-> {}]

\* The messages that need no cache.
Inbox(s, th, st) ==
  LET told == UNION {Told(s, th, st, i) : i \in DOMAIN th}
      asks == UNION {Range(Asks(s, th, st, i)) : i \in DOMAIN th}
  IN  [i \in DOMAIN th |-> [p \in Parity |->
        {m.approx[p] : m \in {m \in told : m.to = i}}
          \cup {a.key : a \in {a \in asks :
                   a.of = i /\ a.parity = p /\ a.key = Pending}}]]

\* What parse_theory() makes: arguments are places of expressions, and LESS and
\* NLESS are relations.
IsTheory(s, th) ==
  /\ th \in Seq(Range(th))
  /\ \A i \in DOMAIN th :
       LET e == th[i]
       IN  /\ IsFunction(e) \/ e.arity \in {"EQUAL", "BINARY_RELATION"} =>
                e.args[1] \in DOMAIN th /\ e.args[2] \in DOMAIN th
           /\ IsFunction(e) => e.name \in DOMAIN s.model
           /\ e.arity = "NULLARY_FUNCTION" => e.name \in DOMAIN s.constant
           /\ (e.arity = "BINARY_RELATION") <=> (e.name \in {"LESS", "NLESS"})

ASSUME SessionsAssumption ==
  \A s \in Sessions :
    /\ PartOfModel(s.structure)
    /\ s.requests \in Seq(Range(s.requests))
    /\ \A r \in Range(s.requests) : IsTheory(s.structure, ParseTheory(r.facts))

-----------------------------------------------------------------------------
(* LazyMap and WorkerPool.  Values are computed from what does not change,  *)
(* so that taking a task shows in nothing: the workers are at the first    *)
(* tasks that are not stored yet.                                          *)

Cached(c, k) == IF k \in DOMAIN cache[c] THEN cache[c][k] ELSE Pending

Scheduled(values, k) ==
  [x \in DOMAIN values \cup {k} |-> IF x = k THEN Pending ELSE values[x]]

\* Mutant: a pool that is busy drops a task.
TryFindBusy(c, k) ==
  IF k \in DOMAIN cache[c] THEN UNCHANGED pool
  ELSE /\ cache' = [cache EXCEPT ![c] = Scheduled(@, k)]
       /\ queue' = IF queue = <<>>
                     THEN Append(queue, [cache |-> c, key |-> k]) ELSE queue

\* try_find(): a key that is new is scheduled, once.
TryFind(c, k) ==
  IF k \in DOMAIN cache[c] THEN UNCHANGED pool
  ELSE /\ cache' = [cache EXCEPT ![c] = Scheduled(@, k)]
       /\ queue' = Append(queue, [cache |-> c, key |-> k])

Store ==
  \E i \in DOMAIN queue :
    /\ i <= workers
    /\ LET t == queue[i]
       IN  cache' = [cache EXCEPT ![t.cache][t.key] = {Value(structure, t)}]
    /\ queue' = RemoveAt(queue, i)
    /\ UNCHANGED <<structure, workers, server>>

-----------------------------------------------------------------------------
(* lazy_validate().                                                        *)

Op(do, i, p, k) == [do |-> do, of |-> i, parity |-> p, key |-> k]

Each(ops(_), th) == FlattenSeq([i \in DOMAIN th |-> ops(i)])

\* Mutant: a pending message is one that says nothing.
FusedEarly(i, p) ==
  LET sets == Sets(structure, inbox[i][p] \ {Pending}, p)
  IN  IF sets = {} THEN Unknown(structure)[p] ELSE sets

\* lazy_fuse() of one parity, but for the union: it waits for pending messages.
Fused(i, p) ==
  LET sets == Sets(structure, inbox[i][p], p)
  IN  IF Pending \in inbox[i][p] THEN Pending
      ELSE IF sets = {} THEN Unknown(structure)[p] ELSE sets

Unions(i) ==
  LET Of(p) == IF Cardinality(Fused(i, p)) < 2 THEN <<>>
               ELSE <<Op("union", i, p, Fused(i, p))>>
  IN  Of("ABOVE") \o Of("BELOW") \o Of("NABOVE") \o Of("NBELOW")

\* An expression whose state stays as it is has nothing to do.
Updating(i) ==
  IF Unions(i) = <<>> /\ states[i] = [p \in Parity |-> Fused(i, p)] THEN <<>>
  ELSE Append(Unions(i), Op("adopt", i, "", {}))

\* lazy_is_valid()
Judging(i) == <<Op("disjoint", i, "ABOVE", {}), Op("disjoint", i, "BELOW", {})>>

IfKnown(a) == IF a.key = Pending THEN <<>> ELSE <<a>>

Finding(th, st) ==
  Each(LAMBDA i : Each(LAMBDA a : IfKnown(Asks(structure, th, st, i)[a]),
                       Asks(structure, th, st, i)), th)

PropagateStep(th, st) ==
  /\ stage' = "propagate"
  /\ inbox' = Inbox(structure, th, st)
  /\ agenda' = Finding(th, st)
  /\ changed' = FALSE /\ valid' = {}

Call ==
  /\ stage = "idle" /\ requests # <<>>
  /\ theory' = ParseTheory(Head(requests).facts)
  /\ states' = [i \in DOMAIN theory' |-> Unknown(structure)]
  /\ PropagateStep(theory', states')
  /\ UNCHANGED <<structure, workers, requests, reply, pool>>

Doing(do) == agenda # <<>> /\ Head(agenda).do = do

\* lazy_find(), of a bound that lazy_binary_function_*() asks for.
Find ==
  /\ Doing("find")
  /\ LET a == Head(agenda)
         k == CHOOSE k \in a.key : TRUE
     IN  /\ TryFind("binary", k)
         /\ inbox' = [inbox EXCEPT ![a.of][a.parity] = @ \cup {Cached("binary", k)}]
  /\ agenda' = Tail(agenda)
  /\ UNCHANGED <<structure, workers, requests, theory, states, changed, valid, stage, reply>>

Deliver ==
  /\ stage = "propagate" /\ agenda = <<>>
  /\ stage' = "update" /\ agenda' = Each(Updating, theory)
  /\ inbox' = [i \in DOMAIN theory |-> IF Updating(i) = <<>> THEN Silence ELSE inbox[i]]
  /\ UNCHANGED <<structure, workers, requests, theory, states, changed, valid, reply, pool>>

\* The union of the messages takes their place.
Unite ==
  /\ Doing("union")
  /\ LET a == Head(agenda)
     IN  /\ TryFind("union", a.key)
         /\ inbox' = [inbox EXCEPT ![a.of][a.parity] = {Cached("union", a.key)}]
  /\ agenda' = Tail(agenda)
  /\ UNCHANGED <<structure, workers, requests, theory, states, changed, valid, stage, reply>>

Adopt ==
  /\ Doing("adopt")
  /\ LET i == Head(agenda).of
         updated == [p \in Parity |-> Fused(i, p)]
     IN  /\ IF updated = states[i]
              THEN /\ agenda' = Tail(agenda)
                   /\ UNCHANGED <<states, changed, valid>>
              ELSE /\ states' = [states EXCEPT ![i] = updated]
                   /\ changed' = (changed \/ ObservablyDiffer(states[i], updated))
                   /\ valid' = {TRUE}
                   /\ agenda' = Judging(i) \o Tail(agenda)
         /\ inbox' = [inbox EXCEPT ![i] = Silence]
  /\ UNCHANGED <<structure, workers, requests, theory, stage, reply, pool>>

Conclude ==
  /\ stage' = "conclude" /\ valid' = {TRUE} /\ agenda' = Each(Judging, theory)
  /\ inbox' = <<>> /\ changed' = FALSE

\* lazy_disjoint(); propagate_step() stops as soon as a state is invalid.
Judge ==
  /\ Doing("disjoint")
  /\ LET i == Head(agenda).of
         p == Head(agenda).parity
         pos == states[i][p]
         neg == states[i][IF p = "ABOVE" THEN "NABOVE" ELSE "NBELOW"]
         known == pos # Pending /\ neg # Pending
         disjoint == CASE ~ known -> Pending
                       [] known /\ pos = neg -> {pos = {{}}}
                       [] known /\ pos # neg -> Cached("disjoint", pos \cup neg)
         verdict == AndTrool(valid, disjoint)
     IN  /\ IF known /\ pos # neg THEN TryFind("disjoint", pos \cup neg) ELSE UNCHANGED pool
         /\ IF stage = "update" /\ p = "BELOW" /\ verdict = {FALSE}
              THEN Conclude
              ELSE /\ valid' = verdict /\ agenda' = Tail(agenda)
                   /\ UNCHANGED <<inbox, changed, stage>>
  /\ UNCHANGED <<structure, workers, requests, theory, states, reply>>

NextStep ==
  /\ stage = "update" /\ agenda = <<>>
  /\ IF changed THEN PropagateStep(theory, states) ELSE Conclude
  /\ UNCHANGED <<structure, workers, requests, theory, states, reply, pool>>

\* The client asks again while the result is MAYBE, if it blocks.
Reply ==
  /\ stage = "conclude" /\ agenda = <<>>
  /\ reply' = [facts |-> Head(requests).facts, result |-> valid]
  /\ requests' = IF Head(requests).block /\ valid = {} THEN requests ELSE Tail(requests)
  /\ stage' = "idle"
  /\ theory' = <<>> /\ states' = <<>> /\ valid' = {}
  /\ UNCHANGED <<structure, workers, inbox, changed, agenda, pool>>

Serve == Call \/ Find \/ Deliver \/ Unite \/ Adopt \/ Judge \/ NextStep \/ Reply

Init ==
  \E s \in Sessions :
    /\ structure = s.structure /\ workers = s.workers /\ requests = s.requests
    /\ theory = <<>> /\ states = <<>> /\ inbox = <<>>
    /\ changed = FALSE /\ valid = {}
    /\ stage = "idle" /\ agenda = <<>>
    /\ cache = [binary |-> <<>>, union |-> <<>>, disjoint |-> <<>>]
    /\ queue = <<>>
    /\ reply = [facts |-> <<>>, result |-> {}]

Next == Serve \/ Store

Spec == Init /\ [][Next]_vars

\* The server's thread and the workers of the pool are scheduled: weak fairness
\* of Serve and of Store, which are the steps that change server and those that
\* do not.
FairSpec ==
  /\ Spec
  /\ []<>(requests = <<>>) \/ []<><<TRUE>>_server
  /\ []<>(queue = <<>>) \/ []<><<UNCHANGED server>>_pool

-----------------------------------------------------------------------------
(* Properties.                                                             *)

\* Propagation with every set computed at once.
EagerInbox(s, th, st) ==
  LET inb == Inbox(s, th, st)
      asks == UNION {Range(Asks(s, th, st, i)) : i \in DOMAIN th}
  IN  [i \in DOMAIN th |-> [p \in Parity |->
         inb[i][p] \cup {{BinaryValue(s, k)} :
            k \in UNION {a.key : a \in {a \in asks : a.of = i /\ a.parity = p}}}]]

EagerStep(s, th, st) ==
  [i \in DOMAIN th |-> [p \in Parity |->
     {UNION (Unknown(s)[p] \cup UNION EagerInbox(s, th, st)[i][p])}]]

\* Each round but the last adds an ob to some set.
Complete(s, th) ==
  LET round[n \in Nat] ==
        IF n = 0 THEN [i \in DOMAIN th |-> Unknown(s)]
        ELSE CHOOSE next \in {EagerStep(s, th, st) : st \in {round[n - 1]}} : TRUE
  IN  round[CHOOSE n \in 0 .. 4 * Len(th) * s.dim : round[n + 1] = round[n]]

Consistent(st) ==
  \A i \in DOMAIN st : \A a \in st[i].ABOVE, b \in st[i].BELOW,
                          c \in st[i].NABOVE, d \in st[i].NBELOW :
    a \cap c = {} /\ b \cap d = {}

\* A reply other than MAYBE is the one of the complete solution: propagation
\* never takes a set that is being computed for one that says nothing, nor
\* stops for good before what it waited for has gone round.
RepliesAgree ==
  (stage = "idle" /\ reply.result # {}) =>
    reply.result = {Consistent(Complete(structure, ParseTheory(reply.facts)))}

\* In a model of which the structure is a part, obs that the expressions of a
\* theory may denote: its facts hold.
Solves(s, th, vals) ==
  \A i \in DOMAIN th :
    LET e == th[i]
        l == vals[e.args[1]]
        r == vals[e.args[2]]
    IN  /\ e.arity = "NULLARY_FUNCTION" => vals[i] = s.meaning[e.name]
        /\ IsFunction(e) => vals[i] = s.model[e.name][<<l, r>>]
        /\ e.arity = "INJECTIVE_FUNCTION" => vals[i] = s.quoted[l]
        /\ e.arity = "EQUAL" => l = r
        /\ e.name = "LESS" => <<l, r>> \in s.order
        /\ e.name = "NLESS" => <<l, r>> \notin s.order

Solvable(s, th) == \E vals \in [DOMAIN th -> Obs(s)] : Solves(s, th, vals)

\* Facts that are called inconsistent have no solution, in a model of which the
\* structure is a part.
Sound ==
  (stage = "idle" /\ reply.result = {FALSE}) =>
    ~ Solvable(structure, ParseTheory(reply.facts))

\* A client that asks again gets an answer at last.
Answered == <>(requests = <<>>)

=============================================================================
