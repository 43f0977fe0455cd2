---------------------------- MODULE Cartographer ----------------------------
(***************************************************************************)
(* The cartographer's server: it owns the world (the large structure),     *)
(* takes one request at a time, and works each off in stages.  Merges made *)
(* in one stage are queued and processed, table by table, in a later one.  *)
(* The stages of a request:                                                *)
(*   crop       compact, resize                                            *)
(*   aggregate  compact, fit, copy, inject (a thread per table), mergers   *)
(*   assume     assume, mergers, compact                                   *)
(*   dump       compact, dump                                              *)
(*   trim       compact, trim, fill, restrict                              *)
(*   conjecture compact, resize, route                                     *)
(* where compact is itself merges, mergers and an assertion.  A failed     *)
(* assertion ends the process, which is then started from the last dump.   *)
(* Surveys may have functions that the world lacks: what is then copied    *)
(* into the world has obs that its language cannot define.                 *)
(***************************************************************************)
EXTENDS Router, FiniteSetsExt

CONSTANTS
  Worlds,       \* files that the server may be started with
  Surveys,      \* files that surveyors hand in
  Theories,     \* files of facts to assume: sequences of lines
  Core,         \* the terms of the theory's core facts
  Language,     \* the names that the language gives a probability
  Headrooms,    \* what crop may be asked for
  Sizes,        \* sizes of regions
  MaxRequests   \* bound on the requests taken

VARIABLES
  st,         \* m_structure
  world,      \* the file of the last dump
  region,     \* the file that the request has trimmed, with the ob each was
  todo,       \* the stages left of the request being handled
  req,        \* its arguments and local variables
  moving,     \* the ob that process_mergers() is at, and the tables left
  removing,   \* its remove_queue
  inject,     \* what the thread of each table has left to inject
  ok,         \* no assertion has failed
  requests,   \* how many requests were taken
  told        \* history: the obs and facts that the request started with

vars == <<st, world, region, todo, req, moving, removing, inject, ok,
          requests, told>>

NoMove   == [dep |-> 0, left |-> {}]
NoRegion == [file |-> [count |-> 0, facts |-> <<>>], of |-> <<>>]
NoReq    == [num |-> 0, file |-> [count |-> 0, facts |-> <<>>], lines |-> <<>>,
             random |-> FALSE, set |-> {}, to |-> <<>>]

\* A term is a name followed by the names of its arguments, which are nullary.
ValueOf(s, term) ==
  LET value(name) == IF name \in DOMAIN s.tab THEN Entry(s.tab[name].val, <<>>) ELSE 0
      args == [i \in 1 .. Len(term) - 1 |-> value(term[i + 1])]
  IN  IF args = <<>> THEN value(term[1])
      ELSE IF term[1] \notin DOMAIN s.tab THEN 0
      ELSE Entry(s.tab[term[1]].val, KeyOf(term[1], args))

\* What the obs and facts of a request are to become: `at` is where each of
\* the obs has gone, `same` are the pairs that were told to be equal.
Telling(s) ==
  [at |-> [x \in s.support |-> x], same |-> {}, facts |-> AllFacts(s)]

Init ==
  \E w \in Worlds :
    /\ st = Loaded(w, 0)
    /\ world = w
    /\ region = NoRegion
    /\ todo = <<>> /\ req = NoReq
    /\ moving = NoMove /\ removing = <<>>
    /\ inject = [n \in DOMAIN Arity |-> <<>>]
    /\ ok = TRUE
    /\ requests = 0
    /\ told = Telling(Loaded(w, 0))

Running    == ok /\ ~st.exit
Now(stage) == Running /\ todo # <<>> /\ Head(todo) = stage
Idle       == Running /\ todo = <<>>

Go(stages) == todo' = stages \o Tail(todo)

Others == UNCHANGED <<world, region, moving, removing, inject, requests>>

-----------------------------------------------------------------------------
(* Requests.                                                               *)

Begin(stages, r) ==
  /\ Idle
  /\ requests < MaxRequests
  /\ requests' = requests + 1
  /\ todo' = stages
  /\ req' = r
  /\ told' = Telling(st)
  /\ region' = NoRegion
  /\ UNCHANGED <<st, world, moving, removing, inject, ok>>

RequestCrop ==
  \E h \in Headrooms : Begin(<<"compact", "resize">>, [NoReq EXCEPT !.num = h])

RequestAggregate ==
  \E f \in {g \in Surveys : Cardinality(st.support) + g.count <= MaxDim} :
    Begin(<<"compact", "fit", "copy", "inject", "mergers">>, [NoReq EXCEPT !.file = f])

RequestAssume ==
  \E lines \in Theories :
    Begin(<<"assume", "mergers", "compact">>, [NoReq EXCEPT !.lines = lines])

RequestDump == Begin(<<"compact", "dump">>, NoReq)

RequestTrim ==
  \E size \in Sizes, random \in BOOLEAN :
    Begin(<<"compact", "trim">>, [NoReq EXCEPT !.num = size, !.random = random])

RequestValidate == Begin(<<"validate">>, NoReq)

RequestConjecture == Begin(<<"compact", "resize", "route">>, NoReq)

\* declare(): at once.
Declare(name) ==
  /\ Idle
  /\ requests < MaxRequests
  /\ requests' = requests + 1
  /\ name \notin DOMAIN st.tab
  /\ st' = [st EXCEPT !.tab = [n \in DOMAIN @ \cup {name} |->
                                 IF n = name THEN EmptyTable ELSE @[n]]]
  /\ told' = Telling(st')
  /\ region' = NoRegion
  /\ UNCHANGED <<world, todo, req, moving, removing, inject, ok>>

RequestDeclare == \E n \in {m \in DOMAIN Arity : Arity[m] = "nullary"} : Declare(n)

-----------------------------------------------------------------------------
(* compact() and process_mergers().                                        *)

\* Every ob above the count gets a free slot below it, and is merged into it.
Compacted(s) ==
  LET count == Cardinality(s.support)
  IN  FoldLeft(LAMBDA r, dep : Merged(InsertOb(r), dep, FreeSlot(r)),
               [s EXCEPT !.checked = FALSE],
               Ascending({x \in s.support : x > count}))

Compact ==
  /\ Now("compact")
  /\ st' = Compacted(st)
  /\ ok' = (ok /\ RepCount(st) = Cardinality(st.support)
               /\ RepCount(st') = Cardinality(st.support))
  /\ req' = [req EXCEPT !.set = st.support]
  /\ Go(<<"mergers", "compacted">>)
  /\ UNCHANGED told /\ Others

AfterCompact ==
  /\ Now("compacted")
  /\ ok' = (ok /\ Cardinality(st.support) = Cardinality(req.set))
  /\ Go(<<>>)
  /\ UNCHANGED <<st, req, told>> /\ Others

PopMerge ==
  /\ Now("mergers")
  /\ moving = NoMove
  /\ st.queue # <<>>
  /\ LET dep == Head(st.queue)
     IN  /\ moving' = [dep |-> dep, left |-> DOMAIN st.tab]
         /\ st' = [st EXCEPT !.queue = Tail(@)]
         /\ ok' = (ok /\ Root(st.reps, dep) < dep)
  /\ UNCHANGED <<world, region, todo, req, removing, inject, requests, told>>

\* The kinds of tables in turn; within a kind, in any order.
MergeTable(n) ==
  /\ Now("mergers")
  /\ n \in moving.left
  /\ \A other \in moving.left : Turn(Arity[n]) <= Turn(Arity[other])
  /\ st' = MergedTable(st, n, moving.dep)
  /\ moving' = [moving EXCEPT !.left = @ \ {n}]
  /\ UNCHANGED <<world, region, todo, req, removing, inject, ok, requests, told>>

MergeDone ==
  /\ Now("mergers")
  /\ moving # NoMove
  /\ moving.left = {}
  /\ removing' = Append(removing, moving.dep)
  /\ moving' = NoMove
  /\ UNCHANGED <<st, world, region, todo, req, inject, ok, requests, told>>

\* The values are updated, and then the obs that were merged are removed.
EndMergers ==
  /\ Now("mergers")
  /\ moving = NoMove
  /\ st.queue = <<>>
  /\ st' = FoldLeft(Removed, Updated(st), removing)
  /\ told' = [told EXCEPT !.at = [x \in DOMAIN @ |-> Root(st.reps, @[x])]]
  /\ removing' = <<>>
  /\ Go(<<>>)
  /\ UNCHANGED <<world, region, req, moving, inject, ok, requests>>

-----------------------------------------------------------------------------
(* crop, dump, validate, conjecture.                                       *)

ResizeTo(dim) ==
  IF dim = st.dim THEN UNCHANGED <<st, ok>>
  ELSE /\ st' = Resized(st, dim)
       /\ ok' = (ok /\ Resizable(st, dim))

Resize ==
  /\ Now("resize")
  /\ ResizeTo(Cardinality(st.support) + req.num)
  /\ Go(<<>>)
  /\ UNCHANGED <<req, told>> /\ Others

\* The client moves the file into place once it is complete.
Dump ==
  /\ Now("dump")
  /\ ok' = (ok /\ Contiguous(st))
  /\ world' = Dumped(st)
  /\ Go(<<>>)
  /\ UNCHANGED <<st, region, req, moving, removing, inject, requests, told>>

\* LESS and NLESS negate each other.
Disjoint(s) ==
  {"LESS", "NLESS"} \subseteq DOMAIN s.tab => s.tab["LESS"].lx \cap s.tab["NLESS"].lx = {}

Validate ==
  /\ Now("validate")
  /\ ok' = (ok /\ Valid(st) /\ Disjoint(st))
  /\ Go(<<>>)
  /\ UNCHANGED <<st, req, told>> /\ Others

\* find_routes() asserts that every ob has a route.
Route ==
  /\ Now("route")
  /\ ok' = (ok /\ st.support = FindDefined(st, Language, {}))
  /\ IF ok' THEN Go(<<>>) ELSE UNCHANGED todo
  /\ UNCHANGED <<st, req, told>> /\ Others

-----------------------------------------------------------------------------
(* aggregate.                                                              *)

Survey == Loaded(req.file, 0)

\* restricted(): all of the survey, unless the world lacks one of its functions.
Restricted(wild) ==
  LET functions == {n \in DOMAIN Survey.tab : Turn(Arity[n]) <= 4}
  IN  IF functions \subseteq DOMAIN st.tab THEN Survey.support
      ELSE FindDefined(Survey, functions \cap DOMAIN st.tab, wild)

FitTo(defined) == Cardinality(st.support) + Cardinality(defined)
FitWithout(defined) == Cardinality(defined)     \* Faulty: the world's are forgotten.
Fitting(defined) == FitTo(defined)

Fit ==
  /\ Now("fit")
  /\ \E wild \in SUBSET Survey.support : req' = [req EXCEPT !.set = Restricted(wild)]
  /\ ResizeTo(High({st.dim, Fitting(req'.set)}))
  /\ Go(<<>>)
  /\ UNCHANGED told /\ Others

\* Every ob of the survey becomes an ob of the world.
NewObs(obs) == FoldLeft(LAMBDA s, x : InsertOb(s), st, Ascending(obs))

\* In the history, the obs of the survey are those above MaxDim.
IdOf(x) == MaxDim + x

Injected(n) ==
  IF n \notin DOMAIN Survey.tab \cap DOMAIN st.tab THEN {}
  ELSE {f \in Facts(Survey, n) :
          LET args == IF Turn(Arity[n]) > 4 THEN f ELSE Front(f)
          IN  \A i \in DOMAIN args : args[i] \in req.set}

Copy ==
  /\ Now("copy")
  /\ LET obs  == Ascending(Survey.support)
         fits == Cardinality(st.support) + Len(obs) <= st.dim
         new  == NewObs(Survey.support)
         slot == Ascending(new.support \ st.support)
     IN  /\ ok' = (ok /\ fits)
         /\ IF ~fits THEN UNCHANGED <<st, todo, req, inject, told>>
            ELSE /\ Go(<<>>)
                 /\ st' = [new EXCEPT !.checked = FALSE]
                 /\ req' = [req EXCEPT !.to = slot]
                 /\ inject' = [n \in DOMAIN Arity |-> InOrder(Injected(n), Before)]
                 /\ told' =
                      [told EXCEPT
                         !.at = [x \in DOMAIN @ \cup {IdOf(y) : y \in Survey.support} |->
                                   IF x \in DOMAIN @ THEN @[x] ELSE slot[x - MaxDim]],
                         !.facts = [n \in DOMAIN @ |->
                            @[n] \cup {[i \in DOMAIN f |-> IdOf(f[i])] : f \in Injected(n)}]]
  /\ UNCHANGED <<world, region, moving, removing, requests>>

\* A thread for each table; they meet in the carrier's merge().
InjectFact(n) ==
  /\ Now("inject")
  /\ inject[n] # <<>>
  /\ LET fact == Head(inject[n])
     IN  st' = InsertFact(st, n, [i \in DOMAIN fact |-> req.to[fact[i]]])
  /\ inject' = [inject EXCEPT ![n] = Tail(@)]
  /\ UNCHANGED <<world, region, todo, req, moving, removing, ok, requests, told>>

JoinThreads ==
  /\ Now("inject")
  /\ \A n \in DOMAIN inject : inject[n] = <<>>
  /\ Go(<<>>)
  /\ UNCHANGED <<st, req, ok, told>> /\ Others

-----------------------------------------------------------------------------
(* assume.                                                                 *)

\* A line is a relation, or EQUAL, and its terms; it is ignored when one of
\* them has no value.
Assumed(s, line) ==
  LET vals == [i \in 1 .. Len(line.terms) |-> ValueOf(s, line.terms[i])]
  IN  IF 0 \in Range(vals) THEN s
      ELSE IF line.rel = "EQUAL" THEN EnsureEqual(s, vals[1], vals[2])
      ELSE InsertRelation(s, line.rel, vals)

\* What a line says, of the obs that the request started with.
LineTold(t, line) ==
  LET vals == [i \in 1 .. Len(line.terms) |-> ValueOf(st, line.terms[i])]
  IN  IF 0 \in Range(vals) THEN t
      ELSE IF line.rel = "EQUAL" THEN [t EXCEPT !.same = @ \cup {vals}]
      ELSE [t EXCEPT !.facts[line.rel] = @ \cup {vals}]

Assume ==
  /\ Now("assume")
  /\ st' = FoldLeft(Assumed, [st EXCEPT !.checked = TRUE], req.lines)
  /\ told' = FoldLeft(LineTold, told, req.lines)
  /\ Go(<<>>)
  /\ UNCHANGED <<req, ok>> /\ Others

-----------------------------------------------------------------------------
(* trim.                                                                   *)

Constants(s) ==
  UNION {Range(s.tab[n].val) : n \in {m \in DOMAIN s.tab : Arity[m] = "nullary"}}

\* CollectParser: the values of the core facts' terms and of their arguments.
Collected(s) ==
  (UNION {{ValueOf(s, term)} \cup {ValueOf(s, <<term[i]>>) : i \in 2 .. Len(term)}
            : term \in Core}) \ {0}

Trim ==
  /\ Now("trim")
  /\ IF req.num >= Cardinality(st.support)
     THEN /\ region' = [file |-> Dumped(st), of |-> Ascending(st.support)]
          /\ ok' = (ok /\ Contiguous(st))
          /\ UNCHANGED req
          /\ Go(<<>>)
     ELSE LET start == Constants(st) \cup Collected(st)
          IN  /\ req' = [req EXCEPT !.set = start]
              /\ ok' = (ok /\ Cardinality(start) <= req.num)
              /\ UNCHANGED region
              /\ IF ok' THEN Go(<<"fill", "restrict">>) ELSE UNCHANGED todo
  /\ UNCHANGED <<st, world, moving, removing, inject, requests, told>>

\* Faulty: only constants are tried.
AddableConstants ==
  {Last(f) : f \in {g \in UNION {Facts(st, n) : n \in DOMAIN st.tab \cap Language} :
                      Len(g) = 1}} \ req.set

\* The values of the language's functions at obs of the subset.
Addable ==
  {Last(f) : f \in {g \in UNION {Facts(st, n) : n \in DOMAIN st.tab \cap Language} :
                      \A i \in 1 .. Len(g) - 1 : g[i] \in req.set}} \ req.set

\* One more ob, the value of a function at obs that are in already: which one
\* is random.  Where there is none the sampler tries for ever.
FillRandom ==
  /\ Now("fill")
  /\ req.random
  /\ Cardinality(req.set) < req.num
  /\ \E x \in Addable : req' = [req EXCEPT !.set = @ \cup {x}]
  /\ UNCHANGED <<st, todo, ok, told>> /\ Others

\* The most probable obs; which they are depends on the language.
FillOptimal ==
  /\ Now("fill")
  /\ ~req.random
  /\ \E more \in kSubset(req.num - Cardinality(req.set), st.support \ req.set) :
       req' = [req EXCEPT !.set = @ \cup more]
  /\ Go(<<>>)
  /\ UNCHANGED <<st, ok, told>> /\ Others

Filled ==
  /\ Now("fill")
  /\ req.random
  /\ Cardinality(req.set) = req.num
  /\ Go(<<>>)
  /\ UNCHANGED <<st, req, ok, told>> /\ Others

\* sort_subset(): the obs with most facts first.
Weight(s, x) ==
  LET lines(n, i) == Cardinality({k \in (IF i = 1 THEN s.tab[n].lx ELSE s.tab[n].rx) : k[i] = x})
      of(n) == CASE Arity[n] = "relation" -> lines(n, 1) + lines(n, 2)
                 [] Arity[n] = "binary" -> 16 * (lines(n, 1) + lines(n, 2))
                 [] Arity[n] = "symmetric" -> 32 * lines(n, 1)
                 [] OTHER -> 0
  IN  MapThenSumSet(of, DOMAIN s.tab)

SortedSubset(s, set) ==
  InOrder(set, LAMBDA x, y : Before(<<Weight(s, y), x>>, <<Weight(s, x), y>>))

\* restrict_one(): the facts whose obs were all kept; the keys of a symmetric
\* function are sorted again, by the new obs.
PlacedUnsorted(n, fact) == fact     \* Faulty: the order of the old obs is kept.

Placed(n, fact) ==
  IF Arity[n] = "symmetric" THEN Append(Sorted(Front(fact)), Last(fact)) ELSE fact

RestrictedFacts(s, n, of) ==
  LET old(f) == [i \in DOMAIN f |-> IndexFirstSubSeq(<<f[i]>>, of)]
  IN  {Placed(n, old(f)) : f \in {g \in Facts(s, n) : Range(g) \subseteq Range(of)}}

RestrictedTo(s, of) ==
  [RawObs(Empty(Len(of), DOMAIN s.tab), 1 .. Len(of))
     EXCEPT !.tab = [n \in DOMAIN s.tab |-> RawTable(n, RestrictedFacts(s, n, of))]]

RestrictRegion ==
  /\ Now("restrict")
  /\ LET of == SortedSubset(st, req.set)
     IN  region' = [file |-> Dumped(RestrictedTo(st, of)), of |-> of]
  /\ ok' = (ok /\ Cardinality(req.set) = req.num)
  /\ Go(<<>>)
  /\ UNCHANGED <<st, world, req, moving, removing, inject, requests, told>>

-----------------------------------------------------------------------------
\* The process dies, at any time, and is started with the last dump.
Restart ==
  /\ requests < MaxRequests
  /\ requests' = requests + 1
  /\ st' = Loaded(world, 0)
  /\ todo' = <<>> /\ req' = NoReq
  /\ moving' = NoMove /\ removing' = <<>>
  /\ inject' = [n \in DOMAIN Arity |-> <<>>]
  /\ ok' = TRUE
  /\ told' = Telling(st')
  /\ region' = NoRegion
  /\ UNCHANGED world

Request ==
  \/ RequestCrop \/ RequestAggregate \/ RequestAssume \/ RequestDump \/ RequestTrim
  \/ RequestValidate \/ RequestConjecture \/ RequestDeclare

Mergers ==
  \/ PopMerge \/ MergeDone \/ EndMergers
  \/ \E n \in DOMAIN Arity : MergeTable(n)

Stage ==
  \/ Compact \/ AfterCompact \/ Mergers \/ Resize \/ Dump \/ Validate \/ Route
  \/ Fit \/ Copy \/ JoinThreads \/ Assume
  \/ Trim \/ FillRandom \/ FillOptimal \/ Filled \/ RestrictRegion
  \/ \E n \in DOMAIN Arity : InjectFact(n)

Next == Request \/ Stage \/ Restart

Spec == Init /\ [][Next]_vars

\* Every stage can take its next step, but for the sampler that finds no more.
CanProceed ==
  /\ Running
  /\ todo # <<>>
  /\ Head(todo) = "fill" /\ req.random /\ Cardinality(req.set) < req.num => Addable # {}

\* The server's own thread and the threads it starts go on running: this is
\* weak fairness of Stage, with its ENABLED spelt out.
FairSpec == Spec /\ ([]<>~CanProceed \/ []<><<requests' = requests>>_vars)

-----------------------------------------------------------------------------
(* Properties.                                                             *)

\* A fact with its key as the tables have it.
Normal(n, fact) ==
  IF Turn(Arity[n]) > 4 THEN fact ELSE Append(KeyOf(n, Front(fact)), Last(fact))

\* The least congruence that makes the pairs equal that were told to be: the
\* tables are functions, and an injective one both ways.
ClassOf(parts, x) == Low(CHOOSE p \in parts : x \in p)

Forced(t, parts) ==
  LET images(n) == {[i \in DOMAIN f |-> ClassOf(parts, f[i])] : f \in t.facts[n]}
      pairs(n) == images(n) \X images(n)
      forth(n) == {p \in pairs(n) : KeyOf(n, Front(p[1])) = KeyOf(n, Front(p[2]))}
      back(n)  == {p \in pairs(n) : Arity[n] = "injective" /\ Last(p[1]) = Last(p[2])}
      functions == {n \in DOMAIN t.facts : Turn(Arity[n]) <= 4}
  IN  {{ClassOf(parts, e[1]), ClassOf(parts, e[2])} : e \in t.same}
        \cup UNION {{{Last(p[1]), Last(p[2])} : p \in forth(n)}
                       \cup {{p[1][1], p[2][1]} : p \in back(n)} : n \in functions}

Classes(t) ==
  LET unite[k \in 0 .. Cardinality(DOMAIN t.at)] ==
        IF k = 0 THEN {{x} : x \in DOMAIN t.at}
        ELSE LET parts == unite[k - 1]
                 split == {e \in Forced(t, parts) : Cardinality(e) = 2}
                 one   == CHOOSE e \in split : TRUE
                 both  == {p \in parts : p \cap one # {}}
             IN  IF split = {} THEN parts ELSE (parts \ both) \cup {UNION both}
  IN  unite[Cardinality(DOMAIN t.at)]

\* Once a request is answered, however its merges were queued, cascaded and
\* moved through the tables, the obs are the classes of the least congruence
\* and the tables hold exactly the facts told, in terms of the obs that are
\* left: nothing is merged that need not be, nothing is lost or left behind.
Quotient ==
  Idle =>
    LET parts == {{x \in DOMAIN told.at : told.at[x] = ob} : ob \in Range(told.at)}
    IN  /\ st.support = Range(told.at)
        /\ parts = Classes(told)
        /\ \A n \in DOMAIN st.tab :
             Facts(st, n) = {Normal(n, [i \in DOMAIN f |-> told.at[f[i]]]) : f \in told.facts[n]}

\* Between requests every table would pass its own validation.
WorldValid == Idle => Valid(st) /\ st.queue = <<>> /\ RepCount(st) = Cardinality(st.support)

\* A region holds, under the names it gave them, exactly the facts of the
\* world about the obs it kept, and every constant is among those.
RegionFaithful ==
  Idle /\ region # NoRegion =>
    LET back(n) == {Normal(n, [i \in DOMAIN f |-> region.of[f[i]]]) : f \in region.file.facts[n]}
    IN  /\ region.file.count = Len(region.of)
        /\ Constants(st) \subseteq Range(region.of)
        /\ \A n \in DOMAIN st.tab :
             back(n) = {f \in Facts(st, n) : Range(f) \subseteq Range(region.of)}

\* The assertions of the code that the model has fail for three reasons only.
\* Two come of surveys with functions that the world lacks, which bring obs that
\* the world cannot define: room is made for the others alone, and once the
\* strangers are in, not every ob has a route.  The third is a request for a
\* region smaller than what every region must keep.
FailsForCauseOnly ==
  ok \/ /\ todo # <<>>
        /\ CASE Head(todo) = "copy"  -> req.set # Survey.support
             [] Head(todo) = "route" -> Definable(st, Language) # st.support
             [] Head(todo) = "trim"  -> req.num < Cardinality(Constants(st) \cup Collected(st))
             [] OTHER -> FALSE

\* The sampler that draws a region cannot fill it: what the language defines
\* from the constants and the core facts is less than was asked for.
Starved ==
  /\ Now("fill") /\ req.random
  /\ Cardinality(DefinableFrom(st, Language, req.set)) < req.num

\* Every request is answered, unless the process ends or the sampler draws for
\* ever; it does only when it is asked for more than there is.
RequestsAnswered == todo # <<>> ~> (todo = <<>> \/ ~Running \/ Starved)

\* signature.hpp: restricted() is the "subset of destin which is definable in
\* source's language"; checked where it has just been computed.
DefinedIsDefinable ==
  Now("copy") => req.set \subseteq Definable(Survey, DOMAIN Survey.tab \cap DOMAIN st.tab)

\* carrier.cpp: an ob of the support has a rep, which is not above it; one
\* that is not in the support has none.
CarrierValid == CarrierOK(st)

=============================================================================
