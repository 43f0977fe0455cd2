--------------------------------- MODULE VM ---------------------------------
(***************************************************************************)
(* The surveyor's inference: an Agenda of compiled programs (Programs),    *)
(* the tasks that run them (theory.cpp) and the VirtualMachine that        *)
(* executes them (vm_impl.hpp), an instruction at a time.                  *)
(*                                                                         *)
(* A table is the set of its entries, whose last component is the value if *)
(* it is a function's; a symmetric one has both orders.  An operation on a *)
(* table or on the carrier is a step here: the modules Tables and Carrier  *)
(* take them apart.  Scheduler has the workers; here an idle worker takes  *)
(* a task of any kind that there is.                                       *)
(***************************************************************************)
EXTENDS Programs, FiniteSetsExt

CONSTANTS
  Thread,      \* the scheduler's workers
  BlockSize,   \* obs in a block of a large cleanup program
  Worlds       \* what surveyors start with: see Init

VARIABLES
  world,     \* what this one started with, its programs loaded
  struct,    \* the structure: [support, rep, table]
  events,    \* the queues of ExistsTasks and of order tasks
  merges,    \* the queue of MergeTasks
  assumed,   \* the queue of AssumeTasks
  cleanup,   \* [done, turn] of Cleanup
  th,        \* what each worker is doing
  meaning,   \* history: the element of the model that each ob denotes
  covered    \* history: cleanup tasks executed since the structure changed

vars == <<world, struct, events, merges, assumed, cleanup, th, meaning, covered>>

Dim == world.dim
Ob  == 1 .. Dim

Nullary   == {"I", "K", "E"}
Injective == {"QUOTE"}
Binary    == {"APP"}
Symmetric == {"JOIN", "RAND"}
FunctionNames == Nullary \cup Injective \cup Binary \cup Symmetric

\* The relations with an insert callback: other tables tell nobody.
Told == {"LESS", "NLESS"}

-----------------------------------------------------------------------------
(* Agenda: which programs are run when.                                    *)

Loaded(w) == [w EXCEPT !.programs = ParseFile(@)]

Code(i)  == world.programs[i].code
First(i) == Code(i)[1]

\* add_listing() drops the line that says which event a program is for.
Start(i) == IF First(i).op \in {"GIVEN_EXISTS", "GIVEN", "FOR_BLOCK"} THEN 2 ELSE 1

\* The members of a queue that are kept, in their order.
Kept(queue, keep) ==
  LET upto[i \in 0 .. Len(queue)] ==
        IF i = 0 THEN <<>>
        ELSE IF queue[i] \in keep THEN Append(upto[i - 1], queue[i]) ELSE upto[i - 1]
  IN  upto[Len(queue)]

\* Where the programs of a surveyor are.
Places == DOMAIN world.programs

Listed(keep) == Kept([i \in Places |-> i], keep)

OnExists   == Listed({i \in Places : First(i).op = "GIVEN_EXISTS"})
OnEvent(n) == Listed({i \in Places : First(i).op = "GIVEN" /\ First(i).tables = <<n>>})
Large      == Listed({i \in Places : First(i).op = "FOR_BLOCK"})
Small      == Listed({i \in Places : First(i).op \notin {"GIVEN_EXISTS", "GIVEN", "FOR_BLOCK"}})

BlockCount == Dim \div BlockSize + 1

\* Faulty: the programs are counted, not their blocks.
CleanupTypeCount == Len(Small) + Len(Large)

CleanupCount == Len(Small) + Len(Large) * BlockCount

\* The program of a cleanup task, and its block.
CleanupProgram(c) ==
  IF c < Len(Small) THEN Small[c + 1]
  ELSE Large[(c - Len(Small)) \div BlockCount + 1]

CleanupBlock(c) == IF c < Len(Small) THEN 0 ELSE (c - Len(Small)) % BlockCount

-----------------------------------------------------------------------------
(* The structure.  An operation takes and returns                          *)
(* [struct, events, merges].                                               *)

State == [struct |-> struct, events |-> events, merges |-> merges]

Replaced(f, old, new) == [z \in DOMAIN f |-> IF f[z] = old THEN new ELSE f[z]]

\* Faulty: obs that are equal already are merged again.
MergeAgain(s, x, y) ==
  LET a == s.struct.rep[x]
      b == s.struct.rep[y]
      dep == IF a < b THEN b ELSE a
      rep == IF a < b THEN a ELSE b
  IN  IF x = y THEN s
      ELSE [s EXCEPT !.struct.rep = Replaced(@, dep, rep), !.merges = Append(@, dep)]

\* Carrier::merge, by ensure_equal and others: the greater root is queued.
Merge(s, x, y) ==
  LET a == s.struct.rep[x]
      b == s.struct.rep[y]
      dep == IF a < b THEN b ELSE a
      rep == IF a < b THEN a ELSE b
  IN  IF a = b THEN s
      ELSE [s EXCEPT !.struct.rep = Replaced(@, dep, rep), !.merges = Append(@, dep)]

MergeAll(s, pairs) ==
  LET q == SetToSeq(pairs)
      after[i \in 0 .. Len(q)] ==
        IF i = 0 THEN s ELSE Only({Merge(t, q[i][1], q[i][2]) : t \in {after[i - 1]}})
  IN  after[Len(q)]

\* find(): the value of a function at a key, if any.
Find(s, n, key) == {Last(u) : u \in {v \in s.struct.table[n] : Front(v) = key}}

Same(n, u) == IF n \in Symmetric THEN {u, <<u[2], u[1], u[3]>>} ELSE {u}

\* insert(): a relation is told of what is new, a second value of a function
\* is merged with the first, and so are two keys of an injective function's.
Insert(s, n, u) ==
  LET t == [s EXCEPT !.struct.table[n] = @ \cup Same(n, u)]
  IN  IF n \notin FunctionNames
      THEN IF u \in s.struct.table[n] THEN s
           ELSE IF n \in Told THEN [t EXCEPT !.events[n] = Append(@, u)] ELSE t
      ELSE MergeAll(IF Find(s, n, Front(u)) = {} THEN t ELSE s,
                    ({Last(u)} \X Find(s, n, Front(u)))
                      \cup {<<u[1], v[1]>> : v \in {v \in s.struct.table[n] :
                                                     n \in Injective /\ v[2] = u[2]}})

\* execute(MergeTask): dep becomes its rep everywhere.  Pairs that are new at
\* the rep are told; entries of a function that collide are merged.
Renamed(s, dep) ==
  LET R(x) == IF x = dep THEN s.struct.rep[dep] ELSE x
  IN  [n \in DOMAIN s.struct.table |->
         {[i \in DOMAIN u |-> R(u[i])] : u \in s.struct.table[n]}]

Collisions(n, us) ==
  IF n \notin FunctionNames THEN {}
  ELSE {<<Last(p[1]), Last(p[2])>> : p \in {q \in us \X us : Front(q[1]) = Front(q[2])}}
         \cup {<<p[1][1], p[2][1]>> :
                 p \in {q \in us \X us : n \in Injective /\ q[1][2] = q[2][2]}}

\* Of the entries at a key, one stays: one that was there before the merge.
Stays(all, old) ==
  CHOOSE u \in (IF all \cap old # {} THEN all \cap old ELSE all) :
    \A v \in all \cap old : Last(u) <= Last(v)

OneValue(n, old, us) ==
  IF n \in FunctionNames THEN {Stays({v \in us : Front(v) = Front(u)}, old) : u \in us} ELSE us

\* Faulty: what a merge moves is told to nobody.
NewsUntold(s, new, n) == <<>>

News(s, new, n) == SetToSeq(new[n] \ s.struct.table[n])

MovedTable(s, new) == [n \in DOMAIN new |-> OneValue(n, s.struct.table[n], new[n])]

MovedEvents(s, new, dep) ==
  LET Live(queue) == Kept(queue, {u \in Range(queue) : \A i \in DOMAIN u : u[i] # dep})
  IN  [n \in DOMAIN s.events |->
         Live(s.events[n]) \o IF n \in Told THEN News(s, new, n) ELSE <<>>]

ProcessMerge(s, dep) ==
  LET new == Renamed(s, dep)
      moved == [s EXCEPT !.struct.table = MovedTable(s, new), !.events = MovedEvents(s, new, dep)]
      merged == MergeAll(moved, UNION {Collisions(n, new[n]) : n \in DOMAIN new})
  IN  [merged EXCEPT !.struct.support = @ \ {dep}, !.struct.rep[dep] = 0]

-----------------------------------------------------------------------------
(* The virtual machine.  A thread's registers are those it has set since   *)
(* the program started: the code clears them in debug builds.  Its stack   *)
(* has a frame for every loop and for every SEQUENCE in its first branch:  *)
(* what it has still to run.                                               *)

Idle ==
  [task |-> "idle", args |-> <<>>, todo |-> <<>>, make |-> <<>>,
   block |-> 0, program |-> 0, at |-> 0, frames |-> <<>>,
   obs |-> <<>>, sets |-> <<>>, undisturbed |-> FALSE]

Line(r)  == Code(r.program)[r.at]
Table(r) == Line(r).tables[1]
Args(r)  == Line(r).args

\* Agenda::execute: the next of the programs of a task.
NextProgram(r) ==
  IF r.todo = <<>> THEN r
  ELSE [r EXCEPT !.todo = Tail(@), !.program = Head(r.todo), !.at = Start(Head(r.todo)),
                 !.obs = [x \in 0 .. Len(r.args) - 1 |-> r.args[x + 1]], !.frames = <<>>]

Readable(r) ==
  \A i \in DOMAIN Args(r) :
    LET arg == Args(r)[i]
    IN  /\ arg[1] = "old" => arg[2] \in DOMAIN r.obs
        /\ arg[1] \in {"pos", "neg"} => arg[2] \in DOMAIN r.sets

Val(r, i) == r.obs[Args(r)[i][2]]
Vals(r)   == [i \in DOMAIN Args(r) |-> Val(r, i)]

Positions(args, mode) == {i \in DOMAIN args : args[i][1] = mode}

Bound(obs, args, u) ==
  LET reg == {args[i][2] : i \in Positions(args, "new")}
  IN  [x \in DOMAIN obs \cup reg |->
         IF x \in reg
         THEN u[CHOOSE i \in Positions(args, "new") : args[i][2] = x]
         ELSE obs[x]]

\* Iterators ascend.
Least(S) ==
  CHOOSE u \in S : \A v \in S :
    u = v \/ \E i \in DOMAIN u : u[i] < v[i] /\ \A j \in 1 .. i - 1 : u[j] = v[j]

Into(r) == [r EXCEPT !.at = @ + 1]

\* A loop looks up the value of a function when it comes to its key.
Current(s, n, u) ==
  IF n \in FunctionNames THEN Append(Front(u), Only(Find(s, n, Front(u)))) ELSE u

\* Back to the innermost loop or SEQUENCE that has something left.
Back(r, s) ==
  LET live == {i \in DOMAIN r.frames : r.frames[i].left # {}}
  IN  IF live = {} THEN [r EXCEPT !.at = 0, !.frames = <<>>, !.obs = <<>>, !.sets = <<>>]
      ELSE LET f == r.frames[Max(live)]
               u == Least(f.left)
           IN  [r EXCEPT !.at = f.at,
                         !.obs = Bound(@, f.args, Current(s, f.table, u)),
                         !.frames = Append(SubSeq(@, 1, Max(live) - 1),
                                           [f EXCEPT !.left = @ \ {u}])]

Loop(r, n, left) ==
  Back([r EXCEPT !.frames = Append(@, [at |-> r.at + 1, args |-> Args(r),
                                       table |-> n, left |-> left])], State)

If(r, condition) == IF condition THEN Into(r) ELSE Back(r, State)

\* Faulty: a right argument is taken for one that is set.
MatchesLeft(r) ==
  {u \in struct.table[Table(r)] :
     \A i \in Positions(Args(r), "old") : i = 1 => u[i] = Val(r, i)}

\* The entries of the table of a line that agree with the arguments it reads.
Matches(r) ==
  {u \in struct.table[Table(r)] :
     \A i \in Positions(Args(r), "old") : u[i] = Val(r, i)}

\* A set is a pointer to a line of a table, read when a loop begins.
LineOf(r) ==
  [table |-> Table(r),
   hole  |-> Only(Positions(Args(r), "newset")),
   given |-> [i \in Positions(Args(r), "old") |-> Val(r, i)]]

Members(line) ==
  {u[line.hole] : u \in {v \in struct.table[line.table] :
                           \A i \in DOMAIN line.given : v[i] = line.given[i]}}

Sets(r, mode) == {Members(r.sets[Args(r)[i][2]]) : i \in Positions(Args(r), mode)}

Intersection(r) ==
  {x \in struct.support :
     /\ \A S \in Sets(r, "pos") : x \in S
     /\ \A S \in Sets(r, "neg") : x \notin S}

\* What a worker's step makes of it and of the structure.
Become(t, r, s) ==
  LET same == s.struct = struct
  IN  /\ struct' = s.struct /\ events' = s.events /\ merges' = s.merges
      /\ th' = [u \in Thread |->
                  [(IF u = t THEN r ELSE th[u]) EXCEPT !.undisturbed = @ /\ same]]
      /\ covered' = IF same THEN covered ELSE {}

Unchanged == UNCHANGED <<world, assumed, cleanup, meaning>>

Executes(t, op) ==
  /\ th[t].at # 0
  /\ Line(th[t]).op = op
  /\ Readable(th[t])
  /\ Unchanged

Continue(t, r) == Become(t, r, State)

Sequence(t) ==
  /\ Executes(t, "SEQUENCE")
  /\ LET r == th[t]
     IN  Continue(t, Into([r EXCEPT !.frames =
           Append(@, [at |-> Jump(Code(r.program), r.at), args |-> <<>>,
                      table |-> "", left |-> {<<>>}])]))

Lets(t) ==
  /\ Executes(t, "LETS")
  /\ LET r   == th[t]
         reg == Args(r)[Only(Positions(Args(r), "newset"))][2]
     IN  Continue(t, Into([r EXCEPT !.sets =
           [x \in DOMAIN @ \cup {reg} |-> IF x = reg THEN LineOf(r) ELSE @[x]]]))

ForSets(t) ==
  /\ Executes(t, "FOR_SETS")
  /\ Continue(t, Loop(th[t], "", {<<x>> : x \in Intersection(th[t])}))

ForAll(t) ==
  /\ Executes(t, "FOR_ALL")
  /\ Continue(t, Loop(th[t], "", {<<x>> : x \in struct.support}))

For(t) ==
  /\ Executes(t, "FOR")
  /\ Continue(t, Loop(th[t], Table(th[t]), Matches(th[t])))

IfBlock(t) ==
  /\ Executes(t, "IF_BLOCK")
  /\ Continue(t, If(th[t], Val(th[t], 1) \div BlockSize = th[t].block))

IfEqual(t) ==
  /\ Executes(t, "IF_EQUAL")
  /\ Continue(t, If(th[t], Val(th[t], 1) = Val(th[t], 2)))

IfIn(t) ==
  /\ Executes(t, "IF")
  /\ Continue(t, If(th[t], Matches(th[t]) # {}))

Let(t) ==
  /\ Executes(t, "LET")
  /\ Matches(th[t]) # {}
  /\ Continue(t, Into([th[t] EXCEPT !.obs = Bound(@, Args(th[t]), Only(Matches(th[t])))]))

InferEqual(t) ==
  /\ Executes(t, "INFER_EQUAL")
  /\ LET s == Merge(State, Val(th[t], 1), Val(th[t], 2))
     IN  Become(t, Back(th[t], s), s)

Infer(t) ==
  /\ Executes(t, "INFER")
  /\ LET s == Insert(State, Table(th[t]), Vals(th[t]))
     IN  Become(t, Back(th[t], s), s)

Arity(n) == IF n \in Nullary THEN 0 ELSE IF n \in Injective THEN 1 ELSE 2

\* The values of two functions are equal: whichever is defined tells the other.
Paired(s, f, key1, g, key2) ==
  IF Find(s, f, key1) # {} THEN Insert(s, g, Append(key2, Only(Find(s, f, key1))))
  ELSE IF Find(s, g, key2) # {} THEN Insert(s, f, Append(key1, Only(Find(s, g, key2))))
  ELSE s

InferPair(t) ==
  /\ Executes(t, "INFER_PAIR")
  /\ LET r == th[t]
         f == Line(r).tables[1]
         g == Line(r).tables[2]
         s == Paired(State, f, SubSeq(Vals(r), 1, Arity(f)),
                            g, SubSeq(Vals(r), Arity(f) + 1, Len(Vals(r))))
     IN  Become(t, Back(r, s), s)

Instruction(t) ==
  \/ Sequence(t) \/ Lets(t) \/ ForSets(t) \/ ForAll(t) \/ For(t)
  \/ IfBlock(t) \/ IfEqual(t) \/ IfIn(t) \/ Let(t)
  \/ InferEqual(t) \/ Infer(t) \/ InferPair(t)

-----------------------------------------------------------------------------
(* Tasks.  All but MergeTasks share the lock of the scheduler.             *)

Samples == world.phase = "survey"
Assumes == world.phase = "initialize"

Ready(t) == th[t].task = "idle" /\ \A u \in Thread : th[u].task # "merge"

BeginExists(t) ==
  /\ Ready(t) /\ events["exists"] # <<>>
  /\ th' = [th EXCEPT ![t] = NextProgram([Idle EXCEPT !.task = "enforce",
                 !.args = Head(events["exists"]), !.todo = OnExists])]
  /\ events' = [events EXCEPT !["exists"] = Tail(@)]
  /\ UNCHANGED <<struct, merges, covered>> /\ Unchanged

BeginOrder(t, n) ==
  /\ Ready(t) /\ events[n] # <<>>
  /\ th' = [th EXCEPT ![t] = NextProgram([Idle EXCEPT !.task = "enforce",
                 !.args = Head(events[n]), !.todo = OnEvent(n)])]
  /\ events' = [events EXCEPT ![n] = Tail(@)]
  /\ UNCHANGED <<struct, merges, covered>> /\ Unchanged

\* Cleanup::try_pop and execute_cleanup.
BeginCleanup(t) ==
  /\ Ready(t) /\ cleanup.done < CleanupCount
  /\ cleanup' = [done |-> cleanup.done + 1, turn |-> (cleanup.turn + 1) % CleanupCount]
  /\ th' = [th EXCEPT ![t] = NextProgram([Idle EXCEPT !.task = "cleanup",
                 !.todo = <<CleanupProgram(cleanup.turn)>>,
                 !.block = CleanupBlock(cleanup.turn), !.undisturbed = TRUE])]
  /\ UNCHANGED <<world, struct, events, merges, assumed, meaning, covered>>

\* Faulty: a cleanup task restarts the cleanup, too.
RestartAlways(r) == Samples /\ Cardinality(Thread) > 1

\* Cleanup::push_all(), after an event of the survey.
Restart(r) == r.task = "enforce" /\ Samples /\ Cardinality(Thread) > 1

\* A program ends: the next one begins, or the task ends.  The cleanup starts
\* over after an event of the survey.
EndProgram(t) ==
  /\ th[t].task \in {"enforce", "cleanup"} /\ th[t].at = 0
  /\ LET r == th[t]
     IN  IF r.todo # <<>>
         THEN th' = [th EXCEPT ![t] = NextProgram(r)] /\ UNCHANGED <<cleanup, covered>>
         ELSE /\ th' = [th EXCEPT ![t] = Idle]
              /\ cleanup' = IF Restart(r) THEN [cleanup EXCEPT !.done = 0] ELSE cleanup
              /\ covered' = IF r.undisturbed
                            THEN covered \cup {<<r.program, r.block>>} ELSE covered
  /\ UNCHANGED <<world, struct, events, merges, assumed, meaning>>

PopMerge(t) ==
  /\ th[t].task = "idle" /\ merges # <<>>
  /\ th' = [th EXCEPT ![t] = [Idle EXCEPT !.task = "merging", !.args = <<Head(merges)>>]]
  /\ merges' = Tail(merges)
  /\ UNCHANGED <<struct, events, covered>> /\ Unchanged

Exclusive(t) ==
  /\ th[t].task \in {"merging", "merge"}
  /\ \A u \in Thread \ {t} : th[u].task \in {"idle", "merging"}

\* execute(MergeTask) for the task popped and those queued, without others.
ExecuteMerge(t) ==
  /\ Exclusive(t)
  /\ LET dep == th[t].args[1]
         s   == ProcessMerge(State, dep)
         r   == IF s.merges = <<>> THEN Idle
                ELSE [Idle EXCEPT !.task = "merge", !.args = <<Head(s.merges)>>]
     IN  Become(t, r, [s EXCEPT !.merges = IF @ = <<>> THEN @ ELSE Tail(@)])
  /\ Unchanged

\* The sampler descends to a term that has no ob yet.  An ob of its key may have
\* been merged since a table named it.
BeginSample(t) ==
  /\ Ready(t) /\ Samples /\ Cardinality(struct.support) < Dim
  /\ \E n \in FunctionNames \cap DOMAIN struct.table :
       \E key \in [1 .. Arity(n) -> struct.support] :
         /\ Find(State, n, key) = {}
         /\ th' = [th EXCEPT ![t] = [Idle EXCEPT !.task = "sample", !.make = <<n, key>>]]
  /\ UNCHANGED <<struct, events, merges, covered>> /\ Unchanged

BeginAssume(t) ==
  /\ Ready(t) /\ Assumes /\ assumed # <<>>
  /\ th' = [th EXCEPT ![t] = [Idle EXCEPT !.task = "assume", !.todo = Head(assumed)]]
  /\ assumed' = Tail(assumed)
  /\ UNCHANGED <<world, struct, events, merges, cleanup, meaning, covered>>

\* A term of the fact, in postfix, is looked up.
ParseTerm(t) ==
  /\ th[t].task = "assume" /\ th[t].make = <<>> /\ Len(th[t].todo) > 1
  /\ LET r == th[t]
         n == Head(r.todo)
         rest == SubSeq(r.args, 1, Len(r.args) - Arity(n))
         key  == SubSeq(r.args, Len(r.args) - Arity(n) + 1, Len(r.args))
     IN  th' = [th EXCEPT ![t] =
           IF Find(State, n, key) = {}
           THEN [r EXCEPT !.todo = Tail(@), !.args = rest, !.make = <<n, key>>]
           ELSE [r EXCEPT !.todo = Tail(@),
                          !.args = Append(rest, Only(Find(State, n, key)))]]
  /\ UNCHANGED <<struct, events, merges, covered>> /\ Unchanged

\* try_insert() for a term without an ob.
MakeOb(t) ==
  /\ Len(th[t].make) = 2 /\ struct.support # Ob
  /\ LET new == Min(Ob \ struct.support)
         n   == th[t].make[1]
         key == th[t].make[2]
     IN  /\ Become(t, [th[t] EXCEPT !.make = Append(@, new)],
                   [State EXCEPT !.struct.support = @ \cup {new},
                                 !.struct.rep[new] = new,
                                 !.events["exists"] = Append(@, <<new>>)])
         /\ meaning' = [meaning EXCEPT ![new] =
              Only({Last(u) : u \in {v \in world.model[n] :
                      Front(v) = [i \in DOMAIN key |-> meaning[key[i]]]}})]
  /\ UNCHANGED <<world, assumed, cleanup>>

\* Another sampler has taken the last ob.
SampleInVain(t) ==
  /\ th[t].task = "sample" /\ Len(th[t].make) = 2 /\ struct.support = Ob
  /\ Continue(t, Idle)
  /\ Unchanged

MakeEntry(t) ==
  /\ Len(th[t].make) = 3
  /\ LET r == th[t]
         s == Insert(State, r.make[1], Append(r.make[2], r.make[3]))
     IN  Become(t, IF r.task = "sample" THEN Idle
                   ELSE [r EXCEPT !.make = <<>>, !.args = Append(@, r.make[3])], s)
  /\ Unchanged

AssumeFact(t) ==
  /\ th[t].task = "assume" /\ th[t].make = <<>> /\ Len(th[t].todo) = 1
  /\ LET r == th[t]
         s == IF Head(r.todo) = "EQUAL" THEN Merge(State, r.args[1], r.args[2])
              ELSE Insert(State, Head(r.todo), r.args)
     IN  Become(t, Idle, s)
  /\ Unchanged

-----------------------------------------------------------------------------

\* insert_nullary_functions(), unless the survey goes on with a structure.
Init ==
  /\ \E w \in Worlds : world = Loaded(w)
  /\ LET missing == IF Assumes THEN {n \in DOMAIN world.tables : n \in Nullary /\ world.tables[n] = {}}
                    ELSE {}
         count   == world.count + Cardinality(missing)
     IN  \E new \in [missing -> world.count + 1 .. count] :
           /\ \A m, n \in missing : new[m] = new[n] => m = n
           /\ struct = [support |-> 1 .. count,
                        rep     |-> [x \in Ob |-> IF x <= count THEN x ELSE 0],
                        table   |-> [n \in DOMAIN world.tables |->
                                       IF n \in missing THEN {<<new[n]>>} ELSE world.tables[n]]]
           /\ events = [exists |-> [i \in 1 .. Cardinality(missing) |-> <<world.count + i>>],
                        LESS |-> <<>>, NLESS |-> <<>>]
           /\ meaning = [x \in Ob |->
                IF x <= world.count THEN world.meaning[x]
                ELSE IF x <= count
                THEN Only({Last(u) : u \in UNION {world.model[n] : n \in {m \in missing : new[m] = x}}})
                ELSE 0]
  /\ merges = <<>>
  /\ assumed = world.assume
  /\ cleanup = [done |-> IF Assumes THEN 0 ELSE CleanupCount, turn |-> 0]
  /\ th = [t \in Thread |-> Idle]
  /\ covered = {}

Step(t) ==
  \/ Instruction(t) \/ EndProgram(t)
  \/ BeginExists(t) \/ (\E n \in Told : BeginOrder(t, n)) \/ BeginCleanup(t)
  \/ PopMerge(t) \/ ExecuteMerge(t)
  \/ BeginSample(t) \/ BeginAssume(t) \/ ParseTerm(t)
  \/ MakeOb(t) \/ SampleInVain(t) \/ MakeEntry(t) \/ AssumeFact(t)

\* Nothing is left to do.
Quiescent ==
  /\ \A t \in Thread : th[t] = Idle
  /\ \A n \in DOMAIN events : events[n] = <<>>
  /\ merges = <<>> /\ assumed = <<>>
  /\ cleanup.done = CleanupCount
  /\ Samples => struct.support = Ob

\* Then the workers wait for ever.
Over == Quiescent /\ UNCHANGED vars

Next == (\E t \in Thread : Step(t)) \/ Over

Spec == Init /\ [][Next]_vars

\* Until nothing is left to do, some worker goes on.  (In every other state one
\* can, as TLC finds when it looks for deadlocks.)
FairSpec == Spec /\ ([]<>Quiescent \/ []<><<TRUE>>_vars)

-----------------------------------------------------------------------------
(* Properties.                                                             *)

\* Rules, which the programs are compiled from, in a structure: whenever the
\* entries that are given are there, so is the conclusion.
Concluded(then, e, table, Equal(_, _)) ==
  LET Has(n, key) == {Last(u) : u \in {v \in table[n] : Front(v) = [i \in DOMAIN key |-> e[key[i]]]}}
  IN  CASE then[1] = "EQUAL" -> Equal(e[then[2]], e[then[3]])
        [] then[1] = "PAIR" ->
             Has(then[2], then[3]) \cup Has(then[4], then[5]) # {} =>
               \E v \in Has(then[2], then[3]), w \in Has(then[4], then[5]) : Equal(v, w)
        [] then[1] \in FunctionNames ->
             \E v \in Has(then[1], Front(then[2])) : Equal(v, e[Last(then[2])])
        [] OTHER -> [i \in DOMAIN then[2] |-> e[then[2][i]]] \in table[then[1]]

Holds(rule, elements, table, Equal(_, _)) ==
  \A e \in [rule.vars -> elements] :
    (\A g \in rule.given : [i \in DOMAIN g[2] |-> e[g[2][i]]] \in table[g[1]])
      => Concluded(rule.then, e, table, Equal)

HoldsHere(rule) ==
  Holds(rule, {x \in struct.support : struct.rep[x] = x}, struct.table,
        LAMBDA x, y : struct.rep[x] = struct.rep[y])

\* Whatever the model makes true, of which the rules and what the surveyor was
\* told are part, and nothing else is derived: every entry of every table is
\* one of the model's, and obs that are merged denote the same element.  What
\* is read before another worker's step and used after it stays true.
Sound ==
  /\ \A n \in DOMAIN struct.table : \A u \in struct.table[n] :
       [i \in DOMAIN u |-> meaning[u[i]]] \in world.model[n]
  /\ \A x \in struct.support : meaning[struct.rep[x]] = meaning[x]

\* Programs load and run: no register or line is used before this execution
\* of the program has set it, padding is not executed, LET finds the value
\* whose key it saw defined, and no merge contradicts NLESS (the assertions of
\* program.cpp, vm_impl.hpp and theory.cpp).
AssertionsHold ==
  /\ \A i \in DOMAIN world.programs : world.programs[i].ok
  /\ \A t \in Thread :
       /\ th[t].at # 0 =>
            /\ Readable(th[t])
            /\ Line(th[t]).op # "PADDING"
            /\ Line(th[t]).op = "LET" => Matches(th[t]) # {}
       /\ Exclusive(t) =>
            LET dep == th[t].args[1]
                rep == struct.rep[dep]
            IN  /\ rep < dep
                /\ {<<dep, rep>>, <<rep, dep>>} \cap struct.table["NLESS"] = {}

\* When the work is over, the rules about order alone hold: a fact that two
\* workers derive premises of at once is not lost, because the event of the
\* later one sees both, also when merges move or cancel them.
OrderClosed ==
  Quiescent =>
    \A rule \in world.rules : (\A g \in rule.given : g[1] \in Told) /\ rule.given # {}
                            => HoldsHere(rule)

\* A round of cleanup tasks, each of which ran undisturbed since the structure
\* last changed, leaves nothing to be derived by any rule: the programs and
\* their blocks cover all obs.
CleanupCovers ==
  {<<CleanupProgram(c), CleanupBlock(c)>> : c \in 0 .. CleanupCount - 1} \subseteq covered
    => \A rule \in world.rules : HoldsHere(rule)

\* The work ends: events, merges and the cleanup that they restart do not go
\* on for ever.
WorkEnds == <>Quiescent

=============================================================================
