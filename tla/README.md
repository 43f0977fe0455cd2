# A verification project for pomagma

Pomagma is an inference engine for extensional untyped lambda calculus.
A *structure* is a finite set of *obs* (equivalence classes of terms) with
functions and relations on it. A *surveyor* saturates a structure under a theory,
many threads deriving facts, equations and new obs at once; a *cartographer*
aggregates surveys into a world map, normalizes it and trims regions from it; an
*analyst* answers queries about it; Python workers drive those programs over a
directory of blobs.

This directory holds TLA+ modules of the parts that carry the program's own
logic, TLC configurations for small instances, and proofs checked by TLAPS.
`PROJECT.json` lists the runs, the theorems, the hazards, the definition-to-code
map, and for every property a fault in a mapped definition that breaks it.

## 1. Inventory

| component | state | operations | modules |
|---|---|---|---|
| micro carrier `atlas/micro/carrier.*` | `m_reps`, `m_support`, two counters | `try_insert`, `find`, `merge`, `ensure_equal`, `set_and_merge`, `set_or_merge`, `unsafe_remove` | Partition (what it promises), Carrier |
| micro scheduler `atlas/micro/scheduler.*` | task queues, cleanup counters, `g_working_flag`, `g_working_count`, the strict rwlock, a condition variable | `schedule`, `do_work`, `initialize`, `survey`, `survey_until_deadline`, cancellation | Scheduler |
| micro tables `atlas/micro/*_function.*`, `*_relation.*` | values, bit lines, inverse tables | `insert`, `unsafe_merge`, insertion of whole rows and columns, callbacks | Tables (Carrier for nullary functions) |
| virtual machine `atlas/program.*`, `atlas/vm*` and the surveyor's executors `surveyor/theory.*` | loaded programs, an agenda, registers | the parser, every instruction, `execute(task)` | Programs, VM |
| macro structure `atlas/macro/*` | a sequential carrier with a queue of merges, tables | `process_mergers`, `compact`, `resize`, load, dump, validation | Macro |
| router `atlas/macro/router.*` | an index of facts by value | `iter_val`, `find_defined` | Router |
| cartographer `cartographer/*` | one structure | crop, aggregate, assume, declare, trim, conjecture, validate, dump; infer | Cartographer; Order and Infer |
| analyst `analyst/*` | a structure, caches | `validate_facts`, `validate_corpus` | Parser, Intervals, Propagate; Approximate, Corpus, AsyncMap, Validator |
| caches and pool `util/lazy_map.hpp`, `async_map.hpp`, `worker_pool.hpp` | pending and finished entries, callbacks, a queue | `try_find`, `find_async`, `schedule` | Propagate, AsyncMap |
| atlas workers, blob store `workers.py`, `io/blobstore.*` | directories of files | loops, renames, garbage collection | not modelled |

What is hard about them: the carrier is lock-free (stale reads, failed and
spurious compare-exchanges, threads that move the obs one is walking over). The
scheduler's termination counts workers without a lock, loses notifications and
reads counters before it takes a lock; a task in a queue may outlive the obs it
names, whose slots are reused. The tables update a value and several indices
that readers see in between, and a merge rewrites them while other tables merge
more obs. A program of the virtual machine walks sets that other workers
extend. The cartographer's parallel loops read the order while others add to
it. The analyst's caches answer "pending" and call back from several threads.

Not modelled, each with its line in `PROJECT.json`: serialisation, blobs and
messages (input and output); the Python workers (processes that race on
directories: outside the C++ core); the compiler, reducer, language, linguist,
torch, theorist and solver (sequential or numeric); the shard variant and the
message queues (no program links them); third-party code.

### How they interact

The surveyor is Carrier, Tables, Scheduler and VM together. They are modelled one
by one, each at the grain of its own shared accesses, and use each other by what
has been shown: Tables takes the carrier by its promise (Partition); the
scheduler's `status` and the VM's `rep` take a merge as one step, once per
ob (`MergeScheduledOnce`), with chains that descend (`ChainsDescend`); Infer
takes `process_mergers` by what `Quotient` says of it. Cartographer composes Macro
and Router; Infer extends Order; Propagate extends Intervals and takes the parser of facts
as a constant, which its MC module gives it from Parser; Validator composes
AsyncMap and Corpus, which extends Approximate.

## 2. What is modelled

### Partition.tla - what a carrier promises

One variable, `cls`: the least member of each ob's class, 0 for an absent ob.
`Insert`, `Unite` and `Remove` are atomic, and only an ob that is not the name of
its class is removed.

### Carrier.tla - how `atlas/micro/carrier.*` keeps the promise

One action is one atomic access of the code: a load, a compare-exchange or an
increment. The build asserts x86, so accesses are sequentially consistent in the
model.

| in the code | in the model |
|---|---|
| `m_reps`, `m_support`, `m_item_count`, `m_rep_count` | `reps`, `support`, `itemCount`, `repCount` |
| locals of `merge`, `set_*_merge`, the frame of `_find` | `dep`, `rep`, `old`, `src`, `ob`, `val` |
| the recursion stack of `_find` | `path`, a set, since frames descend (which `FindInClass` shows) |
| `try_insert` | `StartInsert`, `InsertCheck`, `InsertCas`, `InsertSupport`, `InsertItemCount`, `InsertRepCount` |
| `find`, `_find` | `StartFind`, `FindLoad`, `FindCompress`, `FindReturn` |
| `merge`, `ensure_equal` | `StartMerge`, `MergeCas`, `MergeCasSpurious`, `MergeLoad`, `MergeSchedule`, `MergeRepCount` |
| `set_and_merge`, `set_or_merge` | `StartSet`, `SetCas`, then a merge; `AndCell` and `OrCell` say which of the two writes back |
| `m_merge_callback` and the queue it fills | `MergeSchedule`, `pending` |
| `execute(MergeTask)`, `NullaryFunction::unsafe_merge`, `unsafe_remove` | `BeginTask`, `StartReplace`, `FindReturn`, `EndTask` |
| `clear`, `raw_insert`, `update` | the initial states |

A MergeTask starts and ends only when no other operation is in flight (the
strict lock, which is Scheduler's business), but threads may find and merge
while it runs, as the threads that merge binary tables do.

Two history variables carry the meaning of the code's intentions: `cls` is the
partition by what was *requested* so far, and `req` what each operation was
called with. `reps` and `cls` are changed independently: `cls` by the pair that
the caller named, `reps` by whatever dep and rep the loop has arrived at.

### Scheduler.tla - `atlas/micro/scheduler.*`

| in the code | in the model |
|---|---|
| `do_work` | `Start`, `CheckFlag`, `Enter`, the steps of `try_work`, `Leave`, `Wait`, `Timeout`, `Stop`, `NotifyAll` |
| `try_initialize_work`, `try_survey_work`, `try_deadline_work` | `Steps`, chosen by `phase`; each worker is at one of them (`pos`) |
| `try_execute` of the merge queue | `TryMerge`, `MergeLock`, `MergeRemove`, `MergeNext` |
| `enforce_tasks_try_execute` | `TryEnforce`, `Finish`, `PushAll` |
| assume, sample and cleanup tasks | `TryAssume`, `TrySample`, `TryCleanup`, `CleanupType`, `ExecLock` |
| `schedule(...)`, `notify_one` | `DeriveFact`, `DeriveEqual`, `InsertOb`, `NotifyOne` |
| `cancel_tasks_referencing` | `Cancelled`, in `MergeRemove` |
| `g_strict_mutex` | `Readers` and `Writers`, read off where the workers are |
| the deadline | `Deadline`, at any moment |

What a task derives is open: any fact about live obs, any equation between
roots, a new ob when sampling or assuming. The enforce queues differ only in
their order, so a run has one or two of them (`QueueOrder`). A task is the set
of obs it refers to. `due` is a history variable: the cleanup types that have
not been taken since the last task that may have run beside others (an enforce
task of a survey with more than one worker, `Disturbs`); it is set whether or not
the code asks for a cleanup, which `Recleans` decides.

### Tables.tla - `atlas/micro/*_function.*` and `*_relation.*`

One table of any of five kinds (`kind`): a binary, symmetric or injective
function, a binary or a unary relation.

| in the code | in the model |
|---|---|
| `m_tiles`, `m_values` | `val` |
| `m_lines` (`Lx`, `Rx`), `m_set`, `m_inverse_set` | `lx`, `rx` |
| `m_Vlr_table`, `m_VLr_table`, `m_VRl_table`; `m_inverse` | `vlr`, `vLr`, `vRl`; `inv` |
| `insert` of a function | `StartInsert`, `FunSet`, `FunLines`, `FunIndex`, `FunTell` (injective: `InjSet` and on) |
| `insert` of a relation, `insert_Lx`, `insert_Rx` | `RelFirst`, `RelSecond`, `RelTell`, `LineLoad`, `LineOr`, `LineTell` |
| `unsafe_merge` | `BeginMerge`, `FindRep`, the passes `MoveRhs`, `FoldRhs`, `MoveDiagonal`, `FindRepAgain`, `MoveLhs`, `FoldLhs`, `MoveVal`, ..., `EndMerge` |
| `insert_callback` | `told` |
| merges by the task, by other tables, by tasks about equality | `TaskMerge`, `OtherMerge`, `Equal` |

The carrier is `root`, by what CarrierProofs shows of it: a value that collides
with another one is merged with it and the lower one stays. History variables:
`facts` and `eqs` are what was asked (facts inserted or loaded, equations other
than those the table itself finds) and `cls` is the partition that the requests
made. `Effort` bounds the insertions and equations of a behaviour.

### Programs.tla, VM.tla, Derivation.tla - programs, agenda, tasks

`Programs` is the parser: names become registers, a program a list of byte-code
lines, with the bytes that `SEQUENCE` jumps over (`eval_float53`) and the
register limits. `VM` executes them one instruction per step (`For`, `Lets`, `IfIn`,
`InferPair`, ... with `Sequence` and the loops as a stack of positions), with the
events that insertions cause, the merges (`PopMerge`, `ExecuteMerge`), the cleanup
blocks, samples and assumed facts. An idle worker takes any task there is;
Scheduler has the order. History: `meaning`, the element of a model that each ob
denotes, and `covered`, the cleanup tasks that ran since the structure last
changed.

`Derivation` says what the theorems of VM ask of the programs and facts that a
surveyor is given: `Verified`. Run in the model itself, whose tables hold all that is
true, a program comes to certain *places* - a line, the elements in its registers,
the sets they hold, the entries known to be there - and at each of them the line
reads only what is set, a `LET` has a key whose value was found, and an `INFER` infers
what is true. The constant operator `Certificate` has these places of every surveyor
of a run, and what is left of each fact with the elements its terms stand for;
`MCVM` computes them, and TLC checks `SurveyAssumption` of them before the run.

### Macro.tla, Router.tla, Cartographer.tla

`Macro` is the sequential structure as operators from structures to structures,
one per method: the callbacks, the queue of merges, `unsafe_merge` of each kind
of table, `update_values`, removal, compaction, resizing, `validate`, and
`Router` its index of facts by value. `Cartographer` is the server: a request
is worked off in stages (`todo`), of which each is an action; the threads that
aggregate (`InjectFact`) insert in any order. An assertion that fails ends the
process (`ok`), which `Restart` starts again from its last dump. The history
variable `told` is the free structure of what the server was told.

### Order.tla, Infer.tla - `cartographer/infer.cpp`, `client.py`

`Order` has the parallel loops of `infer_less` and `infer_nless`: a thread takes
an ob (`TakeOb`), looks at one partner after another (`Look`), and flushes what it
gathered under the mutex, row and column by two steps (`FlushBegin`, `FlushRow`,
`FlushCol`); reads take no lock. `Infer` is `normalize()` around it: `InferConst`,
`InferAssoc`, `InferTranspose`, their queues (`ProcessTask`, `EndProcess`),
`InferEqual`, and the client that asks again (`Answer`).

### Parser.tla, Intervals.tla, Propagate.tla - `validate_facts`

`Parser` is `parse_theory`: the expressions of all facts once each, arguments before
what they are arguments of; it is recursive, hence a module of its own, and
`Propagate` has it as the constant operator `ParseTheory`, of which `SessionsAssumption`
names what a proof needs (`IsTheory`: arguments are places in the theory, functions
are those of the structure).
`Intervals` is `analyst/intervals`: four sets per unknown, fused and propagated.
`Propagate` is `lazy_validate` with its LazyMaps: the server takes its stages one
access to a cache at a time, workers store what was asked for (`Store`), and the
client asks again while the answer is MAYBE.

### Approximate.tla, Corpus.tla, AsyncMap.tla, Validator.tla - `validate_corpus`

`Approximate` is `analyst/approximate`, `Corpus` the linker of definitions.
`AsyncMap` has the two AsyncMaps between the server and a pool of workers: a thread
is its stack of calls (C++ frames with what they have still to call), a step one
access to a map, to its callbacks or to a task's counter.

| in the code | in the model |
|---|---|
| `m_values`, `m_callbacks` of both maps | `values`, `callbacks` |
| `find`, `find_async` | `FindStep`, `Enlist` (who inserted the key), `Check` (who saw no value) |
| `store` and its callbacks | `StoreValue`, `Notify` |
| `Validator::Task`, its `m_state` | `NewTask`, `TaskArrive`, `waiting` |
| `WorkerPool::schedule`, the loop of a worker | `Schedule`, `Work`, `queue` |

`AsyncNext` lets the server ask for any term at any time and workers compute any
value. `Validator` asks for what `validate_corpus` asks for (`Begin`, `Look`,
`Reply`) and computes what `CachedApproximator::compute` does (`Compute`).

## 3. The runs

Sizes are distinct states, under the symmetry named in the configuration.

| run | instance | states | shows |
|---|---|---|---|
| `carrier_cells` | 2 threads, 3 obs, one cell of each kind | 797,643 | types; the safety and action properties of Carrier; refinement of Partition |
| `carrier_live` | 2 threads, 3 obs, one cell, fairness | 244,697 | every operation returns |
| `scheduler` | 3 workers, 2 obs, 2 queues, 2 cleanup types, 1 derivation, all phases | 1,033,836 | types, no stale task, work has a worker, nothing left at the end |
| `scheduler_live` | 2 workers, 2 derivations, fairness | 589,488 | the workers stop |
| `tables` | 2 threads, 3 obs, five kinds of table, 3 facts or equations | 1,817,788 | tables and indices agree, what is told is there, the classes are the least congruence |
| `cartographer` | 8 obs, tables of five kinds, 4 requests | 60,430 | the answers are quotients of what the server was told; which requests fail or are not answered, and that the others are |
| `cartographer_dropped` | a survey with a function that the world lacks | - | finding: `iter_val` reads the index of another value |
| `cartographer_quote` | an injective entry at the dep only | - | finding: the null ob is merged |
| `infer` | 7 structures of 4 to 6 obs, 2 threads | 36,040 | `normalize` returns, saturated, and derived nothing unsound |
| `vm` | 9 theories, 2 workers, blocks of 2 obs | 207,698 | what is derived is true, events and cleanup lose nothing, the work ends |
| `propagate` | 7 theories, 1 or 2 pool threads, sessions of requests | 370,601 | answers are those of the complete solution, and come |
| `validator` | 9 corpora, 2 pool threads, depths to 3 | 132,951 | every callback once, verdicts true, and they come |

**Why these bounds.** *Carrier:* three obs are the least for which a chain has
length two, hence for a compression that skips something and for two merges that
disagree about an intermediate root. Slots are reused within the bound: a removed
ob's slot can be inserted again while another operation runs. Both kinds of cell
are in one instance because a MergeTask treats the cells one after another.
*Scheduler:* three workers let one wait and one stop while a third works or has
not started; two obs allow one merge, one removal and one reuse of the slot; two
cleanup types distinguish a round from a step; `Budget` bounds how many facts and
equations a phase derives. *Tables:* three obs let a rep be merged again while
its dep moves; `Effort` = 3 lets two facts meet in an equation, whose MergeTask
runs beside a third. *Cartographer:* worlds of three or four obs, surveys that
share some of them, and theories that make them collapse in a cascade; four
requests let each follow any other, with restarts between. One survey
(`Stranger`) has a constant that the worlds lack unless it is declared: with and
without it, and with and without room made by `crop`, the run meets every failure
that the properties describe and the successes beside them. The passing run has no
injective function: that case is a violation. *Infer, VM, Propagate, Validator:* the
inputs are whole structures, theories and corpora (`MCInfer`, `MCVM`,
`MCPropagate`, `MCValidator` with `MCAnalyst` say what each is for); the interleavings
over them are not bounded. `Validator` stops at depth 3 instead of 10: the
approximations of its structures are stable before.
The safety theorems of section 4 have none of these bounds.

**Deadlock** is checked except where the system really rests: the tables when
`Effort` is used up, the cartographer when no request comes, the analyst when the
client's session is over.

### What the properties say

*Carrier:* `ChainsDescend`, `ClassesAsRequested` - the pointers are a forest and
its trees are the requested classes. `FindInClass` - a find in progress, wherever
other threads' compressions and merges led it, stays in its class and returns
nothing less merged than the root its caller could have known. `CellsInClass` -
the loser of a race for a cell works on merging its value with the one that
stays. `MergeScheduledOnce` - exactly one MergeTask per merged ob, whatever fails
and retries; `CountsExact` - the counters, up to the operations in flight. Steps:
`SetReturnsAgreed`, `CellKeepsItsClass`, and `ImplementsPartition` (the refinement).
Liveness: `OperationsReturn`.

*Scheduler:* `NoStaleTask` (no queued or running task refers to a removed ob,
even when its slot has been taken again), `WorkHasWorker` (whatever there is to
do, some worker is still going to look there before it stops looking),
`QuitsWhenDone` (at the join: no task, no dep, no free slot to sample, all
cleanup types run since the last task, unless the deadline cut it short),
`EveryoneQuits` (liveness).

*Tables:* `TableValid` - between tasks the lines and inverse tables say what the
values say, and nothing mentions a removed ob. `LinesLag` - who finds a fact in a
later table finds it in the earlier ones (values, lines, inverse tables, callback).
`RelationsTold` - no pair of a relation is there without having been told.
`CongruenceReached` - the classes are never coarser than the least congruence of
the facts and equations asked for; once nothing is due they are it, and the table
is the image of the facts.

*Cartographer:* `WorldValid`, `Quotient` (obs and tables are the free structure of
what was told, divided by its least congruence), `RegionFaithful` (a trimmed region
has the facts of the world about its obs). The server is not free of failures, and
two properties say exactly which are possible. `FailsForCauseOnly`: an assertion
fails only where a survey has functions that the world lacks (`aggregate` had room
for the others only; `find_routes` meets an ob that the language cannot define), or
where a region was asked for that is smaller than the constants and core facts it
must keep. `RequestsAnswered`: every request ends but a random trim that is to be
larger than what can be defined (`Starved`), or the process does.

*Infer:* `LoopsOK` (type invariant and what the loops rely on), `Sound` (an order
that the structure stood for before a step it stands for afterwards), `Saturated`
(when `normalize` returns no rule has anything to add), `Normalizes`.

*VM:* `Sound` (every entry is true in the model), `AssertionsHold`, `OrderClosed`
(events lose no consequence of order), `CleanupCovers` (an undisturbed round of
cleanup tasks leaves nothing to derive), `WorkEnds`.

*Analyst:* `RepliesAgree`, `Sound`, `Answered`; `Accounted` (each key without a value
has one call, task or entry of the queue that will store it, each task waits for
as many callbacks as will come, and lists of callbacks are called), `VerdictsTrue`,
`Validated`.

### Fairness

*Carrier.* Weak fairness of each thread's started operation: the operating
system schedules threads. Strong fairness of `MergeCas`, the genuine outcome of
`compare_exchange_weak`: a spurious failure may happen, on x86 it does not at
all, and nowhere for ever. Starting an operation is not fair, so a thread may
stop calling. `OperationsReturn` holds although `try_insert` spins while the
count says there is room and no slot is free: the thread that claimed the last
slot is about to publish it.

*Scheduler.* Weak fairness of each worker; a timed wait ends by its timeout,
which is a step of the worker. Strong fairness of a sample inserting an ob:
terms are drawn at random. `EveryoneQuits` has a proviso, stated in the
property: from some point on no wait ends while another worker is between two
tasks. Without it TLC finds two workers that wake in turns for ever, each
finding the other counted in `g_working_count`, so that nobody sees 0. A wait
lasts 100 ms and an empty round of `try_work` microseconds, which is what the
proviso says; the program's termination does rest on this timing.

*The others* need only that running threads go on. Their `FairSpec` spells weak
fairness out (infinitely often disabled or infinitely often taken), which TLC
checks faster than `WF_`: of the cartographer's stages, but for the sampler that
finds nothing more; of `Next` as long as `normalize` or the virtual machine's
workers have something to do (some worker goes on, not each: enough, as their
steps are bounded); of the server and of the pool in Propagate; of the
server and each worker in Validator. Requests and `Restart` are not fair.

## 4. The proofs

TLAPS checks every proof to its leaves, for all values of the constants: any
number of slots, threads, workers, cells, queues, cleanup types, facts. The
assumptions are those the modules name (`CarrierAssumption`,
`SchedulerAssumption`, `TablesAssumption`, `OrderAssumption`, `AsyncAssumption`:
terms have lists of terms as arguments; `SessionsAssumption`: a structure is part of
a model whose order its functions respect, and a parsed theory is well formed;
`SurveyAssumption`: the tables, programs and facts that a surveyor starts with are
true in a model, see Derivation); TLC evaluates them in the runs.

**CarrierProofs.** The inductive invariant `IInv` is type correctness,
`SharedInv` and `ThreadInv(t)` of each thread.
`SharedInv` strengthens the checked invariants by three facts they do not give:
classes are named by a claimed root (`ClassesNamed`); a dep is due once, in the
queue, in a thread's hands or running (`DueOnce`, the part of
`MergeScheduledOnce` that needs no cardinalities), without which a slot could
be removed and reused under a MergeTask; the cells a MergeTask has treated do
not hold its dep (`Treated`). `ThreadInv` is the checked `FindKept`, `MergeKept`
and `SetKept` with `InPlace`, which variables are in use at which label.

The argument is that of interference freedom. `Grows` says what a step of one
thread leaves to the others: claimed obs stay claimed, classes only grow, a
pointer that points down keeps pointing down, a cell's value is replaced by one
of its class. Each action is shown to imply `Grows` and to keep its own
`ThreadInv`; one lemma shows that `Grows` keeps the `ThreadInv` of every other
thread. `EndTask`, the only step that removes an ob, happens when all threads
are idle and is treated by itself.

Theorems: `TypeCorrect`, `ChainsCorrect`, `ClassesCorrect`, `FindCorrect`,
`MergeCorrect` (a merge works on the two classes it was asked to unite;
`MergeInClass`, which no run lists), `CellsCorrect`, `CellsKeepClass`,
`SetsAgree`, and `CarrierImplementsPartition`:
the refinement is reduced to `cls` by showing that the root at the end of an
ob's chain *is* its requested class (the recursive function `RootOf` is never
unfolded by induction over data: `cls` satisfies its equation, on a descending
chain), after which every step is a step of Partition or a stutter.

Of the same module: `MergesScheduledOnce` and `CountersExact` are sums of
cardinalities over the threads. Each sum is written as the cardinality of one
set, of pairs of a thread and what it has in hand (disjoint by construction),
and a step adds to it or removes from it one element at most; lemmas about such
steps, from FiniteSetTheorems, turn each action into an equation of numbers.

**SchedulerProofs.** `IInv` is `PlacesOK` (where workers are, and that a
worker outside `try_work` is at its first step) and `WorkHasWorker`, which is
inductive with it. The argument: a worker passes a step only if there is nothing
to do at it; whoever adds work is inside a task and will call `try_work` again;
`g_working_flag` drops only after a worker has passed every step. Theorems:
`WorkIsNotAbandoned`, and `QuitsWithoutWork`, its consequence at the join.

A second invariant, `TInv`, adds the locks (`LocksHeld`: readers and a writer
exclude each other), the whereabouts of every dep (in the queue once, or in one
worker's hands, `MergeTakenOnce`, `MergeQueuedOnce`, `EveryDep`), that tasks in the
queues and in hand refer to live obs (`TasksLive`), and that a due cleanup type is
among those the counter has still to come to (`CleanupComes`). Theorems:
`SchedulerTypes`, `TasksNeverStale`, and `WorkersQuitDone`, the whole of
`QuitsWhenDone`.

**TablesProofs.** `SInv` says of each kind of table how far its lines, sets and
inverse tables are behind its values at each label of an insertion and in each
pass of a merge. For functions: `FunLinesL` and `FunLinesR` say of every pair
whether its bit is set, in terms of `pass`, `todo` and `rep`; `FunIndexed` that an
entry of an inverse table is the value or belongs to a thread that is about to
replace it; `FunBehind` (kept apart, as it is about the time between merges) that it is
in the lines already; `FunCleared` and `FunTodo` what the passes so far left behind at the
dep; `FunTold` what was announced. `FindRepAgain` re-reads the rep between the
passes: the invariants are stated for the rep that the pass in hand works with,
and only need that a live rep has the class of the dep. `StepInv` has a lemma per
action and kind. Theorems: `TablesInvariant`, `LinesNeverLead` (`LinesLag`),
`RelationsAlwaysTold` (`RelationsTold`).

**TablesClosure.** `CongruenceReached` has two halves. That nothing is invented is
`Finest`: any congruence that holds the requested facts is coarser than `cls`,
which every merge keeps because it merges values of one key (`ClassesCollide`,
`SameKey`). That nothing is lost is `FunFacts` and its likes: every requested fact
is *backed* - its classes' entry is in the table, or in a thread's hands, or its
key holds the dep that is being moved - and conversely every entry stands for a
requested fact. When nothing is due every class is its own name (`OwnClass`), and
backing becomes closure (`FunReached`, `InjReached`, `RelReached`). An injective
function's two tables are inverse only up to what is due, so `InjFacts` states
them separately, and they meet in `InjectiveValid`. `Unindexed` (only functions
have inverse tables) is an invariant of its own. Theorems: `ClosureInvariant`,
`TablesValid` (`TableValid`), `ClosureCorrect` (`CongruenceReached`). Together with
`CarrierImplementsPartition` this is the claim that the surveyor's concurrent
tables compute congruence closure.

**OrderProofs.** `LoopsHold`: `LoopsOK` is inductive. `RulesSound`: for any order
that models the structure, the theorems a thread derives from rows and columns
that agree with the order agree with it, although they are read without the
mutex and partly flushed; one lemma per rule.

**AsyncMapProofs.** For any terms, workers and values, under `AsyncSpec`, of whose
steps the caches of the run `validator` take some. `Accounted` counts calls
wherever they stand: on stacks and in lists of callbacks, a call being counted as
what it will end as (`Final`: a search ends in its callback). One group of lemmas
says what pushing, popping and moving calls does to those counts (`StackStep`,
`ListStep`, `CallEffect`, `EnlistedEffect`, `NotifyEffect`), from the cardinalities
of FiniteSetTheorems. The inductive invariant `IInv` strengthens `Accounted` by what
it does not give: `NotifyOnce` (a stored value is told at most once), `EnlistFirst`
(who inserted a key makes its list before it starts its function, which is what
keeps a quick `store` from finding no list) and `ListMade` (until its value is told, a
key has a list, or is about to have one). Theorems: `Invariant`,
`CallbacksAccounted` (`Accounted`), and `AssertionsHold`: the assertions of `store`
(`async_map.hpp:83`, `:84`, `:91`) never fail, and no callback reaches a `Task` that
has executed `delete this` (`validator.hpp:42`).

**PropagateProofs.** A *limit* of a theory is a set of obs for each expression and each
parity that no constraint leads out of. The inductive invariant `Inv` says that all
the server knows, has heard or is about to find stays within every limit
(`LimitsHold`), and that the conjunction is FALSE only if every limit clashes; its
other part, `ShapeOK`, is what makes a step computable at all: `StatesOK` and
`TheoryOK` (indices and types), `AgendaOK` (what is left of a stage names expressions
of the theory), `Ready` (messages are fused before a state adopts them, so that no
bound is pending) and `CacheRight` (a value in a LazyMap is the value of its key,
whoever stored it and however often the client has asked since). On the other hand
what a solution of the facts is above and below, in a model of which the structure
is a part, is a limit that does not clash (`Truth`): the rules of `Intervals` keep
within it because functions are monotone in the model's order. Theorems:
`InvAlways`, and `SoundAlways` (`Sound`: facts that are called inconsistent
have no solution in the model).

**VMProofs.** `SurveyAssumption` is about one program at a time, in a finished
structure. The theorems are about all programs at once, in a structure that other
workers extend and merge between any two instructions. The inductive invariant
`IInv` relates every worker to the certificate (`WorkerOK`): its registers hold obs
that denote the elements of a place of its program (`Fits`), each frame of its stack
goes on from such places with whatever member of its loop comes next (`FrameOK`,
nested as `FramesOK` says, since a loop takes the registers back to its own scope), what
it has still to run starts at one (`TodoOK`), and a fact half asserted is one of the
certificate's with the elements of the obs on its stack (`FactOK`). `StateOK` has the rest:
every entry, event and queued merge is of live obs and true in the model, a rep is
below its ob and denotes the same, and an ob that is to be merged is queued once or in
one worker's hands (`MergesOK`) - without which a slot could be freed twice.
What makes it inductive is that nothing a worker has seen is taken back while it runs:
`Above` says that obs, what they denote and the entries stay when other workers insert
and merge (`WorkerAbove`; merges that remove obs run when no program does, which
`IInv` also has). So an entry found by one instruction is there for the next
(`KnownFits`, hence `LetFinds`), and sets, which are lines of a table and grow while a loop
is under way, give members that are still true (`MemberDenotes`). One lemma per action
(`...Step`) rests on lemmas for the operators: `MergeAllOK`, `InsertOK`,
`ProcessMergeOK`, `BackOK`. Theorems: `InvAlways`, `SoundAlways` (`Sound`) and
`AssertionsAlways` (`AssertionsHold`).

**Only model-checked.** Liveness (`OperationsReturn`, `EveryoneQuits`,
`RequestsAnswered`, `Normalizes`, `WorkEnds`, `Answered`, `Validated`): out of the
prover's reach. `Propagate`: `RepliesAgree` compares the replies with a fixpoint, and
a MAYBE is right only if propagation reaches the least one, an induction over the
rounds. `Validator`, but for AsyncMap: meanings of terms are RECURSIVE operators, and
what they compute is an induction over data.
`Cartographer`: `Quotient`, `WorldValid` and `RegionFaithful` compare folds over
queues and tables with a least congruence, again inductions over data.
`VM`: that the programs of a theory are true in its models is what
`SurveyAssumption` asks, a property of the compiler's output, which TLC evaluates for
the theories of `MCVM`; `OrderClosed` and `CleanupCovers` say that nothing is missing,
hence that the programs are all that the compiler should emit, which no assumption
short of the property itself would give.
`Infer`: `Saturated` and `Sound` of whole passes. The passes other than those of Order
are folds over the structure, again inductions over data; OrderProofs is about
`OrderSpec`, whose steps are those of the phases "less" and "nless" of `Infer`.

## 5. Findings and observations

Findings (runs that expect a violation):

* `router.cpp:23` - `iter_val(val)` starts at the last segment of `val - 1`, so
  `defines(ob)` accepts a segment whose value is another ob, and `restricted()`
  returns obs that the language cannot define (`cartographer_dropped`).
* `macro/injective_function.cpp:126` - `unsafe_merge` calls `set_and_merge` on an
  entry that is zero when only the dep had a value; `ensure_equal(0, value)` makes
  0 the rep of the value (`cartographer_quote`).

Observations, none of which a run refutes:

* `atlas/micro/scheduler.hpp:7` promises that MergeTasks run "as soon as all
  previous tasks complete". The lock prefers readers, so a task may start while a
  MergeTask that was popped earlier waits: a delay, not a wrong result.
* Termination of the scheduler without timing assumptions does not hold, see the
  proviso above.
* Micro tables: the places the source doubts (`injective_function.cpp` "is this
  safe?", `symmetric_function.cpp` "error: unsupported lhs") are safe in the model
  and by proof; reading `rep` again between the passes is not needed. The two
  tables of an injective function may disagree as long as MergeTasks are queued.
* `cartographer/server.cpp:78` makes room for a survey's definable obs on top of
  the world's, but `aggregate.cpp:107` asserts that *all* of its obs fit. With a
  world of the one ob X = 1 and a survey X = 1, Y = 3, APP 1 1 = 2, APP 3 3 = 2,
  APP 3 1 = 3, APP 3 2 = 4 two obs are definable, the world gets 3 slots, and
  1 + 4 <= 3 fails; where a crop has left enough room before, the strange obs get in,
  and then `find_routes` (`router.cpp:268`) fails for them and a random trim may draw
  for ever. No comment says that the surveys' functions must all be declared, so
  these are causes that `FailsForCauseOnly` and `RequestsAnswered` allow, which the run
  reaches, and not a finding. NLESS is compared with a merge only for the two obs of
  it, not their classes. The sampler returns a reference that it took under a lock.
* `infer.cpp:76` says "All the nonconst filtering below is only an optimization";
  `infer_assoc` with constants skipped does not derive the equations of constant
  functions (`infer_const` derives those with K). Joins, convexity and linearity
  skip comparable pairs; `infer_const` only fills entries that are undefined;
  monotonicity (FIXME in the source) is incomplete in one pass and complete when
  nothing is new; equations are merged without a look at NLESS.
* Virtual machine: functions and unary relations have no insert callback, so
  programs given by them never run as events; `Agenda::execute` would pass the
  keys only. Registers are cleared in debug builds only. The compiler emits
  `FOR_INJECTIVE_FUNCTION_INVERSE` (`compiler/frontend.py:140`), which is no opcode
  of `program.hpp`. A sampler loops for ever if every term is defined while the
  carrier is not full. Samples of `survey_until_deadline` can fill the carrier
  while another worker assumes a fact. A fact of a function does not restart
  the cleanup round; `CleanupCovers` is about a round that nothing disturbed.
* Analyst: HOLEs are one unknown, because equal terms are one; a theory that does
  not parse is empty, hence valid; functions of an unsupported arity abort. In
  the corpus, definitions that depend on ground ones become ground only when
  their variable is the whole body of another; symmetric functions are reduced by
  `binary_function`, which loses sharing only; an approximation that is the same
  at two depths ends the search, which loses precision, not truth. Both
  approximators require TOP, BOT and I.

Abstractions a reader should know of: hashes and encodings are identity-free
(files carry facts); one trim task per request; order of tasks in the VM is any;
loops over bit sets take a copy of a word of 63 obs, hence of the whole line at
this size; `AssocTasks` and `TransposeTasks` are one step because their threads
write to queues of their own; a structure of Infer names a class by its least ob;
`LETS_INJECTIVE_FUNCTION_INVERSE` and the machine's continuations, which have no
caller, are left out; pointer order of symmetric arguments and the bound of 1000
rounds in `lazy_validate` are left out.

## 6. Plan

Done: everything of section 2, the runs of section 3 and the theorems of section
4. Next, in this order:

1. AsyncMap: that the arguments of a term are stored when its task converts it
   (`Convert` reads them through `find`, which may return null). It needs, for each
   argument of a waiting task, the one call that stands for it; TLC first.
2. VM: `OrderClosed`, from an assumption that each rule about order has a program for
   each of its premises; the rest of the argument is that an event runs after both.
3. Infer: the constants and cascades as steps of their own, so that what OrderProofs
   says of a pass can be said of `normalize`.
4. Cartographer: `FailsForCauseOnly` for the stages that do not fold.
