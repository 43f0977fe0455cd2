------------------------------- MODULE Carrier -------------------------------
(***************************************************************************)
(* The lock-free union-find of the surveyor (atlas/micro/carrier.hpp and   *)
(* carrier.cpp): threads insert obs, look up representatives with path     *)
(* compression and merge obs concurrently; a MergeTask replaces a merged   *)
(* ob in the nullary functions' cells and removes it while no other task   *)
(* runs.                                                                   *)
(*                                                                         *)
(* One action is one atomic access of the code: a load, a                  *)
(* compare-exchange or an increment.  Accesses are sequentially            *)
(* consistent: the build asserts x86 (POMAGMA_ASSUME_X86), where a locked  *)
(* compare-exchange is a full barrier and loads are not reordered.         *)
(***************************************************************************)
EXTENDS Integers, FiniteSets

CONSTANTS
  ItemDim,    \* item_dim(): the number of slots for obs
  Thread,     \* the threads that run tasks
  AndCell,    \* cells written by set_and_merge (NullaryFunction::m_value)
  OrCell,     \* cells written by set_or_merge (one entry of a BinaryFunction)
  NoCell      \* "no cell": an operation called by a task, not for a cell

ASSUME CarrierAssumption ==
  /\ ItemDim \in Nat \ {0}
  /\ NoCell \notin AndCell \cup OrCell
  /\ AndCell \cap OrCell = {}
  /\ IsFiniteSet(Thread)

Ob   == 1 .. ItemDim
Rep  == 0 .. ItemDim
Cell == AndCell \cup OrCell

VARIABLES
  reps,       \* m_reps: reps[x] = 0 if slot x is free, x if x is a root
  support,    \* m_support
  itemCount,  \* m_item_count
  repCount,   \* m_rep_count
  pending,    \* how many MergeTasks are queued for each ob
  cells,      \* the values of the cells, 0 if undefined
  task,       \* the dep of the MergeTask being executed, 0 if none is
  todo,       \* the cells the running MergeTask has still to treat
  pc,         \* where each thread is
  ob, val,    \* insert: the slot tried; find: the frame's ob and its result
  path,       \* find: the obs of the callers' frames, outermost largest
  dep, rep,   \* merge: its two variables
  old, src,   \* set_and_merge, set_or_merge: old and source
  at,         \* the cell a thread is working for, or NoCell
  cls,        \* history: the class of each ob, by what was requested so far
  req         \* history: what each thread's operation was called with

carrierVars == <<reps, support, itemCount, repCount, cls>>
taskVars    == <<pending, cells, task, todo>>
findVars    == <<ob, val, path>>
mergeVars   == <<dep, rep>>
setVars     == <<old, src>>
callVars    == <<at, req>>
vars == <<carrierVars, taskVars, pc, findVars, mergeVars, setVars, callVars>>

Labels ==
  {"idle", "ins_check", "ins_cas", "ins_support", "ins_item", "ins_rep",
   "find_load", "find_cas", "merge_cas", "merge_load", "merge_sched",
   "merge_count", "set_cas"}

LowerOf(x, y)  == IF x < y THEN x ELSE y
HigherOf(x, y) == IF x < y THEN y ELSE x

Goto(t, label) == pc' = [pc EXCEPT ![t] = label]

Idle == \A t \in Thread : pc[t] = "idle"

\* A request for x = y puts their classes together, under the lower name.
United(f, x, y) ==
  [z \in Ob |-> IF f[z] \in {f[x], f[y]} THEN LowerOf(f[x], f[y]) ELSE f[z]]

\* A carrier is empty or was filled by raw_insert() and update().
Init ==
  /\ support \in SUBSET Ob
  /\ reps = [x \in Ob |-> IF x \in support THEN x ELSE 0]
  /\ itemCount = Cardinality(support)
  /\ repCount = Cardinality(support)
  /\ pending = [x \in Ob |-> 0]
  /\ cells = [c \in Cell |-> 0]
  /\ task = 0
  /\ todo = {}
  /\ pc = [t \in Thread |-> "idle"]
  /\ ob = [t \in Thread |-> 0]
  /\ val = [t \in Thread |-> 0]
  /\ path = [t \in Thread |-> {}]
  /\ dep = [t \in Thread |-> 0]
  /\ rep = [t \in Thread |-> 0]
  /\ old = [t \in Thread |-> 0]
  /\ src = [t \in Thread |-> 0]
  /\ at = [t \in Thread |-> NoCell]
  /\ cls = reps
  /\ req = [t \in Thread |-> <<0, 0>>]

\* The operation of t returns to the task that called it.
Return(t) ==
  /\ Goto(t, "idle")
  /\ ob' = [ob EXCEPT ![t] = 0]
  /\ val' = [val EXCEPT ![t] = 0]
  /\ dep' = [dep EXCEPT ![t] = 0]
  /\ rep' = [rep EXCEPT ![t] = 0]
  /\ old' = [old EXCEPT ![t] = 0]
  /\ src' = [src EXCEPT ![t] = 0]
  /\ at' = [at EXCEPT ![t] = NoCell]
  /\ req' = [req EXCEPT ![t] = <<0, 0>>]
  /\ UNCHANGED path

-----------------------------------------------------------------------------
(* try_insert: claim a free slot, then publish it.                         *)

StartInsert(t) ==
  /\ pc[t] = "idle"
  /\ task = 0
  /\ Goto(t, "ins_check")
  /\ UNCHANGED <<carrierVars, taskVars, findVars, mergeVars, setVars, callVars>>

\* Faulty: counts roots instead of obs.
SlotsLeftReps  == repCount < ItemDim

SlotsLeft == itemCount < ItemDim

InsertCheck(t) ==
  /\ pc[t] = "ins_check"
  /\ IF SlotsLeft
     THEN /\ ob' = [ob EXCEPT ![t] = 1]
          /\ Goto(t, "ins_cas")
          /\ UNCHANGED <<val, path, mergeVars, setVars, callVars>>
     ELSE Return(t)
  /\ UNCHANGED <<carrierVars, taskVars>>

\* The compare-exchange of a free slot: a success claims it, a failure goes
\* on to the next slot, after the last one the loop condition is read again.
InsertCas(t) ==
  /\ pc[t] = "ins_cas"
  /\ LET x == ob[t]
     IN  \/ /\ reps[x] = 0
            /\ reps' = [reps EXCEPT ![x] = x]
            /\ cls' = [cls EXCEPT ![x] = x]
            /\ Goto(t, "ins_support")
            /\ UNCHANGED ob
         \/ /\ reps[x] # 0
            /\ ob' = [ob EXCEPT ![t] = IF x < ItemDim THEN x + 1 ELSE 0]
            /\ Goto(t, IF x < ItemDim THEN "ins_cas" ELSE "ins_check")
            /\ UNCHANGED <<reps, cls>>
  /\ UNCHANGED <<support, itemCount, repCount, taskVars, val, path, mergeVars,
                 setVars, callVars>>

InsertSupport(t) ==
  /\ pc[t] = "ins_support"
  /\ support' = support \cup {ob[t]}
  /\ Goto(t, "ins_item")
  /\ UNCHANGED <<reps, itemCount, repCount, cls, taskVars, findVars, mergeVars,
                 setVars, callVars>>

InsertItemCount(t) ==
  /\ pc[t] = "ins_item"
  /\ itemCount' = itemCount + 1
  /\ Goto(t, "ins_rep")
  /\ UNCHANGED <<reps, support, repCount, cls, taskVars, findVars, mergeVars,
                 setVars, callVars>>

\* The last increment; the callback schedules an ExistsTask (Scheduler).
InsertRepCount(t) ==
  /\ pc[t] = "ins_rep"
  /\ repCount' = repCount + 1
  /\ Return(t)
  /\ UNCHANGED <<reps, support, itemCount, cls, taskVars>>

-----------------------------------------------------------------------------
(* find: walk to the root, then compress the path on the way back.  The    *)
(* frames of the recursion are a set, because a frame's ob is larger than  *)
(* the ob of the frame it calls; the `rep` argument of the frame being     *)
(* returned to is the ob just left.                                        *)

CallFind(t, x) ==
  /\ Goto(t, "find_load")
  /\ ob' = [ob EXCEPT ![t] = x]
  /\ req' = [req EXCEPT ![t] = <<x, cls[x]>>]

StartFind(t, x) ==
  /\ pc[t] = "idle"
  /\ x \in support
  /\ CallFind(t, x)
  /\ UNCHANGED <<carrierVars, taskVars, val, path, mergeVars, setVars, at>>

FindLoad(t) ==
  /\ pc[t] = "find_load"
  /\ LET x == ob[t]
     IN  \/ /\ reps[x] = x
            /\ val' = [val EXCEPT ![t] = x]
            /\ Goto(t, "find_cas")
            /\ UNCHANGED <<ob, path>>
         \/ /\ reps[x] # x
            /\ path' = [path EXCEPT ![t] = @ \cup {x}]
            /\ ob' = [ob EXCEPT ![t] = reps[x]]
            /\ UNCHANGED <<val, pc>>
  /\ UNCHANGED <<carrierVars, taskVars, mergeVars, setVars, callVars>>

\* _find after its recursive call: a weak compare-exchange of reps[x] from
\* the value read on the way down to the root found below.
\* Faulty: a failed exchange returns what it read, however old.
LostStale(t, x) == reps[x]

Lost(t, x) == LowerOf(reps[x], val[t])

Innermost(t) == CHOOSE x \in path[t] : \A y \in path[t] : x <= y

FindCompress(t) ==
  /\ pc[t] = "find_cas"
  /\ path[t] # {}
  /\ LET x == Innermost(t)
     IN  /\ \/ /\ reps[x] = ob[t]
               /\ reps' = [reps EXCEPT ![x] = val[t]]
               /\ UNCHANGED val
            \/ /\ val' = [val EXCEPT ![t] = Lost(t, x)]
               /\ UNCHANGED reps
         /\ ob' = [ob EXCEPT ![t] = x]
         /\ path' = [path EXCEPT ![t] = @ \ {x}]
  /\ UNCHANGED <<support, itemCount, repCount, cls, taskVars, pc, mergeVars,
                 setVars, callVars>>

\* The outermost call returns.  NullaryFunction::unsafe_merge then replaces
\* the dep in its cell.
\* Faulty: the cell keeps the dep.
ReplacedNever(t) == cells[at[t]]

Replaced(t) == IF cells[at[t]] = task THEN val[t] ELSE cells[at[t]]

FindReturn(t) ==
  /\ pc[t] = "find_cas"
  /\ path[t] = {}
  /\ \/ /\ at[t] = NoCell
        /\ UNCHANGED <<cells, todo>>
     \/ /\ at[t] # NoCell
        /\ cells' = [cells EXCEPT ![at[t]] = Replaced(t)]
        /\ todo' = todo \ {at[t]}
  /\ Return(t)
  /\ UNCHANGED <<carrierVars, pending, task>>

-----------------------------------------------------------------------------
(* merge, and ensure_equal which orders its arguments.                     *)

CallMerge(t, x, y) ==
  /\ Goto(t, "merge_cas")
  /\ dep' = [dep EXCEPT ![t] = HigherOf(x, y)]
  /\ rep' = [rep EXCEPT ![t] = LowerOf(x, y)]

StartMerge(t, x, y) ==
  /\ pc[t] = "idle"
  /\ {x, y} \subseteq support
  /\ x # y
  /\ CallMerge(t, x, y)
  /\ req' = [req EXCEPT ![t] = <<x, y>>]
  /\ UNCHANGED <<carrierVars, taskVars, findVars, setVars, at>>

\* Faulty: a plain store, whether or not dep is still a root.
LinkableAlways(d) == d # 0

Linkable(d) == reps[d] = d

MergeCas(t) ==
  /\ pc[t] = "merge_cas"
  /\ \/ /\ Linkable(dep[t])
        /\ reps' = [reps EXCEPT ![dep[t]] = rep[t]]
        /\ cls' = United(cls, req[t][1], req[t][2])
        /\ Goto(t, "merge_sched")
        /\ UNCHANGED dep
     \/ /\ ~ Linkable(dep[t])
        /\ dep' = [dep EXCEPT ![t] = reps[dep[t]]]
        /\ Goto(t, "merge_load")
        /\ UNCHANGED <<reps, cls>>
  /\ UNCHANGED <<support, itemCount, repCount, taskVars, findVars, rep,
                 setVars, callVars>>

\* compare_exchange_weak may fail although the comparison holds.
MergeCasSpurious(t) ==
  /\ pc[t] = "merge_cas"
  /\ Linkable(dep[t])
  /\ Goto(t, "merge_load")
  /\ UNCHANGED <<carrierVars, taskVars, findVars, mergeVars, setVars, callVars>>

\* merge returns r to the task, or to the set operation that needed it.
MergeReturn(t, r) ==
  IF at[t] \in AndCell /\ old[t] # r
  THEN /\ Goto(t, "set_cas")
       /\ src' = [src EXCEPT ![t] = r]
       /\ dep' = [dep EXCEPT ![t] = 0]
       /\ rep' = [rep EXCEPT ![t] = 0]
       /\ UNCHANGED <<findVars, old, callVars>>
  ELSE Return(t)

\* Faulty: goes on although another thread has merged the two.
JoinedNever(d, r) == FALSE

Joined(d, r) == d = r

\* After a failed exchange: step rep down too, and order the two again.
MergeLoad(t) ==
  /\ pc[t] = "merge_load"
  /\ LET d == dep[t]
         r == reps[rep[t]]
     IN  \/ /\ Joined(d, r)
            /\ MergeReturn(t, r)
         \/ /\ ~ Joined(d, r)
            /\ dep' = [dep EXCEPT ![t] = HigherOf(d, r)]
            /\ rep' = [rep EXCEPT ![t] = LowerOf(d, r)]
            /\ Goto(t, "merge_cas")
            /\ UNCHANGED <<findVars, setVars, callVars>>
  /\ UNCHANGED <<carrierVars, taskVars>>

\* m_merge_callback(dep): a MergeTask is queued.
MergeSchedule(t) ==
  /\ pc[t] = "merge_sched"
  /\ pending' = [pending EXCEPT ![dep[t]] = @ + 1]
  /\ Goto(t, "merge_count")
  /\ UNCHANGED <<carrierVars, cells, task, todo, findVars, mergeVars, setVars,
                 callVars>>

MergeRepCount(t) ==
  /\ pc[t] = "merge_count"
  /\ repCount' = repCount - 1
  /\ MergeReturn(t, rep[t])
  /\ UNCHANGED <<reps, support, itemCount, cls, taskVars>>

-----------------------------------------------------------------------------
(* set_and_merge and set_or_merge: write a value into a cell, or merge it  *)
(* with the value that is there.                                           *)

StartSet(t, c, x) ==
  /\ pc[t] = "idle"
  /\ task = 0
  /\ x \in support
  /\ src' = [src EXCEPT ![t] = x]
  /\ at' = [at EXCEPT ![t] = c]
  /\ req' = [req EXCEPT ![t] = <<x, x>>]
  /\ Goto(t, "set_cas")
  /\ UNCHANGED <<carrierVars, taskVars, findVars, mergeVars, old>>

\* Faulty: the cell is overwritten, and a value that lost a race is dropped.
ExpectedAlways(t) == at[t] # NoCell
AgreesAlways(t)   == at[t] # NoCell

Expected(t) == cells[at[t]] = old[t]
Agrees(t)   == cells[at[t]] = src[t]

SetCas(t) ==
  /\ pc[t] = "set_cas"
  /\ \/ /\ Expected(t)
        /\ cells' = [cells EXCEPT ![at[t]] = src[t]]
        /\ Return(t)
     \/ /\ ~ Expected(t)
        /\ Agrees(t)
        /\ Return(t)
        /\ UNCHANGED cells
     \/ /\ ~ Expected(t)
        /\ ~ Agrees(t)
        /\ old' = [old EXCEPT ![t] = cells[at[t]]]
        /\ CallMerge(t, src[t], cells[at[t]])
        /\ req' = [req EXCEPT ![t] = <<@[1], cells[at[t]]>>]
        /\ UNCHANGED <<cells, findVars, src, at>>
  /\ UNCHANGED <<carrierVars, pending, task, todo>>

-----------------------------------------------------------------------------
(* execute(MergeTask): while no other task runs, every cell equal to the   *)
(* dep is replaced (threads that merge binary tables may call find and     *)
(* merge meanwhile), the threads are joined and the dep is removed.        *)

\* Faulty: the result of try_pop is ignored.
PoppedAnyway(x) == reps[x] # 0

Popped(x) == pending[x] > 0

BeginTask(x) ==
  /\ Idle
  /\ task = 0
  /\ Popped(x)
  /\ pending' = [pending EXCEPT ![x] = @ - 1]
  /\ task' = x
  /\ todo' = Cell
  /\ UNCHANGED <<carrierVars, cells, pc, findVars, mergeVars, setVars, callVars>>

StartReplace(t, c) ==
  /\ pc[t] = "idle"
  /\ c \in todo
  /\ \A u \in Thread : at[u] = NoCell
  /\ at' = [at EXCEPT ![t] = c]
  /\ CallFind(t, task)
  /\ UNCHANGED <<carrierVars, taskVars, val, path, mergeVars, setVars>>

\* unsafe_remove: whoever still points to x is led past it.  Faulty: they are
\* forgotten, or become roots again, or every removed ob is counted as a root.
RepsDangling(x)    == [reps EXCEPT ![x] = 0]
RepsSplit(x)       == [y \in Ob |-> IF reps[y] = x /\ y # x THEN y ELSE
                                    IF y = x THEN 0 ELSE reps[y]]
RootsMiscounted(x) == repCount - 1

RepsWithout(x) == [y \in Ob |-> IF y = x THEN 0 ELSE
                                IF reps[y] = x THEN reps[x] ELSE reps[y]]

RootsWithout(x) == IF reps[x] = x THEN repCount - 1 ELSE repCount

UnsafeRemove(x) ==
  /\ reps' = RepsWithout(x)
  /\ repCount' = RootsWithout(x)
  /\ support' = support \ {x}
  /\ itemCount' = itemCount - 1
  /\ cls' = [cls EXCEPT ![x] = 0]

EndTask ==
  /\ Idle
  /\ task # 0
  /\ todo = {}
  /\ UnsafeRemove(task)
  /\ task' = 0
  /\ UNCHANGED <<pending, cells, todo, pc, findVars, mergeVars, setVars, callVars>>

-----------------------------------------------------------------------------
Insert(t) == \/ StartInsert(t) \/ InsertCheck(t) \/ InsertCas(t)
             \/ InsertSupport(t) \/ InsertItemCount(t) \/ InsertRepCount(t)

Find(t) == \/ \E x \in Ob : StartFind(t, x)
           \/ FindLoad(t) \/ FindCompress(t) \/ FindReturn(t)

Merge(t) == \/ \E x, y \in Ob : StartMerge(t, x, y)
            \/ MergeCas(t) \/ MergeCasSpurious(t) \/ MergeLoad(t)
            \/ MergeSchedule(t) \/ MergeRepCount(t)

Set(t) == \/ \E c \in Cell, x \in Ob : StartSet(t, c, x)
          \/ SetCas(t)

MergeTask == \/ \E x \in Ob : BeginTask(x)
             \/ \E t \in Thread, c \in Cell : StartReplace(t, c)
             \/ EndTask

Next ==
  \/ \E t \in Thread : Insert(t) \/ Find(t) \/ Merge(t) \/ Set(t)
  \/ MergeTask

Spec == Init /\ [][Next]_vars

(***************************************************************************)
(* A started operation keeps being executed: threads are scheduled by the  *)
(* operating system.  A compare_exchange_weak may fail spuriously but not  *)
(* for ever, so the genuine exchange of merge is strongly fair.            *)
(***************************************************************************)
Continue(t) ==
  \/ InsertCheck(t) \/ InsertCas(t) \/ InsertSupport(t)
  \/ InsertItemCount(t) \/ InsertRepCount(t)
  \/ FindLoad(t) \/ FindCompress(t) \/ FindReturn(t)
  \/ MergeLoad(t) \/ MergeSchedule(t) \/ MergeRepCount(t)
  \/ SetCas(t)

Fairness == \A t \in Thread : WF_vars(Continue(t)) /\ SF_vars(MergeCas(t))

FairSpec == Spec /\ Fairness

-----------------------------------------------------------------------------
(* Invariants.                                                             *)

Claimed == {x \in Ob : reps[x] # 0}

TypeOK ==
  /\ reps \in [Ob -> Rep]
  /\ support \subseteq Ob
  /\ itemCount \in Int
  /\ repCount \in Int
  /\ pending \in [Ob -> Nat]
  /\ cells \in [Cell -> Rep]
  /\ task \in Rep
  /\ todo \subseteq Cell
  /\ pc \in [Thread -> Labels]
  /\ ob \in [Thread -> Rep]
  /\ val \in [Thread -> Rep]
  /\ path \in [Thread -> SUBSET Ob]
  /\ dep \in [Thread -> Rep]
  /\ rep \in [Thread -> Rep]
  /\ old \in [Thread -> Rep]
  /\ src \in [Thread -> Rep]
  /\ at \in [Thread -> Cell \cup {NoCell}]
  /\ cls \in [Ob -> Rep]
  /\ req \in [Thread -> Rep \X Rep]

\* Chains of representatives only go down and never leave the claimed slots:
\* neither compression, nor a merge, nor the removal of an ob that others
\* point to leaves a dangling or cyclic chain (Carrier::validate).
ChainsDescend ==
  \A x \in Claimed : reps[x] \in Claimed /\ reps[x] <= x

\* The roots found through m_reps are the classes that were requested: no
\* equation is lost and none is invented, whoever interferes.
ClassesAsRequested ==
  \A x \in Ob :
    /\ cls[x] = 0 <=> reps[x] = 0
    /\ cls[x] = x <=> reps[x] = x
    /\ reps[x] # 0 => cls[reps[x]] = cls[x]

\* A find in progress stays in the class it was called with, on frames that
\* descend strictly (so the recursion ends and `path` may be a set), and what
\* it is about to return is at least as merged as the root that the class had
\* when the call began: a find never undoes a merge that its caller knows of.
FindKept(t) ==
  pc[t] \in {"find_load", "find_cas"} =>
    /\ req[t][1] \in Claimed
    /\ cls[req[t][1]] <= req[t][2]
    /\ \A x \in path[t] \cup {ob[t]} : x \in Claimed /\ cls[x] = cls[req[t][1]]
    /\ \A x \in path[t] : ob[t] < x
    /\ pc[t] = "find_cas" => /\ val[t] \in Claimed
                             /\ cls[val[t]] = cls[ob[t]]
                             /\ val[t] <= LowerOf(ob[t], req[t][2])

\* This holds of every find in progress.
FindInClass == \A t \in Thread : FindKept(t)

SamePair(a, b, c, d) == (a = c /\ b = d) \/ (a = d /\ b = c)

\* A merge in progress, wherever it was led by other merges and compressions,
\* still concerns the two classes that it was asked to unite, and once its
\* exchange succeeded they are one.
MergeKept(t) ==
  /\ pc[t] \in {"merge_cas", "merge_load", "merge_sched", "merge_count"} =>
       /\ {req[t][1], req[t][2], dep[t], rep[t]} \subseteq Claimed
       /\ SamePair(cls[dep[t]], cls[rep[t]], cls[req[t][1]], cls[req[t][2]])
  /\ pc[t] = "merge_cas" => rep[t] < dep[t]
  /\ pc[t] \in {"merge_sched", "merge_count"} =>
       /\ cls[req[t][1]] = cls[req[t][2]]
       /\ reps[dep[t]] < dep[t]

\* This holds of every merge in progress.
MergeInClass == \A t \in Thread : MergeKept(t)

\* A writer that found another value in its cell works on merging that value,
\* or an equal one that replaced it, with its own.
SetKept(t) ==
  at[t] # NoCell /\ task = 0 =>
    /\ {src[t], req[t][1]} \subseteq Claimed
    /\ cls[src[t]] = cls[req[t][1]]
    /\ old[t] # 0 => /\ {old[t], cells[at[t]]} \subseteq Claimed
                     /\ cls[old[t]] = cls[cells[at[t]]]
    /\ pc[t] = "set_cas" /\ old[t] # 0 => cls[src[t]] = cls[old[t]]
    /\ pc[t] # "set_cas" => old[t] # 0 /\ req[t][2] = old[t]

\* A cell holds a claimed ob, and a writer that lost a race has its value
\* merged with the one that stays.
CellsInClass ==
  /\ \A c \in Cell : cells[c] \in Claimed \cup {0}
  /\ \A t \in Thread : SetKept(t)

Announcing(x) == {t \in Thread : pc[t] = "merge_sched" /\ dep[t] = x}

\* Every ob that is not a root is due to be merged exactly once: its MergeTask
\* is about to be queued, queued, or running; a root is never due.  Hence the
\* assertion dep > rep of execute(MergeTask), and no ob is removed twice.
MergeScheduledOnce ==
  \A x \in Ob :
    pending[x] + Cardinality(Announcing(x)) + (IF task = x THEN 1 ELSE 0)
      = IF reps[x] \in {0, x} THEN 0 ELSE 1

At(labels) == {t \in Thread : pc[t] \in labels}

\* Both counters equal what they count, up to the operations in flight; in
\* particular they are exact whenever no operation is (Carrier::validate).
CountsExact ==
  /\ Claimed = support \cup {ob[t] : t \in At({"ins_support"})}
  /\ itemCount = Cardinality(Claimed)
                  - Cardinality(At({"ins_support", "ins_item"}))
  /\ repCount = Cardinality({x \in Claimed : reps[x] = x})
                  - Cardinality(At({"ins_support", "ins_item", "ins_rep"}))
                  + Cardinality(At({"merge_sched", "merge_count"}))

-----------------------------------------------------------------------------
(* Action properties.                                                      *)

\* When set_and_merge or set_or_merge returns, the cell's value and the value
\* that was to be written are in one class: a function has one value.
SetReturnsAgreed ==
  [][\A t \in Thread :
       at[t] # NoCell /\ at'[t] = NoCell /\ task = 0 =>
         cls'[cells'[at[t]]] = cls'[req[t][1]]]_vars

\* The value of a cell is only ever replaced by an equal one; in particular a
\* MergeTask leaves no cell at the ob that it removes.
CellKeepsItsClass ==
  [][\A c \in Cell : cells[c] # 0 =>
       /\ cells'[c] \in Ob
       /\ cls'[cells'[c]] # 0
       /\ cls'[cells'[c]] = cls'[cls[cells[c]]]]_vars

-----------------------------------------------------------------------------
(* Refinement and liveness.                                                *)

RootOf[x \in Ob] == IF reps[x] \in {0, x} THEN reps[x] ELSE RootOf[reps[x]]

Abstract == INSTANCE Partition WITH cls <- RootOf

\* The carrier implements the partition it promises, where the class of an ob is
\* the root at the end of its chain in m_reps: each atomic access is an insert,
\* a union or a removal of the partition, or changes no class.
ImplementsPartition == Abstract!Spec

\* Every operation returns, although find and merge retry and try_insert
\* spins while another thread is about to publish the slot it claimed.
OperationsReturn == \A t \in Thread : pc[t] # "idle" ~> pc[t] = "idle"

=============================================================================
