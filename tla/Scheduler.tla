------------------------------ MODULE Scheduler ------------------------------
(***************************************************************************)
(* The task scheduler of the surveyor (atlas/micro/scheduler.cpp): workers *)
(* take tasks from queues, tasks put more tasks into them, MergeTasks run  *)
(* alone under g_strict_mutex and cancel what refers to the ob they        *)
(* remove, cleanup tasks are due again after other work, and the workers   *)
(* stop together once nobody finds work.                                   *)
(*                                                                         *)
(* What a task derives is left open: it may add facts, equations and obs.  *)
(* Budget bounds the facts and equations of one phase.                     *)
(***************************************************************************)
EXTENDS Integers, Sequences, FiniteSets

CONSTANTS
  Worker,     \* g_worker_count threads
  ItemDim,    \* slots for obs
  QueueOrder, \* the enforce queues, in the order enforce_tasks_try_execute
              \* tries them; the first one is g_exists_tasks
  TypeCount,  \* Cleanup::g_type_count
  Phases,     \* which of initialize, survey and survey_until_deadline
  Budget      \* how many facts and equations may be derived

ASSUME SchedulerAssumption ==
  /\ Worker # {} /\ IsFiniteSet(Worker)
  /\ ItemDim \in Nat \ {0}
  /\ TypeCount \in Nat \ {0}
  /\ Budget \in Nat
  /\ QueueOrder \in Seq(STRING) /\ Len(QueueOrder) > 0
  /\ \A i \in 1 .. Len(QueueOrder) :
       QueueOrder[i] \notin {"merge", "assume", "sample", "cleanup"}
  /\ Phases \subseteq {"initialize", "survey", "deadline"}

Ob    == 1 .. ItemDim
Type  == 0 .. TypeCount - 1
Queue == {QueueOrder[i] : i \in 1 .. Len(QueueOrder)}

VARIABLES
  phase,    \* which try_work function the workers were started with
  status,   \* of each ob: a root, merged into another (a dep), or free
  mergeQ,   \* g_merge_tasks
  enforceQ, \* the other task queues: a task is the set of obs it refers to
  assumes,  \* how many tasks g_assume_tasks holds
  done,     \* Cleanup::g_done_count
  type,     \* Cleanup::g_type
  flag,     \* g_working_flag
  count,    \* g_working_count
  late,     \* the deadline has passed
  pc,       \* where each worker is
  pos,      \* the step of try_work that a worker is at
  kind,     \* what kind of task it executes
  refs,     \* the obs that task refers to
  due,      \* history: the cleanup types still to run after other tasks
  budget    \* how much may still be derived

taskVars    == <<status, mergeQ, enforceQ, assumes, budget>>
cleanupVars == <<done, type, due>>
jobVars     == <<kind, refs>>
vars == <<phase, taskVars, cleanupVars, flag, count, late, pc, pos, jobVars>>

Live  == {x \in Ob : status[x] # "free"}
Roots == {x \in Ob : status[x] = "root"}

\* try_initialize_work, try_survey_work and try_deadline_work.
Steps ==
  <<"merge">> \o QueueOrder \o
  CASE phase = "initialize" -> <<"assume", "cleanup">>
    [] phase = "survey"     -> <<"sample", "cleanup">>
    [] phase = "deadline"   -> <<"assume", "sample", "cleanup">>

Goto(w, label) == pc' = [pc EXCEPT ![w] = label]

\* g_strict_mutex: who holds it shared, and who holds it exclusively.
Readers == {w \in Worker : pc[w] = "exec"}
Writers == {w \in Worker : pc[w] \in {"merge", "merge_next"}}

LockShared == Writers = {}
LockUnique == Writers = {} /\ Readers = {}

\* Initialize and survey_until_deadline start from a loaded structure with
\* its nullary functions inserted, the core facts queued and all cleanup due;
\* survey starts where initialize ended.
Init ==
  /\ phase \in Phases
  /\ status \in [Ob -> {"root", "free"}]
  /\ \E S \in SUBSET Roots :
       enforceQ = [q \in Queue |->
                     IF q = Head(QueueOrder) /\ phase # "survey" /\ S # {}
                     THEN <<S>> ELSE <<>>]
  /\ mergeQ = <<>>
  /\ assumes = IF phase = "survey" THEN 0 ELSE 1
  /\ done = IF phase = "survey" THEN TypeCount ELSE 0
  /\ type \in Type
  /\ due = IF phase = "survey" THEN {} ELSE Type
  /\ flag = FALSE
  /\ count = 0
  /\ late = FALSE
  /\ pc = [w \in Worker |-> "start"]
  /\ pos = [w \in Worker |-> 1]
  /\ kind = [w \in Worker |-> "none"]
  /\ refs = [w \in Worker |-> {}]
  /\ budget = Budget

-----------------------------------------------------------------------------
(* do_work: the loop of a worker.                                          *)

Start(w) ==
  /\ pc[w] = "start"
  /\ flag' = TRUE
  /\ Goto(w, "check")
  /\ UNCHANGED <<phase, taskVars, cleanupVars, count, late, pos, jobVars>>

CheckFlag(w) ==
  /\ pc[w] = "check"
  /\ Goto(w, IF flag THEN "enter" ELSE "done")
  /\ UNCHANGED <<phase, taskVars, cleanupVars, flag, count, late, pos, jobVars>>

Enter(w) ==
  /\ pc[w] = "enter"
  /\ count' = count + 1
  /\ Goto(w, "try")
  /\ UNCHANGED <<phase, taskVars, cleanupVars, flag, late, pos, jobVars>>

\* A step of try_work found nothing: the next one is tried, after the last
\* one the worker leaves its inner loop.
Pass(w) ==
  IF pos[w] < Len(Steps)
  THEN pos' = [pos EXCEPT ![w] = @ + 1] /\ UNCHANGED pc
  ELSE pos' = [pos EXCEPT ![w] = 1] /\ Goto(w, "leave")

\* try_work returned true: it is called again.  Faulty: it is not.
AgainNot(w) ==
  /\ Goto(w, "leave")
  /\ pos' = [pos EXCEPT ![w] = 1]
  /\ kind' = [kind EXCEPT ![w] = "none"]
  /\ refs' = [refs EXCEPT ![w] = {}]

Again(w) ==
  /\ Goto(w, "try")
  /\ pos' = [pos EXCEPT ![w] = 1]
  /\ kind' = [kind EXCEPT ![w] = "none"]
  /\ refs' = [refs EXCEPT ![w] = {}]

\* A task is found: the worker goes on to `label` with it.
Take(w, label, k, r) ==
  /\ Goto(w, label)
  /\ kind' = [kind EXCEPT ![w] = k]
  /\ refs' = [refs EXCEPT ![w] = r]
  /\ UNCHANGED pos

Leave(w) ==
  /\ pc[w] = "leave"
  /\ count' = count - 1
  /\ Goto(w, IF count' # 0 THEN "wait" ELSE "last")
  /\ UNCHANGED <<phase, taskVars, cleanupVars, flag, late, pos, jobVars>>

\* wait_for: the condition has no predicate, a notification that comes
\* before the wait is lost.
Wait(w) ==
  /\ pc[w] = "wait"
  /\ Goto(w, "waiting")
  /\ UNCHANGED <<phase, taskVars, cleanupVars, flag, count, late, pos, jobVars>>

\* Faulty: a wait without a timeout.
TimeoutNever(w) == FALSE /\ UNCHANGED vars

Timeout(w) ==
  /\ pc[w] = "waiting"
  /\ Goto(w, "check")
  /\ UNCHANGED <<phase, taskVars, cleanupVars, flag, count, late, pos, jobVars>>

Stop(w) ==
  /\ pc[w] = "last"
  /\ flag' = FALSE
  /\ Goto(w, "notify")
  /\ UNCHANGED <<phase, taskVars, cleanupVars, count, late, pos, jobVars>>

NotifyAll(w) ==
  /\ pc[w] = "notify"
  /\ pc' = [v \in Worker |-> IF v = w \/ pc[v] = "waiting" THEN "check" ELSE pc[v]]
  /\ UNCHANGED <<phase, taskVars, cleanupVars, flag, count, late, pos, jobVars>>

-----------------------------------------------------------------------------
(* The steps of try_work.                                                  *)

AtStep(w, step) == pc[w] = "try" /\ Steps[pos[w]] = step

\* A MergeTask is popped first, then the lock is taken.
TryMerge(w) ==
  /\ AtStep(w, "merge")
  /\ IF mergeQ = <<>>
     THEN Pass(w) /\ UNCHANGED <<mergeQ, jobVars>>
     ELSE mergeQ' = Tail(mergeQ) /\ Take(w, "merge_wait", "merge", {Head(mergeQ)})
  /\ UNCHANGED <<phase, status, enforceQ, assumes, budget, cleanupVars, flag,
                 count, late>>

MergeLock(w) ==
  /\ pc[w] = "merge_wait"
  /\ LockUnique
  /\ Goto(w, "merge")
  /\ UNCHANGED <<phase, taskVars, cleanupVars, flag, count, late, pos, jobVars>>

\* Every other task is popped and executed under the shared lock.  Faulty:
\* without it.
MayPopAlways == TRUE

MayPop == LockShared

TryEnforce(w) ==
  \E q \in Queue :
    /\ AtStep(w, q)
    /\ MayPop
    /\ IF enforceQ[q] = <<>>
       THEN Pass(w) /\ UNCHANGED <<enforceQ, jobVars>>
       ELSE /\ enforceQ' = [enforceQ EXCEPT ![q] = Tail(@)]
            /\ Take(w, "exec", "enforce", Head(enforceQ[q]))
    /\ UNCHANGED <<phase, status, mergeQ, assumes, budget, cleanupVars, flag,
                   count, late>>

TryAssume(w) ==
  /\ AtStep(w, "assume")
  /\ MayPop
  /\ IF assumes = 0
     THEN Pass(w) /\ UNCHANGED <<assumes, jobVars>>
     ELSE assumes' = assumes - 1 /\ Take(w, "exec", "assume", {})
  /\ UNCHANGED <<phase, status, mergeQ, enforceQ, budget, cleanupVars, flag,
                 count, late>>

\* sample_tasks_try_pop reads the counters before the lock is taken.
TrySample(w) ==
  /\ AtStep(w, "sample")
  /\ IF Live = Ob THEN Pass(w) /\ UNCHANGED jobVars
                  ELSE Take(w, "exec_wait", "sample", {})
  /\ UNCHANGED <<phase, taskVars, cleanupVars, flag, count, late>>

\* Faulty: one type too many.
AllCleanLate == done > TypeCount

AllClean == done = TypeCount

\* Cleanup::try_pop: one more type is done, then the next type is taken.
\* After the deadline none is.
TryCleanup(w) ==
  /\ AtStep(w, "cleanup")
  /\ IF AllClean \/ late
     THEN Pass(w) /\ UNCHANGED <<done, jobVars>>
     ELSE done' = done + 1 /\ Take(w, "clean_type", "cleanup", {})
  /\ UNCHANGED <<phase, taskVars, type, due, flag, count, late>>

\* The type is taken now; its program runs once the lock is held, hence after
\* every task that was finished before.
CleanupType(w) ==
  /\ pc[w] = "clean_type"
  /\ type' = (type + 1) % TypeCount
  /\ due' = due \ {type}
  /\ Goto(w, "exec_wait")
  /\ UNCHANGED <<phase, taskVars, done, flag, count, late, pos, jobVars>>

ExecLock(w) ==
  /\ pc[w] = "exec_wait"
  /\ LockShared
  /\ Goto(w, "exec")
  /\ UNCHANGED <<phase, taskVars, cleanupVars, flag, count, late, pos, jobVars>>

-----------------------------------------------------------------------------
(* What a task does while it is executed.                                  *)

\* push: notify_one wakes one waiting worker, if there is one.
NotifyOne ==
  LET waiting == {w \in Worker : pc[w] = "waiting"}
  IN  IF waiting = {} THEN UNCHANGED pc
      ELSE \E w \in waiting : Goto(w, "check")

Derives(w) == pc[w] \in {"exec", "merge"} /\ budget > 0

\* A new fact about live obs schedules a task in the queue of its kind; a
\* NullaryFunctionTask refers to no ob.
DeriveFact(w, q, S) ==
  /\ Derives(w)
  /\ S \subseteq Live
  /\ enforceQ' = [enforceQ EXCEPT ![q] = Append(@, S)]
  /\ budget' = budget - 1
  /\ NotifyOne
  /\ UNCHANGED <<phase, status, mergeQ, assumes, cleanupVars, flag, count, late,
                 pos, jobVars>>

\* A new equation merges a root into a lower one and schedules its MergeTask.
DeriveEqual(w, x, y) ==
  /\ Derives(w)
  /\ {x, y} \subseteq Roots /\ x > y
  /\ status' = [status EXCEPT ![x] = "dep"]
  /\ mergeQ' = Append(mergeQ, x)
  /\ budget' = budget - 1
  /\ NotifyOne
  /\ UNCHANGED <<phase, enforceQ, assumes, cleanupVars, flag, count, late, pos,
                 jobVars>>

\* A sampled or assumed term is a new ob, whose ExistsTask is scheduled.
InsertOb(w, x) ==
  /\ pc[w] = "exec"
  /\ kind[w] \in {"sample", "assume"}
  /\ status[x] = "free"
  /\ status' = [status EXCEPT ![x] = "root"]
  /\ enforceQ' = [enforceQ EXCEPT ![Head(QueueOrder)] = Append(@, {x})]
  /\ NotifyOne
  /\ UNCHANGED <<phase, mergeQ, assumes, budget, cleanupVars, flag, count, late,
                 pos, jobVars>>

\* enforce_tasks_try_execute(cleanup): one of several workers makes all
\* cleanup tasks due again, after the task, while surveying.
\* Faulty: a cleanup round once completed is never repeated.
RecleansNever(w) == kind[w] = "none"

Recleans(w) ==
  kind[w] = "enforce" /\ phase # "initialize" /\ Cardinality(Worker) > 1

\* History: a task that may have run beside others, which see it only in part,
\* leaves every cleanup type to be run after it.
Disturbs(w) ==
  kind[w] = "enforce" /\ phase \in {"survey", "deadline"} /\ Worker # {w}

Finish(w) ==
  /\ pc[w] = "exec"
  /\ due' = IF Disturbs(w) THEN Type ELSE due
  /\ IF Recleans(w)
     THEN /\ Goto(w, "push_all")
          /\ refs' = [refs EXCEPT ![w] = {}]
          /\ UNCHANGED <<pos, kind>>
     ELSE Again(w)
  /\ UNCHANGED <<phase, taskVars, done, type, flag, count, late>>

PushAll(w) ==
  /\ pc[w] = "push_all"
  /\ done' = 0
  /\ Again(w)
  /\ UNCHANGED <<phase, taskVars, type, due, flag, count, late>>

\* cancel_referencing: every task is popped, and pushed again unless it is
\* about x.
Cancelled(s, x) ==
  LET Kept[i \in 0 .. Len(s)] ==
        IF i = 0 THEN <<>>
        ELSE IF x \in s[i] THEN Kept[i - 1] ELSE Append(Kept[i - 1], s[i])
  IN  Kept[Len(s)]

\* execute(MergeTask) removes the ob, then the tasks about it are cancelled.
MergeRemove(w) ==
  /\ pc[w] = "merge"
  /\ LET x == CHOOSE x \in refs[w] : TRUE
     IN  /\ status' = [status EXCEPT ![x] = "free"]
         /\ enforceQ' = [q \in Queue |-> Cancelled(enforceQ[q], x)]
  /\ Goto(w, "merge_next")
  /\ refs' = [refs EXCEPT ![w] = {}]
  /\ UNCHANGED <<phase, mergeQ, assumes, budget, cleanupVars, flag, count, late,
                 pos, kind>>

\* The lock is kept as long as there are MergeTasks.
MergeNext(w) ==
  /\ pc[w] = "merge_next"
  /\ IF mergeQ = <<>>
     THEN Again(w) /\ UNCHANGED mergeQ
     ELSE mergeQ' = Tail(mergeQ) /\ Take(w, "merge", "merge", {Head(mergeQ)})
  /\ UNCHANGED <<phase, status, enforceQ, assumes, budget, cleanupVars, flag,
                 count, late>>

Deadline ==
  /\ phase = "deadline"
  /\ ~ late
  /\ late' = TRUE
  /\ UNCHANGED <<phase, taskVars, cleanupVars, flag, count, pc, pos, jobVars>>

-----------------------------------------------------------------------------
\* The steps a running worker takes.
Run(w) ==
  \/ Start(w) \/ CheckFlag(w) \/ Enter(w) \/ Leave(w) \/ Wait(w) \/ Timeout(w)
  \/ Stop(w) \/ NotifyAll(w)
  \/ TryMerge(w) \/ TryEnforce(w) \/ TryAssume(w) \/ TrySample(w)
  \/ TryCleanup(w) \/ CleanupType(w) \/ ExecLock(w) \/ Finish(w) \/ PushAll(w)
  \/ MergeLock(w) \/ MergeRemove(w) \/ MergeNext(w)

Derive(w) ==
  \/ \E q \in Queue, S \in SUBSET Ob : DeriveFact(w, q, S)
  \/ \E x, y \in Ob : DeriveEqual(w, x, y)
  \/ \E x \in Ob : InsertOb(w, x)

AllQuit == \A w \in Worker : pc[w] = "done"

\* The threads are joined.
Joined == AllQuit /\ UNCHANGED vars

Next ==
  \/ \E w \in Worker : Run(w) \/ Derive(w)
  \/ Deadline
  \/ Joined

Spec == Init /\ [][Next]_vars

(***************************************************************************)
(* Workers are threads, so each keeps running; a timed wait ends by its    *)
(* timeout.  Sampling finds a new ob at last: it draws terms at random.    *)
(***************************************************************************)
Sample(w) == kind[w] = "sample" /\ \E x \in Ob : InsertOb(w, x)

Fairness == \A w \in Worker : WF_vars(Run(w)) /\ SF_vars(Sample(w))

FairSpec == Spec /\ Fairness

-----------------------------------------------------------------------------
(* Properties.                                                             *)

TypeOK ==
  /\ phase \in {"initialize", "survey", "deadline"}
  /\ status \in [Ob -> {"root", "dep", "free"}]
  /\ mergeQ \in Seq(Ob)
  /\ enforceQ \in [Queue -> Seq(SUBSET Ob)]
  /\ assumes \in Nat
  /\ done \in 0 .. TypeCount
  /\ type \in Type
  /\ due \subseteq Type
  /\ flag \in BOOLEAN
  /\ count \in 0 .. Cardinality(Worker)
  /\ late \in BOOLEAN
  /\ pc \in [Worker -> {"start", "check", "enter", "try", "leave", "wait",
                        "waiting", "last", "notify", "done", "merge_wait",
                        "merge", "merge_next", "clean_type", "exec_wait",
                        "exec", "push_all"}]
  /\ pos \in [Worker -> 1 .. Len(Steps)]
  /\ kind \in [Worker -> {"none", "merge", "enforce", "assume", "sample", "cleanup"}]
  /\ refs \in [Worker -> SUBSET Ob]
  /\ budget \in 0 .. Budget

\* No task, queued or running, refers to an ob that was removed, although its
\* slot may have been taken by a new ob since; only within a MergeTask, before
\* it cancels, is there such a task.
NoStaleTask ==
  /\ \A w \in Worker : refs[w] \subseteq Live
  /\ \A q \in Queue : \A i \in 1 .. Len(enforceQ[q]) : enforceQ[q][i] \subseteq Live
  /\ \A i \in 1 .. Len(mergeQ) : status[mergeQ[i]] = "dep"
  /\ \A w \in Worker : pc[w] \in {"merge_wait", "merge"} =>
       \A x \in refs[w] : status[x] = "dep"

\* There is something to do at this step of try_work.
HasWork(step) ==
  \/ (step = "merge" /\ mergeQ # <<>>)
  \/ (step \in Queue /\ enforceQ[step] # <<>>)
  \/ (step = "assume" /\ assumes > 0)
  \/ (step = "sample" /\ Live # Ob)
  \/ (step = "cleanup" /\ ~ AllClean /\ ~ late)

Responsible(w, i) ==
  \/ pc[w] = "enter"
  \/ (pc[w] = "try" /\ pos[w] <= i)
  \/ pc[w] \in {"merge_wait", "merge", "merge_next", "clean_type", "exec_wait",
                "exec", "push_all"}

NobodyLookedYet ==
  \A w \in Worker : pc[w] = "start" \/ (pc[w] = "check" /\ flag)

\* Work is never abandoned: whatever there is to do, queued or due for cleanup or
\* for sampling, some worker is still going to look for it before it stops
\* looking, or no worker has looked for anything yet.
WorkHasWorker ==
  \A i \in 1 .. Len(Steps) : HasWork(Steps[i]) =>
    NobodyLookedYet \/ \E w \in Worker : Responsible(w, i)

\* When the threads are joined nothing is left: no task, no merged ob, no free
\* slot unless sampling was not asked for, and no cleanup type that has not
\* been run since the last task, unless the deadline cut it short.
QuitsWhenDone ==
  AllQuit =>
    /\ \A i \in 1 .. Len(Steps) : ~ HasWork(Steps[i])
    /\ \A x \in Ob : status[x] # "dep"
    /\ due = {} \/ late

Impatient ==
  \E v, w \in Worker :
    /\ pc[w] = "waiting" /\ pc'[w] = "check"
    /\ pc[v] \in {"start", "check", "enter", "try", "leave", "wait", "last", "notify"}

\* All workers stop, although notifications are lost, provided that from some
\* point on no wait ends while another worker is between two tasks: the 100 ms
\* of a wait are long against one round of try_work.  (Without the proviso two
\* workers can wake in turns for ever and neither sees the count drop to 0.)
EveryoneQuits == <>[][~ Impatient]_vars => <>AllQuit

=============================================================================
