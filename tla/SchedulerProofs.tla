--------------------------- MODULE SchedulerProofs ---------------------------
(***************************************************************************)
(* Theorems about the scheduler, for every number of workers, obs, queues  *)
(* and cleanup types: work is never abandoned, what tasks refer to exists, *)
(* and when the workers have stopped nothing was left undone.              *)
(***************************************************************************)
EXTENDS Scheduler, SequenceTheorems, FiniteSetTheorems, WellFoundedInduction, TLAPS

-----------------------------------------------------------------------------
(* Work is never abandoned: the invariant is inductive once each worker's  *)
(* place in the sequence of steps is known to be a number.                 *)

Label ==
  {"start", "check", "enter", "try", "leave", "wait", "waiting", "last", "notify",
   "done", "merge_wait", "merge", "merge_next", "clean_type", "exec_wait", "exec",
   "push_all"}

\* Outside of try_work and of its tasks, the next step to try is the first one.
Outside(label) ==
  label \in {"start", "check", "enter", "leave", "wait", "waiting", "last",
            "notify", "done"}

PlacesOK ==
  /\ phase \in {"initialize", "survey", "deadline"}
  /\ pc \in [Worker -> Label]
  /\ pos \in [Worker -> Nat \ {0}]
  /\ \A w \in Worker : Outside(pc[w]) => pos[w] = 1

\* The steps of try_work are a sequence of names.
LEMMA StepsType ==
  ASSUME phase \in {"initialize", "survey", "deadline"}
  PROVE  Len(Steps) \in Nat
<1> DEFINE N == STRING \cup {"merge", "assume", "sample", "cleanup"}
<1>1. QueueOrder \in Seq(N)
  BY SchedulerAssumption, SeqMonotonic
<1>2. /\ <<"merge">> \in Seq(N)
      /\ <<"assume", "cleanup">> \in Seq(N)
      /\ <<"sample", "cleanup">> \in Seq(N)
      /\ <<"assume", "sample", "cleanup">> \in Seq(N)
  OBVIOUS
<1> HIDE DEF N
<1>3. <<"merge">> \o QueueOrder \in Seq(N)
  BY <1>1, <1>2, ConcatProperties
<1>4. Steps \in Seq(N)
  <2>1. CASE phase = "initialize"
    BY <1>1, <1>2, <1>3, <2>1, ConcatProperties DEF Steps
  <2>2. CASE phase = "survey"
    BY <1>1, <1>2, <1>3, <2>2, ConcatProperties DEF Steps
  <2>3. CASE phase = "deadline"
    BY <1>1, <1>2, <1>3, <2>3, ConcatProperties DEF Steps
  <2> QED
    BY <2>1, <2>2, <2>3
<1> QED
  BY <1>4

\* A worker that is at the beginning of try_work, or will get there, is
\* responsible for every step.
Busy(w) ==
  \/ pc[w] = "enter"
  \/ pc[w] = "try" /\ pos[w] = 1
  \/ pc[w] \in {"merge_wait", "merge", "merge_next", "clean_type", "exec_wait",
                "exec", "push_all"}

LEMMA BusyIsEnough ==
  ASSUME NEW w \in Worker, Busy(w)', PlacesOK'
  PROVE  WorkHasWorker'
<1>1. Len(Steps)' \in Nat
  BY StepsType DEF PlacesOK
<1>2. ASSUME NEW i \in 1 .. Len(Steps)'
      PROVE  Responsible(w, i)'
  BY <1>1, <1>2 DEF Busy, Responsible
<1> QED
  BY <1>2 DEF WorkHasWorker

\* A step that adds no work, and after which every worker is still responsible
\* for what it was responsible for, abandons nothing.
LEMMA QuietStep ==
  ASSUME PlacesOK, WorkHasWorker, phase' = phase,
         \A step : HasWork(step)' => HasWork(step),
         NobodyLookedYet => NobodyLookedYet',
         \A w \in Worker : \A i \in 1 .. Len(Steps) :
           HasWork(Steps[i]) /\ Responsible(w, i)
             => \E v \in Worker : Responsible(v, i)'
  PROVE  WorkHasWorker'
<1>1. Steps' = Steps
  BY DEF Steps
<1> QED
  BY <1>1 DEF WorkHasWorker

-----------------------------------------------------------------------------
(* The workers' places.                                                    *)

\* No queue has the name of one of the other steps.
LEMMA QueueNames ==
  /\ "merge" \notin Queue /\ "assume" \notin Queue
  /\ "sample" \notin Queue /\ "cleanup" \notin Queue
BY SchedulerAssumption DEF Queue

\* A step that moves one worker to a proper place.
LEMMA PlacesByWorker ==
  ASSUME PlacesOK, NEW w \in Worker, phase' = phase,
         \A v \in Worker \ {w} : pc'[v] = pc[v] /\ pos'[v] = pos[v],
         pc' \in [Worker -> Label], pos' \in [Worker -> Nat \ {0}],
         Outside(pc'[w]) => pos'[w] = 1
  PROVE  PlacesOK'
<1>1. \A v \in Worker : Outside(pc'[v]) => pos'[v] = 1
  BY DEF PlacesOK
<1> QED
  BY <1>1 DEF PlacesOK

\* Moving a worker to another label keeps its place.
LEMMA GotoPlaces ==
  ASSUME PlacesOK, NEW w \in Worker, NEW label \in Label, Goto(w, label),
         Outside(label) => pos[w] = 1, phase' = phase, pos' = pos
  PROVE  /\ PlacesOK'
         /\ \A v \in Worker \ {w} : pc'[v] = pc[v] /\ pos'[v] = pos[v]
         /\ pc'[w] = label /\ pos'[w] = pos[w]
<1>1. pc \in [Worker -> Label] /\ pos \in [Worker -> Nat \ {0}]
  BY DEF PlacesOK
<1>2. /\ \A v \in Worker \ {w} : pc'[v] = pc[v] /\ pos'[v] = pos[v]
      /\ pc'[w] = label /\ pos'[w] = pos[w]
      /\ pc' \in [Worker -> Label]
  BY <1>1 DEF Goto
<1> QED
  BY <1>1, <1>2, PlacesByWorker

LEMMA PassPlaces ==
  ASSUME PlacesOK, NEW w \in Worker, pc[w] = "try", Pass(w), phase' = phase
  PROVE  /\ PlacesOK'
         /\ \A v \in Worker \ {w} : pc'[v] = pc[v] /\ pos'[v] = pos[v]
         /\ \/ pc'[w] = "try" /\ pos'[w] = pos[w] + 1
            \/ pc'[w] = "leave" /\ pos[w] >= Len(Steps)
<1>1. Len(Steps) \in Nat
  BY StepsType DEF PlacesOK
<1>2. pc \in [Worker -> Label] /\ pos \in [Worker -> Nat \ {0}]
  BY DEF PlacesOK
<1>3. /\ \A v \in Worker \ {w} : pc'[v] = pc[v] /\ pos'[v] = pos[v]
      /\ \/ pc'[w] = "try" /\ pos'[w] = pos[w] + 1
         \/ pc'[w] = "leave" /\ pos'[w] = 1 /\ pos[w] >= Len(Steps)
  BY <1>1, <1>2 DEF Pass, Goto
<1>4. pc' \in [Worker -> Label]
  BY <1>2 DEF Pass, Goto, Label
<1>5. Outside(pc'[w]) => pos'[w] = 1
  BY <1>3 DEF Outside
<1>6. pos' \in [Worker -> Nat \ {0}]
  <2>1. pos[w] + 1 \in Nat \ {0}
    BY <1>2
  <2> QED
    BY <1>2, <2>1 DEF Pass
<1> QED
  BY <1>3, <1>4, <1>5, <1>6, PlacesByWorker

LEMMA AgainPlaces ==
  ASSUME PlacesOK, NEW w \in Worker, Again(w), phase' = phase
  PROVE  /\ PlacesOK'
         /\ pc'[w] = "try" /\ pos'[w] = 1
<1>1. pc \in [Worker -> Label] /\ pos \in [Worker -> Nat \ {0}]
  BY DEF PlacesOK
<1>2. /\ \A v \in Worker \ {w} : pc'[v] = pc[v] /\ pos'[v] = pos[v]
      /\ pc'[w] = "try" /\ pos'[w] = 1
  BY <1>1 DEF Again, Goto
<1>3. pc' \in [Worker -> Label]
  BY <1>1 DEF Again, Goto, Label
<1>4. pos' \in [Worker -> Nat \ {0}]
  BY <1>1 DEF Again
<1> QED
  BY <1>2, <1>3, <1>4, PlacesByWorker

LEMMA NotifyPlaces ==
  ASSUME PlacesOK, NotifyOne, phase' = phase, pos' = pos
  PROVE  /\ PlacesOK'
         /\ \A w \in Worker : pc[w] # "waiting" => pc'[w] = pc[w]
<1>1. CASE UNCHANGED pc
  BY <1>1 DEF PlacesOK
<1>2. CASE \E w \in Worker : pc[w] = "waiting" /\ Goto(w, "check")
  <2>1. PICK w \in Worker : pc[w] = "waiting" /\ Goto(w, "check")
    BY <1>2
  <2>2. "check" \in Label /\ pos[w] = 1
    BY <2>1 DEF Label, PlacesOK, Outside
  <2>3. PlacesOK' /\ \A v \in Worker \ {w} : pc'[v] = pc[v]
    BY <2>1, <2>2, GotoPlaces
  <2> QED
    BY <2>1, <2>3
<1> QED
  BY <1>1, <1>2 DEF NotifyOne

\* A step that finds nothing to do and passes on abandons nothing.
LEMMA PassKeeps ==
  ASSUME PlacesOK, WorkHasWorker, NEW w \in Worker, pc[w] = "try", Pass(w),
         phase' = phase, ~ HasWork(Steps[pos[w]]),
         \A step : HasWork(step)' => HasWork(step)
  PROVE  PlacesOK' /\ WorkHasWorker'
<1>1. Len(Steps) \in Nat
  BY StepsType DEF PlacesOK
<1>2. pos[w] \in Nat \ {0}
  BY DEF PlacesOK
<1>3. ~ NobodyLookedYet
  BY DEF NobodyLookedYet
<1>4. ASSUME NEW v \in Worker, NEW i \in 1 .. Len(Steps),
             HasWork(Steps[i]), Responsible(v, i)
      PROVE  Responsible(v, i)'
  <2>1. CASE v # w
    BY <1>4, <2>1, PassPlaces DEF Responsible
  <2>2. CASE v = w
    <3>1. pos[w] <= i /\ pos[w] # i
      BY <1>4, <2>2 DEF Responsible
    <3>2. pc'[w] = "try" /\ pos'[w] = pos[w] + 1
      BY <1>1, <1>2, <3>1, PassPlaces
    <3> QED
      BY <1>2, <2>2, <3>1, <3>2 DEF Responsible
  <2> QED
    BY <2>1, <2>2
<1> QED
  BY <1>3, <1>4, PassPlaces, QuietStep

LEMMA SameWork ==
  ASSUME UNCHANGED <<status, mergeQ, enforceQ, assumes, done, late>>
  PROVE  \A step : HasWork(step)' => HasWork(step)
BY DEF HasWork, AllClean, Live

\* A worker that goes from one label to another, neither of which makes it
\* responsible for anything.
LEMMA IdleKeeps ==
  ASSUME PlacesOK, WorkHasWorker, NEW w \in Worker, NEW label \in Label,
         pc[w] \in {"leave", "wait", "waiting", "last", "notify"},
         label \in {"wait", "waiting", "last", "notify", "check"},
         Goto(w, label),
         UNCHANGED <<phase, pos, status, mergeQ, enforceQ, assumes, done, late>>
  PROVE  PlacesOK' /\ WorkHasWorker'
<1> pos[w] = 1
  BY DEF PlacesOK, Outside
<1>1. PlacesOK' /\ \A v \in Worker \ {w} : pc'[v] = pc[v] /\ pos'[v] = pos[v]
  BY GotoPlaces
<1>2. ~ NobodyLookedYet
  BY DEF NobodyLookedYet
<1>3. \A v \in Worker : \A i \in 1 .. Len(Steps) :
        Responsible(v, i) => Responsible(v, i)'
  BY <1>1 DEF Responsible
<1> QED
  BY <1>1, <1>2, <1>3, SameWork, QuietStep

\* A worker that stays busy, or becomes busy, with a task.
LEMMA BusyKeeps ==
  ASSUME PlacesOK, NEW w \in Worker, NEW label \in Label,
         label \in {"merge_wait", "merge", "merge_next", "clean_type",
                   "exec_wait", "exec", "push_all"},
         Goto(w, label), UNCHANGED <<phase, pos>>
  PROVE  PlacesOK' /\ WorkHasWorker'
<1>1. PlacesOK' /\ pc'[w] = label
  BY GotoPlaces DEF Outside
<1>2. Busy(w)'
  BY <1>1 DEF Busy
<1> QED
  BY <1>1, <1>2, BusyIsEnough

LEMMA AgainKeeps ==
  ASSUME PlacesOK, NEW w \in Worker, Again(w), phase' = phase
  PROVE  PlacesOK' /\ WorkHasWorker'
<1>1. PlacesOK' /\ Busy(w)'
  BY AgainPlaces DEF Busy
<1> QED
  BY <1>1, BusyIsEnough

-----------------------------------------------------------------------------
(* Every step keeps the invariant.                                         *)

IInv == PlacesOK /\ WorkHasWorker

LEMMA InitIInv == Init => IInv
<1> SUFFICES ASSUME Init PROVE IInv
  OBVIOUS
<1>1. phase \in {"initialize", "survey", "deadline"}
  BY SchedulerAssumption DEF Init
<1>2. PlacesOK
  BY <1>1 DEF Init, PlacesOK, Label, Outside
<1>3. NobodyLookedYet
  BY DEF Init, NobodyLookedYet
<1> QED
  BY <1>2, <1>3 DEF IInv, WorkHasWorker

LEMMA LoopKeeps ==
  ASSUME IInv, NEW w \in Worker,
         Start(w) \/ CheckFlag(w) \/ Enter(w) \/ Leave(w) \/ Wait(w)
           \/ Timeout(w) \/ Stop(w) \/ NotifyAll(w)
  PROVE  IInv'
<1> USE DEF IInv
<1>1. CASE Start(w)
  <2>1. "check" \in Label /\ pos[w] = 1
    BY <1>1 DEF Label, PlacesOK, Outside, Start
  <2>2. /\ PlacesOK'
        /\ \A v \in Worker \ {w} : pc'[v] = pc[v] /\ pos'[v] = pos[v]
        /\ pc'[w] = "check"
    BY <1>1, <2>1, GotoPlaces DEF Start
  <2>3. NobodyLookedYet => NobodyLookedYet'
    BY <1>1, <2>2 DEF NobodyLookedYet, Start
  <2>4. \A v \in Worker : \A i \in 1 .. Len(Steps) :
          Responsible(v, i) => Responsible(v, i)'
    BY <1>1, <2>2 DEF Responsible, Start
  <2>5. \A step : HasWork(step)' => HasWork(step)
    BY <1>1, SameWork DEF Start, taskVars, cleanupVars
  <2>6. phase' = phase
    BY <1>1 DEF Start
  <2> QED
    BY <2>2, <2>3, <2>4, <2>5, <2>6, QuietStep
<1>2. CASE CheckFlag(w)
  <2>1. CASE flag
    <3>1. "enter" \in Label /\ pos[w] = 1 /\ phase' = phase /\ pos' = pos
          /\ Goto(w, "enter")
      BY <1>2, <2>1 DEF CheckFlag, Label, PlacesOK, Outside
    <3>3. PlacesOK' /\ pc'[w] = "enter"
      BY <3>1, GotoPlaces
    <3>4. Busy(w)'
      BY <3>3 DEF Busy
    <3> QED
      BY <3>3, <3>4, BusyIsEnough
  <2>2. CASE ~ flag
    <3>1. "done" \in Label /\ pos[w] = 1
      BY <1>2 DEF Label, PlacesOK, Outside, CheckFlag
    <3>2. Goto(w, "done") /\ phase' = phase /\ pos' = pos /\ pc[w] = "check"
          /\ UNCHANGED <<status, mergeQ, enforceQ, assumes, done, late>>
      BY <1>2, <2>2 DEF CheckFlag, taskVars, cleanupVars
    <3>3. PlacesOK' /\ \A v \in Worker \ {w} : pc'[v] = pc[v] /\ pos'[v] = pos[v]
      BY <3>1, <3>2, GotoPlaces
    <3>4. ~ NobodyLookedYet
      BY <2>2, <3>2 DEF NobodyLookedYet
    <3>5. \A v \in Worker : \A i \in 1 .. Len(Steps) :
            Responsible(v, i) => Responsible(v, i)'
      BY <3>2, <3>3 DEF Responsible
    <3> QED
      BY <3>2, <3>3, <3>4, <3>5, SameWork, QuietStep
  <2> QED
    BY <2>1, <2>2
<1>3. CASE Enter(w)
  <2>1. "try" \in Label
    BY DEF Label
  <2>2. pos[w] = 1
    BY <1>3 DEF Enter, PlacesOK, Outside
  <2>3. PlacesOK' /\ pc'[w] = "try" /\ pos'[w] = pos[w]
    BY <1>3, <2>1, <2>2, GotoPlaces DEF Enter
  <2>4. Busy(w)'
    BY <2>2, <2>3 DEF Busy
  <2> QED
    BY <2>3, <2>4, BusyIsEnough
<1>4. CASE Leave(w)
  <2>1. "wait" \in Label /\ "last" \in Label
    BY DEF Label
  <2>2. Goto(w, "wait") \/ Goto(w, "last")
    BY <1>4 DEF Leave
  <2>3. /\ pc[w] = "leave"
        /\ UNCHANGED <<phase, pos, status, mergeQ, enforceQ, assumes, done, late>>
    BY <1>4 DEF Leave, taskVars, cleanupVars
  <2> QED
    BY <2>1, <2>2, <2>3, IdleKeeps
<1>5. CASE Wait(w)
  <2>1. "waiting" \in Label
    BY DEF Label
  <2> QED
    BY <1>5, <2>1, IdleKeeps DEF Wait, taskVars, cleanupVars
<1>6. CASE Timeout(w)
  <2>1. "check" \in Label
    BY DEF Label
  <2> QED
    BY <1>6, <2>1, IdleKeeps DEF Timeout, taskVars, cleanupVars
<1>7. CASE Stop(w)
  <2>1. "notify" \in Label
    BY DEF Label
  <2> QED
    BY <1>7, <2>1, IdleKeeps DEF Stop, taskVars, cleanupVars
<1>8. CASE NotifyAll(w)
  <2>1. /\ phase' = phase /\ pos' = pos
        /\ UNCHANGED <<status, mergeQ, enforceQ, assumes, done, late>>
        /\ pc[w] = "notify"
        /\ pc' = [v \in Worker |-> IF v = w \/ pc[v] = "waiting" THEN "check" ELSE pc[v]]
    BY <1>8 DEF NotifyAll, taskVars, cleanupVars
  <2>2. pc' \in [Worker -> Label]
    BY <2>1 DEF PlacesOK, Label
  <2>3. \A v \in Worker : pc'[v] \in {"check", pc[v]}
    BY <2>1
  <2>4. PlacesOK'
    BY <2>1, <2>2, <2>3 DEF PlacesOK, Outside
  <2>5. ~ NobodyLookedYet
    BY <2>1 DEF NobodyLookedYet
  <2>6. \A v \in Worker : \A i \in 1 .. Len(Steps) :
          Responsible(v, i) => Responsible(v, i)'
    BY <2>1 DEF Responsible
  <2>7. \A step : HasWork(step)' => HasWork(step)
    BY <2>1, SameWork
  <2> QED
    BY <2>1, <2>4, <2>5, <2>6, <2>7, QuietStep
<1> QED
  BY <1>1, <1>2, <1>3, <1>4, <1>5, <1>6, <1>7, <1>8

LEMMA TryKeeps ==
  ASSUME IInv, NEW w \in Worker,
         TryMerge(w) \/ TryEnforce(w) \/ TryAssume(w) \/ TrySample(w)
           \/ TryCleanup(w)
  PROVE  IInv'
<1> USE DEF IInv
<1> DEFINE Passes ==
      /\ pc[w] = "try" /\ Pass(w) /\ phase' = phase
      /\ ~ HasWork(Steps[pos[w]])
      /\ UNCHANGED <<status, mergeQ, enforceQ, assumes, done, late>>
<1> DEFINE Takes ==
      /\ \/ Goto(w, "merge_wait") \/ Goto(w, "exec_wait") \/ Goto(w, "exec")
         \/ Goto(w, "clean_type")
      /\ UNCHANGED <<phase, pos>>
<1>1. Passes \/ Takes
  <2>1. CASE TryMerge(w)
    <3>1. mergeQ = <<>> => ~ HasWork("merge")
      BY QueueNames DEF HasWork
    <3> QED
      BY <2>1, <3>1 DEF TryMerge, AtStep, Take, cleanupVars
  <2>2. CASE TryEnforce(w)
    <3>1. PICK q \in Queue :
            /\ AtStep(w, q)
            /\ IF enforceQ[q] = <<>>
               THEN Pass(w) /\ UNCHANGED <<enforceQ, jobVars>>
               ELSE /\ enforceQ' = [enforceQ EXCEPT ![q] = Tail(@)]
                    /\ Take(w, "exec", "enforce", Head(enforceQ[q]))
            /\ UNCHANGED <<phase, status, mergeQ, assumes, budget, cleanupVars,
                           flag, count, late>>
      BY <2>2 DEF TryEnforce
    <3>2. enforceQ[q] = <<>> => ~ HasWork(q)
      BY QueueNames DEF HasWork
    <3> QED
      BY <3>1, <3>2 DEF AtStep, Take, cleanupVars
  <2>3. CASE TryAssume(w)
    <3>1. assumes = 0 => ~ HasWork("assume")
      BY QueueNames DEF HasWork
    <3> QED
      BY <2>3, <3>1 DEF TryAssume, AtStep, Take, cleanupVars
  <2>4. CASE TrySample(w)
    <3>1. Live = Ob => ~ HasWork("sample")
      BY QueueNames DEF HasWork
    <3> QED
      BY <2>4, <3>1 DEF TrySample, AtStep, Take, taskVars, cleanupVars
  <2>5. CASE TryCleanup(w)
    <3>1. AllClean \/ late => ~ HasWork("cleanup")
      BY QueueNames DEF HasWork
    <3> QED
      BY <2>5, <3>1 DEF TryCleanup, AtStep, Take, taskVars
  <2> QED
    BY <2>1, <2>2, <2>3, <2>4, <2>5
<1>2. CASE Passes
  BY <1>2, SameWork, PassKeeps
<1>3. CASE Takes
  <2>1. /\ "merge_wait" \in Label /\ "exec_wait" \in Label
        /\ "exec" \in Label /\ "clean_type" \in Label
    BY DEF Label
  <2> QED
    BY <1>3, <2>1, BusyKeeps
<1> QED
  BY <1>1, <1>2, <1>3

\* A worker that executes a task stays busy, whatever it derives.
LEMMA DeriveKeeps ==
  ASSUME IInv, NEW w \in Worker, Derive(w)
  PROVE  IInv'
<1>1. pc[w] \in {"exec", "merge"} /\ NotifyOne /\ phase' = phase /\ pos' = pos
  <2>1. CASE \E q \in Queue, S \in SUBSET Ob : DeriveFact(w, q, S)
    BY <2>1 DEF DeriveFact, Derives
  <2>2. CASE \E x, y \in Ob : DeriveEqual(w, x, y)
    BY <2>2 DEF DeriveEqual, Derives
  <2>3. CASE \E x \in Ob : InsertOb(w, x)
    BY <2>3 DEF InsertOb
  <2> QED
    BY <2>1, <2>2, <2>3 DEF Derive
<1>2. PlacesOK' /\ pc'[w] = pc[w]
  BY <1>1, NotifyPlaces DEF IInv
<1>3. Busy(w)'
  BY <1>1, <1>2 DEF Busy
<1> QED
  BY <1>2, <1>3, BusyIsEnough DEF IInv

LEMMA TaskKeeps ==
  ASSUME IInv, NEW w \in Worker,
         CleanupType(w) \/ ExecLock(w) \/ Finish(w) \/ PushAll(w)
           \/ MergeLock(w) \/ MergeRemove(w) \/ MergeNext(w)
  PROVE  IInv'
<1>1. \/ Again(w) /\ phase' = phase
      \/ /\ \/ Goto(w, "exec_wait") \/ Goto(w, "exec") \/ Goto(w, "push_all")
            \/ Goto(w, "merge") \/ Goto(w, "merge_next")
         /\ UNCHANGED <<phase, pos>>
  BY DEF CleanupType, ExecLock, Finish, PushAll, MergeLock, MergeRemove,
         MergeNext, Take
<1>2. /\ "exec_wait" \in Label /\ "exec" \in Label /\ "push_all" \in Label
      /\ "merge" \in Label /\ "merge_next" \in Label
  BY DEF Label
<1> QED
  BY <1>1, <1>2, AgainKeeps, BusyKeeps DEF IInv

\* The deadline only takes work away.
LEMMA DeadlineKeeps ==
  ASSUME IInv, Deadline
  PROVE  IInv'
<1>1. UNCHANGED <<phase, pc, pos, flag, status, mergeQ, enforceQ, assumes, done>>
      /\ late' = TRUE
  BY DEF Deadline, taskVars, cleanupVars
<1>2. PlacesOK'
  BY <1>1 DEF IInv, PlacesOK
<1>3. \A step : HasWork(step)' => HasWork(step)
  BY <1>1 DEF HasWork, Live
<1>4. NobodyLookedYet' <=> NobodyLookedYet
  BY <1>1 DEF NobodyLookedYet
<1>5. \A w \in Worker : \A i \in 1 .. Len(Steps) :
        Responsible(w, i) => Responsible(w, i)'
  BY <1>1 DEF Responsible
<1> QED
  BY <1>1, <1>2, <1>3, <1>4, <1>5, QuietStep DEF IInv

LEMMA NextIInv ==
  ASSUME IInv, [Next]_vars
  PROVE  IInv'
<1>1. ASSUME NEW w \in Worker, Run(w)
      PROVE  IInv'
  BY <1>1, LoopKeeps, TryKeeps, TaskKeeps DEF Run
<1>2. ASSUME NEW w \in Worker, Derive(w)
      PROVE  IInv'
  BY <1>2, DeriveKeeps
<1>3. CASE UNCHANGED vars
  <2>1. UNCHANGED <<phase, pc, pos, flag, status, mergeQ, enforceQ, assumes,
                    done, late>>
    BY <1>3 DEF vars, taskVars, cleanupVars
  <2>2. PlacesOK' /\ (NobodyLookedYet => NobodyLookedYet')
    BY <2>1 DEF IInv, PlacesOK, NobodyLookedYet
  <2>3. \A w \in Worker : \A i \in 1 .. Len(Steps) :
          Responsible(w, i) => Responsible(w, i)'
    BY <2>1 DEF Responsible
  <2> QED
    BY <2>1, <2>2, <2>3, SameWork, QuietStep DEF IInv
<1> QED
  BY <1>1, <1>2, <1>3, DeadlineKeeps DEF Next, Joined

\* Work is never abandoned: as long as there is something to do, some worker is
\* still going to look for it, or nobody has looked for anything.
THEOREM WorkIsNotAbandoned == Spec => []WorkHasWorker
<1>1. IInv => WorkHasWorker
  BY DEF IInv
<1> QED
  BY <1>1, InitIInv, NextIInv, PTL DEF Spec

NothingToDo == \A i \in 1 .. Len(Steps) : ~ HasWork(Steps[i])

\* When the threads are joined there is nothing to do: no task is queued, no
\* sample and no cleanup is due.
THEOREM QuitsWithoutWork == Spec => [](AllQuit => NothingToDo)
<1>1. IInv /\ AllQuit => NothingToDo
  <2> SUFFICES ASSUME IInv, AllQuit, NEW i \in 1 .. Len(Steps), HasWork(Steps[i])
               PROVE  FALSE
    BY DEF NothingToDo
  <2>1. Worker # {}
    BY SchedulerAssumption
  <2>2. ~ NobodyLookedYet
    BY <2>1 DEF AllQuit, NobodyLookedYet
  <2>3. \A w \in Worker : ~ Responsible(w, i)
    BY DEF AllQuit, Responsible
  <2> QED
    BY <2>2, <2>3 DEF IInv, WorkHasWorker
<1> QED
  BY <1>1, InitIInv, NextIInv, PTL DEF Spec

-----------------------------------------------------------------------------
(* The strengthened invariant.                                             *)

\* The workers between the increment and the decrement of g_working_count.
InsideLabel == {"try", "leave", "merge_wait", "merge", "merge_next", "clean_type",
                "exec_wait", "exec", "push_all"}
Inside(w)   == pc[w] \in InsideLabel
InsideNow   == {w \in Worker : Inside(w)}

\* The workers that hold a MergeTask, and the labels at which a lock is held.
Merging(w) == pc[w] \in {"merge_wait", "merge"}
Locking(w) == pc[w] \in {"merge", "merge_next"}

\* A worker that merges is alone with the lock.
LocksHeld ==
  \A v, w \in Worker : Locking(v) /\ v # w => ~ Locking(w) /\ pc[w] # "exec"

\* A task refers to obs only while it is executed or a MergeTask.
RefsInPlace ==
  \A w \in Worker :
    /\ pc[w] \notin {"exec", "merge_wait", "merge"} => refs[w] = {}
    /\ pc[w] = "exec" => refs[w] \subseteq Live

InMergeQ(x) == \E i \in 1 .. Len(mergeQ) : mergeQ[i] = x

\* Every ob that was merged has exactly one MergeTask, queued or taken.
MergeTaken ==
  \A w \in Worker : Merging(w) =>
    \E x \in Ob : refs[w] = {x} /\ status[x] = "dep" /\ ~ InMergeQ(x)
MergeTakenOnce ==
  \A v, w \in Worker : Merging(v) /\ Merging(w) /\ v # w => refs[v] \cap refs[w] = {}
MergeQueued ==
  \A i \in 1 .. Len(mergeQ) : status[mergeQ[i]] = "dep"
MergeQueuedOnce ==
  \A i, j \in 1 .. Len(mergeQ) : mergeQ[i] = mergeQ[j] => i = j
EveryDep ==
  \A x \in Ob : status[x] = "dep" =>
    InMergeQ(x) \/ \E w \in Worker : Merging(w) /\ refs[w] = {x}

\* No queued task refers to an ob that is not there.
TasksLive ==
  \A q \in Queue : \A i \in 1 .. Len(enforceQ[q]) : enforceQ[q][i] \subseteq Live

\* How many types Cleanup::g_type will advance over until it gets to y, and
\* how many it will be advanced over by the tasks due and those just popped.
Ahead(y)  == IF type <= y THEN y - type ELSE y - type + TypeCount
Popping   == {w \in Worker : pc[w] = "clean_type"}
CleanupComes ==
  (\E w \in Worker : pc[w] = "push_all") \/
  \A y \in due : Ahead(y) < TypeCount - done + Cardinality(Popping)

TInv ==
  /\ LocksHeld /\ RefsInPlace
  /\ MergeTaken /\ MergeTakenOnce /\ MergeQueued /\ MergeQueuedOnce /\ EveryDep
  /\ TasksLive

CountInv == count = Cardinality(InsideNow)
-----------------------------------------------------------------------------
(* Cancelling tasks: the loop over a queue, as the function it defines.    *)

KeptBy(s, x, n, f) ==
  f = [i \in 0 .. n |->
         IF i = 0 THEN <<>>
         ELSE IF x \in s[i] THEN f[i - 1] ELSE Append(f[i - 1], s[i])]

\* A set of numbers that has a member has a least one.
LEMMA LeastNumber ==
  ASSUME NEW S \in SUBSET Nat, S # {}
  PROVE  \E n \in S : \A m \in S : n <= m
<1>1. PICK n \in S : \A m \in S : ~ (<<m, n>> \in OpToRel(<, Nat))
  BY WFMin, NatLessThanWellFounded
<1>2. ASSUME NEW m \in S PROVE n <= m
  <2>1. ~ (m < n)
    BY <1>1, <1>2 DEF OpToRel
  <2> QED BY <2>1
<1> QED BY <1>2

LEMMA KeptExists ==
  ASSUME NEW T, NEW s \in Seq(T), NEW x, NEW n \in 0 .. Len(s)
  PROVE  \E f : KeptBy(s, x, n, f)
<1> DEFINE Bad == {m \in 0 .. Len(s) : ~ \E f : KeptBy(s, x, m, f)}
<1>1. ASSUME Bad # {} PROVE FALSE
  <2>0. Bad \in SUBSET Nat
    BY DEF Bad
  <2> HIDE DEF Bad
  <2>1. PICK m \in Bad : \A k \in Bad : m <= k
    BY <1>1, <2>0, LeastNumber
  <2> USE DEF Bad
  <2>2. CASE m = 0
    <3>1. KeptBy(s, x, 0, [i \in 0 .. 0 |-> <<>>])
      BY DEF KeptBy
    <3> QED
      BY <2>1, <2>2, <3>1
  <2>3. CASE m # 0
    <3>1. m - 1 \in 0 .. Len(s) /\ m \in 1 .. Len(s)
      BY <2>1, <2>3
    <3>2. PICK f : KeptBy(s, x, m - 1, f)
      BY <2>1, <3>1
    <3> DEFINE last == IF x \in s[m] THEN f[m - 1] ELSE Append(f[m - 1], s[m])
               g == [i \in 0 .. m |-> IF i < m THEN f[i] ELSE last]
    <3>3. \A i \in 0 .. m : g[i] = IF i = 0 THEN <<>>
                  ELSE IF x \in s[i] THEN g[i - 1] ELSE Append(g[i - 1], s[i])
      <4>1. ASSUME NEW i \in 0 .. m - 1
            PROVE  f[i] = IF i = 0 THEN <<>>
                  ELSE IF x \in s[i] THEN f[i - 1] ELSE Append(f[i - 1], s[i])
        BY <3>2 DEF KeptBy
      <4>2. ASSUME NEW i \in 0 .. m - 1
            PROVE  g[i] = f[i] /\ (i # 0 => g[i - 1] = f[i - 1])
        BY <3>1
      <4>3. g[m] = last /\ g[m - 1] = f[m - 1]
        BY <3>1
      <4> QED
        BY <3>1, <4>1, <4>2, <4>3
    <3>4. KeptBy(s, x, m, g)
      BY <3>3 DEF KeptBy
    <3> QED
      BY <2>1, <3>4
  <2> QED
    BY <2>2, <2>3
<1> QED
  BY <1>1

LEMMA CancelledReads ==
  ASSUME NEW T, NEW s \in Seq(T), NEW x
  PROVE  \E f : KeptBy(s, x, Len(s), f) /\ Cancelled(s, x) = f[Len(s)]
<1>1. Cancelled(s, x) = (CHOOSE f : KeptBy(s, x, Len(s), f))[Len(s)]
  BY DEF Cancelled, KeptBy
<1>2. Len(s) \in 0 .. Len(s)
  OBVIOUS
<1>3. PICK f : KeptBy(s, x, Len(s), f)
  BY <1>2, KeptExists
<1>4. KeptBy(s, x, Len(s), CHOOSE g : KeptBy(s, x, Len(s), g))
  BY <1>3
<1> QED
  BY <1>1, <1>4

\* What is left of a queue are tasks that it held, none of them about x.
LEMMA CancelledKeeps ==
  ASSUME NEW T, NEW s \in Seq(T), NEW x
  PROVE  /\ Cancelled(s, x) \in Seq(T)
         /\ \A i \in 1 .. Len(Cancelled(s, x)) :
              /\ x \notin Cancelled(s, x)[i]
              /\ \E j \in 1 .. Len(s) : Cancelled(s, x)[i] = s[j]
<1>1. PICK f : KeptBy(s, x, Len(s), f) /\ Cancelled(s, x) = f[Len(s)]
  BY CancelledReads
<1> DEFINE Good(n) ==
      /\ f[n] \in Seq(T)
      /\ \A i \in 1 .. Len(f[n]) : x \notin f[n][i] /\ \E j \in 1 .. Len(s) : f[n][i] = s[j]
    Bad == {n \in 0 .. Len(s) : ~ Good(n)}
<1>2. ASSUME NEW n \in 0 .. Len(s)
      PROVE  f[n] = IF n = 0 THEN <<>>
                    ELSE IF x \in s[n] THEN f[n - 1] ELSE Append(f[n - 1], s[n])
  BY <1>1 DEF KeptBy
<1>3. ASSUME Bad # {} PROVE FALSE
  <2>0. Bad \in SUBSET Nat
    BY DEF Bad
  <2> HIDE DEF Bad
  <2>1. PICK n \in Bad : \A k \in Bad : n <= k
    BY <1>3, <2>0, LeastNumber
  <2>2. n \in 0 .. Len(s) /\ ~ Good(n)
    BY <2>1 DEF Bad
  <2>3. CASE n = 0
    <3>1. f[n] = <<>>
      BY <1>2, <2>2, <2>3
    <3>2. Good(n)
      BY <3>1
    <3> QED
      BY <2>2, <3>2
  <2>4. CASE n # 0
    <3>1. n - 1 \in 0 .. Len(s) /\ n \in 1 .. Len(s) /\ n - 1 < n
      BY <2>2, <2>4
    <3>2. Good(n - 1)
      <4>1. n - 1 \notin Bad
        BY <2>1, <3>1, <2>2
      <4> QED
        BY <3>1, <4>1 DEF Bad
    <3>3. CASE x \in s[n]
      <4>1. f[n] = f[n - 1]
        BY <1>2, <2>2, <2>4, <3>3
      <4> QED
        BY <2>2, <3>2, <4>1
    <3>4. CASE x \notin s[n]
      <4> HIDE DEF Good
      <4>0. f[n] = Append(f[n - 1], s[n])
        BY <1>2, <2>2, <2>4, <3>4
      <4>1. s[n] \in T
        BY <3>1, ElementOfSeq
      <4> USE DEF Good
      <4>2. /\ f[n] \in Seq(T) /\ Len(f[n]) = Len(f[n - 1]) + 1
            /\ f[n][Len(f[n - 1]) + 1] = s[n]
            /\ \A i \in 1 .. Len(f[n - 1]) : f[n][i] = f[n - 1][i]
        BY <3>2, <4>0, <4>1, AppendProperties
      <4>3. \A i \in 1 .. Len(f[n]) : i \in 1 .. Len(f[n - 1]) \/ i = Len(f[n - 1]) + 1
        BY <3>2, <4>2
      <4> QED
        BY <2>2, <3>1, <3>2, <3>4, <4>2, <4>3
    <3> QED
      BY <3>3, <3>4
  <2> QED
    BY <2>3, <2>4
<1>4. Good(Len(s))
  <2>1. Len(s) \in 0 .. Len(s)
    OBVIOUS
  <2> QED
    BY <1>3, <2>1
<1> QED
  BY <1>1, <1>4

-----------------------------------------------------------------------------
(* Type correctness.                                                       *)

MoreTypes ==
  /\ status \in [Ob -> {"root", "dep", "free"}]
  /\ mergeQ \in Seq(Ob)
  /\ enforceQ \in [Queue -> Seq(SUBSET Ob)]
  /\ assumes \in Nat
  /\ budget \in 0 .. Budget
  /\ done \in 0 .. TypeCount
  /\ type \in Type
  /\ due \subseteq Type
  /\ flag \in BOOLEAN
  /\ late \in BOOLEAN
  /\ \A w \in Worker : pos[w] <= Len(Steps)
  /\ kind \in [Worker -> {"none", "merge", "enforce", "assume", "sample", "cleanup"}]
  /\ refs \in [Worker -> SUBSET Ob]

\* The parts of MoreTypes, which few steps change at once.
TaskTypes ==
  /\ status \in [Ob -> {"root", "dep", "free"}]
  /\ mergeQ \in Seq(Ob)
  /\ enforceQ \in [Queue -> Seq(SUBSET Ob)]
  /\ assumes \in Nat
  /\ budget \in 0 .. Budget
CleanupTypes ==
  done \in 0 .. TypeCount /\ type \in Type /\ due \subseteq Type
PosTypes == \A w \in Worker : pos[w] <= Len(Steps)
JobTypes ==
  /\ kind \in [Worker -> {"none", "merge", "enforce", "assume", "sample", "cleanup"}]
  /\ refs \in [Worker -> SUBSET Ob]

LEMMA StepsNotEmpty ==
  ASSUME PlacesOK
  PROVE  /\ Len(Steps) \in Nat \ {0}
         /\ Steps[1] = "merge"
         /\ Steps[Len(Steps)] = "cleanup"
<1> DEFINE N == STRING \cup {"merge", "assume", "sample", "cleanup"}
           S == <<"merge">> \o QueueOrder
<1>1. QueueOrder \in Seq(N) /\ <<"merge">> \in Seq(N)
  BY SchedulerAssumption, SeqMonotonic
<1> DEFINE Ending(e) == e \in Seq(N) /\ Len(e) \in Nat \ {0} /\ e[Len(e)] = "cleanup"
<1>2. \E e : Ending(e) /\ Steps = S \o e
  <2>1. /\ Ending(<<"assume", "cleanup">>)
        /\ Ending(<<"sample", "cleanup">>)
        /\ Ending(<<"assume", "sample", "cleanup">>)
    OBVIOUS
  <2> HIDE DEF N, S, Ending
  <2>2. CASE phase = "initialize"
    <3>1. Steps = S \o <<"assume", "cleanup">>
      BY <2>2 DEF Steps, S
    <3> QED
      BY <2>1, <3>1
  <2>3. CASE phase = "survey"
    <3>1. Steps = S \o <<"sample", "cleanup">>
      BY <2>3 DEF Steps, S
    <3> QED
      BY <2>1, <3>1
  <2>4. CASE phase = "deadline"
    <3>1. Steps = S \o <<"assume", "sample", "cleanup">>
      BY <2>4 DEF Steps, S
    <3> QED
      BY <2>1, <3>1
  <2> QED
    BY <2>2, <2>3, <2>4 DEF PlacesOK
<1>0. PICK e : Ending(e) /\ Steps = S \o e
  BY <1>2
<1> HIDE DEF N
<1>3. S \in Seq(N) /\ Len(S) = 1 + Len(QueueOrder) /\ S[1] = "merge"
  BY <1>1, ConcatProperties
<1>4. Len(QueueOrder) \in Nat
  BY <1>1
<1> HIDE DEF S
<1>5. e \in Seq(N) /\ Len(e) \in Nat \ {0} /\ e[Len(e)] = "cleanup" /\ Len(S) \in Nat \ {0}
  BY <1>0, <1>3, <1>4
<1> HIDE DEF Ending
<1>6. Len(Steps) = Len(S) + Len(e) /\ Len(Steps) \in Nat \ {0}
  <2>1. Len(Steps) = Len(S) + Len(e)
    BY <1>0, <1>3, <1>5, ConcatProperties
  <2> QED
    BY <1>5, <2>1
<1>7. \A i \in 1 .. Len(S) + Len(e) : Steps[i] = IF i <= Len(S) THEN S[i] ELSE e[i - Len(S)]
  BY <1>0, <1>3, <1>5, ConcatProperties
<1>8. Steps[1] = "merge"
  BY <1>3, <1>5, <1>7
<1>9. Steps[Len(S) + Len(e)] = e[Len(S) + Len(e) - Len(S)] /\ Len(S) + Len(e) - Len(S) = Len(e)
  BY <1>5, <1>7
<1> QED
  BY <1>5, <1>6, <1>8, <1>9

\* No step changes the phase, so the steps of try_work stay what they are.
LEMMA SamePhase ==
  ASSUME [Next]_vars
  PROVE  phase' = phase /\ Steps' = Steps
<1>1. phase' = phase
  BY DEF Next, vars, Joined, Deadline, Run, Derive, Start, CheckFlag, Enter, Leave,
     Wait, Timeout, Stop, NotifyAll, TryMerge, TryEnforce, TryAssume, TrySample,
     TryCleanup, CleanupType, ExecLock, Finish, PushAll, MergeLock, MergeRemove,
     MergeNext, DeriveFact, DeriveEqual, InsertOb
<1> QED
  BY <1>1 DEF Steps

LEMMA TaskTypesKept ==
  ASSUME MoreTypes, [Next]_vars
  PROVE  TaskTypes'
<1> USE DEF TaskTypes, taskVars
<1>0. TaskTypes
  BY DEF MoreTypes
<1>1. ASSUME NEW w \in Worker, Run(w) PROVE TaskTypes'
  <2>1. CASE TryMerge(w)
    <3>1. mergeQ # <<>> => Tail(mergeQ) \in Seq(Ob)
      BY <1>0, HeadTailProperties
    <3>2. mergeQ' \in {mergeQ, Tail(mergeQ)} /\ UNCHANGED <<status, enforceQ, assumes, budget>>
          /\ (mergeQ = <<>> => mergeQ' = mergeQ)
      BY <2>1 DEF TryMerge
    <3> QED
      BY <1>0, <3>1, <3>2
  <2>2. CASE TryEnforce(w)
    <3>1. PICK q \in Queue :
            /\ \/ enforceQ' = enforceQ
               \/ enforceQ[q] # <<>> /\ enforceQ' = [enforceQ EXCEPT ![q] = Tail(@)]
            /\ UNCHANGED <<status, mergeQ, assumes, budget>>
      BY <2>2 DEF TryEnforce
    <3>2. enforceQ[q] # <<>> => Tail(enforceQ[q]) \in Seq(SUBSET Ob)
      BY <1>0, HeadTailProperties
    <3> QED
      BY <1>0, <3>1, <3>2
  <2>3. CASE TryAssume(w)
    <3>1. assumes' = assumes \/ (assumes # 0 /\ assumes' = assumes - 1)
      BY <2>3 DEF TryAssume
    <3>2. assumes' \in Nat /\ UNCHANGED <<status, mergeQ, enforceQ, budget>>
      BY <1>0, <2>3, <3>1 DEF TryAssume
    <3> QED
      BY <1>0, <3>2
  <2>4. CASE MergeRemove(w)
    <3> DEFINE x == CHOOSE y \in refs[w] : TRUE
    <3>1. /\ status' = [status EXCEPT ![x] = "free"]
          /\ enforceQ' = [q \in Queue |-> Cancelled(enforceQ[q], x)]
          /\ UNCHANGED <<mergeQ, assumes, budget>>
      BY <2>4 DEF MergeRemove
    <3> HIDE DEF x
    <3>2. \A q \in Queue : Cancelled(enforceQ[q], x) \in Seq(SUBSET Ob)
      BY <1>0, CancelledKeeps
    <3> QED
      BY <1>0, <3>1, <3>2
  <2>5. CASE MergeNext(w)
    <3>1. mergeQ # <<>> => Tail(mergeQ) \in Seq(Ob)
      BY <1>0, HeadTailProperties
    <3>2. mergeQ' \in {mergeQ, Tail(mergeQ)} /\ UNCHANGED <<status, enforceQ, assumes, budget>>
          /\ (mergeQ = <<>> => mergeQ' = mergeQ)
      BY <2>5 DEF MergeNext
    <3> QED
      BY <1>0, <3>1, <3>2
  <2>6. CASE UNCHANGED taskVars
    BY <1>0, <2>6
  <2> QED
    BY <1>1, <2>1, <2>2, <2>3, <2>4, <2>5, <2>6 DEF Run, Start, CheckFlag, Enter,
       Leave, Wait, Timeout, Stop, NotifyAll, TrySample, TryCleanup, CleanupType,
       ExecLock, Finish, PushAll, MergeLock
<1>2. ASSUME NEW w \in Worker, Derive(w) PROVE TaskTypes'
  <2>0. budget > 0 => budget - 1 \in 0 .. Budget
    BY <1>0, SchedulerAssumption
  <2>1. ASSUME NEW q \in Queue, NEW S \in SUBSET Ob, DeriveFact(w, q, S) PROVE TaskTypes'
    <3>1. Append(enforceQ[q], S) \in Seq(SUBSET Ob)
      BY <1>0, AppendProperties
    <3> QED
      BY <1>0, <2>0, <2>1, <3>1 DEF DeriveFact, Derives
  <2>2. ASSUME NEW x \in Ob, NEW y \in Ob, DeriveEqual(w, x, y) PROVE TaskTypes'
    <3>1. Append(mergeQ, x) \in Seq(Ob)
      BY <1>0, AppendProperties
    <3> QED
      BY <1>0, <2>0, <2>2, <3>1 DEF DeriveEqual, Derives
  <2>3. ASSUME NEW x \in Ob, InsertOb(w, x) PROVE TaskTypes'
    <3>1. Head(QueueOrder) \in Queue
      BY SchedulerAssumption DEF Queue
    <3>2. Append(enforceQ[Head(QueueOrder)], {x}) \in Seq(SUBSET Ob)
      BY <1>0, <3>1, AppendProperties
    <3> QED
      BY <1>0, <2>3, <3>1, <3>2 DEF InsertOb
  <2> QED
    BY <1>2, <2>1, <2>2, <2>3 DEF Derive
<1> QED
  BY <1>0, <1>1, <1>2 DEF Next, Deadline, Joined, vars

LEMMA NextType ==
  ASSUME type \in Type
  PROVE  /\ (type + 1) % TypeCount \in Type
         /\ (type + 1) % TypeCount = IF type + 1 = TypeCount THEN 0 ELSE type + 1
<1>1. TypeCount \in Nat /\ TypeCount > 0 /\ type \in Nat /\ type < TypeCount
  BY SchedulerAssumption DEF Type
<1>2. CASE type + 1 = TypeCount
  BY <1>1, <1>2 DEF Type
<1>3. CASE type + 1 # TypeCount
  BY <1>1, <1>3 DEF Type
<1> QED
  BY <1>2, <1>3

LEMMA CleanupTypesKept ==
  ASSUME MoreTypes, [Next]_vars
  PROVE  CleanupTypes'
<1> USE DEF CleanupTypes, cleanupVars
<1>0. CleanupTypes
  BY DEF MoreTypes
<1>1. ASSUME NEW w \in Worker, Run(w) PROVE CleanupTypes'
  <2>1. CASE TryCleanup(w)
    <3>1. done' = done \/ (done # TypeCount /\ done' = done + 1)
      BY <2>1 DEF TryCleanup, AllClean
    <3>2. done' \in 0 .. TypeCount
      BY <1>0, <3>1, SchedulerAssumption
    <3> QED
      BY <1>0, <2>1, <3>2 DEF TryCleanup
  <2>2. CASE CleanupType(w)
    BY <1>0, <2>2, NextType DEF CleanupType
  <2>3. CASE Finish(w)
    BY <1>0, <2>3 DEF Finish
  <2>4. CASE PushAll(w)
    BY <1>0, <2>4, SchedulerAssumption DEF PushAll
  <2>5. CASE UNCHANGED cleanupVars
    BY <1>0, <2>5
  <2> QED
    BY <1>1, <2>1, <2>2, <2>3, <2>4, <2>5 DEF Run, Start, CheckFlag, Enter,
       Leave, Wait, Timeout, Stop, NotifyAll, TryMerge, TryEnforce, TryAssume, TrySample,
       ExecLock, MergeLock, MergeRemove, MergeNext
<1>2. ASSUME NEW w \in Worker, Derive(w) PROVE CleanupTypes'
  BY <1>0, <1>2 DEF Derive, DeriveFact, DeriveEqual, InsertOb
<1> QED
  BY <1>0, <1>1, <1>2 DEF Next, Deadline, Joined, vars

LEMMA PosTypesKept ==
  ASSUME PlacesOK, MoreTypes, [Next]_vars
  PROVE  PosTypes'
<1>0. /\ PosTypes /\ Steps' = Steps /\ Len(Steps) \in Nat \ {0}
      /\ pos \in [Worker -> Nat \ {0}]
  BY SamePhase, StepsNotEmpty DEF MoreTypes, PosTypes, PlacesOK
<1>1. ASSUME NEW w \in Worker, Pass(w) PROVE PosTypes'
  BY <1>0, <1>1 DEF PosTypes, Pass
<1>2. ASSUME NEW w \in Worker, Again(w) PROVE PosTypes'
  BY <1>0, <1>2 DEF PosTypes, Again
<1>3. CASE pos' = pos
  BY <1>0, <1>3 DEF PosTypes
<1>4. ASSUME NEW w \in Worker, Run(w) PROVE PosTypes'
  BY <1>4, <1>1, <1>2, <1>3 DEF Run, Start, CheckFlag, Enter,
     Leave, Wait, Timeout, Stop, NotifyAll, TryMerge, TryEnforce, TryAssume, TrySample,
     TryCleanup, CleanupType, ExecLock, Finish, PushAll, MergeLock, MergeRemove,
     MergeNext, Take
<1> QED
  BY <1>3, <1>4 DEF Next, Derive, DeriveFact, DeriveEqual, InsertOb, Deadline, Joined, vars

LEMMA JobTypesKept ==
  ASSUME MoreTypes, [Next]_vars
  PROVE  JobTypes'
<1> USE DEF JobTypes, jobVars
<1>0. JobTypes
  BY DEF MoreTypes
<1>1. ASSUME NEW w \in Worker, Again(w) PROVE JobTypes'
  BY <1>0, <1>1 DEF Again
<1>2. ASSUME NEW w \in Worker, NEW l, NEW R \in SUBSET Ob,
             NEW k \in {"merge", "enforce", "assume", "sample", "cleanup"}, Take(w, l, k, R)
      PROVE  JobTypes'
  BY <1>0, <1>2 DEF Take
<1>3. CASE UNCHANGED jobVars
  BY <1>0, <1>3
<1>4. ASSUME NEW w \in Worker, Run(w) PROVE JobTypes'
  <2>1. CASE TryMerge(w) \/ MergeNext(w)
    <3>1. mergeQ # <<>> => {Head(mergeQ)} \in SUBSET Ob
      BY HeadTailProperties DEF MoreTypes
    <3> QED
      BY <1>1, <1>2, <1>3, <2>1, <3>1 DEF TryMerge, MergeNext
  <2>2. CASE TryEnforce(w)
    <3>1. PICK q \in Queue :
            IF enforceQ[q] = <<>> THEN UNCHANGED jobVars
            ELSE Take(w, "exec", "enforce", Head(enforceQ[q]))
      BY <2>2 DEF TryEnforce
    <3>2. enforceQ[q] # <<>> => Head(enforceQ[q]) \in SUBSET Ob
      BY HeadTailProperties DEF MoreTypes
    <3> QED
      BY <1>2, <1>3, <3>1, <3>2
  <2>3. CASE TryAssume(w) \/ TrySample(w) \/ TryCleanup(w)
    BY <1>2, <1>3, <2>3 DEF TryAssume, TrySample, TryCleanup
  <2>4. CASE Finish(w)
    BY <1>0, <1>1, <2>4 DEF Finish
  <2>5. CASE PushAll(w)
    BY <1>1, <2>5 DEF PushAll
  <2>6. CASE MergeRemove(w)
    BY <1>0, <2>6 DEF MergeRemove
  <2> QED
    BY <1>4, <1>3, <2>1, <2>2, <2>3, <2>4, <2>5, <2>6 DEF Run, Start, CheckFlag, Enter,
       Leave, Wait, Timeout, Stop, NotifyAll, CleanupType, ExecLock, MergeLock
<1> QED
  BY <1>3, <1>4 DEF Next, Derive, DeriveFact, DeriveEqual, InsertOb, Deadline, Joined, vars

LEMMA FlagsKept ==
  ASSUME MoreTypes, [Next]_vars
  PROVE  flag' \in BOOLEAN /\ late' \in BOOLEAN
<1>0. flag \in BOOLEAN /\ late \in BOOLEAN
  BY DEF MoreTypes
<1>1. ASSUME NEW w \in Worker, Run(w) PROVE flag' \in BOOLEAN /\ late' \in BOOLEAN
  BY <1>0, <1>1 DEF Run, Start, CheckFlag, Enter,
     Leave, Wait, Timeout, Stop, NotifyAll, TryMerge, TryEnforce, TryAssume, TrySample,
     TryCleanup, CleanupType, ExecLock, Finish, PushAll, MergeLock, MergeRemove, MergeNext
<1> QED
  BY <1>0, <1>1 DEF Next, Derive, DeriveFact, DeriveEqual, InsertOb, Deadline, Joined, vars

LEMMA MoreTypesKept ==
  ASSUME PlacesOK, MoreTypes, [Next]_vars
  PROVE  MoreTypes'
BY TaskTypesKept, CleanupTypesKept, PosTypesKept, JobTypesKept, FlagsKept
DEF MoreTypes, TaskTypes, CleanupTypes, PosTypes, JobTypes

LEMMA InitMoreTypes == Init => MoreTypes
<1> SUFFICES ASSUME Init PROVE MoreTypes
  OBVIOUS
<1>1. PlacesOK
  BY InitIInv DEF IInv
<1>2. \A w \in Worker : pos[w] <= Len(Steps)
  BY <1>1, StepsNotEmpty DEF Init
<1>3. enforceQ \in [Queue -> Seq(SUBSET Ob)]
  <2>1. \A S \in SUBSET Roots : <<S>> \in Seq(SUBSET Ob) /\ <<>> \in Seq(SUBSET Ob)
    BY DEF Roots
  <2> QED
    BY <2>1 DEF Init
<1>4. status \in [Ob -> {"root", "dep", "free"}] /\ mergeQ \in Seq(Ob)
  BY DEF Init
<1>5. /\ assumes \in Nat /\ budget \in 0 .. Budget /\ done \in 0 .. TypeCount
      /\ type \in Type /\ due \subseteq Type /\ flag \in BOOLEAN /\ late \in BOOLEAN
  <2>1. assumes \in {0, 1} /\ done \in {0, TypeCount} /\ budget = Budget
    BY DEF Init
  <2>2. type \in Type /\ due \subseteq Type /\ flag \in BOOLEAN /\ late \in BOOLEAN
    BY DEF Init
  <2>3. 0 \in 0 .. TypeCount /\ TypeCount \in 0 .. TypeCount /\ Budget \in 0 .. Budget
    BY SchedulerAssumption
  <2> QED
    BY <2>1, <2>2, <2>3
<1>6. /\ kind \in [Worker -> {"none", "merge", "enforce", "assume", "sample", "cleanup"}]
      /\ refs \in [Worker -> SUBSET Ob]
  BY DEF Init
<1> QED
  BY <1>2, <1>3, <1>4, <1>5, <1>6 DEF MoreTypes

\* g_working_count is the number of workers in between.
LEMMA WorkersMove ==
  ASSUME PlacesOK, NEW w \in Worker, NEW l, pc' = [pc EXCEPT ![w] = l]
  PROVE  /\ Cardinality(InsideNow) \in Nat
         /\ l \in InsideLabel /\ pc[w] \in InsideLabel => InsideNow' = InsideNow
         /\ l \notin InsideLabel /\ pc[w] \notin InsideLabel => InsideNow' = InsideNow
         /\ l \in InsideLabel /\ pc[w] \notin InsideLabel =>
              Cardinality(InsideNow') = Cardinality(InsideNow) + 1
         /\ l \notin InsideLabel /\ pc[w] \in InsideLabel =>
              Cardinality(InsideNow') = Cardinality(InsideNow) - 1
<1>1. IsFiniteSet(InsideNow) /\ Cardinality(InsideNow) \in Nat
  BY SchedulerAssumption, FS_Subset, FS_CardinalityType DEF InsideNow
<1>2. /\ \A v \in Worker \ {w} : v \in InsideNow' <=> v \in InsideNow
      /\ w \in InsideNow' <=> l \in InsideLabel
      /\ w \in InsideNow <=> pc[w] \in InsideLabel
      /\ InsideNow' \subseteq Worker /\ InsideNow \subseteq Worker
  BY DEF InsideNow, Inside, PlacesOK
<1>3. (l \in InsideLabel <=> pc[w] \in InsideLabel) => InsideNow' = InsideNow
  BY <1>2
<1>4. ASSUME l \in InsideLabel, pc[w] \notin InsideLabel
      PROVE  Cardinality(InsideNow') = Cardinality(InsideNow) + 1
  <2>1. InsideNow' = InsideNow \cup {w} /\ w \notin InsideNow
    BY <1>2, <1>4
  <2>2. Cardinality(InsideNow \cup {w}) = Cardinality(InsideNow) + 1
    BY <1>1, <2>1, FS_AddElement
  <2> QED
    BY <2>1, <2>2
<1>5. ASSUME l \notin InsideLabel, pc[w] \in InsideLabel
      PROVE  Cardinality(InsideNow') = Cardinality(InsideNow) - 1
  <2>1. InsideNow' = InsideNow \ {w} /\ w \in InsideNow
    BY <1>2, <1>5
  <2>2. Cardinality(InsideNow \ {w}) = Cardinality(InsideNow) - 1
    BY <1>1, <2>1, FS_RemoveElement
  <2> QED
    BY <2>1, <2>2
<1> QED
  BY <1>1, <1>3, <1>4, <1>5

LEMMA CountKept ==
  ASSUME PlacesOK, CountInv, [Next]_vars
  PROVE  CountInv'
<1> USE DEF CountInv
<1>1. CASE count' = count /\ InsideNow' = InsideNow
  BY <1>1
<1>2. ASSUME NEW w \in Worker, NEW l, Goto(w, l), count' = count,
             l \in InsideLabel <=> pc[w] \in InsideLabel
      PROVE  CountInv'
  BY <1>2, WorkersMove DEF Goto
<1>3. ASSUME NEW w \in Worker, Run(w) PROVE CountInv'
  <2>1. CASE Start(w) \/ CheckFlag(w) \/ Wait(w) \/ Timeout(w) \/ Stop(w)
    <3>1. PICK l \in {"check", "enter", "done", "waiting", "notify"} :
            Goto(w, l) /\ count' = count
      BY <2>1 DEF Start, CheckFlag, Wait, Timeout, Stop
    <3>2. pc[w] \notin InsideLabel /\ l \notin InsideLabel
      BY <2>1, <3>1 DEF Start, CheckFlag, Wait, Timeout, Stop, InsideLabel
    <3> QED
      BY <1>2, <3>1, <3>2
  <2>2. CASE Enter(w)
    <3>1. pc[w] \notin InsideLabel /\ "try" \in InsideLabel
      BY <2>2 DEF Enter, InsideLabel
    <3> QED
      BY <2>2, <3>1, WorkersMove DEF Enter, Goto
  <2>3. CASE Leave(w)
    <3>1. pc[w] \in InsideLabel /\ "wait" \notin InsideLabel /\ "last" \notin InsideLabel
      BY <2>3 DEF Leave, InsideLabel
    <3>2. PICK l \in {"wait", "last"} : pc' = [pc EXCEPT ![w] = l]
      BY <2>3 DEF Leave, Goto
    <3>3. Cardinality(InsideNow') = Cardinality(InsideNow) - 1
      BY <3>1, <3>2, WorkersMove
    <3> QED
      BY <2>3, <3>3 DEF Leave
  <2>4. CASE NotifyAll(w)
    <3>1. \A v \in Worker : pc'[v] = pc[v] \/ (pc[v] \in {"notify", "waiting"} /\ pc'[v] = "check")
      BY <2>4 DEF NotifyAll
    <3>2. InsideNow' = InsideNow
      BY <3>1 DEF InsideNow, Inside, InsideLabel
    <3> QED
      BY <2>4, <3>2, <1>1 DEF NotifyAll
  <2>5. CASE /\ pc[w] \in InsideLabel /\ count' = count
             /\ pc' = pc \/ \E l \in InsideLabel : Goto(w, l)
    <3>1. CASE pc' = pc
      BY <2>5, <3>1 DEF InsideNow, Inside
    <3> QED
      BY <1>2, <2>5, <3>1
  <2>6. CASE \/ TryMerge(w) \/ TryEnforce(w) \/ TryAssume(w) \/ TrySample(w)
             \/ TryCleanup(w) \/ CleanupType(w) \/ ExecLock(w) \/ Finish(w)
             \/ PushAll(w) \/ MergeLock(w) \/ MergeRemove(w) \/ MergeNext(w)
    <3>1. pc[w] \in InsideLabel
      BY <2>6 DEF TryMerge, TryEnforce, TryAssume, TrySample, TryCleanup, CleanupType,
         ExecLock, Finish, PushAll, MergeLock, MergeRemove, MergeNext, AtStep, InsideLabel
    <3>2. count' = count
      BY <2>6 DEF TryMerge, TryEnforce, TryAssume, TrySample, TryCleanup, CleanupType,
         ExecLock, Finish, PushAll, MergeLock, MergeRemove, MergeNext
    <3>3. \/ pc' = pc
          \/ \E l \in {"leave", "try", "merge_wait", "merge", "merge_next", "clean_type",
                       "exec_wait", "exec", "push_all"} : Goto(w, l)
      BY <2>6 DEF TryMerge, TryEnforce, TryAssume, TrySample, TryCleanup, CleanupType,
         ExecLock, Finish, PushAll, MergeLock, MergeRemove, MergeNext, Pass, Take, Again
    <3>4. \/ pc' = pc
          \/ \E l \in InsideLabel : Goto(w, l)
      BY <3>3 DEF InsideLabel
    <3> QED
      BY <2>5, <3>1, <3>2, <3>4
  <2> QED
    BY <1>3, <2>1, <2>2, <2>3, <2>4, <2>6 DEF Run
<1>4. ASSUME NEW w \in Worker, Derive(w) PROVE CountInv'
  <2>1. count' = count /\ NotifyOne
    BY <1>4 DEF Derive, DeriveFact, DeriveEqual, InsertOb
  <2>2. CASE pc' = pc
    BY <2>1, <2>2 DEF InsideNow, Inside
  <2>3. CASE pc' # pc
    <3>1. PICK v \in Worker : pc[v] = "waiting" /\ Goto(v, "check")
      BY <2>1, <2>3 DEF NotifyOne
    <3>2. pc[v] \notin InsideLabel /\ "check" \notin InsideLabel
      BY <3>1 DEF InsideLabel
    <3> QED
      BY <1>2, <2>1, <3>1, <3>2
  <2> QED
    BY <2>2, <2>3
<1>5. CASE UNCHANGED <<pc, count>>
  BY <1>5 DEF InsideNow, Inside
<1> QED
  BY <1>3, <1>4, <1>5 DEF Next, Deadline, Joined, vars

\* Every variable of the scheduler keeps its type, whatever the tasks derive;
\* in particular the two counters and each worker's step stay in range.
THEOREM SchedulerTypes == Spec => []TypeOK
<1>1. Init => CountInv
  <2>1. Init => InsideNow = {}
    BY DEF Init, InsideNow, Inside, InsideLabel
  <2> QED
    BY <2>1, FS_EmptySet DEF Init, CountInv
<1>2. IInv /\ MoreTypes /\ CountInv => TypeOK
  <2> SUFFICES ASSUME IInv, MoreTypes, CountInv PROVE TypeOK
    OBVIOUS
  <2>1. count \in 0 .. Cardinality(Worker)
    <3>1. /\ IsFiniteSet(InsideNow) /\ Cardinality(InsideNow) <= Cardinality(Worker)
          /\ Cardinality(Worker) \in Nat
      BY SchedulerAssumption, FS_Subset, FS_CardinalityType DEF InsideNow
    <3>2. Cardinality(InsideNow) \in Nat
      BY <3>1, FS_CardinalityType
    <3> QED
      BY <3>1, <3>2 DEF CountInv
  <2>2. pos \in [Worker -> 1 .. Len(Steps)]
    <3>1. Len(Steps) \in Nat /\ pos \in [Worker -> Nat \ {0}]
      BY StepsNotEmpty DEF IInv, PlacesOK
    <3>2. \A w \in Worker : pos[w] \in 1 .. Len(Steps)
      BY <3>1 DEF MoreTypes
    <3> QED
      BY <3>1, <3>2
  <2>3. phase \in {"initialize", "survey", "deadline"} /\ pc \in [Worker -> Label]
    BY DEF IInv, PlacesOK
  <2> QED
    BY <2>1, <2>2, <2>3 DEF MoreTypes, TypeOK, Label
<1>3. IInv /\ MoreTypes /\ CountInv /\ [Next]_vars => (MoreTypes /\ CountInv)'
  BY MoreTypesKept, CountKept DEF IInv
<1> QED
  BY <1>1, <1>2, <1>3, InitIInv, NextIInv, InitMoreTypes, PTL DEF Spec

-----------------------------------------------------------------------------
(* No stale task.                                                          *)

\* A step that leaves the tasks alone, and in which workers only let go.
LEMMA QuietTasks ==
  ASSUME TInv, UNCHANGED <<status, mergeQ, enforceQ>>,
         \A w \in Worker :
           \/ pc'[w] = pc[w] /\ refs'[w] = refs[w]
           \/ /\ ~ Merging(w) /\ pc'[w] \notin {"exec", "merge_wait", "merge", "merge_next"}
              /\ refs'[w] = {}
  PROVE  TInv'
<1>1. LocksHeld'
  BY DEF TInv, LocksHeld, Locking
<1>2. Live' = Live /\ \A x : InMergeQ(x)' <=> InMergeQ(x)
  BY DEF Live, InMergeQ
<1>3. RefsInPlace'
  BY <1>2 DEF TInv, RefsInPlace
<1>4. \A w \in Worker : (Merging(w)' <=> Merging(w)) /\ (Merging(w) => refs'[w] = refs[w])
  BY DEF Merging
<1>5. MergeTaken' /\ MergeTakenOnce' /\ EveryDep'
  BY <1>2, <1>4 DEF TInv, MergeTaken, MergeTakenOnce, EveryDep
<1>6. MergeQueued' /\ MergeQueuedOnce' /\ TasksLive'
  BY <1>2 DEF TInv, MergeQueued, MergeQueuedOnce, TasksLive
<1> QED
  BY <1>1, <1>3, <1>5, <1>6 DEF TInv

\* A worker begins to execute a task under the shared lock.
LEMMA ExecTasks ==
  ASSUME TInv, NEW w \in Worker, UNCHANGED <<status, mergeQ>>, TasksLive', LockShared,
         ~ Merging(w), pc'[w] = "exec", refs'[w] \subseteq Live,
         \A v \in Worker \ {w} : pc'[v] = pc[v] /\ refs'[v] = refs[v]
  PROVE  TInv'
<1>0. \A v \in Worker : ~ Locking(v)
  BY DEF LockShared, Writers, Locking
<1>1. LocksHeld'
  BY <1>0 DEF LocksHeld, Locking
<1>2. Live' = Live /\ \A x : InMergeQ(x)' <=> InMergeQ(x)
  BY DEF Live, InMergeQ
<1>3. RefsInPlace'
  BY <1>2 DEF TInv, RefsInPlace
<1>4. \A v \in Worker : (Merging(v)' <=> Merging(v)) /\ (Merging(v) => refs'[v] = refs[v])
  BY DEF Merging
<1>5. MergeTaken' /\ MergeTakenOnce' /\ EveryDep'
  BY <1>2, <1>4 DEF TInv, MergeTaken, MergeTakenOnce, EveryDep
<1>6. MergeQueued' /\ MergeQueuedOnce'
  BY DEF TInv, MergeQueued, MergeQueuedOnce
<1> QED
  BY <1>1, <1>3, <1>5, <1>6 DEF TInv

\* A worker pops a MergeTask, before it waits for the lock or while it has it.
LEMMA TakeMerge ==
  ASSUME TInv, MoreTypes, NEW w \in Worker, NEW l \in {"merge_wait", "merge"},
         pc' = [pc EXCEPT ![w] = l], refs' = [refs EXCEPT ![w] = {Head(mergeQ)}],
         mergeQ # <<>>, mergeQ' = Tail(mergeQ), UNCHANGED <<status, enforceQ>>,
         ~ Merging(w), l = "merge" => Locking(w), PlacesOK
  PROVE  TInv'
<1>0. PICK x : x = Head(mergeQ)
  OBVIOUS
<1>1. /\ pc'[w] = l /\ refs'[w] = {x}
      /\ \A v \in Worker \ {w} : pc'[v] = pc[v] /\ refs'[v] = refs[v]
  BY <1>0 DEF PlacesOK, MoreTypes
<1>2. /\ mergeQ \in Seq(Ob) /\ Len(mergeQ) \in Nat \ {0} /\ x = mergeQ[1] /\ x \in Ob
      /\ Len(mergeQ') = Len(mergeQ) - 1
      /\ \A i \in 1 .. Len(mergeQ') : mergeQ'[i] = mergeQ[i + 1] /\ i + 1 \in 1 .. Len(mergeQ)
  <2>1. mergeQ \in Seq(Ob)
    BY DEF MoreTypes
  <2>2. Len(mergeQ) \in Nat \ {0}
    BY <2>1, EmptySeq
  <2> QED
    BY <1>0, <2>1, <2>2, HeadTailProperties
<1>3. ~ InMergeQ(x)' /\ \A y : y # x => (InMergeQ(y)' <=> InMergeQ(y))
  <2>1. ASSUME NEW i \in 1 .. Len(mergeQ'), mergeQ'[i] = x PROVE FALSE
    <3>1. i + 1 \in 1 .. Len(mergeQ) /\ 1 \in 1 .. Len(mergeQ) /\ mergeQ[i + 1] = mergeQ[1]
          /\ i + 1 # 1
      BY <1>2, <2>1
    <3> QED
      BY <3>1 DEF TInv, MergeQueuedOnce
  <2>2. ASSUME NEW y, y # x, NEW i \in 1 .. Len(mergeQ), mergeQ[i] = y
        PROVE  InMergeQ(y)'
    <3>1. i # 1 /\ i - 1 \in 1 .. Len(mergeQ')
      BY <1>2, <2>2
    <3>2. mergeQ'[i - 1] = mergeQ[(i - 1) + 1] /\ (i - 1) + 1 = i
      BY <1>2, <3>1
    <3> QED
      BY <2>2, <3>1, <3>2 DEF InMergeQ
  <2>3. ASSUME NEW y, NEW i \in 1 .. Len(mergeQ'), mergeQ'[i] = y
        PROVE  InMergeQ(y)
    BY <1>2, <2>3 DEF InMergeQ
  <2>4. ~ InMergeQ(x)'
    BY <2>1 DEF InMergeQ
  <2>5. ASSUME NEW y, y # x PROVE InMergeQ(y)' <=> InMergeQ(y)
    BY <2>2, <2>3, <2>5 DEF InMergeQ
  <2> QED
    BY <2>4, <2>5
<1>4. status[x] = "dep" /\ InMergeQ(x)
  BY <1>2 DEF TInv, MergeQueued, InMergeQ
<1>5. LocksHeld'
  BY <1>1 DEF TInv, LocksHeld, Locking
<1>6. Live' = Live
  BY DEF Live
<1>7. RefsInPlace'
  BY <1>1, <1>6 DEF TInv, RefsInPlace
<1>8. \A v \in Worker \ {w} : (Merging(v)' <=> Merging(v)) /\ (Merging(v) => refs'[v] = refs[v])
  BY <1>1 DEF Merging
<1>9. \A v \in Worker \ {w} : Merging(v) => x \notin refs[v]
  BY <1>4 DEF TInv, MergeTaken
<1>10. MergeTaken'
  BY <1>1, <1>2, <1>3, <1>4, <1>8, <1>9 DEF TInv, MergeTaken
<1>11. MergeTakenOnce'
  BY <1>1, <1>8, <1>9 DEF TInv, MergeTakenOnce
<1>12. MergeQueued'
  BY <1>2 DEF TInv, MergeQueued
<1>13. MergeQueuedOnce'
  <2>1. ASSUME NEW i \in 1 .. Len(mergeQ'), NEW j \in 1 .. Len(mergeQ'), mergeQ'[i] = mergeQ'[j]
        PROVE  i = j
    <3>1. i + 1 \in 1 .. Len(mergeQ) /\ j + 1 \in 1 .. Len(mergeQ)
          /\ mergeQ[i + 1] = mergeQ[j + 1]
      BY <1>2, <2>1
    <3>2. i + 1 = j + 1
      BY <3>1 DEF TInv, MergeQueuedOnce
    <3> QED
      BY <1>2, <3>2
  <2> QED
    BY <2>1 DEF MergeQueuedOnce
<1>14. EveryDep'
  <2>1. Merging(w)'
    BY <1>1 DEF Merging
  <2> QED
    BY <1>1, <1>3, <1>8, <2>1 DEF TInv, EveryDep
<1>15. TasksLive'
  BY <1>6 DEF TInv, TasksLive
<1> QED
  BY <1>5, <1>7, <1>10, <1>11, <1>12, <1>13, <1>14, <1>15 DEF TInv

LEMMA MergeLockTasks ==
  ASSUME PlacesOK, TInv, NEW w \in Worker, MergeLock(w)
  PROVE  TInv'
<1>0. /\ pc[w] = "merge_wait" /\ pc'[w] = "merge" /\ refs' = refs
      /\ \A v \in Worker \ {w} : pc'[v] = pc[v]
      /\ UNCHANGED <<status, mergeQ, enforceQ>>
  BY DEF MergeLock, Goto, PlacesOK, taskVars, jobVars
<1>1. \A v \in Worker : ~ Locking(v) /\ pc[v] # "exec"
  BY DEF MergeLock, LockUnique, Writers, Readers, Locking
<1>2. LocksHeld'
  BY <1>0, <1>1 DEF LocksHeld, Locking
<1>3. Live' = Live /\ (\A x : InMergeQ(x)' <=> InMergeQ(x))
      /\ \A v \in Worker : Merging(v)' <=> Merging(v)
  BY <1>0 DEF Live, InMergeQ, Merging
<1>4. RefsInPlace' /\ MergeTaken' /\ MergeTakenOnce' /\ EveryDep'
  BY <1>0, <1>3 DEF TInv, RefsInPlace, MergeTaken, MergeTakenOnce, EveryDep
<1>5. MergeQueued' /\ MergeQueuedOnce' /\ TasksLive'
  BY <1>0, <1>3 DEF TInv, MergeQueued, MergeQueuedOnce, TasksLive
<1> QED
  BY <1>2, <1>4, <1>5 DEF TInv

\* A MergeTask removes its ob while no task runs that refers to it, and cancels
\* those that are queued.
LEMMA MergeRemoveTasks ==
  ASSUME PlacesOK, MoreTypes, TInv, NEW w \in Worker, MergeRemove(w)
  PROVE  TInv'
<1>1. PICK x \in Ob : refs[w] = {x} /\ status[x] = "dep" /\ ~ InMergeQ(x)
  BY DEF MergeRemove, TInv, MergeTaken, Merging
<1>2. (CHOOSE y \in refs[w] : TRUE) = x
  BY <1>1
<1>3. /\ status' = [status EXCEPT ![x] = "free"]
      /\ enforceQ' = [q \in Queue |-> Cancelled(enforceQ[q], x)]
      /\ mergeQ' = mergeQ /\ refs' = [refs EXCEPT ![w] = {}]
      /\ pc[w] = "merge" /\ pc' = [pc EXCEPT ![w] = "merge_next"]
  <2>1. pc[w] = "merge" /\ mergeQ' = mergeQ /\ refs' = [refs EXCEPT ![w] = {}]
        /\ pc' = [pc EXCEPT ![w] = "merge_next"]
    BY DEF MergeRemove, Goto
  <2> DEFINE y == CHOOSE z \in refs[w] : TRUE
  <2>2. /\ status' = [status EXCEPT ![y] = "free"]
        /\ enforceQ' = [q \in Queue |-> Cancelled(enforceQ[q], y)]
    BY DEF MergeRemove
  <2> HIDE DEF y
  <2>3. y = x
    BY <1>2 DEF y
  <2> QED
    BY <2>1, <2>2, <2>3
<1>4. /\ pc'[w] = "merge_next" /\ refs'[w] = {}
      /\ \A v \in Worker \ {w} : pc'[v] = pc[v] /\ refs'[v] = refs[v]
      /\ status'[x] = "free" /\ \A y \in Ob \ {x} : status'[y] = status[y]
  BY <1>1, <1>3 DEF PlacesOK, MoreTypes
<1>5. Live' = Live \ {x} /\ \A y : InMergeQ(y)' <=> InMergeQ(y)
  BY <1>3, <1>4 DEF Live, InMergeQ
<1>6. \A v \in Worker \ {w} : ~ Locking(v) /\ pc[v] # "exec"
  BY <1>3 DEF TInv, LocksHeld, Locking
<1>7. LocksHeld'
  BY <1>4, <1>6 DEF LocksHeld, Locking
<1>8. RefsInPlace'
  BY <1>4, <1>6 DEF TInv, RefsInPlace
<1>9. Merging(w) /\ ~ Merging(w)'
      /\ \A v \in Worker \ {w} : (Merging(v)' <=> Merging(v)) /\ (Merging(v) => x \notin refs[v])
  BY <1>1, <1>3, <1>4 DEF Merging, TInv, MergeTakenOnce
<1>10. MergeTaken'
  BY <1>4, <1>5, <1>9 DEF TInv, MergeTaken
<1>11. MergeTakenOnce'
  BY <1>4, <1>9 DEF TInv, MergeTakenOnce
<1>12. MergeQueued' /\ MergeQueuedOnce'
  <2>1. \A i \in 1 .. Len(mergeQ) : mergeQ[i] \in Ob /\ mergeQ[i] # x
    BY <1>1, ElementOfSeq DEF InMergeQ, MoreTypes
  <2> QED
    BY <1>3, <1>4, <2>1 DEF TInv, MergeQueued, MergeQueuedOnce
<1>13. EveryDep'
  BY <1>1, <1>4, <1>5, <1>9 DEF TInv, EveryDep
<1>14. TasksLive'
  <2>1. ASSUME NEW q \in Queue, NEW i \in 1 .. Len(enforceQ'[q])
        PROVE  enforceQ'[q][i] \subseteq Live'
    <3>1. enforceQ[q] \in Seq(SUBSET Ob) /\ enforceQ'[q] = Cancelled(enforceQ[q], x)
      BY <1>3 DEF MoreTypes
    <3>2. x \notin enforceQ'[q][i] /\ \E j \in 1 .. Len(enforceQ[q]) : enforceQ'[q][i] = enforceQ[q][j]
      BY <2>1, <3>1, CancelledKeeps
    <3>3. enforceQ'[q][i] \subseteq Live
      BY <3>2 DEF TInv, TasksLive
    <3> QED
      BY <1>5, <3>2, <3>3
  <2> QED
    BY <2>1 DEF TasksLive
<1> QED
  BY <1>7, <1>8, <1>10, <1>11, <1>12, <1>13, <1>14 DEF TInv

\* A notification wakes at most a waiting worker.
LEMMA NotifyWakes ==
  ASSUME PlacesOK, NotifyOne
  PROVE  \A w \in Worker : pc'[w] = pc[w] \/ (pc[w] = "waiting" /\ pc'[w] = "check")
BY DEF NotifyOne, Goto, PlacesOK

\* The places of the tasks, when workers are at most woken up.
LEMMA WokenTasks ==
  ASSUME PlacesOK, TInv, NotifyOne, UNCHANGED refs
  PROVE  /\ LocksHeld'
         /\ \A w \in Worker : /\ Merging(w)' <=> Merging(w)
                              /\ pc'[w] = "exec" <=> pc[w] = "exec"
         /\ Live \subseteq Live' => RefsInPlace'
<1>1. \A w \in Worker : pc'[w] = pc[w] \/ (pc[w] = "waiting" /\ pc'[w] = "check")
  BY NotifyWakes
<1>2. LocksHeld'
  BY <1>1 DEF TInv, LocksHeld, Locking
<1>3. \A w \in Worker : /\ Merging(w)' <=> Merging(w)
                        /\ pc'[w] = "exec" <=> pc[w] = "exec"
  BY <1>1 DEF Merging
<1>4. Live \subseteq Live' => RefsInPlace'
  BY <1>3 DEF TInv, RefsInPlace, Merging
<1> QED
  BY <1>2, <1>3, <1>4

LEMMA DeriveFactTasks ==
  ASSUME PlacesOK, MoreTypes, TInv, NEW w \in Worker, NEW q \in Queue, NEW S \in SUBSET Ob,
         DeriveFact(w, q, S)
  PROVE  TInv'
<1>1. /\ S \subseteq Live /\ NotifyOne /\ UNCHANGED <<status, mergeQ, refs>>
      /\ enforceQ' = [enforceQ EXCEPT ![q] = Append(@, S)]
  BY DEF DeriveFact, jobVars
<1>2. Live' = Live /\ \A x : InMergeQ(x)' <=> InMergeQ(x)
  BY <1>1 DEF Live, InMergeQ
<1>3. LocksHeld' /\ RefsInPlace' /\ \A v \in Worker : Merging(v)' <=> Merging(v)
  BY <1>1, <1>2, WokenTasks
<1>4. MergeTaken' /\ MergeTakenOnce' /\ EveryDep'
  BY <1>1, <1>2, <1>3 DEF TInv, MergeTaken, MergeTakenOnce, EveryDep
<1>5. MergeQueued' /\ MergeQueuedOnce'
  BY <1>1 DEF TInv, MergeQueued, MergeQueuedOnce
<1>6. TasksLive'
  <2>1. ASSUME NEW r \in Queue, NEW i \in 1 .. Len(enforceQ'[r])
        PROVE  enforceQ'[r][i] \subseteq Live
    <3>1. CASE r = q
      <4>1. enforceQ[q] \in Seq(SUBSET Ob) /\ enforceQ'[r] = Append(enforceQ[q], S)
        BY <1>1, <3>1 DEF MoreTypes
      <4>2. /\ Len(enforceQ'[r]) = Len(enforceQ[q]) + 1
            /\ \A j \in 1 .. Len(enforceQ[q]) : enforceQ'[r][j] = enforceQ[q][j]
            /\ enforceQ'[r][Len(enforceQ[q]) + 1] = S
        BY <4>1, AppendProperties
      <4>3. i \in 1 .. Len(enforceQ[q]) \/ i = Len(enforceQ[q]) + 1
        BY <2>1, <4>1, <4>2
      <4> QED
        BY <1>1, <4>2, <4>3 DEF TInv, TasksLive
    <3>2. CASE r # q
      BY <1>1, <2>1, <3>2 DEF TInv, TasksLive, MoreTypes
    <3> QED
      BY <3>1, <3>2
  <2> QED
    BY <1>2, <2>1 DEF TasksLive
<1> QED
  BY <1>3, <1>4, <1>5, <1>6 DEF TInv

LEMMA InsertObTasks ==
  ASSUME PlacesOK, MoreTypes, TInv, NEW w \in Worker, NEW x \in Ob, InsertOb(w, x)
  PROVE  TInv'
<1> DEFINE h == Head(QueueOrder)
<1>1. /\ status[x] = "free" /\ NotifyOne /\ UNCHANGED <<mergeQ, refs>>
      /\ status' = [status EXCEPT ![x] = "root"]
      /\ enforceQ' = [enforceQ EXCEPT ![h] = Append(@, {x})]
  BY DEF InsertOb, jobVars
<1>0. h \in Queue
  BY SchedulerAssumption DEF Queue
<1> HIDE DEF h
<1>2. /\ Live' = Live \cup {x} /\ \A y : InMergeQ(y)' <=> InMergeQ(y)
      /\ \A y \in Ob : status'[y] = "dep" <=> status[y] = "dep"
  BY <1>1 DEF Live, InMergeQ, MoreTypes
<1>3. LocksHeld' /\ RefsInPlace' /\ \A v \in Worker : Merging(v)' <=> Merging(v)
  BY <1>1, <1>2, WokenTasks
<1>4. MergeTaken' /\ MergeTakenOnce' /\ EveryDep'
  BY <1>1, <1>2, <1>3 DEF TInv, MergeTaken, MergeTakenOnce, EveryDep
<1>5. MergeQueued' /\ MergeQueuedOnce'
  <2>1. \A i \in 1 .. Len(mergeQ) : mergeQ[i] \in Ob
    BY ElementOfSeq DEF MoreTypes
  <2> QED
    BY <1>1, <1>2, <2>1 DEF TInv, MergeQueued, MergeQueuedOnce
<1>6. TasksLive'
  <2>1. ASSUME NEW r \in Queue, NEW i \in 1 .. Len(enforceQ'[r])
        PROVE  enforceQ'[r][i] \subseteq Live'
    <3>1. CASE r = h
      <4>1. enforceQ[h] \in Seq(SUBSET Ob) /\ enforceQ'[r] = Append(enforceQ[h], {x})
        BY <1>0, <1>1, <3>1 DEF MoreTypes
      <4>2. /\ Len(enforceQ'[r]) = Len(enforceQ[h]) + 1
            /\ \A j \in 1 .. Len(enforceQ[h]) : enforceQ'[r][j] = enforceQ[h][j]
            /\ enforceQ'[r][Len(enforceQ[h]) + 1] = {x}
        BY <4>1, AppendProperties
      <4>3. i \in 1 .. Len(enforceQ[h]) \/ i = Len(enforceQ[h]) + 1
        BY <2>1, <4>1, <4>2
      <4>4. CASE i \in 1 .. Len(enforceQ[h])
        BY <1>0, <1>2, <4>2, <4>4 DEF TInv, TasksLive
      <4>5. CASE i = Len(enforceQ[h]) + 1
        BY <1>2, <4>2, <4>5
      <4> QED
        BY <4>3, <4>4, <4>5
    <3>2. CASE r # h
      <4>1. enforceQ'[r] = enforceQ[r]
        BY <1>1, <3>2 DEF MoreTypes
      <4> QED
        BY <1>2, <2>1, <4>1 DEF TInv, TasksLive
    <3> QED
      BY <3>1, <3>2
  <2> QED
    BY <2>1 DEF TasksLive
<1> QED
  BY <1>3, <1>4, <1>5, <1>6 DEF TInv

LEMMA DeriveEqualTasks ==
  ASSUME PlacesOK, MoreTypes, TInv, NEW w \in Worker, NEW x \in Ob, NEW y \in Ob,
         DeriveEqual(w, x, y)
  PROVE  TInv'
<1>1. /\ status[x] = "root" /\ NotifyOne /\ UNCHANGED <<enforceQ, refs>>
      /\ status' = [status EXCEPT ![x] = "dep"]
      /\ mergeQ' = Append(mergeQ, x)
  BY DEF DeriveEqual, jobVars, Roots
<1>2. /\ mergeQ \in Seq(Ob) /\ Len(mergeQ) \in Nat
      /\ Len(mergeQ') = Len(mergeQ) + 1 /\ mergeQ'[Len(mergeQ) + 1] = x
      /\ \A i \in 1 .. Len(mergeQ) : mergeQ'[i] = mergeQ[i] /\ mergeQ[i] \in Ob
      /\ \A i \in 1 .. Len(mergeQ') : i \in 1 .. Len(mergeQ) \/ i = Len(mergeQ) + 1
  <2>1. mergeQ \in Seq(Ob)
    BY DEF MoreTypes
  <2>2. Len(mergeQ) \in Nat
    BY <2>1
  <2>3. /\ Len(mergeQ') = Len(mergeQ) + 1 /\ mergeQ'[Len(mergeQ) + 1] = x
        /\ \A i \in 1 .. Len(mergeQ) : mergeQ'[i] = mergeQ[i]
    BY <1>1, <2>1, AppendProperties
  <2>4. \A i \in 1 .. Len(mergeQ) : mergeQ[i] \in Ob
    BY <2>1, ElementOfSeq
  <2> QED
    BY <2>1, <2>2, <2>3, <2>4
<1>3. Live' = Live /\ \A z \in Ob : status'[z] = IF z = x THEN "dep" ELSE status[z]
  BY <1>1 DEF Live, MoreTypes
<1>4. ~ InMergeQ(x) /\ \A v \in Worker : Merging(v) => x \notin refs[v]
  BY <1>1 DEF TInv, MergeQueued, InMergeQ, MergeTaken
<1>5. \A z : InMergeQ(z)' <=> InMergeQ(z) \/ z = x
  <2>1. ASSUME NEW z, InMergeQ(z)' PROVE InMergeQ(z) \/ z = x
    BY <1>2, <2>1 DEF InMergeQ
  <2>2. ASSUME NEW z, InMergeQ(z) PROVE InMergeQ(z)'
    BY <1>2, <2>2 DEF InMergeQ
  <2>3. InMergeQ(x)'
    BY <1>2 DEF InMergeQ
  <2> QED
    BY <2>1, <2>2, <2>3
<1>6. LocksHeld' /\ RefsInPlace' /\ \A v \in Worker : Merging(v)' <=> Merging(v)
  BY <1>1, <1>3, WokenTasks
<1>7. MergeTaken'
  BY <1>1, <1>3, <1>4, <1>5, <1>6 DEF TInv, MergeTaken
<1>8. MergeTakenOnce'
  BY <1>1, <1>6 DEF TInv, MergeTakenOnce
<1>9. EveryDep'
  BY <1>1, <1>3, <1>5, <1>6 DEF TInv, EveryDep
<1>10. MergeQueued'
  <2>1. ASSUME NEW i \in 1 .. Len(mergeQ') PROVE status'[mergeQ'[i]] = "dep"
    <3>1. CASE i \in 1 .. Len(mergeQ)
      BY <1>2, <1>3, <3>1 DEF TInv, MergeQueued
    <3>2. CASE i = Len(mergeQ) + 1
      BY <1>2, <1>3, <3>2
    <3> QED
      BY <1>2, <2>1, <3>1, <3>2
  <2> QED
    BY <2>1 DEF MergeQueued
<1>11. MergeQueuedOnce'
  <2>1. \A i \in 1 .. Len(mergeQ) : mergeQ[i] # x
    BY <1>4 DEF InMergeQ
  <2>2. \A i, j \in 1 .. Len(mergeQ) : mergeQ[i] = mergeQ[j] => i = j
    BY DEF TInv, MergeQueuedOnce
  <2> QED
    BY <1>2, <2>1, <2>2 DEF MergeQueuedOnce
<1>12. TasksLive'
  BY <1>1, <1>3 DEF TInv, TasksLive
<1> QED
  BY <1>6, <1>7, <1>8, <1>9, <1>10, <1>11, <1>12 DEF TInv

LEMMA TaskStep ==
  ASSUME PlacesOK, MoreTypes, TInv, NEW w \in Worker, Run(w)
  PROVE  TInv'
<1>0. pc \in [Worker -> Label] /\ refs \in [Worker -> SUBSET Ob]
  BY DEF PlacesOK, MoreTypes
<1>1. ASSUME NEW l, pc' = [pc EXCEPT ![w] = l], ~ Merging(w),
             l \notin {"exec", "merge_wait", "merge", "merge_next"},
             \/ refs' = [refs EXCEPT ![w] = {}]
             \/ refs' = refs /\ pc[w] # "exec",
             UNCHANGED <<status, mergeQ, enforceQ>>
      PROVE  TInv'
  <2>1. refs'[w] = {}
    BY <1>0, <1>1 DEF TInv, RefsInPlace, Merging
  <2>2. pc'[w] = l /\ \A v \in Worker \ {w} : pc'[v] = pc[v] /\ refs'[v] = refs[v]
    BY <1>0, <1>1
  <2> QED
    BY <1>1, <2>1, <2>2, QuietTasks
<1>2. ASSUME pc[w] = "try", Pass(w), refs' = refs, UNCHANGED <<status, mergeQ, enforceQ>>
      PROVE  TInv'
  <2>1. pc' = pc \/ pc' = [pc EXCEPT ![w] = "leave"]
    BY <1>2 DEF Pass, Goto
  <2>2. pc' = pc \/ (pc'[w] = "leave" /\ \A v \in Worker \ {w} : pc'[v] = pc[v])
    BY <1>0, <2>1
  <2>3. refs[w] = {} /\ ~ Merging(w)
    BY <1>2 DEF TInv, RefsInPlace, Merging
  <2> QED
    BY <1>2, <2>2, <2>3, QuietTasks
<1>3. ASSUME LockShared, ~ Merging(w), pc' = [pc EXCEPT ![w] = "exec"],
             UNCHANGED <<status, mergeQ>>, TasksLive',
             NEW R, R \subseteq Live, refs' = [refs EXCEPT ![w] = R]
      PROVE  TInv'
  <2>1. pc'[w] = "exec" /\ refs'[w] = R
        /\ \A v \in Worker \ {w} : pc'[v] = pc[v] /\ refs'[v] = refs[v]
    BY <1>0, <1>3
  <2> QED
    BY <1>3, <2>1, ExecTasks
<1>4. CASE Start(w) \/ CheckFlag(w) \/ Enter(w) \/ Leave(w) \/ Wait(w) \/ Timeout(w) \/ Stop(w)
           \/ CleanupType(w)
  <2>1. PICK l \in {"check", "enter", "done", "try", "wait", "last", "waiting", "notify", "exec_wait"} :
          pc' = [pc EXCEPT ![w] = l]
    BY <1>4 DEF Start, CheckFlag, Enter, Leave, Wait, Timeout, Stop, CleanupType, Goto
  <2>2. ~ Merging(w) /\ pc[w] # "exec" /\ refs' = refs /\ UNCHANGED <<status, mergeQ, enforceQ>>
    BY <1>4 DEF Start, CheckFlag, Enter, Leave, Wait, Timeout, Stop, CleanupType, Merging,
       taskVars, jobVars
  <2> QED
    BY <1>1, <2>1, <2>2
<1>5. CASE NotifyAll(w)
  <2>1. /\ UNCHANGED <<status, mergeQ, enforceQ, refs>>
        /\ \A v \in Worker : \/ pc'[v] = pc[v]
                             \/ pc'[v] = "check" /\ pc[v] \in {"notify", "waiting"}
    BY <1>5 DEF NotifyAll, taskVars, jobVars
  <2>2. \A v \in Worker : pc[v] \in {"notify", "waiting"} => refs[v] = {} /\ ~ Merging(v)
    BY DEF TInv, RefsInPlace, Merging
  <2> QED
    BY <2>1, <2>2, QuietTasks
<1>6. CASE TryMerge(w)
  <2>1. CASE mergeQ = <<>>
    BY <1>2, <1>6, <2>1 DEF TryMerge, AtStep, jobVars
  <2>2. CASE mergeQ # <<>>
    <3>1. /\ mergeQ' = Tail(mergeQ) /\ pc' = [pc EXCEPT ![w] = "merge_wait"]
          /\ refs' = [refs EXCEPT ![w] = {Head(mergeQ)}] /\ UNCHANGED <<status, enforceQ>>
          /\ ~ Merging(w)
      BY <1>6, <2>2 DEF TryMerge, AtStep, Take, Goto, Merging
    <3> QED
      BY <2>2, <3>1, TakeMerge
  <2> QED
    BY <2>1, <2>2
<1>7. CASE MergeNext(w)
  <2>1. CASE mergeQ = <<>>
    BY <1>1, <1>7, <2>1 DEF MergeNext, Again, Goto, Merging
  <2>2. CASE mergeQ # <<>>
    <3>1. /\ mergeQ' = Tail(mergeQ) /\ pc' = [pc EXCEPT ![w] = "merge"]
          /\ refs' = [refs EXCEPT ![w] = {Head(mergeQ)}] /\ UNCHANGED <<status, enforceQ>>
          /\ ~ Merging(w) /\ Locking(w)
      BY <1>7, <2>2 DEF MergeNext, Take, Goto, Merging, Locking
    <3> QED
      BY <2>2, <3>1, TakeMerge
  <2> QED
    BY <2>1, <2>2
<1>8. CASE TryEnforce(w)
  <2>1. PICK q \in Queue :
          /\ AtStep(w, q) /\ MayPop
          /\ IF enforceQ[q] = <<>>
             THEN Pass(w) /\ UNCHANGED <<enforceQ, jobVars>>
             ELSE /\ enforceQ' = [enforceQ EXCEPT ![q] = Tail(@)]
                  /\ Take(w, "exec", "enforce", Head(enforceQ[q]))
          /\ UNCHANGED <<status, mergeQ>>
    BY <1>8 DEF TryEnforce
  <2>2. CASE enforceQ[q] = <<>>
    BY <1>2, <2>1, <2>2 DEF AtStep, jobVars
  <2>3. CASE enforceQ[q] # <<>>
    <3>1. /\ enforceQ' = [enforceQ EXCEPT ![q] = Tail(@)] /\ LockShared /\ ~ Merging(w)
          /\ pc' = [pc EXCEPT ![w] = "exec"] /\ refs' = [refs EXCEPT ![w] = Head(enforceQ[q])]
      BY <2>1, <2>3 DEF AtStep, Take, Goto, MayPop, Merging
    <3>2. /\ enforceQ[q] \in Seq(SUBSET Ob) /\ Len(enforceQ[q]) \in Nat \ {0}
          /\ Head(enforceQ[q]) = enforceQ[q][1]
          /\ Len(Tail(enforceQ[q])) = Len(enforceQ[q]) - 1
          /\ \A i \in 1 .. Len(Tail(enforceQ[q])) : Tail(enforceQ[q])[i] = enforceQ[q][i + 1]
      <4>1. enforceQ[q] \in Seq(SUBSET Ob)
        BY DEF MoreTypes
      <4>2. Len(enforceQ[q]) \in Nat \ {0}
        BY <2>3, <4>1, EmptySeq
      <4> QED
        BY <2>3, <4>1, <4>2, HeadTailProperties
    <3>3. \A i \in 1 .. Len(enforceQ[q]) : enforceQ[q][i] \subseteq Live
      BY DEF TInv, TasksLive
    <3>4. Head(enforceQ[q]) \subseteq Live
      BY <3>2, <3>3
    <3>5. \A i \in 1 .. Len(Tail(enforceQ[q])) : Tail(enforceQ[q])[i] \subseteq Live
      BY <3>2, <3>3
    <3>6. TasksLive'
      <4>1. Live' = Live
        BY <2>1 DEF Live
      <4>2. \A r \in Queue : enforceQ'[r] = IF r = q THEN Tail(enforceQ[q]) ELSE enforceQ[r]
        BY <3>1 DEF MoreTypes
      <4> QED
        BY <3>5, <4>1, <4>2 DEF TInv, TasksLive
    <3> QED
      BY <1>3, <2>1, <3>1, <3>4, <3>6
  <2> QED
    BY <2>2, <2>3
<1>9. CASE TryAssume(w) \/ ExecLock(w)
  <2>0. UNCHANGED <<status, mergeQ, enforceQ>>
    BY <1>9 DEF TryAssume, ExecLock, taskVars
  <2>1. CASE TryAssume(w) /\ assumes = 0
    BY <1>2, <2>0, <2>1 DEF TryAssume, AtStep, jobVars
  <2>2. CASE ~ (TryAssume(w) /\ assumes = 0)
    <3>1. ~ Merging(w) /\ LockShared /\ pc' = [pc EXCEPT ![w] = "exec"]
      BY <1>9, <2>2 DEF TryAssume, ExecLock, AtStep, Take, Goto, MayPop, Merging
    <3>2. refs' = [refs EXCEPT ![w] = {}]
      <4>1. CASE ExecLock(w)
        <5>1. refs' = refs /\ refs[w] = {}
          BY <4>1 DEF ExecLock, jobVars, TInv, RefsInPlace
        <5> QED
          BY <1>0, <5>1
      <4>2. CASE TryAssume(w)
        BY <2>2, <4>2 DEF TryAssume, Take
      <4> QED
        BY <1>9, <4>1, <4>2
    <3>3. TasksLive'
      BY <2>0 DEF TInv, TasksLive, Live
    <3>4. /\ pc'[w] = "exec" /\ refs'[w] = {} /\ {} \subseteq Live
          /\ \A v \in Worker \ {w} : pc'[v] = pc[v] /\ refs'[v] = refs[v]
      BY <1>0, <3>1, <3>2
    <3> QED
      BY <2>0, <3>1, <3>3, <3>4, ExecTasks
  <2> QED
    BY <2>1, <2>2
<1>10. CASE TrySample(w) \/ TryCleanup(w)
  <2>0. UNCHANGED <<status, mergeQ, enforceQ>> /\ pc[w] = "try"
    BY <1>10 DEF TrySample, TryCleanup, AtStep, taskVars
  <2>1. \/ Pass(w) /\ refs' = refs
        \/ \E l \in {"exec_wait", "clean_type"} :
             pc' = [pc EXCEPT ![w] = l] /\ refs' = [refs EXCEPT ![w] = {}]
    BY <1>10 DEF TrySample, TryCleanup, Take, Goto, jobVars
  <2>2. ~ Merging(w)
    BY <2>0 DEF Merging
  <2> QED
    BY <1>1, <1>2, <2>0, <2>1, <2>2
<1>11. CASE Finish(w) \/ PushAll(w)
  <2>1. UNCHANGED <<status, mergeQ, enforceQ>> /\ ~ Merging(w)
    BY <1>11 DEF Finish, PushAll, taskVars, Merging
  <2>2. \E l \in {"push_all", "try"} :
          pc' = [pc EXCEPT ![w] = l] /\ refs' = [refs EXCEPT ![w] = {}]
    BY <1>11 DEF Finish, PushAll, Again, Goto
  <2> QED
    BY <1>1, <2>1, <2>2
<1> QED
  BY <1>4, <1>5, <1>6, <1>7, <1>8, <1>9, <1>10, <1>11, MergeLockTasks, MergeRemoveTasks DEF Run

LEMMA TInvKept ==
  ASSUME PlacesOK, MoreTypes, TInv, [Next]_vars
  PROVE  TInv'
<1>1. ASSUME NEW w \in Worker, Derive(w) PROVE TInv'
  BY <1>1, DeriveFactTasks, DeriveEqualTasks, InsertObTasks DEF Derive
<1>2. CASE UNCHANGED <<status, mergeQ, enforceQ, pc, refs>>
  BY <1>2, QuietTasks
<1> QED
  BY <1>1, <1>2, TaskStep DEF Next, Deadline, Joined, vars, taskVars, jobVars

LEMMA InitTInv == Init => TInv
<1> SUFFICES ASSUME Init PROVE TInv
  OBVIOUS
<1>1. \A w \in Worker : pc[w] = "start" /\ refs[w] = {}
  BY DEF Init
<1>2. LocksHeld /\ RefsInPlace /\ MergeTaken /\ MergeTakenOnce
  BY <1>1 DEF LocksHeld, RefsInPlace, MergeTaken, MergeTakenOnce, Locking, Merging
<1>3. mergeQ = <<>> /\ \A x \in Ob : status[x] # "dep"
  BY DEF Init
<1>4. MergeQueued /\ MergeQueuedOnce /\ EveryDep
  BY <1>3 DEF MergeQueued, MergeQueuedOnce, EveryDep
<1>5. TasksLive
  <2>1. PICK S \in SUBSET Roots :
          enforceQ = [q \in Queue |->
                     IF q = Head(QueueOrder) /\ phase # "survey" /\ S # {}
                     THEN <<S>> ELSE <<>>]
    BY DEF Init
  <2>2. S \subseteq Live
    BY DEF Roots, Live
  <2> QED
    BY <2>1, <2>2 DEF TasksLive
<1> QED
  BY <1>2, <1>4, <1>5 DEF TInv

\* No task, queued or running, refers to an ob that was removed, and none is
\* removed twice, whatever the tasks derive and however the workers interleave.
THEOREM TasksNeverStale == Spec => []NoStaleTask
<1>1. MoreTypes /\ TInv => NoStaleTask
  <2> SUFFICES ASSUME MoreTypes, TInv PROVE NoStaleTask
    OBVIOUS
  <2>1. \A w \in Worker : refs[w] \subseteq Live
    <3>1. \A w \in Worker : Merging(w) => refs[w] \subseteq Live
      BY DEF TInv, MergeTaken, Live
    <3> QED
      BY <3>1 DEF TInv, RefsInPlace, Merging
  <2>2. \A w \in Worker : pc[w] \in {"merge_wait", "merge"} =>
          \A x \in refs[w] : status[x] = "dep"
    BY DEF TInv, MergeTaken, Merging
  <2> QED
    BY <2>1, <2>2 DEF TInv, NoStaleTask, TasksLive, MergeQueued
<1>2. IInv /\ MoreTypes /\ TInv /\ [Next]_vars => (MoreTypes /\ TInv)'
  BY MoreTypesKept, TInvKept DEF IInv
<1> QED
  BY <1>1, <1>2, InitIInv, NextIInv, InitMoreTypes, InitTInv, PTL DEF Spec

-----------------------------------------------------------------------------
(* The cleanup types that are due will be run.                             *)

LEMMA PoppingMoves ==
  ASSUME PlacesOK, NEW w \in Worker, NEW l, pc' = [pc EXCEPT ![w] = l]
  PROVE  /\ l # "clean_type" /\ pc[w] # "clean_type" => Popping' = Popping
         /\ l = "clean_type" /\ pc[w] # "clean_type" =>
              Cardinality(Popping') = Cardinality(Popping) + 1
         /\ l # "clean_type" /\ pc[w] = "clean_type" =>
              Cardinality(Popping') = Cardinality(Popping) - 1
<1>1. IsFiniteSet(Popping)
  BY SchedulerAssumption, FS_Subset DEF Popping
<1>2. /\ \A v \in Worker \ {w} : v \in Popping' <=> v \in Popping
      /\ w \in Popping' <=> l = "clean_type"
      /\ w \in Popping <=> pc[w] = "clean_type"
      /\ Popping' \subseteq Worker /\ Popping \subseteq Worker
  BY DEF Popping, PlacesOK
<1>3. ASSUME l = "clean_type", pc[w] # "clean_type"
      PROVE  Cardinality(Popping') = Cardinality(Popping) + 1
  <2>1. Popping' = Popping \cup {w} /\ w \notin Popping
    BY <1>2, <1>3
  <2>2. Cardinality(Popping \cup {w}) = Cardinality(Popping) + 1
    BY <1>1, <2>1, FS_AddElement
  <2> QED
    BY <2>1, <2>2
<1>4. ASSUME l # "clean_type", pc[w] = "clean_type"
      PROVE  Cardinality(Popping') = Cardinality(Popping) - 1
  <2>1. Popping' = Popping \ {w} /\ w \in Popping
    BY <1>2, <1>4
  <2>2. Cardinality(Popping \ {w}) = Cardinality(Popping) - 1
    BY <1>1, <2>1, FS_RemoveElement
  <2> QED
    BY <2>1, <2>2
<1> QED
  BY <1>2, <1>3, <1>4

LEMMA PoppingCount == Cardinality(Popping) \in Nat
BY SchedulerAssumption, FS_Subset, FS_CardinalityType DEF Popping

LEMMA AheadRange ==
  ASSUME type \in Type, NEW y \in Type
  PROVE  Ahead(y) \in Nat /\ Ahead(y) < TypeCount
BY SchedulerAssumption DEF Ahead, Type

\* A step of the worker w that takes no type and after which no more is due.
LEMMA QuietCleanup ==
  ASSUME CleanupComes, UNCHANGED cleanupVars, Popping' = Popping,
         \A v \in Worker : pc[v] = "push_all" => pc'[v] = "push_all"
  PROVE  CleanupComes'
<1>1. \A y : Ahead(y)' = Ahead(y)
  BY DEF Ahead, cleanupVars
<1> QED
  BY <1>1 DEF CleanupComes, cleanupVars

LEMMA QuietMove ==
  ASSUME PlacesOK, CleanupComes, UNCHANGED cleanupVars, NEW w \in Worker,
         NEW l, pc' = [pc EXCEPT ![w] = l], l # "clean_type",
         pc[w] \notin {"clean_type", "push_all"}
  PROVE  CleanupComes'
<1>1. Popping' = Popping
  BY PoppingMoves
<1>2. \A v \in Worker : pc[v] = "push_all" => pc'[v] = "push_all"
  BY DEF PlacesOK
<1> QED
  BY <1>1, <1>2, QuietCleanup

LEMMA TryCleanupComes ==
  ASSUME PlacesOK, MoreTypes, CleanupComes, NEW w \in Worker, TryCleanup(w)
  PROVE  CleanupComes'
<1>1. CASE AllClean \/ late
  <2>1. UNCHANGED cleanupVars /\ Pass(w) /\ pc[w] = "try"
    BY <1>1 DEF TryCleanup, AtStep, cleanupVars
  <2>2. CASE pc' = pc
    BY <2>1, <2>2, QuietCleanup DEF Popping
  <2>3. CASE pc' # pc
    BY <2>1, <2>3, QuietMove DEF Pass, Goto
  <2> QED
    BY <2>2, <2>3
<1>2. CASE ~ (AllClean \/ late)
  <2>1. /\ pc[w] = "try" /\ pc' = [pc EXCEPT ![w] = "clean_type"]
        /\ done' = done + 1 /\ type' = type /\ due' = due
    BY <1>2 DEF TryCleanup, AtStep, Take, Goto
  <2>2. Cardinality(Popping') = Cardinality(Popping) + 1
    BY <2>1, PoppingMoves
  <2>3. \A y : Ahead(y)' = Ahead(y)
    BY <2>1 DEF Ahead
  <2>4. TypeCount - done' + Cardinality(Popping') = TypeCount - done + Cardinality(Popping)
    BY <2>1, <2>2, PoppingCount, SchedulerAssumption DEF MoreTypes
  <2>5. \A v \in Worker : pc[v] = "push_all" => pc'[v] = "push_all"
    BY <2>1 DEF PlacesOK
  <2> QED
    BY <2>1, <2>3, <2>4, <2>5 DEF CleanupComes
<1> QED
  BY <1>1, <1>2

\* The type that was the next one is not due any more, and the others are one
\* closer.
LEMMA CleanupTypeComes ==
  ASSUME PlacesOK, MoreTypes, CleanupComes, NEW w \in Worker, CleanupType(w)
  PROVE  CleanupComes'
<1>1. /\ pc[w] = "clean_type" /\ pc' = [pc EXCEPT ![w] = "exec_wait"]
      /\ type' = (type + 1) % TypeCount /\ due' = due \ {type} /\ done' = done
  BY DEF CleanupType, Goto
<1>2. Cardinality(Popping') = Cardinality(Popping) - 1
  <2>1. pc[w] = "clean_type" /\ pc' = [pc EXCEPT ![w] = "exec_wait"]
    BY <1>1
  <2>2. "exec_wait" # "clean_type"
    OBVIOUS
  <2>3. PICK l : l = "exec_wait"
    OBVIOUS
  <2>4. pc' = [pc EXCEPT ![w] = l] /\ l # "clean_type" /\ pc[w] = "clean_type"
    BY <2>1, <2>2, <2>3
  <2> QED
    BY <2>4, PoppingMoves
<1>3. \A v \in Worker : pc[v] = "push_all" => pc'[v] = "push_all"
  BY <1>1 DEF PlacesOK
<1>4. ASSUME NEW y \in due', Ahead(y) < TypeCount - done + Cardinality(Popping)
      PROVE  Ahead(y)' < TypeCount - done' + Cardinality(Popping')
  <2>1. y \in Type /\ y # type /\ type \in Type
    BY <1>1 DEF MoreTypes
  <2>2. type' = IF type + 1 = TypeCount THEN 0 ELSE type + 1
    BY <1>1, <2>1, NextType
  <2>3. Ahead(y)' = Ahead(y) - 1
    BY <2>1, <2>2, SchedulerAssumption DEF Ahead, Type
  <2>4. Ahead(y) \in Nat
    BY <2>1, AheadRange
  <2>5. done \in Nat /\ TypeCount \in Nat
    BY SchedulerAssumption DEF MoreTypes
  <2> QED
    BY <1>1, <1>2, <1>4, <2>3, <2>4, <2>5, PoppingCount
<1>5. \A y \in due' : y \in due
  BY <1>1
<1>6. CASE \E v \in Worker : pc[v] = "push_all"
  BY <1>3, <1>6 DEF CleanupComes
<1>7. CASE \A y \in due : Ahead(y) < TypeCount - done + Cardinality(Popping)
  <2>1. \A y \in due' : Ahead(y)' < TypeCount - done' + Cardinality(Popping')
    BY <1>4, <1>5, <1>7
  <2> QED
    BY <2>1 DEF CleanupComes
<1> QED
  BY <1>6, <1>7 DEF CleanupComes

LEMMA FinishComes ==
  ASSUME PlacesOK, CleanupComes, NEW w \in Worker, Finish(w)
  PROVE  CleanupComes'
<1>1. CASE Recleans(w)
  <2>1. pc' = [pc EXCEPT ![w] = "push_all"]
    BY <1>1 DEF Finish, Goto
  <2>2. pc'[w] = "push_all"
    BY <2>1 DEF PlacesOK
  <2> QED
    BY <2>2 DEF CleanupComes
<1>2. CASE ~ Recleans(w)
  <2>1. ~ Disturbs(w)
    <3>1. SUFFICES ASSUME Disturbs(w) PROVE FALSE
      OBVIOUS
    <3>2. PICK v \in Worker : v # w
      BY <3>1 DEF Disturbs
    <3>3. Cardinality({w}) = 1 /\ Cardinality({w} \cup {v}) = Cardinality({w}) + 1
      BY <3>2, FS_Singleton, FS_AddElement
    <3>4. Cardinality({w} \cup {v}) <= Cardinality(Worker) /\ Cardinality(Worker) \in Nat
      BY <3>2, SchedulerAssumption, FS_Subset, FS_CardinalityType
    <3>5. Cardinality(Worker) > 1
      BY <3>3, <3>4
    <3> QED
      BY <1>2, <3>1, <3>5 DEF Disturbs, Recleans
  <2>2. /\ UNCHANGED cleanupVars /\ pc[w] = "exec" /\ pc' = [pc EXCEPT ![w] = "try"]
    BY <1>2, <2>1 DEF Finish, Again, Goto, cleanupVars
  <2> QED
    BY <2>2, QuietMove
<1> QED
  BY <1>1, <1>2

\* Everything due is within a full round from here.
LEMMA PushAllComes ==
  ASSUME MoreTypes, NEW w \in Worker, PushAll(w)
  PROVE  CleanupComes'
<1>1. done' = 0 /\ type' = type /\ due' = due
  BY DEF PushAll
<1>2. Cardinality(Popping)' \in Nat
  BY SchedulerAssumption, FS_Subset, FS_CardinalityType DEF Popping
<1>3. \A y \in due' : Ahead(y)' \in Nat /\ Ahead(y)' < TypeCount
  BY <1>1, SchedulerAssumption DEF MoreTypes, Ahead, Type
<1> QED
  BY <1>1, <1>2, <1>3, SchedulerAssumption DEF CleanupComes

LEMMA CleanupKept ==
  ASSUME PlacesOK, MoreTypes, CleanupComes, [Next]_vars
  PROVE  CleanupComes'
<1>1. ASSUME NEW w \in Worker, Run(w) PROVE CleanupComes'
  <2>1. CASE TryCleanup(w) \/ CleanupType(w) \/ Finish(w) \/ PushAll(w)
    BY <2>1, TryCleanupComes, CleanupTypeComes, FinishComes, PushAllComes
  <2>2. CASE NotifyAll(w)
    <3>1. UNCHANGED cleanupVars
      BY <2>2 DEF NotifyAll
    <3>2. \A v \in Worker : \/ pc'[v] = pc[v]
                            \/ pc'[v] = "check" /\ pc[v] \in {"notify", "waiting"}
      BY <2>2 DEF NotifyAll
    <3>3. Popping' = Popping
      BY <3>2 DEF Popping
    <3> QED
      BY <3>1, <3>2, <3>3, QuietCleanup
  <2>3. CASE ~ (TryCleanup(w) \/ CleanupType(w) \/ Finish(w) \/ PushAll(w) \/ NotifyAll(w))
    <3>1. UNCHANGED cleanupVars /\ pc[w] \notin {"clean_type", "push_all"}
      BY <1>1, <2>3 DEF Run, Start, CheckFlag, Enter, Leave, Wait, Timeout, Stop,
         TryMerge, TryEnforce, TryAssume, TrySample, ExecLock, MergeLock, MergeRemove,
         MergeNext, AtStep
    <3>2. \/ pc' = pc
          \/ \E l \in {"check", "enter", "done", "try", "wait", "last", "waiting", "notify",
                       "leave", "merge_wait", "exec_wait", "exec", "merge", "merge_next"} :
               pc' = [pc EXCEPT ![w] = l]
      BY <1>1, <2>3 DEF Run, Start, CheckFlag, Enter, Leave, Wait, Timeout, Stop,
         TryMerge, TryEnforce, TryAssume, TrySample, ExecLock, MergeLock, MergeRemove,
         MergeNext, Pass, Take, Again, Goto
    <3>3. CASE pc' = pc
      BY <3>1, <3>3, QuietCleanup DEF Popping
    <3> QED
      BY <3>1, <3>2, <3>3, QuietMove
  <2> QED
    BY <2>1, <2>2, <2>3
<1>2. ASSUME NEW w \in Worker, Derive(w) PROVE CleanupComes'
  <2>1. UNCHANGED cleanupVars /\ NotifyOne
    BY <1>2 DEF Derive, DeriveFact, DeriveEqual, InsertOb
  <2>2. CASE pc' = pc
    BY <2>1, <2>2, QuietCleanup DEF Popping
  <2>3. CASE pc' # pc
    <3>1. PICK v \in Worker : pc[v] = "waiting" /\ pc' = [pc EXCEPT ![v] = "check"]
      BY <2>1, <2>3 DEF NotifyOne, Goto
    <3> QED
      BY <2>1, <3>1, QuietMove
  <2> QED
    BY <2>2, <2>3
<1>3. CASE UNCHANGED <<cleanupVars, pc>>
  BY <1>3, QuietCleanup DEF Popping
<1> QED
  BY <1>1, <1>2, <1>3 DEF Next, Deadline, Joined, vars

LEMMA InitCleanupComes == Init => CleanupComes
<1> SUFFICES ASSUME Init PROVE CleanupComes
  OBVIOUS
<1>1. type \in Type /\ \A y \in due : y \in Type /\ done = 0
  BY DEF Init
<1>2. \A y \in due : Ahead(y) \in Nat /\ Ahead(y) < TypeCount
  BY <1>1, AheadRange
<1> QED
  BY <1>1, <1>2, PoppingCount, SchedulerAssumption DEF CleanupComes

\* When the threads are joined no task is left, every merged ob is gone, and
\* every cleanup type was run after the last task, unless the deadline passed.
THEOREM WorkersQuitDone == Spec => []QuitsWhenDone
<1>1. PlacesOK /\ IInv /\ MoreTypes /\ TInv /\ CleanupComes => QuitsWhenDone
  <2> SUFFICES ASSUME PlacesOK, IInv, MoreTypes, TInv, CleanupComes, AllQuit
               PROVE  /\ \A i \in 1 .. Len(Steps) : ~ HasWork(Steps[i])
                      /\ \A x \in Ob : status[x] # "dep"
                      /\ due = {} \/ late
    BY DEF QuitsWhenDone
  <2>1. \A i \in 1 .. Len(Steps) : ~ HasWork(Steps[i])
    <3>1. Worker # {}
      BY SchedulerAssumption
    <3>2. ~ NobodyLookedYet
      BY <3>1 DEF AllQuit, NobodyLookedYet
    <3>3. \A w \in Worker, i \in 1 .. Len(Steps) : ~ Responsible(w, i)
      BY DEF AllQuit, Responsible
    <3> QED
      BY <3>2, <3>3 DEF IInv, WorkHasWorker
  <2>2. ~ HasWork("merge") /\ ~ HasWork("cleanup")
    BY <2>1, StepsNotEmpty
  <2>3. \A x \in Ob : status[x] # "dep"
    <3>1. mergeQ = <<>>
      BY <2>2 DEF HasWork
    <3>2. \A x \in Ob : ~ InMergeQ(x)
      BY <3>1 DEF InMergeQ
    <3>3. \A w \in Worker : ~ Merging(w)
      BY DEF AllQuit, Merging
    <3> QED
      BY <3>2, <3>3 DEF TInv, EveryDep
  <2>4. ASSUME ~ late PROVE due = {}
    <3>1. done = TypeCount
      BY <2>2, <2>4 DEF HasWork, AllClean
    <3>2. Popping = {} /\ ~ \E w \in Worker : pc[w] = "push_all"
      BY DEF AllQuit, Popping
    <3>3. Cardinality(Popping) = 0
      BY <3>2, FS_EmptySet
    <3>4. \A y \in due : Ahead(y) < TypeCount - done + Cardinality(Popping)
      BY <3>2 DEF CleanupComes
    <3>5. \A y \in due : Ahead(y) \in Nat
      BY AheadRange DEF MoreTypes
    <3> QED
      BY <3>1, <3>3, <3>4, <3>5, SchedulerAssumption
  <2> QED
    BY <2>1, <2>3, <2>4
<1>2. IInv => PlacesOK
  BY DEF IInv
<1>3. IInv /\ MoreTypes /\ TInv /\ CleanupComes /\ [Next]_vars
        => (MoreTypes /\ TInv /\ CleanupComes)'
  BY <1>2, MoreTypesKept, TInvKept, CleanupKept
<1> QED
  BY <1>1, <1>2, <1>3, InitIInv, NextIInv, InitMoreTypes, InitTInv, InitCleanupComes, PTL DEF Spec

=============================================================================
