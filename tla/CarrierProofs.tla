---------------------------- MODULE CarrierProofs ----------------------------
(***************************************************************************)
(* Theorems about the carrier, for every number of slots, threads and      *)
(* cells, and about what it counts: the MergeTasks of an ob, and the obs   *)
(* and representatives that the two atomic counters stand for.             *)
(***************************************************************************)
EXTENDS Carrier, FiniteSetTheorems, WellFoundedInduction, TLAPS

-----------------------------------------------------------------------------
(* The helper operators.                                                   *)

\* The lower of two obs is one of them, and the higher is the other.
LEMMA LowerHigher ==
  ASSUME NEW x \in Int, NEW y \in Int
  PROVE  /\ LowerOf(x, y) \in {x, y} /\ LowerOf(x, y) <= x /\ LowerOf(x, y) <= y
         /\ HigherOf(x, y) \in {x, y}
         /\ {HigherOf(x, y), LowerOf(x, y)} = {x, y}
         /\ x # y => LowerOf(x, y) < HigherOf(x, y)
BY DEF LowerOf, HigherOf

\* A nonempty set of obs has a least member: Innermost is well defined.
LEMMA Least ==
  ASSUME NEW S \in SUBSET Ob, S # {}
  PROVE  \E x \in S : \A y \in S : x <= y
<1>1. S \subseteq Nat
  BY CarrierAssumption DEF Ob
<1>2. PICK x \in S : \A y \in S : ~ (<<y, x>> \in OpToRel(<, Nat))
  BY <1>1, WFMin, NatLessThanWellFounded
<1>3. ASSUME NEW y \in S PROVE x <= y
  <2>1. ~ (y < x)
    BY <1>1, <1>2 DEF OpToRel
  <2> QED BY <2>1, <1>1
<1> QED BY <1>3

LEMMA InnermostIsLeast ==
  ASSUME NEW t \in Thread, path[t] \in SUBSET Ob, path[t] # {}
  PROVE  Innermost(t) \in path[t] /\ \A y \in path[t] : Innermost(t) <= y
BY Least DEF Innermost

-----------------------------------------------------------------------------
(* Type correctness.                                                       *)

LEMMA InitTypeOK == Init => TypeOK
<1> SUFFICES ASSUME Init PROVE TypeOK
  OBVIOUS
<1>1. IsFiniteSet(Ob)
  BY FS_Interval, CarrierAssumption DEF Ob
<1>2. Cardinality(support) \in Int
  BY <1>1, FS_Subset, FS_CardinalityType DEF Init
<1>0. Ob \subseteq Rep /\ 0 \in Rep
  BY CarrierAssumption DEF Ob, Rep
<1>3. reps \in [Ob -> Rep]
  BY <1>0 DEF Init
<1>4. support \subseteq Ob /\ itemCount \in Int /\ repCount \in Int
  BY <1>2 DEF Init
<1>5. pending \in [Ob -> Nat] /\ cells \in [Cell -> Rep] /\ task \in Rep
  BY <1>0 DEF Init
<1>6. todo \subseteq Cell /\ pc \in [Thread -> Labels]
  BY DEF Init, Labels
<1>7. /\ ob \in [Thread -> Rep] /\ val \in [Thread -> Rep]
      /\ dep \in [Thread -> Rep] /\ rep \in [Thread -> Rep]
      /\ old \in [Thread -> Rep] /\ src \in [Thread -> Rep]
  BY <1>0 DEF Init
<1>8. /\ path \in [Thread -> SUBSET Ob]
      /\ at \in [Thread -> Cell \cup {NoCell}]
      /\ req \in [Thread -> Rep \X Rep]
  BY <1>0 DEF Init
<1> QED
  BY <1>3, <1>4, <1>5, <1>6, <1>7, <1>8 DEF TypeOK, Init

-----------------------------------------------------------------------------
(***************************************************************************)
(* The inductive invariant.  The safety properties say what must hold of   *)
(* the classes; they are kept by every step only together with the facts   *)
(* below about where the classes, the threads and the merge tasks are.     *)
(***************************************************************************)

\* A class is named by its least member; only claimed slots are published.
ClassesNamed ==
  /\ support \subseteq Claimed
  /\ \A x \in Claimed : cls[x] \in Claimed /\ cls[x] <= x /\ cls[cls[x]] = cls[x]

\* An ob is queued, announced or treated by at most one MergeTask at a time,
\* and only after it was merged into another.
DueOnce ==
  /\ \A x \in Ob : pending[x] > 0 =>
       pending[x] = 1 /\ reps[x] \notin {0, x} /\ task # x
  /\ task # 0 => reps[task] \notin {0, task}
  /\ \A t \in Thread : pc[t] = "merge_sched" =>
       /\ dep[t] \in Ob /\ pending[dep[t]] = 0 /\ task # dep[t]
       /\ \A u \in Thread : pc[u] = "merge_sched" /\ dep[u] = dep[t] => u = t

\* The cells that a MergeTask has treated do not hold its dep any more.
Treated ==
  /\ task = 0 => todo = {}
  /\ task # 0 => \A c \in Cell \ todo : cells[c] # task

\* Which variables of a thread are in use at which label; a MergeTask looks up
\* its dep for the cells, an operation for a cell runs outside of MergeTasks.
InPlace(t) ==
  /\ pc[t] = "ins_cas" => ob[t] \in Ob
  /\ pc[t] = "ins_support" => ob[t] \in Claimed
  /\ pc[t] \in {"idle", "ins_check", "ins_cas", "ins_support", "ins_item",
                "ins_rep"} => at[t] = NoCell
  /\ pc[t] = "set_cas" => at[t] # NoCell
  /\ pc[t] \notin {"find_load", "find_cas"} => path[t] = {}
  /\ at[t] = NoCell => old[t] = 0
  /\ at[t] # NoCell =>
       IF task = 0
       THEN pc[t] \notin {"find_load", "find_cas"}
       ELSE /\ pc[t] \in {"find_load", "find_cas"}
            /\ req[t][1] = task
            /\ req[t][2] < task

\* What holds of the shared variables, and of each thread.
SharedInv ==
  /\ ChainsDescend
  /\ ClassesAsRequested
  /\ ClassesNamed
  /\ \A c \in Cell : cells[c] \in Claimed \cup {0}
  /\ DueOnce
  /\ Treated

ThreadInv(t) == FindKept(t) /\ MergeKept(t) /\ SetKept(t) /\ InPlace(t)

IInv == TypeOK /\ SharedInv /\ \A t \in Thread : ThreadInv(t)

-----------------------------------------------------------------------------
(***************************************************************************)
(* What a step of one thread leaves to the others: classes only grow, and  *)
(* a cell's value is only replaced by one of its class.                    *)
(***************************************************************************)
Grows ==
  /\ task' = task
  /\ \A x \in Claimed : x \in Claimed' /\ cls'[x] <= cls[x]
                        /\ (reps[x] < x => reps'[x] < x)
  /\ \A x, y \in Claimed : cls[x] = cls[y] => cls'[x] = cls'[y]
  /\ \A c \in Cell : cells[c] # 0 =>
       /\ cells'[c] \in Claimed'
       /\ task = 0 => cls'[cells'[c]] = cls'[cells[c]]

\* The variables of a thread.
Local(t) ==
  <<pc[t], ob[t], val[t], path[t], dep[t], rep[t], old[t], src[t], at[t], req[t]>>

LEMMA ObsAreReps == Ob \subseteq Rep /\ 0 \in Rep /\ Rep \subseteq Int /\ 0 \notin Ob
BY CarrierAssumption DEF Ob, Rep

LEMMA ClaimedType ==
  ASSUME TypeOK
  PROVE  /\ Claimed \subseteq Ob
         /\ \A x \in Claimed : x \in Int /\ cls[x] \in Int /\ reps[x] \in Int
         /\ \A x : x \in Claimed <=> x \in Ob /\ reps[x] # 0
BY ObsAreReps DEF Claimed, TypeOK

LEMMA OthersKeep ==
  ASSUME IInv, TypeOK', Grows, NEW u \in Thread, UNCHANGED Local(u)
  PROVE  ThreadInv(u)'
<1> USE DEF ThreadInv
<1>1. /\ pc'[u] = pc[u] /\ ob'[u] = ob[u] /\ val'[u] = val[u] /\ path'[u] = path[u]
      /\ dep'[u] = dep[u] /\ rep'[u] = rep[u] /\ old'[u] = old[u]
      /\ src'[u] = src[u] /\ at'[u] = at[u] /\ req'[u] = req[u]
  BY DEF Local
<1>2. /\ \A x \in Claimed : x \in Int /\ cls[x] \in Int /\ cls'[x] \in Int
      /\ req[u][2] \in Int /\ at[u] \in Cell \cup {NoCell} /\ 0 \notin Claimed
  BY ClaimedType, ObsAreReps DEF IInv, TypeOK, Claimed
<1>3. FindKept(u)'
  BY <1>1, <1>2 DEF IInv, Grows, FindKept
<1>4. MergeKept(u)'
  BY <1>1, <1>2 DEF IInv, Grows, MergeKept, SamePair
<1>5. SetKept(u)'
  BY <1>1, <1>2 DEF IInv, SharedInv, Grows, SetKept
<1>6. InPlace(u)'
  BY <1>1, <1>2 DEF IInv, Grows, InPlace
<1> QED
  BY <1>3, <1>4, <1>5, <1>6

\* A step that leaves the carrier, the cells and the MergeTasks alone.
LEMMA SameGrows ==
  ASSUME IInv, UNCHANGED <<reps, cls, cells, task>>
  PROVE  Grows /\ Claimed' = Claimed
<1>1. Claimed' = Claimed
  BY DEF Claimed
<1>2. \A x \in Claimed : cls[x] \in Int
  BY ClaimedType DEF IInv
<1> QED
  BY <1>1, <1>2 DEF Grows, IInv, SharedInv

\* A step of t that keeps the shared part and what t promises keeps it all.
LEMMA ThreadStep ==
  ASSUME IInv, TypeOK', SharedInv', Grows, NEW t \in Thread, ThreadInv(t)',
         \A u \in Thread \ {t} : UNCHANGED Local(u)
  PROVE  IInv'
<1>1. ASSUME NEW u \in Thread PROVE ThreadInv(u)'
  <2>1. CASE u = t
    BY <2>1
  <2>2. CASE u # t
    BY <2>2, OthersKeep
  <2> QED
    BY <2>1, <2>2
<1> QED
  BY <1>1 DEF IInv

\* A step of t that changes no more than its own variables, the published obs
\* and the counters.
LEMMA LocalStep ==
  ASSUME IInv, TypeOK', NEW t \in Thread, ThreadInv(t)',
         UNCHANGED <<reps, cls, cells, task, todo, pending>>,
         support' \subseteq Claimed, pc'[t] # "merge_sched",
         \A u \in Thread \ {t} : UNCHANGED Local(u)
  PROVE  IInv'
<1>1. Grows /\ Claimed' = Claimed
  BY SameGrows
<1>2. \A u \in Thread : pc'[u] = "merge_sched" => pc[u] = "merge_sched" /\ dep'[u] = dep[u]
  BY DEF Local
<1>3. ChainsDescend' /\ ClassesAsRequested' /\ ClassesNamed'
  BY <1>1 DEF IInv, SharedInv, ChainsDescend, ClassesAsRequested, ClassesNamed
<1>4. DueOnce'
  BY <1>2 DEF IInv, SharedInv, DueOnce
<1>5. Treated' /\ \A c \in Cell : cells'[c] \in Claimed' \cup {0}
  BY <1>1 DEF IInv, SharedInv, Treated
<1>6. SharedInv'
  BY <1>3, <1>4, <1>5 DEF SharedInv
<1> QED
  BY <1>1, <1>6, ThreadStep

\* Nothing is promised of an idle thread but that it is idle.
LEMMA ReturnStep ==
  ASSUME IInv, NEW t \in Thread, Return(t), path[t] = {}
  PROVE  /\ pc'[t] = "idle"
         /\ ThreadInv(t)'
         /\ \A u \in Thread \ {t} : UNCHANGED Local(u)
<1>1. /\ pc'[t] = "idle" /\ at'[t] = NoCell /\ old'[t] = 0 /\ path'[t] = {}
  BY DEF Return, Goto, IInv, TypeOK
<1>2. FindKept(t)' /\ MergeKept(t)' /\ SetKept(t)' /\ InPlace(t)'
  BY <1>1 DEF FindKept, MergeKept, SetKept, InPlace
<1>3. ASSUME NEW u \in Thread \ {t} PROVE UNCHANGED Local(u)
  BY DEF Return, Goto, IInv, TypeOK, Local
<1> QED
  BY <1>1, <1>2, <1>3 DEF ThreadInv

LEMMA ReturnType ==
  ASSUME TypeOK, NEW t \in Thread, Return(t)
  PROVE  /\ pc' \in [Thread -> Labels]
         /\ ob' \in [Thread -> Rep] /\ val' \in [Thread -> Rep]
         /\ path' \in [Thread -> SUBSET Ob]
         /\ dep' \in [Thread -> Rep] /\ rep' \in [Thread -> Rep]
         /\ old' \in [Thread -> Rep] /\ src' \in [Thread -> Rep]
         /\ at' \in [Thread -> Cell \cup {NoCell}]
         /\ req' \in [Thread -> Rep \X Rep]
BY ObsAreReps DEF TypeOK, Return, Goto, Labels

-----------------------------------------------------------------------------
(* The steps of try_insert.                                                *)

LEMMA StartInsertKeeps ==
  ASSUME IInv, NEW t \in Thread, StartInsert(t)
  PROVE  IInv'
<1> USE DEF StartInsert, Goto, carrierVars, taskVars, findVars, mergeVars, setVars, callVars
<1>1. TypeOK'
  BY DEF IInv, TypeOK, Labels
<1>2. \A u \in Thread \ {t} : UNCHANGED Local(u)
  BY DEF Local, IInv, TypeOK
<1>3. pc'[t] = "ins_check"
  BY DEF IInv, TypeOK
<1>4. ThreadInv(t)'
  BY <1>3 DEF IInv, ThreadInv, FindKept, MergeKept, SetKept, InPlace
<1> QED
  BY <1>1, <1>2, <1>3, <1>4, LocalStep DEF IInv, SharedInv, ClassesNamed

LEMMA InsertCheckKeeps ==
  ASSUME IInv, NEW t \in Thread, InsertCheck(t)
  PROVE  IInv'
<1> USE DEF InsertCheck, Goto, carrierVars, taskVars, findVars, mergeVars, setVars, callVars
<1>1. CASE SlotsLeft
  <2>0. 1 \in Ob /\ 1 \in Rep
    BY CarrierAssumption DEF Ob, Rep
  <2>1. TypeOK'
    BY <1>1, <2>0 DEF IInv, TypeOK, Labels
  <2>2. \A u \in Thread \ {t} : UNCHANGED Local(u)
    BY <1>1 DEF Local, IInv, TypeOK
  <2>3. pc'[t] = "ins_cas" /\ ob'[t] \in Ob
    BY <1>1, <2>0 DEF IInv, TypeOK
  <2>4. ThreadInv(t)'
    BY <1>1, <2>3 DEF IInv, ThreadInv, FindKept, MergeKept, SetKept, InPlace
  <2> QED
    BY <2>1, <2>2, <2>3, <2>4, LocalStep DEF IInv, SharedInv, ClassesNamed
<1>2. CASE ~ SlotsLeft
  <2>1. Return(t) /\ path[t] = {}
    BY <1>2 DEF IInv, ThreadInv, InPlace
  <2>2. TypeOK'
    BY <2>1, ReturnType DEF IInv, TypeOK
  <2> QED
    BY <2>1, <2>2, ReturnStep, LocalStep DEF IInv, SharedInv, ClassesNamed
<1> QED
  BY <1>1, <1>2

LEMMA InsertSupportKeeps ==
  ASSUME IInv, NEW t \in Thread, InsertSupport(t)
  PROVE  IInv'
<1> USE DEF InsertSupport, Goto, carrierVars, taskVars, findVars, mergeVars, setVars, callVars
<1>1. ob[t] \in Claimed
  BY DEF IInv, ThreadInv, InPlace
<1>2. TypeOK'
  BY <1>1, ClaimedType DEF IInv, TypeOK, Labels
<1>3. \A u \in Thread \ {t} : UNCHANGED Local(u)
  BY DEF Local, IInv, TypeOK
<1>4. pc'[t] = "ins_item"
  BY DEF IInv, TypeOK
<1>5. ThreadInv(t)'
  BY <1>4 DEF IInv, ThreadInv, FindKept, MergeKept, SetKept, InPlace
<1> QED
  BY <1>1, <1>2, <1>3, <1>4, <1>5, LocalStep DEF IInv, SharedInv, ClassesNamed

LEMMA InsertItemCountKeeps ==
  ASSUME IInv, NEW t \in Thread, InsertItemCount(t)
  PROVE  IInv'
<1> USE DEF InsertItemCount, Goto, carrierVars, taskVars, findVars, mergeVars, setVars, callVars
<1>1. TypeOK'
  BY DEF IInv, TypeOK, Labels
<1>2. \A u \in Thread \ {t} : UNCHANGED Local(u)
  BY DEF Local, IInv, TypeOK
<1>3. pc'[t] = "ins_rep"
  BY DEF IInv, TypeOK
<1>4. ThreadInv(t)'
  BY <1>3 DEF IInv, ThreadInv, FindKept, MergeKept, SetKept, InPlace
<1> QED
  BY <1>1, <1>2, <1>3, <1>4, LocalStep DEF IInv, SharedInv, ClassesNamed

LEMMA InsertRepCountKeeps ==
  ASSUME IInv, NEW t \in Thread, InsertRepCount(t)
  PROVE  IInv'
<1> USE DEF InsertRepCount, carrierVars, taskVars
<1>1. Return(t) /\ path[t] = {}
  BY DEF IInv, ThreadInv, InPlace
<1>2. TypeOK'
  BY <1>1, ReturnType DEF IInv, TypeOK
<1> QED
  BY <1>1, <1>2, ReturnStep, LocalStep DEF IInv, SharedInv, ClassesNamed

LEMMA InsertCasKeeps ==
  ASSUME IInv, NEW t \in Thread, InsertCas(t)
  PROVE  IInv'
<1> USE DEF InsertCas, Goto, carrierVars, taskVars, findVars, mergeVars, setVars, callVars
<1>1. ob[t] \in Ob
  BY DEF IInv, ThreadInv, InPlace
<1>2. CASE reps[ob[t]] = 0
  <2> DEFINE x == ob[t]
  <2>1. /\ reps' = [reps EXCEPT ![x] = x] /\ cls' = [cls EXCEPT ![x] = x]
        /\ pc' = [pc EXCEPT ![t] = "ins_support"]
        /\ UNCHANGED <<support, pending, cells, task, todo, ob, val, path, dep,
                       rep, old, src, at, req>>
    BY <1>2
  <2>2. TypeOK'
    BY <1>1, <1>2, ObsAreReps DEF IInv, TypeOK, Labels
  <2>3. /\ Claimed' = Claimed \cup {x} /\ x \notin Claimed
        /\ \A y \in Claimed : y # x /\ reps'[y] = reps[y] /\ cls'[y] = cls[y]
        /\ reps'[x] = x /\ cls'[x] = x
    BY <1>1, <1>2, <2>1, ObsAreReps, ClaimedType DEF IInv, TypeOK, Claimed
  <2>4. Grows
    BY <2>1, <2>3, ClaimedType DEF Grows, IInv, SharedInv
  <2>5. ChainsDescend'
    <3>1. \A y \in Claimed : reps[y] \in Claimed /\ reps[y] <= y
      BY DEF IInv, SharedInv, ChainsDescend
    <3>2. x \in Int
      BY <1>1, ObsAreReps
    <3> QED
      BY <2>3, <3>1, <3>2 DEF ChainsDescend
  <2>6. ClassesAsRequested'
    BY <1>1, <2>1, <2>3, ClaimedType, ObsAreReps
    DEF IInv, TypeOK, SharedInv, ClassesAsRequested, ChainsDescend
  <2>7. ClassesNamed'
    <3>1. /\ support \subseteq Claimed
          /\ \A y \in Claimed : cls[y] \in Claimed /\ cls[y] <= y /\ cls[cls[y]] = cls[y]
      BY DEF IInv, SharedInv, ClassesNamed
    <3>2. x \in Int
      BY <1>1, ObsAreReps
    <3> QED
      BY <2>1, <2>3, <3>1, <3>2 DEF ClassesNamed
  <2>8. DueOnce'
    BY <1>1, <1>2, <2>1 DEF IInv, TypeOK, SharedInv, DueOnce
  <2>9. Treated' /\ \A c \in Cell : cells'[c] \in Claimed' \cup {0}
    BY <2>1, <2>3 DEF IInv, SharedInv, Treated
  <2>10. ThreadInv(t)'
    BY <2>1, <2>3 DEF IInv, TypeOK, ThreadInv, FindKept, MergeKept, SetKept, InPlace
  <2>11. \A u \in Thread \ {t} : UNCHANGED Local(u)
    BY <2>1 DEF Local, IInv, TypeOK
  <2> QED
    BY <2>2, <2>4, <2>5, <2>6, <2>7, <2>8, <2>9, <2>10, <2>11, ThreadStep DEF SharedInv
<1>3. CASE reps[ob[t]] # 0
  <2>1. UNCHANGED <<reps, cls, support, itemCount, repCount, pending, cells,
                    task, todo, val, path, dep, rep, old, src, at, req>>
    BY <1>3
  <2>2. CASE ob[t] < ItemDim
    <3>1. /\ ob' = [ob EXCEPT ![t] = ob[t] + 1] /\ ob[t] + 1 \in Ob
          /\ pc' = [pc EXCEPT ![t] = "ins_cas"]
      BY <1>1, <1>3, <2>2, CarrierAssumption DEF Ob
    <3>2. TypeOK'
      BY <2>1, <3>1, ObsAreReps DEF IInv, TypeOK, Labels
    <3>3. ThreadInv(t)' /\ \A u \in Thread \ {t} : UNCHANGED Local(u)
      BY <2>1, <3>1, SMTT(30)
      DEF IInv, TypeOK, ThreadInv, FindKept, MergeKept, SetKept, InPlace, Local
    <3> QED
      BY <2>1, <3>1, <3>2, <3>3, LocalStep DEF IInv, TypeOK, SharedInv, ClassesNamed
  <2>3. CASE ~ (ob[t] < ItemDim)
    <3>1. /\ ob' = [ob EXCEPT ![t] = 0]
          /\ pc' = [pc EXCEPT ![t] = "ins_check"]
      BY <1>3, <2>3
    <3>2. TypeOK'
      BY <2>1, <3>1, ObsAreReps DEF IInv, TypeOK, Labels
    <3>3. ThreadInv(t)' /\ \A u \in Thread \ {t} : UNCHANGED Local(u)
      BY <2>1, <3>1, SMTT(30)
      DEF IInv, TypeOK, ThreadInv, FindKept, MergeKept, SetKept, InPlace, Local
    <3> QED
      BY <2>1, <3>1, <3>2, <3>3, LocalStep DEF IInv, TypeOK, SharedInv, ClassesNamed
  <2> QED
    BY <2>2, <2>3
<1> QED
  BY <1>2, <1>3

-----------------------------------------------------------------------------
(* The steps of find.                                                      *)

LEMMA StartFindKeeps ==
  ASSUME IInv, NEW t \in Thread, NEW x \in Ob, StartFind(t, x)
  PROVE  IInv'
<1> USE DEF StartFind, CallFind, Goto, carrierVars, taskVars, mergeVars, setVars
<1>1. x \in Claimed /\ cls[x] \in Rep /\ cls[x] \in Int
  BY ClaimedType, ObsAreReps DEF IInv, TypeOK, SharedInv, ClassesNamed
<1>2. TypeOK'
  BY <1>1, ObsAreReps DEF IInv, TypeOK, Labels
<1>3. \A u \in Thread \ {t} : UNCHANGED Local(u)
  BY DEF Local, IInv, TypeOK
<1>4. /\ pc'[t] = "find_load" /\ ob'[t] = x /\ req'[t] = <<x, cls[x]>>
      /\ path'[t] = {} /\ at'[t] = NoCell /\ old'[t] = 0
  BY DEF IInv, TypeOK, ThreadInv, InPlace
<1>5. FindKept(t)'
  BY <1>1, <1>4 DEF FindKept, Claimed
<1>6. MergeKept(t)' /\ SetKept(t)' /\ InPlace(t)'
  BY <1>4 DEF MergeKept, SetKept, InPlace
<1> QED
  BY <1>2, <1>3, <1>4, <1>5, <1>6, LocalStep
  DEF IInv, SharedInv, ClassesNamed, ThreadInv

LEMMA FindLoadKeeps ==
  ASSUME IInv, NEW t \in Thread, FindLoad(t)
  PROVE  IInv'
<1> USE DEF FindLoad, Goto, carrierVars, taskVars, mergeVars, setVars, callVars
<1> DEFINE x == ob[t]
<1>1. FindKept(t) /\ pc[t] = "find_load"
  BY DEF IInv, ThreadInv
<1>2. /\ x \in Claimed /\ x \in Ob /\ x \in Int /\ cls[x] = cls[req[t][1]]
      /\ reps[x] \in Claimed /\ reps[x] \in Ob /\ reps[x] \in Int
      /\ reps[x] <= x /\ cls[reps[x]] = cls[x]
      /\ cls[x] = x <=> reps[x] = x
      /\ req[t][1] \in Claimed /\ req[t][2] \in Int /\ cls[req[t][1]] <= req[t][2]
  BY <1>1, ClaimedType, ObsAreReps
  DEF FindKept, IInv, SharedInv, ChainsDescend, ClassesAsRequested, TypeOK
<1>3. CASE reps[x] = x
  <2>1. /\ val' = [val EXCEPT ![t] = x]
        /\ pc' = [pc EXCEPT ![t] = "find_cas"]
        /\ UNCHANGED <<reps, support, itemCount, repCount, cls, pending, cells,
                       task, todo, ob, path, dep, rep, old, src, at, req>>
    BY <1>3
  <2>2. TypeOK'
    BY <1>2, <2>1, ObsAreReps DEF IInv, TypeOK, Labels
  <2>3. \A u \in Thread \ {t} : UNCHANGED Local(u)
    BY <2>1 DEF Local, IInv, TypeOK
  <2>4. pc'[t] = "find_cas" /\ val'[t] = x /\ Claimed' = Claimed
    BY <2>1 DEF IInv, TypeOK, Claimed
  <2>5. FindKept(t)'
    BY <1>1, <1>2, <1>3, <2>1, <2>4 DEF FindKept, LowerOf
  <2>6. MergeKept(t)' /\ SetKept(t)' /\ InPlace(t)'
    BY <1>1, <2>1, <2>4 DEF MergeKept, SetKept, InPlace, IInv, ThreadInv
  <2> QED
    BY <2>1, <2>2, <2>3, <2>4, <2>5, <2>6, LocalStep
    DEF IInv, SharedInv, ClassesNamed, ThreadInv
<1>4. CASE reps[x] # x
  <2>1. /\ ob' = [ob EXCEPT ![t] = reps[x]]
        /\ path' = [path EXCEPT ![t] = path[t] \cup {x}]
        /\ UNCHANGED <<reps, support, itemCount, repCount, cls, pending, cells,
                       task, todo, pc, val, dep, rep, old, src, at, req>>
    BY <1>4 DEF IInv, TypeOK
  <2>2. TypeOK'
    BY <1>2, <2>1, ObsAreReps DEF IInv, TypeOK
  <2>3. \A u \in Thread \ {t} : UNCHANGED Local(u)
    BY <2>1 DEF Local, IInv, TypeOK
  <2>4. /\ pc'[t] = "find_load" /\ ob'[t] = reps[x] /\ Claimed' = Claimed
        /\ path'[t] = path[t] \cup {x}
    BY <1>1, <2>1 DEF IInv, TypeOK, Claimed
  <2>5. reps[x] < x /\ \A y \in path[t] : y \in Int /\ reps[x] < y
    BY <1>1, <1>2, <1>4, ClaimedType DEF FindKept, IInv
  <2>6. FindKept(t)'
    BY <1>1, <1>2, <2>1, <2>4, <2>5 DEF FindKept
  <2>7. MergeKept(t)' /\ SetKept(t)' /\ InPlace(t)'
    BY <1>1, <2>1, <2>4 DEF MergeKept, SetKept, InPlace, IInv, ThreadInv
  <2> QED
    BY <2>1, <2>2, <2>3, <2>4, <2>6, <2>7, LocalStep
    DEF IInv, SharedInv, ClassesNamed, ThreadInv
<1> QED
  BY <1>3, <1>4

LEMMA FindCompressKeeps ==
  ASSUME IInv, NEW t \in Thread, FindCompress(t)
  PROVE  IInv'
<1> USE DEF FindCompress, taskVars, mergeVars, setVars, callVars
<1> DEFINE x == Innermost(t)
<1>1. FindKept(t) /\ pc[t] = "find_cas"
  BY DEF IInv, ThreadInv
<1>2. x \in path[t] /\ \A y \in path[t] : x <= y
  BY InnermostIsLeast DEF IInv, TypeOK
<1>3. /\ ob' = [ob EXCEPT ![t] = x]
      /\ path' = [path EXCEPT ![t] = path[t] \ {x}]
      /\ UNCHANGED <<support, itemCount, repCount, cls, pending, cells, task,
                     todo, pc, dep, rep, old, src, at, req>>
  BY DEF IInv, TypeOK
<1>4. /\ x \in Claimed /\ x \in Ob /\ x \in Int /\ reps[x] \in Claimed
      /\ reps[x] \in Int /\ reps[x] <= x /\ cls[reps[x]] = cls[x]
      /\ val[t] \in Claimed /\ val[t] \in Int /\ val[t] < x
      /\ val[t] <= req[t][2] /\ req[t][2] \in Int
      /\ cls[val[t]] = cls[x] /\ cls[x] = cls[req[t][1]]
  <2>1. /\ x \in Claimed /\ cls[x] = cls[req[t][1]] /\ ob[t] < x
        /\ val[t] \in Claimed /\ cls[val[t]] = cls[ob[t]]
        /\ val[t] <= LowerOf(ob[t], req[t][2])
        /\ ob[t] \in Claimed /\ cls[ob[t]] = cls[req[t][1]]
    BY <1>1, <1>2 DEF FindKept
  <2>2. /\ x \in Ob /\ x \in Int /\ ob[t] \in Int /\ val[t] \in Int
        /\ reps[x] \in Int /\ req[t][2] \in Int
    BY <2>1, ClaimedType, ObsAreReps DEF IInv, TypeOK
  <2>3. reps[x] \in Claimed /\ reps[x] <= x /\ cls[reps[x]] = cls[x]
    BY <2>1, <2>2, ObsAreReps, ClaimedType
    DEF IInv, SharedInv, ChainsDescend, ClassesAsRequested
  <2>4. val[t] < x /\ val[t] <= req[t][2]
    BY <2>1, <2>2 DEF LowerOf
  <2> QED
    BY <2>1, <2>2, <2>3, <2>4
<1>5. cls[x] # x /\ reps[x] # x
  <2>1. cls[val[t]] <= val[t] /\ cls[val[t]] \in Int
    BY <1>4, ClaimedType DEF IInv, SharedInv, ClassesNamed
  <2>2. cls[x] # x
    BY <1>4, <2>1
  <2> QED
    BY <1>4, <2>2 DEF IInv, SharedInv, ClassesAsRequested
\* Whether the exchange succeeds or fails, x points into its class, further
\* down, and what is returned is in that class and below x.
<1>6. PICK v \in Claimed, r \in Claimed :
        /\ val' = [val EXCEPT ![t] = v]
        /\ reps' = [reps EXCEPT ![x] = r]
        /\ v < x /\ v <= req[t][2] /\ cls[v] = cls[x]
        /\ r < x /\ cls[r] = cls[x]
  <2>1. CASE reps[x] = ob[t] /\ reps' = [reps EXCEPT ![x] = val[t]] /\ UNCHANGED val
    <3>1. val' = [val EXCEPT ![t] = val[t]]
      BY <2>1 DEF IInv, TypeOK
    <3> QED
      BY <1>4, <2>1, <3>1
  <2>2. CASE val' = [val EXCEPT ![t] = Lost(t, x)] /\ UNCHANGED reps
    <3>1. /\ Lost(t, x) \in Claimed /\ Lost(t, x) < x /\ Lost(t, x) <= req[t][2]
          /\ cls[Lost(t, x)] = cls[x]
      BY <1>4, <1>5 DEF Lost, LowerOf
    <3>2. reps' = [reps EXCEPT ![x] = reps[x]]
      BY <2>2 DEF IInv, TypeOK
    <3>3. reps[x] < x
      BY <1>4, <1>5
    <3> QED
      BY <1>4, <2>2, <3>1, <3>2, <3>3
  <2> QED
    BY <2>1, <2>2
<1>7. /\ \A y \in Ob : reps'[y] = IF y = x THEN r ELSE reps[y]
      /\ r # 0 /\ r \in Ob /\ r \in Int /\ v \in Int /\ v \in Rep /\ r \in Rep
  BY <1>4, <1>6, ClaimedType, ObsAreReps DEF IInv, TypeOK
<1>8. TypeOK'
  BY <1>3, <1>4, <1>6, <1>7, ObsAreReps DEF IInv, TypeOK
<1>9. Claimed' = Claimed
  BY <1>4, <1>7, ClaimedType DEF Claimed, IInv
<1>10. Grows
  BY <1>3, <1>4, <1>6, <1>7, <1>9, ClaimedType DEF Grows, IInv, SharedInv
<1>11. ChainsDescend'
  BY <1>4, <1>6, <1>7, <1>9, ClaimedType DEF IInv, SharedInv, ChainsDescend
<1>12. ClassesAsRequested'
  <2>1. ASSUME NEW y \in Ob
        PROVE  /\ cls[y] = 0 <=> reps'[y] = 0
               /\ cls[y] = y <=> reps'[y] = y
               /\ reps'[y] # 0 => cls[reps'[y]] = cls[y]
    <3>1. /\ cls[y] = 0 <=> reps[y] = 0
          /\ cls[y] = y <=> reps[y] = y
          /\ reps[y] # 0 => cls[reps[y]] = cls[y]
      BY DEF IInv, SharedInv, ClassesAsRequested
    <3>2. CASE y = x
      BY <1>4, <1>5, <1>6, <1>7, <3>1, <3>2, ObsAreReps, ClaimedType DEF IInv
    <3>3. CASE y # x
      BY <1>7, <3>1, <3>3
    <3> QED
      BY <3>2, <3>3
  <2> QED
    BY <1>3, <2>1 DEF ClassesAsRequested
<1>13. ClassesNamed'
  BY <1>3, <1>9 DEF IInv, SharedInv, ClassesNamed
<1>14. \A y \in Ob : reps[y] \notin {0, y} => reps'[y] \notin {0, y}
  BY <1>4, <1>6, <1>7
<1>15. DueOnce'
  <2>1. task # 0 => task \in Ob
    BY DEF IInv, TypeOK, Rep, Ob
  <2> QED
    BY <1>3, <1>14, <2>1 DEF IInv, SharedInv, DueOnce
<1>16. Treated' /\ \A c \in Cell : cells'[c] \in Claimed' \cup {0}
  BY <1>3, <1>9 DEF IInv, SharedInv, Treated
<1>17. ob'[t] = x /\ path'[t] = path[t] \ {x} /\ pc'[t] = "find_cas" /\ val'[t] = v
  BY <1>1, <1>3, <1>6 DEF IInv, TypeOK
<1>18. FindKept(t)'
  <2>1. \A y \in path'[t] : y \in Int /\ x < y /\ y \in Claimed /\ cls[y] = cls[req[t][1]]
    BY <1>1, <1>2, <1>4, <1>17, ClaimedType DEF FindKept, IInv
  <2>2. v <= LowerOf(x, req[t][2])
    BY <1>4, <1>6, <1>7 DEF LowerOf
  <2> QED
    BY <1>1, <1>3, <1>4, <1>6, <1>9, <1>17, <2>1, <2>2 DEF FindKept
<1>19. MergeKept(t)' /\ SetKept(t)' /\ InPlace(t)'
  BY <1>1, <1>3, <1>17 DEF MergeKept, SetKept, InPlace, IInv, ThreadInv
<1>20. \A u \in Thread \ {t} : UNCHANGED Local(u)
  BY <1>3, <1>6 DEF Local, IInv, TypeOK
<1> QED
  BY <1>8, <1>10, <1>11, <1>12, <1>13, <1>15, <1>16, <1>18, <1>19, <1>20, ThreadStep
  DEF SharedInv, ThreadInv

LEMMA FindReturnKeeps ==
  ASSUME IInv, NEW t \in Thread, FindReturn(t)
  PROVE  IInv'
<1> USE DEF FindReturn, carrierVars
<1>1. Return(t) /\ path[t] = {} /\ FindKept(t) /\ InPlace(t) /\ pc[t] = "find_cas"
  BY DEF IInv, ThreadInv
<1>2. CASE at[t] = NoCell
  <2>1. TypeOK'
    BY <1>1, <1>2, ReturnType DEF IInv, TypeOK
  <2> QED
    BY <1>1, <1>2, <2>1, ReturnStep, LocalStep DEF IInv, SharedInv, ClassesNamed
\* A MergeTask looked its dep up: what it puts in the cell is below the dep.
<1>3. CASE at[t] # NoCell
  <2> DEFINE c == at[t]
  <2>1. c \in Cell /\ task # 0 /\ req[t][1] = task /\ req[t][2] < task
    BY <1>1, <1>3 DEF InPlace, IInv, TypeOK
  <2>2. /\ val[t] \in Claimed /\ val[t] \in Int /\ val[t] < task /\ task \in Int
        /\ val[t] \in Rep /\ val[t] # 0
    <3>1. val[t] \in Claimed /\ val[t] <= LowerOf(ob[t], req[t][2])
      BY <1>1 DEF FindKept
    <3>2. ob[t] \in Int /\ req[t][2] \in Int /\ task \in Int
      BY ObsAreReps DEF IInv, TypeOK
    <3> QED
      BY <2>1, <3>1, <3>2, ClaimedType, ObsAreReps DEF LowerOf, IInv
  <2>3. PICK r \in Rep : /\ cells' = [cells EXCEPT ![c] = r]
                         /\ r # task
                         /\ r = cells[c] \/ r \in Claimed
    <3>1. cells[c] \in Rep /\ val[t] # task
      BY <2>1, <2>2 DEF IInv, TypeOK
    <3>2. cells' = [cells EXCEPT ![c] = IF cells[c] = task THEN val[t] ELSE cells[c]]
      BY <1>3 DEF Replaced
    <3>3. CASE cells[c] = task
      BY <2>2, <3>1, <3>2, <3>3
    <3>4. CASE cells[c] # task
      BY <3>1, <3>2, <3>4
    <3> QED
      BY <3>3, <3>4
  <2>4. /\ UNCHANGED <<reps, support, itemCount, repCount, cls, pending, task>>
        /\ todo' = todo \ {c} /\ Claimed' = Claimed
    BY <1>3 DEF Claimed
  <2>5. \A d \in Cell : cells'[d] = IF d = c THEN r ELSE cells[d]
    BY <2>3 DEF IInv, TypeOK
  <2>6. TypeOK'
    BY <1>1, <2>3, <2>4, ReturnType DEF IInv, TypeOK
  <2>7. \A d \in Cell : cells'[d] \in Claimed' \cup {0}
    BY <2>3, <2>4, <2>5 DEF IInv, SharedInv
  <2>8. Grows
    BY <2>1, <2>2, <2>3, <2>4, <2>5, ClaimedType DEF Grows, IInv, SharedInv
  <2>9. Treated'
    BY <2>3, <2>4, <2>5 DEF Treated, IInv, SharedInv
  <2>10. ChainsDescend' /\ ClassesAsRequested' /\ ClassesNamed'
    BY <2>4 DEF IInv, SharedInv, ChainsDescend, ClassesAsRequested, ClassesNamed
  <2>11. /\ ThreadInv(t)' /\ pc'[t] = "idle"
         /\ \A u \in Thread \ {t} : UNCHANGED Local(u)
    BY <1>1, ReturnStep
  <2>12. DueOnce'
    BY <2>4, <2>11 DEF IInv, SharedInv, DueOnce, Local
  <2> QED
    BY <2>6, <2>7, <2>8, <2>9, <2>10, <2>11, <2>12, ThreadStep DEF SharedInv
<1> QED
  BY <1>2, <1>3

-----------------------------------------------------------------------------
(* The steps of merge.                                                     *)

LEMMA StartMergeKeeps ==
  ASSUME IInv, NEW t \in Thread, NEW x \in Ob, NEW y \in Ob, StartMerge(t, x, y)
  PROVE  IInv'
<1> USE DEF StartMerge, CallMerge, Goto, carrierVars, taskVars, findVars, setVars
<1> DEFINE d == HigherOf(x, y)
<1> DEFINE r == LowerOf(x, y)
<1>1. /\ x \in Claimed /\ y \in Claimed /\ r < d
      /\ (d = x /\ r = y) \/ (d = y /\ r = x)
  BY ObsAreReps DEF IInv, SharedInv, ClassesNamed, HigherOf, LowerOf
<1>2. /\ dep' = [dep EXCEPT ![t] = d] /\ rep' = [rep EXCEPT ![t] = r]
      /\ pc' = [pc EXCEPT ![t] = "merge_cas"]
      /\ req' = [req EXCEPT ![t] = <<x, y>>]
      /\ UNCHANGED <<reps, support, itemCount, repCount, cls, pending, cells,
                     task, todo, ob, val, path, old, src, at>>
  OBVIOUS
<1>3. TypeOK'
  BY <1>1, <1>2, ObsAreReps DEF IInv, TypeOK, Labels
<1>4. \A u \in Thread \ {t} : UNCHANGED Local(u)
  BY <1>2 DEF Local, IInv, TypeOK
<1>5. /\ pc'[t] = "merge_cas" /\ dep'[t] = d /\ rep'[t] = r /\ req'[t] = <<x, y>>
      /\ at'[t] = NoCell /\ old'[t] = 0 /\ path'[t] = {} /\ Claimed' = Claimed
  <2>1. pc[t] = "idle" /\ at[t] = NoCell /\ old[t] = 0 /\ path[t] = {}
    BY DEF IInv, ThreadInv, InPlace
  <2> QED
    BY <1>2, <2>1 DEF IInv, TypeOK, Claimed
<1>6. MergeKept(t)'
  BY <1>1, <1>2, <1>5 DEF MergeKept, SamePair
<1>7. FindKept(t)' /\ SetKept(t)' /\ InPlace(t)'
  BY <1>5 DEF FindKept, SetKept, InPlace
<1> QED
  BY <1>2, <1>3, <1>4, <1>5, <1>6, <1>7, LocalStep
  DEF IInv, SharedInv, ClassesNamed, ThreadInv

LEMMA MergeCasSpuriousKeeps ==
  ASSUME IInv, NEW t \in Thread, MergeCasSpurious(t)
  PROVE  IInv'
<1> USE DEF MergeCasSpurious, Goto, carrierVars, taskVars, findVars, mergeVars, setVars, callVars
<1>1. TypeOK'
  BY DEF IInv, TypeOK, Labels
<1>2. \A u \in Thread \ {t} : UNCHANGED Local(u)
  BY DEF Local, IInv, TypeOK
<1>3. pc[t] = "merge_cas" /\ pc'[t] = "merge_load" /\ Claimed' = Claimed
  BY DEF IInv, TypeOK, Claimed
<1>4. ThreadInv(t)'
  BY <1>3 DEF IInv, ThreadInv, FindKept, MergeKept, SetKept, InPlace
<1> QED
  BY <1>1, <1>2, <1>3, <1>4, LocalStep DEF IInv, SharedInv, ClassesNamed

LEMMA MergeScheduleKeeps ==
  ASSUME IInv, NEW t \in Thread, MergeSchedule(t)
  PROVE  IInv'
<1> USE DEF MergeSchedule, Goto, carrierVars, findVars, mergeVars, setVars, callVars
<1> DEFINE d == dep[t]
<1>1. /\ d \in Ob /\ pending[d] = 0 /\ task # d /\ pc[t] = "merge_sched"
      /\ reps[d] \notin {0, d}
      /\ \A u \in Thread : pc[u] = "merge_sched" /\ dep[u] = d => u = t
  <2>1. d \in Claimed /\ reps[d] < d
    BY DEF IInv, ThreadInv, MergeKept
  <2> QED
    BY <2>1, ClaimedType DEF IInv, SharedInv, DueOnce
<1>2. /\ pending' = [pending EXCEPT ![d] = 1]
      /\ pc' = [pc EXCEPT ![t] = "merge_count"]
      /\ UNCHANGED <<reps, support, itemCount, repCount, cls, cells, task, todo,
                     ob, val, path, dep, rep, old, src, at, req>>
  BY <1>1 DEF IInv, TypeOK
<1>3. TypeOK'
  BY <1>1, <1>2 DEF IInv, TypeOK, Labels
<1>4. \A u \in Thread \ {t} : UNCHANGED Local(u)
  BY <1>2 DEF Local, IInv, TypeOK
<1>5. pc'[t] = "merge_count"
  BY <1>2 DEF IInv, TypeOK
<1>6. Grows /\ Claimed' = Claimed
  BY <1>2, SameGrows
<1>7. ThreadInv(t)'
  BY <1>1, <1>2, <1>5, <1>6 DEF IInv, ThreadInv, FindKept, MergeKept, SetKept, InPlace
<1>8. DueOnce'
  <2>1. \A x \in Ob : pending'[x] = IF x = d THEN 1 ELSE pending[x]
    BY <1>1, <1>2 DEF IInv, TypeOK
  <2>2. \A u \in Thread : pc'[u] = "merge_sched" =>
          pc[u] = "merge_sched" /\ u # t /\ dep[u] # d
    BY <1>1, <1>2, <1>5 DEF IInv, TypeOK
  <2> QED
    BY <1>1, <1>2, <2>1, <2>2 DEF IInv, SharedInv, DueOnce
<1>9. ChainsDescend' /\ ClassesAsRequested' /\ ClassesNamed'
  BY <1>2, <1>6 DEF IInv, SharedInv, ChainsDescend, ClassesAsRequested, ClassesNamed
<1>10. Treated' /\ \A c \in Cell : cells'[c] \in Claimed' \cup {0}
  BY <1>2, <1>6 DEF IInv, SharedInv, Treated
<1> QED
  BY <1>3, <1>4, <1>6, <1>7, <1>8, <1>9, <1>10, ThreadStep DEF SharedInv

\* What merge returns to set_and_merge is in the class of the value it found.
LEMMA MergeReturnStep ==
  ASSUME IInv, NEW t \in Thread, NEW r \in Claimed, MergeReturn(t, r),
         pc[t] \in {"merge_load", "merge_count"},
         cls[r] = cls[req[t][1]], cls[req[t][1]] = cls[req[t][2]],
         UNCHANGED <<reps, support, cls, itemCount, pending, cells, task, todo>>,
         repCount' \in Int
  PROVE  IInv'
<1> USE DEF findVars, callVars, Goto
<1>1. path[t] = {} /\ Claimed' = Claimed /\ r \in Rep
  BY ClaimedType, ObsAreReps DEF IInv, ThreadInv, InPlace, Claimed
<1>2. CASE at[t] \in AndCell /\ old[t] # r
  <2>1. /\ pc' = [pc EXCEPT ![t] = "set_cas"]
        /\ src' = [src EXCEPT ![t] = r]
        /\ dep' = [dep EXCEPT ![t] = 0]
        /\ rep' = [rep EXCEPT ![t] = 0]
        /\ UNCHANGED <<ob, val, path, old, at, req>>
    BY <1>2 DEF MergeReturn
  <2>2. TypeOK'
    BY <1>1, <2>1, ObsAreReps DEF IInv, TypeOK, Labels
  <2>3. \A u \in Thread \ {t} : UNCHANGED Local(u)
    BY <2>1 DEF Local, IInv, TypeOK
  <2>4. /\ pc'[t] = "set_cas" /\ src'[t] = r /\ old'[t] = old[t]
        /\ at'[t] = at[t] /\ req'[t] = req[t] /\ path'[t] = {}
    BY <1>1, <2>1 DEF IInv, TypeOK
  <2>5. at[t] # NoCell /\ task = 0
    BY <1>2, CarrierAssumption DEF IInv, ThreadInv, InPlace
  <2>6. SetKept(t)'
    <3>1. /\ req[t][1] \in Claimed /\ old[t] # 0 /\ req[t][2] = old[t]
          /\ old[t] \in Claimed /\ cells[at[t]] \in Claimed
          /\ cls[old[t]] = cls[cells[at[t]]]
      BY <2>5 DEF IInv, ThreadInv, SetKept
    <3> QED
      BY <1>1, <2>4, <2>5, <3>1 DEF SetKept
  <2>7. FindKept(t)' /\ MergeKept(t)' /\ InPlace(t)'
    BY <2>4, <2>5 DEF FindKept, MergeKept, InPlace
  <2> QED
    BY <2>2, <2>3, <2>4, <2>6, <2>7, LocalStep
    DEF IInv, SharedInv, ClassesNamed, ThreadInv
<1>3. CASE ~ (at[t] \in AndCell /\ old[t] # r)
  <2>1. Return(t)
    BY <1>3 DEF MergeReturn
  <2>2. TypeOK'
    BY <2>1, ReturnType DEF IInv, TypeOK
  <2> QED
    BY <1>1, <2>1, <2>2, ReturnStep, LocalStep DEF IInv, SharedInv, ClassesNamed
<1> QED
  BY <1>2, <1>3

LEMMA MergeRepCountKeeps ==
  ASSUME IInv, NEW t \in Thread, MergeRepCount(t)
  PROVE  IInv'
<1> USE DEF MergeRepCount, taskVars
<1>1. MergeKept(t) /\ pc[t] = "merge_count"
  BY DEF IInv, ThreadInv
<1>2. /\ rep[t] \in Claimed /\ cls[rep[t]] = cls[req[t][1]]
      /\ cls[req[t][1]] = cls[req[t][2]]
  BY <1>1 DEF MergeKept, SamePair
<1>3. repCount' \in Int
  BY DEF IInv, TypeOK
<1> QED
  BY <1>1, <1>2, <1>3, MergeReturnStep

LEMMA MergeLoadKeeps ==
  ASSUME IInv, NEW t \in Thread, MergeLoad(t)
  PROVE  IInv'
<1> USE DEF MergeLoad, Goto, carrierVars, taskVars, findVars, setVars, callVars
<1> DEFINE d == dep[t]
<1> DEFINE r == reps[rep[t]]
<1>1. MergeKept(t) /\ pc[t] = "merge_load"
  BY DEF IInv, ThreadInv
<1>2. /\ {req[t][1], req[t][2], d, r} \subseteq Claimed
      /\ SamePair(cls[d], cls[r], cls[req[t][1]], cls[req[t][2]])
  <2>1. /\ {req[t][1], req[t][2], d, rep[t]} \subseteq Claimed
        /\ SamePair(cls[d], cls[rep[t]], cls[req[t][1]], cls[req[t][2]])
    BY <1>1 DEF MergeKept
  <2>2. r \in Claimed /\ cls[r] = cls[rep[t]]
    BY <2>1, ClaimedType DEF IInv, SharedInv, ChainsDescend, ClassesAsRequested
  <2> QED
    BY <2>1, <2>2
<1>3. d \in Rep /\ r \in Rep /\ d \in Int /\ r \in Int
  BY <1>2, ClaimedType, ObsAreReps DEF IInv
<1>4. CASE d = r
  <2>1. MergeReturn(t, r)
    BY <1>4 DEF Joined
  <2>2. cls[r] = cls[req[t][1]] /\ cls[req[t][1]] = cls[req[t][2]]
    BY <1>2, <1>4 DEF SamePair
  <2>3. repCount' \in Int
    BY DEF IInv, TypeOK
  <2> QED
    BY <1>1, <1>2, <2>1, <2>2, <2>3, MergeReturnStep
<1>5. CASE d # r
  <2>1. PICK hi \in {d, r}, lo \in {d, r} :
          /\ (hi = d /\ lo = r) \/ (hi = r /\ lo = d)
          /\ lo < hi
          /\ dep' = [dep EXCEPT ![t] = hi]
          /\ rep' = [rep EXCEPT ![t] = lo]
    BY <1>3, <1>5 DEF Joined, HigherOf, LowerOf
  <2>2. /\ pc' = [pc EXCEPT ![t] = "merge_cas"]
        /\ UNCHANGED <<reps, support, itemCount, repCount, cls, pending, cells,
                       task, todo, ob, val, path, old, src, at, req>>
    BY <1>5 DEF Joined
  <2>3. TypeOK'
    BY <1>3, <2>1, <2>2 DEF IInv, TypeOK, Labels
  <2>4. \A u \in Thread \ {t} : UNCHANGED Local(u)
    BY <2>1, <2>2 DEF Local, IInv, TypeOK
  <2>5. /\ pc'[t] = "merge_cas" /\ dep'[t] = hi /\ rep'[t] = lo /\ Claimed' = Claimed
    BY <2>1, <2>2 DEF IInv, TypeOK, Claimed
  <2>6. MergeKept(t)'
    BY <1>2, <2>1, <2>2, <2>5 DEF MergeKept, SamePair
  <2>7. FindKept(t)' /\ SetKept(t)' /\ InPlace(t)'
    BY <1>1, <2>2, <2>5 DEF FindKept, SetKept, InPlace, IInv, ThreadInv
  <2> QED
    BY <2>2, <2>3, <2>4, <2>5, <2>6, <2>7, LocalStep
    DEF IInv, SharedInv, ClassesNamed, ThreadInv
<1> QED
  BY <1>4, <1>5

LEMMA MergeCasKeeps ==
  ASSUME IInv, NEW t \in Thread, MergeCas(t)
  PROVE  IInv'
<1> USE DEF MergeCas, Goto, taskVars, findVars, setVars, callVars
<1> DEFINE d == dep[t]
<1> DEFINE r == rep[t]
<1> DEFINE a == req[t][1]
<1> DEFINE b == req[t][2]
<1>1. MergeKept(t) /\ pc[t] = "merge_cas"
  BY DEF IInv, ThreadInv
<1>2. /\ {a, b, d, r} \subseteq Claimed /\ r < d
      /\ SamePair(cls[d], cls[r], cls[a], cls[b])
      /\ d \in Ob /\ d \in Int /\ r \in Int /\ r \in Rep /\ r # 0 /\ d # 0
  BY <1>1, ClaimedType, ObsAreReps DEF MergeKept, IInv
<1>3. CASE reps[d] # d
  <2> DEFINE e == reps[d]
  <2>1. /\ dep' = [dep EXCEPT ![t] = e]
        /\ pc' = [pc EXCEPT ![t] = "merge_load"]
        /\ UNCHANGED <<reps, support, itemCount, repCount, cls, pending, cells,
                       task, todo, ob, val, path, rep, old, src, at, req>>
    BY <1>3 DEF Linkable
  <2>2. e \in Claimed /\ cls[e] = cls[d] /\ e \in Rep
    BY <1>2, ClaimedType, ObsAreReps
    DEF IInv, SharedInv, ChainsDescend, ClassesAsRequested
  <2>3. TypeOK'
    BY <2>1, <2>2 DEF IInv, TypeOK, Labels
  <2>4. \A u \in Thread \ {t} : UNCHANGED Local(u)
    BY <2>1 DEF Local, IInv, TypeOK
  <2>5. pc'[t] = "merge_load" /\ dep'[t] = e /\ Claimed' = Claimed
    BY <2>1 DEF IInv, TypeOK, Claimed
  <2>6. MergeKept(t)'
    BY <1>2, <2>1, <2>2, <2>5 DEF MergeKept
  <2>7. FindKept(t)' /\ SetKept(t)' /\ InPlace(t)'
    BY <1>1, <2>1, <2>5 DEF FindKept, SetKept, InPlace, IInv, ThreadInv
  <2> QED
    BY <2>1, <2>3, <2>4, <2>5, <2>6, <2>7, LocalStep
    DEF IInv, SharedInv, ClassesNamed, ThreadInv
\* dep is a root: it is linked to rep, and its class joins the class of rep.
<1>4. CASE reps[d] = d
  <2>1. /\ reps' = [reps EXCEPT ![d] = r]
        /\ cls' = United(cls, a, b)
        /\ pc' = [pc EXCEPT ![t] = "merge_sched"]
        /\ UNCHANGED <<support, itemCount, repCount, pending, cells, task, todo,
                       ob, val, path, dep, rep, old, src, at, req>>
    BY <1>2, <1>4 DEF Linkable, IInv, TypeOK
  <2> DEFINE lo == cls[r]
  <2>2. /\ cls[d] = d /\ lo \in Claimed /\ lo \in Int /\ lo <= r /\ lo < d
        /\ cls[lo] = lo /\ lo # 0 /\ lo \in Rep
    BY <1>2, <1>4, ClaimedType, ObsAreReps
    DEF IInv, SharedInv, ClassesAsRequested, ClassesNamed
  <2>3. \A z \in Ob : cls'[z] = IF cls[z] \in {d, lo} THEN lo ELSE cls[z]
    <3>1. {cls[a], cls[b]} = {d, lo} /\ LowerOf(cls[a], cls[b]) = lo
      BY <1>2, <2>2 DEF SamePair, LowerOf
    <3> QED
      BY <2>1, <3>1 DEF United
  <2>4. \A z \in Ob : reps'[z] = IF z = d THEN r ELSE reps[z]
    BY <1>2, <2>1 DEF IInv, TypeOK
  <2>5. TypeOK'
    <3>1. cls' \in [Ob -> Rep]
      <4>1. cls' = [z \in Ob |-> cls'[z]]
        BY <2>1 DEF United
      <4> QED
        BY <2>2, <2>3, <4>1 DEF IInv, TypeOK
    <3> QED
      BY <1>2, <2>1, <3>1 DEF IInv, TypeOK, Labels
  <2>6. Claimed' = Claimed
    BY <1>2, <2>4, ClaimedType DEF Claimed, IInv
  <2>7. \A z \in Claimed : cls'[z] = IF cls[z] = d THEN lo ELSE cls[z]
    BY <2>3, ClaimedType DEF IInv
  <2>8. Grows
    <3>1. \A x \in Claimed : reps'[x] = IF x = d THEN r ELSE reps[x]
      BY <2>4, ClaimedType DEF IInv
    <3>2. \A x \in Claimed : x \in Int /\ cls[x] \in Int
      BY ClaimedType DEF IInv
    <3> QED
      BY <1>2, <2>1, <2>2, <2>6, <2>7, <3>1, <3>2 DEF Grows, IInv, SharedInv
  <2>9. ChainsDescend'
    BY <1>2, <2>4, <2>6, ClaimedType DEF IInv, SharedInv, ChainsDescend
  <2>10. ClassesAsRequested'
    <3>1. ASSUME NEW y \in Ob
          PROVE  /\ cls'[y] = 0 <=> reps'[y] = 0
                 /\ cls'[y] = y <=> reps'[y] = y
                 /\ reps'[y] # 0 => cls'[reps'[y]] = cls'[y]
      <4>1. /\ cls[y] = 0 <=> reps[y] = 0
            /\ cls[y] = y <=> reps[y] = y
            /\ reps[y] # 0 => cls[reps[y]] = cls[y] /\ reps[y] \in Ob
        BY ClaimedType DEF IInv, SharedInv, ClassesAsRequested, ChainsDescend
      <4>2. CASE y = d
        BY <1>2, <2>2, <2>3, <2>4, <4>2, ClaimedType DEF IInv
      <4>3. CASE y # d
        BY <1>2, <2>2, <2>3, <2>4, <4>1, <4>3
      <4> QED
        BY <4>2, <4>3
    <3> QED
      BY <3>1 DEF ClassesAsRequested
  <2>11. ClassesNamed'
    <3>1. /\ support \subseteq Claimed
          /\ \A x \in Claimed : cls[x] \in Claimed /\ cls[x] <= x /\ cls[cls[x]] = cls[x]
      BY DEF IInv, SharedInv, ClassesNamed
    <3>2. \A x \in Claimed : x \in Int /\ cls[x] \in Int
      BY ClaimedType DEF IInv
    <3> QED
      BY <2>1, <2>2, <2>6, <2>7, <3>1, <3>2 DEF ClassesNamed
  <2>12. /\ pc'[t] = "merge_sched" /\ dep'[t] = d /\ rep'[t] = r /\ req'[t] = <<a, b>>
         /\ \A u \in Thread \ {t} : pc'[u] = pc[u] /\ dep'[u] = dep[u]
    BY <2>1 DEF IInv, TypeOK
  <2>13. DueOnce'
    <3>1. \A y \in Ob : reps[y] \notin {0, y} => reps'[y] \notin {0, y} /\ y # d
      BY <1>2, <1>4, <2>4
    <3>2. \A u \in Thread : pc[u] = "merge_sched" => dep[u] \in Ob /\ reps[dep[u]] \notin {0, dep[u]}
      <4> TAKE u \in Thread
      <4>1. MergeKept(u)
        BY DEF IInv, ThreadInv
      <4> QED
        BY <4>1, ClaimedType DEF MergeKept, IInv
    <3>3. task # 0 => task \in Ob
      BY DEF IInv, TypeOK, Rep, Ob
    <3>4. pending[d] = 0 /\ task # d
      BY <1>2, <1>4 DEF IInv, TypeOK, SharedInv, DueOnce
    <3> QED
      BY <1>2, <2>1, <2>12, <3>1, <3>2, <3>3, <3>4 DEF IInv, SharedInv, DueOnce
  <2>14. Treated' /\ \A c \in Cell : cells'[c] \in Claimed' \cup {0}
    BY <2>1, <2>6 DEF IInv, SharedInv, Treated
  <2>15. MergeKept(t)'
    BY <1>2, <2>2, <2>4, <2>6, <2>7, <2>12 DEF MergeKept, SamePair
  <2>16. SetKept(t)'
    <3>1. SetKept(t) /\ 0 \notin Claimed /\ at[t] \in Cell \cup {NoCell}
      BY ObsAreReps, ClaimedType DEF IInv, ThreadInv, TypeOK
    <3> QED
      BY <1>1, <2>1, <2>6, <2>8, <2>12, <3>1 DEF SetKept, Grows
  <2>17. FindKept(t)' /\ InPlace(t)'
    BY <1>1, <2>1, <2>12 DEF FindKept, InPlace, IInv, ThreadInv
  <2>18. \A u \in Thread \ {t} : UNCHANGED Local(u)
    BY <2>1 DEF Local, IInv, TypeOK
  <2> QED
    BY <2>5, <2>8, <2>9, <2>10, <2>11, <2>13, <2>14, <2>15, <2>16, <2>17, <2>18,
       ThreadStep DEF SharedInv, ThreadInv
<1> QED
  BY <1>3, <1>4

-----------------------------------------------------------------------------
(* The steps of set_and_merge and set_or_merge.                            *)

LEMMA StartSetKeeps ==
  ASSUME IInv, NEW t \in Thread, NEW c \in Cell, NEW x \in Ob, StartSet(t, c, x)
  PROVE  IInv'
<1> USE DEF StartSet, Goto, carrierVars, taskVars, findVars, mergeVars
<1>1. x \in Claimed /\ c # NoCell
  BY CarrierAssumption DEF IInv, SharedInv, ClassesNamed, Cell
<1>2. TypeOK'
  BY ObsAreReps DEF IInv, TypeOK, Labels
<1>3. \A u \in Thread \ {t} : UNCHANGED Local(u)
  BY DEF Local, IInv, TypeOK
<1>4. /\ pc'[t] = "set_cas" /\ src'[t] = x /\ at'[t] = c /\ req'[t] = <<x, x>>
      /\ old'[t] = 0 /\ path'[t] = {} /\ Claimed' = Claimed
  BY DEF IInv, TypeOK, ThreadInv, InPlace, Claimed
<1>5. SetKept(t)'
  BY <1>1, <1>4 DEF SetKept
<1>6. FindKept(t)' /\ MergeKept(t)' /\ InPlace(t)'
  BY <1>1, <1>4 DEF FindKept, MergeKept, InPlace
<1> QED
  BY <1>2, <1>3, <1>4, <1>5, <1>6, LocalStep
  DEF IInv, SharedInv, ClassesNamed, ThreadInv

\* A thread about to access its cell is not in a MergeTask.
LEMMA SetCasPlace ==
  ASSUME IInv, NEW t \in Thread, SetCas(t)
  PROVE  /\ pc[t] = "set_cas" /\ at[t] \in Cell /\ task = 0 /\ path[t] = {}
         /\ src[t] \in Claimed /\ req[t][1] \in Claimed
         /\ cls[src[t]] = cls[req[t][1]]
         /\ old[t] # 0 => /\ old[t] \in Claimed /\ cells[at[t]] \in Claimed
                          /\ cls[old[t]] = cls[cells[at[t]]]
                          /\ cls[src[t]] = cls[old[t]]
<1>1. pc[t] = "set_cas"
  BY DEF SetCas
<1>2. at[t] \in Cell
  BY <1>1 DEF IInv, TypeOK, ThreadInv, InPlace
<1>3. at[t] # NoCell /\ task = 0 /\ path[t] = {}
  BY <1>1, <1>2, CarrierAssumption DEF IInv, ThreadInv, InPlace, Cell
<1> QED
  BY <1>1, <1>2, <1>3 DEF IInv, ThreadInv, SetKept

LEMMA SetCasKeeps ==
  ASSUME IInv, NEW t \in Thread, SetCas(t)
  PROVE  IInv'
<1> USE DEF SetCas, Goto, carrierVars, findVars
<1> DEFINE c == at[t]
<1>1. /\ pc[t] = "set_cas" /\ c \in Cell /\ task = 0 /\ path[t] = {}
      /\ src[t] \in Claimed /\ req[t][1] \in Claimed
      /\ cls[src[t]] = cls[req[t][1]]
      /\ old[t] # 0 => /\ old[t] \in Claimed /\ cells[c] \in Claimed
                       /\ cls[old[t]] = cls[cells[c]]
                       /\ cls[src[t]] = cls[old[t]]
  BY SetCasPlace
<1>2. UNCHANGED <<reps, support, itemCount, repCount, cls, pending, task, todo>>
      /\ Claimed' = Claimed
  BY DEF Claimed
<1>3. CASE Expected(t)
  <2>1. cells' = [cells EXCEPT ![c] = src[t]] /\ Return(t)
    BY <1>3
  <2>2. \A k \in Cell : cells'[k] = IF k = c THEN src[t] ELSE cells[k]
    BY <2>1 DEF IInv, TypeOK
  <2>3. TypeOK'
    BY <1>1, <1>2, <2>1, ReturnType DEF IInv, TypeOK
  <2>4. Grows
    BY <1>1, <1>2, <1>3, <2>2, ClaimedType DEF Expected, Grows, IInv, SharedInv
  <2>5. ThreadInv(t)' /\ pc'[t] = "idle" /\ \A u \in Thread \ {t} : UNCHANGED Local(u)
    BY <1>1, <2>1, ReturnStep
  <2>6. ChainsDescend' /\ ClassesAsRequested' /\ ClassesNamed'
    BY <1>2 DEF IInv, SharedInv, ChainsDescend, ClassesAsRequested, ClassesNamed
  <2>7. DueOnce' /\ Treated' /\ \A k \in Cell : cells'[k] \in Claimed' \cup {0}
    BY <1>1, <1>2, <2>2, <2>5 DEF IInv, SharedInv, DueOnce, Treated, Local
  <2> QED
    BY <2>3, <2>4, <2>5, <2>6, <2>7, ThreadStep DEF SharedInv
<1>4. CASE ~ Expected(t) /\ Agrees(t)
  <2>1. Return(t) /\ cells' = cells
    BY <1>4
  <2>2. TypeOK'
    BY <1>2, <2>1, ReturnType DEF IInv, TypeOK
  <2> QED
    BY <1>1, <1>2, <2>1, <2>2, ReturnStep, LocalStep DEF IInv, SharedInv, ClassesNamed
\* Another value is there: the two are merged.
<1>5. CASE ~ Expected(t) /\ ~ Agrees(t)
  <2> DEFINE o == cells[c]
  <2> DEFINE d == HigherOf(src[t], o)
  <2> DEFINE r == LowerOf(src[t], o)
  <2>1. o \in Claimed /\ o # 0 /\ o # src[t] /\ o \in Rep /\ o \in Int /\ src[t] \in Int
        /\ src[t] \in Rep /\ req[t][1] \in Rep
    <3>1. o \in Claimed \cup {0}
      BY <1>1 DEF IInv, SharedInv
    <3>2. o # old[t]
      BY <1>5 DEF Expected
    <3>3. o \in Claimed
      BY <1>1, <3>1, <3>2
    <3> QED
      BY <1>1, <1>5, <3>3, ClaimedType, ObsAreReps DEF Agrees, IInv
  <2>2. r < d /\ ((d = src[t] /\ r = o) \/ (d = o /\ r = src[t]))
    BY <2>1 DEF HigherOf, LowerOf
  <2>3. /\ old' = [old EXCEPT ![t] = o]
        /\ dep' = [dep EXCEPT ![t] = d]
        /\ rep' = [rep EXCEPT ![t] = r]
        /\ pc' = [pc EXCEPT ![t] = "merge_cas"]
        /\ req' = [req EXCEPT ![t] = <<req[t][1], o>>]
        /\ UNCHANGED <<cells, ob, val, path, src, at>>
    BY <1>5 DEF CallMerge, IInv, TypeOK
  <2>4. TypeOK'
    <3>1. d \in Rep /\ r \in Rep /\ <<req[t][1], o>> \in Rep \X Rep
      BY <2>1, <2>2
    <3> QED
      BY <1>2, <2>1, <2>3, <3>1 DEF IInv, TypeOK, Labels
  <2>5. \A u \in Thread \ {t} : UNCHANGED Local(u)
    BY <2>3 DEF Local, IInv, TypeOK
  <2>6. /\ pc'[t] = "merge_cas" /\ dep'[t] = d /\ rep'[t] = r /\ old'[t] = o
        /\ req'[t] = <<req[t][1], o>> /\ src'[t] = src[t] /\ at'[t] = c
        /\ path'[t] = {}
    BY <1>1, <2>3 DEF IInv, TypeOK
  <2>7. MergeKept(t)'
    BY <1>1, <1>2, <2>1, <2>2, <2>6 DEF MergeKept, SamePair
  <2>8. SetKept(t)'
    BY <1>1, <1>2, <2>1, <2>3, <2>6 DEF SetKept
  <2>9. FindKept(t)' /\ InPlace(t)'
    BY <1>1, <1>2, <2>6, CarrierAssumption DEF FindKept, InPlace, Cell
  <2> QED
    BY <1>2, <2>3, <2>4, <2>5, <2>6, <2>7, <2>8, <2>9, LocalStep
    DEF IInv, SharedInv, ClassesNamed, ThreadInv
<1> QED
  BY <1>3, <1>4, <1>5

-----------------------------------------------------------------------------
(* The steps of a MergeTask.                                               *)

LEMMA IdleInv ==
  ASSUME NEW t \in Thread, pc[t] = "idle", at[t] = NoCell, path[t] = {}, old[t] = 0
  PROVE  ThreadInv(t)
BY DEF ThreadInv, FindKept, MergeKept, SetKept, InPlace

LEMMA BeginTaskKeeps ==
  ASSUME IInv, NEW x \in Ob, BeginTask(x)
  PROVE  IInv'
<1> USE DEF BeginTask, Idle, carrierVars, findVars, mergeVars, setVars, callVars
<1>1. pending[x] = 1 /\ reps[x] \notin {0, x} /\ x \in Rep
  BY ObsAreReps DEF Popped, IInv, SharedInv, DueOnce
<1>2. TypeOK'
  BY <1>1 DEF IInv, TypeOK
<1>3. \A y \in Ob : pending'[y] = IF y = x THEN 0 ELSE pending[y]
  BY <1>1 DEF IInv, TypeOK
<1>4. \A u \in Thread : ThreadInv(u)'
  BY DEF IInv, ThreadInv, FindKept, MergeKept, SetKept, InPlace
<1>5. ChainsDescend' /\ ClassesAsRequested' /\ ClassesNamed' /\ Claimed' = Claimed
  BY DEF IInv, SharedInv, ChainsDescend, ClassesAsRequested, ClassesNamed, Claimed
<1>6. DueOnce'
  BY <1>1, <1>3 DEF IInv, SharedInv, DueOnce
<1>7. Treated'
  BY ObsAreReps DEF Treated
<1>8. \A c \in Cell : cells'[c] \in Claimed' \cup {0}
  BY <1>5 DEF IInv, SharedInv
<1> QED
  BY <1>2, <1>4, <1>5, <1>6, <1>7, <1>8 DEF IInv, SharedInv

LEMMA StartReplaceKeeps ==
  ASSUME IInv, NEW t \in Thread, NEW c \in Cell, StartReplace(t, c)
  PROVE  IInv'
<1> USE DEF StartReplace, CallFind, Goto, carrierVars, taskVars, mergeVars, setVars
<1>1. task # 0 /\ c # NoCell
  BY CarrierAssumption DEF Cell, IInv, SharedInv, Treated
<1>2. /\ task \in Ob /\ task \in Claimed /\ task \in Int /\ task \in Rep
      /\ cls[task] \in Rep /\ cls[task] \in Int /\ cls[task] < task
  <2>1. task \in Ob /\ reps[task] \notin {0, task}
    BY <1>1 DEF IInv, TypeOK, SharedInv, DueOnce, Ob, Rep
  <2>2. task \in Claimed /\ cls[task] <= task /\ cls[task] # task
    BY <2>1 DEF Claimed, IInv, SharedInv, ClassesNamed, ClassesAsRequested
  <2> QED
    BY <2>1, <2>2, ClaimedType, ObsAreReps, SMTT(30) DEF IInv, TypeOK
<1>3. TypeOK'
  BY <1>2 DEF IInv, TypeOK, Labels
<1>4. \A u \in Thread \ {t} : UNCHANGED Local(u)
  BY DEF Local, IInv, TypeOK
<1>5. /\ pc'[t] = "find_load" /\ ob'[t] = task /\ req'[t] = <<task, cls[task]>>
      /\ path'[t] = {} /\ at'[t] = c /\ Claimed' = Claimed
  BY DEF IInv, TypeOK, ThreadInv, InPlace, Claimed
<1>6. FindKept(t)'
  BY <1>2, <1>5 DEF FindKept
<1>7. MergeKept(t)' /\ SetKept(t)' /\ InPlace(t)'
  BY <1>1, <1>2, <1>5 DEF MergeKept, SetKept, InPlace
<1> QED
  BY <1>3, <1>4, <1>5, <1>6, <1>7, LocalStep DEF IInv, SharedInv, ClassesNamed, ThreadInv

LEMMA EndTaskKeeps ==
  ASSUME IInv, EndTask
  PROVE  IInv'
<1> USE DEF EndTask, UnsafeRemove, Idle, findVars, mergeVars, setVars, callVars
<1> DEFINE x == task
<1> DEFINE s == reps[task]
<1>1. x \in Ob /\ s \notin {0, x} /\ task # 0
  BY DEF IInv, TypeOK, SharedInv, DueOnce, Ob, Rep
<1>2. /\ x \in Claimed /\ s \in Claimed /\ s < x /\ s \in Rep /\ s \in Ob /\ s \in Int
      /\ cls[s] = cls[x] /\ cls[x] # x
  <2>1. x \in Claimed
    BY <1>1 DEF Claimed
  <2>2. s \in Claimed /\ s <= x /\ cls[s] = cls[x] /\ cls[x] # x
    BY <1>1, <2>1 DEF IInv, SharedInv, ChainsDescend, ClassesAsRequested
  <2> QED
    BY <1>1, <2>1, <2>2, ClaimedType, ObsAreReps DEF IInv
<1>3. \A y \in Ob : reps'[y] = IF y = x THEN 0 ELSE IF reps[y] = x THEN s ELSE reps[y]
  BY DEF RepsWithout
<1>4. \A y \in Ob : cls'[y] = IF y = x THEN 0 ELSE cls[y]
  BY DEF IInv, TypeOK
<1>5. TypeOK'
  <2>1. reps' \in [Ob -> Rep]
    BY <1>2, ObsAreReps DEF RepsWithout, IInv, TypeOK
  <2>2. cls' \in [Ob -> Rep]
    BY ObsAreReps DEF IInv, TypeOK
  <2>3. repCount' \in Int /\ itemCount' \in Int /\ support' \subseteq Ob /\ task' \in Rep
    BY ObsAreReps DEF RootsWithout, IInv, TypeOK
  <2> QED
    BY <2>1, <2>2, <2>3 DEF IInv, TypeOK
<1>6. Claimed' = Claimed \ {x}
  BY <1>2, <1>3, ClaimedType DEF Claimed, IInv
<1>7. ChainsDescend'
  <2>1. ASSUME NEW y \in Claimed \ {x} PROVE reps'[y] \in Claimed \ {x} /\ reps'[y] <= y
    <3>1. y \in Ob /\ y \in Int /\ reps[y] \in Claimed /\ reps[y] <= y
      BY ClaimedType DEF IInv, SharedInv, ChainsDescend
    <3> QED
      BY <1>2, <1>3, <3>1
  <2> QED
    BY <1>6, <2>1 DEF ChainsDescend
<1>8. ClassesAsRequested'
  <2>1. ASSUME NEW y \in Ob
        PROVE  /\ cls'[y] = 0 <=> reps'[y] = 0
               /\ cls'[y] = y <=> reps'[y] = y
               /\ reps'[y] # 0 => cls'[reps'[y]] = cls'[y]
    <3>1. /\ cls[y] = 0 <=> reps[y] = 0
          /\ cls[y] = y <=> reps[y] = y
          /\ reps[y] # 0 => cls[reps[y]] = cls[y] /\ reps[y] \in Ob /\ reps[y] <= y
          /\ y # 0 /\ y \in Int /\ x \in Int
      BY ClaimedType, ObsAreReps, <1>1 DEF IInv, SharedInv, ClassesAsRequested, ChainsDescend
    <3>2. CASE y = x
      BY <1>3, <1>4, <3>1, <3>2
    <3>3. CASE y # x /\ reps[y] = x
      BY <1>1, <1>2, <1>3, <1>4, <3>1, <3>3
    <3>4. CASE y # x /\ reps[y] # x
      BY <1>3, <1>4, <3>1, <3>4
    <3> QED
      BY <3>2, <3>3, <3>4
  <2> QED
    BY <2>1 DEF ClassesAsRequested
<1>9. ClassesNamed'
  <2>1. ASSUME NEW y \in Claimed \ {x}
        PROVE  cls'[y] \in Claimed \ {x} /\ cls'[y] <= y /\ cls'[cls'[y]] = cls'[y]
    <3>1. /\ y \in Ob /\ cls[y] \in Claimed /\ cls[y] \in Ob /\ cls[y] <= y
          /\ cls[cls[y]] = cls[y]
      BY ClaimedType DEF IInv, SharedInv, ClassesNamed
    <3> QED
      BY <1>2, <1>4, <3>1
  <2> QED
    BY <1>6, <2>1 DEF ClassesNamed, IInv, SharedInv
<1>10. DueOnce'
  <2>1. \A y \in Ob : pending[y] > 0 => pending[y] = 1 /\ reps'[y] \notin {0, y}
    <3> TAKE y \in Ob
    <3>1. /\ pending[y] > 0 => pending[y] = 1 /\ reps[y] \notin {0, y} /\ x # y
          /\ reps[y] # 0 => reps[y] <= y
          /\ y \in Int /\ x \in Int
      BY ClaimedType, ObsAreReps, <1>1 DEF IInv, SharedInv, DueOnce, ChainsDescend
    <3> QED
      BY <1>1, <1>2, <1>3, <3>1
  <2> QED
    BY <2>1, ObsAreReps DEF DueOnce
<1>11. Treated' /\ \A c \in Cell : cells'[c] \in Claimed' \cup {0}
  BY <1>1, <1>6 DEF IInv, SharedInv, Treated
<1>12. \A u \in Thread : ThreadInv(u)'
  BY DEF IInv, ThreadInv, FindKept, MergeKept, SetKept, InPlace
<1> QED
  BY <1>5, <1>7, <1>8, <1>9, <1>10, <1>11, <1>12 DEF IInv, SharedInv

-----------------------------------------------------------------------------
(* The theorems.                                                           *)

LEMMA InitIInv == Init => IInv
<1> SUFFICES ASSUME Init PROVE IInv
  OBVIOUS
<1>1. TypeOK
  BY InitTypeOK
<1>2. /\ Claimed = support /\ support \subseteq Ob /\ cls = reps
      /\ \A x \in Ob : reps[x] = IF x \in support THEN x ELSE 0
      /\ \A x \in Ob : x \in Int /\ x # 0
  BY ObsAreReps DEF Init, Claimed
<1>3. ChainsDescend /\ ClassesAsRequested /\ ClassesNamed
  BY <1>2 DEF ChainsDescend, ClassesAsRequested, ClassesNamed
<1>4. DueOnce /\ Treated /\ \A c \in Cell : cells[c] \in Claimed \cup {0}
  BY DEF Init, DueOnce, Treated
<1>5. \A t \in Thread : ThreadInv(t)
  BY DEF Init, ThreadInv, FindKept, MergeKept, SetKept, InPlace
<1> QED
  BY <1>1, <1>3, <1>4, <1>5 DEF IInv, SharedInv

LEMMA NextIInv == IInv /\ [Next]_vars => IInv'
<1> SUFFICES ASSUME IInv, [Next]_vars PROVE IInv'
  OBVIOUS
<1>1. ASSUME NEW t \in Thread, Insert(t) PROVE IInv'
  BY <1>1, StartInsertKeeps, InsertCheckKeeps, InsertCasKeeps, InsertSupportKeeps,
     InsertItemCountKeeps, InsertRepCountKeeps DEF Insert
<1>2. ASSUME NEW t \in Thread, Find(t) PROVE IInv'
  BY <1>2, StartFindKeeps, FindLoadKeeps, FindCompressKeeps, FindReturnKeeps DEF Find
<1>3. ASSUME NEW t \in Thread, Merge(t) PROVE IInv'
  BY <1>3, StartMergeKeeps, MergeCasKeeps, MergeCasSpuriousKeeps, MergeLoadKeeps,
     MergeScheduleKeeps, MergeRepCountKeeps DEF Merge
<1>4. ASSUME NEW t \in Thread, Set(t) PROVE IInv'
  BY <1>4, StartSetKeeps, SetCasKeeps DEF Set
<1>5. CASE MergeTask
  BY <1>5, BeginTaskKeeps, StartReplaceKeeps, EndTaskKeeps DEF MergeTask
<1>6. CASE UNCHANGED vars
  <2>1. \A t \in Thread : ThreadInv(t)'
    BY <1>6 DEF vars, carrierVars, taskVars, findVars, mergeVars, setVars, callVars,
       IInv, ThreadInv, FindKept, MergeKept, SetKept, InPlace, Claimed
  <2>2. TypeOK' /\ SharedInv'
    BY <1>6 DEF vars, carrierVars, taskVars, findVars, mergeVars, setVars, callVars,
       IInv, TypeOK, SharedInv, ChainsDescend, ClassesAsRequested, ClassesNamed,
       DueOnce, Treated, Claimed
  <2> QED
    BY <2>1, <2>2 DEF IInv
<1> QED
  BY <1>1, <1>2, <1>3, <1>4, <1>5, <1>6 DEF Next

LEMMA Invariance == Spec => []IInv
<1> QED
  BY InitIInv, NextIInv, PTL DEF Spec

\* Every variable of the carrier keeps its type.
THEOREM TypeCorrect == Spec => []TypeOK
<1>1. IInv => TypeOK
  BY DEF IInv
<1> QED
  BY <1>1, Invariance, PTL

\* No interleaving of insertions, searches, merges and removals leaves a
\* dangling or rising pointer: every chain of representatives ends.
THEOREM ChainsCorrect == Spec => []ChainsDescend
<1>1. IInv => ChainsDescend
  BY DEF IInv, SharedInv
<1> QED
  BY <1>1, Invariance, PTL

\* No interleaving loses an equation or invents one.
THEOREM ClassesCorrect == Spec => []ClassesAsRequested
<1>1. IInv => ClassesAsRequested
  BY DEF IInv, SharedInv
<1> QED
  BY <1>1, Invariance, PTL

\* A search stays in its class and never returns less than its caller knew.
THEOREM FindCorrect == Spec => []FindInClass
<1>1. IInv => FindInClass
  BY DEF IInv, ThreadInv, FindInClass
<1> QED
  BY <1>1, Invariance, PTL

\* A merge works on the classes it was asked to unite until they are one.
THEOREM MergeCorrect == Spec => []MergeInClass
<1>1. IInv => MergeInClass
  BY DEF IInv, ThreadInv, MergeInClass
<1> QED
  BY <1>1, Invariance, PTL

\* A cell never holds a removed ob, and losers of a race for it merge.
THEOREM CellsCorrect == Spec => []CellsInClass
<1>1. IInv => CellsInClass
  BY DEF IInv, SharedInv, ThreadInv, CellsInClass
<1> QED
  BY <1>1, Invariance, PTL

-----------------------------------------------------------------------------
(***************************************************************************)
(* The refinement: by the invariant the class of an ob is the root at the  *)
(* end of its chain.  The recursive function RootOf is the one function    *)
(* that satisfies its equation, because chains descend.                    *)
(***************************************************************************)
RootsAreClasses == RootOf = cls

LEMMA RootsUnique == IInv => RootsAreClasses
<1> SUFFICES ASSUME IInv PROVE RootOf = cls
  BY DEF RootsAreClasses
<1> DEFINE Follows(f) ==
      f = [x \in Ob |-> IF reps[x] \in {0, x} THEN reps[x] ELSE f[reps[x]]]
<1>1. ASSUME NEW x \in Ob
      PROVE  /\ reps[x] \in {0, x} => cls[x] = reps[x]
             /\ reps[x] \notin {0, x} => /\ reps[x] \in Ob /\ reps[x] < x
                                         /\ cls[reps[x]] = cls[x]
  <2>1. reps[x] # 0 => x \in Claimed /\ reps[x] \in Claimed /\ reps[x] <= x
    BY DEF IInv, SharedInv, ChainsDescend, Claimed
  <2>2. /\ cls[x] = 0 <=> reps[x] = 0
        /\ cls[x] = x <=> reps[x] = x
        /\ reps[x] # 0 => cls[reps[x]] = cls[x]
    BY DEF IInv, SharedInv, ClassesAsRequested
  <2> QED
    BY <2>1, <2>2, ClaimedType DEF IInv
<1>2. Follows(cls)
  <2>1. cls = [x \in Ob |-> cls[x]]
    BY DEF IInv, TypeOK
  <2> QED
    BY <1>1, <2>1
<1>3. Follows(RootOf)
  <2>1. RootOf = CHOOSE f : Follows(f)
    BY DEF RootOf
  <2> HIDE DEF Follows
  <2> QED
    BY <1>2, <2>1
<1>4. ASSUME NEW f, Follows(f) PROVE f = cls
  <2> DEFINE S == {x \in Ob : f[x] # cls[x]}
  <2>1. ASSUME S # {} PROVE FALSE
    <3>1. PICK x \in S : \A y \in S : x <= y
      BY <2>1, Least
    <3>2. f[x] = IF reps[x] \in {0, x} THEN reps[x] ELSE f[reps[x]]
      BY <1>4, <3>1
    <3>3. reps[x] \notin {0, x}
      BY <1>1, <3>1, <3>2
    <3>4. reps[x] \in Ob /\ reps[x] < x /\ x \in Int /\ reps[x] \in Int
      BY <1>1, <3>1, <3>3, ObsAreReps
    <3>5. reps[x] \notin S
      BY <3>1, <3>4
    <3> QED
      BY <1>1, <3>1, <3>2, <3>3, <3>4, <3>5
  <2>2. \A x \in Ob : f[x] = cls[x]
    BY <2>1
  <2>3. f = [x \in Ob |-> f[x]]
    BY <1>4
  <2>4. cls = [x \in Ob |-> cls[x]]
    BY DEF IInv, TypeOK
  <2> QED
    BY <2>2, <2>3, <2>4
<1> QED
  BY <1>3, <1>4

\* Only three steps change the classes, each as one step of the partition.
LEMMA StepsOfClasses ==
  ASSUME IInv, [Next]_vars
  PROVE  \/ cls' = cls
         \/ \E x \in Ob : cls[x] = 0 /\ cls' = [cls EXCEPT ![x] = x]
         \/ \E x, y \in Claimed : cls' = United(cls, x, y)
         \/ \E x \in Claimed : /\ cls[x] # x /\ cls' = [cls EXCEPT ![x] = 0]
                               /\ \A c \in Cell : cells[c] # x
<1> USE DEF carrierVars, MergeReturn
<1>1. ASSUME NEW t \in Thread, Insert(t)
      PROVE  cls' = cls \/ \E x \in Ob : cls[x] = 0 /\ cls' = [cls EXCEPT ![x] = x]
  <2>1. CASE InsertCas(t)
    <3>1. ob[t] \in Ob
      BY <2>1 DEF InsertCas, IInv, ThreadInv, InPlace
    <3> QED
      BY <2>1, <3>1 DEF InsertCas, IInv, SharedInv, ClassesAsRequested
  <2>2. CASE ~ InsertCas(t)
    BY <1>1, <2>2 DEF Insert, StartInsert, InsertCheck, InsertSupport,
       InsertItemCount, InsertRepCount
  <2> QED
    BY <2>1, <2>2
<1>2. ASSUME NEW t \in Thread, Find(t) PROVE cls' = cls
  BY <1>2 DEF Find, StartFind, FindLoad, FindCompress, FindReturn
<1>3. ASSUME NEW t \in Thread, Merge(t)
      PROVE  cls' = cls \/ \E x, y \in Claimed : cls' = United(cls, x, y)
  <2>1. CASE MergeCas(t)
    <3>1. req[t][1] \in Claimed /\ req[t][2] \in Claimed
      BY <2>1 DEF MergeCas, IInv, ThreadInv, MergeKept
    <3> QED
      BY <2>1, <3>1 DEF MergeCas
  <2>2. CASE ~ MergeCas(t)
    BY <1>3, <2>2 DEF Merge, StartMerge, MergeCasSpurious, MergeLoad,
       MergeSchedule, MergeRepCount
  <2> QED
    BY <2>1, <2>2
<1>4. ASSUME NEW t \in Thread, Set(t) PROVE cls' = cls
  BY <1>4 DEF Set, StartSet, SetCas
<1>5. CASE MergeTask
  <2>1. CASE EndTask
    <3>1. task \in Ob /\ reps[task] \notin {0, task}
      BY <2>1 DEF EndTask, IInv, TypeOK, SharedInv, DueOnce, Ob, Rep
    <3>2. task \in Claimed /\ cls[task] # task
      BY <3>1 DEF Claimed, IInv, SharedInv, ClassesAsRequested
    <3> QED
      BY <2>1, <3>2 DEF EndTask, UnsafeRemove, IInv, SharedInv, Treated
  <2>2. CASE ~ EndTask
    BY <1>5, <2>2 DEF MergeTask, BeginTask, StartReplace
  <2> QED
    BY <2>1, <2>2
<1>6. CASE UNCHANGED vars
  BY <1>6 DEF vars
<1> QED
  BY <1>1, <1>2, <1>3, <1>4, <1>5, <1>6 DEF Next

\* Whatever its threads do, the carrier is a partition of obs, of which they
\* insert, unite and remove in single steps.
THEOREM CarrierImplementsPartition == Spec => ImplementsPartition
<1>1. ASSUME Init PROVE Abstract!Init
  <2>1. RootOf = reps
    BY <1>1, InitIInv, RootsUnique DEF Init, RootsAreClasses
  <2> QED
    BY <1>1, <2>1 DEF Init, Abstract!Init, Abstract!Ob, Ob
<1>2. Spec => []RootsAreClasses
  BY RootsUnique, Invariance, PTL
<1>3. ASSUME IInv, RootsAreClasses, RootsAreClasses', [Next]_vars
      PROVE  [Abstract!Next]_RootOf
  <2>1. RootOf = cls /\ RootOf' = cls'
    BY <1>3 DEF RootsAreClasses
  <2>2. Abstract!Ob = Ob /\ Abstract!Present = Claimed
    BY <1>3, <2>1 DEF Abstract!Ob, Ob, Abstract!Present, Claimed, IInv, SharedInv,
       ClassesAsRequested
  <2>3. \A x, y : Abstract!United(cls, x, y) = United(cls, x, y)
    BY <2>2 DEF Abstract!United, United, LowerOf
  <2>4. CASE cls' = cls
    BY <2>1, <2>4
  <2>5. ASSUME NEW x \in Ob, cls[x] = 0, cls' = [cls EXCEPT ![x] = x]
        PROVE  Abstract!Next
    BY <2>1, <2>2, <2>5 DEF Abstract!Next, Abstract!Insert
  <2>6. ASSUME NEW x \in Claimed, NEW y \in Claimed, cls' = United(cls, x, y)
        PROVE  Abstract!Next
    <3>1. Abstract!Unite(x, y)
      BY <2>1, <2>2, <2>3, <2>6 DEF Abstract!Unite
    <3> QED
      BY <1>3, <2>2, <3>1, ClaimedType DEF Abstract!Next, IInv
  <2>7. ASSUME NEW x \in Claimed, cls[x] # x, cls' = [cls EXCEPT ![x] = 0]
        PROVE  Abstract!Next
    BY <1>3, <2>1, <2>2, <2>7, ClaimedType DEF Abstract!Next, Abstract!Remove, IInv
  <2> QED
    BY <1>3, <2>4, <2>5, <2>6, <2>7, StepsOfClasses
<1> QED
  BY <1>1, <1>2, <1>3, Invariance, PTL DEF Spec, ImplementsPartition, Abstract!Spec

-----------------------------------------------------------------------------
(* The action properties of the cells.                                     *)

\* A step changes a cell's value only to an equal one, and only while the
\* classes stay.
LEMMA StepsOfCells ==
  ASSUME IInv, [Next]_vars, NEW c \in Cell, cells[c] # 0
  PROVE  \/ cells'[c] = cells[c]
         \/ cls' = cls /\ cells'[c] \in Claimed /\ cls[cells'[c]] = cls[cells[c]]
<1> USE DEF taskVars
<1>1. ASSUME NEW t \in Thread, FindReturn(t), at[t] # NoCell
      PROVE  \/ cells'[c] = cells[c]
             \/ cls' = cls /\ cells'[c] \in Claimed /\ cls[cells'[c]] = cls[cells[c]]
  <2>1. FindKept(t) /\ InPlace(t) /\ SharedInv
    BY DEF IInv, ThreadInv
  <2>2. task # 0 /\ req[t][1] = task /\ pc[t] = "find_cas"
    BY <1>1, <2>1 DEF FindReturn, InPlace
  <2>3. val[t] \in Claimed /\ cls[val[t]] = cls[task]
    BY <2>1, <2>2 DEF FindKept
  <2>4. cells' = [cells EXCEPT ![at[t]] = Replaced(t)] /\ cls' = cls
    BY <1>1 DEF FindReturn, carrierVars
  <2> QED
    BY <2>3, <2>4 DEF Replaced, IInv, TypeOK
<1>2. ASSUME NEW t \in Thread, SetCas(t)
      PROVE  \/ cells'[c] = cells[c]
             \/ cls' = cls /\ cells'[c] \in Claimed /\ cls[cells'[c]] = cls[cells[c]]
  <2>1. CASE Expected(t)
    <3>1. cells' = [cells EXCEPT ![at[t]] = src[t]] /\ cls' = cls
      BY <1>2, <2>1 DEF SetCas, carrierVars
    <3> QED
      BY <1>2, <2>1, <3>1, SetCasPlace DEF Expected, IInv, TypeOK
  <2>2. CASE ~ Expected(t)
    BY <1>2, <2>2 DEF SetCas
  <2> QED
    BY <2>1, <2>2
<1>3. ASSUME NEW t \in Thread, Insert(t) PROVE cells' = cells
  BY <1>3 DEF Insert, StartInsert, InsertCheck, InsertCas, InsertSupport,
     InsertItemCount, InsertRepCount
<1>4. ASSUME NEW t \in Thread, Find(t), ~ (FindReturn(t) /\ at[t] # NoCell)
      PROVE  cells' = cells
  BY <1>4 DEF Find, StartFind, FindLoad, FindCompress, FindReturn
<1>5. ASSUME NEW t \in Thread, Merge(t) PROVE cells' = cells
  BY <1>5 DEF Merge, StartMerge, MergeCas, MergeCasSpurious, MergeLoad,
     MergeSchedule, MergeRepCount
<1>6. ASSUME NEW t \in Thread, Set(t), ~ SetCas(t) PROVE cells' = cells
  BY <1>6 DEF Set, StartSet
<1>7. MergeTask => cells' = cells
  BY DEF MergeTask, BeginTask, StartReplace, EndTask
<1>8. UNCHANGED vars => cells' = cells
  BY DEF vars
<1> QED
  BY <1>1, <1>2, <1>3, <1>4, <1>5, <1>6, <1>7, <1>8 DEF Next

\* The value of a cell is only ever replaced by an equal one, and an ob is
\* removed only when no cell holds it.
THEOREM CellsKeepClass == Spec => CellKeepsItsClass
<1>1. ASSUME IInv, [Next]_vars, NEW c \in Cell, cells[c] # 0
      PROVE  /\ cells'[c] \in Ob
             /\ cls'[cells'[c]] # 0
             /\ cls'[cells'[c]] = cls'[cls[cells[c]]]
  <2> DEFINE y == cells[c]
  <2>1. /\ y \in Claimed /\ y \in Ob /\ cls[y] \in Claimed /\ cls[y] \in Ob
        /\ cls[cls[y]] = cls[y]
    BY <1>1, ClaimedType DEF IInv, SharedInv, ClassesNamed
  <2>2. \A z \in Claimed : z \in Ob /\ cls[z] # 0
    BY ClaimedType, <1>1 DEF IInv, SharedInv, ClassesAsRequested
  <2>3. CASE cls' = cls /\ cells'[c] \in Claimed /\ cls[cells'[c]] = cls[y]
    BY <2>1, <2>2, <2>3
  <2>4. CASE cells'[c] = y
    <3>1. ASSUME NEW x \in Ob, cls[x] = 0, cls' = [cls EXCEPT ![x] = x]
          PROVE  cls'[y] = cls[y] /\ cls'[cls[y]] = cls[y]
      BY <1>1, <2>1, <2>2, <3>1 DEF IInv, TypeOK
    <3>2. ASSUME NEW x \in Claimed, NEW w \in Claimed, cls' = United(cls, x, w)
          PROVE  cls'[y] = cls'[cls[y]] /\ cls'[y] # 0
      BY <2>1, <2>2, <3>2 DEF United, LowerOf
    <3>3. ASSUME NEW x \in Claimed, cls[x] # x, cls' = [cls EXCEPT ![x] = 0],
                 y # x
          PROVE  cls'[y] = cls[y] /\ cls'[cls[y]] = cls[y]
      BY <1>1, <2>1, <3>3 DEF IInv, TypeOK
    <3> QED
      BY <1>1, <2>1, <2>2, <2>4, <3>1, <3>2, <3>3, StepsOfClasses
  <2> QED
    BY <1>1, <2>3, <2>4, StepsOfCells
<1>2. ASSUME IInv, [Next]_vars
      PROVE  [\A c \in Cell : cells[c] # 0 =>
                /\ cells'[c] \in Ob
                /\ cls'[cells'[c]] # 0
                /\ cls'[cells'[c]] = cls'[cls[cells[c]]]]_vars
  BY <1>1, <1>2
<1> QED
  BY <1>2, Invariance, PTL DEF Spec, CellKeepsItsClass

\* When a thread is done with a cell the cell's value is in the class of what
\* the thread was to write.
THEOREM SetsAgree == Spec => SetReturnsAgreed
<1>1. ASSUME IInv, [Next]_vars, NEW t \in Thread,
             at[t] # NoCell, at'[t] = NoCell, task = 0
      PROVE  cls'[cells'[at[t]]] = cls'[req[t][1]]
  <2> USE DEF carrierVars, taskVars, callVars
  <2>1. at[t] \in Cell /\ pc[t] \notin {"idle", "ins_check", "ins_cas", "ins_support",
          "ins_item", "ins_rep", "find_load", "find_cas"}
    BY <1>1 DEF IInv, TypeOK, ThreadInv, InPlace
  <2>2. PICK u \in Thread : Insert(u) \/ Find(u) \/ Merge(u) \/ Set(u)
    <3>1. ~ UNCHANGED vars
      BY <1>1 DEF vars
    <3>2. ~ MergeTask
      BY <1>1, <2>1 DEF MergeTask, BeginTask, StartReplace, EndTask, Idle
    <3> QED
      BY <1>1, <3>1, <3>2 DEF Next
  <2>3. /\ SetKept(t) /\ MergeKept(t) /\ at[t] \in Cell
        /\ 0 \notin Claimed
    BY <1>1, <2>1, ObsAreReps, ClaimedType DEF IInv, ThreadInv
  <2>4. CASE Insert(u)
    <3>1. u = t => pc[t] \in {"idle", "ins_check", "ins_cas", "ins_support",
                              "ins_item", "ins_rep"}
      BY <2>4 DEF Insert, StartInsert, InsertCheck, InsertCas, InsertSupport,
         InsertItemCount, InsertRepCount
    <3>2. u # t => at'[t] = at[t]
      BY <1>1, <2>4 DEF Insert, StartInsert, InsertCheck, InsertCas, InsertSupport,
         InsertItemCount, InsertRepCount, Return, IInv, TypeOK
    <3> QED
      BY <1>1, <2>1, <3>1, <3>2
  <2>5. CASE Find(u)
    <3>1. u = t => pc[t] \in {"idle", "find_load", "find_cas"}
      BY <2>5 DEF Find, StartFind, FindLoad, FindCompress, FindReturn
    <3>2. u # t => at'[t] = at[t]
      BY <1>1, <2>5 DEF Find, StartFind, FindLoad, FindCompress, FindReturn, Return,
         IInv, TypeOK
    <3> QED
      BY <1>1, <2>1, <3>1, <3>2
  <2>6. CASE Merge(u)
    <3>1. u = t /\ (MergeLoad(t) \/ MergeRepCount(t))
      BY <1>1, <2>6 DEF Merge, StartMerge, MergeCas, MergeCasSpurious, MergeLoad,
         MergeSchedule, MergeRepCount, MergeReturn, Return, IInv, TypeOK
    <3>2. cls[req[t][1]] = cls[req[t][2]]
      <4>1. CASE MergeLoad(t)
        <5>1. pc[t] = "merge_load" /\ dep[t] = reps[rep[t]]
          BY <1>1, <4>1 DEF MergeLoad, Joined
        <5>2. /\ dep[t] \in Claimed /\ rep[t] \in Claimed
              /\ SamePair(cls[dep[t]], cls[rep[t]], cls[req[t][1]], cls[req[t][2]])
          BY <2>3, <5>1 DEF MergeKept
        <5>3. cls[dep[t]] = cls[rep[t]]
          BY <5>1, <5>2, ClaimedType, <1>1 DEF IInv, SharedInv, ClassesAsRequested
        <5> QED
          BY <5>2, <5>3 DEF SamePair
      <4>2. CASE MergeRepCount(t)
        BY <2>3, <4>2 DEF MergeRepCount, MergeKept
      <4> QED
        BY <3>1, <4>1, <4>2
    <3>3. cells' = cells /\ cls' = cls /\ pc[t] # "set_cas"
      BY <3>1 DEF MergeLoad, MergeRepCount
    <3> QED
      BY <1>1, <2>3, <3>2, <3>3 DEF SetKept
  <2>7. CASE Set(u)
    <3>1. u = t /\ SetCas(t)
      BY <1>1, <2>7, CarrierAssumption DEF Set, StartSet, SetCas, Return, Cell,
         IInv, TypeOK
    <3>2. cls' = cls /\ cls[src[t]] = cls[req[t][1]]
      BY <1>1, <3>1, SetCasPlace DEF SetCas
    <3>3. cells'[at[t]] = src[t]
      BY <1>1, <2>1, <3>1 DEF SetCas, Agrees, IInv, TypeOK
    <3> QED
      BY <3>2, <3>3
  <2> QED
    BY <2>2, <2>4, <2>5, <2>6, <2>7
<1>2. ASSUME IInv, [Next]_vars
      PROVE  [\A t \in Thread : at[t] # NoCell /\ at'[t] = NoCell /\ task = 0 =>
                cls'[cells'[at[t]]] = cls'[req[t][1]]]_vars
  BY <1>1, <1>2
<1> QED
  BY <1>2, Invariance, PTL DEF Spec, SetReturnsAgreed

\* An ob that is not a root is due: its MergeTask is announced, queued or running.
Due ==
  \A x \in Ob : reps[x] \notin {0, x} =>
    \/ pending[x] = 1
    \/ task = x
    \/ Announcing(x) # {}

-----------------------------------------------------------------------------
(* Each merged ob has one MergeTask.                                       *)

\* A step of t that leaves the roots and the MergeTasks alone.
LEMMA SameDue ==
  ASSUME IInv, Due, NEW t \in Thread, NEW l, pc' = [pc EXCEPT ![t] = l],
         pc[t] # "merge_sched",
         \A u \in Thread \ {t} : dep'[u] = dep[u],
         UNCHANGED <<pending, task>>,
         \A x \in Ob : reps'[x] \notin {0, x} => reps[x] \notin {0, x}
  PROVE  Due'
<1>1. \A u \in Thread : pc[u] = "merge_sched" => pc'[u] = "merge_sched" /\ dep'[u] = dep[u]
  BY DEF IInv, TypeOK
<1>2. \A x \in Ob : Announcing(x) # {} => Announcing(x)' # {}
  BY <1>1 DEF Announcing
<1> QED
  BY <1>2 DEF Due

\* Returning leaves the shared variables and the other threads alone.
LEMMA ReturnDue ==
  ASSUME IInv, Due, NEW t \in Thread, Return(t), pc[t] # "merge_sched",
         UNCHANGED <<pending, task>>,
         \A x \in Ob : reps'[x] \notin {0, x} => reps[x] \notin {0, x}
  PROVE  Due'
BY SameDue DEF Return, Goto, IInv, TypeOK

LEMMA MergeReturnDue ==
  ASSUME IInv, Due, NEW t \in Thread, NEW r, MergeReturn(t, r), pc[t] # "merge_sched",
         UNCHANGED <<pending, task, reps>>
  PROVE  Due'
<1>1. CASE at[t] \in AndCell /\ old[t] # r
  BY <1>1, SameDue DEF MergeReturn, Goto, IInv, TypeOK
<1>2. CASE ~ (at[t] \in AndCell /\ old[t] # r)
  BY <1>2, ReturnDue DEF MergeReturn
<1> QED
  BY <1>1, <1>2

\* The exchange of a merge announces the MergeTask of the ob that it links.
LEMMA MergeCasDue ==
  ASSUME IInv, Due, NEW t \in Thread, MergeCas(t)
  PROVE  Due'
<1>1. pc[t] = "merge_cas" /\ UNCHANGED <<pending, task>>
  BY DEF MergeCas, taskVars
<1>2. CASE Linkable(dep[t])
  <2>1. /\ reps' = [reps EXCEPT ![dep[t]] = rep[t]] /\ dep' = dep
        /\ pc' = [pc EXCEPT ![t] = "merge_sched"]
    BY <1>2 DEF MergeCas, Goto
  <2>2. \A x \in Ob : x = dep[t] => Announcing(x)' # {}
    BY <2>1 DEF Announcing, IInv, TypeOK
  <2>3. \A x \in Ob : x # dep[t] => reps'[x] = reps[x] /\ (Announcing(x) # {} => Announcing(x)' # {})
    BY <1>1, <2>1 DEF Announcing, IInv, TypeOK
  <2> QED
    BY <1>1, <2>2, <2>3 DEF Due
<1>3. CASE ~ Linkable(dep[t])
  <2>1. /\ reps' = reps /\ dep' = [dep EXCEPT ![t] = reps[dep[t]]]
        /\ pc' = [pc EXCEPT ![t] = "merge_load"]
    BY <1>3 DEF MergeCas, Goto
  <2> QED
    BY <1>1, <2>1, SameDue DEF IInv, TypeOK
<1> QED
  BY <1>2, <1>3

\* The MergeTask that was announced is queued.
LEMMA MergeScheduleDue ==
  ASSUME IInv, Due, NEW t \in Thread, MergeSchedule(t)
  PROVE  Due'
<1>1. /\ pc[t] = "merge_sched" /\ pending' = [pending EXCEPT ![dep[t]] = @ + 1]
      /\ pc' = [pc EXCEPT ![t] = "merge_count"] /\ UNCHANGED <<reps, task, dep>>
  BY DEF MergeSchedule, Goto, carrierVars, mergeVars
<1>2. dep[t] \in Ob /\ pending[dep[t]] = 0
  BY <1>1 DEF IInv, SharedInv, DueOnce
<1>3. \A x \in Ob : x = dep[t] => pending'[x] = 1
  BY <1>1, <1>2 DEF IInv, TypeOK
<1>4. \A x \in Ob : x # dep[t] => pending'[x] = pending[x] /\ (Announcing(x) # {} => Announcing(x)' # {})
  BY <1>1 DEF Announcing, IInv, TypeOK
<1> QED
  BY <1>1, <1>3, <1>4 DEF Due

\* It is taken, and at its end its ob is free.
LEMMA BeginTaskDue ==
  ASSUME IInv, Due, NEW x \in Ob, BeginTask(x)
  PROVE  Due'
<1>1. /\ task = 0 /\ task' = x /\ pending' = [pending EXCEPT ![x] = @ - 1]
      /\ UNCHANGED <<reps, pc, dep>>
  BY DEF BeginTask, carrierVars, mergeVars
<1>2. \A y \in Ob : y # 0 /\ Announcing(y)' = Announcing(y) /\ (y # x => pending'[y] = pending[y])
  BY <1>1, ObsAreReps DEF Announcing, IInv, TypeOK
<1> QED
  BY <1>1, <1>2 DEF Due

LEMMA EndTaskDue ==
  ASSUME IInv, Due, EndTask
  PROVE  Due'
<1>1. /\ reps' = RepsWithout(task) /\ UNCHANGED <<pending, pc, dep>>
  BY DEF EndTask, UnsafeRemove, mergeVars
<1>2. \A y \in Ob : y # task /\ reps'[y] \notin {0, y} => reps[y] \notin {0, y}
  BY <1>1 DEF RepsWithout, EndTask
<1>3. \A y \in Ob : y = task => reps'[y] = 0
  BY <1>1 DEF RepsWithout
<1>4. \A y \in Ob : Announcing(y)' = Announcing(y)
  BY <1>1 DEF Announcing
<1> QED
  BY <1>1, <1>2, <1>3, <1>4 DEF Due

LEMMA NextDue == IInv /\ Due /\ [Next]_vars => Due'
<1> SUFFICES ASSUME IInv, Due, [Next]_vars PROVE Due'
  OBVIOUS
<1> USE DEF Goto, carrierVars, taskVars, findVars, mergeVars, setVars, callVars
<1>1. ASSUME NEW t \in Thread, Insert(t) PROVE Due'
  <2>1. CASE StartInsert(t)
    BY <2>1, SameDue DEF StartInsert
  <2>2. CASE InsertCheck(t)
    BY <2>2, SameDue, ReturnDue DEF InsertCheck
  <2>3. CASE InsertCas(t)
    <3>1. /\ UNCHANGED <<pending, task, dep>> /\ pc[t] = "ins_cas"
          /\ \E l \in Labels : pc' = [pc EXCEPT ![t] = l]
      BY <2>3 DEF InsertCas, Labels
    <3>2. \A x \in Ob : reps'[x] \notin {0, x} => reps[x] \notin {0, x}
      BY <2>3 DEF InsertCas, IInv, TypeOK
    <3> QED
      BY <3>1, <3>2, SameDue
  <2>4. CASE InsertSupport(t)
    BY <2>4, SameDue DEF InsertSupport
  <2>5. CASE InsertItemCount(t)
    BY <2>5, SameDue DEF InsertItemCount
  <2>6. CASE InsertRepCount(t)
    BY <2>6, ReturnDue DEF InsertRepCount
  <2> QED
    BY <1>1, <2>1, <2>2, <2>3, <2>4, <2>5, <2>6 DEF Insert
<1>2. ASSUME NEW t \in Thread, Find(t) PROVE Due'
  <2>1. ASSUME NEW x \in Ob, StartFind(t, x) PROVE Due'
    BY <2>1, SameDue DEF StartFind, CallFind
  <2>2. CASE FindLoad(t)
    <3>1. UNCHANGED <<reps, pending, task, dep>> /\ pc[t] = "find_load"
      BY <2>2 DEF FindLoad
    <3>2. \E l \in Labels : pc' = [pc EXCEPT ![t] = l]
      BY <2>2 DEF FindLoad, Labels, IInv, TypeOK
    <3> QED
      BY <3>1, <3>2, SameDue
  <2>3. CASE FindCompress(t)
    <3>1. UNCHANGED <<pending, task, dep>> /\ pc[t] = "find_cas" /\ pc' = [pc EXCEPT ![t] = "find_cas"]
      BY <2>3 DEF FindCompress, IInv, TypeOK
    <3>2. Innermost(t) \in path[t] /\ Innermost(t) \in Ob
      BY <2>3, InnermostIsLeast DEF FindCompress, IInv, TypeOK
    <3>3. \A x \in Ob : reps'[x] \notin {0, x} => reps[x] \notin {0, x}
      <4>1. reps[Innermost(t)] = ob[t] => reps[Innermost(t)] \notin {0, Innermost(t)}
        <5>1. FindKept(t) /\ TypeOK
          BY DEF IInv, ThreadInv
        <5>2. ob[t] \in Claimed /\ ob[t] < Innermost(t)
          BY <3>1, <3>2, <5>1 DEF FindKept
        <5> QED
          BY <3>2, <5>1, <5>2, ObsAreReps DEF Claimed, Ob
      <4>2. \A x \in Ob : x # Innermost(t) => reps'[x] = reps[x]
        BY <2>3 DEF FindCompress, IInv, TypeOK
      <4> QED
        BY <2>3, <3>2, <4>1, <4>2 DEF FindCompress, IInv, TypeOK
    <3> QED
      BY <3>1, <3>3, SameDue
  <2>4. CASE FindReturn(t)
    BY <2>4, ReturnDue DEF FindReturn
  <2> QED
    BY <1>2, <2>1, <2>2, <2>3, <2>4 DEF Find
<1>3. ASSUME NEW t \in Thread, Merge(t) PROVE Due'
  <2>1. ASSUME NEW x \in Ob, NEW y \in Ob, StartMerge(t, x, y) PROVE Due'
    BY <2>1, SameDue DEF StartMerge, CallMerge, IInv, TypeOK
  <2>2. CASE MergeCasSpurious(t)
    BY <2>2, SameDue DEF MergeCasSpurious
  <2>3. CASE MergeLoad(t)
    <3>1. CASE Joined(dep[t], reps[rep[t]])
      BY <2>3, <3>1, MergeReturnDue DEF MergeLoad
    <3>2. CASE ~ Joined(dep[t], reps[rep[t]])
      BY <2>3, <3>2, SameDue DEF MergeLoad, IInv, TypeOK
    <3> QED
      BY <3>1, <3>2
  <2>4. CASE MergeRepCount(t)
    BY <2>4, MergeReturnDue DEF MergeRepCount
  <2> QED
    BY <1>3, <2>1, <2>2, <2>3, <2>4, MergeCasDue, MergeScheduleDue DEF Merge
<1>4. ASSUME NEW t \in Thread, Set(t) PROVE Due'
  <2>1. ASSUME NEW c \in Cell, NEW x \in Ob, StartSet(t, c, x) PROVE Due'
    BY <2>1, SameDue DEF StartSet
  <2>2. CASE SetCas(t)
    <3>1. CASE Expected(t) \/ Agrees(t)
      BY <2>2, <3>1, ReturnDue DEF SetCas
    <3>2. CASE ~ (Expected(t) \/ Agrees(t))
      BY <2>2, <3>2, SameDue DEF SetCas, CallMerge, IInv, TypeOK
    <3> QED
      BY <3>1, <3>2
  <2> QED
    BY <1>4, <2>1, <2>2 DEF Set
<1>5. CASE MergeTask
  <2>1. ASSUME NEW t \in Thread, NEW c \in Cell, StartReplace(t, c) PROVE Due'
    BY <2>1, SameDue DEF StartReplace, CallFind
  <2> QED
    BY <1>5, <2>1, BeginTaskDue, EndTaskDue DEF MergeTask
<1>6. CASE UNCHANGED vars
  BY <1>6 DEF vars, Due, Announcing
<1> QED
  BY <1>1, <1>2, <1>3, <1>4, <1>5, <1>6 DEF Next

\* Every ob that was merged into another has exactly one MergeTask, on its way,
\* queued or running, and no root has one, for any number of threads.
THEOREM MergesScheduledOnce == Spec => []MergeScheduledOnce
<1>1. Init => Due
  BY DEF Init, Due
<1>2. IInv /\ Due => MergeScheduledOnce
  <2> SUFFICES ASSUME IInv, Due, NEW x \in Ob
               PROVE  pending[x] + Cardinality(Announcing(x)) + (IF task = x THEN 1 ELSE 0)
                        = IF reps[x] \in {0, x} THEN 0 ELSE 1
    BY DEF MergeScheduledOnce
  <2>1. /\ pending[x] \in Nat /\ x # 0
        /\ pending[x] > 0 => pending[x] = 1 /\ reps[x] \notin {0, x} /\ task # x
        /\ task = x => reps[x] \notin {0, x}
    BY ObsAreReps DEF IInv, TypeOK, SharedInv, DueOnce
  <2>2. \A t \in Announcing(x) : /\ pending[x] = 0 /\ task # x /\ reps[x] \notin {0, x}
                                 /\ Announcing(x) = {t}
    <3> TAKE t \in Announcing(x)
    <3>1. t \in Thread /\ pc[t] = "merge_sched" /\ dep[t] = x
      BY DEF Announcing
    <3>2. pending[x] = 0 /\ task # x /\ Announcing(x) = {t}
      BY <3>1 DEF IInv, SharedInv, DueOnce, Announcing
    <3>3. reps[x] \notin {0, x}
      BY <3>1, ClaimedType DEF IInv, ThreadInv, MergeKept, Claimed
    <3> QED
      BY <3>2, <3>3
  <2>3. CASE Announcing(x) = {}
    BY <2>1, <2>3, FS_EmptySet DEF Due
  <2>4. CASE Announcing(x) # {}
    <3>1. PICK t : Announcing(x) = {t}
      BY <2>2, <2>4
    <3>2. Cardinality(Announcing(x)) = 1
      BY <3>1, FS_Singleton
    <3>3. pending[x] = 0 /\ task # x /\ reps[x] \notin {0, x}
      BY <2>2, <3>1
    <3> QED
      BY <2>1, <3>2, <3>3
  <2> QED
    BY <2>3, <2>4
<1> QED
  BY <1>1, <1>2, NextDue, Invariance, PTL DEF Spec

-----------------------------------------------------------------------------
(***************************************************************************)
(* The counters.  An operation in flight is ahead of or behind a counter   *)
(* by what its label says.                                                 *)
(***************************************************************************)
Roots == {x \in Claimed : reps[x] = x}

Publishing == {"ins_support"}
Adding     == {"ins_support", "ins_item"}
Rooting    == {"ins_support", "ins_item", "ins_rep"}
Unrooting  == {"merge_sched", "merge_count"}
Weight(l, L) == IF l \in L THEN 1 ELSE 0

LEMMA FiniteObs ==
  /\ IsFiniteSet(Ob)
  /\ \A S \in SUBSET Ob : IsFiniteSet(S) /\ Cardinality(S) \in Nat
  /\ \A S \in SUBSET Ob : \A x \in Ob \ S : Cardinality(S \cup {x}) = Cardinality(S) + 1
  /\ \A S \in SUBSET Ob : \A x \in S : Cardinality(S \ {x}) = Cardinality(S) - 1
<1>1. IsFiniteSet(Ob)
  BY FS_Interval, CarrierAssumption DEF Ob
<1>2. \A S \in SUBSET Ob : IsFiniteSet(S) /\ Cardinality(S) \in Nat
  BY <1>1, FS_Subset, FS_CardinalityType
<1> QED
  BY <1>1, <1>2, FS_AddElement, FS_RemoveElement

\* One thread moves: the number of threads at a set of labels follows it.
LEMMA AtStep ==
  ASSUME TypeOK, NEW t \in Thread, NEW l, pc' = [pc EXCEPT ![t] = l], NEW L
  PROVE  /\ Cardinality(At(L)) \in Nat
         /\ Cardinality(At(L)') = Cardinality(At(L)) + Weight(l, L) - Weight(pc[t], L)
         /\ \A u \in Thread \ {t} : u \in At(L)' <=> u \in At(L)
<1>1. IsFiniteSet(At(L)) /\ Cardinality(At(L)) \in Nat
  BY CarrierAssumption, FS_Subset, FS_CardinalityType DEF At
<1>2. /\ \A u \in Thread \ {t} : u \in At(L)' <=> u \in At(L)
      /\ t \in At(L)' <=> l \in L
      /\ t \in At(L) <=> pc[t] \in L
      /\ At(L)' \subseteq Thread /\ At(L) \subseteq Thread
  BY DEF At, TypeOK
<1>3. CASE (l \in L) <=> (pc[t] \in L)
  <2>1. At(L)' = At(L)
    BY <1>2, <1>3
  <2> QED
    BY <1>1, <1>2, <1>3, <2>1 DEF Weight
<1>4. CASE l \in L /\ pc[t] \notin L
  <2>1. At(L)' = At(L) \cup {t} /\ t \notin At(L)
    BY <1>2, <1>4
  <2>2. Cardinality(At(L) \cup {t}) = Cardinality(At(L)) + 1
    BY <1>1, <2>1, FS_AddElement
  <2>3. Weight(l, L) = 1 /\ Weight(pc[t], L) = 0
    BY <1>4 DEF Weight
  <2> QED
    BY <1>1, <1>2, <2>1, <2>2, <2>3
<1>5. CASE l \notin L /\ pc[t] \in L
  <2>1. At(L)' = At(L) \ {t} /\ t \in At(L)
    BY <1>2, <1>5
  <2>2. Cardinality(At(L) \ {t}) = Cardinality(At(L)) - 1
    BY <1>1, <2>1, FS_RemoveElement
  <2>3. Weight(l, L) = 0 /\ Weight(pc[t], L) = 1
    BY <1>5 DEF Weight
  <2> QED
    BY <1>1, <1>2, <2>1, <2>2, <2>3
<1> QED
  BY <1>3, <1>4, <1>5

\* The published slots and those about to be.
Slots == support \cup {ob[t] : t \in At(Publishing)}

LEMMA CountsRead ==
  CountsExact <=>
    /\ Claimed = Slots
    /\ itemCount = Cardinality(Claimed) - Cardinality(At(Adding))
    /\ repCount = Cardinality(Roots) - Cardinality(At(Rooting)) + Cardinality(At(Unrooting))
BY DEF CountsExact, Slots, Roots, Publishing, Adding, Rooting, Unrooting

LEMMA CountsReadNext ==
  CountsExact' <=>
    /\ Claimed' = Slots'
    /\ itemCount' = Cardinality(Claimed') - Cardinality(At(Adding)')
    /\ repCount' = Cardinality(Roots') - Cardinality(At(Rooting)') + Cardinality(At(Unrooting)')
BY DEF CountsExact, Slots, Roots, Publishing, Adding, Rooting, Unrooting

\* A step of t keeps both counters exact if each moves by what the step claims,
\* roots or merges, as corrected by where t is and goes.
LEMMA CountStep ==
  ASSUME IInv, CountsExact, NEW t \in Thread, NEW l, pc' = [pc EXCEPT ![t] = l],
         Claimed' = Slots', Claimed' \subseteq Ob,
         itemCount' = itemCount + (Cardinality(Claimed') - Cardinality(Claimed))
                        - (Weight(l, Adding) - Weight(pc[t], Adding)),
         repCount' = repCount + (Cardinality(Roots') - Cardinality(Roots))
                        - (Weight(l, Rooting) - Weight(pc[t], Rooting))
                        + (Weight(l, Unrooting) - Weight(pc[t], Unrooting))
  PROVE  CountsExact'
<1>0. TypeOK
  BY DEF IInv
<1>1. /\ Claimed \in SUBSET Ob /\ Claimed' \in SUBSET Ob
      /\ Roots \in SUBSET Ob /\ Roots' \in SUBSET Ob
  BY <1>0, ClaimedType DEF Roots
<1>2. /\ Cardinality(Claimed) \in Nat /\ Cardinality(Claimed') \in Nat
      /\ Cardinality(Roots) \in Nat /\ Cardinality(Roots') \in Nat
  BY <1>1, FiniteObs
<1>3. \A m, L : Weight(m, L) \in {0, 1}
  BY DEF Weight
<1>4. /\ Cardinality(At(Adding)) \in Nat
      /\ Cardinality(At(Adding)') = Cardinality(At(Adding)) + Weight(l, Adding) - Weight(pc[t], Adding)
  BY <1>0, AtStep
<1>5. /\ Cardinality(At(Rooting)) \in Nat
      /\ Cardinality(At(Rooting)') = Cardinality(At(Rooting)) + Weight(l, Rooting) - Weight(pc[t], Rooting)
  BY <1>0, AtStep
<1>6. /\ Cardinality(At(Unrooting)) \in Nat
      /\ Cardinality(At(Unrooting)') = Cardinality(At(Unrooting)) + Weight(l, Unrooting) - Weight(pc[t], Unrooting)
  BY <1>0, AtStep
<1>7. itemCount' = Cardinality(Claimed') - Cardinality(At(Adding)')
  BY <1>2, <1>3, <1>4, CountsRead
<1>8. repCount' = Cardinality(Roots') - Cardinality(At(Rooting)') + Cardinality(At(Unrooting)')
  BY <1>2, <1>3, <1>5, <1>6, CountsRead
<1> QED
  BY <1>7, <1>8, CountsReadNext

\* A step that claims, publishes, links and counts nothing.
LEMMA SameSlots ==
  ASSUME IInv, CountsExact, NEW t \in Thread, NEW l, pc' = [pc EXCEPT ![t] = l],
         \A u \in Thread \ {t} : ob'[u] = ob[u],
         pc[t] \notin Publishing, l \notin Publishing,
         support' = support, Claimed' = Claimed
  PROVE  Claimed' = Slots'
<1>1. At(Publishing)' = At(Publishing) /\ t \notin At(Publishing)
  BY DEF IInv, TypeOK, At
<1>2. At(Publishing) \subseteq Thread
  BY DEF At
<1>3. Slots' = Slots
  BY <1>1, <1>2 DEF Slots
<1> QED
  BY <1>3, CountsRead

LEMMA SameCounts ==
  ASSUME IInv, CountsExact, NEW t \in Thread, NEW l, pc' = [pc EXCEPT ![t] = l],
         \A u \in Thread \ {t} : ob'[u] = ob[u],
         pc[t] \notin Rooting \cup Unrooting, l \notin Rooting \cup Unrooting,
         UNCHANGED <<support, itemCount, repCount>>,
         \A x \in Ob : (reps'[x] = 0 <=> reps[x] = 0) /\ (reps'[x] = x <=> reps[x] = x)
  PROVE  CountsExact'
<1>1. Claimed' = Claimed /\ Roots' = Roots
  BY ObsAreReps DEF Claimed, Roots
<1>2. Claimed' = Slots'
  BY <1>1, SameSlots DEF Publishing, Rooting
<1>3. /\ itemCount \in Int /\ repCount \in Int /\ Claimed \in SUBSET Ob
      /\ Cardinality(Claimed) \in Nat /\ Cardinality(Roots) \in Nat
  BY ClaimedType, FiniteObs DEF IInv, TypeOK, Roots
<1>4. /\ Weight(l, Adding) = 0 /\ Weight(pc[t], Adding) = 0
      /\ Weight(l, Rooting) = 0 /\ Weight(pc[t], Rooting) = 0
      /\ Weight(l, Unrooting) = 0 /\ Weight(pc[t], Unrooting) = 0
  BY DEF Weight, Adding, Rooting, Unrooting
<1>5. itemCount' = itemCount + (Cardinality(Claimed') - Cardinality(Claimed))
                     - (Weight(l, Adding) - Weight(pc[t], Adding))
  BY <1>1, <1>3, <1>4
<1>6. repCount' = repCount + (Cardinality(Roots') - Cardinality(Roots))
                     - (Weight(l, Rooting) - Weight(pc[t], Rooting))
                     + (Weight(l, Unrooting) - Weight(pc[t], Unrooting))
  BY <1>1, <1>3, <1>4
<1> QED
  BY <1>1, <1>2, <1>3, <1>5, <1>6, CountStep

\* Returning, from anywhere but the last steps of an insertion or a merge.
LEMMA ReturnCounts ==
  ASSUME IInv, CountsExact, NEW t \in Thread, Return(t), pc[t] \notin Rooting \cup Unrooting,
         UNCHANGED <<reps, support, itemCount, repCount>>
  PROVE  CountsExact'
<1>1. pc' = [pc EXCEPT ![t] = "idle"] /\ \A u \in Thread \ {t} : ob'[u] = ob[u]
  BY DEF Return, Goto, IInv, TypeOK
<1>2. "idle" \notin Rooting \cup Unrooting
  BY DEF Rooting, Unrooting
<1> QED
  BY <1>1, <1>2, SameCounts

\* The exchange of try_insert makes one more claimed slot and one more root.
LEMMA InsertCasCounts ==
  ASSUME IInv, CountsExact, NEW t \in Thread, InsertCas(t)
  PROVE  CountsExact'
<1>1. /\ pc[t] = "ins_cas" /\ ob[t] \in Ob /\ TypeOK
      /\ UNCHANGED <<support, itemCount, repCount>>
  BY DEF InsertCas, IInv, ThreadInv, InPlace
<1>2. CASE reps[ob[t]] = 0
  <2> DEFINE x == ob[t]
  <2>1. /\ reps' = [reps EXCEPT ![x] = x] /\ ob' = ob
        /\ pc' = [pc EXCEPT ![t] = "ins_support"]
    BY <1>2 DEF InsertCas, Goto
  <2>2. /\ x \notin Claimed /\ Claimed' = Claimed \cup {x}
        /\ x \notin Roots /\ Roots' = Roots \cup {x}
    BY <1>1, <1>2, <2>1, ObsAreReps DEF TypeOK, Claimed, Roots
  <2>3. /\ Claimed \in SUBSET Ob /\ Roots \in SUBSET Ob
        /\ itemCount \in Int /\ repCount \in Int
    BY <1>1, ClaimedType DEF Roots, TypeOK
  <2>4. /\ Cardinality(Claimed') = Cardinality(Claimed) + 1 /\ Cardinality(Claimed) \in Nat
        /\ Cardinality(Roots') = Cardinality(Roots) + 1 /\ Cardinality(Roots) \in Nat
    BY <1>1, <2>2, <2>3, FiniteObs
  <2>5. /\ Weight("ins_support", Adding) = 1 /\ Weight(pc[t], Adding) = 0
        /\ Weight("ins_support", Rooting) = 1 /\ Weight(pc[t], Rooting) = 0
        /\ Weight("ins_support", Unrooting) = 0 /\ Weight(pc[t], Unrooting) = 0
    BY <1>1 DEF Weight, Adding, Rooting, Unrooting
  <2>6. At(Publishing)' = At(Publishing) \cup {t}
    BY <1>1, <2>1 DEF At, TypeOK, Publishing
  <2>7. Slots' = Slots \cup {x}
    BY <1>1, <2>1, <2>6 DEF Slots
  <2>8. Claimed' = Slots' /\ Claimed' \subseteq Ob
    BY <1>1, <2>2, <2>3, <2>7, CountsRead
  <2>9. itemCount' = itemCount + (Cardinality(Claimed') - Cardinality(Claimed))
                       - (Weight("ins_support", Adding) - Weight(pc[t], Adding))
    BY <1>1, <2>3, <2>4, <2>5
  <2>10. repCount' = repCount + (Cardinality(Roots') - Cardinality(Roots))
                       - (Weight("ins_support", Rooting) - Weight(pc[t], Rooting))
                       + (Weight("ins_support", Unrooting) - Weight(pc[t], Unrooting))
    BY <1>1, <2>3, <2>4, <2>5
  <2> QED
    BY <2>1, <2>8, <2>9, <2>10, CountStep
<1>3. CASE reps[ob[t]] # 0
  <2>1. /\ reps' = reps /\ \A u \in Thread \ {t} : ob'[u] = ob[u]
        /\ \E l \in {"ins_cas", "ins_check"} : pc' = [pc EXCEPT ![t] = l]
    BY <1>1, <1>3 DEF InsertCas, Goto, TypeOK
  <2>2. \A l \in {"ins_cas", "ins_check"} : l \notin Rooting \cup Unrooting
    BY DEF Rooting, Unrooting
  <2> QED
    BY <1>1, <2>1, <2>2, SameCounts
<1> QED
  BY <1>2, <1>3

\* Publishing the slot, and the two increments.
LEMMA InsertCounts ==
  ASSUME IInv, CountsExact, NEW t \in Thread,
         InsertSupport(t) \/ InsertItemCount(t) \/ InsertRepCount(t)
  PROVE  CountsExact'
<1>0. TypeOK /\ itemCount \in Int /\ repCount \in Int
  BY DEF IInv, TypeOK
<1>1. reps' = reps
  BY DEF InsertSupport, InsertItemCount, InsertRepCount
<1>2. /\ Claimed' = Claimed /\ Roots' = Roots /\ Claimed \subseteq Ob
      /\ Cardinality(Claimed) \in Nat /\ Cardinality(Roots) \in Nat
  BY <1>0, <1>1, ClaimedType, FiniteObs DEF Claimed, Roots
<1>3. CASE InsertSupport(t)
  <2>1. /\ pc[t] = "ins_support" /\ pc' = [pc EXCEPT ![t] = "ins_item"] /\ ob' = ob
        /\ support' = support \cup {ob[t]} /\ UNCHANGED <<itemCount, repCount>>
    BY <1>3 DEF InsertSupport, Goto, findVars
  <2>2. At(Publishing)' = At(Publishing) \ {t} /\ t \in At(Publishing)
    BY <1>0, <2>1 DEF At, TypeOK, Publishing
  <2>3. Slots' = Slots
    BY <2>1, <2>2 DEF Slots
  <2>4. /\ Weight("ins_item", Adding) = 1 /\ Weight(pc[t], Adding) = 1
        /\ Weight("ins_item", Rooting) = 1 /\ Weight(pc[t], Rooting) = 1
        /\ Weight("ins_item", Unrooting) = 0 /\ Weight(pc[t], Unrooting) = 0
    BY <2>1 DEF Weight, Adding, Rooting, Unrooting
  <2>5. Claimed' = Slots' /\ Claimed' \subseteq Ob
    BY <1>2, <2>3, CountsRead
  <2>6. itemCount' = itemCount + (Cardinality(Claimed') - Cardinality(Claimed))
                       - (Weight("ins_item", Adding) - Weight(pc[t], Adding))
    BY <1>0, <1>2, <2>1, <2>4
  <2>7. repCount' = repCount + (Cardinality(Roots') - Cardinality(Roots))
                       - (Weight("ins_item", Rooting) - Weight(pc[t], Rooting))
                       + (Weight("ins_item", Unrooting) - Weight(pc[t], Unrooting))
    BY <1>0, <1>2, <2>1, <2>4
  <2> QED
    BY <2>1, <2>5, <2>6, <2>7, CountStep
<1>4. CASE InsertItemCount(t)
  <2>1. /\ pc[t] = "ins_item" /\ pc' = [pc EXCEPT ![t] = "ins_rep"] /\ ob' = ob
        /\ itemCount' = itemCount + 1 /\ UNCHANGED <<support, repCount>>
    BY <1>4 DEF InsertItemCount, Goto, findVars
  <2>2. /\ Weight("ins_rep", Adding) = 0 /\ Weight(pc[t], Adding) = 1
        /\ Weight("ins_rep", Rooting) = 1 /\ Weight(pc[t], Rooting) = 1
        /\ Weight("ins_rep", Unrooting) = 0 /\ Weight(pc[t], Unrooting) = 0
    BY <2>1 DEF Weight, Adding, Rooting, Unrooting
  <2>3. pc[t] \notin Publishing /\ "ins_rep" \notin Publishing
    BY <2>1 DEF Publishing
  <2>4. Claimed' = Slots' /\ Claimed' \subseteq Ob
    BY <1>2, <2>1, <2>3, SameSlots
  <2>5. itemCount' = itemCount + (Cardinality(Claimed') - Cardinality(Claimed))
                       - (Weight("ins_rep", Adding) - Weight(pc[t], Adding))
    BY <1>0, <1>2, <2>1, <2>2
  <2>6. repCount' = repCount + (Cardinality(Roots') - Cardinality(Roots))
                       - (Weight("ins_rep", Rooting) - Weight(pc[t], Rooting))
                       + (Weight("ins_rep", Unrooting) - Weight(pc[t], Unrooting))
    BY <1>0, <1>2, <2>1, <2>2
  <2> QED
    BY <2>1, <2>4, <2>5, <2>6, CountStep
<1>5. CASE InsertRepCount(t)
  <2>1. /\ pc[t] = "ins_rep" /\ pc' = [pc EXCEPT ![t] = "idle"]
        /\ \A u \in Thread \ {t} : ob'[u] = ob[u]
        /\ repCount' = repCount + 1 /\ UNCHANGED <<support, itemCount>>
    BY <1>0, <1>5 DEF InsertRepCount, Return, Goto, TypeOK
  <2>2. /\ Weight("idle", Adding) = 0 /\ Weight(pc[t], Adding) = 0
        /\ Weight("idle", Rooting) = 0 /\ Weight(pc[t], Rooting) = 1
        /\ Weight("idle", Unrooting) = 0 /\ Weight(pc[t], Unrooting) = 0
    BY <2>1 DEF Weight, Adding, Rooting, Unrooting
  <2>3. pc[t] \notin Publishing /\ "idle" \notin Publishing
    BY <2>1 DEF Publishing
  <2>4. Claimed' = Slots' /\ Claimed' \subseteq Ob
    BY <1>2, <2>1, <2>3, SameSlots
  <2>5. itemCount' = itemCount + (Cardinality(Claimed') - Cardinality(Claimed))
                       - (Weight("idle", Adding) - Weight(pc[t], Adding))
    BY <1>0, <1>2, <2>1, <2>2
  <2>6. repCount' = repCount + (Cardinality(Roots') - Cardinality(Roots))
                       - (Weight("idle", Rooting) - Weight(pc[t], Rooting))
                       + (Weight("idle", Unrooting) - Weight(pc[t], Unrooting))
    BY <1>0, <1>2, <2>1, <2>2
  <2> QED
    BY <2>1, <2>4, <2>5, <2>6, CountStep
<1> QED
  BY <1>3, <1>4, <1>5

\* The exchange of a merge makes one root less, which is counted later.
LEMMA MergeCasCounts ==
  ASSUME IInv, CountsExact, NEW t \in Thread, MergeCas(t)
  PROVE  CountsExact'
<1>1. /\ pc[t] = "merge_cas" /\ TypeOK /\ ob' = ob
      /\ UNCHANGED <<support, itemCount, repCount>>
  BY DEF MergeCas, findVars, IInv
<1>2. CASE Linkable(dep[t])
  <2> DEFINE d == dep[t]
             r == rep[t]
  <2>1. /\ reps' = [reps EXCEPT ![d] = r] /\ pc' = [pc EXCEPT ![t] = "merge_sched"]
    BY <1>2 DEF MergeCas, Goto
  <2>2. d \in Claimed /\ r \in Claimed /\ r < d /\ d \in Ob /\ r \in Ob /\ reps[d] = d
    BY <1>1, <1>2, ClaimedType DEF IInv, ThreadInv, MergeKept, Linkable
  <2>3. /\ Claimed' = Claimed /\ d \in Roots /\ Roots' = Roots \ {d}
    <3>1. r # 0 /\ r # d
      <4>1. d \in Int /\ r \in Int
        BY <1>1, <2>2, ClaimedType
      <4> QED
        BY <2>2, <4>1, <1>1, ObsAreReps, ClaimedType
    <3>2. \A x \in Ob : reps'[x] = IF x = d THEN r ELSE reps[x]
      BY <1>1, <2>1 DEF TypeOK
    <3>3. Claimed' = Claimed
      BY <2>2, <3>1, <3>2, ClaimedType, <1>1 DEF Claimed
    <3>4. d \in Roots
      BY <2>2 DEF Roots
    <3>5. \A x \in Claimed : reps'[x] = x <=> reps[x] = x /\ x # d
      BY <1>1, <3>1, <3>2, ClaimedType
    <3> QED
      BY <3>3, <3>4, <3>5 DEF Roots
  <2>4. /\ Claimed \in SUBSET Ob /\ Roots \in SUBSET Ob
        /\ itemCount \in Int /\ repCount \in Int
    BY <1>1, ClaimedType DEF Roots, TypeOK
  <2>5. /\ Cardinality(Claimed') = Cardinality(Claimed) /\ Cardinality(Claimed) \in Nat
        /\ Cardinality(Roots') = Cardinality(Roots) - 1 /\ Cardinality(Roots) \in Nat
    BY <2>3, <2>4, FiniteObs
  <2>6. /\ Weight("merge_sched", Adding) = 0 /\ Weight(pc[t], Adding) = 0
        /\ Weight("merge_sched", Rooting) = 0 /\ Weight(pc[t], Rooting) = 0
        /\ Weight("merge_sched", Unrooting) = 1 /\ Weight(pc[t], Unrooting) = 0
    BY <1>1 DEF Weight, Adding, Rooting, Unrooting
  <2>7. pc[t] \notin Publishing /\ "merge_sched" \notin Publishing
    BY <1>1 DEF Publishing
  <2>8. Claimed' = Slots' /\ Claimed' \subseteq Ob
    BY <1>1, <2>1, <2>3, <2>4, <2>7, SameSlots
  <2>9. itemCount' = itemCount + (Cardinality(Claimed') - Cardinality(Claimed))
                       - (Weight("merge_sched", Adding) - Weight(pc[t], Adding))
    BY <1>1, <2>4, <2>5, <2>6
  <2>10. repCount' = repCount + (Cardinality(Roots') - Cardinality(Roots))
                       - (Weight("merge_sched", Rooting) - Weight(pc[t], Rooting))
                       + (Weight("merge_sched", Unrooting) - Weight(pc[t], Unrooting))
    BY <1>1, <2>4, <2>5, <2>6
  <2> QED
    BY <2>1, <2>8, <2>9, <2>10, CountStep
<1>3. CASE ~ Linkable(dep[t])
  <2>1. reps' = reps /\ pc' = [pc EXCEPT ![t] = "merge_load"]
    BY <1>3 DEF MergeCas, Goto
  <2>2. {pc[t], "merge_load"} \cap (Rooting \cup Unrooting) = {}
    BY <1>1 DEF Rooting, Unrooting
  <2> QED
    BY <1>1, <2>1, <2>2, SameCounts
<1> QED
  BY <1>2, <1>3

LEMMA MergeCounts ==
  ASSUME IInv, CountsExact, NEW t \in Thread, MergeSchedule(t) \/ MergeRepCount(t)
  PROVE  CountsExact'
<1>0. /\ TypeOK /\ itemCount \in Int /\ repCount \in Int
      /\ UNCHANGED <<reps, support, itemCount>>
  BY DEF IInv, TypeOK, MergeSchedule, MergeRepCount, carrierVars
<1>1. /\ Claimed' = Claimed /\ Roots' = Roots /\ Claimed \subseteq Ob
      /\ Cardinality(Claimed) \in Nat /\ Cardinality(Roots) \in Nat
  BY <1>0, ClaimedType, FiniteObs DEF Claimed, Roots
<1>2. PICK l \in {"merge_count", "set_cas", "idle"} :
        /\ pc' = [pc EXCEPT ![t] = l]
        /\ \A u \in Thread \ {t} : ob'[u] = ob[u]
        /\ pc[t] \in Unrooting
        /\ repCount' = repCount + (Weight(l, Unrooting) - Weight(pc[t], Unrooting))
  <2>1. CASE MergeSchedule(t)
    <3>1. /\ pc[t] = "merge_sched" /\ pc' = [pc EXCEPT ![t] = "merge_count"]
          /\ ob' = ob /\ repCount' = repCount
      BY <2>1 DEF MergeSchedule, Goto, findVars, carrierVars
    <3> QED
      BY <1>0, <3>1 DEF Weight, Unrooting
  <2>2. CASE MergeRepCount(t)
    <3>1. pc[t] = "merge_count" /\ repCount' = repCount - 1
      BY <2>2 DEF MergeRepCount
    <3>2. \A l \in {"set_cas", "idle"} :
            Weight(l, Unrooting) = 0 /\ Weight(pc[t], Unrooting) = 1
      BY <3>1 DEF Weight, Unrooting
    <3>3. \E l \in {"set_cas", "idle"} : pc' = [pc EXCEPT ![t] = l]
      BY <2>2 DEF MergeRepCount, MergeReturn, Return, Goto
    <3>4. \A u \in Thread \ {t} : ob'[u] = ob[u]
      BY <1>0, <2>2 DEF MergeRepCount, MergeReturn, Return, findVars, TypeOK
    <3>5. repCount - 1 = repCount + (0 - 1)
      BY <1>0
    <3> QED
      BY <3>1, <3>2, <3>3, <3>4, <3>5 DEF Unrooting
  <2> QED
    BY <2>1, <2>2
<1>3. /\ Weight(l, Adding) = 0 /\ Weight(pc[t], Adding) = 0
      /\ Weight(l, Rooting) = 0 /\ Weight(pc[t], Rooting) = 0
      /\ Weight(l, Unrooting) \in {0, 1} /\ Weight(pc[t], Unrooting) = 1
      /\ pc[t] \notin Publishing /\ l \notin Publishing
  BY <1>2 DEF Weight, Adding, Rooting, Unrooting, Publishing
<1>4. Claimed' = Slots' /\ Claimed' \subseteq Ob
  BY <1>0, <1>1, <1>2, <1>3, SameSlots
<1>5. itemCount' = itemCount + (Cardinality(Claimed') - Cardinality(Claimed))
                     - (Weight(l, Adding) - Weight(pc[t], Adding))
  BY <1>0, <1>1, <1>3
<1>6. repCount' = repCount + (Cardinality(Roots') - Cardinality(Roots))
                     - (Weight(l, Rooting) - Weight(pc[t], Rooting))
                     + (Weight(l, Unrooting) - Weight(pc[t], Unrooting))
  BY <1>0, <1>1, <1>2, <1>3
<1> QED
  BY <1>2, <1>4, <1>5, <1>6, CountStep

\* A search only moves pointers of obs that are not roots.
LEMMA FindCounts ==
  ASSUME IInv, CountsExact, NEW t \in Thread, FindCompress(t)
  PROVE  CountsExact'
<1>1. /\ pc[t] = "find_cas" /\ pc' = [pc EXCEPT ![t] = "find_cas"] /\ TypeOK
      /\ UNCHANGED <<support, itemCount, repCount>>
      /\ \A u \in Thread \ {t} : ob'[u] = ob[u]
  BY DEF FindCompress, IInv, TypeOK
<1>2. Innermost(t) \in path[t] /\ Innermost(t) \in Ob
  BY InnermostIsLeast, <1>1 DEF FindCompress, TypeOK
<1>3. FindKept(t)
  BY DEF IInv, ThreadInv
<1>4. /\ ob[t] \in Claimed /\ ob[t] < Innermost(t)
      /\ val[t] \in Claimed /\ val[t] <= LowerOf(ob[t], req[t][2])
      /\ req[t][2] \in Int
  BY <1>1, <1>2, <1>3, ObsAreReps DEF FindKept, TypeOK
<1>5. ob[t] # 0 /\ ob[t] # Innermost(t) /\ val[t] # 0 /\ val[t] # Innermost(t)
  BY <1>1, <1>2, <1>4, LowerHigher, ClaimedType, ObsAreReps
<1>6. \A x \in Ob : (reps'[x] = 0 <=> reps[x] = 0) /\ (reps'[x] = x <=> reps[x] = x)
  BY <1>1, <1>2, <1>5 DEF FindCompress, TypeOK
<1>7. pc[t] \notin Rooting \cup Unrooting
  BY <1>1 DEF Rooting, Unrooting
<1> QED
  BY <1>1, <1>6, <1>7, SameCounts DEF Rooting, Unrooting

\* A MergeTask removes an ob that is counted, and not as a root.
LEMMA EndTaskCounts ==
  ASSUME IInv, CountsExact, EndTask
  PROVE  CountsExact'
<1>1. /\ Idle /\ task # 0 /\ TypeOK /\ UNCHANGED <<pc, ob>>
      /\ reps' = RepsWithout(task) /\ repCount' = RootsWithout(task)
      /\ support' = support \ {task} /\ itemCount' = itemCount - 1
  BY DEF EndTask, UnsafeRemove, findVars, IInv
<1>2. task \in Ob /\ task \in Claimed /\ reps[task] # task
  <2>1. task \in Ob
    BY <1>1 DEF TypeOK, Ob, Rep
  <2>2. reps[task] \notin {0, task}
    BY <1>1 DEF IInv, SharedInv, DueOnce
  <2> QED
    BY <2>1, <2>2 DEF Claimed
<1>3. \A x \in Claimed : reps[x] \in Claimed /\ reps[x] <= x /\ x \in Int /\ reps[x] \in Int
  BY <1>1, ClaimedType DEF IInv, SharedInv, ChainsDescend
<1>4. \A x \in Ob : (reps'[x] # 0 <=> x # task /\ reps[x] # 0)
  BY <1>1, <1>2, <1>3, ClaimedType DEF RepsWithout
<1>5. Claimed' = Claimed \ {task}
  BY <1>4 DEF Claimed
<1>6. \A x \in Claimed : x # task => (reps'[x] = x <=> reps[x] = x)
  <2> TAKE x \in Claimed
  <2> HAVE x # task
  <2>1. x \in Ob /\ reps'[x] = IF reps[x] = task THEN reps[task] ELSE reps[x]
    BY <1>1, ClaimedType DEF RepsWithout
  <2>2. reps[task] < task /\ reps[x] <= x
    BY <1>2, <1>3
  <2> QED
    BY <1>2, <1>3, <2>1, <2>2
<1>7. Roots' = Roots
  BY <1>2, <1>5, <1>6 DEF Roots
<1>8. At(Adding) = {} /\ At(Rooting) = {} /\ At(Unrooting) = {} /\ At(Publishing) = {}
  BY <1>1 DEF Idle, At, Adding, Rooting, Unrooting, Publishing
<1>9. At(Adding)' = {} /\ At(Rooting)' = {} /\ At(Unrooting)' = {} /\ At(Publishing)' = {}
  BY <1>1, <1>8 DEF At
<1>10. /\ Claimed \in SUBSET Ob /\ Cardinality(Claimed) \in Nat
       /\ Cardinality(Claimed \ {task}) = Cardinality(Claimed) - 1
       /\ Cardinality(Roots) \in Nat
  BY <1>1, <1>2, ClaimedType, FiniteObs DEF Roots
<1>11. Slots = support /\ Slots' = support'
  BY <1>8, <1>9 DEF Slots
<1>12. Cardinality({}) = 0
  BY FS_EmptySet
<1>13. /\ Claimed = support /\ itemCount = Cardinality(Claimed) - 0
       /\ repCount = Cardinality(Roots) - 0 + 0
  BY <1>8, <1>11, <1>12, CountsRead
<1>14. repCount' = repCount
  BY <1>1, <1>2 DEF RootsWithout
<1>15. Claimed' = Slots'
  BY <1>1, <1>5, <1>11, <1>13
<1>16. itemCount' = Cardinality(Claimed') - Cardinality(At(Adding)')
  BY <1>1, <1>5, <1>9, <1>10, <1>12, <1>13
<1>17. repCount' = Cardinality(Roots') - Cardinality(At(Rooting)') + Cardinality(At(Unrooting)')
  BY <1>7, <1>9, <1>10, <1>12, <1>13, <1>14
<1> QED
  BY <1>15, <1>16, <1>17, CountsReadNext

\* Moving between two labels at which nothing is in flight.
LEMMA QuietCounts ==
  ASSUME IInv, CountsExact, NEW t \in Thread, NEW l, pc' = [pc EXCEPT ![t] = l],
         pc[t] \notin Rooting \cup Unrooting, l \notin Rooting \cup Unrooting,
         \A u \in Thread \ {t} : ob'[u] = ob[u],
         UNCHANGED <<reps, support, itemCount, repCount>>
  PROVE  CountsExact'
BY SameCounts

LEMMA NextCounts == IInv /\ CountsExact /\ [Next]_vars => CountsExact'
<1> SUFFICES ASSUME IInv, CountsExact, [Next]_vars PROVE CountsExact'
  OBVIOUS
<1> USE DEF Goto, carrierVars, taskVars, findVars, mergeVars, setVars, callVars
<1>0. TypeOK
  BY DEF IInv
<1>1. \A l \in {"idle", "ins_check", "ins_cas", "find_load", "find_cas", "merge_cas",
                "merge_load", "set_cas"} : l \notin Rooting \cup Unrooting
  BY DEF Rooting, Unrooting
<1>2. ASSUME NEW t \in Thread, Insert(t) PROVE CountsExact'
  <2>1. CASE StartInsert(t)
    BY <1>1, <2>1, QuietCounts DEF StartInsert
  <2>2. CASE InsertCheck(t)
    <3>1. CASE SlotsLeft
      BY <1>0, <1>1, <2>2, <3>1, QuietCounts DEF InsertCheck, TypeOK
    <3>2. CASE ~ SlotsLeft
      BY <1>1, <2>2, <3>2, ReturnCounts DEF InsertCheck
    <3> QED
      BY <3>1, <3>2
  <2> QED
    BY <1>2, <2>1, <2>2, InsertCasCounts, InsertCounts DEF Insert
<1>3. ASSUME NEW t \in Thread, Find(t) PROVE CountsExact'
  <2>1. ASSUME NEW x \in Ob, StartFind(t, x) PROVE CountsExact'
    BY <1>0, <1>1, <2>1, QuietCounts DEF StartFind, CallFind, TypeOK
  <2>2. CASE FindLoad(t)
    <3>1. /\ pc[t] = "find_load" /\ UNCHANGED <<reps, support, itemCount, repCount>>
          /\ \A u \in Thread \ {t} : ob'[u] = ob[u]
      BY <1>0, <2>2 DEF FindLoad, TypeOK
    <3>2. \E l \in {"find_load", "find_cas"} : pc' = [pc EXCEPT ![t] = l]
      BY <1>0, <2>2 DEF FindLoad, TypeOK
    <3> QED
      BY <1>1, <3>1, <3>2, QuietCounts
  <2>3. CASE FindReturn(t)
    BY <1>1, <2>3, ReturnCounts DEF FindReturn
  <2> QED
    BY <1>3, <2>1, <2>2, <2>3, FindCounts DEF Find
<1>4. ASSUME NEW t \in Thread, Merge(t) PROVE CountsExact'
  <2>1. ASSUME NEW x \in Ob, NEW y \in Ob, StartMerge(t, x, y) PROVE CountsExact'
    BY <1>1, <2>1, QuietCounts DEF StartMerge, CallMerge
  <2>2. CASE MergeCasSpurious(t)
    BY <1>1, <2>2, QuietCounts DEF MergeCasSpurious
  <2>3. CASE MergeLoad(t)
    <3>1. pc[t] = "merge_load" /\ UNCHANGED <<reps, support, itemCount, repCount>>
      BY <2>3 DEF MergeLoad
    <3>2. \/ Return(t)
          \/ /\ \E l \in {"merge_cas", "set_cas"} : pc' = [pc EXCEPT ![t] = l]
             /\ ob' = ob
      BY <2>3 DEF MergeLoad, MergeReturn
    <3> QED
      BY <1>1, <3>1, <3>2, QuietCounts, ReturnCounts
  <2> QED
    BY <1>4, <2>1, <2>2, <2>3, MergeCasCounts, MergeCounts DEF Merge
<1>5. ASSUME NEW t \in Thread, Set(t) PROVE CountsExact'
  <2>1. ASSUME NEW c \in Cell, NEW x \in Ob, StartSet(t, c, x) PROVE CountsExact'
    BY <1>1, <2>1, QuietCounts DEF StartSet
  <2>2. CASE SetCas(t)
    <3>1. pc[t] = "set_cas" /\ UNCHANGED <<reps, support, itemCount, repCount>>
      BY <2>2 DEF SetCas
    <3>2. Return(t) \/ (pc' = [pc EXCEPT ![t] = "merge_cas"] /\ ob' = ob)
      BY <2>2 DEF SetCas, CallMerge
    <3> QED
      BY <1>1, <3>1, <3>2, QuietCounts, ReturnCounts
  <2> QED
    BY <1>5, <2>1, <2>2 DEF Set
<1>6. CASE MergeTask
  <2>1. ASSUME NEW x \in Ob, BeginTask(x) PROVE CountsExact'
    <3>1. UNCHANGED <<reps, support, itemCount, repCount, pc, ob>>
      BY <2>1 DEF BeginTask
    <3> QED
      BY <3>1 DEF CountsExact, Claimed, At
  <2>2. ASSUME NEW t \in Thread, NEW c \in Cell, StartReplace(t, c) PROVE CountsExact'
    BY <1>0, <1>1, <2>2, QuietCounts DEF StartReplace, CallFind, TypeOK
  <2> QED
    BY <1>6, <2>1, <2>2, EndTaskCounts DEF MergeTask
<1>7. CASE UNCHANGED vars
  BY <1>7 DEF vars, CountsExact, Claimed, At
<1> QED
  BY <1>2, <1>3, <1>4, <1>5, <1>6, <1>7 DEF Next

\* item_count and rep_count are what they count, up to the operations in flight,
\* for any number of slots and threads; when all are idle they are exact.
THEOREM CountersExact == Spec => []CountsExact
<1>1. Init => CountsExact
  <2> SUFFICES ASSUME Init PROVE CountsExact
    OBVIOUS
  <2>1. Claimed = support
    BY ObsAreReps DEF Init, Claimed
  <2>2. Roots = support
    BY <2>1 DEF Init, Roots
  <2>3. At(Adding) = {} /\ At(Rooting) = {} /\ At(Unrooting) = {} /\ At(Publishing) = {}
    BY DEF Init, At, Adding, Rooting, Unrooting, Publishing
  <2>4. Slots = support
    BY <2>3 DEF Slots
  <2>5. Cardinality(support) \in Nat /\ itemCount = Cardinality(support)
        /\ repCount = Cardinality(support)
    BY FiniteObs DEF Init
  <2> QED
    BY <2>1, <2>2, <2>3, <2>4, <2>5, FS_EmptySet, CountsRead
<1> QED
  BY <1>1, NextCounts, Invariance, PTL DEF Spec

=============================================================================
