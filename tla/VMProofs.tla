------------------------------ MODULE VMProofs ------------------------------
(***************************************************************************)
(* Proofs about VM.                                                        *)
(***************************************************************************)
EXTENDS Derivation, TLAPS, FiniteSetTheorems, SequenceTheorems, WellFoundedInduction

-----------------------------------------------------------------------------
(* The invariant.                                                          *)

Image(m, u) == [i \in DOMAIN u |-> m[u[i]]]

\* Every ob has a rep below it, that is its own and denotes what the ob does.
RepsOK(w, m, str) ==
  /\ str.support \subseteq 1 .. w.dim /\ DOMAIN str.rep = 1 .. w.dim
  /\ \A x \in str.support :
       /\ str.rep[x] \in str.support /\ str.rep[x] <= x
       /\ str.rep[str.rep[x]] = str.rep[x]
       /\ m[str.rep[x]] = m[x] /\ m[x] \in Elements(w)

\* An entry of live obs that is true in the model.
True(w, m, str, n, u) == u \in Seq(str.support) /\ Image(m, u) \in w.model[n]

TablesOK(w, m, str) ==
  /\ DOMAIN str.table = DOMAIN w.model
  /\ \A n \in DOMAIN w.model : \A u \in str.table[n] : True(w, m, str, n, u)

\* What a program is run for.
Telling(w, m, str, n, u) ==
  IF n = "exists" THEN u \in Seq(str.support) /\ Len(u) = 1 ELSE True(w, m, str, n, u)

EventsOK(w, m, str, ev) ==
  /\ DOMAIN ev = {"exists"} \cup Told
  /\ \A n \in DOMAIN ev : /\ ev[n] \in Seq(Range(ev[n]))
                          /\ \A u \in Range(ev[n]) : Telling(w, m, str, n, u)

\* Obs that are to be replaced have another rep, and are to be so once; those in
\* hand are hands.
MergesOK(str, hands, mg) ==
  /\ mg \in Seq(str.support) /\ hands \subseteq str.support
  /\ \A d \in hands \cup Range(mg) : str.rep[d] # d
  /\ Range(mg) \cap hands = {}
  /\ \A i, j \in DOMAIN mg : i # j => mg[i] # mg[j]

Shaped(s) ==
  /\ s = [struct |-> s.struct, events |-> s.events, merges |-> s.merges]
  /\ s.struct = [support |-> s.struct.support, rep |-> s.struct.rep, table |-> s.struct.table]

StateOK(w, m, hands, s) ==
  /\ Shaped(s)
  /\ RepsOK(w, m, s.struct) /\ TablesOK(w, m, s.struct)
  /\ EventsOK(w, m, s.struct, s.events) /\ MergesOK(s.struct, hands, s.merges)

-----------------------------------------------------------------------------
(* Workers.                                                                *)

\* A set of a worker is the set of a place: the same entries, of the obs in the
\* same registers.
SetFits(w, c, a, obs, set) ==
  /\ a.table \in DOMAIN w.model /\ set.table = a.table /\ set.hole = a.hole
  /\ DOMAIN set.given = DOMAIN a.from
  /\ \A p \in DOMAIN a.from : a.from[p] \in DOMAIN c.obs /\ set.given[p] = obs[a.from[p]]
  /\ \A e \in w.model[a.table] : a.hole \in DOMAIN e /\ DOMAIN a.from \subseteq DOMAIN e

\* An entry that was found is there.
KnownFits(w, str, c, k, obs) ==
  /\ k.table \in DOMAIN w.model
  /\ \A p \in DOMAIN k.from : k.from[p] \in DOMAIN c.obs
  /\ \E v \in str.table[k.table] : \A p \in DOMAIN k.from :
       p \in DOMAIN v /\ v[p] = obs[k.from[p]]

\* The registers are what they are at a place of a run in the model.
Fits(w, m, str, c, obs, sets) ==
  /\ \A x \in DOMAIN c.obs : x \in DOMAIN obs /\ obs[x] \in str.support /\ m[obs[x]] = c.obs[x]
  /\ \A x \in DOMAIN c.sets : x \in DOMAIN sets /\ SetFits(w, c, c.sets[x], obs, sets[x])
  /\ \A k \in c.known : KnownFits(w, str, c, k, obs)

NewOf(args) == {args[i][2] : i \in Positions(args, "new")}

\* The sets and the entries found are of registers of a scope.
Fixed(c, scope) ==
  /\ \A x \in DOMAIN c.sets : \A p \in DOMAIN c.sets[x].from : c.sets[x].from[p] \in scope
  /\ \A k \in c.known : \A p \in DOMAIN k.from : k.from[p] \in scope

\* A frame goes on from places of runs in the model; b has the registers that
\* were set outside of its loop.
FrameOK(w, cert, m, str, program, obs, sets, b, f) ==
  /\ f = [at |-> f.at, args |-> f.args, table |-> f.table, left |-> f.left]
  /\ NewOf(f.args) \cap b.obs = {}
  /\ \E k \in 0 .. 3 : \A u \in f.left : Len(u) = k
  /\ \A u \in f.left :
       /\ u \in Seq(str.support)
       /\ Positions(f.args, "new") \subseteq DOMAIN u
       /\ f.table \in FunctionNames => f.table \in DOMAIN w.model /\ u \in str.table[f.table]
       /\ \E c \in cert.places :
            /\ c.program = program /\ c.at = f.at
            /\ DOMAIN c.obs = b.obs \cup NewOf(f.args) /\ DOMAIN c.sets = b.sets
            /\ Fits(w, m, str, c, Bound(obs, f.args, u), sets)
            /\ f.table # "" => Fixed(c, b.obs)

Inside(a, b) == a.obs \subseteq b.obs /\ a.sets \subseteq b.sets

\* Frames are nested.
FramesOK(w, cert, m, str, program, obs, sets, bs, frames) ==
  /\ frames \in Seq(Range(frames)) /\ DOMAIN bs = DOMAIN frames
  /\ \A i \in DOMAIN frames :
       FrameOK(w, cert, m, str, program, obs, sets, bs[i], frames[i])
  /\ \A i, j \in DOMAIN frames : i < j => Inside(bs[i], bs[j])

Scope(c) == [obs |-> DOMAIN c.obs, sets |-> DOMAIN c.sets]

RunOK(w, cert, m, str, r) ==
  \E c \in cert.places : \E bs :
    /\ c.program = r.program /\ c.at = r.at
    /\ Fits(w, m, str, c, r.obs, r.sets)
    /\ FramesOK(w, cert, m, str, r.program, r.obs, r.sets, bs, r.frames)
    /\ \A i \in DOMAIN r.frames : Inside(bs[i], Scope(c))

\* A program starts with what its event tells.
Registers(m, args) == [x \in 0 .. Len(args) - 1 |-> m[args[x + 1]]]

TodoOK(w, cert, m, r) ==
  /\ r.todo \in Seq(Range(r.todo))
  /\ \A i \in Range(r.todo) : Place(i, Begins(w, i), Registers(m, r.args)) \in cert.places

\* A term without an ob: of which function, its key, and its ob when there is one.
TermOK(w, m, str, make) ==
  /\ make[1] \in FunctionNames \cap DOMAIN w.model
  /\ make[2] \in Seq(str.support) /\ Len(make[2]) = Arity(make[1])
  /\ \E y \in Elements(w) : Append(Image(m, make[2]), y) \in w.model[make[1]]

MakeOK(w, m, str, make) ==
  /\ TermOK(w, m, str, make)
  /\ \/ make = <<make[1], make[2]>>
     \/ /\ make = <<make[1], make[2], make[3]>> /\ make[3] \in str.support
        /\ Append(Image(m, make[2]), m[make[3]]) \in w.model[make[1]]

\* What is left of a fact, and what comes of its terms so far.
FactOK(w, cert, m, str, r) ==
  /\ r.args \in Seq(str.support)
  /\ IF r.make = <<>> THEN [todo |-> r.todo, stack |-> Image(m, r.args)] \in cert.facts
     ELSE /\ MakeOK(w, m, str, r.make)
          /\ \A y \in Elements(w) : Append(Image(m, r.make[2]), y) \in w.model[r.make[1]] =>
               [todo |-> r.todo, stack |-> Append(Image(m, r.args), y)] \in cert.facts

Fields(r) ==
  r = [task |-> r.task, args |-> r.args, todo |-> r.todo, make |-> r.make,
       block |-> r.block, program |-> r.program, at |-> r.at, frames |-> r.frames,
       obs |-> r.obs, sets |-> r.sets, undisturbed |-> r.undisturbed]

Runs(r) == r.task \in {"enforce", "cleanup"}

WorkerOK(w, cert, m, str, r) ==
  /\ Fields(r)
  /\ r.task \in {"idle", "merging", "merge", "enforce", "cleanup", "sample", "assume"}
  /\ ~ Runs(r) => r.at = 0
  /\ r.task \notin {"sample", "assume"} => r.make = <<>>
  /\ Runs(r) => /\ r.args \in Seq(str.support) /\ TodoOK(w, cert, m, r)
                /\ r.at # 0 => RunOK(w, cert, m, str, r)
  /\ r.task = "sample" => MakeOK(w, m, str, r.make)
  /\ r.task = "assume" => FactOK(w, cert, m, str, r)
  /\ r.task \in {"merging", "merge"} => r.args = <<r.args[1]>>

-----------------------------------------------------------------------------

Merging == {t \in Thread : th[t].task \in {"merging", "merge"}}
Hands   == {th[t].args[1] : t \in Merging}

CleanupOK ==
  /\ cleanup = [done |-> cleanup.done, turn |-> cleanup.turn]
  /\ cleanup.done \in Nat /\ cleanup.turn \in Nat
  /\ CleanupCount > 0 => cleanup.turn < CleanupCount

IInv ==
  /\ \E w \in Worlds : world = Loaded(w)
  /\ DOMAIN meaning = Ob
  /\ StateOK(world, meaning, Hands, State)
  /\ DOMAIN th = Thread
  /\ \A t \in Thread : WorkerOK(world, Certificate(world), meaning, struct, th[t])
  /\ \A t, u \in Merging : t # u => th[t].args[1] # th[u].args[1]
  /\ (\E t \in Thread : th[t].task = "merge")
       => \A t \in Thread : th[t].task \in {"idle", "merging", "merge"}
  /\ CleanupOK
  /\ assumed \in Seq(Range(assumed))
  /\ \A f \in Range(assumed) : [todo |-> f, stack |-> <<>>] \in Certificate(world).facts

-----------------------------------------------------------------------------
(* Numbers and sequences.                                                  *)

\* A set of naturals that has a member has a least one.
LEMMA LeastNat ==
  ASSUME NEW S \in SUBSET Nat, S # {}
  PROVE  \E x \in S : \A y \in S : x <= y
<1>1. PICK x \in S : \A y \in S : ~ (<<y, x>> \in OpToRel(<, Nat))
  BY WFMin, NatLessThanWellFounded
<1>2. ASSUME NEW y \in S PROVE x <= y
  <2>1. ~ (y < x)
    BY <1>1 DEF OpToRel
  <2> QED
    BY <2>1
<1> QED
  BY <1>2

\* A set of naturals has its minimum.
LEMMA MinIs ==
  ASSUME NEW S \in SUBSET Nat, S # {}
  PROVE  Min(S) \in S
<1>1. \E x \in S : \A y \in S : x <= y
  BY LeastNat
<1> QED
  BY <1>1 DEF Min

\* Subtraction reverses the order.
LEMMA Reversed ==
  ASSUME NEW n \in Nat, NEW x \in Nat, NEW y \in Nat, n - x <= n - y
  PROVE  x >= y
  OBVIOUS

\* A set of numbers up to n has a greatest one.
LEMMA MaxIs ==
  ASSUME NEW n \in Nat, NEW S \in SUBSET (1 .. n), S # {}
  PROVE  Max(S) \in S /\ \A y \in S : Max(S) >= y
<1>0. \A x \in S : x \in Nat /\ n - x \in Nat
  OBVIOUS
<1>1. PICK D : D = {n - x : x \in S}
  OBVIOUS
<1>2. D \in SUBSET Nat /\ D # {} /\ \A x \in S : n - x \in D
  BY <1>0, <1>1
<1>3. PICK d \in D : \A e \in D : d <= e
  BY <1>2, LeastNat
<1>4. PICK x \in S : d = n - x
  BY <1>1
<1>5. ASSUME NEW y \in S PROVE x >= y
  <2>1. x \in Nat /\ y \in Nat
    BY <1>0
  <2>2. n - x <= n - y
    BY <1>2, <1>3, <1>4
  <2> QED
    BY <2>1, <2>2, Reversed
<1>6. \E z \in S : \A y \in S : z >= y
  BY <1>5
<1> QED
  BY <1>6 DEF Max

\* Up to place j, u is v or before it.
Before(u, v, j) ==
  \/ \A i \in 1 .. j : u[i] = v[i]
  \/ \E i \in 1 .. j : u[i] < v[i] /\ \A h \in 1 .. i - 1 : u[h] = v[h]

\* If u is least up to place j - 1, something is least up to place j.
LEMMA LeastStep ==
  ASSUME NEW k \in Nat, NEW S, \A v \in S : \A i \in 1 .. k : v[i] \in Nat,
         NEW j \in 1 .. k, NEW u \in S, \A v \in S : Before(u, v, j - 1)
  PROVE  \E w \in S : \A v \in S : Before(w, v, j)
<1> DEFINE T == {v \in S : \A i \in 1 .. j - 1 : u[i] = v[i]}
           N == {v[j] : v \in T}
<1>1. N \in SUBSET Nat
  OBVIOUS
<1>2. u \in T
  OBVIOUS
<1>3. N # {}
  BY <1>2
<1>4. PICK x \in N : \A y \in N : x <= y
  BY <1>1, <1>3, LeastNat
<1>5. PICK w \in T : x = w[j]
  OBVIOUS
<1>6. ASSUME NEW v \in S PROVE Before(w, v, j)
  <2>1. CASE v \in T
    <3>1. \A i \in 1 .. j - 1 : w[i] = v[i]
      BY <2>1
    <3>2. v[j] \in N
      BY <2>1
    <3>3. w[j] <= v[j] /\ w[j] \in Nat /\ v[j] \in Nat
      BY <1>1, <1>4, <1>5, <3>2
    <3>4. CASE w[j] = v[j]
      <4>1. \A i \in 1 .. j : i = j \/ i \in 1 .. j - 1
        OBVIOUS
      <4>2. \A i \in 1 .. j : w[i] = v[i]
        BY <3>1, <3>4, <4>1
      <4> QED
        BY <4>2 DEF Before
    <3>5. CASE w[j] < v[j]
      <4>1. j \in 1 .. j
        OBVIOUS
      <4> QED
        BY <3>1, <3>5, <4>1 DEF Before
    <3>6. w[j] = v[j] \/ w[j] < v[j]
      BY <3>3
    <3> QED
      BY <3>4, <3>5, <3>6
  <2>2. CASE v \notin T
    <3>1. PICK i \in 1 .. j - 1 : u[i] < v[i] /\ \A h \in 1 .. i - 1 : u[h] = v[h]
      BY <2>2 DEF Before
    <3>2. \A h \in 1 .. j - 1 : u[h] = w[h]
      OBVIOUS
    <3>3. i \in 1 .. j /\ \A h \in 1 .. i - 1 : h \in 1 .. j - 1
      OBVIOUS
    <3>4. w[i] < v[i] /\ \A h \in 1 .. i - 1 : w[h] = v[h]
      BY <3>1, <3>2, <3>3
    <3> QED
      BY <3>3, <3>4 DEF Before
  <2> QED
    BY <2>1, <2>2
<1>7. w \in S
  OBVIOUS
<1> QED
  BY <1>6, <1>7

\* Sequences of numbers have a least one.
LEMMA LeastIs ==
  ASSUME NEW k \in Nat, NEW S, S # {}, \A u \in S : u \in Seq(Nat) /\ Len(u) = k
  PROVE  Least(S) \in S
<1> DEFINE Good(j) == \E u \in S : \A v \in S : Before(u, v, j)
           Bad == {j \in 0 .. k : ~ Good(j)}
<1>0. \A u \in S : DOMAIN u = 1 .. k /\ \A i \in 1 .. k : u[i] \in Nat
  OBVIOUS
<1>1. Bad = {}
  <2> SUFFICES ASSUME Bad # {} PROVE FALSE
    OBVIOUS
  <2> HIDE DEF Good
  <2>1. PICK j \in Bad : \A i \in Bad : j <= i
    <3>1. Bad \in SUBSET Nat
      OBVIOUS
    <3> HIDE DEF Bad
    <3> QED
      BY <3>1, LeastNat
  <2>2. j \in 0 .. k /\ ~ Good(j)
    OBVIOUS
  <2>3. j # 0
    <3>1. Good(0)
      BY DEF Good, Before
    <3> QED
      BY <3>1, <2>2
  <2>4. j - 1 \in 0 .. k /\ ~ (j <= j - 1)
    BY <2>2, <2>3
  <2>5. Good(j - 1)
    BY <2>1, <2>4
  <2>6. Good(j)
    <3>1. j \in 1 .. k
      BY <2>2, <2>3
    <3>2. \A u \in S : \A i \in 1 .. k : u[i] \in Nat
      BY <1>0
    <3>3. PICK u \in S : \A v \in S : Before(u, v, j - 1)
      BY <2>5 DEF Good
    <3>4. \E w \in S : \A v \in S : Before(w, v, j)
      BY <3>1, <3>2, <3>3, LeastStep
    <3> QED
      BY <3>4 DEF Good
  <2> QED
    BY <2>2, <2>6
<1>2. Good(k)
  <2> HIDE DEF Good
  <2> QED
    BY <1>1
<1>3. PICK u \in S : \A v \in S : Before(u, v, k)
  BY <1>2
<1>4. ASSUME NEW v \in S
      PROVE  u = v \/ \E i \in DOMAIN u : u[i] < v[i] /\ \A j \in 1 .. i - 1 : u[j] = v[j]
  <2>1. CASE \A i \in 1 .. k : u[i] = v[i]
    <3>1. u = v
      BY <2>1
    <3> QED
      BY <3>1
  <2>2. CASE ~ \A i \in 1 .. k : u[i] = v[i]
    BY <1>0, <1>3, <2>2 DEF Before
  <2> QED
    BY <2>1, <2>2
<1>5. \E z \in S : \A v \in S :
         z = v \/ \E i \in DOMAIN z : z[i] < v[i] /\ \A j \in 1 .. i - 1 : z[j] = v[j]
  BY <1>4
<1> QED
  BY <1>5 DEF Least

\* A finite set is the range of a sequence.
LEMMA SetToSeqIs ==
  ASSUME NEW S, IsFiniteSet(S)
  PROVE  /\ SetToSeq(S) \in Seq(S)
         /\ \A x \in Range(SetToSeq(S)) : x \in S
<1>1. Cardinality(S) \in Nat /\ ExistsBijection(1 .. Cardinality(S), S)
  BY FS_CardinalityType
<1>2. \E f \in [1 .. Cardinality(S) -> S] : IsInjective(f)
  BY <1>1 DEF ExistsBijection, Bijection, Injection
<1>3. SetToSeq(S) \in [1 .. Cardinality(S) -> S]
  BY <1>2 DEF SetToSeq
<1>4. SetToSeq(S) \in Seq(S)
  BY <1>1, <1>3
<1>5. \A x \in Range(SetToSeq(S)) : x \in S
  BY <1>3 DEF Range
<1> QED
  BY <1>4, <1>5

\* A set of pairs of obs is finite.
LEMMA PairsFinite ==
  ASSUME NEW n \in Nat, NEW S \in SUBSET ((1 .. n) \X (1 .. n))
  PROVE  IsFiniteSet(S)
<1>1. IsFiniteSet(1 .. n)
  BY FS_Interval
<1>2. IsFiniteSet((1 .. n) \X (1 .. n))
  BY <1>1, FS_Product
<1> QED
  BY <1>2, FS_Subset

\* A quotient is below n if what is divided is below n times the divisor.
LEMMA DivBound ==
  ASSUME NEW a \in Nat, NEW b \in Nat \ {0}, NEW n \in Nat, a < n * b
  PROVE  a \div b \in Nat /\ a \div b < n
  OBVIOUS

\* The parts of a sequence that has a last member.
LEMMA FrontLast ==
  ASSUME NEW X, NEW u \in Seq(X), Len(u) >= 1
  PROVE  /\ Front(u) \in Seq(X) /\ Len(Front(u)) = Len(u) - 1
         /\ \A i \in 1 .. Len(u) - 1 : Front(u)[i] = u[i]
         /\ Last(u) = u[Len(u)] /\ Last(u) \in X
         /\ u = Append(Front(u), Last(u))
<1>1. PICK n \in Nat : n = Len(u) - 1
  OBVIOUS
<1>2. DOMAIN u = 1 .. n + 1 /\ Len(u) = n + 1 /\ \A i \in 1 .. n + 1 : u[i] \in X
  BY <1>1
<1>3. Front(u) = [i \in 1 .. n |-> u[i]]
  BY <1>1, <1>2 DEF Front
<1>4. Front(u) \in Seq(X) /\ Len(Front(u)) = n /\ \A i \in 1 .. n : Front(u)[i] = u[i]
  BY <1>2, <1>3
<1>5. Last(u) = u[n + 1] /\ Last(u) \in X
  BY <1>2 DEF Last
<1>6. u = Append(Front(u), Last(u))
  <2>1. PICK f \in Seq(X) : f = Front(u)
    BY <1>4
  <2>2. PICK y \in X : y = Last(u)
    BY <1>5
  <2>3. Len(f) = n /\ \A i \in 1 .. n : f[i] = u[i]
    BY <1>4, <2>1
  <2>4. DOMAIN Append(f, y) = 1 .. n + 1 /\ \A i \in 1 .. n + 1 : Append(f, y)[i] = u[i]
    BY <2>3, <2>2, <1>5
  <2>5. Append(f, y) = u
    BY <2>4, <1>2
  <2> QED
    BY <2>1, <2>2, <2>5
<1> QED
  BY <1>1, <1>2, <1>4, <1>5, <1>6

\* Sequences of one length have the same front when they agree up to it.
LEMMA FrontsEqual ==
  ASSUME NEW X, NEW u \in Seq(X), NEW v \in Seq(X), NEW k \in Nat,
         Len(u) = k + 1, Len(v) = k + 1
  PROVE  (Front(u) = Front(v)) <=> (\A i \in 1 .. k : u[i] = v[i])
<1>1. Front(u) = [i \in 1 .. k |-> u[i]] /\ Front(v) = [i \in 1 .. k |-> v[i]]
  BY DEF Front
<1> QED
  BY <1>1

\* The members of a sequence are in its set.
LEMMA SeqAt ==
  ASSUME NEW S, NEW u \in Seq(S), NEW i \in DOMAIN u
  PROVE  u[i] \in S
  OBVIOUS

\* A member of an image.
LEMMA ImageAt ==
  ASSUME NEW m, NEW u, NEW i \in DOMAIN u
  PROVE  Image(m, u)[i] = m[u[i]]
  BY DEF Image

\* An image has the length of what it is of.
LEMMA ImageIs ==
  ASSUME NEW m, NEW S, NEW u \in Seq(S)
  PROVE  /\ DOMAIN Image(m, u) = DOMAIN u /\ Len(Image(m, u)) = Len(u)
         /\ \A i \in DOMAIN u : Image(m, u)[i] = m[u[i]]
<1>1. PICK n \in Nat : n = Len(u) /\ DOMAIN u = 1 .. n
  OBVIOUS
<1>2. Image(m, u) = [i \in 1 .. n |-> m[u[i]]]
  BY <1>1 DEF Image
<1> QED
  BY <1>1, <1>2

\* The image of a sequence of obs is a sequence of what they denote.
LEMMA ImageType ==
  ASSUME NEW m, NEW S, NEW T, \A x \in S : m[x] \in T, NEW u \in Seq(S)
  PROVE  Image(m, u) \in Seq(T)
<1>1. PICK n \in Nat : n = Len(u) /\ DOMAIN u = 1 .. n /\ \A i \in 1 .. n : u[i] \in S
  OBVIOUS
<1>2. Image(m, u) = [i \in 1 .. n |-> m[u[i]]]
  BY <1>1 DEF Image
<1>3. Image(m, u) \in [1 .. n -> T]
  BY <1>1, <1>2
<1> QED
  BY <1>3

\* The image of a sequence, by its last member and the rest.
LEMMA ImageFront ==
  ASSUME NEW m, NEW S, NEW u \in Seq(S), Len(u) >= 1
  PROVE  /\ Front(Image(m, u)) = Image(m, Front(u))
         /\ Last(Image(m, u)) = m[Last(u)]
         /\ Image(m, u) = Append(Image(m, Front(u)), m[Last(u)])
<1>0. PICK T : \A x \in S : m[x] \in T
  <2>1. \A x \in S : m[x] \in {m[y] : y \in S}
    OBVIOUS
  <2> QED
    BY <2>1, Zenon
<1>1. /\ Image(m, u) \in Seq(T) /\ Len(Image(m, u)) = Len(u)
      /\ \A i \in DOMAIN u : Image(m, u)[i] = m[u[i]]
  BY <1>0, ImageIs, ImageType
<1>2. PICK n \in Nat : n = Len(u) - 1
  OBVIOUS
<1>3. DOMAIN u = 1 .. n + 1 /\ Len(u) = n + 1 /\ Len(Image(m, u)) = n + 1
  BY <1>1, <1>2
<1>4. Front(Image(m, u)) = [i \in 1 .. n |-> Image(m, u)[i]]
  <2>1. PICK v \in Seq(T) : v = Image(m, u)
    BY <1>1
  <2>2. Len(v) = n + 1
    BY <1>3, <2>1
  <2>3. Front(v) = [i \in 1 .. n |-> v[i]]
    BY <2>2 DEF Front
  <2> QED
    BY <2>1, <2>3
<1>5. Front(u) = [i \in 1 .. n |-> u[i]]
  BY <1>3 DEF Front
<1>6. Front(Image(m, u)) = Image(m, Front(u))
  <2>1. \A i \in 1 .. n : Image(m, u)[i] = m[u[i]]
    BY <1>1, <1>3
  <2>2. Image(m, Front(u)) = [i \in 1 .. n |-> m[u[i]]]
    BY <1>5 DEF Image
  <2> QED
    BY <1>4, <2>1, <2>2
<1>7. Last(Image(m, u)) = m[Last(u)]
  BY <1>1, <1>3 DEF Last
<1>8. Image(m, u) = Append(Front(Image(m, u)), Last(Image(m, u)))
  <2>1. Len(Image(m, u)) >= 1
    BY <1>1
  <2> QED
    BY <1>1, <2>1, FrontLast
<1> QED
  BY <1>6, <1>7, <1>8

\* The image of a key with its value.
LEMMA ImageAppend ==
  ASSUME NEW m, NEW S, NEW u \in Seq(S), NEW y \in S
  PROVE  Image(m, Append(u, y)) = Append(Image(m, u), m[y])
<1>1. Append(u, y) \in Seq(S) /\ Len(Append(u, y)) >= 1
  OBVIOUS
<1>2. Image(m, Append(u, y)) = Append(Image(m, Front(Append(u, y))), m[Last(Append(u, y))])
  BY <1>1, ImageFront
<1>3. Front(Append(u, y)) = u /\ Last(Append(u, y)) = y
  BY DEF Front, Last
<1> QED
  BY <1>2, <1>3

\* The prefixes that Kept filters exist.
Filters(q, keep, f) ==
  f = [i \in 0 .. Len(q) |->
         IF i = 0 THEN <<>>
         ELSE IF q[i] \in keep THEN Append(f[i - 1], q[i]) ELSE f[i - 1]]

\* The function by which Kept filters a sequence exists.
LEMMA FiltersExists ==
  ASSUME NEW X, NEW q \in Seq(X), NEW keep
  PROVE  \E f : Filters(q, keep, f)
<1> DEFINE Upto(f, n) ==
             f = [i \in 0 .. n |->
                    IF i = 0 THEN <<>>
                    ELSE IF q[i] \in keep THEN Append(f[i - 1], q[i]) ELSE f[i - 1]]
           Bad == {n \in 0 .. Len(q) : ~ \E f : Upto(f, n)}
<1>0. Len(q) \in Nat
  OBVIOUS
<1>1. Bad = {}
  <2> SUFFICES ASSUME Bad # {} PROVE FALSE
    OBVIOUS
  <2>1. PICK n \in Bad : \A k \in Bad : n <= k
    <3> HIDE DEF Upto
    <3>1. Bad \in SUBSET Nat
      BY <1>0
    <3> HIDE DEF Bad
    <3> QED
      BY <3>1, LeastNat
  <2>2. n \in 0 .. Len(q) /\ ~ \E f : Upto(f, n)
    OBVIOUS
  <2>3. n # 0
    <3>1. PICK f : f = [i \in 0 .. 0 |-> <<>>]
      OBVIOUS
    <3>2. \A i \in 0 .. 0 : i = 0
      OBVIOUS
    <3>3. Upto(f, 0)
      BY <3>1, <3>2
    <3> QED
      BY <2>2, <3>3
  <2>4. PICK f : Upto(f, n - 1)
    <3>1. n - 1 \in 0 .. Len(q) /\ ~ (n <= n - 1)
      BY <2>2, <2>3, <1>0
    <3> HIDE DEF Upto
    <3> QED
      BY <3>1, <2>1
  <2> DEFINE last == IF q[n] \in keep THEN Append(f[n - 1], q[n]) ELSE f[n - 1]
             g == [i \in 0 .. n |-> IF i = n THEN last ELSE f[i]]
  <2>5. \A i \in 0 .. n - 1 : g[i] = f[i]
    BY <2>2, <2>3, <1>0
  <2>6. ASSUME NEW i \in 0 .. n
        PROVE  g[i] = IF i = 0 THEN <<>>
                      ELSE IF q[i] \in keep THEN Append(g[i - 1], q[i]) ELSE g[i - 1]
    <3>1. CASE i = n
      <4>1. g[n - 1] = f[n - 1]
        BY <2>5, <2>2, <2>3, <1>0
      <4>2. g[n] = IF q[n] \in keep THEN Append(f[n - 1], q[n]) ELSE f[n - 1]
        BY <2>2, <1>0
      <4> HIDE DEF g
      <4> QED
        BY <4>1, <4>2, <3>1, <2>3
    <3>2. CASE i # n
      <4>1. i \in 0 .. n - 1 /\ g[i] = f[i]
        BY <3>2, <2>2, <2>5, <1>0
      <4>2. f[i] = IF i = 0 THEN <<>>
                   ELSE IF q[i] \in keep THEN Append(f[i - 1], q[i]) ELSE f[i - 1]
        BY <4>1, <2>4, Zenon
      <4>3. i # 0 => g[i - 1] = f[i - 1]
        BY <4>1, <2>5, <2>2, <1>0
      <4> HIDE DEF g
      <4> QED
        BY <4>1, <4>2, <4>3
    <3> QED
      BY <3>1, <3>2
  <2>7. Upto(g, n)
    <3>1. g = [i \in 0 .. n |-> g[i]]
      BY Zenon
    <3> HIDE DEF g
    <3> QED
      BY <2>6, <3>1
  <2> QED
    BY <2>2, <2>7
<1>2. \E f : Upto(f, Len(q))
  <2> HIDE DEF Upto
  <2> QED
    BY <1>0, <1>1
<1> QED
  BY <1>2 DEF Filters

\* What is kept of a queue.
LEMMA KeptIs ==
  ASSUME NEW X, NEW q \in Seq(X), NEW keep
  PROVE  /\ Kept(q, keep) \in Seq(X)
         /\ \A x \in Range(Kept(q, keep)) : x \in Range(q) /\ x \in keep
<1> DEFINE f == CHOOSE f : Filters(q, keep, f)
<1>1. Filters(q, keep, f)
  BY FiltersExists, Zenon
<1>2. Kept(q, keep) = f[Len(q)]
  BY DEF Kept, Filters
<1> HIDE DEF f
<1>3. \A i \in 0 .. Len(q) :
        f[i] = IF i = 0 THEN <<>>
               ELSE IF q[i] \in keep THEN Append(f[i - 1], q[i]) ELSE f[i - 1]
  BY <1>1, Zenon DEF Filters
<1>4. Len(q) \in Nat /\ DOMAIN q = 1 .. Len(q) /\ \A i \in 1 .. Len(q) : q[i] \in X
  OBVIOUS
<1> DEFINE Good(s) == s \in Seq(X) /\ \A x \in Range(s) : x \in Range(q) /\ x \in keep
           Bad == {n \in 0 .. Len(q) : ~ Good(f[n])}
<1>5. Bad = {}
  <2> SUFFICES ASSUME Bad # {} PROVE FALSE
    OBVIOUS
  <2> HIDE DEF Good
  <2>1. PICK n \in Bad : \A k \in Bad : n <= k
    <3>1. Bad \in SUBSET Nat
      BY <1>4
    <3> QED
      BY <3>1, LeastNat
  <2>2. n \in 0 .. Len(q) /\ ~ Good(f[n])
    OBVIOUS
  <2>3. n # 0
    <3>1. f[0] = <<>>
      BY <1>3, <1>4
    <3>2. Good(<<>>)
      BY DEF Good, Range
    <3> QED
      BY <3>1, <3>2, <2>2
  <2>4. n - 1 \in 0 .. Len(q) /\ ~ (n <= n - 1) /\ n \in 1 .. Len(q)
    BY <2>2, <2>3, <1>4
  <2>5. Good(f[n - 1])
    BY <2>1, <2>4
  <2>6. PICK g : g = f[n - 1]
    OBVIOUS
  <2>7. g \in Seq(X) /\ \A x \in Range(g) : x \in Range(q) /\ x \in keep
    BY <2>5, <2>6 DEF Good
  <2>8. CASE q[n] \in keep
    <3>1. PICK y \in X : y = q[n]
      BY <1>4, <2>4
    <3>2. f[n] = Append(g, y)
      BY <1>3, <2>2, <2>3, <2>6, <2>8, <3>1
    <3>3. y \in Range(q)
      BY <1>4, <2>4, <3>1 DEF Range
    <3>4. PICK l \in Nat : l = Len(g)
      BY <2>7
    <3>5. Append(g, y) \in Seq(X) /\ DOMAIN Append(g, y) = 1 .. l + 1 /\ DOMAIN g = 1 .. l
      BY <2>7, <3>4
    <3>6. \A i \in 1 .. l + 1 : Append(g, y)[i] = IF i <= l THEN g[i] ELSE y
      BY <2>7, <3>4
    <3>7. ASSUME NEW x \in Range(Append(g, y)) PROVE x \in Range(q) /\ x \in keep
      <4>1. PICK i \in 1 .. l + 1 : x = Append(g, y)[i]
        BY <3>5 DEF Range
      <4>2. x = y \/ x \in Range(g)
        BY <4>1, <3>5, <3>6 DEF Range
      <4> QED
        BY <4>2, <2>7, <2>8, <3>1, <3>3
    <3>8. Good(Append(g, y))
      BY <3>5, <3>7 DEF Good
    <3> QED
      BY <3>2, <3>8, <2>2
  <2>9. CASE q[n] \notin keep
    BY <1>3, <2>2, <2>3, <2>5, <2>9
  <2> QED
    BY <2>8, <2>9
<1>6. Good(f[Len(q)])
  <2>1. Len(q) \in 0 .. Len(q)
    BY <1>4
  <2> HIDE DEF Good
  <2> QED
    BY <2>1, <1>5
<1> QED
  BY <1>2, <1>6

-----------------------------------------------------------------------------
(* What the structure's operations keep.                                   *)

\* After merges: nothing but reps and the queue of merges is another.
Joins(w, m, hands, s, s2) ==
  /\ StateOK(w, m, hands, s2)
  /\ s2.struct.support = s.struct.support
  /\ s2.struct.table = s.struct.table
  /\ s2.events = s.events

\* The reps that Merge compares.
Lower(rep, x, y)   == IF rep[x] < rep[y] THEN rep[x] ELSE rep[y]
Greater(rep, x, y) == IF rep[x] < rep[y] THEN rep[y] ELSE rep[x]

\* What Merge makes of a state, if the reps are two.
LEMMA MergeIs ==
  ASSUME NEW s, Shaped(s), NEW x, NEW y, NEW lo, NEW hi,
         s.struct.rep[x] # s.struct.rep[y],
         hi = Greater(s.struct.rep, x, y), lo = Lower(s.struct.rep, x, y)
  PROVE  /\ Shaped(Merge(s, x, y))
         /\ Merge(s, x, y).struct.support = s.struct.support
         /\ Merge(s, x, y).struct.table = s.struct.table
         /\ Merge(s, x, y).struct.rep = Replaced(s.struct.rep, hi, lo)
         /\ Merge(s, x, y).events = s.events
         /\ Merge(s, x, y).merges = Append(s.merges, hi)
<1>1. PICK z : z = Merge(s, x, y)
  OBVIOUS
<1>2. z = [s EXCEPT !.struct.rep = Replaced(@, hi, lo), !.merges = Append(@, hi)]
  BY <1>1 DEF Merge, Lower, Greater
<1>3. /\ Shaped(z) /\ z.struct.support = s.struct.support /\ z.struct.table = s.struct.table
      /\ z.struct.rep = Replaced(s.struct.rep, hi, lo) /\ z.events = s.events
      /\ z.merges = Append(s.merges, hi)
  BY <1>2 DEF Shaped
<1> QED
  BY <1>1, <1>3

\* What the parts of a state say of others with the same obs.
LEMMA StateKeeps ==
  ASSUME NEW w, NEW m, NEW str, NEW str2, NEW ev,
         str2.support = str.support, str2.table = str.table,
         TablesOK(w, m, str), EventsOK(w, m, str, ev)
  PROVE  TablesOK(w, m, str2) /\ EventsOK(w, m, str2, ev)
<1>1. \A n, u : True(w, m, str2, n, u) <=> True(w, m, str, n, u)
  BY DEF True
<1>2. \A n, u : Telling(w, m, str2, n, u) <=> Telling(w, m, str, n, u)
  BY <1>1 DEF Telling
<1>3. TablesOK(w, m, str2)
  BY <1>1 DEF TablesOK
<1>4. EventsOK(w, m, str2, ev)
  BY <1>2 DEF EventsOK
<1> QED
  BY <1>3, <1>4

\* A member more, at the end.
Appended(q, x, q2) ==
  /\ DOMAIN q = 1 .. Len(q) /\ DOMAIN q2 = 1 .. Len(q) + 1 /\ Len(q) \in Nat
  /\ \A i \in 1 .. Len(q) : q2[i] = q[i]
  /\ q2[Len(q) + 1] = x
  /\ \A y : y \in Range(q2) <=> y \in Range(q) \/ y = x

\* Append adds one member.
LEMMA AppendRange ==
  ASSUME NEW X, NEW q \in Seq(X), NEW x, NEW q2, q2 = Append(q, x)
  PROVE  Appended(q, x, q2)
<1>1. PICK l \in Nat : l = Len(q) /\ DOMAIN q = 1 .. l
  OBVIOUS
<1>2. DOMAIN q2 = 1 .. l + 1 /\ \A i \in 1 .. l : q2[i] = q[i]
  BY <1>1
<1>3. q2[l + 1] = x
  BY <1>1
<1>4. \A i \in 1 .. l + 1 : i \in 1 .. l \/ i = l + 1
  OBVIOUS
<1>5. l + 1 \in 1 .. l + 1 /\ \A i \in 1 .. l : i \in 1 .. l + 1
  OBVIOUS
<1>6. Range(q2) = {q2[i] : i \in 1 .. l + 1} /\ Range(q) = {q[i] : i \in 1 .. l}
  BY <1>1, <1>2 DEF Range
<1>7. ASSUME NEW y PROVE y \in Range(q2) <=> y \in Range(q) \/ y = x
  <2>1. ASSUME y \in Range(q2) PROVE y \in Range(q) \/ y = x
    BY <2>1, <1>2, <1>3, <1>4, <1>6
  <2>2. ASSUME y \in Range(q) \/ y = x PROVE y \in Range(q2)
    BY <2>2, <1>2, <1>3, <1>5, <1>6
  <2> QED
    BY <2>1, <2>2
<1> QED
  BY <1>1, <1>2, <1>3, <1>7 DEF Appended

\* Of two reps, the lower one and the greater one.
LEMMA TwoReps ==
  ASSUME NEW d \in Nat, NEW S \in SUBSET (1 .. d), NEW rep,
         \A z \in S : rep[z] \in S /\ rep[rep[z]] = rep[z],
         NEW x \in S, NEW y \in S, rep[x] # rep[y]
  PROVE  /\ Lower(rep, x, y) \in S /\ Greater(rep, x, y) \in S
         /\ Lower(rep, x, y) < Greater(rep, x, y)
         /\ rep[Lower(rep, x, y)] = Lower(rep, x, y)
         /\ rep[Greater(rep, x, y)] = Greater(rep, x, y)
         /\ Lower(rep, x, y) \in {rep[x], rep[y]} /\ Greater(rep, x, y) \in {rep[x], rep[y]}
<1>1. PICK a \in S : a = rep[x]
  OBVIOUS
<1>2. PICK b \in S : b = rep[y]
  OBVIOUS
<1>3. a \in Nat /\ b \in Nat /\ a # b /\ rep[a] = a /\ rep[b] = b
  BY <1>1, <1>2
<1>4. CASE a < b
  <2>1. Lower(rep, x, y) = a /\ Greater(rep, x, y) = b
    BY <1>1, <1>2, <1>4 DEF Lower, Greater
  <2> QED
    BY <2>1, <1>1, <1>2, <1>3, <1>4
<1>5. CASE ~ (a < b)
  <2>1. Lower(rep, x, y) = b /\ Greater(rep, x, y) = a
    BY <1>1, <1>2, <1>5 DEF Lower, Greater
  <2> QED
    BY <2>1, <1>1, <1>2, <1>3, <1>5
<1> QED
  BY <1>4, <1>5

\* Obs that denote the same are merged.
LEMMA MergeOK ==
  ASSUME NEW w, NEW m, NEW hands, NEW s, StateOK(w, m, hands, s), w.dim \in Nat,
         NEW x \in s.struct.support, NEW y \in s.struct.support, m[x] = m[y]
  PROVE  Joins(w, m, hands, s, Merge(s, x, y))
<1>1. CASE s.struct.rep[x] = s.struct.rep[y]
  BY <1>1 DEF Merge, Joins
<1>2. CASE s.struct.rep[x] # s.struct.rep[y]
  <2>0. PICK k, rep, S, mg :
          k = w.dim /\ rep = s.struct.rep /\ S = s.struct.support /\ mg = s.merges
    OBVIOUS
  <2>a. x \in S /\ y \in S /\ rep[x] # rep[y] /\ k \in Nat
    BY <1>2, <2>0
  <2>1. /\ S \in SUBSET (1 .. k) /\ DOMAIN rep = 1 .. k
        /\ \A z \in S : /\ rep[z] \in S /\ rep[z] <= z /\ rep[rep[z]] = rep[z]
                        /\ m[rep[z]] = m[z] /\ m[z] \in Elements(w)
    BY <2>0 DEF StateOK, RepsOK
  <2>2. PICK lo, hi : hi = Greater(rep, x, y) /\ lo = Lower(rep, x, y)
    OBVIOUS
  <2>3. lo \in S /\ hi \in S /\ lo < hi /\ rep[lo] = lo /\ rep[hi] = hi /\ m[lo] = m[hi]
       /\ lo \in Nat /\ hi \in Nat
    <3>4. /\ lo \in S /\ hi \in S /\ lo < hi /\ rep[lo] = lo /\ rep[hi] = hi
          /\ lo \in {rep[x], rep[y]} /\ hi \in {rep[x], rep[y]}
      <4>1. \A z \in S : rep[z] \in S /\ rep[rep[z]] = rep[z]
        BY <2>1
      <4>2. S \in SUBSET (1 .. k)
        BY <2>1
      <4> QED
        BY <2>a, <2>2, <4>1, <4>2, TwoReps
    <3>5. m[rep[x]] = m[x] /\ m[rep[y]] = m[x]
      BY <2>a, <2>1
    <3>6. lo \in Nat /\ hi \in Nat
      BY <3>4, <2>1, <2>a
    <3> QED
      BY <3>4, <3>5, <3>6
  <2>4. PICK s2 : s2 = Merge(s, x, y)
    OBVIOUS
  <2>5. /\ Shaped(s2) /\ s2.struct.support = S /\ s2.struct.table = s.struct.table
        /\ s2.struct.rep = Replaced(rep, hi, lo) /\ s2.events = s.events
        /\ s2.merges = Append(mg, hi)
    <3>1. Shaped(s)
      BY DEF StateOK
    <3> QED
      BY <1>2, <2>0, <2>2, <2>4, <3>1, MergeIs
  <2>6. \A z \in S : s2.struct.rep[z] = IF rep[z] = hi THEN lo ELSE rep[z]
    BY <2>1, <2>5 DEF Replaced
  <2>7. RepsOK(w, m, s2.struct)
    <3>1. S \subseteq 1 .. k /\ DOMAIN s2.struct.rep = 1 .. k
      BY <2>1, <2>5 DEF Replaced
    <3>2. ASSUME NEW z \in S
          PROVE  /\ s2.struct.rep[z] \in S /\ s2.struct.rep[z] <= z
                 /\ s2.struct.rep[s2.struct.rep[z]] = s2.struct.rep[z]
                 /\ m[s2.struct.rep[z]] = m[z] /\ m[z] \in Elements(w)
      <4>1. z \in Nat /\ rep[z] \in Nat /\ lo \in Nat /\ hi \in Nat
        BY <2>1, <2>3
      <4>2. CASE rep[z] = hi
        <5>1. s2.struct.rep[z] = lo /\ s2.struct.rep[lo] = lo
          BY <2>3, <2>6, <4>1, <4>2
        <5> QED
          BY <5>1, <4>1, <4>2, <2>1, <2>3
      <4>3. CASE rep[z] # hi
        <5>1. s2.struct.rep[z] = rep[z] /\ rep[z] \in S /\ rep[rep[z]] = rep[z]
          BY <2>1, <2>6, <4>3
        <5>2. s2.struct.rep[rep[z]] = rep[z]
          BY <5>1, <2>6, <4>3
        <5> QED
          BY <5>1, <5>2, <2>1
      <4> QED
        BY <4>2, <4>3
    <3> QED
      BY <3>1, <3>2, <2>5, <2>0 DEF RepsOK
  <2>8. MergesOK(s2.struct, hands, s2.merges)
    <3>1. /\ mg \in Seq(S) /\ hands \subseteq S
          /\ \A d \in hands \cup Range(mg) : rep[d] # d
          /\ Range(mg) \cap hands = {}
          /\ \A i, j \in DOMAIN mg : i # j => mg[i] # mg[j]
      BY <2>0 DEF StateOK, MergesOK
    <3>2. /\ DOMAIN mg = 1 .. Len(mg) /\ DOMAIN s2.merges = 1 .. Len(mg) + 1
          /\ Len(mg) \in Nat
          /\ \A i \in 1 .. Len(mg) : s2.merges[i] = mg[i]
          /\ s2.merges[Len(mg) + 1] = hi
          /\ \A d : d \in Range(s2.merges) <=> d \in Range(mg) \/ d = hi
      <4>1. PICK mg2 : mg2 = s2.merges
        OBVIOUS
      <4>2. mg \in Seq(S) /\ mg2 = Append(mg, hi)
        BY <3>1, <2>5, <4>1
      <4>3. /\ DOMAIN mg = 1 .. Len(mg) /\ DOMAIN mg2 = 1 .. Len(mg) + 1
            /\ Len(mg) \in Nat
            /\ \A i \in 1 .. Len(mg) : mg2[i] = mg[i]
            /\ mg2[Len(mg) + 1] = hi
            /\ \A d : d \in Range(mg2) <=> d \in Range(mg) \/ d = hi
        <5>1. Appended(mg, hi, mg2)
          BY <4>2, AppendRange
        <5> QED
          BY <5>1 DEF Appended
      <4> QED
        BY <4>1, <4>3
    <3>3. hi \notin hands /\ hi \notin Range(mg)
      BY <3>1, <2>3
    <3>4. s2.merges \in Seq(S)
      BY <3>1, <2>5, <2>3
    <3>5. \A i \in 1 .. Len(mg) : mg[i] \in Range(mg) /\ mg[i] \in S
      BY <3>1, <3>2 DEF Range
    <3>6. ASSUME NEW d \in hands \cup Range(s2.merges) PROVE s2.struct.rep[d] # d
      <4>1. d \in S
        <5>1. d \in hands \/ d \in Range(mg) \/ d = hi
          BY <3>2
        <5>2. \A e \in Range(mg) : e \in S
          BY <3>2, <3>5 DEF Range
        <5>3. \A e \in hands : e \in S
          BY <3>1
        <5> QED
          BY <5>1, <5>2, <5>3, <2>3
      <4>2. CASE d = hi
        BY <4>2, <2>3, <2>6, <2>1
      <4>3. CASE d # hi
        <5>1. rep[d] # d
          BY <3>1, <3>2, <4>3
        <5> QED
          BY <5>1, <4>1, <2>3, <2>6
      <4> QED
        BY <4>2, <4>3
    <3>7. Range(s2.merges) \cap hands = {}
      BY <3>1, <3>2, <3>3
    <3>8. ASSUME NEW i \in DOMAIN s2.merges, NEW j \in DOMAIN s2.merges, i # j
          PROVE  s2.merges[i] # s2.merges[j]
      <4>1. \A h \in DOMAIN s2.merges : h \in 1 .. Len(mg) \/ h = Len(mg) + 1
        BY <3>2
      <4>2. \A h \in 1 .. Len(mg) : h \in DOMAIN mg /\ s2.merges[h] = mg[h]
                                     /\ s2.merges[h] # hi
        BY <3>2, <3>3, <3>5
      <4>3. i \in 1 .. Len(mg) \/ j \in 1 .. Len(mg)
        BY <3>8, <4>1
      <4>4. s2.merges[Len(mg) + 1] = hi
        BY <3>2
      <4>5. CASE i \in 1 .. Len(mg) /\ j \in 1 .. Len(mg)
        BY <3>1, <3>8, <4>2, <4>5
      <4>6. CASE i = Len(mg) + 1 \/ j = Len(mg) + 1
        BY <4>2, <4>3, <4>4, <4>6
      <4> QED
        BY <4>1, <4>5, <4>6
    <3> QED
      BY <3>1, <3>4, <3>6, <3>7, <3>8, <2>5 DEF MergesOK
  <2>9. TablesOK(w, m, s2.struct) /\ EventsOK(w, m, s2.struct, s2.events)
    <3>1. TablesOK(w, m, s.struct) /\ EventsOK(w, m, s.struct, s.events)
      BY DEF StateOK
    <3> QED
      BY <3>1, <2>5, <2>0, StateKeeps
  <2> QED
    BY <2>0, <2>4, <2>5, <2>7, <2>8, <2>9 DEF Joins, StateOK
<1> QED
  BY <1>1, <1>2

\* The states that MergeAll comes by exist.
StepOf(t, p) == Only({Merge(a, p[1], p[2]) : a \in {t}})

Steps(s, q, n, f) == f = [i \in 0 .. n |-> IF i = 0 THEN s ELSE StepOf(f[i - 1], q[i])]

\* A step of MergeAll is a Merge.
LEMMA StepIs ==
  ASSUME NEW t, NEW p
  PROVE  StepOf(t, p) = Merge(t, p[1], p[2])
<1>1. {Merge(a, p[1], p[2]) : a \in {t}} = {Merge(t, p[1], p[2])}
  OBVIOUS
<1>2. ASSUME NEW y PROVE Only({y}) = y
  BY DEF Only
<1> QED
  BY <1>1, <1>2 DEF StepOf

\* The function by which MergeAll goes through its pairs exists.
LEMMA StepsExist ==
  ASSUME NEW l \in Nat, NEW s, NEW q
  PROVE  \E f : Steps(s, q, l, f)
<1> DEFINE Bad == {n \in 0 .. l : ~ \E f : Steps(s, q, n, f)}
<1>1. Bad = {}
  <2> SUFFICES ASSUME Bad # {} PROVE FALSE
    OBVIOUS
  <2>1. PICK n \in Bad : \A k \in Bad : n <= k
    <3>1. Bad \in SUBSET Nat
      OBVIOUS
    <3> HIDE DEF Bad
    <3> QED
      BY <3>1, LeastNat
  <2>2. n \in 0 .. l /\ ~ \E f : Steps(s, q, n, f)
    OBVIOUS
  <2>3. n # 0
    <3>1. PICK f : f = [i \in 0 .. 0 |-> s]
      OBVIOUS
    <3>2. \A i \in 0 .. 0 : i = 0
      OBVIOUS
    <3>3. Steps(s, q, 0, f)
      BY <3>1, <3>2 DEF Steps
    <3> QED
      BY <2>2, <3>3
  <2>4. PICK f : Steps(s, q, n - 1, f)
    <3>1. n - 1 \in 0 .. l /\ ~ (n <= n - 1)
      BY <2>2, <2>3
    <3> QED
      BY <3>1, <2>1
  <2> DEFINE g == [i \in 0 .. n |-> IF i = n THEN StepOf(f[n - 1], q[n]) ELSE f[i]]
  <2>5. \A i \in 0 .. n - 1 : g[i] = f[i]
    BY <2>2, <2>3
  <2>6. ASSUME NEW i \in 0 .. n
        PROVE  g[i] = IF i = 0 THEN s ELSE StepOf(g[i - 1], q[i])
    <3>1. CASE i = n
      <4>1. g[n - 1] = f[n - 1]
        BY <2>5, <2>2, <2>3
      <4>2. g[n] = StepOf(f[n - 1], q[n])
        BY <2>2
      <4> HIDE DEF g
      <4> QED
        BY <4>1, <4>2, <3>1, <2>3
    <3>2. CASE i # n
      <4>1. i \in 0 .. n - 1 /\ g[i] = f[i]
        BY <3>2, <2>2, <2>5
      <4>2. f[i] = IF i = 0 THEN s ELSE StepOf(f[i - 1], q[i])
        BY <4>1, <2>4, Zenon DEF Steps
      <4>3. i # 0 => g[i - 1] = f[i - 1]
        BY <4>1, <2>5, <2>2
      <4> HIDE DEF g
      <4> QED
        BY <4>1, <4>2, <4>3
    <3> QED
      BY <3>1, <3>2
  <2>7. Steps(s, q, n, g)
    <3>1. g = [i \in 0 .. n |-> g[i]]
      BY Zenon
    <3> HIDE DEF g
    <3> QED
      BY <2>6, <3>1 DEF Steps
  <2> QED
    BY <2>2, <2>7
<1> QED
  BY <1>1

\* Pairs of obs that denote the same are merged.
LEMMA MergeAllOK ==
  ASSUME NEW w, NEW m, NEW hands, NEW s, StateOK(w, m, hands, s), w.dim \in Nat, NEW pairs,
         pairs \in SUBSET (s.struct.support \X s.struct.support),
         \A p \in pairs : m[p[1]] = m[p[2]]
  PROVE  Joins(w, m, hands, s, MergeAll(s, pairs))
<1>1. PICK S : S = s.struct.support
  OBVIOUS
<1>2. PICK q : q = SetToSeq(pairs)
  OBVIOUS
<1>3. /\ q \in Seq(pairs) /\ \A p \in pairs : p[1] \in S /\ p[2] \in S /\ m[p[1]] = m[p[2]]
  <2>1. PICK d \in Nat : d = w.dim
    OBVIOUS
  <2>2. S \subseteq 1 .. d
    BY <1>1, <2>1 DEF StateOK, RepsOK
  <2>3. pairs \in SUBSET ((1 .. d) \X (1 .. d))
    BY <1>1, <2>2
  <2>4. IsFiniteSet(pairs)
    BY <2>3, PairsFinite
  <2>5. q \in Seq(pairs)
    BY <2>4, <1>2, SetToSeqIs
  <2> QED
    BY <2>5, <1>1
<1>4. PICK l \in Nat : l = Len(q) /\ \A i \in 1 .. l : q[i] \in pairs
  BY <1>3
<1> DEFINE f == CHOOSE f : Steps(s, q, l, f)
<1>5. Steps(s, q, l, f)
  BY StepsExist, Zenon
<1>6. MergeAll(s, pairs) = f[l]
  BY <1>2, <1>4 DEF MergeAll, Steps, StepOf
<1> HIDE DEF f
<1>7. \A i \in 0 .. l : f[i] = IF i = 0 THEN s ELSE StepOf(f[i - 1], q[i])
  BY <1>5, Zenon DEF Steps
<1> DEFINE Bad == {n \in 0 .. l : ~ Joins(w, m, hands, s, f[n])}
<1>8. Bad = {}
  <2> SUFFICES ASSUME Bad # {} PROVE FALSE
    OBVIOUS
  <2>1. PICK n \in Bad : \A k \in Bad : n <= k
    <3>1. Bad \in SUBSET Nat
      OBVIOUS
    <3> HIDE DEF Bad
    <3> QED
      BY <3>1, LeastNat
  <2>2. n \in 0 .. l /\ ~ Joins(w, m, hands, s, f[n])
    OBVIOUS
  <2>3. n # 0
    <3>1. f[0] = s
      BY <1>7
    <3>2. Joins(w, m, hands, s, s)
      BY DEF Joins
    <3> QED
      BY <3>1, <3>2, <2>2
  <2>4. n - 1 \in 0 .. l /\ ~ (n <= n - 1) /\ n \in 1 .. l
    BY <2>2, <2>3
  <2>5. PICK t : t = f[n - 1]
    OBVIOUS
  <2>6. Joins(w, m, hands, s, t)
    BY <2>1, <2>4, <2>5
  <2>7. PICK p \in pairs : p = q[n]
    BY <2>4, <1>4
  <2>8. f[n] = Merge(t, p[1], p[2])
    BY <2>2, <2>3, <2>5, <2>7, <1>7, StepIs
  <2>9. p[1] \in t.struct.support /\ p[2] \in t.struct.support /\ m[p[1]] = m[p[2]]
    BY <1>1, <1>3, <2>6 DEF Joins
  <2>10. Joins(w, m, hands, t, Merge(t, p[1], p[2]))
    BY <2>6, <2>9, MergeOK DEF Joins
  <2>11. Joins(w, m, hands, s, f[n])
    BY <2>6, <2>8, <2>10 DEF Joins
  <2> QED
    BY <2>2, <2>11
<1> QED
  BY <1>6, <1>8

\* What the queue of merges says is of support and rep alone.
LEMMA MergesKeep ==
  ASSUME NEW str, NEW str2, NEW hands, NEW mg,
         str2.support = str.support, str2.rep = str.rep, MergesOK(str, hands, mg)
  PROVE  MergesOK(str2, hands, mg)
<1>1. PICK S, rep : S = str.support /\ rep = str.rep
  OBVIOUS
<1>2. S = str2.support /\ rep = str2.rep
  BY <1>1
<1>3. /\ mg \in Seq(S) /\ hands \subseteq S
      /\ \A d \in hands \cup Range(mg) : rep[d] # d
      /\ Range(mg) \cap hands = {}
      /\ \A i, j \in DOMAIN mg : i # j => mg[i] # mg[j]
  BY <1>1 DEF MergesOK
<1> QED
  BY <1>2, <1>3 DEF MergesOK

\* After an operation on tables: nothing is lost.
Grows(w, m, hands, s, s2) ==
  /\ StateOK(w, m, hands, s2)
  /\ s2.struct.support = s.struct.support
  /\ \A n \in DOMAIN w.model : \A u \in s.struct.table[n] : u \in s2.struct.table[n]

\* True entries are added to a table.
LEMMA GrowOK ==
  ASSUME NEW w, NEW m, NEW hands, NEW s, StateOK(w, m, hands, s), NEW n \in DOMAIN w.model,
         NEW us, \A u \in us : True(w, m, s.struct, n, u),
         NEW t, t = [s EXCEPT !.struct.table[n] = @ \cup us]
  PROVE  Grows(w, m, hands, s, t)
<1>1. Shaped(s) /\ TablesOK(w, m, s.struct)
  BY DEF StateOK
<1>2. PICK tab : tab = s.struct.table
  OBVIOUS
<1>3. PICK more : more = tab[n] \cup us
  OBVIOUS
<1>4. t = [s EXCEPT !.struct.table = [tab EXCEPT ![n] = more]]
  BY <1>2, <1>3, Zenon
<1>5. PICK tab2 : tab2 = [tab EXCEPT ![n] = more]
  OBVIOUS
<1>6. t = [s EXCEPT !.struct.table = tab2]
  BY <1>4, <1>5, Zenon
<1>7. /\ Shaped(t) /\ t.struct.support = s.struct.support /\ t.struct.table = tab2
      /\ t.struct.rep = s.struct.rep /\ t.events = s.events /\ t.merges = s.merges
  <2>1. PICK S, rep, ev, mg : S = s.struct.support /\ rep = s.struct.rep /\ ev = s.events /\ mg = s.merges
    OBVIOUS
  <2>2. PICK str, str2 : str = s.struct /\ str2 = [s.struct EXCEPT !.table = tab2]
    OBVIOUS
  <2>3. s = [struct |-> str, events |-> ev, merges |-> mg]
    BY <1>1, <2>1, <2>2, Zenon DEF Shaped
  <2>4. str = [support |-> S, rep |-> rep, table |-> tab]
    BY <1>1, <1>2, <2>1, <2>2, Zenon DEF Shaped
  <2>5. t = [s EXCEPT !.struct = str2]
    BY <1>6, <2>2, Zenon
  <2>6. t = [struct |-> str2, events |-> ev, merges |-> mg]
    BY <2>3, <2>5
  <2>7. str2 = [support |-> S, rep |-> rep, table |-> tab2]
    BY <2>2, <2>4
  <2>8. t.struct = str2 /\ t.events = ev /\ t.merges = mg
    BY <2>6
  <2>9. str2.support = S /\ str2.rep = rep /\ str2.table = tab2
    BY <2>7
  <2>10. Shaped(t)
    BY <2>6, <2>7, <2>8, <2>9, Zenon DEF Shaped
  <2> QED
    BY <2>1, <2>8, <2>9, <2>10, Zenon
<1>8. DOMAIN tab = DOMAIN w.model /\ \A k \in DOMAIN w.model : \A u \in tab[k] : True(w, m, s.struct, k, u)
  BY <1>1, <1>2 DEF TablesOK
<1>9. DOMAIN tab2 = DOMAIN w.model
  BY <1>5, <1>8
<1>10. \A k \in DOMAIN w.model : tab2[k] = IF k = n THEN more ELSE tab[k]
  BY <1>5, <1>8
<1>11. \A k, u : True(w, m, t.struct, k, u) <=> True(w, m, s.struct, k, u)
  BY <1>7 DEF True
<1>12. ASSUME NEW k \in DOMAIN w.model, NEW u \in tab2[k] PROVE True(w, m, t.struct, k, u)
  <2>1. CASE k = n
    <3>1. u \in tab[n] \/ u \in us
      BY <1>3, <1>10, <1>12, <2>1
    <3> QED
      BY <3>1, <2>1, <1>8, <1>11
  <2>2. CASE k # n
    BY <2>2, <1>8, <1>10, <1>11
  <2> QED
    BY <2>1, <2>2
<1>13. TablesOK(w, m, t.struct)
  BY <1>7, <1>9, <1>12 DEF TablesOK
<1>14. \A k, u : Telling(w, m, t.struct, k, u) <=> Telling(w, m, s.struct, k, u)
  BY <1>7, <1>11 DEF Telling
<1>15. EventsOK(w, m, t.struct, t.events)
  BY <1>7, <1>14 DEF EventsOK, StateOK
<1>16. RepsOK(w, m, t.struct) /\ MergesOK(t.struct, hands, t.merges)
  <2>1. RepsOK(w, m, s.struct) /\ MergesOK(s.struct, hands, s.merges)
    BY DEF StateOK
  <2>2. RepsOK(w, m, t.struct)
    BY <2>1, <1>7 DEF RepsOK
  <2>3. MergesOK(t.struct, hands, t.merges)
    BY <2>1, <1>7, MergesKeep
  <2> QED
    BY <2>2, <2>3
<1>17. \A k \in DOMAIN w.model : \A u \in tab[k] : u \in tab2[k]
  BY <1>3, <1>10
<1> QED
  BY <1>2, <1>7, <1>13, <1>15, <1>16, <1>17 DEF Grows, StateOK

\* A relation is told of an entry.
LEMMA TellOK ==
  ASSUME NEW w, NEW m, NEW hands, NEW s, StateOK(w, m, hands, s), NEW n \in Told,
         NEW u, True(w, m, s.struct, n, u),
         NEW t, t = [s EXCEPT !.events[n] = Append(@, u)]
  PROVE  Grows(w, m, hands, s, t)
<1>1. Shaped(s) /\ EventsOK(w, m, s.struct, s.events)
  BY DEF StateOK
<1>2. PICK ev : ev = s.events
  OBVIOUS
<1>3. PICK q : q = Append(ev[n], u)
  OBVIOUS
<1>4. PICK ev2 : ev2 = [ev EXCEPT ![n] = q]
  OBVIOUS
<1>5. t = [s EXCEPT !.events = ev2]
  BY <1>2, <1>3, <1>4, Zenon
<1>6. Shaped(t) /\ t.struct = s.struct /\ t.events = ev2 /\ t.merges = s.merges
  BY <1>1, <1>5 DEF Shaped
<1>7. /\ DOMAIN ev = {"exists"} \cup Told
      /\ \A k \in DOMAIN ev : /\ ev[k] \in Seq(Range(ev[k]))
                              /\ \A v \in Range(ev[k]) : Telling(w, m, s.struct, k, v)
  BY <1>1, <1>2 DEF EventsOK
<1>8. n \in DOMAIN ev /\ n # "exists"
  BY <1>7 DEF Told
<1>9. \A k \in DOMAIN ev : ev2[k] = IF k = n THEN q ELSE ev[k]
  BY <1>4
<1>10. DOMAIN ev2 = {"exists"} \cup Told
  BY <1>4, <1>7
<1>11. PICK q1 : q1 = ev[n]
  OBVIOUS
<1>12. q1 \in Seq(Range(q1)) /\ q = Append(q1, u)
  BY <1>3, <1>7, <1>8, <1>11
<1>13. Appended(q1, u, q)
  BY <1>12, AppendRange
<1>14. Telling(w, m, s.struct, n, u)
  BY <1>8 DEF Telling
<1>15. ASSUME NEW v \in Range(q) PROVE Telling(w, m, s.struct, n, v)
  <2>1. v \in Range(q1) \/ v = u
    BY <1>13 DEF Appended
  <2> QED
    BY <2>1, <1>7, <1>8, <1>11, <1>14
<1>16. q \in Seq(Range(q))
  <2>1. q1 \in Seq(Range(q))
    <3>1. \A i \in 1 .. Len(q1) : q1[i] \in Range(q)
      BY <1>13 DEF Appended, Range
    <3> QED
      BY <1>12, <3>1
  <2>2. u \in Range(q)
    BY <1>13 DEF Appended
  <2> QED
    BY <2>1, <2>2, <1>12
<1>17. EventsOK(w, m, t.struct, t.events)
  BY <1>6, <1>7, <1>9, <1>10, <1>15, <1>16 DEF EventsOK
<1> QED
  BY <1>6, <1>17 DEF Grows, StateOK

\* The length of an entry of a model, and of one that is true in it.
Measured(w, m, str, n, u) ==
  /\ u \in Seq(str.support) /\ Len(u) \in 1 .. 3
  /\ n \in FunctionNames => Len(u) = Arity(n) + 1
  /\ n \in Told => Len(u) = 2
  /\ Image(m, u) \in w.model[n] /\ Len(Image(m, u)) = Len(u)

\* What is true in the model has the length of an entry.
LEMMA EntryLength ==
  ASSUME NEW w, NEW m, NEW str, IsModel(w), NEW n \in DOMAIN w.model, NEW u, True(w, m, str, n, u)
  PROVE  Measured(w, m, str, n, u)
<1>1. u \in Seq(str.support) /\ Image(m, u) \in w.model[n]
  BY DEF True
<1>2. Len(Image(m, u)) = Len(u)
  BY <1>1, ImageIs
<1>3. IsEntry(n, Image(m, u))
  BY <1>1 DEF IsModel
<1> QED
  BY <1>1, <1>2, <1>3 DEF IsEntry, Measured

\* Entries with the same key have values that denote the same.
LEMMA SameKey ==
  ASSUME NEW w, NEW m, NEW str, IsModel(w), NEW n \in FunctionNames \cap DOMAIN w.model,
         NEW u, NEW v, True(w, m, str, n, u), True(w, m, str, n, v), Front(u) = Front(v)
  PROVE  Last(u) \in str.support /\ Last(v) \in str.support /\ m[Last(u)] = m[Last(v)]
<1>0. Measured(w, m, str, n, u) /\ Measured(w, m, str, n, v)
  BY EntryLength
<1>1. /\ u \in Seq(str.support) /\ Len(u) >= 1 /\ Image(m, u) \in w.model[n]
      /\ v \in Seq(str.support) /\ Len(v) >= 1 /\ Image(m, v) \in w.model[n]
  BY <1>0 DEF Measured
<1>2. Last(u) \in str.support /\ Last(v) \in str.support
  BY <1>1, FrontLast
<1>3. /\ Front(Image(m, u)) = Image(m, Front(u)) /\ Last(Image(m, u)) = m[Last(u)]
      /\ Front(Image(m, v)) = Image(m, Front(v)) /\ Last(Image(m, v)) = m[Last(v)]
  BY <1>1, ImageFront
<1>4. Last(Image(m, u)) = Last(Image(m, v))
  BY <1>1, <1>3 DEF IsModel
<1> QED
  BY <1>2, <1>3, <1>4

\* So have those of an injective function with the same value.
Alike(m, S, x, y) == x \in S /\ y \in S /\ m[x] = m[y]

\* Entries of an injective function with the same value have keys that denote the same.
LEMMA SameValue ==
  ASSUME NEW w, NEW m, NEW str, IsModel(w), NEW n \in Injective \cap DOMAIN w.model,
         NEW u, NEW v, True(w, m, str, n, u), True(w, m, str, n, v), u[2] = v[2]
  PROVE  Alike(m, str.support, u[1], v[1])
<1>1. n \in FunctionNames /\ Arity(n) = 1
  BY DEF FunctionNames, Injective, Arity, Nullary
<1>0. Measured(w, m, str, n, u) /\ Measured(w, m, str, n, v)
  BY EntryLength
<1>2. /\ u \in Seq(str.support) /\ Len(u) = 2 /\ Image(m, u) \in w.model[n]
      /\ v \in Seq(str.support) /\ Len(v) = 2 /\ Image(m, v) \in w.model[n]
  BY <1>0, <1>1 DEF Measured
<1>3. 1 \in DOMAIN u /\ 2 \in DOMAIN u /\ 1 \in DOMAIN v /\ 2 \in DOMAIN v
  BY <1>2
<1>4. u[1] \in str.support /\ v[1] \in str.support
  <2>1. u[1] \in str.support
    BY <1>2, <1>3, SeqAt
  <2>2. v[1] \in str.support
    BY <1>2, <1>3, SeqAt
  <2> QED
    BY <2>1, <2>2
<1>5. /\ Image(m, u)[1] = m[u[1]] /\ Image(m, u)[2] = m[u[2]]
      /\ Image(m, v)[1] = m[v[1]] /\ Image(m, v)[2] = m[v[2]]
  BY <1>3, ImageAt
<1>6. Image(m, u)[1] = Image(m, v)[1]
  BY <1>2, <1>5 DEF IsModel
<1> QED
  BY <1>4, <1>5, <1>6 DEF Alike

\* An entry of a symmetric table has its arguments in both orders.
LEMMA SameOK ==
  ASSUME NEW w, NEW m, NEW str, IsModel(w), NEW n \in DOMAIN w.model, NEW u, True(w, m, str, n, u)
  PROVE  u \in Same(n, u) /\ \A v \in Same(n, u) : True(w, m, str, n, v)
<1>1. CASE n \notin Symmetric
  BY <1>1 DEF Same
<1>2. CASE n \in Symmetric
  <2>1. n \in FunctionNames /\ Arity(n) = 2
    BY <1>2 DEF FunctionNames, Symmetric, Arity, Nullary, Injective
  <2>0. Measured(w, m, str, n, u)
    BY EntryLength
  <2>2. u \in Seq(str.support) /\ Len(u) = 3 /\ Image(m, u) \in w.model[n]
    BY <2>0, <2>1 DEF Measured
  <2>6. 1 \in DOMAIN u /\ 2 \in DOMAIN u /\ 3 \in DOMAIN u
    BY <2>2
  <2>3. PICK a, b, c : a = u[1] /\ b = u[2] /\ c = u[3]
    OBVIOUS
  <2>4. a \in str.support /\ b \in str.support /\ c \in str.support
    <3>0. PICK S : S = str.support
      OBVIOUS
    <3>1. u \in Seq(S)
      BY <2>2, <3>0
    <3>2. u[1] \in S /\ u[2] \in S /\ u[3] \in S
      BY <2>6, <3>1, SeqAt
    <3> QED
      BY <2>3, <3>0, <3>2
  <2>7. Image(m, u)[1] = m[a] /\ Image(m, u)[2] = m[b] /\ Image(m, u)[3] = m[c]
    BY <2>3, <2>6, ImageAt
  <2>8. <<m[b], m[a], m[c]>> \in w.model[n]
    BY <1>2, <2>2, <2>7 DEF IsModel
  <2>9. Image(m, <<b, a, c>>) = <<m[b], m[a], m[c]>>
    BY DEF Image
  <2>10. <<b, a, c>> \in Seq(str.support)
    <3>1. PICK S : S = str.support
      OBVIOUS
    <3>2. a \in S /\ b \in S /\ c \in S
      BY <2>4, <3>1
    <3>3. <<b, a, c>> \in Seq(S)
      BY <3>2
    <3> QED
      BY <3>1, <3>3
  <2>11. True(w, m, str, n, <<b, a, c>>)
    BY <2>8, <2>9, <2>10 DEF True
  <2> QED
    BY <1>2, <2>3, <2>11 DEF Same
<1> QED
  BY <1>1, <1>2

\* What Insert merges.
Twins(s, n, u) ==
  ({Last(u)} \X Find(s, n, Front(u)))
    \cup {<<u[1], v[1]>> : v \in {v \in s.struct.table[n] : n \in Injective /\ v[2] = u[2]}}

\* True entries with the same arguments have values that denote the same.
LEMMA TwinAt ==
  ASSUME NEW w, NEW m, NEW str, IsModel(w), NEW n \in FunctionNames \cap DOMAIN w.model,
         NEW u, True(w, m, str, n, u), NEW v, True(w, m, str, n, v), Front(v) = Front(u),
         NEW p, p = <<Last(u), Last(v)>>
  PROVE  p \in str.support \X str.support /\ m[p[1]] = m[p[2]]
<1>1. Last(u) \in str.support /\ Last(v) \in str.support /\ m[Last(u)] = m[Last(v)]
  <2>1. Front(u) = Front(v)
    OBVIOUS
  <2> QED
    BY <2>1, SameKey
<1> QED
  BY <1>1

\* What an insertion merges denotes the same.
LEMMA TwinsOK ==
  ASSUME NEW w, NEW m, NEW s, IsModel(w), TablesOK(w, m, s.struct),
         NEW n \in FunctionNames \cap DOMAIN w.model, NEW u, True(w, m, s.struct, n, u)
  PROVE  /\ Twins(s, n, u) \in SUBSET (s.struct.support \X s.struct.support)
         /\ \A p \in Twins(s, n, u) : m[p[1]] = m[p[2]]
<1>1. \A v \in s.struct.table[n] : True(w, m, s.struct, n, v)
  BY DEF TablesOK
<1>2. ASSUME NEW p \in {Last(u)} \X Find(s, n, Front(u))
      PROVE  p \in s.struct.support \X s.struct.support /\ m[p[1]] = m[p[2]]
  <2>1. PICK v \in s.struct.table[n] : p = <<Last(u), Last(v)>> /\ Front(v) = Front(u)
    BY DEF Find
  <2>2. True(w, m, s.struct, n, v)
    BY <1>1, <2>1
  <2> QED
    BY <2>1, <2>2, TwinAt
<1>3. ASSUME NEW p \in {<<u[1], v[1]>> : v \in {v \in s.struct.table[n] : n \in Injective /\ v[2] = u[2]}}
      PROVE  p \in s.struct.support \X s.struct.support /\ m[p[1]] = m[p[2]]
  <2>1. PICK v \in s.struct.table[n] : p = <<u[1], v[1]>> /\ n \in Injective /\ u[2] = v[2]
    BY <1>3
  <2>2. u[1] \in s.struct.support /\ v[1] \in s.struct.support /\ m[u[1]] = m[v[1]]
    <3>1. n \in Injective \cap DOMAIN w.model /\ True(w, m, s.struct, n, v)
      BY <1>1, <2>1
    <3>2. Alike(m, s.struct.support, u[1], v[1])
      BY <2>1, <3>1, SameValue
    <3> QED
      BY <3>2 DEF Alike
  <2> QED
    BY <2>1, <2>2
<1>4. \A p \in Twins(s, n, u) : p \in s.struct.support \X s.struct.support /\ m[p[1]] = m[p[2]]
  BY <1>2, <1>3 DEF Twins
<1> QED
  BY <1>4

\* What Insert makes of a state.
LEMMA InsertOK ==
  ASSUME NEW w, NEW m, NEW hands, NEW s, StateOK(w, m, hands, s), w.dim \in Nat, IsModel(w),
         NEW n \in DOMAIN w.model, NEW u, True(w, m, s.struct, n, u)
  PROVE  Grows(w, m, hands, s, Insert(s, n, u))
<1>1. PICK us : us = Same(n, u)
  OBVIOUS
<1>2. PICK t : t = [s EXCEPT !.struct.table[n] = @ \cup us]
  OBVIOUS
<1>3. Grows(w, m, hands, s, t)
  BY <1>1, <1>2, SameOK, GrowOK
<1>4. Grows(w, m, hands, s, s)
  BY DEF Grows
<1>5. CASE n \notin FunctionNames
  <2>1. \/ Insert(s, n, u) = s
        \/ Insert(s, n, u) = t
        \/ n \in Told /\ Insert(s, n, u) = [t EXCEPT !.events[n] = Append(@, u)]
    BY <1>1, <1>2, <1>5 DEF Insert
  <2>2. ASSUME n \in Told, NEW t2, t2 = [t EXCEPT !.events[n] = Append(@, u)]
        PROVE  Grows(w, m, hands, s, t2)
    <3>1. StateOK(w, m, hands, t) /\ True(w, m, t.struct, n, u)
      BY <1>3 DEF Grows, True
    <3>2. Grows(w, m, hands, t, t2)
      BY <2>2, <3>1, TellOK
    <3> QED
      BY <1>3, <3>2 DEF Grows
  <2> QED
    BY <1>3, <1>4, <2>1, <2>2
<1>6. CASE n \in FunctionNames
  <2>1. PICK pairs : pairs = Twins(s, n, u)
    OBVIOUS
  <2>2. PICK b : (b = s \/ b = t) /\ Insert(s, n, u) = MergeAll(b, pairs)
    BY <1>1, <1>2, <1>6, <2>1 DEF Insert, Twins
  <2>3. Grows(w, m, hands, s, b)
    BY <1>3, <1>4, <2>2
  <2>4. pairs \in SUBSET (b.struct.support \X b.struct.support) /\ \A p \in pairs : m[p[1]] = m[p[2]]
    <3>1. TablesOK(w, m, s.struct) /\ n \in FunctionNames \cap DOMAIN w.model
      BY <1>6 DEF StateOK
    <3>2. /\ Twins(s, n, u) \in SUBSET (s.struct.support \X s.struct.support)
          /\ \A p \in Twins(s, n, u) : m[p[1]] = m[p[2]]
      BY <3>1, TwinsOK
    <3>3. b.struct.support = s.struct.support
      BY <2>3 DEF Grows
    <3> QED
      BY <2>1, <3>2, <3>3
  <2>5. Joins(w, m, hands, b, MergeAll(b, pairs))
    BY <2>3, <2>4, MergeAllOK DEF Grows
  <2> QED
    BY <2>2, <2>3, <2>5 DEF Joins, Grows
<1> QED
  BY <1>5, <1>6

\* What is found is the value of an entry.
LEMMA FindIs ==
  ASSUME NEW w, NEW m, NEW s, IsModel(w), TablesOK(w, m, s.struct),
         NEW n \in FunctionNames \cap DOMAIN w.model, NEW key, NEW y \in Find(s, n, key)
  PROVE  /\ y \in s.struct.support
         /\ Append(Image(m, key), m[y]) \in w.model[n]
         /\ Append(key, y) \in s.struct.table[n]
<1>1. PICK v \in s.struct.table[n] : y = Last(v) /\ Front(v) = key
  BY DEF Find
<1>2. True(w, m, s.struct, n, v)
  BY DEF TablesOK
<1>3. Measured(w, m, s.struct, n, v)
  BY <1>2, EntryLength
<1>4. v \in Seq(s.struct.support) /\ Len(v) >= 1 /\ Image(m, v) \in w.model[n]
  BY <1>3 DEF Measured
<1>5. Last(v) \in s.struct.support /\ v = Append(Front(v), Last(v))
  BY <1>4, FrontLast
<1>6. Image(m, v) = Append(Image(m, Front(v)), m[Last(v)])
  BY <1>4, ImageFront
<1> QED
  BY <1>1, <1>4, <1>5, <1>6

\* Only gives a member of a set that has one.
LEMMA OnlyIs ==
  ASSUME NEW S, S # {}
  PROVE  Only(S) \in S
  BY DEF Only

\* A key and a value are an entry.
LEMMA EntryOK ==
  ASSUME NEW w, NEW m, NEW str, NEW n, NEW key \in Seq(str.support), NEW y \in str.support,
         Append(Image(m, key), m[y]) \in w.model[n]
  PROVE  True(w, m, str, n, Append(key, y))
<1>1. Image(m, Append(key, y)) = Append(Image(m, key), m[y])
  BY ImageAppend
<1>2. Append(key, y) \in Seq(str.support)
  OBVIOUS
<1> QED
  BY <1>1, <1>2 DEF True

\* What Paired makes of a state: the two functions have the same value.
LEMMA PairedOK ==
  ASSUME NEW w, NEW m, NEW hands, NEW s, StateOK(w, m, hands, s), w.dim \in Nat, IsModel(w),
         NEW f \in FunctionNames \cap DOMAIN w.model, NEW g \in FunctionNames \cap DOMAIN w.model,
         NEW key1 \in Seq(s.struct.support), NEW key2 \in Seq(s.struct.support),
         \A y \in Elements(w) : Append(Image(m, key1), y) \in w.model[f]
                                  <=> Append(Image(m, key2), y) \in w.model[g]
  PROVE  Grows(w, m, hands, s, Paired(s, f, key1, g, key2))
<1>1. TablesOK(w, m, s.struct) /\ \A x \in s.struct.support : m[x] \in Elements(w)
  BY DEF StateOK, RepsOK
<1>2. ASSUME Find(s, f, key1) # {}, NEW y, y = Only(Find(s, f, key1))
      PROVE  Grows(w, m, hands, s, Insert(s, g, Append(key2, y)))
  <2>1. y \in Find(s, f, key1)
    BY <1>2, OnlyIs
  <2>2. y \in s.struct.support /\ Append(Image(m, key1), m[y]) \in w.model[f]
    BY <1>1, <2>1, FindIs
  <2>3. Append(Image(m, key2), m[y]) \in w.model[g]
    BY <1>1, <2>2
  <2>4. True(w, m, s.struct, g, Append(key2, y))
    BY <2>2, <2>3, EntryOK
  <2> QED
    BY <2>4, InsertOK
<1>3. ASSUME Find(s, g, key2) # {}, NEW y, y = Only(Find(s, g, key2))
      PROVE  Grows(w, m, hands, s, Insert(s, f, Append(key1, y)))
  <2>1. y \in Find(s, g, key2)
    BY <1>3, OnlyIs
  <2>2. y \in s.struct.support /\ Append(Image(m, key2), m[y]) \in w.model[g]
    BY <1>1, <2>1, FindIs
  <2>3. Append(Image(m, key1), m[y]) \in w.model[f]
    BY <1>1, <2>2
  <2>4. True(w, m, s.struct, f, Append(key1, y))
    BY <2>2, <2>3, EntryOK
  <2> QED
    BY <2>4, InsertOK
<1>4. Grows(w, m, hands, s, s)
  BY DEF Grows
<1>5. CASE Find(s, f, key1) # {}
  BY <1>2, <1>5 DEF Paired
<1>6. CASE Find(s, f, key1) = {} /\ Find(s, g, key2) # {}
  BY <1>3, <1>6 DEF Paired
<1>7. CASE Find(s, f, key1) = {} /\ Find(s, g, key2) = {}
  BY <1>4, <1>7 DEF Paired
<1> QED
  BY <1>5, <1>6, <1>7

\* Of the entries at a key, one stays.
LEMMA StaysIs ==
  ASSUME NEW all, NEW old, NEW d \in Nat, all # {}, \A u \in all : u \in Seq(1 .. d) /\ Len(u) >= 1
  PROVE  Stays(all, old) \in all
<1>1. PICK base : base = (IF all \cap old # {} THEN all \cap old ELSE all)
  OBVIOUS
<1>2. base # {} /\ \A x \in base : x \in all
  BY <1>1
<1>3. \E x \in base : \A v \in all \cap old : Last(x) <= Last(v)
  <2>1. CASE all \cap old = {}
    BY <1>2, <2>1
  <2>2. CASE all \cap old # {}
    <3> DEFINE N == {Last(v) : v \in all \cap old}
    <3>1. ASSUME NEW v \in all \cap old PROVE Last(v) \in Nat
      <4>1. v \in Seq(1 .. d) /\ Len(v) >= 1
        OBVIOUS
      <4>2. Last(v) \in 1 .. d
        BY <4>1, FrontLast
      <4> QED
        BY <4>2
    <3>2. N \in SUBSET Nat /\ N # {}
      BY <3>1, <2>2
    <3>3. PICK y \in N : \A z \in N : y <= z
      <4> HIDE DEF N
      <4> QED
        BY <3>2, LeastNat
    <3>4. PICK x \in all \cap old : y = Last(x)
      OBVIOUS
    <3>5. x \in base
      BY <1>1, <2>2
    <3>6. \A v \in all \cap old : Last(x) <= Last(v)
      BY <3>3, <3>4
    <3> QED
      BY <3>5, <3>6
  <2> QED
    BY <2>1, <2>2
<1>4. Stays(all, old) \in base
  BY <1>1, <1>3 DEF Stays
<1> QED
  BY <1>2, <1>4

\* OneValue keeps entries that there are.
LEMMA OneValueIs ==
  ASSUME NEW n, NEW old, NEW us, NEW d \in Nat, \A u \in us : u \in Seq(1 .. d) /\ Len(u) >= 1
  PROVE  \A x \in OneValue(n, old, us) : x \in us
<1>1. ASSUME NEW u \in us, NEW all, all = {v \in us : Front(v) = Front(u)}
      PROVE  Stays(all, old) \in us
  <2>1. all # {} /\ \A v \in all : v \in us /\ v \in Seq(1 .. d) /\ Len(v) >= 1
    BY <1>1
  <2> QED
    BY <2>1, StaysIs
<1> QED
  BY <1>1 DEF OneValue

\* An entry is true when an ob is replaced by one that denotes the same.
LEMMA RenameOK ==
  ASSUME NEW w, NEW m, NEW str, NEW str3, NEW dep, NEW rep \in str.support, rep # dep, m[rep] = m[dep],
         str3.support = str.support \ {dep}, NEW n, NEW u, True(w, m, str, n, u),
         NEW v, v = [i \in DOMAIN u |-> IF u[i] = dep THEN rep ELSE u[i]]
  PROVE  True(w, m, str3, n, v)
<1>1. PICK S, S3 : S = str.support /\ S3 = str3.support
  OBVIOUS
<1>2. u \in Seq(S) /\ rep \in S /\ S3 = S \ {dep}
  BY <1>1 DEF True
<1>3. PICK l \in Nat : l = Len(u) /\ DOMAIN u = 1 .. l
  BY <1>2
<1>4. \A i \in 1 .. l : u[i] \in S
  BY <1>2, <1>3, SeqAt
<1>5. v = [i \in 1 .. l |-> IF u[i] = dep THEN rep ELSE u[i]]
  BY <1>3
<1>6. \A i \in 1 .. l : v[i] \in S3
  BY <1>2, <1>4, <1>5
<1>7. v \in [1 .. l -> S3]
  BY <1>5, <1>6
<1>8. v \in Seq(S3)
  BY <1>7
<1>9. \A i \in 1 .. l : m[v[i]] = m[u[i]]
  BY <1>5
<1>10. Image(m, v) = Image(m, u)
  BY <1>3, <1>5, <1>9 DEF Image
<1> QED
  BY <1>1, <1>8, <1>10 DEF True

\* Entries that collide have values that denote the same, or keys.
LEMMA CollisionsOK ==
  ASSUME NEW w, NEW m, NEW str, IsModel(w), NEW n \in DOMAIN w.model,
         NEW us, \A u \in us : True(w, m, str, n, u)
  PROVE  \A p \in Collisions(n, us) : p \in str.support \X str.support /\ m[p[1]] = m[p[2]]
<1>1. CASE n \notin FunctionNames
  BY <1>1 DEF Collisions
<1>2. CASE n \in FunctionNames
  <2>0. n \in FunctionNames \cap DOMAIN w.model
    BY <1>2
  <2>1. ASSUME NEW p \in {<<Last(p[1]), Last(p[2])>> : p \in {q \in us \X us : Front(q[1]) = Front(q[2])}}
        PROVE  p \in str.support \X str.support /\ m[p[1]] = m[p[2]]
    <3>1. PICK q \in us \X us : p = <<Last(q[1]), Last(q[2])>> /\ Front(q[1]) = Front(q[2])
      BY <2>1
    <3>2. PICK u, v : u = q[1] /\ v = q[2]
      OBVIOUS
    <3>3. True(w, m, str, n, u) /\ True(w, m, str, n, v) /\ Front(u) = Front(v)
      BY <3>1, <3>2
    <3>4. Last(u) \in str.support /\ Last(v) \in str.support /\ m[Last(u)] = m[Last(v)]
      BY <2>0, <3>3, SameKey
    <3> QED
      BY <3>1, <3>2, <3>4
  <2>2. ASSUME NEW p \in {<<p[1][1], p[2][1]>> :
                            p \in {q \in us \X us : n \in Injective /\ q[1][2] = q[2][2]}}
        PROVE  p \in str.support \X str.support /\ m[p[1]] = m[p[2]]
    <3>1. PICK q \in us \X us : p = <<q[1][1], q[2][1]>> /\ n \in Injective /\ q[1][2] = q[2][2]
      BY <2>2
    <3>2. PICK u, v : u = q[1] /\ v = q[2]
      OBVIOUS
    <3>3. /\ True(w, m, str, n, u) /\ True(w, m, str, n, v) /\ u[2] = v[2]
          /\ n \in Injective \cap DOMAIN w.model
      <4>1. u \in us /\ v \in us
        BY <3>1, <3>2
      <4>2. u[2] = v[2]
        BY <3>1, <3>2, Zenon
      <4>3. n \in Injective \cap DOMAIN w.model
        BY <3>1
      <4> QED
        BY <4>1, <4>2, <4>3
    <3>4. u[1] \in str.support /\ v[1] \in str.support /\ m[u[1]] = m[v[1]]
      <4>1. Alike(m, str.support, u[1], v[1])
        BY <3>3, SameValue
      <4> QED
        BY <4>1 DEF Alike
    <3> QED
      BY <3>1, <3>2, <3>4
  <2> QED
    BY <1>2, <2>1, <2>2 DEF Collisions
<1> QED
  BY <1>1, <1>2

\* News are a queue of pairs.
LEMMA NewsOK ==
  ASSUME NEW w, NEW m, NEW str, IsModel(w), NEW d \in Nat, str.support \in SUBSET (1 .. d),
         NEW n \in Told, NEW us, \A u \in us : True(w, m, str, n, u)
  PROVE  SetToSeq(us) \in Seq(us)
<1>1. n \in DOMAIN w.model
  BY DEF IsModel
<1>2. ASSUME NEW u \in us PROVE u \in (1 .. d) \X (1 .. d)
  <2>1. Measured(w, m, str, n, u)
    BY <1>1, EntryLength
  <2>2. u \in Seq(str.support) /\ Len(u) = 2
    BY <2>1 DEF Measured
  <2>3. 1 \in DOMAIN u /\ 2 \in DOMAIN u
    BY <2>2
  <2>4. u[1] \in str.support
    BY <2>2, <2>3, SeqAt
  <2>5. u[2] \in str.support
    BY <2>2, <2>3, SeqAt
  <2>6. u = <<u[1], u[2]>>
    BY <2>2
  <2>7. u[1] \in 1 .. d /\ u[2] \in 1 .. d
    BY <2>4, <2>5
  <2> QED
    BY <2>6, <2>7
<1>3. us \in SUBSET ((1 .. d) \X (1 .. d))
  BY <1>2
<1>4. IsFiniteSet(us)
  BY <1>3, PairsFinite
<1> QED
  BY <1>4, SetToSeqIs

\* A sequence of members of a set is one of a greater set.
LEMMA SeqSub ==
  ASSUME NEW A, NEW B, A \subseteq B, NEW u \in Seq(A)
  PROVE  u \in Seq(B)
  OBVIOUS

\* What is true of the obs of a structure is true when there are more.
LEMMA TrueSub ==
  ASSUME NEW w, NEW m, NEW str, NEW str3, str3.support \subseteq str.support, NEW n, NEW u
  PROVE  /\ True(w, m, str3, n, u) => True(w, m, str, n, u)
         /\ Telling(w, m, str3, n, u) => Telling(w, m, str, n, u)
<1>1. u \in Seq(str3.support) => u \in Seq(str.support)
  BY SeqSub
<1> QED
  BY <1>1 DEF True, Telling

\* A sequence is one of its range.
LEMMA SeqRange ==
  ASSUME NEW X, NEW q \in Seq(X)
  PROVE  q \in Seq(Range(q))
<1>1. PICK R : R = Range(q)
  OBVIOUS
<1>2. \A i \in DOMAIN q : q[i] \in R
  BY <1>1 DEF Range
<1>3. q \in Seq(R)
  BY <1>2
<1> QED
  BY <1>1, <1>3

\* Queues in a row.
Joined(q1, q2, q) ==
  /\ q \in Seq(Range(q))
  /\ \A x \in Range(q) : x \in Range(q1) \/ x \in Range(q2)

\* The members of two sequences joined.
LEMMA JoinedIs ==
  ASSUME NEW X, NEW q1 \in Seq(X), NEW q2 \in Seq(X), NEW q, q = q1 \o q2
  PROVE  Joined(q1, q2, q)
<1>1. q \in Seq(X)
  OBVIOUS
<1>2. PICK a \in Nat : a = Len(q1) /\ DOMAIN q1 = 1 .. a
  OBVIOUS
<1>3. PICK b \in Nat : b = Len(q2) /\ DOMAIN q2 = 1 .. b
  OBVIOUS
<1>4. DOMAIN q = 1 .. a + b /\ Len(q) = a + b
  BY <1>2, <1>3
<1>5. \A i \in 1 .. a + b : q[i] = IF i <= a THEN q1[i] ELSE q2[i - a]
  BY <1>2, <1>3
<1>6. ASSUME NEW x \in Range(q) PROVE x \in Range(q1) \/ x \in Range(q2)
  <2>1. PICK i \in 1 .. a + b : x = q[i]
    BY <1>4 DEF Range
  <2>2. CASE i <= a
    <3>1. i \in 1 .. a /\ x = q1[i]
      BY <1>2, <1>3, <1>5, <2>1, <2>2
    <3> QED
      BY <3>1, <1>2 DEF Range
  <2>3. CASE ~ (i <= a)
    <3>1. i - a \in 1 .. b /\ x = q2[i - a]
      BY <1>2, <1>3, <1>5, <2>1, <2>3
    <3> QED
      BY <3>1, <1>3 DEF Range
  <2> QED
    BY <2>2, <2>3
<1>7. q \in Seq(Range(q))
  BY <1>1, SeqRange
<1> QED
  BY <1>6, <1>7 DEF Joined

\* A queue of what is true of other obs than dep, after a merge.
LEMMA LiveOK ==
  ASSUME NEW w, NEW m, NEW str, NEW str3, NEW dep, str3.support = str.support \ {dep},
         NEW n, NEW u, Telling(w, m, str, n, u), \A i \in DOMAIN u : u[i] # dep
  PROVE  Telling(w, m, str3, n, u)
<1>1. PICK S, S3 : S = str.support /\ S3 = str3.support
  OBVIOUS
<1>2. u \in Seq(S) /\ S3 = S \ {dep}
  BY <1>1 DEF Telling, True
<1>3. u \in Seq(S3)
  <2>1. \A i \in DOMAIN u : u[i] \in S3
    BY <1>2, SeqAt
  <2> QED
    BY <1>2, <2>1
<1> QED
  BY <1>1, <1>3 DEF Telling, True

\* What a merge makes of the tables.
Moves(w, m, str3, new, tab2) ==
  /\ DOMAIN new = DOMAIN w.model
  /\ \A n \in DOMAIN w.model : \A u \in new[n] : True(w, m, str3, n, u)
  /\ DOMAIN tab2 = DOMAIN w.model
  /\ \A n \in DOMAIN w.model : \A u \in tab2[n] : True(w, m, str3, n, u)

\* The tables after a merge hold only entries that were renamed.
LEMMA MovedTableOK ==
  ASSUME NEW w, NEW m, NEW hands, NEW s, StateOK(w, m, hands, s), w.dim \in Nat, IsModel(w),
         NEW dep \in s.struct.support, s.struct.rep[dep] # dep,
         NEW str3, str3.support = s.struct.support \ {dep},
         NEW new, new = Renamed(s, dep)
  PROVE  Moves(w, m, str3, new, MovedTable(s, new))
<1>1. PICK rep : rep = s.struct.rep[dep]
  OBVIOUS
<1>2. rep \in s.struct.support /\ rep # dep /\ m[rep] = m[dep]
  BY <1>1 DEF StateOK, RepsOK
<1>3. PICK tab : tab = s.struct.table
  OBVIOUS
<1>4. DOMAIN tab = DOMAIN w.model /\ \A n \in DOMAIN w.model : \A u \in tab[n] : True(w, m, s.struct, n, u)
  BY <1>3 DEF StateOK, TablesOK
<1>5. new = [n \in DOMAIN tab |->
               {[i \in DOMAIN u |-> IF u[i] = dep THEN rep ELSE u[i]] : u \in tab[n]}]
  BY <1>1, <1>3 DEF Renamed
<1>6. DOMAIN new = DOMAIN w.model
  BY <1>4, <1>5
<1>7. ASSUME NEW n \in DOMAIN w.model, NEW v \in new[n] PROVE True(w, m, str3, n, v)
  <2>1. PICK u \in tab[n] : v = [i \in DOMAIN u |-> IF u[i] = dep THEN rep ELSE u[i]]
    BY <1>4, <1>5, <1>7
  <2>2. True(w, m, s.struct, n, u)
    BY <1>4
  <2> QED
    BY <1>2, <2>1, <2>2, RenameOK
<1>8. PICK d \in Nat : d = w.dim
  OBVIOUS
<1>9. s.struct.support \subseteq 1 .. d
  BY <1>8 DEF StateOK, RepsOK
<1>10. ASSUME NEW n \in DOMAIN w.model, NEW v \in OneValue(n, tab[n], new[n])
       PROVE  True(w, m, str3, n, v)
  <2>1. PICK us, old : us = new[n] /\ old = tab[n]
    OBVIOUS
  <2>2. ASSUME NEW u \in us PROVE u \in Seq(1 .. d) /\ Len(u) >= 1
    <3>1. True(w, m, str3, n, u)
      BY <1>7, <2>1
    <3>2. Measured(w, m, str3, n, u)
      BY <3>1, EntryLength
    <3>3. u \in Seq(str3.support) /\ Len(u) >= 1
      BY <3>2 DEF Measured
    <3>4. str3.support \subseteq 1 .. d
      BY <1>9
    <3> QED
      BY <3>3, <3>4, SeqSub
  <2>3. v \in us
    BY <2>1, <2>2, OneValueIs
  <2> QED
    BY <2>1, <2>3, <1>7
<1>11. MovedTable(s, new) = [n \in DOMAIN new |-> OneValue(n, tab[n], new[n])]
  BY <1>3 DEF MovedTable
<1>12. PICK tab2 : tab2 = MovedTable(s, new)
  OBVIOUS
<1>13. DOMAIN tab2 = DOMAIN w.model /\ \A n \in DOMAIN w.model : tab2[n] = OneValue(n, tab[n], new[n])
  BY <1>6, <1>11, <1>12
<1>14. \A n \in DOMAIN w.model : \A u \in tab2[n] : True(w, m, str3, n, u)
  BY <1>10, <1>13
<1> QED
  BY <1>6, <1>7, <1>12, <1>13, <1>14 DEF Moves

\* What a merge makes of the queues of events.
LEMMA MovedEventsOK ==
  ASSUME NEW w, NEW m, NEW hands, NEW s, StateOK(w, m, hands, s), w.dim \in Nat, IsModel(w),
         NEW dep, NEW str3, str3.support = s.struct.support \ {dep},
         NEW new, \A n \in Told : \A u \in new[n] : True(w, m, str3, n, u)
  PROVE  EventsOK(w, m, str3, MovedEvents(s, new, dep))
<1>1. PICK ev : ev = s.events
  OBVIOUS
<1>2. /\ DOMAIN ev = {"exists"} \cup Told
      /\ \A n \in DOMAIN ev : /\ ev[n] \in Seq(Range(ev[n]))
                              /\ \A u \in Range(ev[n]) : Telling(w, m, s.struct, n, u)
  BY <1>1 DEF StateOK, EventsOK
<1>3. PICK ev2 : ev2 = MovedEvents(s, new, dep)
  OBVIOUS
<1> DEFINE keep(n) == {u \in Range(ev[n]) : \A i \in DOMAIN u : u[i] # dep}
           told(n) == IF n \in Told THEN News(s, new, n) ELSE <<>>
<1>4. ev2 = [n \in DOMAIN ev |-> Kept(ev[n], keep(n)) \o told(n)]
  BY <1>1, <1>3 DEF MovedEvents
<1>5. DOMAIN ev2 = {"exists"} \cup Told /\ \A n \in DOMAIN ev : ev2[n] = Kept(ev[n], keep(n)) \o told(n)
  BY <1>2, <1>4
<1>6. ASSUME NEW n \in DOMAIN ev
      PROVE  ev2[n] \in Seq(Range(ev2[n])) /\ \A u \in Range(ev2[n]) : Telling(w, m, str3, n, u)
  <2>1. PICK q1 : q1 = Kept(ev[n], keep(n))
    OBVIOUS
  <2>2. q1 \in Seq(Range(ev[n])) /\ \A u \in Range(q1) : u \in Range(ev[n]) /\ u \in keep(n)
    <3>1. PICK q, k : q = ev[n] /\ k = keep(n)
      OBVIOUS
    <3>2. q \in Seq(Range(q))
      BY <1>2, <3>1
    <3>3. Kept(q, k) \in Seq(Range(q)) /\ \A u \in Range(Kept(q, k)) : u \in Range(q) /\ u \in k
      BY <3>2, KeptIs
    <3> HIDE DEF keep
    <3> QED
      BY <2>1, <3>1, <3>3
  <2>3. \A u \in Range(q1) : Telling(w, m, str3, n, u)
    BY <1>2, <2>2, LiveOK
  <2>4. PICK q2 : q2 = told(n)
    OBVIOUS
  <2>5. \E X : q2 \in Seq(X) /\ \A u \in X : Telling(w, m, str3, n, u)
    <3>1. CASE n \notin Told
      <4>1. PICK X : X = {}
        OBVIOUS
      <4>2. q2 \in Seq(X) /\ \A u \in X : Telling(w, m, str3, n, u)
        BY <2>4, <3>1, <4>1
      <4> QED
        BY <4>2
    <3>2. CASE n \in Told
      <4>1. PICK X : X = new[n] \ s.struct.table[n]
        OBVIOUS
      <4>2. q2 = SetToSeq(X)
        BY <2>4, <3>2, <4>1 DEF News
      <4>3. \A u \in X : True(w, m, str3, n, u)
        BY <3>2, <4>1
      <4>4. PICK d \in Nat : d = w.dim
        OBVIOUS
      <4>5. str3.support \in SUBSET (1 .. d)
        BY <4>4 DEF StateOK, RepsOK
      <4>6. SetToSeq(X) \in Seq(X)
        BY <3>2, <4>3, <4>5, NewsOK
      <4>7. n # "exists"
        BY <3>2 DEF Told
      <4> QED
        BY <4>2, <4>3, <4>6, <4>7 DEF Telling
    <3> QED
      BY <3>1, <3>2
  <2>6. PICK X : q2 \in Seq(X) /\ \A u \in X : Telling(w, m, str3, n, u)
    BY <2>5
  <2>7. PICK q : q = q1 \o q2
    OBVIOUS
  <2>8. Joined(q1, q2, q)
    <3>1. PICK R : R = Range(ev[n])
      OBVIOUS
    <3>2. q1 \in Seq(R \cup X)
      <4>1. R \subseteq R \cup X /\ q1 \in Seq(R)
        BY <2>2, <3>1
      <4> QED
        BY <4>1, SeqSub
    <3>3. q2 \in Seq(R \cup X)
      <4>1. X \subseteq R \cup X
        OBVIOUS
      <4> QED
        BY <4>1, <2>6, SeqSub
    <3>4. PICK Y : Y = R \cup X
      OBVIOUS
    <3>5. q1 \in Seq(Y) /\ q2 \in Seq(Y)
      BY <3>2, <3>3, <3>4
    <3> QED
      BY <2>7, <3>5, JoinedIs
  <2>9. \A u \in Range(q2) : Telling(w, m, str3, n, u)
    <3>1. \A u \in Range(q2) : u \in X
      BY <2>6 DEF Range
    <3> QED
      BY <3>1, <2>6
  <2>10. ev2[n] = q
    BY <1>5, <2>1, <2>4, <2>7
  <2> QED
    BY <2>3, <2>8, <2>9, <2>10 DEF Joined
<1> HIDE DEF keep, told
<1> QED
  BY <1>2, <1>3, <1>5, <1>6 DEF EventsOK

\* After dep is gone.
Merged(w, m, hands, s, dep, s2) ==
  /\ StateOK(w, m, hands \ {dep}, s2)
  /\ s2.struct.support = s.struct.support \ {dep}

\* A merge keeps what is required of the state, and removes dep, which no other worker holds.
LEMMA ProcessMergeOK ==
  ASSUME NEW w, NEW m, NEW hands, NEW s, StateOK(w, m, hands, s), w.dim \in Nat, IsModel(w),
         NEW dep \in hands
  PROVE  Merged(w, m, hands, s, dep, ProcessMerge(s, dep))
<1>1. dep \in s.struct.support /\ s.struct.rep[dep] # dep
  BY DEF StateOK, MergesOK
<1>2. PICK str3 : str3 = [support |-> s.struct.support \ {dep}]
  OBVIOUS
<1>3. str3.support = s.struct.support \ {dep}
  BY <1>2
<1>4. PICK new : new = Renamed(s, dep)
  OBVIOUS
<1>5. PICK tab2 : tab2 = MovedTable(s, new)
  OBVIOUS
<1>6. /\ DOMAIN new = DOMAIN w.model
      /\ \A n \in DOMAIN w.model : \A u \in new[n] : True(w, m, str3, n, u)
      /\ DOMAIN tab2 = DOMAIN w.model
      /\ \A n \in DOMAIN w.model : \A u \in tab2[n] : True(w, m, str3, n, u)
  <2>1. Moves(w, m, str3, new, tab2)
    BY <1>1, <1>3, <1>4, <1>5, MovedTableOK
  <2> QED
    BY <2>1 DEF Moves
<1>7. PICK ev2 : ev2 = MovedEvents(s, new, dep)
  OBVIOUS
<1>8. EventsOK(w, m, str3, ev2)
  <2>1. \A n \in Told : \A u \in new[n] : True(w, m, str3, n, u)
    BY <1>6 DEF IsModel
  <2> QED
    BY <1>3, <1>7, <2>1, MovedEventsOK
<1>9. PICK moved : moved = [s EXCEPT !.struct.table = tab2, !.events = ev2]
  OBVIOUS
<1>10. /\ Shaped(moved) /\ moved.struct.support = s.struct.support /\ moved.struct.table = tab2
       /\ moved.struct.rep = s.struct.rep /\ moved.events = ev2 /\ moved.merges = s.merges
  BY <1>9 DEF StateOK, Shaped
<1>11. str3.support \subseteq moved.struct.support /\ str3.support \subseteq s.struct.support
  BY <1>3, <1>10
<1>12. StateOK(w, m, hands, moved)
  <2>1. RepsOK(w, m, moved.struct)
    BY <1>10 DEF StateOK, RepsOK
  <2>2. TablesOK(w, m, moved.struct)
    BY <1>6, <1>10, <1>11, TrueSub DEF TablesOK
  <2>3. EventsOK(w, m, moved.struct, moved.events)
    BY <1>8, <1>10, <1>11, TrueSub DEF EventsOK
  <2>4. MergesOK(moved.struct, hands, moved.merges)
    <3>1. MergesOK(s.struct, hands, s.merges)
      BY DEF StateOK
    <3>2. PICK str, mg : str = moved.struct /\ mg = moved.merges
      OBVIOUS
    <3>3. str.support = s.struct.support /\ str.rep = s.struct.rep /\ mg = s.merges
      BY <3>2, <1>10
    <3>4. MergesOK(str, hands, mg)
      BY <3>1, <3>3, MergesKeep
    <3> QED
      BY <3>2, <3>4
  <2> QED
    BY <1>10, <2>1, <2>2, <2>3, <2>4 DEF StateOK
<1>13. PICK pairs : pairs = UNION {Collisions(n, new[n]) : n \in DOMAIN new}
  OBVIOUS
<1>14. \A p \in pairs : p \in moved.struct.support \X moved.struct.support /\ m[p[1]] = m[p[2]]
  <2>1. ASSUME NEW n \in DOMAIN w.model, NEW us, us = new[n], NEW p \in Collisions(n, us)
        PROVE  p \in moved.struct.support \X moved.struct.support /\ m[p[1]] = m[p[2]]
    <3>1. \A u \in us : True(w, m, moved.struct, n, u)
      BY <1>6, <1>11, <2>1, TrueSub
    <3> QED
      BY <2>1, <3>1, CollisionsOK
  <2>2. \A n \in DOMAIN w.model : \A p \in Collisions(n, new[n]) :
          p \in moved.struct.support \X moved.struct.support /\ m[p[1]] = m[p[2]]
    BY <2>1
  <2> QED
    BY <1>6, <1>13, <2>2
<1>15. PICK merged : merged = MergeAll(moved, pairs)
  OBVIOUS
<1>16. Joins(w, m, hands, moved, merged)
  <2>1. pairs \in SUBSET (moved.struct.support \X moved.struct.support) /\ \A p \in pairs : m[p[1]] = m[p[2]]
    BY <1>14
  <2> QED
    BY <1>12, <1>15, <2>1, MergeAllOK
<1>17. PICK S, rep, mg, d : S = merged.struct.support /\ rep = merged.struct.rep /\ mg = merged.merges
                            /\ d = w.dim
  OBVIOUS
<1>18. /\ d \in Nat /\ S \subseteq 1 .. d /\ DOMAIN rep = 1 .. d
       /\ \A x \in S : /\ rep[x] \in S /\ rep[x] <= x
                       /\ rep[rep[x]] = rep[x] /\ m[rep[x]] = m[x] /\ m[x] \in Elements(w)
  BY <1>16, <1>17 DEF Joins, StateOK, RepsOK
<1>19. /\ mg \in Seq(S) /\ hands \subseteq S
       /\ \A x \in hands \cup Range(mg) : rep[x] # x
       /\ Range(mg) \cap hands = {}
       /\ \A i, j \in DOMAIN mg : i # j => mg[i] # mg[j]
  BY <1>16, <1>17 DEF Joins, StateOK, MergesOK
<1>20. PICK z : z = ProcessMerge(s, dep)
  OBVIOUS
<1>21. z = [merged EXCEPT !.struct.support = @ \ {dep}, !.struct.rep[dep] = 0]
  BY <1>4, <1>5, <1>7, <1>9, <1>13, <1>15, <1>20 DEF ProcessMerge
<1>22. PICK S2, rep2 : S2 = S \ {dep} /\ rep2 = [rep EXCEPT ![dep] = 0]
  OBVIOUS
<1>23. z = [merged EXCEPT !.struct.support = S2, !.struct.rep = rep2]
  BY <1>17, <1>21, <1>22
<1>24. /\ Shaped(z) /\ z.struct.support = S2 /\ z.struct.table = merged.struct.table
       /\ z.struct.rep = rep2 /\ z.events = merged.events /\ z.merges = mg
  BY <1>16, <1>17, <1>23 DEF Joins, StateOK, Shaped
<1>25. S = s.struct.support /\ S2 = str3.support /\ z.struct.table = tab2 /\ z.events = ev2
  BY <1>3, <1>10, <1>16, <1>17, <1>22, <1>24 DEF Joins
<1>26. \A x \in S2 : x \in S /\ x # dep /\ rep2[x] = rep[x]
  BY <1>18, <1>22
<1>27. RepsOK(w, m, z.struct)
  <2>1. S2 \subseteq 1 .. d /\ DOMAIN rep2 = 1 .. d
    BY <1>18, <1>22
  <2>2. ASSUME NEW x \in S2
        PROVE  /\ rep2[x] \in S2 /\ rep2[x] <= x /\ rep2[rep2[x]] = rep2[x]
               /\ m[rep2[x]] = m[x] /\ m[x] \in Elements(w)
    <3>1. rep[x] # dep
      BY <1>18, <1>19, <1>26
    <3>2. rep[x] \in S2
      BY <1>18, <1>22, <1>26, <3>1
    <3> QED
      BY <1>18, <1>26, <3>2
  <2> QED
    BY <2>1, <2>2, <1>17, <1>24 DEF RepsOK
<1>28. TablesOK(w, m, z.struct)
  <2>1. \A n, u : True(w, m, str3, n, u) => True(w, m, z.struct, n, u)
    BY <1>24, <1>25, TrueSub
  <2> QED
    BY <2>1, <1>6, <1>25 DEF TablesOK
<1>29. EventsOK(w, m, z.struct, z.events)
  <2>1. \A n, u : Telling(w, m, str3, n, u) => Telling(w, m, z.struct, n, u)
    BY <1>24, <1>25, TrueSub
  <2> QED
    BY <2>1, <1>8, <1>25 DEF EventsOK
<1>30. MergesOK(z.struct, hands \ {dep}, z.merges)
  <2>1. \A i \in DOMAIN mg : mg[i] \in S /\ mg[i] \in Range(mg)
    <3>1. \A i \in DOMAIN mg : mg[i] \in S
      BY <1>19, SeqAt
    <3> QED
      BY <3>1 DEF Range
  <2>2. \A x \in Range(mg) : x \in S2
    <3>1. \A x \in Range(mg) : x \in S
      BY <2>1 DEF Range
    <3> QED
      BY <3>1, <1>19, <1>22
  <2>3. mg \in Seq(S2)
    <3>1. mg \in Seq(Range(mg)) /\ Range(mg) \subseteq S2
      BY <1>19, <2>2, SeqRange
    <3> QED
      BY <3>1, SeqSub
  <2>4. \A x \in (hands \ {dep}) \cup Range(mg) : x \in S2 /\ rep2[x] # x
    BY <1>19, <1>22, <1>26, <2>2
  <2> QED
    BY <1>19, <1>24, <2>3, <2>4 DEF MergesOK
<1> QED
  BY <1>20, <1>22, <1>24, <1>25, <1>27, <1>28, <1>29, <1>30 DEF StateOK, Merged

-----------------------------------------------------------------------------
(* What workers hold stays so when the structure grows.                    *)

Above(w, m, str, m2, str2) ==
  /\ str.support \subseteq str2.support
  /\ \A n \in DOMAIN w.model : \A u \in str.table[n] : u \in str2.table[n]
  /\ \A x \in str.support : m2[x] = m[x]

\* A sequence of obs stays one, and denotes the same.
LEMMA SeqAbove ==
  ASSUME NEW w, NEW m, NEW m2, NEW str, NEW str2, Above(w, m, str, m2, str2), NEW u \in Seq(str.support)
  PROVE  u \in Seq(str2.support) /\ Image(m2, u) = Image(m, u)
<1>1. PICK S : S = str.support
  OBVIOUS
<1>2. u \in Seq(S) /\ S \subseteq str2.support
  BY <1>1 DEF Above
<1>3. u \in Seq(str2.support)
  BY <1>2, SeqSub
<1>4. \A i \in DOMAIN u : m2[u[i]] = m[u[i]]
  <2>1. ASSUME NEW i \in DOMAIN u PROVE m2[u[i]] = m[u[i]]
    <3>1. u[i] \in S
      BY <1>2, SeqAt
    <3> QED
      BY <3>1, <1>1 DEF Above
  <2> QED
    BY <2>1
<1>5. Image(m2, u) = Image(m, u)
  BY <1>4 DEF Image
<1> QED
  BY <1>3, <1>5

\* Registers stay what they are in a run in the model.
LEMMA FitsAbove ==
  ASSUME NEW w, NEW m, NEW m2, NEW str, NEW str2, Above(w, m, str, m2, str2),
         NEW c, NEW obs, NEW sets, Fits(w, m, str, c, obs, sets)
  PROVE  Fits(w, m2, str2, c, obs, sets)
<1>1. ASSUME NEW x \in DOMAIN c.obs
      PROVE  x \in DOMAIN obs /\ obs[x] \in str2.support /\ m2[obs[x]] = c.obs[x]
  <2>1. x \in DOMAIN obs /\ obs[x] \in str.support /\ m[obs[x]] = c.obs[x]
    BY DEF Fits
  <2> QED
    BY <2>1 DEF Above
<1>2. ASSUME NEW k \in c.known PROVE KnownFits(w, str2, c, k, obs)
  <2>1. KnownFits(w, str, c, k, obs)
    BY DEF Fits
  <2> QED
    BY <2>1 DEF KnownFits, Above
<1>3. \A x \in DOMAIN c.sets : x \in DOMAIN sets /\ SetFits(w, c, c.sets[x], obs, sets[x])
  BY DEF Fits
<1> QED
  BY <1>1, <1>2, <1>3 DEF Fits

\* A frame stays as it is required to be.
LEMMA FrameAbove ==
  ASSUME NEW w, NEW cert, NEW m, NEW m2, NEW str, NEW str2, Above(w, m, str, m2, str2),
         NEW program, NEW obs, NEW sets, NEW b, NEW f,
         FrameOK(w, cert, m, str, program, obs, sets, b, f)
  PROVE  FrameOK(w, cert, m2, str2, program, obs, sets, b, f)
<1>1. ASSUME NEW u \in f.left
      PROVE  /\ u \in Seq(str2.support)
             /\ Positions(f.args, "new") \subseteq DOMAIN u
             /\ f.table \in FunctionNames => f.table \in DOMAIN w.model /\ u \in str2.table[f.table]
             /\ \E c \in cert.places :
                  /\ c.program = program /\ c.at = f.at
                  /\ DOMAIN c.obs = b.obs \cup NewOf(f.args) /\ DOMAIN c.sets = b.sets
                  /\ Fits(w, m2, str2, c, Bound(obs, f.args, u), sets)
                  /\ f.table # "" => Fixed(c, b.obs)
  <2>1. u \in Seq(str.support) /\ Positions(f.args, "new") \subseteq DOMAIN u
    BY DEF FrameOK
  <2>2. f.table \in FunctionNames => f.table \in DOMAIN w.model /\ u \in str2.table[f.table]
    BY DEF FrameOK, Above
  <2>3. PICK c \in cert.places :
          /\ c.program = program /\ c.at = f.at
          /\ DOMAIN c.obs = b.obs \cup NewOf(f.args) /\ DOMAIN c.sets = b.sets
          /\ Fits(w, m, str, c, Bound(obs, f.args, u), sets)
          /\ f.table # "" => Fixed(c, b.obs)
    BY DEF FrameOK
  <2>4. Fits(w, m2, str2, c, Bound(obs, f.args, u), sets)
    BY <2>3, FitsAbove
  <2>5. \E d \in cert.places :
          /\ d.program = program /\ d.at = f.at
          /\ DOMAIN d.obs = b.obs \cup NewOf(f.args) /\ DOMAIN d.sets = b.sets
          /\ Fits(w, m2, str2, d, Bound(obs, f.args, u), sets)
          /\ f.table # "" => Fixed(d, b.obs)
    BY <2>3, <2>4
  <2>6. u \in Seq(str2.support)
    BY <2>1, SeqAbove
  <2> QED
    BY <2>1, <2>2, <2>5, <2>6
<1>2. /\ f = [at |-> f.at, args |-> f.args, table |-> f.table, left |-> f.left]
      /\ NewOf(f.args) \cap b.obs = {}
      /\ \E k \in 0 .. 3 : \A u \in f.left : Len(u) = k
  BY DEF FrameOK
<1> QED
  BY <1>1, <1>2 DEF FrameOK

\* Frames stay as they are required to be.
LEMMA FramesAbove ==
  ASSUME NEW w, NEW cert, NEW m, NEW m2, NEW str, NEW str2, Above(w, m, str, m2, str2),
         NEW program, NEW obs, NEW sets, NEW bs, NEW frames,
         FramesOK(w, cert, m, str, program, obs, sets, bs, frames)
  PROVE  FramesOK(w, cert, m2, str2, program, obs, sets, bs, frames)
<1>1. \A i \in DOMAIN frames : FrameOK(w, cert, m2, str2, program, obs, sets, bs[i], frames[i])
  BY FrameAbove DEF FramesOK
<1> QED
  BY <1>1 DEF FramesOK

\* A run stays as it is required to be.
LEMMA RunAbove ==
  ASSUME NEW w, NEW cert, NEW m, NEW m2, NEW str, NEW str2, Above(w, m, str, m2, str2),
         NEW r, RunOK(w, cert, m, str, r)
  PROVE  RunOK(w, cert, m2, str2, r)
<1>1. PICK c \in cert.places : \E bs :
        /\ c.program = r.program /\ c.at = r.at
        /\ Fits(w, m, str, c, r.obs, r.sets)
        /\ FramesOK(w, cert, m, str, r.program, r.obs, r.sets, bs, r.frames)
        /\ \A i \in DOMAIN r.frames : Inside(bs[i], Scope(c))
  BY DEF RunOK
<1>2. PICK bs :
        /\ c.program = r.program /\ c.at = r.at
        /\ Fits(w, m, str, c, r.obs, r.sets)
        /\ FramesOK(w, cert, m, str, r.program, r.obs, r.sets, bs, r.frames)
        /\ \A i \in DOMAIN r.frames : Inside(bs[i], Scope(c))
  BY <1>1
<1>3. Fits(w, m2, str2, c, r.obs, r.sets)
  BY <1>2, FitsAbove
<1>4. FramesOK(w, cert, m2, str2, r.program, r.obs, r.sets, bs, r.frames)
  BY <1>2, FramesAbove
<1> QED
  BY <1>2, <1>3, <1>4 DEF RunOK

\* Programs to be run still start at places of the certificate.
LEMMA TodoAbove ==
  ASSUME NEW w, NEW cert, NEW m, NEW m2, NEW str, NEW str2, Above(w, m, str, m2, str2),
         NEW r, r.args \in Seq(str.support), TodoOK(w, cert, m, r)
  PROVE  TodoOK(w, cert, m2, r)
<1>1. PICK a, l, S : a = r.args /\ l = Len(a) /\ S = str.support
  OBVIOUS
<1>2. a \in Seq(S) /\ l \in Nat
  BY <1>1
<1>3. ASSUME NEW x \in 0 .. l - 1 PROVE m2[a[x + 1]] = m[a[x + 1]]
  <2>1. x + 1 \in DOMAIN a
    BY <1>1, <1>2
  <2>2. a[x + 1] \in S
    BY <1>2, <2>1, SeqAt
  <2> QED
    BY <2>2, <1>1 DEF Above
<1>4. Registers(m2, a) = Registers(m, a)
  BY <1>1, <1>3 DEF Registers
<1> QED
  BY <1>1, <1>4 DEF TodoOK

\* A term still has a value in the model.
LEMMA MakeAbove ==
  ASSUME NEW w, NEW m, NEW m2, NEW str, NEW str2, Above(w, m, str, m2, str2),
         NEW make, MakeOK(w, m, str, make)
  PROVE  MakeOK(w, m2, str2, make)
<1>1. make[2] \in Seq(str.support)
  BY DEF MakeOK, TermOK
<1>2. make[2] \in Seq(str2.support) /\ Image(m2, make[2]) = Image(m, make[2])
  BY <1>1, SeqAbove
<1>3. TermOK(w, m2, str2, make)
  BY <1>2 DEF MakeOK, TermOK
<1>4. CASE make = <<make[1], make[2]>>
  BY <1>3, <1>4 DEF MakeOK
<1>5. CASE /\ make = <<make[1], make[2], make[3]>> /\ make[3] \in str.support
           /\ Append(Image(m, make[2]), m[make[3]]) \in w.model[make[1]]
  <2>1. make[3] \in str2.support /\ m2[make[3]] = m[make[3]]
    BY <1>5 DEF Above
  <2> QED
    BY <1>2, <1>3, <1>5, <2>1 DEF MakeOK
<1> QED
  BY <1>4, <1>5 DEF MakeOK

\* What is left of a fact is still true.
LEMMA FactAbove ==
  ASSUME NEW w, NEW cert, NEW m, NEW m2, NEW str, NEW str2, Above(w, m, str, m2, str2),
         NEW r, FactOK(w, cert, m, str, r)
  PROVE  FactOK(w, cert, m2, str2, r)
<1>1. r.args \in Seq(str.support)
  BY DEF FactOK
<1>2. r.args \in Seq(str2.support) /\ Image(m2, r.args) = Image(m, r.args)
  BY <1>1, SeqAbove
<1>3. CASE r.make = <<>>
  BY <1>2, <1>3 DEF FactOK
<1>4. CASE r.make # <<>>
  <2>1. MakeOK(w, m, str, r.make)
    BY <1>4 DEF FactOK
  <2>2. r.make[2] \in Seq(str.support)
    BY <2>1 DEF MakeOK, TermOK
  <2>3. Image(m2, r.make[2]) = Image(m, r.make[2])
    BY <2>2, SeqAbove
  <2>4. MakeOK(w, m2, str2, r.make)
    BY <2>1, MakeAbove
  <2> QED
    BY <1>2, <1>4, <2>3, <2>4 DEF FactOK
<1> QED
  BY <1>3, <1>4

\* What a worker holds, whether or not the structure changed during its program.
LEMMA WorkerAbove ==
  ASSUME NEW w, NEW cert, NEW m, NEW m2, NEW str, NEW str2, Above(w, m, str, m2, str2),
         NEW r, WorkerOK(w, cert, m, str, r), NEW b, NEW r2, r2 = [r EXCEPT !.undisturbed = b]
  PROVE  WorkerOK(w, cert, m2, str2, r2)
<1>1. Fields(r)
  BY DEF WorkerOK
<1>2. /\ Fields(r2) /\ r2.task = r.task /\ r2.args = r.args /\ r2.todo = r.todo /\ r2.make = r.make
      /\ r2.block = r.block /\ r2.program = r.program /\ r2.at = r.at /\ r2.frames = r.frames
      /\ r2.obs = r.obs /\ r2.sets = r.sets
  BY <1>1 DEF Fields
<1>3. Runs(r2) <=> Runs(r)
  BY <1>2 DEF Runs
<1>4. ASSUME Runs(r)
      PROVE  /\ r2.args \in Seq(str2.support) /\ TodoOK(w, cert, m2, r2)
             /\ r2.at # 0 => RunOK(w, cert, m2, str2, r2)
  <2>1. /\ r.args \in Seq(str.support) /\ TodoOK(w, cert, m, r)
        /\ r.at # 0 => RunOK(w, cert, m, str, r)
    BY <1>4 DEF WorkerOK
  <2>2. r2.args \in Seq(str2.support)
    BY <1>2, <2>1, SeqAbove
  <2>3. TodoOK(w, cert, m2, r2)
    <3>1. TodoOK(w, cert, m2, r)
      BY <2>1, TodoAbove
    <3> QED
      BY <3>1, <1>2 DEF TodoOK
  <2>4. ASSUME r.at # 0 PROVE RunOK(w, cert, m2, str2, r2)
    <3>1. RunOK(w, cert, m2, str2, r)
      BY <2>1, <2>4, RunAbove
    <3> QED
      BY <3>1, <1>2 DEF RunOK
  <2> QED
    BY <1>2, <2>2, <2>3, <2>4
<1>5. r2.task = "sample" => MakeOK(w, m2, str2, r2.make)
  BY <1>2, MakeAbove DEF WorkerOK
<1>6. ASSUME r2.task = "assume" PROVE FactOK(w, cert, m2, str2, r2)
  <2>1. FactOK(w, cert, m2, str2, r)
    BY <1>2, <1>6, FactAbove DEF WorkerOK
  <2> QED
    BY <2>1, <1>2 DEF FactOK
<1>7. /\ r2.task \in {"idle", "merging", "merge", "enforce", "cleanup", "sample", "assume"}
      /\ ~ Runs(r2) => r2.at = 0
      /\ r2.task \notin {"sample", "assume"} => r2.make = <<>>
      /\ r2.task \in {"merging", "merge"} => r2.args = <<r2.args[1]>>
  BY <1>2, <1>3 DEF WorkerOK
<1> QED
  BY <1>2, <1>3, <1>4, <1>5, <1>6, <1>7 DEF WorkerOK

-----------------------------------------------------------------------------
(* Registers and frames.                                                   *)

\* The position that binds a register.
At(args, x) == CHOOSE i \in Positions(args, "new") : args[i][2] = x

BoundAs(obs, args, u, b) ==
  /\ DOMAIN b = DOMAIN obs \cup NewOf(args)
  /\ \A x \in DOMAIN obs : x \notin NewOf(args) => b[x] = obs[x]
  /\ \A x \in NewOf(args) : b[x] = u[At(args, x)] /\ At(args, x) \in Positions(args, "new")

\* What the registers are after a line has set some.
LEMMA BoundIs ==
  ASSUME NEW obs, NEW args, NEW u
  PROVE  BoundAs(obs, args, u, Bound(obs, args, u))
<1>1. PICK D, N : D = DOMAIN obs /\ N = NewOf(args)
  OBVIOUS
<1>2. PICK b : b = Bound(obs, args, u)
  OBVIOUS
<1>3. b = [x \in D \cup N |-> IF x \in N THEN u[At(args, x)] ELSE obs[x]]
  BY <1>1, <1>2 DEF Bound, NewOf, At
<1>4. \A x \in N : At(args, x) \in Positions(args, "new")
  BY <1>1 DEF NewOf, At
<1>5. DOMAIN b = D \cup N /\ \A x \in D \cup N : b[x] = IF x \in N THEN u[At(args, x)] ELSE obs[x]
  BY <1>3
<1> QED
  BY <1>1, <1>2, <1>4, <1>5 DEF BoundAs

Agree(f, g, D) == \A x \in D : x \in DOMAIN g /\ g[x] = f[x]

\* Only the registers of a place matter.
LEMMA FitsLocal ==
  ASSUME NEW w, NEW m, NEW str, NEW c, NEW obs, NEW sets, NEW obs2, NEW sets2,
         Fits(w, m, str, c, obs, sets),
         Agree(obs, obs2, DOMAIN c.obs), Agree(sets, sets2, DOMAIN c.sets)
  PROVE  Fits(w, m, str, c, obs2, sets2)
<1>1. \A x \in DOMAIN c.obs : x \in DOMAIN obs2 /\ obs2[x] \in str.support /\ m[obs2[x]] = c.obs[x]
  BY DEF Fits, Agree
<1>2. ASSUME NEW x \in DOMAIN c.sets
      PROVE  x \in DOMAIN sets2 /\ SetFits(w, c, c.sets[x], obs2, sets2[x])
  <2>1. x \in DOMAIN sets /\ SetFits(w, c, c.sets[x], obs, sets[x])
    BY DEF Fits
  <2>2. x \in DOMAIN sets2 /\ sets2[x] = sets[x]
    BY DEF Agree
  <2>3. SetFits(w, c, c.sets[x], obs2, sets[x])
    BY <2>1 DEF SetFits, Agree
  <2> QED
    BY <2>2, <2>3
<1>3. ASSUME NEW k \in c.known PROVE KnownFits(w, str, c, k, obs2)
  <2>1. KnownFits(w, str, c, k, obs)
    BY DEF Fits
  <2> QED
    BY <2>1 DEF KnownFits, Agree
<1> QED
  BY <1>1, <1>2, <1>3 DEF Fits

\* A frame does not change when registers outside of its scope do.
LEMMA FrameLocal ==
  ASSUME NEW w, NEW cert, NEW m, NEW str, NEW program, NEW obs, NEW sets, NEW b, NEW f,
         NEW obs2, NEW sets2, FrameOK(w, cert, m, str, program, obs, sets, b, f),
         Agree(obs, obs2, b.obs), Agree(sets, sets2, b.sets)
  PROVE  FrameOK(w, cert, m, str, program, obs2, sets2, b, f)
<1>1. ASSUME NEW u \in f.left
      PROVE  \E c \in cert.places :
               /\ c.program = program /\ c.at = f.at
               /\ DOMAIN c.obs = b.obs \cup NewOf(f.args) /\ DOMAIN c.sets = b.sets
               /\ Fits(w, m, str, c, Bound(obs2, f.args, u), sets2)
               /\ f.table # "" => Fixed(c, b.obs)
  <2>1. PICK c \in cert.places :
          /\ c.program = program /\ c.at = f.at
          /\ DOMAIN c.obs = b.obs \cup NewOf(f.args) /\ DOMAIN c.sets = b.sets
          /\ Fits(w, m, str, c, Bound(obs, f.args, u), sets)
          /\ f.table # "" => Fixed(c, b.obs)
    BY DEF FrameOK
  <2>2. PICK o1 : o1 = Bound(obs, f.args, u)
    OBVIOUS
  <2>3. PICK o2 : o2 = Bound(obs2, f.args, u)
    OBVIOUS
  <2>4. BoundAs(obs, f.args, u, o1) /\ BoundAs(obs2, f.args, u, o2)
    BY <2>2, <2>3, BoundIs
  <2>5. NewOf(f.args) \cap b.obs = {}
    BY DEF FrameOK
  <2>6. ASSUME NEW x \in DOMAIN c.obs PROVE x \in DOMAIN o2 /\ o2[x] = o1[x]
    <3>1. CASE x \in NewOf(f.args)
      BY <2>4, <3>1 DEF BoundAs
    <3>2. CASE x \notin NewOf(f.args)
      <4>1. x \in b.obs
        BY <2>1, <3>2
      <4>2. x \in DOMAIN o1
        BY <2>1, <2>2 DEF Fits
      <4>3. x \in DOMAIN obs /\ o1[x] = obs[x]
        BY <2>4, <3>2, <4>2 DEF BoundAs
      <4>4. x \in DOMAIN obs2 /\ obs2[x] = obs[x]
        BY <4>1 DEF Agree
      <4>5. x \in DOMAIN o2 /\ o2[x] = obs2[x]
        BY <2>4, <3>2, <4>4 DEF BoundAs
      <4> QED
        BY <4>3, <4>4, <4>5
    <3> QED
      BY <3>1, <3>2
  <2>7. Agree(o1, o2, DOMAIN c.obs) /\ Agree(sets, sets2, DOMAIN c.sets)
    BY <2>1, <2>6 DEF Agree
  <2>8. Fits(w, m, str, c, o2, sets2)
    BY <2>1, <2>2, <2>7, FitsLocal
  <2> QED
    BY <2>1, <2>3, <2>8
<1>2. \A u \in f.left : /\ u \in Seq(str.support)
                        /\ Positions(f.args, "new") \subseteq DOMAIN u
                        /\ f.table \in FunctionNames => f.table \in DOMAIN w.model /\ u \in str.table[f.table]
  BY DEF FrameOK
<1>3. /\ f = [at |-> f.at, args |-> f.args, table |-> f.table, left |-> f.left]
      /\ NewOf(f.args) \cap b.obs = {}
      /\ \E k \in 0 .. 3 : \A u \in f.left : Len(u) = k
  BY DEF FrameOK
<1> QED
  BY <1>1, <1>2, <1>3 DEF FrameOK

\* Frames look only at the registers of their scopes.
LEMMA FramesLocal ==
  ASSUME NEW w, NEW cert, NEW m, NEW str, NEW program, NEW obs, NEW sets, NEW bs, NEW frames,
         NEW obs2, NEW sets2, FramesOK(w, cert, m, str, program, obs, sets, bs, frames),
         \A i \in DOMAIN frames : Agree(obs, obs2, bs[i].obs) /\ Agree(sets, sets2, bs[i].sets)
  PROVE  FramesOK(w, cert, m, str, program, obs2, sets2, bs, frames)
<1>1. \A i \in DOMAIN frames : FrameOK(w, cert, m, str, program, obs2, sets2, bs[i], frames[i])
  BY FrameLocal DEF FramesOK
<1> QED
  BY <1>1 DEF FramesOK

\* What a loop comes to: an entry that is there, of obs that denote what those
\* of the one that it found did.
Comes(m, str, n, u, v) ==
  /\ v \in Seq(str.support) /\ DOMAIN v = DOMAIN u
  /\ \A i \in DOMAIN u : m[v[i]] = m[u[i]]
  /\ v = u \/ n # ""

\* A loop over a function finds the value that the function has now: one that denotes the same.
LEMMA CurrentIs ==
  ASSUME NEW w, NEW m, NEW s, IsModel(w), TablesOK(w, m, s.struct), NEW n, NEW u \in Seq(s.struct.support),
         n \in FunctionNames => n \in DOMAIN w.model /\ u \in s.struct.table[n]
  PROVE  Comes(m, s.struct, n, u, Current(s, n, u))
<1>1. CASE n \notin FunctionNames
  BY <1>1 DEF Current, Comes
<1>2. CASE n \in FunctionNames
  <2>1. n \in FunctionNames \cap DOMAIN w.model /\ u \in s.struct.table[n] /\ n # ""
    BY <1>2 DEF FunctionNames, Nullary, Injective, Binary, Symmetric
  <2>2. PICK key : key = Front(u)
    OBVIOUS
  <2>3. PICK y : y = Only(Find(s, n, key))
    OBVIOUS
  <2>4. Last(u) \in Find(s, n, key)
    BY <2>1, <2>2 DEF Find
  <2>5. y \in Find(s, n, key)
    BY <2>3, <2>4, OnlyIs
  <2>6. PICK v : v = Append(key, y)
    OBVIOUS
  <2>7. v \in s.struct.table[n]
    BY <2>1, <2>5, <2>6, FindIs
  <2>8. True(w, m, s.struct, n, v) /\ True(w, m, s.struct, n, u)
    BY <2>1, <2>7 DEF TablesOK
  <2>9. Measured(w, m, s.struct, n, v) /\ Measured(w, m, s.struct, n, u)
    BY <2>1, <2>8, EntryLength
  <2>10. PICK k \in Nat : Len(u) = k + 1 /\ Len(v) = k + 1
    <3>1. Arity(n) \in Nat
      BY DEF Arity
    <3> QED
      BY <1>2, <2>9, <3>1 DEF Measured
  <2>11. PICK S : S = s.struct.support
    OBVIOUS
  <2>12. u \in Seq(S) /\ v \in Seq(S)
    BY <2>9, <2>11 DEF Measured
  <2>13. key \in Seq(S)
    BY <2>2, <2>10, <2>12, FrontLast
  <2>14. Front(v) = key /\ Last(v) = y
    <3>1. Front(Append(key, y)) = key /\ Last(Append(key, y)) = y
      BY <2>13 DEF Front, Last
    <3> QED
      BY <2>6, <3>1
  <2>15. m[Last(v)] = m[Last(u)]
    <3>1. Front(v) = Front(u)
      BY <2>2, <2>14
    <3>2. Last(v) \in s.struct.support /\ Last(u) \in s.struct.support /\ m[Last(v)] = m[Last(u)]
      <4>1. n \in FunctionNames \cap DOMAIN w.model
        BY <2>1
      <4> QED
        BY <2>8, <3>1, <4>1, SameKey
    <3> QED
      BY <3>2
  <2>16. \A i \in 1 .. k : v[i] = u[i]
    <3>1. Front(v) = Front(u)
      BY <2>2, <2>14
    <3>2. Len(v) = k + 1 /\ Len(u) = k + 1
      BY <2>10
    <3> QED
      BY <2>12, <3>1, <3>2, FrontsEqual
  <2>17. v[k + 1] = Last(v) /\ u[k + 1] = Last(u)
    BY <2>10 DEF Last
  <2>18. DOMAIN v = 1 .. k + 1 /\ DOMAIN u = 1 .. k + 1
    BY <2>10, <2>12
  <2>19. \A i \in 1 .. k + 1 : i \in 1 .. k \/ i = k + 1
    BY <2>10
  <2>20. \A i \in DOMAIN u : m[v[i]] = m[u[i]]
    BY <2>15, <2>16, <2>17, <2>18, <2>19
  <2>21. Current(s, n, u) = v
    BY <1>2, <2>2, <2>3, <2>6 DEF Current
  <2> QED
    BY <2>1, <2>11, <2>12, <2>18, <2>20, <2>21 DEF Comes
<1> QED
  BY <1>1, <1>2

\* The registers of a loop, from what it comes to.
LEMMA FitsComes ==
  ASSUME NEW w, NEW m, NEW str, NEW c, NEW obs, NEW sets, NEW args, NEW n, NEW u, NEW v, NEW D,
         Fits(w, m, str, c, Bound(obs, args, u), sets), Comes(m, str, n, u, v),
         DOMAIN c.obs = D \cup NewOf(args), NewOf(args) \cap D = {},
         Positions(args, "new") \subseteq DOMAIN u, n # "" => Fixed(c, D)
  PROVE  Fits(w, m, str, c, Bound(obs, args, v), sets)
<1>1. CASE v = u
  BY <1>1
<1>2. CASE v # u
  <2>1. PICK o1 : o1 = Bound(obs, args, u)
    OBVIOUS
  <2>2. PICK o2 : o2 = Bound(obs, args, v)
    OBVIOUS
  <2>3. BoundAs(obs, args, u, o1) /\ BoundAs(obs, args, v, o2)
    BY <2>1, <2>2, BoundIs
  <2>4. Fits(w, m, str, c, o1, sets)
    BY <2>1
  <2>5. \A x \in D : x \in DOMAIN o1 /\ x \in DOMAIN o2 /\ o2[x] = o1[x]
    <3>1. ASSUME NEW x \in D PROVE x \in DOMAIN o1 /\ x \in DOMAIN o2 /\ o2[x] = o1[x]
      <4>1. x \in DOMAIN o1 /\ x \notin NewOf(args)
        BY <2>4 DEF Fits
      <4>2. x \in DOMAIN obs
        BY <2>3, <4>1 DEF BoundAs
      <4> QED
        BY <2>3, <4>1, <4>2 DEF BoundAs
    <3> QED
      BY <3>1
  <2>6. ASSUME NEW x \in DOMAIN c.obs
        PROVE  x \in DOMAIN o2 /\ o2[x] \in str.support /\ m[o2[x]] = c.obs[x]
    <3>1. x \in DOMAIN o1 /\ o1[x] \in str.support /\ m[o1[x]] = c.obs[x]
      BY <2>4 DEF Fits
    <3>2. CASE x \in NewOf(args)
      <4>1. PICK i : i = At(args, x)
        OBVIOUS
      <4>2. i \in DOMAIN u /\ o1[x] = u[i] /\ o2[x] = v[i] /\ x \in DOMAIN o2
        BY <2>3, <3>2, <4>1 DEF BoundAs
      <4>3. v \in Seq(str.support) /\ i \in DOMAIN v /\ m[v[i]] = m[u[i]]
        BY <4>2 DEF Comes
      <4>4. v[i] \in str.support
        BY <4>3, SeqAt
      <4> QED
        BY <3>1, <4>2, <4>3, <4>4
    <3>3. CASE x \notin NewOf(args)
      BY <2>5, <3>1, <3>3
    <3> QED
      BY <3>2, <3>3
  <2>7. Fixed(c, D)
    BY <1>2 DEF Comes
  <2>8. ASSUME NEW x \in DOMAIN c.sets
        PROVE  x \in DOMAIN sets /\ SetFits(w, c, c.sets[x], o2, sets[x])
    <3>1. x \in DOMAIN sets /\ SetFits(w, c, c.sets[x], o1, sets[x])
      BY <2>4 DEF Fits
    <3>2. PICK a, set : a = c.sets[x] /\ set = sets[x]
      OBVIOUS
    <3>3. \A p \in DOMAIN a.from : a.from[p] \in D
      BY <2>7, <3>2 DEF Fixed
    <3>4. SetFits(w, c, a, o1, set)
      BY <3>1, <3>2
    <3>5. \A p \in DOMAIN a.from : o2[a.from[p]] = o1[a.from[p]]
      BY <2>5, <3>3
    <3>6. SetFits(w, c, a, o2, set)
      <4>1. /\ a.table \in DOMAIN w.model /\ set.table = a.table /\ set.hole = a.hole
            /\ DOMAIN set.given = DOMAIN a.from
            /\ \A e \in w.model[a.table] : a.hole \in DOMAIN e /\ DOMAIN a.from \subseteq DOMAIN e
        BY <3>4 DEF SetFits
      <4>2. ASSUME NEW p \in DOMAIN a.from
            PROVE  a.from[p] \in DOMAIN c.obs /\ set.given[p] = o2[a.from[p]]
        <5>1. a.from[p] \in DOMAIN c.obs /\ set.given[p] = o1[a.from[p]]
          BY <3>4 DEF SetFits
        <5> QED
          BY <3>5, <5>1
      <4> QED
        BY <4>1, <4>2 DEF SetFits
    <3> QED
      BY <3>1, <3>2, <3>6
  <2>9. ASSUME NEW k \in c.known PROVE KnownFits(w, str, c, k, o2)
    <3>1. KnownFits(w, str, c, k, o1)
      BY <2>4 DEF Fits
    <3>2. \A p \in DOMAIN k.from : k.from[p] \in D
      BY <2>7 DEF Fixed
    <3>3. \A p \in DOMAIN k.from : o2[k.from[p]] = o1[k.from[p]]
      BY <2>5, <3>2
    <3>4. PICK e \in str.table[k.table] :
            \A p \in DOMAIN k.from : p \in DOMAIN e /\ e[p] = o1[k.from[p]]
      BY <3>1 DEF KnownFits
    <3>5. \A p \in DOMAIN k.from : p \in DOMAIN e /\ e[p] = o2[k.from[p]]
      BY <3>3, <3>4
    <3> QED
      BY <3>1, <3>5 DEF KnownFits
  <2> QED
    BY <2>2, <2>6, <2>8, <2>9 DEF Fits
<1> QED
  BY <1>1, <1>2

\* The frames up to one, which has changed.
Prefixed(fr, k, g, q) ==
  /\ DOMAIN q = 1 .. k /\ q \in Seq(Range(q))
  /\ \A i \in 1 .. k - 1 : q[i] = fr[i]
  /\ q[k] = g

\* The frames outside of a loop, and that loop.
LEMMA PrefixIs ==
  ASSUME NEW X, NEW fr \in Seq(X), NEW k \in 1 .. Len(fr), NEW g \in X
  PROVE  Prefixed(fr, k, g, Append(SubSeq(fr, 1, k - 1), g))
<1>1. PICK q : q = Append(SubSeq(fr, 1, k - 1), g)
  OBVIOUS
<1>2. PICK l \in Nat : l = Len(fr) /\ k \in 1 .. l
  OBVIOUS
<1>3. PICK p : p = SubSeq(fr, 1, k - 1)
  OBVIOUS
<1>4. p \in Seq(X) /\ Len(p) = k - 1 /\ \A i \in 1 .. k - 1 : p[i] = fr[i]
  BY <1>2, <1>3
<1>5. q = Append(p, g)
  BY <1>1, <1>3
<1>6. q \in Seq(X) /\ DOMAIN q = 1 .. k /\ q[k] = g /\ \A i \in 1 .. k - 1 : q[i] = p[i]
  BY <1>2, <1>4, <1>5
<1>7. q \in Seq(Range(q))
  BY <1>6, SeqRange
<1> QED
  BY <1>1, <1>4, <1>6, <1>7 DEF Prefixed

\* A worker goes on in its program.
Resumes(w, cert, m, str, r, r2) ==
  /\ Fields(r2)
  /\ r2.task = r.task /\ r2.args = r.args /\ r2.todo = r.todo /\ r2.make = r.make
  /\ r2.at # 0 => RunOK(w, cert, m, str, r2)

\* A worker that goes on or ends its program stays as it is required to be.
LEMMA ResumeWorker ==
  ASSUME NEW w, NEW cert, NEW m, NEW str, NEW r, NEW r2, WorkerOK(w, cert, m, str, r), Runs(r),
         Resumes(w, cert, m, str, r, r2)
  PROVE  WorkerOK(w, cert, m, str, r2)
<1>1. Runs(r2) /\ r2.task = r.task /\ r2.task \in {"enforce", "cleanup"}
  BY DEF Resumes, Runs
<1>2. r2.args \in Seq(str.support) /\ TodoOK(w, cert, m, r2)
  <2>1. r.args \in Seq(str.support) /\ TodoOK(w, cert, m, r)
    BY DEF WorkerOK
  <2> QED
    BY <2>1 DEF Resumes, TodoOK
<1>3. r2.make = <<>>
  BY <1>1 DEF WorkerOK, Resumes
<1> QED
  BY <1>1, <1>2, <1>3 DEF WorkerOK, Resumes

\* What is left in a frame has a least member.
LEMMA LeftIs ==
  ASSUME NEW d \in Nat, NEW w, NEW cert, NEW m, NEW str, str.support \subseteq 1 .. d, NEW program,
         NEW obs, NEW sets, NEW b, NEW f, FrameOK(w, cert, m, str, program, obs, sets, b, f), f.left # {}
  PROVE  Least(f.left) \in f.left
<1>1. PICK left, S : left = f.left /\ S = str.support
  OBVIOUS
<1>2. PICK k \in 0 .. 3 : \A u \in left : Len(u) = k
  BY <1>1 DEF FrameOK
<1>3. \A u \in left : u \in Seq(S)
  BY <1>1 DEF FrameOK
<1>4. S \subseteq Nat
  BY <1>1
<1>5. \A u \in left : u \in Seq(Nat) /\ Len(u) = k
  BY <1>2, <1>3, <1>4, SeqSub
<1>6. Least(left) \in left
  BY <1>1, <1>2, <1>5, LeastIs
<1> QED
  BY <1>1, <1>6

\* A frame without one of what was left.
LEMMA FrameLess ==
  ASSUME NEW w, NEW cert, NEW m, NEW str, NEW program, NEW obs, NEW sets, NEW b, NEW f,
         FrameOK(w, cert, m, str, program, obs, sets, b, f), NEW u,
         NEW g, g = [f EXCEPT !.left = @ \ {u}]
  PROVE  FrameOK(w, cert, m, str, program, obs, sets, b, g)
<1>1. f = [at |-> f.at, args |-> f.args, table |-> f.table, left |-> f.left]
  BY DEF FrameOK
<1>2. PICK left2 : left2 = f.left \ {u}
  OBVIOUS
<1>3. g = [f EXCEPT !.left = left2]
  BY <1>2
<1>4. /\ g = [at |-> g.at, args |-> g.args, table |-> g.table, left |-> g.left]
      /\ g.at = f.at /\ g.args = f.args /\ g.table = f.table /\ g.left = left2
  BY <1>1, <1>3
<1>5. \A v \in left2 : v \in f.left
  BY <1>2
<1>6. \A v \in g.left :
        /\ v \in Seq(str.support)
        /\ Positions(g.args, "new") \subseteq DOMAIN v
        /\ g.table \in FunctionNames => g.table \in DOMAIN w.model /\ v \in str.table[g.table]
        /\ \E c \in cert.places :
             /\ c.program = program /\ c.at = g.at
             /\ DOMAIN c.obs = b.obs \cup NewOf(g.args) /\ DOMAIN c.sets = b.sets
             /\ Fits(w, m, str, c, Bound(obs, g.args, v), sets)
             /\ g.table # "" => Fixed(c, b.obs)
  BY <1>4, <1>5 DEF FrameOK
<1>7. \E k \in 0 .. 3 : \A v \in g.left : Len(v) = k
  BY <1>4, <1>5 DEF FrameOK
<1>8. NewOf(g.args) \cap b.obs = {}
  BY <1>4 DEF FrameOK
<1> QED
  BY <1>4, <1>6, <1>7, <1>8 DEF FrameOK

\* Back to the innermost frame that has something left.
LEMMA BackOK ==
  ASSUME NEW w, NEW cert, NEW m, NEW hands, NEW s, IsModel(w), StateOK(w, m, hands, s), w.dim \in Nat,
         NEW r, Fields(r), NEW bs,
         FramesOK(w, cert, m, s.struct, r.program, r.obs, r.sets, bs, r.frames)
  PROVE  Resumes(w, cert, m, s.struct, r, Back(r, s))
<1>1. PICK fr, live : fr = r.frames /\ live = {i \in DOMAIN fr : fr[i].left # {}}
  OBVIOUS
<1>2. PICK z : z = Back(r, s)
  OBVIOUS
<1>3. CASE live = {}
  <2>1. z = [r EXCEPT !.at = 0, !.frames = <<>>, !.obs = <<>>, !.sets = <<>>]
    BY <1>1, <1>2, <1>3 DEF Back
  <2>2. Fields(z) /\ z.task = r.task /\ z.args = r.args /\ z.todo = r.todo /\ z.make = r.make /\ z.at = 0
    BY <2>1 DEF Fields
  <2> QED
    BY <1>2, <2>2 DEF Resumes
<1>4. CASE live # {}
  <2>1. PICK k, f, u, v, g, o2, q :
          /\ k = Max(live) /\ f = fr[k] /\ u = Least(f.left) /\ v = Current(s, f.table, u)
          /\ g = [f EXCEPT !.left = @ \ {u}] /\ o2 = Bound(r.obs, f.args, v)
          /\ q = Append(SubSeq(fr, 1, k - 1), g)
    OBVIOUS
  <2>2. z = [r EXCEPT !.at = f.at, !.obs = Bound(@, f.args, v),
                      !.frames = Append(SubSeq(@, 1, k - 1), g)]
    BY <1>1, <1>2, <1>4, <2>1 DEF Back
  <2>3. z = [r EXCEPT !.at = f.at, !.obs = o2, !.frames = q]
    BY <1>1, <2>1, <2>2
  <2>4. /\ Fields(z) /\ z.task = r.task /\ z.args = r.args /\ z.todo = r.todo /\ z.make = r.make
        /\ z.program = r.program /\ z.at = f.at /\ z.obs = o2 /\ z.frames = q /\ z.sets = r.sets
    BY <2>3 DEF Fields
  <2>5. /\ fr \in Seq(Range(fr)) /\ DOMAIN bs = DOMAIN fr
        /\ \A i \in DOMAIN fr : FrameOK(w, cert, m, s.struct, r.program, r.obs, r.sets, bs[i], fr[i])
        /\ \A i, j \in DOMAIN fr : i < j => Inside(bs[i], bs[j])
    BY <1>1 DEF FramesOK
  <2>6. PICK n \in Nat : n = Len(fr) /\ DOMAIN fr = 1 .. n
    BY <2>5
  <2>7. k \in 1 .. n /\ f.left # {}
    <3>1. live \in SUBSET (1 .. n)
      BY <1>1, <2>6
    <3>2. k \in live
      BY <1>4, <2>1, <2>6, <3>1, MaxIs
    <3> QED
      BY <1>1, <2>1, <2>6, <3>2
  <2>8. PICK b : b = bs[k]
    OBVIOUS
  <2>9. FrameOK(w, cert, m, s.struct, r.program, r.obs, r.sets, b, f)
    BY <2>1, <2>5, <2>6, <2>7, <2>8
  <2>10. u \in f.left
    <3>1. PICK d \in Nat : d = w.dim
      OBVIOUS
    <3>2. s.struct.support \subseteq 1 .. d
      BY <3>1 DEF StateOK, RepsOK
    <3> QED
      BY <2>1, <2>7, <2>9, <3>2, LeftIs
  <2>11. PICK c \in cert.places :
           /\ c.program = r.program /\ c.at = f.at
           /\ DOMAIN c.obs = b.obs \cup NewOf(f.args) /\ DOMAIN c.sets = b.sets
           /\ Fits(w, m, s.struct, c, Bound(r.obs, f.args, u), r.sets)
           /\ f.table # "" => Fixed(c, b.obs)
    BY <2>9, <2>10 DEF FrameOK
  <2>12. /\ u \in Seq(s.struct.support) /\ Positions(f.args, "new") \subseteq DOMAIN u
         /\ f.table \in FunctionNames => f.table \in DOMAIN w.model /\ u \in s.struct.table[f.table]
         /\ NewOf(f.args) \cap b.obs = {}
    BY <2>9, <2>10 DEF FrameOK
  <2>13. Comes(m, s.struct, f.table, u, v)
    <3>1. TablesOK(w, m, s.struct)
      BY DEF StateOK
    <3> QED
      BY <2>1, <2>12, <3>1, CurrentIs
  <2>14. Fits(w, m, s.struct, c, o2, r.sets)
    <3>1. Fits(w, m, s.struct, c, Bound(r.obs, f.args, v), r.sets)
      BY <2>11, <2>12, <2>13, FitsComes
    <3> QED
      BY <2>1, <3>1
  <2>15. Prefixed(fr, k, g, q)
    <3>1. PICK X : X = Range(fr) \cup {g}
      OBVIOUS
    <3>2. fr \in Seq(X) /\ g \in X
      <4>1. Range(fr) \subseteq X /\ fr \in Seq(Range(fr))
        BY <2>5, <3>1
      <4>2. fr \in Seq(X)
        BY <4>1, SeqSub
      <4> QED
        BY <3>1, <4>2
    <3>3. k \in 1 .. Len(fr)
      BY <2>6, <2>7
    <3> QED
      BY <2>1, <3>2, <3>3, PrefixIs
  <2>16. FrameOK(w, cert, m, s.struct, r.program, r.obs, r.sets, b, g)
    BY <2>1, <2>9, FrameLess
  <2>17. PICK bs2 : bs2 = [i \in 1 .. k |-> bs[i]]
    OBVIOUS
  <2>18. /\ DOMAIN q = 1 .. k /\ q \in Seq(Range(q)) /\ q[k] = g
         /\ \A i \in 1 .. k - 1 : q[i] = fr[i]
    BY <2>15 DEF Prefixed
  <2>19. \A i \in 1 .. k : i \in DOMAIN fr /\ bs2[i] = bs[i] /\ (i = k \/ i \in 1 .. k - 1)
    BY <2>6, <2>7, <2>17
  <2>20. ASSUME NEW i \in 1 .. k
         PROVE  FrameOK(w, cert, m, s.struct, r.program, r.obs, r.sets, bs2[i], q[i])
    <3>1. CASE i = k
      BY <2>8, <2>16, <2>18, <2>19, <3>1
    <3>2. CASE i \in 1 .. k - 1
      <4>1. q[i] = fr[i] /\ bs2[i] = bs[i] /\ i \in DOMAIN fr
        BY <2>18, <2>19, <3>2
      <4> QED
        BY <2>5, <4>1
    <3> QED
      BY <2>19, <3>1, <3>2
  <2>21. \A i, j \in 1 .. k : i < j => Inside(bs2[i], bs2[j])
    BY <2>5, <2>19
  <2>22. FramesOK(w, cert, m, s.struct, r.program, r.obs, r.sets, bs2, q)
    BY <2>17, <2>18, <2>20, <2>21 DEF FramesOK
  <2>23. ASSUME NEW i \in 1 .. k PROVE bs2[i].obs \subseteq b.obs /\ bs2[i].sets \subseteq b.sets
    <3>1. CASE i = k
      BY <2>8, <2>19, <3>1
    <3>2. CASE i \in 1 .. k - 1
      <4>1. i < k /\ k \in 1 .. k
        BY <2>7, <3>2
      <4>2. Inside(bs2[i], bs2[k]) /\ bs2[k] = b
        BY <2>8, <2>19, <2>21, <4>1
      <4> QED
        BY <4>2 DEF Inside
    <3> QED
      BY <2>19, <3>1, <3>2
  <2>24. ASSUME NEW i \in 1 .. k
         PROVE  Agree(r.obs, o2, bs2[i].obs) /\ Agree(r.sets, r.sets, bs2[i].sets)
    <3>1. PICK o1 : o1 = Bound(r.obs, f.args, u)
      OBVIOUS
    <3>2. BoundAs(r.obs, f.args, u, o1) /\ BoundAs(r.obs, f.args, v, o2)
      BY <2>1, <3>1, BoundIs
    <3>3. ASSUME NEW x \in bs2[i].obs PROVE x \in DOMAIN o2 /\ o2[x] = r.obs[x]
      <4>1. x \in b.obs /\ x \notin NewOf(f.args)
        BY <2>12, <2>23
      <4>2. x \in DOMAIN o1
        BY <2>11, <3>1, <4>1 DEF Fits
      <4>3. x \in DOMAIN r.obs
        BY <3>2, <4>1, <4>2 DEF BoundAs
      <4> QED
        BY <3>2, <4>1, <4>3 DEF BoundAs
    <3>4. ASSUME NEW x \in bs2[i].sets PROVE x \in DOMAIN r.sets
      BY <2>11, <2>23 DEF Fits
    <3> QED
      BY <3>3, <3>4 DEF Agree
  <2>25. FramesOK(w, cert, m, s.struct, r.program, o2, r.sets, bs2, q)
    BY <2>18, <2>22, <2>24, FramesLocal
  <2>26. \A i \in DOMAIN q : Inside(bs2[i], Scope(c))
    BY <2>11, <2>18, <2>23 DEF Inside, Scope
  <2>27. RunOK(w, cert, m, s.struct, z)
    BY <2>4, <2>11, <2>14, <2>25, <2>26 DEF RunOK
  <2> QED
    BY <1>2, <2>4, <2>27 DEF Resumes
<1> QED
  BY <1>3, <1>4

-----------------------------------------------------------------------------
(* Instructions.                                                           *)

\* A worker is at a place of a run in the model.
Stands(w, cert, m, str, r, c, bs) ==
  /\ c \in cert.places /\ c.program = r.program /\ c.at = r.at
  /\ Fits(w, m, str, c, r.obs, r.sets)
  /\ FramesOK(w, cert, m, str, r.program, r.obs, r.sets, bs, r.frames)
  /\ \A i \in DOMAIN r.frames : Inside(bs[i], Scope(c))

\* A place after another one, with what an entry binds.
Binds(w, m, str, c, args, u, obs, c2, o2) ==
  /\ DOMAIN c2.obs = DOMAIN c.obs \cup NewOf(args)
  /\ \A x \in DOMAIN c2.obs : x \in DOMAIN o2 /\ o2[x] \in str.support /\ m[o2[x]] = c2.obs[x]
  /\ Agree(obs, o2, DOMAIN c.obs)

\* Registers that a line sets are those that it sets in the model.
LEMMA BindsOK ==
  ASSUME NEW w, NEW m, NEW str, NEW c, NEW args, NEW u \in Seq(str.support), NEW obs, NEW sets,
         Fits(w, m, str, c, obs, sets), NewOf(args) \cap DOMAIN c.obs = {},
         Positions(args, "new") \subseteq DOMAIN u,
         NEW c2, c2.obs = Bound(c.obs, args, Image(m, u)), NEW o2, o2 = Bound(obs, args, u)
  PROVE  Binds(w, m, str, c, args, u, obs, c2, o2)
<1>1. PICK e, co : e = Image(m, u) /\ co = c.obs
  OBVIOUS
<1>2. BoundAs(co, args, e, c2.obs) /\ BoundAs(obs, args, u, o2)
  BY <1>1, BoundIs
<1>3. DOMAIN c2.obs = DOMAIN co \cup NewOf(args)
  BY <1>2 DEF BoundAs
<1>4. ASSUME NEW x \in DOMAIN co PROVE x \in DOMAIN o2 /\ o2[x] = obs[x] /\ c2.obs[x] = co[x]
  <2>1. x \in DOMAIN obs /\ x \notin NewOf(args)
    BY <1>1 DEF Fits
  <2> QED
    BY <1>2, <2>1 DEF BoundAs
<1>5. ASSUME NEW x \in NewOf(args)
      PROVE  x \in DOMAIN o2 /\ o2[x] \in str.support /\ m[o2[x]] = c2.obs[x]
  <2>1. PICK i : i = At(args, x)
    OBVIOUS
  <2>2. /\ o2[x] = u[i] /\ c2.obs[x] = e[i] /\ i \in DOMAIN u /\ x \in DOMAIN o2
    BY <1>2, <2>1 DEF BoundAs
  <2>3. e[i] = m[u[i]]
    BY <1>1, <2>2, ImageAt
  <2>4. u[i] \in str.support
    BY <2>2, SeqAt
  <2> QED
    BY <2>2, <2>3, <2>4
<1>6. ASSUME NEW x \in DOMAIN c2.obs
      PROVE  x \in DOMAIN o2 /\ o2[x] \in str.support /\ m[o2[x]] = c2.obs[x]
  <2>1. CASE x \in NewOf(args)
    BY <1>5, <2>1
  <2>2. CASE x \in DOMAIN co
    <3>1. obs[x] \in str.support /\ m[obs[x]] = co[x]
      BY <1>1, <2>2 DEF Fits
    <3> QED
      BY <1>4, <2>2, <3>1
  <2> QED
    BY <1>3, <2>1, <2>2
<1>7. Agree(obs, o2, DOMAIN c.obs)
  BY <1>1, <1>4 DEF Agree
<1> QED
  BY <1>1, <1>3, <1>6, <1>7 DEF Binds

\* What is known at a place is known after it.
LEMMA KeepsOK ==
  ASSUME NEW w, NEW m, NEW str, NEW c, NEW args, NEW u, NEW obs, NEW sets, Fits(w, m, str, c, obs, sets),
         NEW c2, NEW o2, Binds(w, m, str, c, args, u, obs, c2, o2)
  PROVE  /\ \A x \in DOMAIN c.sets : x \in DOMAIN sets /\ SetFits(w, c2, c.sets[x], o2, sets[x])
         /\ \A k \in c.known : KnownFits(w, str, c2, k, o2)
<1>1. \A x \in DOMAIN c.obs : x \in DOMAIN c2.obs /\ o2[x] = obs[x]
  BY DEF Binds, Agree
<1>2. ASSUME NEW x \in DOMAIN c.sets PROVE x \in DOMAIN sets /\ SetFits(w, c2, c.sets[x], o2, sets[x])
  <2>1. x \in DOMAIN sets /\ SetFits(w, c, c.sets[x], obs, sets[x])
    BY DEF Fits
  <2>2. PICK a, set : a = c.sets[x] /\ set = sets[x]
    OBVIOUS
  <2>3. SetFits(w, c, a, obs, set)
    BY <2>1, <2>2
  <2>4. SetFits(w, c2, a, o2, set)
    BY <1>1, <2>3 DEF SetFits
  <2> QED
    BY <2>1, <2>2, <2>4
<1>3. ASSUME NEW k \in c.known PROVE KnownFits(w, str, c2, k, o2)
  <2>1. KnownFits(w, str, c, k, obs)
    BY DEF Fits
  <2> QED
    BY <1>1, <2>1 DEF KnownFits
<1> QED
  BY <1>2, <1>3

\* Sets and entries found at a place are of the registers of its scope.
LEMMA FitsFixed ==
  ASSUME NEW w, NEW m, NEW str, NEW c, NEW obs, NEW sets, Fits(w, m, str, c, obs, sets),
         NEW c2, c2.sets = c.sets, c2.known = c.known
  PROVE  Fixed(c2, DOMAIN c.obs)
<1>1. ASSUME NEW x \in DOMAIN c.sets, NEW p \in DOMAIN c.sets[x].from
      PROVE  c.sets[x].from[p] \in DOMAIN c.obs
  BY DEF Fits, SetFits
<1>2. ASSUME NEW k \in c.known, NEW p \in DOMAIN k.from
      PROVE  k.from[p] \in DOMAIN c.obs
  BY DEF Fits, KnownFits
<1> QED
  BY <1>1, <1>2 DEF Fixed

\* A worker goes on to another place of its program.
LEMMA IntoOK ==
  ASSUME NEW w, NEW cert, NEW m, NEW str, NEW r, NEW c, NEW bs, Stands(w, cert, m, str, r, c, bs),
         NEW r2, r2.program = r.program, r2.frames = r.frames,
         NEW c2 \in cert.places, c2.program = r.program, c2.at = r2.at,
         Fits(w, m, str, c2, r2.obs, r2.sets),
         Agree(r.obs, r2.obs, DOMAIN c.obs), Agree(r.sets, r2.sets, DOMAIN c.sets),
         Inside(Scope(c), Scope(c2))
  PROVE  RunOK(w, cert, m, str, r2)
<1>1. \A i \in DOMAIN r.frames : bs[i].obs \subseteq DOMAIN c.obs /\ bs[i].sets \subseteq DOMAIN c.sets
  BY DEF Stands, Inside, Scope
<1>2. \A i \in DOMAIN r.frames : /\ Agree(r.obs, r2.obs, bs[i].obs)
                                 /\ Agree(r.sets, r2.sets, bs[i].sets)
  BY <1>1 DEF Agree
<1>3. FramesOK(w, cert, m, str, r.program, r.obs, r.sets, bs, r.frames)
  BY DEF Stands
<1>4. FramesOK(w, cert, m, str, r.program, r2.obs, r2.sets, bs, r.frames)
  BY <1>2, <1>3, FramesLocal
<1>5. \A i \in DOMAIN r.frames : Inside(bs[i], Scope(c2))
  BY <1>1 DEF Inside, Scope
<1> QED
  BY <1>4, <1>5 DEF RunOK

\* A frame is added to those of a worker.
LEMMA PushOK ==
  ASSUME NEW w, NEW cert, NEW m, NEW str, NEW r, NEW c, NEW bs, Stands(w, cert, m, str, r, c, bs),
         NEW f, FrameOK(w, cert, m, str, r.program, r.obs, r.sets, Scope(c), f),
         NEW frames, frames = Append(r.frames, f)
  PROVE  \E bs2 : /\ FramesOK(w, cert, m, str, r.program, r.obs, r.sets, bs2, frames)
                  /\ \A i \in DOMAIN frames : Inside(bs2[i], Scope(c))
<1>1. PICK fr, sc : fr = r.frames /\ sc = Scope(c)
  OBVIOUS
<1>2. /\ fr \in Seq(Range(fr)) /\ DOMAIN bs = DOMAIN fr
      /\ \A i \in DOMAIN fr : FrameOK(w, cert, m, str, r.program, r.obs, r.sets, bs[i], fr[i])
      /\ \A i, j \in DOMAIN fr : i < j => Inside(bs[i], bs[j])
      /\ \A i \in DOMAIN fr : Inside(bs[i], sc)
  BY <1>1 DEF Stands, FramesOK
<1>3. PICK n \in Nat : n = Len(fr) /\ DOMAIN fr = 1 .. n
  BY <1>2
<1>4. Appended(fr, f, frames)
  BY <1>1, <1>2, AppendRange
<1>5. /\ DOMAIN frames = 1 .. n + 1 /\ frames[n + 1] = f
      /\ \A i \in 1 .. n : frames[i] = fr[i]
  BY <1>3, <1>4 DEF Appended
<1>6. frames \in Seq(Range(frames))
  <2>1. PICK X : X = Range(fr) \cup {f}
    OBVIOUS
  <2>2. fr \in Seq(X) /\ f \in X
    <3>1. Range(fr) \subseteq X
      BY <2>1
    <3>2. fr \in Seq(X)
      BY <1>2, <3>1, SeqSub
    <3> QED
      BY <2>1, <3>2
  <2>3. frames \in Seq(X)
    BY <1>1, <2>2
  <2> QED
    BY <2>3, SeqRange
<1>7. PICK bs2 : bs2 = [i \in 1 .. n + 1 |-> IF i = n + 1 THEN sc ELSE bs[i]]
  OBVIOUS
<1>8. /\ DOMAIN bs2 = 1 .. n + 1 /\ bs2[n + 1] = sc
      /\ \A i \in 1 .. n : bs2[i] = bs[i]
      /\ \A i \in 1 .. n + 1 : i \in 1 .. n \/ i = n + 1
  BY <1>7
<1>9. \A i \in 1 .. n + 1 : FrameOK(w, cert, m, str, r.program, r.obs, r.sets, bs2[i], frames[i])
  BY <1>1, <1>2, <1>3, <1>5, <1>8
<1>10. \A i \in 1 .. n + 1 : Inside(bs2[i], sc)
  <2>1. Inside(sc, sc)
    BY DEF Inside
  <2> QED
    BY <1>2, <1>3, <1>8, <2>1
<1>11. ASSUME NEW i \in 1 .. n + 1, NEW j \in 1 .. n + 1, i < j PROVE Inside(bs2[i], bs2[j])
  <2>1. CASE j = n + 1
    BY <1>8, <1>10, <2>1
  <2>2. CASE j \in 1 .. n
    <3>1. i \in 1 .. n
      BY <1>11, <2>2
    <3> QED
      BY <1>2, <1>3, <1>8, <1>11, <2>2, <3>1
  <2> QED
    BY <1>8, <2>1, <2>2
<1>12. FramesOK(w, cert, m, str, r.program, r.obs, r.sets, bs2, frames)
  BY <1>5, <1>6, <1>8, <1>9, <1>11 DEF FramesOK
<1> QED
  BY <1>1, <1>5, <1>10, <1>12

\* A loop begins.
LEMMA LoopOK ==
  ASSUME NEW w, NEW cert, NEW m, NEW hands, NEW s, IsModel(w), StateOK(w, m, hands, s), w.dim \in Nat,
         NEW r, Fields(r), NEW c, NEW bs, Stands(w, cert, m, s.struct, r, c, bs),
         NEW f, FrameOK(w, cert, m, s.struct, r.program, r.obs, r.sets, Scope(c), f),
         NEW r2, r2 = [r EXCEPT !.frames = Append(@, f)]
  PROVE  Resumes(w, cert, m, s.struct, r, Back(r2, s))
<1>1. PICK frames : frames = Append(r.frames, f)
  OBVIOUS
<1>2. r2 = [r EXCEPT !.frames = frames]
  BY <1>1
<1>3. /\ Fields(r2) /\ r2.task = r.task /\ r2.args = r.args /\ r2.todo = r.todo /\ r2.make = r.make
      /\ r2.program = r.program /\ r2.obs = r.obs /\ r2.sets = r.sets /\ r2.frames = frames
  BY <1>2 DEF Fields
<1>4. PICK bs2 : FramesOK(w, cert, m, s.struct, r.program, r.obs, r.sets, bs2, frames)
  BY <1>1, PushOK
<1>5. FramesOK(w, cert, m, s.struct, r2.program, r2.obs, r2.sets, bs2, r2.frames)
  BY <1>3, <1>4
<1>6. Resumes(w, cert, m, s.struct, r2, Back(r2, s))
  BY <1>3, <1>5, BackOK
<1> QED
  BY <1>3, <1>6 DEF Resumes

\* What an instruction that binds an entry goes on to.
LEMMA AfterOK ==
  ASSUME NEW w, NEW cert, NEW m, NEW str, NEW r, NEW c, NEW bs, Stands(w, cert, m, str, r, c, bs),
         NEW line, line = LineAt(w, c), line.op \notin {"LETS", "FOR_SETS"}, Executable(w, c),
         NEW u \in Seq(str.support), Positions(line.args, "new") \subseteq DOMAIN u,
         NEW c2, c2 = After(c, line, Image(m, u))
  PROVE  /\ c2.program = r.program /\ c2.at = r.at + 1
         /\ c2.sets = c.sets /\ c2.known = c.known
         /\ Binds(w, m, str, c, line.args, u, r.obs, c2, Bound(r.obs, line.args, u))
         /\ Fits(w, m, str, c2, Bound(r.obs, line.args, u), r.sets)
<1>1. PICK o2, args, sets : o2 = Bound(r.obs, args, u) /\ args = line.args /\ sets = r.sets
  OBVIOUS
<1>2. PICK S, K, B : S = SetsAfter(c, line) /\ K = KnownAfter(c, line) /\ B = Bound(c.obs, args, Image(m, u))
  OBVIOUS
<1>3. S = c.sets /\ K = c.known
  BY <1>2 DEF SetsAfter, KnownAfter
<1>4. c2 = [program |-> c.program, at |-> c.at + 1, obs |-> B, sets |-> S, known |-> K]
  BY <1>1, <1>2 DEF After
<1>5. c2.program = c.program /\ c2.at = c.at + 1 /\ c2.obs = B /\ c2.sets = c.sets /\ c2.known = c.known
  BY <1>3, <1>4
<1>6. NewOf(args) \cap DOMAIN c.obs = {}
  BY <1>1 DEF Executable, NewOf, Positions
<1>7. Fits(w, m, str, c, r.obs, sets) /\ c.program = r.program /\ c.at = r.at
  BY <1>1 DEF Stands
<1>8. Binds(w, m, str, c, args, u, r.obs, c2, o2)
  BY <1>1, <1>2, <1>5, <1>6, <1>7, BindsOK
<1>9. /\ \A x \in DOMAIN c.sets : x \in DOMAIN sets /\ SetFits(w, c2, c.sets[x], o2, sets[x])
      /\ \A k \in c.known : KnownFits(w, str, c2, k, o2)
  BY <1>7, <1>8, KeepsOK
<1>10. Fits(w, m, str, c2, o2, sets)
  BY <1>5, <1>8, <1>9 DEF Binds, Fits
<1> QED
  BY <1>1, <1>5, <1>7, <1>8, <1>10

\* Positions are those of arguments, which have one mode.
LEMMA NewsApart ==
  ASSUME NEW w, NEW c, Executable(w, c)
  PROVE  NewOf(LineAt(w, c).args) \cap DOMAIN c.obs = {}
BY DEF Executable, NewOf, Positions

\* A sequence of one.
One(x) == <<x>>

Single(S, x, u) == u \in Seq(S) /\ Len(u) = 1 /\ DOMAIN u = {1} /\ u[1] = x

\* A sequence of one member.
LEMMA SingleIs ==
  ASSUME NEW S, NEW x \in S, NEW u, u = <<x>>
  PROVE  Single(S, x, u)
<1>1. u \in Seq(S) /\ Len(u) = 1 /\ u[1] = x
  OBVIOUS
<1>2. DOMAIN u = 1 .. 1
  OBVIOUS
<1> QED
  BY <1>1, <1>2 DEF Single

\* The image of a sequence of one member.
LEMMA ImageOne ==
  ASSUME NEW m, NEW x, NEW u, u = <<x>>
  PROVE  Image(m, u) = <<m[x]>>
BY DEF Image

\* What is left in a frame.
LeftOK(w, cert, m, str, program, obs, sets, b, at, args, table, u) ==
  /\ u \in Seq(str.support)
  /\ Positions(args, "new") \subseteq DOMAIN u
  /\ table \in FunctionNames => table \in DOMAIN w.model /\ u \in str.table[table]
  /\ \E c \in cert.places :
       /\ c.program = program /\ c.at = at
       /\ DOMAIN c.obs = b.obs \cup NewOf(args) /\ DOMAIN c.sets = b.sets
       /\ Fits(w, m, str, c, Bound(obs, args, u), sets)
       /\ table # "" => Fixed(c, b.obs)

\* A frame whose members are each as required.
LEMMA FrameIs ==
  ASSUME NEW w, NEW cert, NEW m, NEW str, NEW program, NEW obs, NEW sets, NEW b,
         NEW at, NEW args, NEW table, NEW left,
         NewOf(args) \cap b.obs = {}, \E k \in 0 .. 3 : \A u \in left : Len(u) = k,
         \A u \in left : LeftOK(w, cert, m, str, program, obs, sets, b, at, args, table, u),
         NEW f, f = [at |-> at, args |-> args, table |-> table, left |-> left]
  PROVE  FrameOK(w, cert, m, str, program, obs, sets, b, f)
<1>1. f.at = at /\ f.args = args /\ f.table = table /\ f.left = left
  OBVIOUS
<1>2. f = [at |-> f.at, args |-> f.args, table |-> f.table, left |-> f.left]
  BY <1>1
<1>3. \A u \in f.left : LeftOK(w, cert, m, str, program, obs, sets, b, f.at, f.args, f.table, u)
  BY <1>1
<1>4. NewOf(f.args) \cap b.obs = {} /\ \E k \in 0 .. 3 : \A u \in f.left : Len(u) = k
  BY <1>1
<1> QED
  BY <1>2, <1>3, <1>4 DEF FrameOK, LeftOK

\* What a loop over the entries of a table has left.
LEMMA ForFrame ==
  ASSUME NEW w, NEW cert, NEW m, NEW str, NEW r, NEW c, NEW bs, IsModel(w), TablesOK(w, m, str),
         Stands(w, cert, m, str, r, c, bs), Executable(w, c), Successors(w, c) \subseteq cert.places,
         NEW line, line = LineAt(w, c), line.op = "FOR", NEW n, n = line.tables[1],
         NEW left, left = {u \in str.table[n] :
                             \A i \in Positions(line.args, "old") : u[i] = r.obs[line.args[i][2]]},
         NEW f, f = [at |-> r.at + 1, args |-> line.args, table |-> n, left |-> left]
  PROVE  FrameOK(w, cert, m, str, r.program, r.obs, r.sets, Scope(c), f)
<1>1. n \in DOMAIN w.model /\ \A e \in w.model[n] : DOMAIN line.args \subseteq DOMAIN e
  BY DEF Executable
<1>2. NewOf(line.args) \cap DOMAIN c.obs = {}
  BY NewsApart
<1>3. \A u \in left : True(w, m, str, n, u)
  BY <1>1 DEF TablesOK
<1>4. \A u \in left : Measured(w, m, str, n, u)
  BY <1>1, <1>3, EntryLength
<1>5. \E k \in 0 .. 3 : \A u \in left : Len(u) = k
  <2>1. CASE left = {}
    BY <2>1
  <2>2. CASE left # {}
    <3>1. PICK v : v \in left
      BY <2>2
    <3>2. PICK k \in 0 .. 3 : k = Len(v)
      BY <1>4, <3>1 DEF Measured
    <3>3. ASSUME NEW u \in left PROVE Len(u) = k
      <4>1. /\ Image(m, u) \in w.model[n] /\ Len(Image(m, u)) = Len(u)
            /\ Image(m, v) \in w.model[n] /\ Len(Image(m, v)) = Len(v)
        BY <1>4, <3>1 DEF Measured
      <4> QED
        BY <1>1, <3>2, <4>1 DEF IsModel
    <3> QED
      BY <3>3
  <2> QED
    BY <2>1, <2>2
<1>6. ASSUME NEW u \in left
      PROVE  LeftOK(w, cert, m, str, r.program, r.obs, r.sets, Scope(c), r.at + 1, line.args, n, u)
  <2>1. u \in Seq(str.support) /\ Image(m, u) \in w.model[n] /\ u \in str.table[n]
    BY <1>3 DEF True
  <2>2. PICK e : e = Image(m, u)
    OBVIOUS
  <2>3. DOMAIN e = DOMAIN u /\ \A i \in DOMAIN u : e[i] = m[u[i]]
    BY <2>1, <2>2, ImageIs
  <2>4. DOMAIN line.args \subseteq DOMAIN u
    BY <1>1, <2>1, <2>2, <2>3
  <2>5. Positions(line.args, "new") \subseteq DOMAIN u /\ Positions(line.args, "old") \subseteq DOMAIN u
    BY <2>4 DEF Positions
  <2>6. \A i \in Positions(line.args, "old") : e[i] = c.obs[line.args[i][2]]
    <3>1. ASSUME NEW i \in Positions(line.args, "old") PROVE e[i] = c.obs[line.args[i][2]]
      <4>1. line.args[i][2] \in DOMAIN c.obs
        BY DEF Executable, Positions
      <4>2. m[r.obs[line.args[i][2]]] = c.obs[line.args[i][2]]
        BY <4>1 DEF Stands, Fits
      <4>3. u[i] = r.obs[line.args[i][2]]
        OBVIOUS
      <4> QED
        BY <2>3, <2>5, <4>2, <4>3
    <3> QED
      BY <3>1
  <2>7. e \in Found(w, c)
    BY <2>1, <2>2, <2>6 DEF Found
  <2>8. PICK c2 : c2 = After(c, line, e)
    OBVIOUS
  <2>9. c2 \in cert.places
    BY <2>7, <2>8 DEF Successors
  <2>10. /\ c2.program = r.program /\ c2.at = r.at + 1
         /\ c2.sets = c.sets /\ c2.known = c.known
         /\ Binds(w, m, str, c, line.args, u, r.obs, c2, Bound(r.obs, line.args, u))
         /\ Fits(w, m, str, c2, Bound(r.obs, line.args, u), r.sets)
    <3>1. line.op \notin {"LETS", "FOR_SETS"} /\ c2 = After(c, line, Image(m, u))
      BY <2>2, <2>8
    <3> QED
      BY <2>1, <2>5, <3>1, AfterOK
  <2>11. Fixed(c2, DOMAIN c.obs)
    <3>1. Fits(w, m, str, c, r.obs, r.sets)
      BY DEF Stands
    <3> QED
      BY <2>10, <3>1, FitsFixed
  <2>12. DOMAIN c2.obs = DOMAIN c.obs \cup NewOf(line.args)
    BY <2>10 DEF Binds
  <2>13. PICK b : b = Scope(c)
    OBVIOUS
  <2>14. b.obs = DOMAIN c.obs /\ b.sets = DOMAIN c.sets
    BY <2>13 DEF Scope
  <2>15. LeftOK(w, cert, m, str, r.program, r.obs, r.sets, b, r.at + 1, line.args, n, u)
    BY <1>1, <2>1, <2>5, <2>9, <2>10, <2>11, <2>12, <2>14 DEF LeftOK
  <2> QED
    BY <2>13, <2>15
<1>7. NewOf(line.args) \cap Scope(c).obs = {}
  BY <1>2 DEF Scope
<1> QED
  BY <1>5, <1>6, <1>7, FrameIs

\* A loop over obs is one over no table.
NoTable(n) == n = ""

\* What a loop over all obs has left.
LEMMA ForAllFrame ==
  ASSUME NEW w, NEW cert, NEW m, NEW str, NEW r, NEW c, NEW bs, RepsOK(w, m, str),
         Stands(w, cert, m, str, r, c, bs), Executable(w, c), Successors(w, c) \subseteq cert.places,
         NEW line, line = LineAt(w, c), line.op = "FOR_ALL",
         NEW left, \A u \in left : \E x \in str.support : u = One(x), NEW n, NoTable(n),
         NEW f, f = [at |-> r.at + 1, args |-> line.args, table |-> n, left |-> left]
  PROVE  FrameOK(w, cert, m, str, r.program, r.obs, r.sets, Scope(c), f)
<1>1. Positions(line.args, "new") = {1}
  BY DEF Executable
<1>2. NewOf(line.args) \cap DOMAIN c.obs = {}
  BY NewsApart
<1>3. ASSUME NEW u \in left
      PROVE  /\ LeftOK(w, cert, m, str, r.program, r.obs, r.sets, Scope(c), r.at + 1, line.args, n, u)
             /\ Len(u) = 1
  <2>1. PICK x \in str.support : u = One(x)
    OBVIOUS
  <2>2. Single(str.support, x, u)
    BY <2>1, SingleIs DEF One
  <2>3. PICK e : e = Image(m, u)
    OBVIOUS
  <2>4. e = <<m[x]>>
    BY <2>1, <2>3, ImageOne DEF One
  <2>5. e \in Found(w, c)
    <3>1. m[x] \in Elements(w)
      BY DEF RepsOK
    <3> QED
      BY <2>4, <3>1 DEF Found
  <2>6. PICK c2 : c2 = After(c, line, e)
    OBVIOUS
  <2>7. c2 \in cert.places
    BY <2>5, <2>6 DEF Successors
  <2>8. Positions(line.args, "new") \subseteq DOMAIN u
    BY <1>1, <2>2 DEF Single
  <2>9. /\ c2.program = r.program /\ c2.at = r.at + 1
        /\ c2.sets = c.sets /\ c2.known = c.known
        /\ Binds(w, m, str, c, line.args, u, r.obs, c2, Bound(r.obs, line.args, u))
        /\ Fits(w, m, str, c2, Bound(r.obs, line.args, u), r.sets)
    <3>1. line.op \notin {"LETS", "FOR_SETS"} /\ c2 = After(c, line, Image(m, u))
      BY <2>3, <2>6
    <3>2. u \in Seq(str.support)
      BY <2>2 DEF Single
    <3>3. PICK line2, args : line2 = line /\ args = line.args
      OBVIOUS
    <3>4. Positions(line2.args, "new") \subseteq DOMAIN u /\ line2 = LineAt(w, c)
      BY <2>8, <3>3
    <3> QED
      BY <2>8, <3>1, <3>2, AfterOK
  <2>10. DOMAIN c2.obs = DOMAIN c.obs \cup NewOf(line.args)
    BY <2>9 DEF Binds
  <2>11. PICK b : b = Scope(c)
    OBVIOUS
  <2>12. b.obs = DOMAIN c.obs /\ b.sets = DOMAIN c.sets
    BY <2>11 DEF Scope
  <2>13. n = "" /\ n \notin FunctionNames
    BY DEF NoTable, FunctionNames, Nullary, Injective, Binary, Symmetric
  <2>14. LeftOK(w, cert, m, str, r.program, r.obs, r.sets, b, r.at + 1, line.args, n, u)
    BY <2>2, <2>7, <2>8, <2>9, <2>10, <2>12, <2>13 DEF LeftOK, Single
  <2> QED
    BY <2>2, <2>11, <2>14 DEF Single
<1>4. NewOf(line.args) \cap Scope(c).obs = {}
  BY <1>2 DEF Scope
<1>5. \E k \in 0 .. 3 : \A u \in left : Len(u) = k
  <2>1. \A u \in left : Len(u) = 1
    BY <1>3
  <2>2. 1 \in 0 .. 3
    OBVIOUS
  <2> QED
    BY <2>1, <2>2
<1> QED
  BY <1>3, <1>4, <1>5, FrameIs

\* An instruction that binds nothing goes on with the same registers.
LEMMA SkipOK ==
  ASSUME NEW w, NEW cert, NEW m, NEW str, NEW r, NEW c, NEW bs, Stands(w, cert, m, str, r, c, bs),
         NEW line, line = LineAt(w, c), Positions(line.args, "new") = {}, NEW e,
         NEW c2, c2 = After(c, line, e)
  PROVE  /\ c2.program = r.program /\ c2.at = r.at + 1 /\ DOMAIN c2.obs = DOMAIN c.obs
         /\ c2.sets = SetsAfter(c, line) /\ c2.known = KnownAfter(c, line)
         /\ Binds(w, m, str, c, line.args, e, r.obs, c2, r.obs)
<1>1. PICK S, K, B : S = SetsAfter(c, line) /\ K = KnownAfter(c, line) /\ B = Bound(c.obs, line.args, e)
  OBVIOUS
<1>2. c2 = [program |-> c.program, at |-> c.at + 1, obs |-> B, sets |-> S, known |-> K]
  BY <1>1 DEF After
<1>3. c2.program = c.program /\ c2.at = c.at + 1 /\ c2.obs = B /\ c2.sets = S /\ c2.known = K
  BY <1>2
<1>4. NewOf(line.args) = {}
  BY DEF NewOf
<1>5. BoundAs(c.obs, line.args, e, B)
  BY <1>1, BoundIs
<1>6. DOMAIN B = DOMAIN c.obs /\ \A x \in DOMAIN c.obs : B[x] = c.obs[x]
  BY <1>4, <1>5 DEF BoundAs
<1>7. Fits(w, m, str, c, r.obs, r.sets) /\ c.program = r.program /\ c.at = r.at
  BY DEF Stands
<1>8. Binds(w, m, str, c, line.args, e, r.obs, c2, r.obs)
  BY <1>3, <1>4, <1>6, <1>7 DEF Binds, Fits, Agree
<1> QED
  BY <1>1, <1>3, <1>6, <1>7, <1>8

\* A condition that holds: the next line.
LEMMA NextLineOK ==
  ASSUME NEW w, NEW cert, NEW m, NEW str, NEW r, Fields(r), NEW c, NEW bs, Stands(w, cert, m, str, r, c, bs),
         NEW line, line = LineAt(w, c), Positions(line.args, "new") = {},
         SetsAfter(c, line) = c.sets, KnownAfter(c, line) = c.known,
         NEW e, NEW c2, c2 = After(c, line, e), c2 \in cert.places,
         NEW r2, r2 = [r EXCEPT !.at = @ + 1]
  PROVE  Resumes(w, cert, m, str, r, r2)
<1>1. PICK a : a = r.at + 1
  OBVIOUS
<1>2. r2 = [r EXCEPT !.at = a]
  BY <1>1
<1>3. /\ Fields(r2) /\ r2.task = r.task /\ r2.args = r.args /\ r2.todo = r.todo /\ r2.make = r.make
      /\ r2.program = r.program /\ r2.at = a /\ r2.obs = r.obs /\ r2.sets = r.sets /\ r2.frames = r.frames
  BY <1>2 DEF Fields
<1>4. /\ c2.program = r.program /\ c2.at = r.at + 1 /\ DOMAIN c2.obs = DOMAIN c.obs
      /\ c2.sets = c.sets /\ c2.known = c.known
      /\ Binds(w, m, str, c, line.args, e, r.obs, c2, r.obs)
  BY SkipOK
<1>5. Fits(w, m, str, c, r.obs, r.sets)
  BY DEF Stands
<1>6. /\ \A x \in DOMAIN c.sets : x \in DOMAIN r.sets /\ SetFits(w, c2, c.sets[x], r.obs, r.sets[x])
      /\ \A k \in c.known : KnownFits(w, str, c2, k, r.obs)
  BY <1>4, <1>5, KeepsOK
<1>7. Fits(w, m, str, c2, r.obs, r.sets)
  BY <1>4, <1>6 DEF Binds, Fits
<1>8. Fits(w, m, str, c2, r2.obs, r2.sets)
  BY <1>3, <1>7
<1>9. Agree(r.obs, r2.obs, DOMAIN c.obs) /\ Agree(r.sets, r2.sets, DOMAIN c.sets)
  BY <1>3, <1>5 DEF Fits, Agree
<1>10. Inside(Scope(c), Scope(c2))
  BY <1>4 DEF Inside, Scope
<1>11. c2.program = r.program /\ c2.at = r2.at
  BY <1>1, <1>3, <1>4
<1>12. RunOK(w, cert, m, str, r2)
  BY <1>3, <1>8, <1>9, <1>10, <1>11, IntoOK
<1> QED
  BY <1>3, <1>12 DEF Resumes

\* The empty sequence is one of anything.
LEMMA NoneIs ==
  ASSUME NEW S, NEW u, u = <<>>
  PROVE  u \in Seq(S) /\ Len(u) = 0
OBVIOUS

\* The frame of the second branch of a SEQUENCE.
LEMMA BranchFrame ==
  ASSUME NEW w, NEW cert, NEW m, NEW str, NEW r, NEW c, NEW bs, Stands(w, cert, m, str, r, c, bs),
         NEW at, Rejoining(c, at) \in cert.places, NEW n, NoTable(n), NEW left, \A u \in left : u = <<>>,
         NEW args, args = <<>>,
         NEW f, f = [at |-> at, args |-> args, table |-> n, left |-> left]
  PROVE  FrameOK(w, cert, m, str, r.program, r.obs, r.sets, Scope(c), f)
<1>1. Positions(args, "new") = {}
  BY DEF Positions
<1>2. NewOf(args) = {}
  BY <1>1 DEF NewOf
<1>3. PICK c2 : c2 = Rejoining(c, at)
  OBVIOUS
<1>4. c2.program = c.program /\ c2.at = at /\ c2.obs = c.obs /\ c2.sets = c.sets /\ c2.known = c.known
  BY <1>3 DEF Rejoining
<1>5. Fits(w, m, str, c, r.obs, r.sets) /\ c.program = r.program
  BY DEF Stands
<1>6. PICK b : b = Scope(c)
  OBVIOUS
<1>7. b.obs = DOMAIN c.obs /\ b.sets = DOMAIN c.sets
  BY <1>6 DEF Scope
<1>8. ASSUME NEW u \in left PROVE LeftOK(w, cert, m, str, r.program, r.obs, r.sets, b, at, args, n, u)
  <2>1. u \in Seq(str.support)
    BY NoneIs
  <2>2. n = "" /\ n \notin FunctionNames
    BY DEF NoTable, FunctionNames, Nullary, Injective, Binary, Symmetric
  <2>3. PICK o2 : o2 = Bound(r.obs, args, u)
    OBVIOUS
  <2>4. BoundAs(r.obs, args, u, o2)
    BY <2>3, BoundIs
  <2>5. Agree(r.obs, o2, DOMAIN c.obs) /\ Agree(r.sets, r.sets, DOMAIN c.sets)
    <3>1. \A x \in DOMAIN c.obs : x \in DOMAIN r.obs
      BY <1>5 DEF Fits
    <3>2. \A x \in DOMAIN c.sets : x \in DOMAIN r.sets
      BY <1>5 DEF Fits
    <3> QED
      BY <1>2, <2>4, <3>1, <3>2 DEF BoundAs, Agree
  <2>6. Fits(w, m, str, c, o2, r.sets)
    BY <1>5, <2>5, FitsLocal
  <2>7. Fits(w, m, str, c2, o2, r.sets)
    BY <1>4, <2>6 DEF Fits, SetFits, KnownFits
  <2>8. c2 \in cert.places /\ c2.program = r.program /\ DOMAIN c2.obs = b.obs \cup NewOf(args)
    BY <1>2, <1>3, <1>4, <1>5, <1>7
  <2>9. Positions(args, "new") \subseteq DOMAIN u
    BY <1>1
  <2>10. DOMAIN c2.sets = b.sets /\ c2.at = at
    BY <1>4, <1>7
  <2> QED
    BY <2>1, <2>2, <2>3, <2>7, <2>8, <2>9, <2>10 DEF LeftOK
<1>9. NewOf(args) \cap b.obs = {}
  BY <1>2
<1>10. \E k \in 0 .. 3 : \A u \in left : Len(u) = k
  <2>1. \A u \in left : Len(u) = 0
    OBVIOUS
  <2> QED
    BY <2>1
<1>11. FrameOK(w, cert, m, str, r.program, r.obs, r.sets, b, f)
  BY <1>8, <1>9, <1>10, FrameIs
<1> QED
  BY <1>6, <1>11

\* SEQUENCE: the first branch is run, and the second one is left for later.
LEMMA SequenceOK ==
  ASSUME NEW w, NEW cert, NEW m, NEW str, NEW r, Fields(r), NEW c, NEW bs, Stands(w, cert, m, str, r, c, bs),
         NEW line, line = LineAt(w, c), Positions(line.args, "new") = {},
         SetsAfter(c, line) = c.sets, KnownAfter(c, line) = c.known,
         NEW e, NEW c2, c2 = After(c, line, e), c2 \in cert.places,
         NEW f, FrameOK(w, cert, m, str, r.program, r.obs, r.sets, Scope(c), f),
         NEW r1, r1 = [r EXCEPT !.frames = Append(@, f)], NEW r2, r2 = [r1 EXCEPT !.at = @ + 1]
  PROVE  Resumes(w, cert, m, str, r, r2)
<1>1. PICK frames : frames = Append(r.frames, f)
  OBVIOUS
<1>2. r1 = [r EXCEPT !.frames = frames]
  BY <1>1
<1>3. /\ Fields(r1) /\ r1.task = r.task /\ r1.args = r.args /\ r1.todo = r.todo /\ r1.make = r.make
      /\ r1.program = r.program /\ r1.at = r.at /\ r1.obs = r.obs /\ r1.sets = r.sets /\ r1.frames = frames
  BY <1>2 DEF Fields
<1>4. PICK bs2 : /\ FramesOK(w, cert, m, str, r.program, r.obs, r.sets, bs2, frames)
                 /\ \A i \in DOMAIN frames : Inside(bs2[i], Scope(c))
  BY <1>1, PushOK
<1>5. Stands(w, cert, m, str, r1, c, bs2)
  BY <1>3, <1>4 DEF Stands
<1>6. Resumes(w, cert, m, str, r1, r2)
  BY <1>3, <1>5, NextLineOK
<1> QED
  BY <1>3, <1>6 DEF Resumes

\* The set that LETS puts into a register.
LEMMA SetIs ==
  ASSUME NEW w, NEW m, NEW str, NEW c, NEW obs, NEW sets, Fits(w, m, str, c, obs, sets), Executable(w, c),
         NEW line, line = LineAt(w, c), line.op = "LETS",
         NEW h, h = Only(Positions(line.args, "newset")),
         NEW a, a = [table |-> line.tables[1], hole |-> h,
                     from |-> [i \in Positions(line.args, "old") |-> line.args[i][2]]],
         NEW set, set = [table |-> line.tables[1], hole |-> h,
                         given |-> [i \in Positions(line.args, "old") |-> obs[line.args[i][2]]]]
  PROVE  SetFits(w, c, a, obs, set) /\ line.args[h][2] \notin DOMAIN c.sets
<1>1. PICK n, args, P : n = line.tables[1] /\ args = line.args /\ P = Positions(args, "old")
  OBVIOUS
<1>2. /\ n \in DOMAIN w.model /\ \A e \in w.model[n] : DOMAIN args \subseteq DOMAIN e
      /\ Positions(args, "newset") # {}
  BY <1>1 DEF Executable
<1>3. h \in Positions(args, "newset")
  BY <1>1, <1>2, OnlyIs
<1>4. h \in DOMAIN args /\ args[h][2] \notin DOMAIN c.sets
  BY <1>1, <1>3 DEF Executable, Positions
<1>5. \A p \in P : p \in DOMAIN args /\ args[p][2] \in DOMAIN c.obs
  BY <1>1 DEF Executable, Positions
<1>6. PICK from, given : /\ from = [i \in P |-> args[i][2]]
                         /\ given = [i \in P |-> obs[args[i][2]]]
  OBVIOUS
<1>7. a.table = n /\ a.hole = h /\ a.from = from
  BY <1>1, <1>6
<1>8. set.table = n /\ set.hole = h /\ set.given = given
  BY <1>1, <1>6
<1>9. DOMAIN from = P /\ DOMAIN given = P /\ \A p \in P : from[p] = args[p][2] /\ given[p] = obs[args[p][2]]
  BY <1>6
<1> QED
  BY <1>1, <1>2, <1>4, <1>5, <1>7, <1>8, <1>9 DEF SetFits

\* What LETS puts into which of the registers, and where it goes on.
SetFor(line, h, obs) ==
  [table |-> line.tables[1], hole |-> h,
   given |-> [i \in Positions(line.args, "old") |-> obs[line.args[i][2]]]]

SetsWith(sets, reg, set) == [x \in DOMAIN sets \cup {reg} |-> IF x = reg THEN set ELSE sets[x]]

Puts(r, sets) == [r EXCEPT !.sets = sets, !.at = @ + 1]

\* LETS: a register is set to a line of a table.
LEMMA LetsOK ==
  ASSUME NEW w, NEW cert, NEW m, NEW str, NEW r, Fields(r), NEW c, NEW bs, Stands(w, cert, m, str, r, c, bs),
         Executable(w, c), NEW line, line = LineAt(w, c), line.op = "LETS",
         NEW e, NEW c2, c2 = After(c, line, e), c2 \in cert.places,
         NEW h, h = Only(Positions(line.args, "newset")), NEW reg, reg = line.args[h][2],
         NEW set, set = SetFor(line, h, r.obs), NEW sets, sets = SetsWith(r.sets, reg, set),
         NEW r2, r2 = Puts(r, sets)
  PROVE  Resumes(w, cert, m, str, r, r2)
<1>1. PICK at : at = r.at + 1
  OBVIOUS
<1>2. r2 = [r EXCEPT !.sets = sets, !.at = at]
  BY <1>1 DEF Puts
<1>3. /\ Fields(r2) /\ r2.task = r.task /\ r2.args = r.args /\ r2.todo = r.todo /\ r2.make = r.make
      /\ r2.program = r.program /\ r2.at = at /\ r2.obs = r.obs /\ r2.sets = sets /\ r2.frames = r.frames
  BY <1>2 DEF Fields
<1>4. Positions(line.args, "new") = {}
  BY DEF Executable
<1>5. /\ c2.program = r.program /\ c2.at = r.at + 1 /\ DOMAIN c2.obs = DOMAIN c.obs
      /\ c2.sets = SetsAfter(c, line) /\ c2.known = KnownAfter(c, line)
      /\ Binds(w, m, str, c, line.args, e, r.obs, c2, r.obs)
  BY <1>4, SkipOK
<1>6. Fits(w, m, str, c, r.obs, r.sets)
  BY DEF Stands
<1>7. PICK a : a = [table |-> line.tables[1], hole |-> h,
                    from |-> [i \in Positions(line.args, "old") |-> line.args[i][2]]]
  OBVIOUS
<1>8. SetFits(w, c, a, r.obs, set) /\ reg \notin DOMAIN c.sets
  BY <1>6, <1>7, SetIs DEF SetFor
<1>0. sets = [x \in DOMAIN r.sets \cup {reg} |-> IF x = reg THEN set ELSE r.sets[x]]
  BY DEF SetsWith
<1>9. c2.sets = [x \in DOMAIN c.sets \cup {reg} |-> IF x = reg THEN a ELSE c.sets[x]]
  BY <1>5, <1>7 DEF SetsAfter
<1>10. c2.known = c.known
  BY <1>5 DEF KnownAfter
<1>11. /\ \A x \in DOMAIN c.sets : x \in DOMAIN r.sets /\ SetFits(w, c2, c.sets[x], r.obs, r.sets[x])
       /\ \A k \in c.known : KnownFits(w, str, c2, k, r.obs)
  BY <1>5, <1>6, KeepsOK
<1>12. SetFits(w, c2, a, r.obs, set)
  BY <1>5, <1>8 DEF SetFits
<1>13. ASSUME NEW x \in DOMAIN c2.sets PROVE x \in DOMAIN sets /\ SetFits(w, c2, c2.sets[x], r.obs, sets[x])
  <2>1. CASE x = reg
    <3>1. c2.sets[x] = a /\ sets[x] = set /\ x \in DOMAIN sets
      BY <1>0, <1>9, <2>1
    <3> QED
      BY <1>12, <3>1
  <2>2. CASE x # reg
    <3>1. x \in DOMAIN c.sets /\ c2.sets[x] = c.sets[x]
      BY <1>9, <2>2
    <3>2. x \in DOMAIN sets /\ sets[x] = r.sets[x]
      BY <1>0, <1>11, <2>2, <3>1
    <3> QED
      BY <1>11, <3>1, <3>2
  <2> QED
    BY <2>1, <2>2
<1>14. Fits(w, m, str, c2, r2.obs, r2.sets)
  <2>1. \A x \in DOMAIN c2.obs : x \in DOMAIN r.obs /\ r.obs[x] \in str.support /\ m[r.obs[x]] = c2.obs[x]
    BY <1>5 DEF Binds
  <2>2. \A k \in c2.known : KnownFits(w, str, c2, k, r.obs)
    BY <1>10, <1>11
  <2>3. Fits(w, m, str, c2, r.obs, sets)
    BY <1>13, <2>1, <2>2 DEF Fits
  <2> QED
    BY <1>3, <2>3
<1>15. Agree(r.obs, r2.obs, DOMAIN c.obs) /\ Agree(r.sets, r2.sets, DOMAIN c.sets)
  <2>1. \A x \in DOMAIN c.sets : x \in DOMAIN sets /\ sets[x] = r.sets[x]
    <3>1. \A x \in DOMAIN c.sets : x \in DOMAIN r.sets /\ x # reg
      BY <1>8, <1>11
    <3> QED
      BY <1>0, <3>1
  <2>2. Agree(r.sets, sets, DOMAIN c.sets)
    BY <2>1 DEF Agree
  <2>3. \A x \in DOMAIN c.obs : x \in DOMAIN r.obs
    BY <1>6 DEF Fits
  <2>4. Agree(r.obs, r.obs, DOMAIN c.obs)
    BY <2>3 DEF Agree
  <2> QED
    BY <1>3, <2>2, <2>4
<1>16. Inside(Scope(c), Scope(c2))
  <2>1. DOMAIN c.sets \subseteq DOMAIN c2.sets
    BY <1>9
  <2> QED
    BY <1>5, <2>1 DEF Inside, Scope
<1>17. c2.program = r.program /\ c2.at = r2.at
  BY <1>1, <1>3, <1>5
<1>18. RunOK(w, cert, m, str, r2)
  BY <1>3, <1>14, <1>15, <1>16, <1>17, IntoOK
<1> QED
  BY <1>3, <1>18 DEF Resumes

\* A member of a set of a worker completes an entry of its table.
Completes(str, a, obs, x, v) ==
  /\ v \in str.table[a.table] /\ v \in Seq(str.support)
  /\ a.hole \in DOMAIN v /\ v[a.hole] = x
  /\ \A p \in DOMAIN a.from : p \in DOMAIN v /\ v[p] = obs[a.from[p]]

\* A member of a set completes an entry of its table.
LEMMA MemberIs ==
  ASSUME NEW w, NEW m, NEW c, NEW a, NEW obs, NEW set, SetFits(w, c, a, obs, set),
         TablesOK(w, m, struct), NEW x \in Members(set)
  PROVE  \E v : Completes(struct, a, obs, x, v)
<1>1. PICK v \in struct.table[set.table] :
        x = v[set.hole] /\ \A i \in DOMAIN set.given : v[i] = set.given[i]
  BY DEF Members
<1>2. /\ a.table \in DOMAIN w.model /\ set.table = a.table /\ set.hole = a.hole
      /\ DOMAIN set.given = DOMAIN a.from
      /\ \A p \in DOMAIN a.from : set.given[p] = obs[a.from[p]]
      /\ \A e \in w.model[a.table] : a.hole \in DOMAIN e /\ DOMAIN a.from \subseteq DOMAIN e
  BY DEF SetFits
<1>3. v \in struct.table[a.table] /\ v \in Seq(struct.support) /\ Image(m, v) \in w.model[a.table]
  BY <1>1, <1>2 DEF TablesOK, True
<1>4. DOMAIN Image(m, v) = DOMAIN v
  BY <1>3, ImageIs
<1>5. a.hole \in DOMAIN v /\ \A p \in DOMAIN a.from : p \in DOMAIN v
  BY <1>2, <1>3, <1>4
<1>6. v[a.hole] = x /\ \A p \in DOMAIN a.from : v[p] = obs[a.from[p]]
  BY <1>1, <1>2
<1> QED
  BY <1>3, <1>5, <1>6 DEF Completes

\* What a member of the set denotes is a member in the model.
LEMMA MemberDenotes ==
  ASSUME NEW w, NEW m, NEW str, NEW c, NEW a, NEW obs, NEW sets, NEW set, Fits(w, m, str, c, obs, sets),
         SetFits(w, c, a, obs, set), TablesOK(w, m, str), NEW x, NEW v, Completes(str, a, obs, x, v)
  PROVE  m[x] \in MembersIn(w, c, a)
<1>1. PICK e : e = Image(m, v)
  OBVIOUS
<1>2. DOMAIN e = DOMAIN v /\ \A i \in DOMAIN v : e[i] = m[v[i]]
  BY <1>1, ImageIs DEF Completes
<1>3. e \in w.model[a.table]
  BY <1>1 DEF SetFits, TablesOK, True, Completes
<1>4. ASSUME NEW p \in DOMAIN a.from PROVE e[p] = c.obs[a.from[p]]
  <2>1. p \in DOMAIN v /\ v[p] = obs[a.from[p]]
    BY DEF Completes
  <2>2. m[obs[a.from[p]]] = c.obs[a.from[p]]
    BY DEF SetFits, Fits
  <2> QED
    BY <1>2, <2>1, <2>2
<1>5. e[a.hole] = m[x]
  BY <1>2 DEF Completes
<1> QED
  BY <1>3, <1>4, <1>5 DEF MembersIn

\* A member that is put into a register completes an entry that is known.
LEMMA CompletedOK ==
  ASSUME NEW w, NEW str, NEW c, NEW c2, NEW a, NEW obs, NEW o2, NEW set, SetFits(w, c, a, obs, set),
         Agree(obs, o2, DOMAIN c.obs), NEW reg, reg \in DOMAIN c2.obs, DOMAIN c.obs \subseteq DOMAIN c2.obs,
         NEW x, o2[reg] = x, NEW v, Completes(str, a, obs, x, v)
  PROVE  KnownFits(w, str, c2, Completed(a, reg), o2)
<1>1. PICK from, k : /\ from = [p \in DOMAIN a.from \cup {a.hole} |-> IF p = a.hole THEN reg ELSE a.from[p]]
                     /\ k = Completed(a, reg)
  OBVIOUS
<1>2. k = [table |-> a.table, from |-> from]
  BY <1>1 DEF Completed
<1>3. k.table = a.table /\ k.from = from
  BY <1>2
<1>4. ASSUME NEW p \in DOMAIN from
      PROVE  from[p] \in DOMAIN c2.obs /\ p \in DOMAIN v /\ v[p] = o2[from[p]]
  <2>1. CASE p = a.hole
    <3>1. from[p] = reg
      BY <1>1, <2>1
    <3> QED
      BY <2>1, <3>1 DEF Completes
  <2>2. CASE p # a.hole
    <3>1. p \in DOMAIN a.from /\ from[p] = a.from[p]
      BY <1>1, <2>2
    <3>2. a.from[p] \in DOMAIN c.obs
      BY <3>1 DEF SetFits
    <3>3. o2[a.from[p]] = obs[a.from[p]]
      BY <3>2 DEF Agree
    <3> QED
      BY <3>1, <3>2, <3>3 DEF Completes
  <2> QED
    BY <2>1, <2>2
<1>5. v \in str.table[k.table] /\ k.table \in DOMAIN w.model
  BY <1>3 DEF Completes, SetFits
<1>6. KnownFits(w, str, c2, k, o2)
  BY <1>3, <1>4, <1>5 DEF KnownFits
<1> QED
  BY <1>1, <1>6

\* What a loop over an intersection of sets has left.
LEMMA ForSetsFrame ==
  ASSUME NEW w, NEW cert, NEW m, NEW r, NEW c, NEW bs, RepsOK(w, m, struct), TablesOK(w, m, struct),
         Stands(w, cert, m, struct, r, c, bs), Executable(w, c), Successors(w, c) \subseteq cert.places,
         NEW line, line = LineAt(w, c), line.op = "FOR_SETS",
         NEW left, \A u \in left : \E x \in struct.support :
                     /\ u = One(x)
                     /\ \A i \in Positions(line.args, "pos") : x \in Members(r.sets[line.args[i][2]]),
         NEW n, NoTable(n),
         NEW f, f = [at |-> r.at + 1, args |-> line.args, table |-> n, left |-> left]
  PROVE  FrameOK(w, cert, m, struct, r.program, r.obs, r.sets, Scope(c), f)
<1>1. Positions(line.args, "new") = {1}
  BY DEF Executable
<1>2. NewOf(line.args) \cap DOMAIN c.obs = {}
  BY NewsApart
<1>3. PICK args, P, reg : args = line.args /\ P = Positions(args, "pos") /\ reg = args[1][2]
  OBVIOUS
<1>4. Fits(w, m, struct, c, r.obs, r.sets) /\ c.program = r.program /\ c.at = r.at
  BY DEF Stands
<1>5. \A i \in P : args[i][2] \in DOMAIN c.sets
  BY <1>3 DEF Executable, Positions
<1>6. ASSUME NEW u \in left
      PROVE  /\ LeftOK(w, cert, m, struct, r.program, r.obs, r.sets, Scope(c), r.at + 1, line.args, n, u)
             /\ Len(u) = 1
  <2>1. PICK x \in struct.support :
          u = One(x) /\ \A i \in P : x \in Members(r.sets[args[i][2]])
    BY <1>3
  <2>2. Single(struct.support, x, u)
    BY <2>1, SingleIs DEF One
  <2>3. PICK e : e = Image(m, u)
    OBVIOUS
  <2>4. e = <<m[x]>>
    BY <2>1, <2>3, ImageOne DEF One
  <2>5. ASSUME NEW i \in P
        PROVE  /\ SetFits(w, c, c.sets[args[i][2]], r.obs, r.sets[args[i][2]])
               /\ \E v : Completes(struct, c.sets[args[i][2]], r.obs, x, v)
    <3>1. PICK a, set : a = c.sets[args[i][2]] /\ set = r.sets[args[i][2]]
      OBVIOUS
    <3>2. SetFits(w, c, a, r.obs, set)
      BY <1>4, <1>5, <3>1 DEF Fits
    <3>3. x \in Members(set)
      BY <2>1, <3>1
    <3>4. \E v : Completes(struct, a, r.obs, x, v)
      BY <3>2, <3>3, MemberIs
    <3> QED
      BY <3>1, <3>2, <3>4
  <2>6. e \in Found(w, c)
    <3>1. m[x] \in Elements(w)
      BY DEF RepsOK
    <3>2. \A i \in P : m[x] \in MembersIn(w, c, c.sets[args[i][2]])
      BY <1>4, <2>5, MemberDenotes
    <3> QED
      BY <1>3, <2>4, <3>1, <3>2 DEF Found
  <2>7. PICK c2, o2 : c2 = After(c, line, e) /\ o2 = Bound(r.obs, args, u)
    OBVIOUS
  <2>8. c2 \in cert.places
    BY <2>6, <2>7 DEF Successors
  <2>9. Positions(args, "new") \subseteq DOMAIN u
    BY <1>1, <1>3, <2>2 DEF Single
  <2>10. PICK S, K, B : S = SetsAfter(c, line) /\ K = KnownAfter(c, line) /\ B = Bound(c.obs, line.args, e)
    OBVIOUS
  <2>11. c2 = [program |-> c.program, at |-> c.at + 1, obs |-> B, sets |-> S, known |-> K]
    BY <2>7, <2>10 DEF After
  <2>12. c2.program = c.program /\ c2.at = c.at + 1 /\ c2.obs = B /\ c2.sets = S /\ c2.known = K
    BY <2>11
  <2>13. Binds(w, m, struct, c, args, u, r.obs, c2, o2)
    <3>1. c2.obs = Bound(c.obs, args, Image(m, u))
      BY <1>3, <2>3, <2>10, <2>12
    <3>2. u \in Seq(struct.support) /\ NewOf(args) \cap DOMAIN c.obs = {}
      BY <1>2, <1>3, <2>2 DEF Single
    <3> QED
      BY <1>4, <2>7, <2>9, <3>1, <3>2, BindsOK
  <2>14. /\ \A y \in DOMAIN c.sets : y \in DOMAIN r.sets /\ SetFits(w, c2, c.sets[y], o2, r.sets[y])
         /\ \A k \in c.known : KnownFits(w, struct, c2, k, o2)
    BY <1>4, <2>13, KeepsOK
  <2>15. c2.sets = c.sets
    BY <2>10, <2>12 DEF SetsAfter
  <2>16. reg \in NewOf(args) /\ reg \in DOMAIN c2.obs /\ o2[reg] = x
    <3>1. reg \in NewOf(args)
      BY <1>1, <1>3 DEF NewOf
    <3>2. BoundAs(r.obs, args, u, o2)
      BY <2>7, BoundIs
    <3>3. o2[reg] = u[At(args, reg)] /\ At(args, reg) \in Positions(args, "new")
      BY <3>1, <3>2 DEF BoundAs
    <3>4. o2[reg] = u[1]
      BY <1>1, <1>3, <3>3
    <3> QED
      BY <2>2, <2>13, <3>1, <3>4 DEF Binds, Single
  <2>17. ASSUME NEW k \in c2.known PROVE KnownFits(w, struct, c2, k, o2)
    <3>1. CASE k \in c.known
      BY <2>14, <3>1
    <3>2. CASE k \notin c.known
      <4>1. PICK i \in P : k = Completed(c.sets[args[i][2]], reg)
        BY <1>3, <2>10, <2>12, <3>2 DEF KnownAfter
      <4>2. PICK a, set : a = c.sets[args[i][2]] /\ set = r.sets[args[i][2]]
        OBVIOUS
      <4>3. SetFits(w, c, a, r.obs, set)
        BY <2>5, <4>2
      <4>4. PICK v : Completes(struct, a, r.obs, x, v)
        BY <2>5, <4>2
      <4>5. Agree(r.obs, o2, DOMAIN c.obs) /\ DOMAIN c.obs \subseteq DOMAIN c2.obs
        BY <2>13 DEF Binds
      <4>6. KnownFits(w, struct, c2, Completed(a, reg), o2)
        BY <2>16, <4>3, <4>4, <4>5, CompletedOK
      <4> QED
        BY <4>1, <4>2, <4>6
    <3> QED
      BY <3>1, <3>2
  <2>18. Fits(w, m, struct, c2, o2, r.sets)
    <3>1. \A y \in DOMAIN c2.obs : y \in DOMAIN o2 /\ o2[y] \in struct.support /\ m[o2[y]] = c2.obs[y]
      BY <2>13 DEF Binds
    <3>2. \A y \in DOMAIN c2.sets : y \in DOMAIN r.sets /\ SetFits(w, c2, c2.sets[y], o2, r.sets[y])
      BY <2>14, <2>15
    <3> QED
      BY <2>17, <3>1, <3>2 DEF Fits
  <2>19. PICK b : b = Scope(c)
    OBVIOUS
  <2>20. b.obs = DOMAIN c.obs /\ b.sets = DOMAIN c.sets
    BY <2>19 DEF Scope
  <2>21. n = "" /\ n \notin FunctionNames
    BY DEF NoTable, FunctionNames, Nullary, Injective, Binary, Symmetric
  <2>22. DOMAIN c2.obs = DOMAIN c.obs \cup NewOf(args)
    BY <2>13 DEF Binds
  <2>23. u \in Seq(struct.support) /\ c2.at = r.at + 1 /\ c2.program = r.program
    BY <1>4, <2>2, <2>12 DEF Single
  <2>24. LeftOK(w, cert, m, struct, r.program, r.obs, r.sets, b, r.at + 1, args, n, u)
    BY <2>7, <2>8, <2>9, <2>15, <2>18, <2>20, <2>21, <2>22, <2>23 DEF LeftOK
  <2> QED
    BY <1>3, <2>2, <2>19, <2>24 DEF Single
<1>7. NewOf(line.args) \cap Scope(c).obs = {}
  BY <1>2 DEF Scope
<1>8. \E k \in 0 .. 3 : \A u \in left : Len(u) = k
  <2>1. \A u \in left : Len(u) = 1
    BY <1>6
  <2>2. 1 \in 0 .. 3
    OBVIOUS
  <2> QED
    BY <2>1, <2>2
<1> QED
  BY <1>6, <1>7, <1>8, FrameIs

-----------------------------------------------------------------------------
(* Steps.                                                                  *)

\* What is assumed of the world that a surveyor starts with.
WorldOK(w) ==
  /\ w.dim \in Nat /\ IsModel(w) /\ Provides(w) /\ Verified(w, Certificate(w))
  /\ \E k \in Nat : DOMAIN w.programs = 1 .. k

\* Loading changes the programs alone, and what is assumed of surveyors holds of the loaded one.
LEMMA LoadedIs ==
  ASSUME NEW w0 \in Worlds, NEW w, w = Loaded(w0)
  PROVE  /\ w.dim = w0.dim /\ w.count = w0.count /\ w.phase = w0.phase /\ w.tables = w0.tables
         /\ w.model = w0.model /\ w.meaning = w0.meaning /\ w.assume = w0.assume
         /\ TrueIn(w0) /\ WorldOK(w)
<1>1. TrueIn(w0) /\ Verified(w, Certificate(w))
  BY SurveyAssumption
<1>2. DOMAIN w0 = {"dim", "count", "phase", "tables", "programs", "rules", "assume", "model", "meaning"}
  BY <1>1 DEF TrueIn
<1>3. PICK p : p = ParseFile(w0.programs)
  OBVIOUS
<1>0. \E k \in Nat : DOMAIN p = 1 .. k
  <2>1. DOMAIN p = DOMAIN w0.programs
    BY <1>3 DEF ParseFile
  <2>2. w0.programs \in Seq(Range(w0.programs))
    BY <1>1 DEF TrueIn
  <2> QED
    BY <2>1, <2>2
<1>4. w = [w0 EXCEPT !.programs = p]
  BY <1>3 DEF Loaded
<1>5. /\ w.dim = w0.dim /\ w.count = w0.count /\ w.phase = w0.phase /\ w.tables = w0.tables
      /\ w.model = w0.model /\ w.meaning = w0.meaning /\ w.assume = w0.assume
      /\ w.programs = p
  BY <1>2, <1>4
<1>6. Elements(w) = Elements(w0) /\ MissingFrom(w) = MissingFrom(w0)
  BY <1>5 DEF Elements, MissingFrom
<1>7. IsModel(w) /\ Provides(w) /\ w.dim \in Nat
  BY <1>1, <1>5, <1>6 DEF TrueIn, IsModel, Provides
<1> QED
  BY <1>0, <1>1, <1>5, <1>7 DEF WorldOK

\* What is assumed of surveyors holds of this one.
LEMMA WorldIs ==
  ASSUME IInv
  PROVE  WorldOK(world)
BY LoadedIs DEF IInv

\* What a worker that runs a program holds.
Running(r, c, bs) ==
  /\ Runs(r) /\ Fields(r)
  /\ Stands(world, Certificate(world), meaning, struct, r, c, bs)
  /\ Executable(world, c) /\ Concludes(world, c)
  /\ Successors(world, c) \subseteq Certificate(world).places
  /\ Line(r) = LineAt(world, c)

\* A worker that runs a program is at a place of the certificate.
LEMMA RunningOK ==
  ASSUME IInv, NEW t \in Thread, th[t].at # 0
  PROVE  \E c, bs : Running(th[t], c, bs)
<1>1. PICK r : r = th[t]
  OBVIOUS
<1>2. WorkerOK(world, Certificate(world), meaning, struct, r)
  BY <1>1 DEF IInv
<1>3. Runs(r) /\ Fields(r) /\ RunOK(world, Certificate(world), meaning, struct, r)
  BY <1>1, <1>2 DEF WorkerOK
<1>4. PICK c, bs : Stands(world, Certificate(world), meaning, struct, r, c, bs)
  BY <1>3 DEF RunOK, Stands
<1>5. c \in Certificate(world).places /\ c.program = r.program /\ c.at = r.at
  BY <1>4 DEF Stands
<1>6. /\ Executable(world, c) /\ Concludes(world, c)
      /\ Successors(world, c) \subseteq Certificate(world).places
  BY <1>5, WorldIs DEF WorldOK, Verified
<1>7. Line(r) = LineAt(world, c)
  BY <1>5 DEF Line, Code, LineAt
<1> QED
  BY <1>1, <1>3, <1>4, <1>6, <1>7 DEF Running

\* The parts of the invariant that are not about workers and the structure.
RestOK ==
  /\ \E w \in Worlds : world = Loaded(w)
  /\ DOMAIN meaning = Ob
  /\ CleanupOK
  /\ assumed \in Seq(Range(assumed))
  /\ \A f \in Range(assumed) : [todo |-> f, stack |-> <<>>] \in Certificate(world).facts

\* A step that leaves the rest unchanged keeps what is required of it.
LEMMA RestKeeps ==
  ASSUME IInv, Unchanged
  PROVE  RestOK'
<1>1. RestOK
  BY DEF IInv, RestOK
<1>2. CleanupCount' = CleanupCount
  BY DEF Unchanged, CleanupCount, Small, Large, Listed, Places, First, Code, BlockCount, Dim
<1>3. CleanupOK'
  BY <1>1, <1>2 DEF RestOK, CleanupOK, Unchanged
<1> QED
  BY <1>1, <1>3 DEF RestOK, Unchanged, Ob, Dim

\* A worker that does not merge has changed the structure, and goes on.
LEMMA BecomeOK ==
  ASSUME IInv, NEW t \in Thread, NEW r, NEW s, Become(t, r, s), world' = world, RestOK',
         th[t].task \notin {"merging", "merge"}, r.task = "idle" \/ r.task = th[t].task,
         NEW m2, meaning' = m2, Above(world, meaning, struct, m2, s.struct), StateOK(world, m2, Hands, s),
         WorkerOK(world, Certificate(world), m2, s.struct, r)
  PROVE  IInv'
<1>1. PICK w, cert : w = world /\ cert = Certificate(world)
  OBVIOUS
<1>2. world' = w /\ Certificate(world)' = cert
  BY <1>1
<1>3. struct' = s.struct /\ events' = s.events /\ merges' = s.merges
  BY DEF Become
<1>4. State' = s
  BY <1>3 DEF State, StateOK, Shaped
<1>5. PICK same : same = (s.struct = struct)
  OBVIOUS
<1>6. DOMAIN th' = Thread
  BY DEF Become
<1>7. ASSUME NEW u \in Thread
      PROVE  \E b : th'[u] = [IF u = t THEN r ELSE th[u] EXCEPT !.undisturbed = b]
  <2>1. th'[u] = [IF u = t THEN r ELSE th[u] EXCEPT !.undisturbed = @ /\ same]
    BY <1>5 DEF Become
  <2>2. PICK q : q = IF u = t THEN r ELSE th[u]
    OBVIOUS
  <2>3. PICK b : b = (q.undisturbed /\ same)
    OBVIOUS
  <2>4. th'[u] = [q EXCEPT !.undisturbed = b]
    BY <2>1, <2>2, <2>3
  <2> QED
    BY <2>2, <2>4
<1>8. Above(w, m2, s.struct, m2, s.struct)
  BY DEF Above
<1>9. ASSUME NEW u \in Thread
      PROVE  /\ WorkerOK(w, cert, m2, s.struct, th'[u])
             /\ u # t => th'[u].task = th[u].task /\ th'[u].args = th[u].args
             /\ th'[t].task = r.task
  <2>1. PICK b : th'[u] = [IF u = t THEN r ELSE th[u] EXCEPT !.undisturbed = b]
    BY <1>7
  <2>2. CASE u = t
    <3>1. th'[u] = [r EXCEPT !.undisturbed = b]
      BY <2>1, <2>2
    <3>2. WorkerOK(w, cert, m2, s.struct, r) /\ Fields(r)
      BY <1>1 DEF WorkerOK
    <3>3. WorkerOK(w, cert, m2, s.struct, th'[u])
      BY <1>8, <3>1, <3>2, WorkerAbove
    <3>4. th'[u].task = r.task
      BY <3>1, <3>2 DEF Fields
    <3> QED
      BY <2>2, <3>3, <3>4
  <2>3. CASE u # t
    <3>1. th'[u] = [th[u] EXCEPT !.undisturbed = b]
      BY <2>1, <2>3
    <3>2. WorkerOK(w, cert, meaning, struct, th[u])
      BY <1>1 DEF IInv
    <3>3. WorkerOK(w, cert, m2, s.struct, th'[u])
      <4>1. PICK q, q2, str2 : q = th[u] /\ q2 = th'[u] /\ str2 = s.struct
        OBVIOUS
      <4>2. Above(w, meaning, struct, m2, str2)
        BY <1>1, <4>1
      <4>3. q2 = [q EXCEPT !.undisturbed = b] /\ WorkerOK(w, cert, meaning, struct, q)
        BY <3>1, <3>2, <4>1
      <4>4. WorkerOK(w, cert, m2, str2, q2)
        BY <4>2, <4>3, WorkerAbove
      <4> QED
        BY <4>1, <4>4
    <3>4. th'[u].task = th[u].task /\ th'[u].args = th[u].args
      BY <3>1, <3>2 DEF WorkerOK, Fields
    <3>5. PICK bt : th'[t] = [IF t = t THEN r ELSE th[t] EXCEPT !.undisturbed = bt]
      BY <1>7
    <3>6. th'[t] = [r EXCEPT !.undisturbed = bt]
      BY <3>5
    <3>7. th'[t].task = r.task
      BY <3>6 DEF WorkerOK, Fields
    <3> QED
      BY <3>3, <3>4, <3>7
  <2> QED
    BY <2>2, <2>3
<1>10. th'[t].task = r.task /\ r.task \notin {"merging", "merge"}
  BY <1>9
<1>11. Merging' = Merging
  BY <1>9, <1>10 DEF Merging
<1>12. \A u \in Merging : u # t /\ u \in Thread /\ th'[u].args = th[u].args
  BY <1>9 DEF Merging
<1>13. Hands' = Hands
  BY <1>11, <1>12 DEF Hands
<1>14. StateOK(world, meaning, Hands, State)'
  BY <1>1, <1>2, <1>4, <1>13
<1>15. \A u \in Thread : WorkerOK(world, Certificate(world), meaning, struct, th[u])'
  BY <1>2, <1>3, <1>9
<1>16. \A u, v \in Merging' : u # v => th'[u].args[1] # th'[v].args[1]
  BY <1>11, <1>12 DEF IInv
<1>17. (\E u \in Thread : th'[u].task = "merge")
         => \A u \in Thread : th'[u].task \in {"idle", "merging", "merge"}
  <2>1. ASSUME NEW u \in Thread, th'[u].task = "merge"
        PROVE  \A v \in Thread : th'[v].task \in {"idle", "merging", "merge"}
    <3>1. u # t /\ th[u].task = "merge"
      BY <1>9, <1>10, <2>1
    <3>2. \A v \in Thread : th[v].task \in {"idle", "merging", "merge"}
      BY <3>1 DEF IInv
    <3>3. th'[t].task = "idle"
      BY <1>10, <3>2
    <3> QED
      BY <1>9, <3>2, <3>3
  <2> QED
    BY <2>1
<1> QED
  BY <1>6, <1>14, <1>15, <1>16, <1>17 DEF IInv, RestOK

\* The structure, as operations take it.
LEMMA StateIs ==
  /\ State.struct = struct /\ State.events = events /\ State.merges = merges
BY DEF State

\* A worker has executed an instruction, which the structure can have grown by.
LEMMA InstructionOK ==
  ASSUME IInv, NEW t \in Thread, Runs(th[t]), NEW r, NEW s, Become(t, r, s), Unchanged,
         Grows(world, meaning, Hands, State, s),
         Resumes(world, Certificate(world), meaning, s.struct, th[t], r)
  PROVE  IInv'
<1>1. PICK w, cert, m, str2, q : /\ w = world /\ cert = Certificate(world) /\ m = meaning
                                 /\ str2 = s.struct /\ q = th[t]
  OBVIOUS
<1>2. Above(w, m, struct, m, str2)
  BY <1>1, StateIs DEF Grows, Above
<1>3. StateOK(world, m, Hands, s)
  BY <1>1 DEF Grows
<1>4. WorkerOK(w, cert, m, struct, q)
  BY <1>1 DEF IInv
<1>5. WorkerOK(w, cert, m, str2, q)
  <2>1. PICK b : b = q.undisturbed
    OBVIOUS
  <2>2. q = [q EXCEPT !.undisturbed = b]
    BY <1>4, <2>1 DEF WorkerOK, Fields
  <2> QED
    BY <1>2, <1>4, <2>2, WorkerAbove
<1>6. WorkerOK(w, cert, m, str2, r)
  <2>1. Runs(q) /\ Resumes(w, cert, m, str2, q, r)
    BY <1>1
  <2> QED
    BY <1>5, <2>1, ResumeWorker
<1>7. th[t].task \notin {"merging", "merge"} /\ r.task = th[t].task
  BY DEF Runs, Resumes
<1>8. world' = world /\ meaning' = m /\ RestOK'
  BY <1>1, RestKeeps DEF Unchanged
<1>9. Above(world, meaning, struct, m, s.struct) /\ WorkerOK(world, Certificate(world), m, s.struct, r)
  BY <1>1, <1>2, <1>6
<1> QED
  BY <1>3, <1>7, <1>8, <1>9, BecomeOK

\* A worker has executed an instruction that leaves the structure as it is.
LEMMA ContinueOK ==
  ASSUME IInv, NEW t \in Thread, Runs(th[t]), NEW r, Continue(t, r), Unchanged,
         Resumes(world, Certificate(world), meaning, struct, th[t], r)
  PROVE  IInv'
<1>1. Grows(world, meaning, Hands, State, State)
  BY DEF IInv, Grows
<1>2. PICK s : s = State
  OBVIOUS
<1>3. /\ Become(t, r, s) /\ Grows(world, meaning, Hands, State, s)
      /\ Resumes(world, Certificate(world), meaning, s.struct, th[t], r)
  BY <1>1, <1>2, StateIs DEF Continue
<1> QED
  BY <1>3, InstructionOK

\* What the frames of a worker allow.
LEMMA BackIs ==
  ASSUME IInv, NEW r, NEW c, NEW bs, Running(r, c, bs), NEW s, Grows(world, meaning, Hands, State, s)
  PROVE  Resumes(world, Certificate(world), meaning, s.struct, r, Back(r, s))
<1>1. PICK w, cert, m, str2 : w = world /\ cert = Certificate(world) /\ m = meaning /\ str2 = s.struct
  OBVIOUS
<1>2. IsModel(w) /\ w.dim \in Nat
  BY <1>1, WorldIs DEF WorldOK
<1>3. StateOK(w, m, Hands, s)
  BY <1>1 DEF Grows
<1>4. Fields(r) /\ FramesOK(w, cert, m, struct, r.program, r.obs, r.sets, bs, r.frames)
  BY <1>1 DEF Running, Stands
<1>5. Above(w, m, struct, m, str2)
  BY <1>1, StateIs DEF Grows, Above
<1>6. FramesOK(w, cert, m, str2, r.program, r.obs, r.sets, bs, r.frames)
  BY <1>4, <1>5, FramesAbove
<1>7. FramesOK(w, cert, m, s.struct, r.program, r.obs, r.sets, bs, r.frames)
  BY <1>1, <1>6
<1>8. Resumes(w, cert, m, s.struct, r, Back(r, s))
  BY <1>2, <1>3, <1>4, <1>7, BackOK
<1> QED
  BY <1>1, <1>8

\* Back, with the structure as it is.
LEMMA BackHere ==
  ASSUME IInv, NEW r, NEW c, NEW bs, Running(r, c, bs)
  PROVE  Resumes(world, Certificate(world), meaning, struct, r, Back(r, State))
<1>1. PICK s : s = State
  OBVIOUS
<1>2. Grows(world, meaning, Hands, State, s)
  BY <1>1 DEF IInv, Grows
<1>3. Resumes(world, Certificate(world), meaning, s.struct, r, Back(r, s))
  BY <1>2, BackIs
<1> QED
  BY <1>1, <1>3, StateIs

\* A loop begins.
LEMMA LoopIs ==
  ASSUME IInv, NEW r, NEW c, NEW bs, Running(r, c, bs), NEW n, NEW left,
         NEW f, f = [at |-> r.at + 1, args |-> Args(r), table |-> n, left |-> left],
         FrameOK(world, Certificate(world), meaning, struct, r.program, r.obs, r.sets, Scope(c), f)
  PROVE  Resumes(world, Certificate(world), meaning, struct, r, Loop(r, n, left))
<1>1. PICK w, cert, m, s : w = world /\ cert = Certificate(world) /\ m = meaning /\ s = State
  OBVIOUS
<1>2. IsModel(w) /\ w.dim \in Nat /\ s.struct = struct /\ StateOK(w, m, Hands, s)
  BY <1>1, WorldIs, StateIs DEF WorldOK, IInv
<1>3. Fields(r) /\ Stands(w, cert, m, s.struct, r, c, bs)
  BY <1>1, <1>2 DEF Running
<1>4. FrameOK(w, cert, m, s.struct, r.program, r.obs, r.sets, Scope(c), f)
  BY <1>1, <1>2
<1>5. PICK r2 : r2 = [r EXCEPT !.frames = Append(@, f)]
  OBVIOUS
<1>6. Resumes(w, cert, m, s.struct, r, Back(r2, s))
  BY <1>2, <1>3, <1>4, <1>5, LoopOK
<1>7. Loop(r, n, left) = Back(r2, s)
  BY <1>1, <1>5 DEF Loop
<1> QED
  BY <1>1, <1>2, <1>6, <1>7

\* A worker that executes an instruction is at a place of the certificate.
LEMMA RunsAt ==
  ASSUME IInv, NEW t \in Thread, NEW op, Executes(t, op)
  PROVE  /\ Unchanged /\ Runs(th[t]) /\ Line(th[t]).op = op
         /\ \E c, bs : Running(th[t], c, bs)
<1>1. PICK c, bs : Running(th[t], c, bs)
  BY RunningOK DEF Executes
<1> QED
  BY <1>1 DEF Executes, Running

\* What the invariant says of the structure.
LEMMA StructIs ==
  ASSUME IInv
  PROVE  /\ RepsOK(world, meaning, struct) /\ TablesOK(world, meaning, struct)
         /\ StateOK(world, meaning, Hands, State)
BY StateIs DEF IInv, StateOK

\* FOR.
LEMMA ForStep ==
  ASSUME IInv, NEW t \in Thread, For(t)
  PROVE  IInv'
<1>1. Executes(t, "FOR") /\ Continue(t, Loop(th[t], Table(th[t]), Matches(th[t])))
  BY DEF For
<1>2. Unchanged /\ Runs(th[t]) /\ Line(th[t]).op = "FOR"
  BY <1>1, RunsAt
<1>3. PICK c, bs : Running(th[t], c, bs)
  BY <1>1, RunsAt
<1>4. PICK r, line, n, left, w, cert, m :
        /\ r = th[t] /\ line = LineAt(world, c) /\ n = line.tables[1] /\ left = Matches(r)
        /\ w = world /\ cert = Certificate(world) /\ m = meaning
  OBVIOUS
<1>5. Line(r) = line /\ Args(r) = line.args /\ Table(r) = n /\ line.op = "FOR"
  BY <1>2, <1>3, <1>4 DEF Running, Args, Table
<1>6. left = {u \in struct.table[n] :
                \A i \in Positions(line.args, "old") : u[i] = r.obs[line.args[i][2]]}
  BY <1>4, <1>5 DEF Matches, Val
<1>7. PICK f : f = [at |-> r.at + 1, args |-> line.args, table |-> n, left |-> left]
  OBVIOUS
<1>8. FrameOK(w, cert, m, struct, r.program, r.obs, r.sets, Scope(c), f)
  <2>1. IsModel(w) /\ TablesOK(w, m, struct)
    BY <1>4, WorldIs, StructIs DEF WorldOK
  <2>2. Stands(w, cert, m, struct, r, c, bs) /\ Executable(w, c) /\ Successors(w, c) \subseteq cert.places
    BY <1>3, <1>4 DEF Running
  <2>3. line = LineAt(w, c) /\ n = line.tables[1]
    BY <1>4
  <2>4. line.op = "FOR"
    BY <1>5
  <2> QED
    BY <1>6, <1>7, <2>1, <2>2, <2>3, <2>4, ForFrame
<1>9. Resumes(world, Certificate(world), meaning, struct, r, Loop(r, n, left))
  BY <1>3, <1>4, <1>5, <1>7, <1>8, LoopIs
<1> QED
  BY <1>1, <1>2, <1>4, <1>5, <1>9, ContinueOK

\* FOR_ALL.
LEMMA ForAllStep ==
  ASSUME IInv, NEW t \in Thread, ForAll(t)
  PROVE  IInv'
<1>1. Executes(t, "FOR_ALL") /\ Continue(t, Loop(th[t], "", {<<x>> : x \in struct.support}))
  BY DEF ForAll
<1>2. Unchanged /\ Runs(th[t]) /\ Line(th[t]).op = "FOR_ALL"
  BY <1>1, RunsAt
<1>3. PICK c, bs : Running(th[t], c, bs)
  BY <1>1, RunsAt
<1>4. PICK r, line, w, cert, m :
        /\ r = th[t] /\ line = LineAt(world, c)
        /\ w = world /\ cert = Certificate(world) /\ m = meaning
  OBVIOUS
<1>5. PICK n : n = ""
  OBVIOUS
<1>6. PICK left : left = {<<x>> : x \in struct.support}
  OBVIOUS
<1>7. Line(r) = line /\ Args(r) = line.args /\ line.op = "FOR_ALL"
  BY <1>2, <1>3, <1>4 DEF Running, Args
<1>8. \A u \in left : \E x \in struct.support : u = One(x)
  BY <1>6 DEF One
<1>9. PICK f : f = [at |-> r.at + 1, args |-> line.args, table |-> n, left |-> left]
  OBVIOUS
<1>10. FrameOK(w, cert, m, struct, r.program, r.obs, r.sets, Scope(c), f)
  <2>1. RepsOK(w, m, struct)
    BY <1>4, StructIs
  <2>2. Stands(w, cert, m, struct, r, c, bs) /\ Executable(w, c) /\ Successors(w, c) \subseteq cert.places
    BY <1>3, <1>4 DEF Running
  <2>3. line = LineAt(w, c)
    BY <1>4
  <2>4. NoTable(n)
    BY <1>5 DEF NoTable
  <2> QED
    BY <1>7, <1>8, <1>9, <2>1, <2>2, <2>3, <2>4, ForAllFrame
<1>11. Resumes(world, Certificate(world), meaning, struct, r, Loop(r, n, left))
  <2>1. Running(r, c, bs) /\ f = [at |-> r.at + 1, args |-> Args(r), table |-> n, left |-> left]
    BY <1>3, <1>4, <1>7, <1>9
  <2>2. FrameOK(world, Certificate(world), meaning, struct, r.program, r.obs, r.sets, Scope(c), f)
    BY <1>4, <1>10
  <2> QED
    BY <2>1, <2>2, LoopIs
<1>12. Continue(t, Loop(r, n, left))
  BY <1>1, <1>4, <1>5, <1>6
<1> QED
  BY <1>2, <1>4, <1>11, <1>12, ContinueOK

\* FOR_SETS: also the members of sets that are excluded are not wrong to leave out.
LEMMA ForSetsStep ==
  ASSUME IInv, NEW t \in Thread, ForSets(t)
  PROVE  IInv'
<1>1. Executes(t, "FOR_SETS") /\ Continue(t, Loop(th[t], "", {<<x>> : x \in Intersection(th[t])}))
  BY DEF ForSets
<1>2. Unchanged /\ Runs(th[t]) /\ Line(th[t]).op = "FOR_SETS"
  BY <1>1, RunsAt
<1>3. PICK c, bs : Running(th[t], c, bs)
  BY <1>1, RunsAt
<1>4. PICK r, line, w, cert, m :
        /\ r = th[t] /\ line = LineAt(world, c)
        /\ w = world /\ cert = Certificate(world) /\ m = meaning
  OBVIOUS
<1>5. PICK n : n = ""
  OBVIOUS
<1>6. PICK left, I : left = {<<x>> : x \in I} /\ I = Intersection(r)
  OBVIOUS
<1>7. Line(r) = line /\ Args(r) = line.args /\ line.op = "FOR_SETS"
  BY <1>2, <1>3, <1>4 DEF Running, Args
<1>8. \A u \in left : \E x \in struct.support :
        /\ u = One(x)
        /\ \A i \in Positions(line.args, "pos") : x \in Members(r.sets[line.args[i][2]])
  <2>1. ASSUME NEW x \in I
        PROVE  /\ x \in struct.support
               /\ \A i \in Positions(line.args, "pos") : x \in Members(r.sets[line.args[i][2]])
    <3>1. x \in struct.support /\ \A S \in Sets(r, "pos") : x \in S
      BY <1>6 DEF Intersection
    <3> QED
      BY <1>7, <3>1 DEF Sets
  <2> QED
    BY <1>6, <2>1 DEF One
<1>9. PICK f : f = [at |-> r.at + 1, args |-> line.args, table |-> n, left |-> left]
  OBVIOUS
<1>10. FrameOK(w, cert, m, struct, r.program, r.obs, r.sets, Scope(c), f)
  <2>1. RepsOK(w, m, struct) /\ TablesOK(w, m, struct)
    BY <1>4, StructIs
  <2>2. Stands(w, cert, m, struct, r, c, bs) /\ Executable(w, c) /\ Successors(w, c) \subseteq cert.places
    BY <1>3, <1>4 DEF Running
  <2>3. line = LineAt(w, c)
    BY <1>4
  <2>4. NoTable(n)
    BY <1>5 DEF NoTable
  <2> QED
    BY <1>7, <1>8, <1>9, <2>1, <2>2, <2>3, <2>4, ForSetsFrame
<1>11. Resumes(world, Certificate(world), meaning, struct, r, Loop(r, n, left))
  <2>1. Running(r, c, bs) /\ f = [at |-> r.at + 1, args |-> Args(r), table |-> n, left |-> left]
    BY <1>3, <1>4, <1>7, <1>9
  <2>2. FrameOK(world, Certificate(world), meaning, struct, r.program, r.obs, r.sets, Scope(c), f)
    BY <1>4, <1>10
  <2> QED
    BY <2>1, <2>2, LoopIs
<1>12. Continue(t, Loop(r, n, left))
  BY <1>1, <1>4, <1>5, <1>6
<1> QED
  BY <1>2, <1>4, <1>11, <1>12, ContinueOK

\* SEQUENCE.
LEMMA SequenceStep ==
  ASSUME IInv, NEW t \in Thread, Sequence(t)
  PROVE  IInv'
<1>1. Executes(t, "SEQUENCE")
  BY DEF Sequence
<1>2. Unchanged /\ Runs(th[t]) /\ Line(th[t]).op = "SEQUENCE"
  BY <1>1, RunsAt
<1>3. PICK c, bs : Running(th[t], c, bs)
  BY <1>1, RunsAt
<1>4. PICK r, line, w, cert, m, at, n, none, left :
        /\ r = th[t] /\ line = LineAt(world, c)
        /\ w = world /\ cert = Certificate(world) /\ m = meaning
        /\ at = Jump(Code(r.program), r.at) /\ n = "" /\ none = <<>> /\ left = {<<>>}
  OBVIOUS
<1>5. PICK f, r1, r2 : /\ f = [at |-> at, args |-> none, table |-> n, left |-> left]
                       /\ r1 = [r EXCEPT !.frames = Append(@, f)]
                       /\ r2 = [r1 EXCEPT !.at = @ + 1]
  OBVIOUS
<1>6. Continue(t, r2)
  <2>1. Continue(t, Into([r EXCEPT !.frames = Append(@, [at |-> at, args |-> <<>>, table |-> "", left |-> {<<>>}])]))
    BY <1>4 DEF Sequence
  <2>2. Continue(t, Into(r1))
    BY <1>4, <1>5, <2>1
  <2> QED
    BY <1>5, <2>2 DEF Into
<1>7. Line(r) = line /\ line.op = "SEQUENCE" /\ c.program = r.program /\ c.at = r.at
  BY <1>2, <1>3, <1>4 DEF Running, Stands
<1>8. /\ Fields(r) /\ Stands(w, cert, m, struct, r, c, bs) /\ Executable(w, c)
      /\ Successors(w, c) \subseteq cert.places /\ line = LineAt(w, c)
  BY <1>3, <1>4 DEF Running
<1>9. PICK c2 : c2 = After(c, line, none)
  OBVIOUS
<1>10. none \in Found(w, c)
  BY <1>4, <1>7, <1>8 DEF Found
<1>11. c2 \in cert.places
  BY <1>8, <1>9, <1>10 DEF Successors
<1>12. Rejoining(c, at) \in cert.places
  <2>1. at = Jump(w.programs[c.program].code, c.at)
    BY <1>4, <1>7 DEF Code
  <2>2. Rejoining(c, Jump(w.programs[c.program].code, c.at)) \in Successors(w, c)
    BY <1>7, <1>8 DEF Successors
  <2> QED
    BY <1>8, <2>1, <2>2
<1>13. Positions(line.args, "new") = {}
  BY <1>7, <1>8 DEF Executable
<1>14. SetsAfter(c, line) = c.sets /\ KnownAfter(c, line) = c.known
  BY <1>7 DEF SetsAfter, KnownAfter
<1>15. FrameOK(w, cert, m, struct, r.program, r.obs, r.sets, Scope(c), f)
  <2>1. NoTable(n) /\ \A u \in left : u = <<>>
    BY <1>4 DEF NoTable
  <2>2. none = <<>>
    BY <1>4
  <2> QED
    BY <1>5, <1>8, <1>12, <2>1, <2>2, BranchFrame
<1>16. Resumes(w, cert, m, struct, r, r2)
  BY <1>5, <1>8, <1>9, <1>11, <1>13, <1>14, <1>15, SequenceOK
<1>17. Resumes(world, Certificate(world), meaning, struct, th[t], r2)
  BY <1>4, <1>16
<1> QED
  BY <1>2, <1>6, <1>17, ContinueOK

\* LETS.
LEMMA LetsStep ==
  ASSUME IInv, NEW t \in Thread, Lets(t)
  PROVE  IInv'
<1>1. Executes(t, "LETS")
  BY DEF Lets
<1>2. Unchanged /\ Runs(th[t]) /\ Line(th[t]).op = "LETS"
  BY <1>1, RunsAt
<1>3. PICK c, bs : Running(th[t], c, bs)
  BY <1>1, RunsAt
<1>4. PICK r, line, w, cert, m, none :
        /\ r = th[t] /\ line = LineAt(world, c)
        /\ w = world /\ cert = Certificate(world) /\ m = meaning /\ none = <<>>
  OBVIOUS
<1>5. /\ Line(r) = line /\ line.op = "LETS" /\ Args(r) = line.args /\ Table(r) = line.tables[1]
  BY <1>2, <1>3, <1>4 DEF Running, Args, Table
<1>6. PICK h, reg : h = Only(Positions(line.args, "newset")) /\ reg = line.args[h][2]
  OBVIOUS
<1>7. PICK set : set = SetFor(line, h, r.obs)
  OBVIOUS
<1>8. PICK sets : sets = SetsWith(r.sets, reg, set)
  OBVIOUS
<1>9. PICK r2 : r2 = Puts(r, sets)
  OBVIOUS
<1>10. /\ Fields(r) /\ Stands(w, cert, m, struct, r, c, bs) /\ Executable(w, c)
       /\ Successors(w, c) \subseteq cert.places /\ line = LineAt(w, c)
  BY <1>3, <1>4 DEF Running
<1>11. LineOf(r) = set
  BY <1>5, <1>6, <1>7 DEF LineOf, Val, SetFor
<1>12. Continue(t, r2)
  <2>1. Continue(t, Into([r EXCEPT !.sets = [x \in DOMAIN @ \cup {reg} |-> IF x = reg THEN LineOf(r) ELSE @[x]]]))
    BY <1>4, <1>5, <1>6 DEF Lets
  <2>2. PICK r1 : r1 = [r EXCEPT !.sets = sets]
    OBVIOUS
  <2>3. [r EXCEPT !.sets = [x \in DOMAIN @ \cup {reg} |-> IF x = reg THEN LineOf(r) ELSE @[x]]] = r1
    BY <1>8, <1>11, <2>2 DEF SetsWith
  <2>4. Into(r1) = r2
    BY <1>9, <1>10, <2>2 DEF Into, Fields, Puts
  <2> QED
    BY <2>1, <2>3, <2>4
<1>13. PICK c2 : c2 = After(c, line, none)
  OBVIOUS
<1>14. none \in Found(w, c)
  BY <1>4, <1>5, <1>10 DEF Found
<1>15. c2 \in cert.places
  BY <1>10, <1>13, <1>14 DEF Successors
<1>16. Resumes(w, cert, m, struct, r, r2)
  BY <1>5, <1>6, <1>7, <1>8, <1>9, <1>10, <1>13, <1>15, LetsOK
<1>17. Resumes(world, Certificate(world), meaning, struct, th[t], r2)
  BY <1>4, <1>16
<1> QED
  BY <1>2, <1>12, <1>17, ContinueOK

\* A condition of a program: on to the next line or back.
LEMMA IfStep ==
  ASSUME IInv, NEW t \in Thread, NEW op \in {"IF", "IF_EQUAL", "IF_BLOCK"}, Executes(t, op),
         NEW condition, Continue(t, If(th[t], condition)),
         condition => \A c, bs : Running(th[t], c, bs) => \E e : e \in Found(world, c)
  PROVE  IInv'
<1>1. Unchanged /\ Runs(th[t]) /\ Line(th[t]).op = op
  BY RunsAt
<1>2. PICK c, bs : Running(th[t], c, bs)
  BY RunsAt
<1>3. PICK r, r2 : r = th[t] /\ r2 = If(r, condition)
  OBVIOUS
<1>4. Resumes(world, Certificate(world), meaning, struct, r, r2)
  <2>1. CASE condition
    <3>1. r2 = [r EXCEPT !.at = @ + 1]
      BY <1>3, <2>1 DEF If, Into
    <3>2. PICK e : e \in Found(world, c)
      BY <1>2, <2>1
    <3>3. PICK line, w, cert, m : /\ line = LineAt(world, c)
                                  /\ w = world /\ cert = Certificate(world) /\ m = meaning
      OBVIOUS
    <3>4. PICK c2 : c2 = After(c, line, e)
      OBVIOUS
    <3>5. /\ Fields(r) /\ Stands(w, cert, m, struct, r, c, bs) /\ Executable(w, c)
          /\ Successors(w, c) \subseteq cert.places /\ line = LineAt(w, c) /\ line.op = op
      BY <1>1, <1>2, <1>3, <3>3 DEF Running
    <3>6. c2 \in cert.places
      BY <3>2, <3>3, <3>4, <3>5 DEF Successors
    <3>7. Positions(line.args, "new") = {}
      BY <3>5 DEF Executable
    <3>8. SetsAfter(c, line) = c.sets /\ KnownAfter(c, line) = c.known
      BY <3>5 DEF SetsAfter, KnownAfter
    <3>9. Resumes(w, cert, m, struct, r, r2)
      BY <3>1, <3>4, <3>5, <3>6, <3>7, <3>8, NextLineOK
    <3> QED
      BY <3>3, <3>9
  <2>2. CASE ~ condition
    <3>1. r2 = Back(r, State)
      BY <1>3, <2>2 DEF If
    <3>2. Running(r, c, bs)
      BY <1>2, <1>3
    <3> QED
      BY <3>1, <3>2, BackHere
  <2> QED
    BY <2>1, <2>2
<1> QED
  BY <1>1, <1>3, <1>4, ContinueOK

\* An entry that a line finds is one that it finds in the model.
LEMMA FoundOK ==
  ASSUME NEW w, NEW m, NEW str, TablesOK(w, m, str), NEW c, NEW obs, NEW sets, Fits(w, m, str, c, obs, sets),
         Executable(w, c), NEW line, line = LineAt(w, c), line.op \in {"FOR", "LET", "IF"},
         NEW n, n = line.tables[1], NEW u \in str.table[n],
         \A i \in Positions(line.args, "old") : u[i] = obs[line.args[i][2]]
  PROVE  /\ True(w, m, str, n, u) /\ n \in DOMAIN w.model /\ DOMAIN line.args \subseteq DOMAIN u
         /\ Image(m, u) \in Found(w, c)
<1>1. n \in DOMAIN w.model /\ \A e \in w.model[n] : DOMAIN line.args \subseteq DOMAIN e
  BY DEF Executable
<1>2. True(w, m, str, n, u)
  BY <1>1 DEF TablesOK
<1>3. u \in Seq(str.support) /\ Image(m, u) \in w.model[n]
  BY <1>2 DEF True
<1>4. PICK e : e = Image(m, u)
  OBVIOUS
<1>5. DOMAIN e = DOMAIN u /\ \A i \in DOMAIN u : e[i] = m[u[i]]
  BY <1>3, <1>4, ImageIs
<1>6. DOMAIN line.args \subseteq DOMAIN u
  BY <1>1, <1>3, <1>4, <1>5
<1>7. ASSUME NEW i \in Positions(line.args, "old") PROVE e[i] = c.obs[line.args[i][2]]
  <2>1. line.args[i][2] \in DOMAIN c.obs /\ i \in DOMAIN u
    BY <1>6 DEF Executable, Positions
  <2>2. m[obs[line.args[i][2]]] = c.obs[line.args[i][2]]
    BY <2>1 DEF Fits
  <2> QED
    BY <1>5, <2>1, <2>2
<1>8. e \in Found(w, c)
  BY <1>3, <1>4, <1>7 DEF Found
<1> QED
  BY <1>1, <1>2, <1>4, <1>6, <1>8

\* What a line that only reads registers reads.
Reads(w, m, str, c, args, vals) ==
  /\ vals \in Seq(str.support) /\ DOMAIN vals = DOMAIN args /\ Len(vals) = Len(args)
  /\ Image(m, vals) = [i \in DOMAIN args |-> c.obs[args[i][2]]]
  /\ \A i \in DOMAIN args : vals[i] \in str.support /\ m[vals[i]] = c.obs[args[i][2]]

\* What a line reads denotes what it reads in the model.
LEMMA ReadsOK ==
  ASSUME NEW w, NEW m, NEW str, NEW c, NEW obs, NEW sets, Fits(w, m, str, c, obs, sets),
         NEW args, args \in Seq(Range(args)), \A i \in DOMAIN args : args[i][2] \in DOMAIN c.obs,
         NEW vals, vals = [i \in DOMAIN args |-> obs[args[i][2]]]
  PROVE  Reads(w, m, str, c, args, vals)
<1>1. PICK S, n : S = str.support /\ n = Len(args)
  OBVIOUS
<1>2. n \in Nat /\ DOMAIN args = 1 .. n
  BY <1>1
<1>3. \A i \in DOMAIN args : vals[i] \in S /\ m[vals[i]] = c.obs[args[i][2]]
  BY <1>1 DEF Fits
<1>4. vals \in [1 .. n -> S]
  BY <1>2, <1>3
<1>5. vals \in Seq(S) /\ Len(vals) = n /\ DOMAIN vals = DOMAIN args
  BY <1>2, <1>4
<1>6. Image(m, vals) = [i \in DOMAIN args |-> c.obs[args[i][2]]]
  BY <1>3, <1>5 DEF Image
<1> QED
  BY <1>1, <1>3, <1>5, <1>6 DEF Reads

\* So it is for the lines that only read registers.
LEMMA ValsOK ==
  ASSUME NEW r, NEW c, NEW bs, Running(r, c, bs), Line(r).op \in {"IF_EQUAL", "INFER_EQUAL", "INFER", "INFER_PAIR"}
  PROVE  Reads(world, meaning, struct, c, Args(r), Vals(r))
<1>1. PICK args, vals, w, m : args = Args(r) /\ vals = Vals(r) /\ w = world /\ m = meaning
  OBVIOUS
<1>2. args = LineAt(w, c).args /\ LineAt(w, c).op \in {"IF_EQUAL", "INFER_EQUAL", "INFER", "INFER_PAIR"}
  BY <1>1 DEF Running, Args
<1>3. Executable(w, c) /\ Fits(w, m, struct, c, r.obs, r.sets)
  BY <1>1 DEF Running, Stands
<1>4. args \in Seq(Range(args)) /\ \A i \in DOMAIN args : args[i][2] \in DOMAIN c.obs
  BY <1>2, <1>3 DEF Executable, Positions
<1>5. vals = [i \in DOMAIN args |-> r.obs[args[i][2]]]
  BY <1>1 DEF Vals, Val
<1>6. Reads(w, m, struct, c, args, vals)
  BY <1>3, <1>4, <1>5, ReadsOK
<1> QED
  BY <1>1, <1>6

\* IF_BLOCK.
LEMMA IfBlockStep ==
  ASSUME IInv, NEW t \in Thread, IfBlock(t)
  PROVE  IInv'
<1>1. PICK op : op = "IF_BLOCK"
  OBVIOUS
<1>2. PICK condition : condition = (Val(th[t], 1) \div BlockSize = th[t].block)
  OBVIOUS
<1>3. Executes(t, op) /\ Continue(t, If(th[t], condition))
  BY <1>1, <1>2 DEF IfBlock
<1>4. Line(th[t]).op = op
  BY <1>3, RunsAt
<1>5. ASSUME NEW c, NEW bs, Running(th[t], c, bs) PROVE \E e : e \in Found(world, c)
  <2>1. LineAt(world, c).op = "IF_BLOCK"
    BY <1>1, <1>4, <1>5 DEF Running
  <2>2. <<>> \in Found(world, c)
    BY <2>1 DEF Found
  <2> QED
    BY <2>2
<1>6. op \in {"IF", "IF_EQUAL", "IF_BLOCK"}
  BY <1>1
<1> QED
  BY <1>3, <1>5, <1>6, IfStep

\* IF_EQUAL: what is one ob is one element.
LEMMA IfEqualStep ==
  ASSUME IInv, NEW t \in Thread, IfEqual(t)
  PROVE  IInv'
<1>1. PICK op : op = "IF_EQUAL"
  OBVIOUS
<1>2. PICK condition : condition = (Val(th[t], 1) = Val(th[t], 2))
  OBVIOUS
<1>3. Executes(t, op) /\ Continue(t, If(th[t], condition))
  BY <1>1, <1>2 DEF IfEqual
<1>4. Line(th[t]).op = op
  BY <1>3, RunsAt
<1>5. ASSUME condition, NEW c, NEW bs, Running(th[t], c, bs) PROVE \E e : e \in Found(world, c)
  <2>1. LineAt(world, c).op = "IF_EQUAL" /\ Line(th[t]) = LineAt(world, c)
    BY <1>1, <1>4, <1>5 DEF Running
  <2>2. PICK args : args = Args(th[t])
    OBVIOUS
  <2>3. args = LineAt(world, c).args
    BY <2>1, <2>2 DEF Args
  <2>4. Reads(world, meaning, struct, c, args, Vals(th[t]))
    BY <1>5, <2>1, <2>2, ValsOK
  <2>5. Len(args) = 2 /\ args \in Seq(Range(args))
    BY <1>5, <2>1, <2>3 DEF Running, Executable
  <2>6. 1 \in DOMAIN args /\ 2 \in DOMAIN args
    BY <2>5
  <2>7. Vals(th[t])[1] = Vals(th[t])[2]
    BY <1>2, <1>5, <2>2, <2>6 DEF Vals
  <2>8. c.obs[args[1][2]] = c.obs[args[2][2]]
    BY <2>4, <2>6, <2>7 DEF Reads
  <2>9. <<>> \in Found(world, c)
    BY <2>1, <2>3, <2>8 DEF Found
  <2> QED
    BY <2>9
<1>6. op \in {"IF", "IF_EQUAL", "IF_BLOCK"}
  BY <1>1
<1> QED
  BY <1>3, <1>5, <1>6, IfStep

\* IF.
LEMMA IfInStep ==
  ASSUME IInv, NEW t \in Thread, IfIn(t)
  PROVE  IInv'
<1>1. PICK op : op = "IF"
  OBVIOUS
<1>2. PICK condition : condition = (Matches(th[t]) # {})
  OBVIOUS
<1>3. Executes(t, op) /\ Continue(t, If(th[t], condition))
  BY <1>1, <1>2 DEF IfIn
<1>4. Line(th[t]).op = op
  BY <1>3, RunsAt
<1>5. ASSUME condition, NEW c, NEW bs, Running(th[t], c, bs) PROVE \E e : e \in Found(world, c)
  <2>1. PICK u : u \in Matches(th[t])
    BY <1>2, <1>5
  <2>2. PICK r, line, n, w, m : /\ r = th[t] /\ line = LineAt(world, c) /\ n = line.tables[1]
                                /\ w = world /\ m = meaning
    OBVIOUS
  <2>3. Line(r) = line /\ line.op \in {"FOR", "LET", "IF"}
    BY <1>1, <1>4, <1>5, <2>2 DEF Running
  <2>4. u \in struct.table[n] /\ \A i \in Positions(line.args, "old") : u[i] = r.obs[line.args[i][2]]
    BY <2>1, <2>2, <2>3 DEF Matches, Table, Args, Val
  <2>5. Fits(w, m, struct, c, r.obs, r.sets) /\ Executable(w, c)
    BY <1>5, <2>2 DEF Running, Stands
  <2>6. TablesOK(w, m, struct) /\ line = LineAt(w, c)
    BY <2>2, StructIs
  <2>7. Image(m, u) \in Found(w, c)
    BY <2>2, <2>3, <2>4, <2>5, <2>6, FoundOK
  <2> QED
    BY <2>2, <2>7
<1>6. op \in {"IF", "IF_EQUAL", "IF_BLOCK"}
  BY <1>1
<1> QED
  BY <1>3, <1>5, <1>6, IfStep

\* LET finds the value of which a FOR_SETS has found the key.
LEMMA LetFinds ==
  ASSUME IInv, NEW r, NEW c, NEW bs, Running(r, c, bs), Line(r).op = "LET"
  PROVE  Matches(r) # {}
<1>1. PICK line, n : line = LineAt(world, c) /\ n = line.tables[1]
  OBVIOUS
<1>2. Line(r) = line /\ line.op = "LET"
  BY <1>1 DEF Running
<1>3. Executable(world, c)
  BY DEF Running
<1>4. PICK k \in c.known : /\ k.table = n
                           /\ \A i \in Positions(line.args, "old") :
                                i \in DOMAIN k.from /\ k.from[i] = line.args[i][2]
  BY <1>1, <1>2, <1>3 DEF Executable
<1>5. KnownFits(world, struct, c, k, r.obs)
  BY DEF Running, Stands, Fits
<1>6. PICK v \in struct.table[n] : \A p \in DOMAIN k.from : p \in DOMAIN v /\ v[p] = r.obs[k.from[p]]
  BY <1>4, <1>5 DEF KnownFits
<1>7. \A i \in Positions(line.args, "old") : v[i] = r.obs[line.args[i][2]]
  BY <1>4, <1>6
<1>8. v \in Matches(r)
  BY <1>1, <1>2, <1>7 DEF Matches, Table, Args, Val
<1> QED
  BY <1>8

\* LET.
LEMMA LetStep ==
  ASSUME IInv, NEW t \in Thread, Let(t)
  PROVE  IInv'
<1>1. /\ Executes(t, "LET") /\ Matches(th[t]) # {}
      /\ Continue(t, Into([th[t] EXCEPT !.obs = Bound(@, Args(th[t]), Only(Matches(th[t])))]))
  BY DEF Let
<1>2. Unchanged /\ Runs(th[t]) /\ Line(th[t]).op = "LET"
  BY <1>1, RunsAt
<1>3. PICK c, bs : Running(th[t], c, bs)
  BY <1>1, RunsAt
<1>4. PICK r, line, n, w, cert, m, u :
        /\ r = th[t] /\ line = LineAt(world, c) /\ n = line.tables[1]
        /\ w = world /\ cert = Certificate(world) /\ m = meaning /\ u = Only(Matches(r))
  OBVIOUS
<1>5. Line(r) = line /\ Args(r) = line.args /\ Table(r) = n /\ line.op = "LET"
  BY <1>2, <1>3, <1>4 DEF Running, Args, Table
<1>6. PICK o2, at : o2 = Bound(r.obs, line.args, u) /\ at = r.at + 1
  OBVIOUS
<1>7. PICK r1, r2 : r1 = [r EXCEPT !.obs = o2] /\ r2 = [r1 EXCEPT !.at = @ + 1]
  OBVIOUS
<1>8. Continue(t, r2)
  <2>1. Continue(t, Into([r EXCEPT !.obs = Bound(@, line.args, u)]))
    BY <1>1, <1>4, <1>5
  <2>2. [r EXCEPT !.obs = Bound(@, line.args, u)] = r1
    BY <1>6, <1>7
  <2> QED
    BY <1>7, <2>1, <2>2 DEF Into
<1>9. /\ Fields(r) /\ Stands(w, cert, m, struct, r, c, bs) /\ Executable(w, c)
      /\ Successors(w, c) \subseteq cert.places /\ line = LineAt(w, c)
  BY <1>3, <1>4 DEF Running
<1>10. u \in Matches(r)
  BY <1>1, <1>4, OnlyIs
<1>11. u \in struct.table[n] /\ \A i \in Positions(line.args, "old") : u[i] = r.obs[line.args[i][2]]
  BY <1>5, <1>10 DEF Matches, Val
<1>12. True(w, m, struct, n, u) /\ DOMAIN line.args \subseteq DOMAIN u /\ Image(m, u) \in Found(w, c)
  <2>1. Fits(w, m, struct, c, r.obs, r.sets) /\ TablesOK(w, m, struct)
    BY <1>4, <1>9, StructIs DEF Stands
  <2>2. line.op \in {"FOR", "LET", "IF"}
    BY <1>5
  <2> QED
    BY <1>4, <1>9, <1>11, <2>1, <2>2, FoundOK
<1>13. PICK c2 : c2 = After(c, line, Image(m, u))
  OBVIOUS
<1>14. c2 \in cert.places
  BY <1>9, <1>12, <1>13 DEF Successors
<1>15. /\ c2.program = r.program /\ c2.at = r.at + 1
       /\ c2.sets = c.sets /\ c2.known = c.known
       /\ Binds(w, m, struct, c, line.args, u, r.obs, c2, o2)
       /\ Fits(w, m, struct, c2, o2, r.sets)
  <2>1. u \in Seq(struct.support) /\ Positions(line.args, "new") \subseteq DOMAIN u
    BY <1>12 DEF True, Positions
  <2>2. line.op \notin {"LETS", "FOR_SETS"}
    BY <1>5
  <2> QED
    BY <1>6, <1>9, <1>13, <2>1, <2>2, AfterOK
<1>16. r2 = [r EXCEPT !.obs = o2, !.at = at]
  BY <1>6, <1>7, <1>9 DEF Fields
<1>17. /\ Fields(r2) /\ r2.task = r.task /\ r2.args = r.args /\ r2.todo = r.todo /\ r2.make = r.make
       /\ r2.program = r.program /\ r2.at = at /\ r2.obs = o2 /\ r2.sets = r.sets /\ r2.frames = r.frames
  BY <1>9, <1>16 DEF Fields
<1>18. Agree(r.obs, r2.obs, DOMAIN c.obs) /\ Agree(r.sets, r2.sets, DOMAIN c.sets)
  <2>1. \A x \in DOMAIN c.sets : x \in DOMAIN r.sets
    BY <1>9 DEF Stands, Fits
  <2> QED
    BY <1>15, <1>17, <2>1 DEF Binds, Agree
<1>19. Inside(Scope(c), Scope(c2))
  BY <1>15 DEF Binds, Inside, Scope
<1>20. c2.program = r.program /\ c2.at = r2.at /\ Fits(w, m, struct, c2, r2.obs, r2.sets)
  BY <1>6, <1>15, <1>17
<1>21. RunOK(w, cert, m, struct, r2)
  BY <1>9, <1>14, <1>17, <1>18, <1>19, <1>20, IntoOK
<1>22. Resumes(world, Certificate(world), meaning, struct, th[t], r2)
  BY <1>4, <1>17, <1>21 DEF Resumes
<1> QED
  BY <1>2, <1>8, <1>22, ContinueOK

\* INFER_EQUAL.
LEMMA InferEqualStep ==
  ASSUME IInv, NEW t \in Thread, InferEqual(t)
  PROVE  IInv'
<1>1. PICK r, s : r = th[t] /\ s = Merge(State, Val(r, 1), Val(r, 2))
  OBVIOUS
<1>2. Executes(t, "INFER_EQUAL") /\ Become(t, Back(r, s), s)
  BY <1>1 DEF InferEqual
<1>3. Unchanged /\ Runs(r) /\ Line(r).op = "INFER_EQUAL"
  BY <1>1, <1>2, RunsAt
<1>4. PICK c, bs : Running(r, c, bs)
  BY <1>1, <1>2, RunsAt
<1>5. PICK args, x, y : args = Args(r) /\ x = Val(r, 1) /\ y = Val(r, 2)
  OBVIOUS
<1>6. LineAt(world, c) = Line(r) /\ Executable(world, c) /\ Concludes(world, c)
  BY <1>4 DEF Running
<1>7. args = LineAt(world, c).args /\ LineAt(world, c).op = "INFER_EQUAL"
  BY <1>3, <1>5, <1>6 DEF Args
<1>8. Reads(world, meaning, struct, c, args, Vals(r))
  BY <1>3, <1>4, <1>5, ValsOK
<1>9. Len(args) = 2 /\ args \in Seq(Range(args))
  BY <1>6, <1>7 DEF Executable
<1>10. 1 \in DOMAIN args /\ 2 \in DOMAIN args
  BY <1>9
<1>11. Vals(r)[1] = x /\ Vals(r)[2] = y
  BY <1>5, <1>10 DEF Vals
<1>12. c.obs[args[1][2]] = c.obs[args[2][2]]
  BY <1>6, <1>7, <1>10 DEF Concludes
<1>13. x \in struct.support /\ y \in struct.support /\ meaning[x] = meaning[y]
  BY <1>8, <1>10, <1>11, <1>12 DEF Reads
<1>14. Grows(world, meaning, Hands, State, s)
  <2>1. PICK w, m, s0 : w = world /\ m = meaning /\ s0 = State
    OBVIOUS
  <2>2. StateOK(w, m, Hands, s0) /\ w.dim \in Nat
    BY <2>1, StructIs, WorldIs DEF WorldOK
  <2>3. x \in s0.struct.support /\ y \in s0.struct.support /\ m[x] = m[y]
    BY <1>13, <2>1, StateIs
  <2>4. Joins(w, m, Hands, s0, Merge(s0, x, y))
    BY <2>2, <2>3, MergeOK
  <2>5. Joins(w, m, Hands, s0, s)
    BY <1>1, <1>5, <2>1, <2>4
  <2>6. Grows(w, m, Hands, s0, s)
    BY <2>5 DEF Joins, Grows
  <2> QED
    BY <2>1, <2>6
<1>15. Resumes(world, Certificate(world), meaning, s.struct, r, Back(r, s))
  BY <1>4, <1>14, BackIs
<1> QED
  BY <1>1, <1>2, <1>3, <1>14, <1>15, InstructionOK

\* INFER.
LEMMA InferStep ==
  ASSUME IInv, NEW t \in Thread, Infer(t)
  PROVE  IInv'
<1>1. PICK r, s, n, u : /\ r = th[t] /\ s = Insert(State, Table(r), Vals(r))
                        /\ n = Table(r) /\ u = Vals(r)
  OBVIOUS
<1>2. Executes(t, "INFER") /\ Become(t, Back(r, s), s)
  BY <1>1 DEF Infer
<1>3. Unchanged /\ Runs(r) /\ Line(r).op = "INFER"
  BY <1>1, <1>2, RunsAt
<1>4. PICK c, bs : Running(r, c, bs)
  BY <1>1, <1>2, RunsAt
<1>5. PICK args, v : args = Args(r) /\ v = [i \in DOMAIN args |-> c.obs[args[i][2]]]
  OBVIOUS
<1>6. LineAt(world, c) = Line(r) /\ Concludes(world, c)
  BY <1>4 DEF Running
<1>7. args = LineAt(world, c).args /\ LineAt(world, c).op = "INFER" /\ n = LineAt(world, c).tables[1]
  BY <1>1, <1>3, <1>5, <1>6 DEF Args, Table
<1>8. Reads(world, meaning, struct, c, args, u)
  BY <1>1, <1>3, <1>4, <1>5, ValsOK
<1>9. n \in DOMAIN world.model /\ v \in world.model[n]
  BY <1>5, <1>6, <1>7 DEF Concludes
<1>10. True(world, meaning, struct, n, u)
  BY <1>5, <1>8, <1>9 DEF Reads, True
<1>11. Grows(world, meaning, Hands, State, s)
  <2>1. PICK w, m, s0 : w = world /\ m = meaning /\ s0 = State
    OBVIOUS
  <2>2. StateOK(w, m, Hands, s0) /\ w.dim \in Nat /\ IsModel(w)
    BY <2>1, StructIs, WorldIs DEF WorldOK
  <2>3. n \in DOMAIN w.model /\ True(w, m, s0.struct, n, u)
    BY <1>9, <1>10, <2>1, StateIs
  <2>4. Grows(w, m, Hands, s0, Insert(s0, n, u))
    BY <2>2, <2>3, InsertOK
  <2> QED
    BY <1>1, <2>1, <2>4
<1>12. Resumes(world, Certificate(world), meaning, s.struct, r, Back(r, s))
  BY <1>4, <1>11, BackIs
<1> QED
  BY <1>1, <1>2, <1>3, <1>11, <1>12, InstructionOK

\* A part of a sequence, and its image.
Parted(m, S, u, a, b, k) ==
  k \in Seq(S) /\ Image(m, k) = SubSeq(Image(m, u), a, b) /\ Len(k) = b - a + 1

\* A part of a sequence of obs.
LEMMA PartIs ==
  ASSUME NEW m, NEW S, NEW u, u \in Seq(S), NEW a \in Nat \ {0}, NEW b \in Nat, b <= Len(u), a <= b + 1,
         NEW k, k = SubSeq(u, a, b)
  PROVE  Parted(m, S, u, a, b, k)
<1>1. PICK n \in Nat : n = Len(u) /\ DOMAIN u = 1 .. n
  OBVIOUS
<1>2. PICK e : e = Image(m, u)
  OBVIOUS
<1>3. /\ DOMAIN e = 1 .. n /\ Len(e) = n
      /\ \A i \in 1 .. n : e[i] = m[u[i]]
  BY <1>1, <1>2, ImageIs
<1>4. b - a + 1 \in Nat /\ \A i \in 1 .. b - a + 1 : a + i - 1 \in 1 .. n
  BY <1>1
<1>5. /\ k \in Seq(S) /\ Len(k) = b - a + 1 /\ DOMAIN k = 1 .. b - a + 1
      /\ \A i \in 1 .. b - a + 1 : k[i] = u[a + i - 1]
  BY <1>1, <1>4
<1>6. \A i \in 1 .. b - a + 1 : m[k[i]] = e[a + i - 1]
  BY <1>3, <1>4, <1>5
<1>7. Image(m, k) = [i \in 1 .. b - a + 1 |-> e[a + i - 1]]
  BY <1>5, <1>6 DEF Image
<1>8. SubSeq(e, a, b) = [i \in 1 .. b - a + 1 |-> e[a + i - 1]]
  BY DEF SubSeq
<1> QED
  BY <1>2, <1>5, <1>7, <1>8 DEF Parted

\* Functions have at most two arguments.
LEMMA ArityIs ==
  ASSUME NEW n
  PROVE  Arity(n) \in 0 .. 2
BY DEF Arity

\* INFER_PAIR.
LEMMA InferPairStep ==
  ASSUME IInv, NEW t \in Thread, InferPair(t)
  PROVE  IInv'
<1>1. PICK r, f, g, u : /\ r = th[t] /\ f = Line(r).tables[1] /\ g = Line(r).tables[2] /\ u = Vals(r)
  OBVIOUS
<1>2. PICK key1, key2 : key1 = SubSeq(u, 1, Arity(f)) /\ key2 = SubSeq(u, Arity(f) + 1, Len(u))
  OBVIOUS
<1>3. PICK s : s = Paired(State, f, key1, g, key2)
  OBVIOUS
<1>4. Executes(t, "INFER_PAIR") /\ Become(t, Back(r, s), s)
  BY <1>1, <1>2, <1>3 DEF InferPair
<1>5. Unchanged /\ Runs(r) /\ Line(r).op = "INFER_PAIR"
  BY <1>1, <1>4, RunsAt
<1>6. PICK c, bs : Running(r, c, bs)
  BY <1>1, <1>4, RunsAt
<1>7. PICK w, m, line : w = world /\ m = meaning /\ line = LineAt(world, c)
  OBVIOUS
<1>8. line = Line(r) /\ Concludes(w, c) /\ line.op = "INFER_PAIR" /\ Args(r) = line.args
  BY <1>5, <1>6, <1>7 DEF Running, Args
<1>9. PICK v : v = [i \in DOMAIN line.args |-> c.obs[line.args[i][2]]]
  OBVIOUS
<1>10. /\ f \in FunctionNames \cap DOMAIN w.model /\ g \in FunctionNames \cap DOMAIN w.model
       /\ Len(v) = Arity(f) + Arity(g)
       /\ \A y \in Elements(w) :
            Append(SubSeq(v, 1, Arity(f)), y) \in w.model[f]
              <=> Append(SubSeq(v, Arity(f) + 1, Len(v)), y) \in w.model[g]
  BY <1>1, <1>7, <1>8, <1>9 DEF Concludes
<1>11. Reads(w, m, struct, c, line.args, u)
  BY <1>1, <1>6, <1>7, <1>8, ValsOK
<1>12. PICK S : S = struct.support
  OBVIOUS
<1>13. u \in Seq(S) /\ Image(m, u) = v /\ Len(v) = Len(u)
  <2>1. u \in Seq(S) /\ Image(m, u) = v
    BY <1>9, <1>11, <1>12 DEF Reads
  <2> QED
    BY <2>1, ImageIs
<1>14. PICK a \in Nat, b \in Nat : a = Arity(f) /\ b = Arity(g) /\ Len(u) = a + b
  BY <1>10, <1>13, ArityIs
<1>15. Parted(m, S, u, 1, a, key1)
  <2>1. 1 \in Nat \ {0} /\ a <= Len(u) /\ 1 <= a + 1
    BY <1>14
  <2>2. key1 = SubSeq(u, 1, a)
    BY <1>2, <1>14
  <2> QED
    BY <1>13, <1>14, <2>1, <2>2, PartIs
<1>16. Parted(m, S, u, a + 1, a + b, key2)
  <2>1. a + 1 \in Nat \ {0} /\ a + b \in Nat /\ a + b <= Len(u) /\ a + 1 <= (a + b) + 1
    BY <1>14
  <2>2. key2 = SubSeq(u, a + 1, a + b)
    BY <1>2, <1>14
  <2> QED
    BY <1>13, <2>1, <2>2, PartIs
<1>17. /\ key1 \in Seq(S) /\ Image(m, key1) = SubSeq(v, 1, Arity(f))
       /\ key2 \in Seq(S) /\ Image(m, key2) = SubSeq(v, Arity(f) + 1, Len(v))
  BY <1>13, <1>14, <1>15, <1>16 DEF Parted
<1>18. Grows(world, meaning, Hands, State, s)
  <2>1. PICK s0 : s0 = State
    OBVIOUS
  <2>2. StateOK(w, m, Hands, s0) /\ w.dim \in Nat /\ IsModel(w)
    BY <1>7, <2>1, StructIs, WorldIs DEF WorldOK
  <2>3. key1 \in Seq(s0.struct.support) /\ key2 \in Seq(s0.struct.support)
    BY <1>12, <1>17, <2>1, StateIs
  <2>4. \A y \in Elements(w) : Append(Image(m, key1), y) \in w.model[f]
                                 <=> Append(Image(m, key2), y) \in w.model[g]
    BY <1>10, <1>17
  <2>5. Grows(w, m, Hands, s0, Paired(s0, f, key1, g, key2))
    BY <1>10, <2>2, <2>3, <2>4, PairedOK
  <2> QED
    BY <1>3, <1>7, <2>1, <2>5
<1>19. Resumes(world, Certificate(world), meaning, s.struct, r, Back(r, s))
  BY <1>6, <1>18, BackIs
<1> QED
  BY <1>1, <1>4, <1>5, <1>18, <1>19, InstructionOK

\* Every instruction keeps the invariant.
LEMMA InstructionStep ==
  ASSUME IInv, NEW t \in Thread, Instruction(t)
  PROVE  IInv'
BY SequenceStep, LetsStep, ForSetsStep, ForAllStep, ForStep, IfBlockStep, IfEqualStep, IfInStep, LetStep,
   InferEqualStep, InferStep, InferPairStep DEF Instruction

-----------------------------------------------------------------------------
(* Tasks.                                                                  *)

\* A worker has begun or ended a task, or a program of it, or a part of a term.
LEMMA QuietOK ==
  ASSUME IInv, NEW t \in Thread, NEW r, th' = [th EXCEPT ![t] = r],
         th[t].task \notin {"merging", "merge"}, r.task \notin {"merging", "merge"},
         r.task = "idle" \/ \A u \in Thread : th[u].task # "merge",
         WorkerOK(world, Certificate(world), meaning, struct, r),
         world' = world, struct' = struct, meaning' = meaning, merges' = merges, RestOK',
         NEW ev, events' = ev, EventsOK(world, meaning, struct, ev)
  PROVE  IInv'
<1>1. DOMAIN th = Thread
  BY DEF IInv
<1>2. DOMAIN th' = Thread /\ th'[t] = r /\ \A u \in Thread : u # t => th'[u] = th[u]
  BY <1>1
<1>3. Merging' = Merging /\ t \notin Merging
  BY <1>2 DEF Merging
<1>4. \A u \in Merging : u \in Thread /\ th'[u] = th[u]
  BY <1>2, <1>3 DEF Merging
<1>5. Hands' = Hands
  BY <1>3, <1>4 DEF Hands
<1>6. StateOK(world, meaning, Hands, State)'
  <2>1. PICK w, m, H, s : w = world /\ m = meaning /\ H = Hands /\ s = [struct |-> struct, events |-> ev, merges |-> merges]
    OBVIOUS
  <2>2. State' = s
    BY <2>1 DEF State
  <2>3. s.struct = struct /\ s.events = ev /\ s.merges = merges
    BY <2>1
  <2>4. RepsOK(w, m, struct) /\ TablesOK(w, m, struct) /\ MergesOK(struct, H, merges) /\ Shaped(State)
    BY <2>1, StateIs DEF IInv, StateOK
  <2>5. Shaped(s)
    BY <2>1, <2>3, <2>4, StateIs DEF Shaped
  <2>6. StateOK(w, m, H, s)
    BY <2>1, <2>3, <2>4, <2>5 DEF StateOK
  <2> QED
    BY <1>5, <2>1, <2>2, <2>6
<1>7. \A u \in Thread : WorkerOK(world, Certificate(world), meaning, struct, th[u])'
  <2>1. \A u \in Thread : WorkerOK(world, Certificate(world), meaning, struct, th'[u])
    BY <1>2 DEF IInv
  <2> QED
    BY <2>1
<1>8. \A u, v \in Merging' : u # v => th'[u].args[1] # th'[v].args[1]
  BY <1>3, <1>4 DEF IInv
<1>9. (\E u \in Thread : th'[u].task = "merge")
        => \A u \in Thread : th'[u].task \in {"idle", "merging", "merge"}
  <2>1. ASSUME NEW u \in Thread, th'[u].task = "merge"
        PROVE  \A v \in Thread : th'[v].task \in {"idle", "merging", "merge"}
    <3>1. u # t /\ th[u].task = "merge"
      BY <1>2, <2>1
    <3>2. \A v \in Thread : th[v].task \in {"idle", "merging", "merge"}
      BY <3>1 DEF IInv
    <3>3. r.task = "idle"
      BY <3>1
    <3> QED
      BY <1>2, <3>2, <3>3
  <2> QED
    BY <2>1
<1> QED
  BY <1>2, <1>6, <1>7, <1>8, <1>9 DEF IInv, RestOK

\* The same, when only th changes.
LEMMA StillOK ==
  ASSUME IInv, NEW t \in Thread, NEW r, th' = [th EXCEPT ![t] = r],
         th[t].task \notin {"merging", "merge"}, r.task \notin {"merging", "merge"},
         r.task = "idle" \/ \A u \in Thread : th[u].task # "merge",
         WorkerOK(world, Certificate(world), meaning, struct, r),
         world' = world, UNCHANGED <<struct, meaning, merges, events>>, RestOK'
  PROVE  IInv'
<1>1. PICK ev : ev = events
  OBVIOUS
<1>2. EventsOK(world, meaning, struct, ev)
  BY <1>1, StateIs DEF IInv, StateOK
<1>3. /\ events' = ev /\ struct' = struct /\ meaning' = meaning /\ merges' = merges
  BY <1>1
<1> QED
  BY <1>2, <1>3, QuietOK

\* While a worker runs a program or makes a term, none executes merges.
LEMMA NoneMerges ==
  ASSUME IInv, NEW t \in Thread, th[t].task \notin {"idle", "merging", "merge"}
  PROVE  \A u \in Thread : th[u].task # "merge"
BY DEF IInv

\* The rest of a queue.
LEMMA TailIs ==
  ASSUME NEW q, q \in Seq(Range(q)), q # <<>>, NEW q2, q2 = Tail(q)
  PROVE  /\ Head(q) \in Range(q)
         /\ q2 \in Seq(Range(q2)) /\ \A x \in Range(q2) : x \in Range(q)
<1>1. PICK X : X = Range(q)
  OBVIOUS
<1>2. q \in Seq(X)
  BY <1>1
<1>3. q2 \in Seq(X)
  BY <1>2
<1>4. Head(q) \in X
  BY <1>2
<1>5. q2 \in Seq(Range(q2))
  BY <1>3, SeqRange
<1>6. \A i \in DOMAIN q2 : q2[i] \in X
  BY <1>3, SeqAt
<1> QED
  BY <1>1, <1>4, <1>5, <1>6 DEF Range

\* A program starts where a run in the model does.
LEMMA StartOK ==
  ASSUME WorldOK(world), NEW m, NEW str, NEW r, Fields(r), Runs(r), r.at = 0, r.make = <<>>,
         r.args \in Seq(str.support), TodoOK(world, Certificate(world), m, r)
  PROVE  WorkerOK(world, Certificate(world), m, str, NextProgram(r))
<1>1. PICK w, cert, z : w = world /\ cert = Certificate(world) /\ z = NextProgram(r)
  OBVIOUS
<1>2. r.todo \in Seq(Range(r.todo)) /\ TodoOK(w, cert, m, r)
  BY <1>1 DEF TodoOK
<1>3. CASE r.todo = <<>>
  <2>1. z = r
    BY <1>1, <1>3 DEF NextProgram
  <2>2. WorkerOK(w, cert, m, str, r)
    BY <1>2 DEF WorkerOK, Runs
  <2> QED
    BY <1>1, <2>1, <2>2
<1>4. CASE r.todo # <<>>
  <2>1. PICK i, todo, at, obs : /\ i = Head(r.todo) /\ todo = Tail(r.todo) /\ at = Start(i)
                                /\ obs = [x \in 0 .. Len(r.args) - 1 |-> r.args[x + 1]]
    OBVIOUS
  <2>2. PICK none : none = <<>>
    OBVIOUS
  <2>3. z = [r EXCEPT !.todo = todo, !.program = i, !.at = at, !.obs = obs, !.frames = none]
    BY <1>1, <1>4, <2>1, <2>2 DEF NextProgram
  <2>4. /\ Fields(z) /\ z.task = r.task /\ z.args = r.args /\ z.make = r.make /\ z.todo = todo
        /\ z.program = i /\ z.at = at /\ z.obs = obs /\ z.frames = none
    BY <2>3 DEF Fields
  <2>5. /\ i \in Range(r.todo)
        /\ todo \in Seq(Range(todo)) /\ \A x \in Range(todo) : x \in Range(r.todo)
    BY <1>2, <1>4, <2>1, TailIs
  <2>6. PICK c, R : R = Registers(m, r.args) /\ c = Place(i, Begins(w, i), R)
    OBVIOUS
  <2>7. c \in cert.places
    BY <1>2, <2>5, <2>6 DEF TodoOK
  <2>8. c.program = i /\ c.at = Begins(w, i) /\ c.obs = R /\ c.sets = <<>> /\ c.known = {}
    BY <2>6 DEF Place
  <2>9. at = Begins(w, i)
    BY <1>1, <2>1 DEF Start, First, Code, Begins
  <2>10. Fits(w, m, str, c, obs, z.sets)
    <3>0. PICK S : S = str.support
      OBVIOUS
    <3>1. PICK n \in Nat : r.args \in Seq(S) /\ n = Len(r.args) /\ DOMAIN r.args = 1 .. n
      BY <3>0
    <3>2. R = [x \in 0 .. n - 1 |-> m[r.args[x + 1]]] /\ obs = [x \in 0 .. n - 1 |-> r.args[x + 1]]
      BY <2>1, <2>6, <3>1 DEF Registers
    <3>3. \A x \in 0 .. n - 1 : r.args[x + 1] \in S
      BY <3>1
    <3>4. \A x \in DOMAIN R : x \in DOMAIN obs /\ obs[x] \in S /\ m[obs[x]] = R[x]
      BY <3>2, <3>3
    <3>5. DOMAIN c.sets = {}
      BY <2>8
    <3> QED
      BY <2>8, <3>0, <3>4, <3>5 DEF Fits
  <2>11. FramesOK(w, cert, m, str, i, obs, z.sets, none, none)
    <3>1. DOMAIN none = {} /\ none \in Seq(Range(none))
      BY <2>2
    <3> QED
      BY <3>1 DEF FramesOK
  <2>12. RunOK(w, cert, m, str, z)
    <3>1. \A j \in DOMAIN z.frames : Inside(none[j], Scope(c))
      BY <2>2, <2>4
    <3>2. c.program = z.program /\ c.at = z.at
      BY <2>4, <2>8, <2>9
    <3>3. Fits(w, m, str, c, z.obs, z.sets) /\ FramesOK(w, cert, m, str, z.program, z.obs, z.sets, none, z.frames)
      BY <2>4, <2>10, <2>11
    <3> QED
      BY <2>7, <3>1, <3>2, <3>3 DEF RunOK
  <2>13. TodoOK(w, cert, m, z)
    BY <1>2, <2>4, <2>5 DEF TodoOK
  <2>14. WorkerOK(w, cert, m, str, z)
    BY <2>4, <2>12, <2>13 DEF WorkerOK, Runs
  <2> QED
    BY <1>1, <2>14
<1> QED
  BY <1>3, <1>4

\* A worker that does nothing.
LEMMA IdleOK ==
  ASSUME NEW r, r = Idle
  PROVE  /\ Fields(r) /\ r.task = "idle" /\ r.at = 0 /\ r.make = <<>>
         /\ \A w, cert, m, str : WorkerOK(w, cert, m, str, r)
<1>1. Fields(r) /\ r.task = "idle" /\ r.at = 0 /\ r.make = <<>>
  BY DEF Idle, Fields
<1> QED
  BY <1>1 DEF WorkerOK, Runs

\* The programs that are listed for an event.
LEMMA ListedIs ==
  ASSUME WorldOK(world), NEW keep
  PROVE  /\ Listed(keep) \in Seq(Range(Listed(keep)))
         /\ \A i \in Range(Listed(keep)) : i \in keep /\ i \in Places
<1>1. PICK k \in Nat : Places = 1 .. k
  BY DEF WorldOK, Places
<1>2. PICK q, X : X = 1 .. k /\ q = [i \in 1 .. k |-> i]
  OBVIOUS
<1>3. q \in Seq(X)
  BY <1>2
<1>4. \A x \in Range(q) : x \in X
  BY <1>2 DEF Range
<1>5. Kept(q, keep) \in Seq(X) /\ \A x \in Range(Kept(q, keep)) : x \in Range(q) /\ x \in keep
  BY <1>3, KeptIs
<1>6. Listed(keep) = Kept(q, keep)
  BY <1>1, <1>2 DEF Listed
<1>7. Kept(q, keep) \in Seq(Range(Kept(q, keep)))
  BY <1>5, SeqRange
<1> QED
  BY <1>1, <1>2, <1>4, <1>5, <1>6, <1>7

\* What an event tells a program, in the model, is what runs of it start with.
LEMMA StartsOK ==
  ASSUME WorldOK(world), NEW i \in Places, NEW m, NEW S, NEW u \in Seq(S), Image(m, u) \in Event(world, i)
  PROVE  Place(i, Begins(world, i), Registers(m, u)) \in Certificate(world).places
<1>1. PICK w, e : w = world /\ e = Image(m, u)
  OBVIOUS
<1>2. i \in DOMAIN w.programs /\ e \in Event(w, i)
  BY <1>1 DEF Places
<1>3. PICK n \in Nat : n = Len(u) /\ DOMAIN u = 1 .. n
  OBVIOUS
<1>4. Len(e) = n /\ \A x \in 1 .. n : e[x] = m[u[x]]
  BY <1>1, <1>3, ImageIs
<1>5. \A x \in 0 .. n - 1 : e[x + 1] = m[u[x + 1]]
  BY <1>4
<1>6. Registers(m, u) = [x \in 0 .. Len(e) - 1 |-> e[x + 1]]
  BY <1>3, <1>4, <1>5 DEF Registers
<1>7. Place(i, Begins(w, i), [x \in 0 .. Len(e) - 1 |-> e[x + 1]]) \in Starts(w)
  <2> DEFINE P(j, d) == Place(j, Begins(w, j), [x \in 0 .. Len(d) - 1 |-> d[x + 1]])
             Q(j) == {P(j, d) : d \in Event(w, j)}
  <2>1. Starts(w) = UNION {Q(j) : j \in DOMAIN w.programs}
    BY Zenon DEF Starts
  <2>2. P(i, e) \in Q(i)
    BY <1>2, Zenon
  <2> HIDE DEF Q, P
  <2>3. P(i, e) \in Starts(w)
    BY <1>2, <2>1, <2>2
  <2> QED
    BY <2>3 DEF P
<1>8. Starts(w) \subseteq Certificate(w).places
  BY <1>1 DEF WorldOK, Verified
<1> QED
  BY <1>1, <1>6, <1>7, <1>8

\* The first event of a queue.
LEMMA EventTaken ==
  ASSUME NEW w, NEW m, NEW str, NEW old, EventsOK(w, m, str, old), NEW n \in DOMAIN old, old[n] # <<>>,
         NEW ev, ev = [old EXCEPT ![n] = Tail(@)]
  PROVE  EventsOK(w, m, str, ev) /\ Telling(w, m, str, n, Head(old[n]))
<1>1. PICK q, q2 : q = old[n] /\ q2 = Tail(q)
  OBVIOUS
<1>2. q \in Seq(Range(q)) /\ \A u \in Range(q) : Telling(w, m, str, n, u)
  BY <1>1 DEF EventsOK
<1>3. Head(q) \in Range(q) /\ q2 \in Seq(Range(q2)) /\ \A u \in Range(q2) : u \in Range(q)
  BY <1>1, <1>2, TailIs
<1>4. DOMAIN ev = DOMAIN old /\ ev[n] = q2 /\ \A k \in DOMAIN old : k # n => ev[k] = old[k]
  <2>1. ev = [old EXCEPT ![n] = q2]
    BY <1>1
  <2> HIDE <1>1
  <2> QED
    BY <2>1
<1>5. ASSUME NEW k \in DOMAIN ev
      PROVE  ev[k] \in Seq(Range(ev[k])) /\ \A u \in Range(ev[k]) : Telling(w, m, str, k, u)
  <2>1. CASE k = n
    BY <1>2, <1>3, <1>4, <2>1
  <2>2. CASE k # n
    BY <1>4, <2>2 DEF EventsOK
  <2> QED
    BY <2>1, <2>2
<1>6. EventsOK(w, m, str, ev)
  BY <1>4, <1>5 DEF EventsOK
<1> QED
  BY <1>1, <1>2, <1>3, <1>6

\* A program is run for an event.
LEMMA EventOK ==
  ASSUME IInv, NEW t \in Thread, Ready(t), NEW n \in DOMAIN events, events[n] # <<>>,
         NEW u, u = Head(events[n]), u \in Seq(struct.support),
         NEW keep, NEW q, q = Listed(keep),
         \A i \in keep : i \in Places => Image(meaning, u) \in Event(world, i),
         th' = [th EXCEPT ![t] = NextProgram([Idle EXCEPT !.task = "enforce", !.args = u, !.todo = q])],
         events' = [events EXCEPT ![n] = Tail(@)],
         UNCHANGED <<struct, merges, covered>>, Unchanged
  PROVE  IInv'
<1>1. PICK task, r, z : /\ task = "enforce" /\ r = [Idle EXCEPT !.task = task, !.args = u, !.todo = q]
                        /\ z = NextProgram(r)
  OBVIOUS
<1>2. /\ Fields(r) /\ r.task = task /\ r.args = u /\ r.todo = q /\ r.make = <<>> /\ r.at = 0
  BY <1>1 DEF Idle, Fields
<1>3. th' = [th EXCEPT ![t] = z]
  BY <1>1
<1>4. WorldOK(world)
  BY WorldIs
<1>5. q \in Seq(Range(q)) /\ \A i \in Range(q) : i \in keep /\ i \in Places
  BY <1>4, ListedIs
<1>6. ASSUME NEW i \in Range(q)
      PROVE  Place(i, Begins(world, i), Registers(meaning, u)) \in Certificate(world).places
  <2>1. i \in Places /\ Image(meaning, u) \in Event(world, i)
    BY <1>5
  <2> QED
    BY <1>4, <2>1, StartsOK
<1>7. TodoOK(world, Certificate(world), meaning, r)
  BY <1>2, <1>5, <1>6 DEF TodoOK
<1>8. Runs(r)
  BY <1>1, <1>2 DEF Runs
<1>9. WorkerOK(world, Certificate(world), meaning, struct, z)
  <2>1. r.args \in Seq(struct.support)
    BY <1>2
  <2> QED
    BY <1>1, <1>2, <1>4, <1>7, <1>8, <2>1, StartOK
<1>10. z.task = task
  BY <1>1, <1>2 DEF NextProgram, Fields
<1>11. PICK ev : ev = [events EXCEPT ![n] = Tail(@)]
  OBVIOUS
<1>12. EventsOK(world, meaning, struct, ev)
  <2>1. EventsOK(world, meaning, struct, events)
    BY StateIs DEF IInv, StateOK
  <2> QED
    BY <1>11, <2>1, EventTaken
<1>13. RestOK'
  BY RestKeeps
<1>14. th[t].task = "idle" /\ \A v \in Thread : th[v].task # "merge"
  BY DEF Ready
<1>15. /\ th[t].task \notin {"merging", "merge"} /\ z.task \notin {"merging", "merge"}
  BY <1>1, <1>10, <1>14
<1>16. /\ world' = world /\ struct' = struct /\ meaning' = meaning /\ merges' = merges /\ events' = ev
  BY <1>11 DEF Unchanged
<1> QED
  BY <1>3, <1>9, <1>12, <1>13, <1>14, <1>15, <1>16, QuietOK

\* What tells of an event.
LEMMA EventIs ==
  ASSUME NEW w, NEW i, NEW line, line = w.programs[i].code[1], NEW e
  PROVE  /\ line.op = "GIVEN_EXISTS" => \A x \in Elements(w) : e = <<x>> => e \in Event(w, i)
         /\ line.op = "GIVEN" => (e \in w.model[line.tables[1]] => e \in Event(w, i))
         /\ line.op \notin {"GIVEN_EXISTS", "GIVEN"} => (e = <<>> => e \in Event(w, i))
<1>1. PICK A, B, C : A = {<<x>> : x \in Elements(w)} /\ B = w.model[line.tables[1]] /\ C = {<<>>}
  OBVIOUS
<1>2. Event(w, i) = CASE line.op = "GIVEN_EXISTS" -> A
                      [] line.op = "GIVEN" -> B
                      [] OTHER -> C
  BY <1>1, Zenon DEF Event
<1>3. \A x \in Elements(w) : <<x>> \in A
  BY <1>1, Zenon
<1>4. <<>> \in C
  BY <1>1, Zenon
<1>5. /\ line.op = "GIVEN_EXISTS" => Event(w, i) = A
      /\ line.op = "GIVEN" => Event(w, i) = B
      /\ line.op \notin {"GIVEN_EXISTS", "GIVEN"} => Event(w, i) = C
  <2> HIDE <1>1, <1>3, <1>4
  <2> QED
    BY <1>2
<1> QED
  BY <1>1, <1>3, <1>4, <1>5, Zenon

\* A worker takes an event of an ob that was made.
LEMMA BeginExistsStep ==
  ASSUME IInv, NEW t \in Thread, BeginExists(t)
  PROVE  IInv'
<1>1. PICK n, keep, u, q : /\ n = "exists" /\ keep = {i \in Places : First(i).op = "GIVEN_EXISTS"}
                           /\ u = Head(events[n]) /\ q = Listed(keep)
  OBVIOUS
<1>2. Ready(t) /\ events[n] # <<>> /\ Unchanged /\ UNCHANGED <<struct, merges, covered>>
  BY <1>1 DEF BeginExists
<1>3. /\ th' = [th EXCEPT ![t] = NextProgram([Idle EXCEPT !.task = "enforce", !.args = u, !.todo = q])]
      /\ events' = [events EXCEPT ![n] = Tail(@)]
  BY <1>1, Zenon DEF BeginExists, OnExists
<1>4. EventsOK(world, meaning, struct, events)
  BY StateIs DEF IInv, StateOK
<1>5. n \in DOMAIN events
  BY <1>1, <1>4 DEF EventsOK
<1>6. PICK ev : ev = [events EXCEPT ![n] = Tail(@)]
  OBVIOUS
<1>7. Telling(world, meaning, struct, n, u)
  BY <1>1, <1>2, <1>4, <1>5, <1>6, EventTaken
<1>8. PICK S, m, w : S = struct.support /\ m = meaning /\ w = world
  OBVIOUS
<1>9. u \in Seq(S) /\ Len(u) = 1
  BY <1>1, <1>7, <1>8 DEF Telling
<1>10. PICK x \in S : u = <<x>>
  <2>1. u = <<u[1]>> /\ u[1] \in S
    BY <1>9
  <2> QED
    BY <2>1
<1>11. PICK e : e = Image(m, u)
  OBVIOUS
<1>12. e = <<m[x]>>
  BY <1>10, <1>11, ImageOne
<1>13. m[x] \in Elements(w)
  <2>1. RepsOK(w, m, struct)
    BY <1>8, StateIs DEF IInv, StateOK
  <2> QED
    BY <1>8, <2>1 DEF RepsOK
<1>14. ASSUME NEW i \in keep, i \in Places PROVE e \in Event(w, i)
  <2>1. PICK line : line = w.programs[i].code[1]
    OBVIOUS
  <2>2. line.op = "GIVEN_EXISTS"
    BY <1>1, <1>8, <1>14, <2>1 DEF First, Code
  <2> QED
    BY <1>12, <1>13, <2>1, <2>2, EventIs
<1>15. \A i \in keep : i \in Places => Image(meaning, u) \in Event(world, i)
  BY <1>8, <1>11, <1>14
<1>16. u \in Seq(struct.support)
  BY <1>8, <1>9
<1> QED
  BY <1>1, <1>2, <1>3, <1>5, <1>15, <1>16, EventOK

\* A worker takes an event of an order relation.
LEMMA BeginOrderStep ==
  ASSUME IInv, NEW t \in Thread, NEW n \in Told, BeginOrder(t, n)
  PROVE  IInv'
<1>1. PICK keep, u, q : /\ keep = {i \in Places : First(i).op = "GIVEN" /\ First(i).tables = <<n>>}
                        /\ u = Head(events[n]) /\ q = Listed(keep)
  OBVIOUS
<1>2. Ready(t) /\ events[n] # <<>> /\ Unchanged /\ UNCHANGED <<struct, merges, covered>>
  BY DEF BeginOrder
<1>3. /\ th' = [th EXCEPT ![t] = NextProgram([Idle EXCEPT !.task = "enforce", !.args = u, !.todo = q])]
      /\ events' = [events EXCEPT ![n] = Tail(@)]
  BY <1>1, Zenon DEF BeginOrder, OnEvent
<1>4. EventsOK(world, meaning, struct, events)
  BY StateIs DEF IInv, StateOK
<1>5. n \in DOMAIN events /\ n # "exists"
  BY <1>4 DEF EventsOK, Told
<1>6. PICK ev : ev = [events EXCEPT ![n] = Tail(@)]
  OBVIOUS
<1>7. Telling(world, meaning, struct, n, u)
  BY <1>1, <1>2, <1>4, <1>5, <1>6, EventTaken
<1>8. u \in Seq(struct.support) /\ Image(meaning, u) \in world.model[n]
  BY <1>5, <1>7 DEF Telling, True
<1>9. PICK w, e : w = world /\ e = Image(meaning, u)
  OBVIOUS
<1>10. ASSUME NEW i \in keep, i \in Places PROVE e \in Event(w, i)
  <2>1. PICK line : line = w.programs[i].code[1]
    OBVIOUS
  <2>2. line.op = "GIVEN" /\ line.tables = <<n>>
    BY <1>1, <1>9, <1>10, <2>1, Zenon DEF First, Code
  <2>3. line.tables[1] = n
    BY <2>2
  <2>4. e \in w.model[line.tables[1]]
    BY <1>8, <1>9, <2>3
  <2> QED
    BY <2>1, <2>2, <2>4, EventIs
<1>11. \A i \in keep : i \in Places => Image(meaning, u) \in Event(world, i)
  BY <1>9, <1>10
<1> QED
  BY <1>1, <1>2, <1>3, <1>5, <1>8, <1>11, EventOK

\* The counts of the cleanup.
LEMMA CleanupCountIs ==
  ASSUME WorldOK(world)
  PROVE  /\ Len(Small) \in Nat /\ Len(Large) \in Nat /\ BlockCount \in Nat \ {0}
         /\ CleanupCount \in Nat /\ CleanupCount = Len(Small) + Len(Large) * BlockCount
<1>1. Small \in Seq(Range(Small)) /\ Large \in Seq(Range(Large))
  BY ListedIs DEF Small, Large
<1>2. Len(Small) \in Nat /\ Len(Large) \in Nat
  BY <1>1
<1>3. world.dim \in Nat /\ BlockSize \in Nat \ {0}
  BY SurveyAssumption DEF WorldOK
<1>4. PICK d, b : d = world.dim /\ b = BlockSize
  OBVIOUS
<1>5. d \div b \in Nat
  BY <1>3, <1>4
<1>6. BlockCount \in Nat \ {0}
  BY <1>4, <1>5 DEF BlockCount, Dim
<1>7. PICK x \in Nat, y \in Nat, z \in Nat : x = Len(Small) /\ y = Len(Large) /\ z = BlockCount
  BY <1>2, <1>6
<1>8. x + y * z \in Nat
  OBVIOUS
<1> QED
  BY <1>2, <1>6, <1>7, <1>8 DEF CleanupCount

\* A cleanup task runs a program that no event is for.
LEMMA CleanupProgramIs ==
  ASSUME WorldOK(world), NEW k \in Nat, k < CleanupCount
  PROVE  /\ CleanupProgram(k) \in Places
         /\ First(CleanupProgram(k)).op \notin {"GIVEN_EXISTS", "GIVEN"}
<1>1. PICK x, y, z : x = Len(Small) /\ y = Len(Large) /\ z = BlockCount
  OBVIOUS
<1>2. x \in Nat /\ y \in Nat /\ z \in Nat \ {0} /\ k < x + y * z
  BY <1>1, CleanupCountIs
<1>3. /\ Small \in Seq(Range(Small)) /\ Large \in Seq(Range(Large))
      /\ \A i \in Range(Small) : i \in Places /\ First(i).op \notin {"GIVEN_EXISTS", "GIVEN", "FOR_BLOCK"}
      /\ \A i \in Range(Large) : i \in Places /\ First(i).op = "FOR_BLOCK"
  BY ListedIs DEF Small, Large
<1>4. CASE k < x
  <2>1. CleanupProgram(k) = Small[k + 1]
    BY <1>1, <1>4 DEF CleanupProgram
  <2>2. k + 1 \in DOMAIN Small
    BY <1>1, <1>2, <1>3, <1>4
  <2>3. Small[k + 1] \in Range(Small)
    BY <2>2 DEF Range
  <2> QED
    BY <1>3, <2>1, <2>3
<1>5. CASE ~ (k < x)
  <2>1. PICK a \in Nat : a = k - x
    BY <1>2, <1>5
  <2>2. a < y * z
    <3>1. PICK p : p = y * z
      OBVIOUS
    <3>2. p \in Int
      BY <1>2, <3>1
    <3> QED
      BY <1>2, <2>1, <3>1, <3>2
  <2>3. a \div z \in Nat /\ a \div z < y
    BY <1>2, <2>2, DivBound
  <2>4. PICK j \in Nat : j = a \div z
    BY <2>3
  <2>5. CleanupProgram(k) = Large[j + 1]
    BY <1>1, <1>5, <2>1, <2>4 DEF CleanupProgram
  <2>6. j + 1 \in DOMAIN Large
    BY <1>1, <1>2, <1>3, <2>3, <2>4
  <2>7. Large[j + 1] \in Range(Large)
    BY <2>6 DEF Range
  <2> QED
    BY <1>3, <2>5, <2>7
<1> QED
  BY <1>4, <1>5

\* The counts do not change.
LEMMA CleanupCountKeeps ==
  ASSUME world' = world
  PROVE  CleanupCount' = CleanupCount
BY DEF CleanupCount, Small, Large, Listed, Places, First, Code, BlockCount, Dim

\* The cleanup goes on or starts over.
LEMMA CleanupKeeps ==
  ASSUME IInv, UNCHANGED <<world, assumed, meaning>>, CleanupOK'
  PROVE  RestOK'
<1>1. RestOK
  BY DEF IInv, RestOK
<1> QED
  BY <1>1 DEF RestOK, Ob, Dim

\* A worker takes a cleanup task.
LEMMA BeginCleanupStep ==
  ASSUME IInv, NEW t \in Thread, BeginCleanup(t)
  PROVE  IInv'
<1>1. PICK i, block, q, task : /\ i = CleanupProgram(cleanup.turn) /\ block = CleanupBlock(cleanup.turn)
                               /\ q = <<i>> /\ task = "cleanup"
  OBVIOUS
<1>2. PICK r, z : /\ r = [Idle EXCEPT !.task = task, !.todo = q, !.block = block, !.undisturbed = TRUE]
                  /\ z = NextProgram(r)
  OBVIOUS
<1>3. /\ Ready(t) /\ cleanup.done < CleanupCount
      /\ cleanup' = [done |-> cleanup.done + 1, turn |-> (cleanup.turn + 1) % CleanupCount]
      /\ UNCHANGED <<world, struct, events, merges, assumed, meaning, covered>>
  BY DEF BeginCleanup
<1>4. th' = [th EXCEPT ![t] = z]
  BY <1>1, <1>2, Zenon DEF BeginCleanup
<1>5. /\ Fields(r) /\ r.task = task /\ r.args = Idle.args /\ r.todo = q /\ r.make = <<>> /\ r.at = 0
  BY <1>2 DEF Idle, Fields
<1>6. WorldOK(world) /\ CleanupOK
  BY WorldIs DEF IInv
<1>7. CleanupCount \in Nat
  BY <1>6, CleanupCountIs
<1>8. cleanup.turn \in Nat /\ cleanup.turn < CleanupCount /\ cleanup.done \in Nat
  BY <1>3, <1>6, <1>7 DEF CleanupOK
<1>9. i \in Places /\ First(i).op \notin {"GIVEN_EXISTS", "GIVEN"}
  BY <1>1, <1>6, <1>8, CleanupProgramIs
<1>10. PICK u, e : u = r.args /\ e = Image(meaning, u)
  OBVIOUS
<1>11. u = <<>> /\ e = <<>> /\ u \in Seq(struct.support)
  <2>1. u = <<>>
    BY <1>5, <1>10 DEF Idle
  <2>2. DOMAIN u = {} /\ u \in Seq(struct.support)
    BY <2>1
  <2>3. e = <<>>
    BY <1>10, <2>1, <2>2 DEF Image
  <2> QED
    BY <2>1, <2>2, <2>3
<1>12. e \in Event(world, i)
  <2>1. PICK w, line : w = world /\ line = w.programs[i].code[1]
    OBVIOUS
  <2>2. line.op \notin {"GIVEN_EXISTS", "GIVEN"}
    BY <1>9, <2>1 DEF First, Code
  <2> QED
    BY <1>11, <2>1, <2>2, EventIs
<1>13. Place(i, Begins(world, i), Registers(meaning, u)) \in Certificate(world).places
  BY <1>6, <1>9, <1>10, <1>11, <1>12, StartsOK
<1>14. TodoOK(world, Certificate(world), meaning, r)
  <2>1. PICK X : X = Places
    OBVIOUS
  <2>2. q \in Seq(X) /\ \A x \in Range(q) : x = i
    BY <1>1, <1>9, <2>1 DEF Range
  <2>3. q \in Seq(Range(q))
    BY <2>2, SeqRange
  <2> QED
    BY <1>5, <1>10, <1>13, <2>2, <2>3 DEF TodoOK
<1>15. Runs(r)
  BY <1>1, <1>5 DEF Runs
<1>16. WorkerOK(world, Certificate(world), meaning, struct, z)
  <2>1. r.args \in Seq(struct.support)
    BY <1>10, <1>11
  <2> QED
    BY <1>2, <1>5, <1>6, <1>14, <1>15, <2>1, StartOK
<1>17. z.task = task
  BY <1>2, <1>5 DEF NextProgram, Fields
<1>18. CleanupOK'
  <2>1. PICK c, x, y : c = CleanupCount /\ x = cleanup.turn /\ y = cleanup.done
    OBVIOUS
  <2>2. (x + 1) % c \in Nat /\ (x + 1) % c < c /\ y + 1 \in Nat
    BY <1>7, <1>8, <2>1
  <2>3. CleanupCount' = c
    BY <1>3, <2>1, CleanupCountKeeps
  <2>4. cleanup' = [done |-> y + 1, turn |-> (x + 1) % c]
    BY <1>3, <2>1
  <2> QED
    BY <2>2, <2>3, <2>4 DEF CleanupOK
<1>19. RestOK'
  BY <1>3, <1>18, CleanupKeeps
<1>20. th[t].task = "idle" /\ \A v \in Thread : th[v].task # "merge"
  BY <1>3 DEF Ready
<1>21. /\ th[t].task \notin {"merging", "merge"} /\ z.task \notin {"merging", "merge"}
  BY <1>1, <1>17, <1>20
<1>22. world' = world /\ UNCHANGED <<struct, meaning, merges, events>>
  BY <1>3
<1> QED
  BY <1>4, <1>16, <1>19, <1>20, <1>21, <1>22, StillOK

\* A worker begins the next program of its task, or ends the task.
LEMMA EndProgramStep ==
  ASSUME IInv, NEW t \in Thread, EndProgram(t)
  PROVE  IInv'
<1>1. PICK r : r = th[t]
  OBVIOUS
<1>2. /\ r.task \in {"enforce", "cleanup"} /\ r.at = 0
      /\ UNCHANGED <<world, struct, events, merges, assumed, meaning>>
  BY <1>1 DEF EndProgram
<1>3. WorkerOK(world, Certificate(world), meaning, struct, r)
  BY <1>1 DEF IInv
<1>4. Runs(r) /\ Fields(r) /\ r.make = <<>> /\ r.args \in Seq(struct.support)
      /\ TodoOK(world, Certificate(world), meaning, r)
  BY <1>2, <1>3 DEF WorkerOK, Runs
<1>5. r.task \notin {"idle", "merging", "merge"}
  BY <1>2
<1>6. \A v \in Thread : th[v].task # "merge"
  BY <1>1, <1>5, NoneMerges
<1>7. WorldOK(world) /\ CleanupOK
  BY WorldIs DEF IInv
<1>8. CleanupCount' = CleanupCount
  BY <1>2, CleanupCountKeeps
<1>9. CASE r.todo # <<>>
  <2>1. PICK z : z = NextProgram(r)
    OBVIOUS
  <2>2. th' = [th EXCEPT ![t] = z] /\ cleanup' = cleanup
    BY <1>1, <1>9, <2>1 DEF EndProgram
  <2>3. WorkerOK(world, Certificate(world), meaning, struct, z)
    BY <1>2, <1>4, <1>7, <2>1, StartOK
  <2>4. z.task = r.task
    BY <1>4, <2>1 DEF NextProgram, Fields
  <2>5. CleanupOK'
    BY <1>7, <1>8, <2>2 DEF CleanupOK
  <2>6. RestOK'
    BY <1>2, <2>5, CleanupKeeps
  <2>7. th[t].task \notin {"merging", "merge"} /\ z.task \notin {"merging", "merge"}
    BY <1>1, <1>5, <2>4
  <2>8. world' = world /\ UNCHANGED <<struct, meaning, merges, events>>
    BY <1>2
  <2> QED
    BY <1>6, <2>2, <2>3, <2>6, <2>7, <2>8, StillOK
<1>10. CASE r.todo = <<>>
  <2>1. PICK z : z = Idle
    OBVIOUS
  <2>2. th' = [th EXCEPT ![t] = z]
    BY <1>1, <1>10, <2>1, Zenon DEF EndProgram
  <2>3. cleanup' = IF Restart(r) THEN [cleanup EXCEPT !.done = 0] ELSE cleanup
    BY <1>1, <1>10, Zenon DEF EndProgram
  <2>4. WorkerOK(world, Certificate(world), meaning, struct, z) /\ z.task = "idle"
    BY <2>1, IdleOK
  <2>5. CleanupOK'
    <3>1. PICK b : b = Restart(r)
      OBVIOUS
    <3>2. cleanup' = IF b THEN [cleanup EXCEPT !.done = 0] ELSE cleanup
      BY <2>3, <3>1
    <3>3. /\ cleanup' = [done |-> cleanup'.done, turn |-> cleanup'.turn]
          /\ cleanup'.turn = cleanup.turn /\ cleanup'.done \in {0, cleanup.done}
      BY <1>7, <3>2 DEF CleanupOK
    <3> QED
      BY <1>7, <1>8, <3>3 DEF CleanupOK
  <2>6. RestOK'
    BY <1>2, <2>5, CleanupKeeps
  <2>7. th[t].task \notin {"merging", "merge"} /\ z.task \notin {"merging", "merge"}
    BY <1>1, <1>5, <2>4
  <2>8. world' = world /\ UNCHANGED <<struct, meaning, merges, events>>
    BY <1>2
  <2> QED
    BY <2>2, <2>4, <2>6, <2>7, <2>8, StillOK
<1> QED
  BY <1>9, <1>10

-----------------------------------------------------------------------------
(* Merges.                                                                 *)

\* A queue without its first member.
Taken(q, d, q2) == q # <<>> /\ d = Head(q) /\ q2 = Tail(q)

With(hands2, hands, d) == \A x : x \in hands2 <=> x \in hands \/ x = d

\* The first of the obs that are to be replaced comes to hand.
LEMMA MergeTaken ==
  ASSUME NEW str, NEW hands, NEW mg, MergesOK(str, hands, mg),
         NEW d, NEW mg2, Taken(mg, d, mg2), NEW hands2, With(hands2, hands, d)
  PROVE  MergesOK(str, hands2, mg2) /\ d \notin hands /\ d \in str.support
<1>0. mg # <<>> /\ d = Head(mg) /\ mg2 = Tail(mg) /\ \A x : x \in hands2 <=> x \in hands \/ x = d
  BY DEF Taken, With
<1>1. PICK S : S = str.support
  OBVIOUS
<1>2. /\ mg \in Seq(S) /\ \A x \in hands : x \in S
      /\ \A x \in hands : str.rep[x] # x
      /\ \A x \in Range(mg) : str.rep[x] # x /\ x \notin hands
      /\ \A i, j \in DOMAIN mg : i # j => mg[i] # mg[j]
  BY <1>1 DEF MergesOK
<1>3. PICK n \in Nat : n = Len(mg) /\ n # 0 /\ DOMAIN mg = 1 .. n
  BY <1>0, <1>2
<1>4. d = mg[1] /\ 1 \in DOMAIN mg
  BY <1>0, <1>2, <1>3
<1>5. d \in Range(mg) /\ d \in S
  BY <1>2, <1>4, SeqAt DEF Range
<1>6. mg2 \in Seq(S) /\ DOMAIN mg2 = 1 .. n - 1 /\ \A i \in 1 .. n - 1 : mg2[i] = mg[i + 1]
  BY <1>0, <1>2, <1>3
<1>7. \A i \in 1 .. n - 1 : i + 1 \in 1 .. n /\ i + 1 # 1
  OBVIOUS
<1>8. \A x \in Range(mg2) : x \in Range(mg) /\ x # d
  <2>1. ASSUME NEW x \in Range(mg2) PROVE x \in Range(mg) /\ x # d
    <3>1. PICK i \in 1 .. n - 1 : x = mg2[i]
      BY <1>6 DEF Range
    <3>2. x = mg[i + 1] /\ i + 1 \in DOMAIN mg /\ i + 1 # 1
      BY <1>3, <1>6, <1>7, <3>1
    <3> QED
      BY <1>2, <1>4, <3>2 DEF Range
  <2> QED
    BY <2>1
<1>9. \A i, j \in DOMAIN mg2 : i # j => mg2[i] # mg2[j]
  <2>1. ASSUME NEW i \in 1 .. n - 1, NEW j \in 1 .. n - 1, i # j PROVE mg2[i] # mg2[j]
    <3>1. i + 1 # j + 1 /\ i + 1 \in DOMAIN mg /\ j + 1 \in DOMAIN mg
      BY <1>3, <2>1
    <3> QED
      BY <1>2, <1>6, <3>1
  <2> QED
    BY <1>6, <2>1
<1>10. hands2 \subseteq S /\ \A x \in hands2 : str.rep[x] # x
  BY <1>0, <1>2, <1>5
<1>11. \A x \in hands2 \cup Range(mg2) : str.rep[x] # x
  BY <1>2, <1>8, <1>10
<1>12. Range(mg2) \cap hands2 = {}
  BY <1>0, <1>2, <1>8
<1> QED
  BY <1>1, <1>2, <1>5, <1>6, <1>9, <1>10, <1>11, <1>12 DEF MergesOK

\* The worker that has it.
Merger(task, d) == [Idle EXCEPT !.task = task, !.args = <<d>>]

\* A worker with a merge task is as it is required to be.
LEMMA MergerOK ==
  ASSUME NEW task, task \in {"merging", "merge"}, NEW d, NEW r, r = Merger(task, d)
  PROVE  /\ r.task = task /\ r.args[1] = d
         /\ \A w, cert, m, str : WorkerOK(w, cert, m, str, r)
<1>0. PICK a : a = <<d>>
  OBVIOUS
<1>3. r = [Idle EXCEPT !.task = task, !.args = a]
  BY <1>0, Zenon DEF Merger
<1>1. Fields(r) /\ r.task = task /\ r.args = a /\ r.at = 0 /\ r.make = <<>>
  BY <1>3 DEF Idle, Fields
<1>2. a = <<a[1]>> /\ a[1] = d
  BY <1>0
<1> QED
  BY <1>1, <1>2 DEF WorkerOK, Runs

\* A worker that waits.
LEMMA RestingOK ==
  ASSUME NEW w, NEW cert, NEW m, NEW str, NEW r, WorkerOK(w, cert, m, str, r),
         r.task \in {"idle", "merging", "merge"},
         NEW b, NEW r2, r2 = [r EXCEPT !.undisturbed = b], NEW str2
  PROVE  r2.task = r.task /\ r2.args = r.args /\ WorkerOK(w, cert, m, str2, r2)
<1>1. /\ Fields(r) /\ r.at = 0 /\ r.make = <<>>
      /\ r.task \in {"merging", "merge"} => r.args = <<r.args[1]>>
  BY DEF WorkerOK, Runs
<1>2. /\ Fields(r2) /\ r2.task = r.task /\ r2.args = r.args /\ r2.make = r.make /\ r2.at = r.at
  BY <1>1 DEF Fields
<1>3. r2.task \in {"merging", "merge"} => r2.args = <<r2.args[1]>>
  BY <1>1, <1>2
<1>4. ~ Runs(r2)
  BY <1>2 DEF Runs
<1> QED
  BY <1>1, <1>2, <1>3, <1>4 DEF WorkerOK

\* A worker takes a merge task.
LEMMA PopMergeStep ==
  ASSUME IInv, NEW t \in Thread, PopMerge(t)
  PROVE  IInv'
<1>1. PICK d, task, mg2 : d = Head(merges) /\ task = "merging" /\ mg2 = Tail(merges)
  OBVIOUS
<1>2. PICK r : r = Merger(task, d)
  OBVIOUS
<1>3. /\ th[t].task = "idle" /\ merges # <<>> /\ merges' = mg2 /\ struct' = struct /\ events' = events
      /\ Unchanged
  BY <1>1 DEF PopMerge
<1>4. th' = [th EXCEPT ![t] = r]
  BY <1>1, <1>2, Zenon DEF PopMerge, Merger
<1>5. /\ r.task = task /\ r.args[1] = d
      /\ \A w, cert, m, str : WorkerOK(w, cert, m, str, r)
  BY <1>1, <1>2, MergerOK
<1>6. DOMAIN th = Thread
  BY DEF IInv
<1>7. DOMAIN th' = Thread /\ th'[t] = r /\ \A u \in Thread : u # t => th'[u] = th[u]
  BY <1>4, <1>6
<1>8. t \notin Merging
  BY <1>3 DEF Merging
<1>9. \A u : u \in Merging' <=> u \in Merging \/ u = t
  BY <1>1, <1>5, <1>7 DEF Merging
<1>10. \A u \in Merging : u \in Thread /\ u # t /\ th'[u] = th[u]
  BY <1>7, <1>8 DEF Merging
<1>11. \A x : x \in Hands' <=> x \in Hands \/ x = d
  <2>1. ASSUME NEW x \in Hands' PROVE x \in Hands \/ x = d
    <3>1. PICK u \in Merging' : x = th'[u].args[1]
      BY DEF Hands
    <3>2. CASE u = t
      BY <1>5, <1>7, <3>1, <3>2
    <3>3. CASE u # t
      BY <1>9, <1>10, <3>1, <3>3 DEF Hands
    <3> QED
      BY <3>2, <3>3
  <2>2. ASSUME NEW x \in Hands PROVE x \in Hands'
    <3>1. PICK u \in Merging : x = th[u].args[1]
      BY DEF Hands
    <3>2. u \in Merging' /\ x = th'[u].args[1]
      BY <1>9, <1>10, <3>1
    <3> QED
      BY <3>2 DEF Hands
  <2>3. d \in Hands'
    <3>1. t \in Merging' /\ th'[t].args[1] = d
      BY <1>5, <1>7, <1>9
    <3> QED
      BY <3>1 DEF Hands
  <2> QED
    BY <2>1, <2>2, <2>3
<1>12. PICK w, m, H, H2, s : /\ w = world /\ m = meaning /\ H = Hands /\ H2 = Hands'
                             /\ s = [struct |-> struct, events |-> events, merges |-> mg2]
  OBVIOUS
<1>13. s.struct = struct /\ s.events = events /\ s.merges = mg2
  BY <1>12
<1>14. /\ RepsOK(w, m, struct) /\ TablesOK(w, m, struct) /\ EventsOK(w, m, struct, events)
       /\ MergesOK(struct, H, merges) /\ Shaped(State)
  BY <1>12, StateIs DEF IInv, StateOK
<1>15. MergesOK(struct, H2, mg2) /\ d \notin H
  <2>1. Taken(merges, d, mg2) /\ With(H2, H, d)
    BY <1>1, <1>3, <1>11, <1>12 DEF Taken, With
  <2> QED
    BY <1>14, <2>1, MergeTaken
<1>16. Shaped(s)
  BY <1>12, <1>13, <1>14, StateIs DEF Shaped
<1>17. StateOK(w, m, H2, s)
  BY <1>13, <1>14, <1>15, <1>16 DEF StateOK
<1>18. StateOK(world, meaning, Hands, State)'
  <2>1. State' = s
    BY <1>3, <1>12 DEF State
  <2> QED
    BY <1>3, <1>12, <1>17, <2>1 DEF Unchanged
<1>19. \A u \in Thread : WorkerOK(world, Certificate(world), meaning, struct, th[u])'
  <2>1. \A u \in Thread : WorkerOK(world, Certificate(world), meaning, struct, th'[u])
    BY <1>5, <1>7 DEF IInv
  <2> QED
    BY <1>3, <2>1 DEF Unchanged
<1>20. \A u, v \in Merging' : u # v => th'[u].args[1] # th'[v].args[1]
  <2>1. \A u \in Merging : th[u].args[1] # d
    BY <1>12, <1>15 DEF Hands
  <2>2. \A u, v \in Merging : u # v => th[u].args[1] # th[v].args[1]
    BY DEF IInv
  <2>3. ASSUME NEW u \in Merging', NEW v \in Merging', u # v PROVE th'[u].args[1] # th'[v].args[1]
    <3>1. CASE u = t
      BY <1>5, <1>7, <1>9, <1>10, <2>1, <2>3, <3>1
    <3>2. CASE v = t
      BY <1>5, <1>7, <1>9, <1>10, <2>1, <2>3, <3>2
    <3>3. CASE u # t /\ v # t
      BY <1>9, <1>10, <2>2, <2>3, <3>3
    <3> QED
      BY <3>1, <3>2, <3>3
  <2> QED
    BY <2>3
<1>21. (\E u \in Thread : th'[u].task = "merge")
         => \A u \in Thread : th'[u].task \in {"idle", "merging", "merge"}
  BY <1>1, <1>5, <1>7 DEF IInv
<1>22. RestOK'
  BY <1>3, RestKeeps
<1> QED
  BY <1>7, <1>18, <1>19, <1>20, <1>21, <1>22 DEF IInv, RestOK

\* A merge, with the other workers idle or waiting to merge.
LEMMA ExecuteMergeStep ==
  ASSUME IInv, NEW t \in Thread, ExecuteMerge(t)
  PROVE  IInv'
<1>1. PICK dep, s, r, mg2, d : /\ dep = th[t].args[1] /\ s = ProcessMerge(State, dep)
                               /\ d = Head(s.merges)
                               /\ r = IF s.merges = <<>> THEN Idle
                                      ELSE [Idle EXCEPT !.task = "merge", !.args = <<d>>]
                               /\ mg2 = IF s.merges = <<>> THEN s.merges ELSE Tail(s.merges)
  OBVIOUS
<1>2. PICK s2 : s2 = [s EXCEPT !.merges = mg2]
  OBVIOUS
<1>3. Exclusive(t) /\ Unchanged
  BY DEF ExecuteMerge
<1>4. Become(t, r, s2)
  <2>1. s2 = [s EXCEPT !.merges = IF @ = <<>> THEN @ ELSE Tail(@)]
    BY <1>1, <1>2
  <2> QED
    BY <1>1, <2>1, Zenon DEF ExecuteMerge
<1>5. PICK w, m, H, H1, s0 : w = world /\ m = meaning /\ H = Hands /\ H1 = Hands \ {dep} /\ s0 = State
  OBVIOUS
<1>6. t \in Merging /\ dep \in H
  BY <1>1, <1>3, <1>5 DEF Exclusive, Merging, Hands
<1>7. StateOK(w, m, H, s0) /\ w.dim \in Nat /\ IsModel(w)
  BY <1>5, WorldIs DEF IInv, WorldOK
<1>8. StateOK(w, m, H1, s)
  BY <1>1, <1>5, <1>6, <1>7, ProcessMergeOK DEF Merged
<1>9. /\ Shaped(s) /\ RepsOK(w, m, s.struct) /\ TablesOK(w, m, s.struct)
      /\ EventsOK(w, m, s.struct, s.events) /\ MergesOK(s.struct, H1, s.merges)
  BY <1>8 DEF StateOK
<1>10. Shaped(s2) /\ s2.struct = s.struct /\ s2.events = s.events /\ s2.merges = mg2
  BY <1>2, <1>9 DEF Shaped
<1>11. /\ r.task \in {"idle", "merge"}
       /\ \A cert, m1, str : WorkerOK(w, cert, m1, str, r)
       /\ r.task = "merge" => s.merges # <<>> /\ r.args[1] = d
       /\ r.task = "idle" => s.merges = <<>>
  <2>1. CASE s.merges = <<>>
    <3>1. r = Idle
      BY <1>1, <2>1
    <3> QED
      BY <2>1, <3>1, IdleOK
  <2>2. CASE s.merges # <<>>
    <3>1. PICK task : task = "merge"
      OBVIOUS
    <3>2. r = Merger(task, d)
      BY <1>1, <2>2, <3>1 DEF Merger
    <3>3. r.task = task /\ r.args[1] = d /\ \A w1, cert, m1, str : WorkerOK(w1, cert, m1, str, r)
      BY <3>1, <3>2, MergerOK
    <3> QED
      BY <2>2, <3>1, <3>3
  <2> QED
    BY <2>1, <2>2
<1>12. PICK H2 : \A x : x \in H2 <=> x \in H1 \/ (r.task = "merge" /\ x = d)
  <2>1. CASE r.task = "merge"
    <3>1. PICK X : X = H1 \cup {d}
      OBVIOUS
    <3> QED
      BY <2>1, <3>1
  <2>2. CASE r.task # "merge"
    BY <2>2
  <2> QED
    BY <2>1, <2>2
<1>13. MergesOK(s.struct, H2, mg2) /\ (r.task = "merge" => d \notin H1)
  <2>1. CASE r.task = "merge"
    <3>1. With(H2, H1, d)
      BY <1>12, <2>1 DEF With
    <3>2. Taken(s.merges, d, mg2)
      BY <1>1, <1>11, <2>1 DEF Taken
    <3> QED
      BY <1>9, <3>1, <3>2, MergeTaken
  <2>2. CASE r.task # "merge"
    <3>1. H2 = H1
      BY <1>12, <2>2
    <3>2. mg2 = s.merges
      BY <1>1, <1>11, <2>2
    <3> QED
      BY <1>9, <2>2, <3>1, <3>2
  <2> QED
    BY <2>1, <2>2
<1>14. StateOK(w, m, H2, s2)
  BY <1>9, <1>10, <1>13 DEF StateOK
<1>15. struct' = s2.struct /\ events' = s2.events /\ merges' = s2.merges /\ DOMAIN th' = Thread
  BY <1>4 DEF Become
<1>16. State' = s2
  BY <1>10, <1>15 DEF State, Shaped
<1>17. PICK cert, str2 : cert = Certificate(world) /\ str2 = s2.struct
  OBVIOUS
<1>18. ASSUME NEW u \in Thread
       PROVE  /\ WorkerOK(w, cert, m, str2, th'[u])
              /\ u # t => th'[u].task = th[u].task /\ th'[u].args = th[u].args
              /\ u = t => th'[u].task = r.task /\ th'[u].args = r.args
  <2>1. PICK same : same = (s2.struct = struct)
    OBVIOUS
  <2>2. PICK q, q2 : q = (IF u = t THEN r ELSE th[u]) /\ q2 = th'[u]
    OBVIOUS
  <2>3. PICK b : b = (q.undisturbed /\ same)
    OBVIOUS
  <2>4. q2 = [q EXCEPT !.undisturbed = b]
    <3>1. th'[u] = [(IF u = t THEN r ELSE th[u]) EXCEPT !.undisturbed = @ /\ same]
      BY <1>4, <2>1 DEF Become
    <3> QED
      BY <2>2, <2>3, <3>1
  <2>5. WorkerOK(w, cert, m, struct, q) /\ q.task \in {"idle", "merging", "merge"}
    <3>1. CASE u = t
      BY <1>11, <2>2, <3>1
    <3>2. CASE u # t
      BY <1>3, <1>5, <1>17, <2>2, <3>2 DEF IInv, Exclusive
    <3> QED
      BY <3>1, <3>2
  <2>6. q2.task = q.task /\ q2.args = q.args /\ WorkerOK(w, cert, m, str2, q2)
    BY <2>4, <2>5, RestingOK
  <2> QED
    BY <2>2, <2>6
<1>19. PICK M2 : M2 = Merging'
  OBVIOUS
<1>20. \A u : u \in M2 <=> (u \in Merging /\ u # t) \/ (u = t /\ r.task = "merge")
  BY <1>11, <1>18, <1>19 DEF Merging
<1>21. \A u \in Merging : u # t => u \in Thread /\ th'[u].args = th[u].args /\ th[u].args[1] # dep
  BY <1>1, <1>6, <1>18 DEF Merging, IInv
<1>22. \A x : x \in Hands' <=> x \in H2
  <2>1. ASSUME NEW x \in Hands' PROVE x \in H2
    <3>1. PICK u \in M2 : x = th'[u].args[1]
      BY <1>19 DEF Hands
    <3>2. CASE u = t
      BY <1>11, <1>12, <1>18, <1>20, <3>1, <3>2
    <3>3. CASE u # t
      <4>1. u \in Merging /\ x = th[u].args[1] /\ x # dep
        BY <1>20, <1>21, <3>1, <3>3
      <4> QED
        BY <1>5, <1>12, <4>1 DEF Hands
    <3> QED
      BY <3>2, <3>3
  <2>2. ASSUME NEW x \in H1 PROVE x \in Hands'
    <3>1. PICK u \in Merging : x = th[u].args[1] /\ x # dep
      BY <1>5, <2>2 DEF Hands
    <3>2. u # t
      BY <1>1, <3>1
    <3>3. u \in M2 /\ x = th'[u].args[1]
      BY <1>20, <1>21, <3>1, <3>2
    <3> QED
      BY <1>19, <3>3 DEF Hands
  <2>3. ASSUME r.task = "merge" PROVE d \in Hands'
    <3>1. t \in M2 /\ th'[t].args[1] = d
      BY <1>11, <1>18, <1>20, <2>3
    <3> QED
      BY <1>19, <3>1 DEF Hands
  <2> QED
    BY <1>12, <2>1, <2>2, <2>3
<1>23. Hands' = H2
  BY <1>22
<1>24. StateOK(world, meaning, Hands, State)'
  BY <1>3, <1>5, <1>14, <1>16, <1>23 DEF Unchanged
<1>25. \A u \in Thread : WorkerOK(world, Certificate(world), meaning, struct, th[u])'
  <2>1. struct' = str2 /\ Certificate(world)' = cert /\ world' = w /\ meaning' = m
    BY <1>3, <1>5, <1>15, <1>17 DEF Unchanged
  <2> QED
    BY <1>18, <2>1
<1>26. \A u, v \in Merging' : u # v => th'[u].args[1] # th'[v].args[1]
  <2>1. \A u, v \in Merging : u # v => th[u].args[1] # th[v].args[1]
    BY DEF IInv
  <2>2. ASSUME r.task = "merge" PROVE \A u \in Merging : u # t => th[u].args[1] # d
    <3>1. d \notin H1
      BY <1>13, <2>2
    <3> QED
      BY <1>5, <1>21, <3>1 DEF Hands
  <2>3. ASSUME NEW u \in M2, NEW v \in M2, u # v PROVE th'[u].args[1] # th'[v].args[1]
    <3>1. CASE u = t
      BY <1>11, <1>18, <1>20, <1>21, <2>2, <2>3, <3>1
    <3>2. CASE v = t
      BY <1>11, <1>18, <1>20, <1>21, <2>2, <2>3, <3>2
    <3>3. CASE u # t /\ v # t
      BY <1>20, <1>21, <2>1, <2>3, <3>3
    <3> QED
      BY <3>1, <3>2, <3>3
  <2> QED
    BY <1>19, <2>3
<1>27. \A u \in Thread : th'[u].task \in {"idle", "merging", "merge"}
  BY <1>3, <1>11, <1>18 DEF Exclusive
<1>28. RestOK'
  BY <1>3, RestKeeps
<1> QED
  BY <1>15, <1>24, <1>25, <1>26, <1>27, <1>28 DEF IInv, RestOK

-----------------------------------------------------------------------------
(* Samples and facts.                                                      *)

\* A worker that does not merge has added to the tables or merged obs.
LEMMA GrowStep ==
  ASSUME IInv, NEW t \in Thread, NEW r, NEW s, Become(t, r, s), Unchanged,
         Grows(world, meaning, Hands, State, s),
         th[t].task \notin {"merging", "merge"}, r.task = "idle" \/ r.task = th[t].task,
         WorkerOK(world, Certificate(world), meaning, s.struct, r)
  PROVE  IInv'
<1>1. PICK m : m = meaning
  OBVIOUS
<1>2. Above(world, meaning, struct, m, s.struct) /\ StateOK(world, m, Hands, s)
  BY <1>1, StateIs DEF Grows, Above
<1>3. world' = world /\ meaning' = m /\ RestOK' /\ WorkerOK(world, Certificate(world), m, s.struct, r)
  BY <1>1, RestKeeps DEF Unchanged
<1> QED
  BY <1>2, <1>3, BecomeOK

\* A function and a key.
Named(make, n, key) ==
  make[1] = n /\ make[2] = key /\ make = <<make[1], make[2]>> /\ make # <<>> /\ Len(make) = 2

\* A term of a function and a key.
LEMMA NamedIs ==
  ASSUME NEW n, NEW key, NEW make, make = <<n, key>>
  PROVE  Named(make, n, key)
BY DEF Named

\* A term that the model has a value for.
LEMMA NamedOK ==
  ASSUME NEW w, NEW m, NEW str, NEW n, NEW key, NEW make, Named(make, n, key),
         n \in FunctionNames, n \in DOMAIN w.model, key \in Seq(str.support), Len(key) = Arity(n),
         NEW y \in Elements(w), Append(Image(m, key), y) \in w.model[n]
  PROVE  MakeOK(w, m, str, make)
<1>1. TermOK(w, m, str, make)
  BY DEF Named, TermOK
<1> QED
  BY <1>1 DEF Named, MakeOK

\* While a surveyor samples, the model has a value at every key.
LEMMA ProvidedIs ==
  ASSUME NEW w, WorldOK(w), w.phase # "initialize", NEW n, n \in FunctionNames, n \in DOMAIN w.model,
         NEW key, key \in [1 .. Arity(n) -> Elements(w)]
  PROVE  \E y \in Elements(w) : Append(key, y) \in w.model[n]
BY DEF WorldOK, Provides

\* The sampler has found a term that has no ob.
LEMMA BeginSampleStep ==
  ASSUME IInv, NEW t \in Thread, BeginSample(t)
  PROVE  IInv'
<1>1. PICK n \in FunctionNames \cap DOMAIN struct.table : \E key \in [1 .. Arity(n) -> struct.support] :
        th' = [th EXCEPT ![t] = [Idle EXCEPT !.task = "sample", !.make = <<n, key>>]]
  BY Zenon DEF BeginSample
<1>2. PICK key \in [1 .. Arity(n) -> struct.support] :
        th' = [th EXCEPT ![t] = [Idle EXCEPT !.task = "sample", !.make = <<n, key>>]]
  BY <1>1
<1>3. PICK task, make, r : /\ task = "sample" /\ make = <<n, key>>
                           /\ r = [Idle EXCEPT !.task = task, !.make = make]
  OBVIOUS
<1>4. th' = [th EXCEPT ![t] = r]
  BY <1>2, <1>3, Zenon
<1>5. Fields(r) /\ r.task = task /\ r.make = make /\ r.at = 0
  BY <1>3 DEF Idle, Fields
<1>6. /\ Ready(t) /\ world.phase = "survey" /\ UNCHANGED <<struct, events, merges, covered>> /\ Unchanged
  BY DEF BeginSample, Samples
<1>7. PICK w, m, S : w = world /\ m = meaning /\ S = struct.support
  OBVIOUS
<1>8. RepsOK(w, m, struct) /\ TablesOK(w, m, struct) /\ WorldOK(w)
  BY <1>7, StateIs, WorldIs DEF IInv, StateOK
<1>9. n \in FunctionNames /\ n \in DOMAIN w.model
  BY <1>8 DEF TablesOK
<1>10. PICK a \in Nat : a = Arity(n)
  BY ArityIs
<1>11. key \in Seq(S) /\ DOMAIN key = 1 .. a /\ Len(key) = a
  BY <1>7, <1>10
<1>12. PICK e : e = Image(m, key)
  OBVIOUS
<1>13. e \in [1 .. a -> Elements(w)]
  <2>1. \A x \in S : m[x] \in Elements(w)
    BY <1>7, <1>8 DEF RepsOK
  <2>2. e \in Seq(Elements(w)) /\ DOMAIN e = 1 .. a
    BY <1>11, <1>12, <2>1, ImageType, ImageIs
  <2> QED
    BY <2>2
<1>14. PICK y \in Elements(w) : Append(e, y) \in w.model[n]
  <2>1. w.phase # "initialize"
    BY <1>6, <1>7
  <2>2. e \in [1 .. Arity(n) -> Elements(w)]
    BY <1>10, <1>13
  <2> QED
    BY <1>8, <1>9, <2>1, <2>2, ProvidedIs
<1>15. MakeOK(w, m, struct, make)
  <2>1. Named(make, n, key)
    BY <1>3, NamedIs
  <2>2. key \in Seq(struct.support) /\ Len(key) = Arity(n)
    BY <1>7, <1>10, <1>11
  <2> QED
    BY <1>9, <1>12, <1>14, <2>1, <2>2, NamedOK
<1>16. WorkerOK(world, Certificate(world), meaning, struct, r)
  BY <1>3, <1>5, <1>7, <1>15 DEF WorkerOK, Runs
<1>17. th[t].task = "idle" /\ \A v \in Thread : th[v].task # "merge"
  BY <1>6 DEF Ready
<1>18. th[t].task \notin {"merging", "merge"} /\ r.task \notin {"merging", "merge"}
  BY <1>3, <1>5, <1>17
<1>19. world' = world /\ UNCHANGED <<struct, meaning, merges, events>> /\ RestOK'
  BY <1>6, RestKeeps DEF Unchanged
<1> QED
  BY <1>4, <1>16, <1>17, <1>18, <1>19, StillOK

\* A worker takes a fact.
LEMMA BeginAssumeStep ==
  ASSUME IInv, NEW t \in Thread, BeginAssume(t)
  PROVE  IInv'
<1>1. PICK task, f, rest, r : /\ task = "assume" /\ f = Head(assumed) /\ rest = Tail(assumed)
                              /\ r = [Idle EXCEPT !.task = task, !.todo = f]
  OBVIOUS
<1>2. th' = [th EXCEPT ![t] = r]
  BY <1>1, Zenon DEF BeginAssume
<1>3. /\ Ready(t) /\ assumed # <<>> /\ assumed' = rest
      /\ UNCHANGED <<world, struct, events, merges, cleanup, meaning, covered>>
  BY <1>1 DEF BeginAssume
<1>4. Fields(r) /\ r.task = task /\ r.todo = f /\ r.args = Idle.args /\ r.make = Idle.make /\ r.at = 0
  BY <1>1 DEF Idle, Fields
<1>5. PICK none : none = <<>>
  OBVIOUS
<1>6. r.args = none /\ r.make = none /\ none \in Seq(struct.support) /\ Image(meaning, none) = none
  <2>1. DOMAIN none = {} /\ none \in Seq(struct.support)
    BY <1>5
  <2>2. Image(meaning, none) = none
    BY <1>5, <2>1 DEF Image
  <2>3. Idle.args = none /\ Idle.make = none
    BY <1>5 DEF Idle
  <2> QED
    BY <1>4, <2>1, <2>2, <2>3
<1>7. /\ assumed \in Seq(Range(assumed))
      /\ \A g \in Range(assumed) : [todo |-> g, stack |-> none] \in Certificate(world).facts
  BY <1>5 DEF IInv
<1>8. f \in Range(assumed) /\ rest \in Seq(Range(rest)) /\ \A x \in Range(rest) : x \in Range(assumed)
  BY <1>1, <1>3, <1>7, TailIs
<1>9. FactOK(world, Certificate(world), meaning, struct, r)
  <2>1. [todo |-> r.todo, stack |-> Image(meaning, r.args)] \in Certificate(world).facts
    BY <1>4, <1>6, <1>7, <1>8
  <2>2. r.args \in Seq(struct.support)
    BY <1>6
  <2> QED
    BY <1>5, <1>6, <2>1, <2>2 DEF FactOK
<1>10. WorkerOK(world, Certificate(world), meaning, struct, r)
  BY <1>1, <1>4, <1>9 DEF WorkerOK, Runs
<1>11. RestOK'
  <2>1. RestOK
    BY DEF IInv, RestOK
  <2>2. CleanupOK'
    BY <1>3, <2>1, CleanupCountKeeps DEF RestOK, CleanupOK
  <2>3. \A g \in Range(assumed') : [todo |-> g, stack |-> none] \in Certificate(world).facts
    BY <1>3, <1>7, <1>8
  <2> QED
    BY <1>3, <1>5, <1>8, <2>1, <2>2, <2>3 DEF RestOK, Ob, Dim
<1>12. th[t].task = "idle" /\ \A v \in Thread : th[v].task # "merge"
  BY <1>3 DEF Ready
<1>13. th[t].task \notin {"merging", "merge"} /\ r.task \notin {"merging", "merge"}
  BY <1>1, <1>4, <1>12
<1>14. world' = world /\ UNCHANGED <<struct, meaning, merges, events>>
  BY <1>3
<1> QED
  BY <1>2, <1>10, <1>11, <1>12, <1>13, <1>14, StillOK

\* There is no ob left for a term.
LEMMA SampleInVainStep ==
  ASSUME IInv, NEW t \in Thread, SampleInVain(t)
  PROVE  IInv'
<1>1. PICK r, s : r = Idle /\ s = State
  OBVIOUS
<1>2. th[t].task = "sample" /\ Become(t, r, s) /\ Unchanged
  BY <1>1 DEF SampleInVain, Continue
<1>3. Grows(world, meaning, Hands, State, s)
  BY <1>1 DEF IInv, Grows
<1>4. r.task = "idle" /\ WorkerOK(world, Certificate(world), meaning, s.struct, r)
  BY <1>1, IdleOK
<1> QED
  BY <1>2, <1>3, <1>4, GrowStep

\* What a worker of a fact has, while it has no term to make.
LEMMA AssumingOK ==
  ASSUME IInv, NEW t \in Thread, th[t].task = "assume", th[t].make = <<>>,
         NEW f, f = [todo |-> th[t].todo, stack |-> Image(meaning, th[t].args)]
  PROVE  /\ f.todo = th[t].todo /\ f.stack = Image(meaning, th[t].args)
         /\ Asserts(world, f) /\ FactSuccessors(world, f) \subseteq Certificate(world).facts
         /\ th[t].args \in Seq(struct.support)
<1>1. FactOK(world, Certificate(world), meaning, struct, th[t])
  BY DEF IInv, WorkerOK
<1>2. f \in Certificate(world).facts /\ th[t].args \in Seq(struct.support)
  BY <1>1 DEF FactOK
<1>3. Asserts(world, f) /\ FactSuccessors(world, f) \subseteq Certificate(world).facts
  BY <1>2, WorldIs DEF WorldOK, Verified
<1> QED
  BY <1>2, <1>3

\* A part of a fact is left when a term has its value.
Goes(w, f, y) == [todo |-> Tail(f.todo), stack |-> Append(Rest(f), y)]

\* A term of a fact has a value in the model, and the fact goes on with it.
LEMMA GoesOK ==
  ASSUME NEW w, NEW f, Asserts(w, f), NEW facts, FactSuccessors(w, f) \subseteq facts, Len(f.todo) > 1
  PROVE  /\ Head(f.todo) \in FunctionNames /\ Head(f.todo) \in DOMAIN w.model
         /\ Arity(Head(f.todo)) <= Len(f.stack)
         /\ \A y \in Values(w, f) : Goes(w, f, y) \in facts
         /\ \E y : y \in Values(w, f)
<1>1. Len(f.todo) # 1
  <2>1. f.todo \in Seq(Range(f.todo))
    BY Zenon DEF Asserts
  <2>2. PICK q, X : q = f.todo /\ X = Range(f.todo)
    OBVIOUS
  <2>3. q \in Seq(X) /\ Len(q) > 1
    BY <2>1, <2>2
  <2>4. PICK l \in Nat : l = Len(q)
    BY <2>3
  <2>5. l > 1
    BY <2>3, <2>4
  <2>6. l # 1
    BY <2>5
  <2> QED
    BY <2>2, <2>4, <2>6
<1>2. FactSuccessors(w, f) = {Goes(w, f, y) : y \in Values(w, f)}
  <2>1. PICK A : A = {Goes(w, f, y) : y \in Values(w, f)}
    OBVIOUS
  <2>2. FactSuccessors(w, f) = IF Len(f.todo) = 1 THEN {} ELSE A
    BY <2>1, Zenon DEF FactSuccessors, Goes
  <2>3. FactSuccessors(w, f) = A
    <3> HIDE <2>1
    <3> QED
      BY <1>1, <2>2
  <2> QED
    BY <2>1, <2>3
<1>3. \A y \in Values(w, f) : Goes(w, f, y) \in facts
  BY <1>2
<1> QED
  BY <1>3 DEF Asserts

\* A term of a fact is looked up.
LEMMA ParseTermStep ==
  ASSUME IInv, NEW t \in Thread, ParseTerm(t)
  PROVE  IInv'
<1>1. PICK r, n, todo, l, a : /\ r = th[t] /\ n = Head(r.todo) /\ todo = Tail(r.todo)
                              /\ l = Len(r.args) /\ a = Arity(n)
  OBVIOUS
<1>2. PICK rest, key, found : /\ rest = SubSeq(r.args, 1, l - a) /\ key = SubSeq(r.args, l - a + 1, l)
                              /\ found = Find(State, n, key)
  OBVIOUS
<1>3. PICK make, x, args : make = <<n, key>> /\ x = Only(found) /\ args = Append(rest, x)
  OBVIOUS
<1>4. PICK q : q = IF found = {} THEN [r EXCEPT !.todo = todo, !.args = rest, !.make = make]
                   ELSE [r EXCEPT !.todo = todo, !.args = args]
  OBVIOUS
<1>5. /\ r.task = "assume" /\ r.make = <<>> /\ Len(r.todo) > 1
      /\ UNCHANGED <<struct, events, merges, covered>> /\ Unchanged
  BY <1>1 DEF ParseTerm
<1>6. th' = [th EXCEPT ![t] = q]
  <2>1. th' = [th EXCEPT ![t] =
           IF Find(State, n, key) = {}
           THEN [r EXCEPT !.todo = Tail(@), !.args = rest, !.make = <<n, key>>]
           ELSE [r EXCEPT !.todo = Tail(@),
                          !.args = Append(rest, Only(Find(State, n, key)))]]
    BY <1>1, <1>2, Zenon DEF ParseTerm
  <2>2. [r EXCEPT !.todo = Tail(@), !.args = rest, !.make = <<n, key>>]
          = [r EXCEPT !.todo = todo, !.args = rest, !.make = make]
    BY <1>1, <1>3
  <2>3. [r EXCEPT !.todo = Tail(@), !.args = Append(rest, Only(Find(State, n, key)))]
          = [r EXCEPT !.todo = todo, !.args = args]
    BY <1>1, <1>2, <1>3
  <2> QED
    BY <1>2, <1>4, <2>1, <2>2, <2>3
<1>7. PICK w, m, S, facts, f : /\ w = world /\ m = meaning /\ S = struct.support
                               /\ facts = Certificate(world).facts
                               /\ f = [todo |-> r.todo, stack |-> Image(m, r.args)]
  OBVIOUS
<1>8. /\ f.todo = r.todo /\ f.stack = Image(m, r.args) /\ Asserts(w, f) /\ FactSuccessors(w, f) \subseteq facts
      /\ r.args \in Seq(S)
  BY <1>1, <1>5, <1>7, AssumingOK
<1>9. /\ n \in FunctionNames /\ n \in DOMAIN w.model /\ a <= Len(f.stack)
      /\ \A y \in Values(w, f) : Goes(w, f, y) \in facts
      /\ \E y : y \in Values(w, f)
  BY <1>1, <1>5, <1>8, GoesOK
<1>10. l \in Nat /\ a \in Nat /\ Len(f.stack) = l /\ a <= l
  <2>1. Len(Image(m, r.args)) = Len(r.args) /\ Len(r.args) \in Nat
    BY <1>8, ImageIs
  <2> QED
    BY <1>1, <1>8, <1>9, <2>1, ArityIs
<1>11. Parted(m, S, r.args, 1, l - a, rest) /\ Parted(m, S, r.args, l - a + 1, l, key)
  <2>1. PICK k \in Nat : k = l - a
    BY <1>10
  <2>2. k + 1 \in Nat \ {0} /\ k <= Len(r.args) /\ l <= Len(r.args) /\ 1 <= k + 1 /\ k + 1 <= l + 1 /\ 1 \in Nat \ {0}
    BY <1>1, <1>10, <2>1
  <2>3. Parted(m, S, r.args, 1, k, rest)
    BY <1>2, <1>8, <2>1, <2>2, PartIs
  <2>4. Parted(m, S, r.args, k + 1, l, key)
    BY <1>2, <1>8, <1>10, <2>1, <2>2, PartIs
  <2> QED
    BY <2>1, <2>3, <2>4
<1>12. /\ rest \in Seq(S) /\ key \in Seq(S) /\ Len(key) = a
       /\ Image(m, rest) = Rest(f) /\ Image(m, key) = Key(f)
  <2>1. /\ rest \in Seq(S) /\ Image(m, rest) = SubSeq(f.stack, 1, l - a)
        /\ key \in Seq(S) /\ Image(m, key) = SubSeq(f.stack, l - a + 1, l) /\ Len(key) = l - (l - a + 1) + 1
    BY <1>8, <1>11 DEF Parted
  <2>2. Rest(f) = SubSeq(f.stack, 1, l - a) /\ Key(f) = SubSeq(f.stack, l - a + 1, l)
    BY <1>1, <1>8, <1>10 DEF Rest, Key
  <2>3. l - (l - a + 1) + 1 = a
    BY <1>10
  <2> QED
    BY <2>1, <2>2, <2>3
<1>13. \A y \in Elements(w) : Append(Image(m, key), y) \in w.model[n] <=> y \in Values(w, f)
  BY <1>1, <1>8, <1>12 DEF Values
<1>14. \A y \in Elements(w) : Append(Image(m, key), y) \in w.model[n] =>
         [todo |-> todo, stack |-> Append(Image(m, rest), y)] \in facts
  BY <1>1, <1>8, <1>9, <1>12, <1>13 DEF Goes
<1>15. WorkerOK(world, Certificate(world), meaning, struct, r) /\ Fields(r)
  BY <1>1 DEF IInv, WorkerOK
<1>16. FactOK(world, Certificate(world), meaning, struct, q) /\ Fields(q) /\ q.task = r.task /\ q.at = r.at
  <2>1. CASE found = {}
    <3>1. q = [r EXCEPT !.todo = todo, !.args = rest, !.make = make]
      BY <1>4, <2>1
    <3>2. /\ Fields(q) /\ q.task = r.task /\ q.at = r.at /\ q.todo = todo /\ q.args = rest /\ q.make = make
      BY <1>15, <3>1 DEF Fields
    <3>3. Named(make, n, key)
      BY <1>3, NamedIs
    <3>4. PICK y \in Elements(w) : Append(Image(m, key), y) \in w.model[n]
      BY <1>9, <1>13 DEF Values
    <3>5. MakeOK(w, m, struct, make)
      <4>1. key \in Seq(struct.support) /\ Len(key) = Arity(n)
        BY <1>1, <1>7, <1>12
      <4> QED
        BY <1>9, <3>3, <3>4, <4>1, NamedOK
    <3>6. make # <<>> /\ make[1] = n /\ make[2] = key
      BY <3>3 DEF Named
    <3>7. q.args \in Seq(struct.support)
      BY <1>7, <1>12, <3>2
    <3>8. FactOK(world, Certificate(world), meaning, struct, q)
      BY <1>7, <1>14, <3>2, <3>5, <3>6, <3>7 DEF FactOK
    <3> QED
      BY <3>2, <3>8
  <2>2. CASE found # {}
    <3>1. q = [r EXCEPT !.todo = todo, !.args = args]
      BY <1>4, <2>2
    <3>2. /\ Fields(q) /\ q.task = r.task /\ q.at = r.at /\ q.todo = todo /\ q.args = args /\ q.make = r.make
      BY <1>15, <3>1 DEF Fields
    <3>3. x \in found
      BY <1>3, <2>2, OnlyIs
    <3>4. x \in S /\ Append(Image(m, key), m[x]) \in w.model[n]
      <4>1. PICK s0 : s0 = State
        OBVIOUS
      <4>2. StateOK(w, m, Hands, s0) /\ IsModel(w) /\ s0.struct = struct
        BY <1>7, <4>1, StateIs, WorldIs DEF IInv, WorldOK
      <4>3. TablesOK(w, m, s0.struct) /\ n \in FunctionNames \cap DOMAIN w.model /\ x \in Find(s0, n, key)
        BY <1>2, <1>9, <3>3, <4>1, <4>2 DEF StateOK
      <4> QED
        BY <1>7, <4>2, <4>3, FindIs
    <3>5. m[x] \in Elements(w)
      BY <1>7, <3>4, StateIs DEF IInv, StateOK, RepsOK
    <3>6. args \in Seq(S)
      BY <1>3, <1>12, <3>4
    <3>7. Image(m, args) = Append(Image(m, rest), m[x])
      BY <1>3, <1>12, <3>4, ImageAppend
    <3>8. [todo |-> todo, stack |-> Image(m, args)] \in facts
      BY <1>14, <3>4, <3>5, <3>7
    <3>9. FactOK(world, Certificate(world), meaning, struct, q)
      BY <1>5, <1>7, <3>2, <3>6, <3>8 DEF FactOK
    <3> QED
      BY <3>2, <3>9
  <2> QED
    BY <2>1, <2>2
<1>17. q.at = 0 /\ q.task = "assume"
  BY <1>5, <1>15, <1>16 DEF WorkerOK, Runs
<1>18. WorkerOK(world, Certificate(world), meaning, struct, q)
  BY <1>16, <1>17 DEF WorkerOK, Runs
<1>19. \A v \in Thread : th[v].task # "merge"
  BY <1>1, <1>5, NoneMerges
<1>20. th[t].task \notin {"merging", "merge"} /\ q.task \notin {"merging", "merge"}
  BY <1>1, <1>5, <1>17
<1>21. world' = world /\ UNCHANGED <<struct, meaning, merges, events>> /\ RestOK'
  BY <1>5, RestKeeps DEF Unchanged
<1> QED
  BY <1>6, <1>18, <1>19, <1>20, <1>21, StillOK

\* A term has been made, and its entry is to be.
LEMMA EntryMade ==
  ASSUME NEW w, NEW m, NEW str, NEW make, MakeOK(w, m, str, make), Len(make) = 3
  PROVE  /\ make[1] \in DOMAIN w.model /\ make[2] \in Seq(str.support) /\ make[3] \in str.support
         /\ Append(Image(m, make[2]), m[make[3]]) \in w.model[make[1]]
<1>1. make # <<make[1], make[2]>>
  OBVIOUS
<1> QED
  BY <1>1 DEF MakeOK, TermOK

\* The entry of a term that was made an ob of is inserted.
LEMMA MakeEntryStep ==
  ASSUME IInv, NEW t \in Thread, MakeEntry(t)
  PROVE  IInv'
<1>1. PICK r, n, key, y, none, args, u, s :
        /\ r = th[t] /\ n = r.make[1] /\ key = r.make[2] /\ y = r.make[3] /\ none = <<>>
        /\ args = Append(r.args, y) /\ u = Append(key, y) /\ s = Insert(State, n, u)
  OBVIOUS
<1>2. PICK q : q = IF r.task = "sample" THEN Idle ELSE [r EXCEPT !.make = none, !.args = args]
  OBVIOUS
<1>3. Len(r.make) = 3 /\ Unchanged
  BY <1>1 DEF MakeEntry
<1>4. Become(t, q, s)
  <2>1. q = IF r.task = "sample" THEN Idle ELSE [r EXCEPT !.make = <<>>, !.args = Append(@, r.make[3])]
    BY <1>1, <1>2
  <2> QED
    BY <1>1, <2>1, Zenon DEF MakeEntry
<1>5. WorkerOK(world, Certificate(world), meaning, struct, r) /\ Fields(r)
  BY <1>1 DEF IInv, WorkerOK
<1>6. r.task \in {"sample", "assume"} /\ r.make # <<>>
  <2>1. r.make # <<>>
    BY <1>3
  <2> QED
    BY <1>5, <2>1 DEF WorkerOK
<1>7. MakeOK(world, meaning, struct, r.make)
  BY <1>5, <1>6 DEF WorkerOK, FactOK
<1>8. PICK w, m, S : w = world /\ m = meaning /\ S = struct.support
  OBVIOUS
<1>9. n \in DOMAIN w.model /\ key \in Seq(S) /\ y \in S /\ Append(Image(m, key), m[y]) \in w.model[n]
  BY <1>1, <1>3, <1>7, <1>8, EntryMade
<1>10. Grows(world, meaning, Hands, State, s)
  <2>1. PICK s0 : s0 = State
    OBVIOUS
  <2>2. StateOK(w, m, Hands, s0) /\ w.dim \in Nat /\ IsModel(w) /\ s0.struct = struct
    BY <1>8, <2>1, StateIs, WorldIs DEF IInv, WorldOK
  <2>3. True(w, m, s0.struct, n, u)
    <3>1. key \in Seq(s0.struct.support) /\ y \in s0.struct.support
      BY <1>8, <1>9, <2>2
    <3> QED
      BY <1>1, <1>9, <3>1, EntryOK
  <2>4. Grows(w, m, Hands, s0, Insert(s0, n, u))
    BY <1>9, <2>2, <2>3, InsertOK
  <2> QED
    BY <1>1, <1>8, <2>1, <2>4
<1>11. s.struct.support = S
  BY <1>8, <1>10, StateIs DEF Grows
<1>12. (q.task = "idle" \/ q.task = r.task) /\ WorkerOK(world, Certificate(world), meaning, s.struct, q)
  <2>1. CASE r.task = "sample"
    <3>1. q = Idle
      BY <1>2, <2>1
    <3> QED
      BY <3>1, IdleOK
  <2>2. CASE r.task # "sample"
    <3>1. q = [r EXCEPT !.make = none, !.args = args]
      BY <1>2, <2>2
    <3>2. /\ Fields(q) /\ q.task = r.task /\ q.at = r.at /\ q.todo = r.todo /\ q.args = args /\ q.make = none
      BY <1>5, <3>1 DEF Fields
    <3>3. r.task = "assume" /\ r.at = 0 /\ FactOK(w, Certificate(world), m, struct, r)
      BY <1>5, <1>6, <1>8, <2>2 DEF WorkerOK, Runs
    <3>4. /\ r.args \in Seq(S)
          /\ \A z \in Elements(w) : Append(Image(m, key), z) \in w.model[n] =>
               [todo |-> r.todo, stack |-> Append(Image(m, r.args), z)] \in Certificate(world).facts
      BY <1>1, <1>6, <1>8, <3>3 DEF FactOK
    <3>5. m[y] \in Elements(w)
      BY <1>8, <1>9, StateIs DEF IInv, StateOK, RepsOK
    <3>6. args \in Seq(S) /\ Image(m, args) = Append(Image(m, r.args), m[y])
      <4>1. Image(m, args) = Append(Image(m, r.args), m[y])
        BY <1>1, <1>9, <3>4, ImageAppend
      <4>2. args \in Seq(S)
        BY <1>1, <1>9, <3>4
      <4> QED
        BY <4>1, <4>2
    <3>7. [todo |-> q.todo, stack |-> Image(m, q.args)] \in Certificate(world).facts
      BY <1>9, <3>2, <3>4, <3>5, <3>6
    <3>8. q.args \in Seq(s.struct.support) /\ q.make = <<>>
      BY <1>1, <1>11, <3>2, <3>6
    <3>9. FactOK(world, Certificate(world), meaning, s.struct, q)
      BY <1>8, <3>7, <3>8 DEF FactOK
    <3>10. q.task = "assume" /\ q.at = 0
      BY <3>2, <3>3
    <3>11. WorkerOK(world, Certificate(world), meaning, s.struct, q)
      BY <3>2, <3>9, <3>10 DEF WorkerOK, Runs
    <3> QED
      BY <3>2, <3>11
  <2> QED
    BY <2>1, <2>2
<1>13. th[t].task \notin {"merging", "merge"}
  BY <1>1, <1>6
<1> QED
  BY <1>1, <1>3, <1>4, <1>10, <1>12, <1>13, GrowStep

\* The last word of a fact.
LEMMA OneLeft ==
  ASSUME NEW q, q \in Seq(Range(q)), Len(q) = 1
  PROVE  q = <<Head(q)>>
<1>1. PICK X : X = Range(q)
  OBVIOUS
<1>2. q \in Seq(X)
  BY <1>1
<1> QED
  BY <1>2

\* A fact whose terms all have obs is inserted.
LEMMA AssumeFactStep ==
  ASSUME IInv, NEW t \in Thread, AssumeFact(t)
  PROVE  IInv'
<1>1. PICK r, n, x, y, s, q : /\ r = th[t] /\ n = Head(r.todo) /\ x = r.args[1] /\ y = r.args[2] /\ q = Idle
                              /\ s = IF n = "EQUAL" THEN Merge(State, x, y) ELSE Insert(State, n, r.args)
  OBVIOUS
<1>2. r.task = "assume" /\ r.make = <<>> /\ Len(r.todo) = 1 /\ Unchanged
  BY <1>1 DEF AssumeFact
<1>3. Become(t, q, s)
  BY <1>1, Zenon DEF AssumeFact
<1>4. PICK w, m, S, f, s0 : /\ w = world /\ m = meaning /\ S = struct.support /\ s0 = State
                            /\ f = [todo |-> r.todo, stack |-> Image(m, r.args)]
  OBVIOUS
<1>5. f.todo = r.todo /\ f.stack = Image(m, r.args) /\ Asserts(w, f) /\ r.args \in Seq(S)
  BY <1>1, <1>2, <1>4, AssumingOK
<1>6. r.todo = <<n>>
  <2>1. r.todo \in Seq(Range(r.todo))
    BY <1>5 DEF Asserts
  <2> QED
    BY <1>1, <1>2, <2>1, OneLeft
<1>7. StateOK(w, m, Hands, s0) /\ w.dim \in Nat /\ IsModel(w) /\ s0.struct = struct
  BY <1>4, StateIs, WorldIs DEF IInv, WorldOK
<1>8. Grows(w, m, Hands, s0, s)
  <2>1. CASE n = "EQUAL"
    <3>1. Len(f.stack) = 2 /\ f.stack[1] = f.stack[2]
      BY <1>5, <1>6, <2>1 DEF Asserts
    <3>2. Len(r.args) = 2 /\ m[x] = m[y]
      <4>1. Len(r.args) = 2
        BY <1>5, <3>1, ImageIs
      <4>2. 1 \in DOMAIN r.args /\ 2 \in DOMAIN r.args
        BY <1>5, <4>1
      <4>3. f.stack[1] = m[x] /\ f.stack[2] = m[y]
        BY <1>1, <1>5, <4>2, ImageAt
      <4> QED
        BY <3>1, <4>1, <4>3
    <3>3. x \in S /\ y \in S
      BY <1>1, <1>5, <3>2
    <3>4. x \in s0.struct.support /\ y \in s0.struct.support
      BY <1>4, <1>7, <3>3
    <3>5. Joins(w, m, Hands, s0, Merge(s0, x, y))
      BY <1>7, <3>2, <3>4, MergeOK
    <3>6. s = Merge(s0, x, y)
      BY <1>1, <1>4, <2>1
    <3> QED
      BY <3>5, <3>6 DEF Joins, Grows
  <2>2. CASE n # "EQUAL"
    <3>1. f.todo # <<"EQUAL">>
      BY <1>5, <1>6, <2>2
    <3>2. n \in DOMAIN w.model /\ f.stack \in w.model[n]
      BY <1>1, <1>2, <1>5, <3>1 DEF Asserts
    <3>3. True(w, m, s0.struct, n, r.args)
      BY <1>4, <1>5, <1>7, <3>2 DEF True
    <3>4. Grows(w, m, Hands, s0, Insert(s0, n, r.args))
      BY <1>7, <3>2, <3>3, InsertOK
    <3>5. s = Insert(s0, n, r.args)
      BY <1>1, <1>4, <2>2
    <3> QED
      BY <3>4, <3>5
  <2> QED
    BY <2>1, <2>2
<1>9. Grows(world, meaning, Hands, State, s)
  BY <1>4, <1>8
<1>10. q.task = "idle" /\ WorkerOK(world, Certificate(world), meaning, s.struct, q)
  BY <1>1, IdleOK
<1>11. th[t].task \notin {"merging", "merge"}
  BY <1>1, <1>2
<1> QED
  BY <1>2, <1>3, <1>9, <1>10, <1>11, GrowStep

\* The values of a term in the model.
ValuesAt(w, n, k) == {Last(v) : v \in {z \in w.model[n] : Front(z) = k}}

\* A term that has a value in the model has the one that its ob will denote.
LEMMA ValueIs ==
  ASSUME NEW w, IsModel(w), NEW n \in DOMAIN w.model, NEW k, NEW y, k \in Seq(Elements(w)), y \in Elements(w),
         Append(k, y) \in w.model[n], NEW e, e = Only(ValuesAt(w, n, k))
  PROVE  e \in Elements(w) /\ Append(k, e) \in w.model[n]
<1>1. PICK u : u = Append(k, y)
  OBVIOUS
<1>2. Front(u) = k /\ Last(u) = y
  BY <1>1 DEF Front, Last
<1>3. y \in ValuesAt(w, n, k)
  BY <1>1, <1>2 DEF ValuesAt
<1>4. e \in ValuesAt(w, n, k)
  BY <1>3, OnlyIs
<1>5. PICK v \in w.model[n] : Front(v) = k /\ e = Last(v)
  BY <1>4 DEF ValuesAt
<1>6. IsEntry(n, v)
  BY DEF IsModel
<1>7. v \in Seq(Range(v)) /\ Len(v) >= 1
  <2>1. v \in Seq(Range(v)) /\ Len(v) \in 1 .. 3
    BY <1>6, Zenon DEF IsEntry
  <2>2. PICK l : l = Len(v)
    OBVIOUS
  <2>3. l \in 1 .. 3
    BY <2>1, <2>2
  <2>4. l >= 1
    BY <2>3
  <2> QED
    BY <2>1, <2>2, <2>4, Zenon
<1>8. PICK X : X = Range(v)
  OBVIOUS
<1>9. v \in Seq(X)
  BY <1>7, <1>8
<1>10. Last(v) \in X /\ v = Append(Front(v), Last(v))
  BY <1>7, <1>9, FrontLast
<1>11. \A i \in DOMAIN v : v[i] \in Elements(w)
  <2> DEFINE E(d) == {d[i] : i \in DOMAIN d}
             U(q) == UNION {E(d) : d \in w.model[q]}
  <2>1. \A i \in DOMAIN v : v[i] \in E(v)
    BY Zenon
  <2>2. Elements(w) = {w.meaning[x] : x \in 1 .. w.count} \cup UNION {U(q) : q \in DOMAIN w.model}
    BY Zenon DEF Elements
  <2> HIDE DEF E
  <2>3. \A i \in DOMAIN v : v[i] \in U(n)
    BY <2>1
  <2> HIDE DEF U
  <2> QED
    BY <2>2, <2>3
<1>12. e \in Elements(w)
  BY <1>5, <1>8, <1>10, <1>11 DEF Range
<1> QED
  BY <1>5, <1>10, <1>12

\* A worker has made the ob of its term.
Makes(r, q, n, key, new) ==
  /\ r.make # <<>> /\ n = r.make[1] /\ key = r.make[2]
  /\ q = [r EXCEPT !.make = <<n, key, new>>]

HasValue(w, m, n, key, y) == Append(Image(m, key), m[y]) \in w.model[n]

\* A worker that has made the ob of its term is as it is required to be.
LEMMA MadeOK ==
  ASSUME NEW w, NEW cert, NEW m, NEW str, NEW r, WorkerOK(w, cert, m, str, r), r.task \in {"sample", "assume"},
         NEW n, NEW key, NEW new, new \in str.support, NEW q, Makes(r, q, n, key, new),
         HasValue(w, m, n, key, new)
  PROVE  WorkerOK(w, cert, m, str, q) /\ q.task = r.task
<1>8. Append(Image(m, key), m[new]) \in w.model[n]
  BY DEF HasValue
<1>0. PICK make : make = <<n, key, new>>
  OBVIOUS
<1>7. r.make # <<>> /\ n = r.make[1] /\ key = r.make[2] /\ q = [r EXCEPT !.make = make]
  BY <1>0, Zenon DEF Makes
<1>1. Fields(r) /\ r.at = 0 /\ MakeOK(w, m, str, r.make)
  BY <1>7 DEF WorkerOK, FactOK, Runs
<1>2. /\ Fields(q) /\ q.task = r.task /\ q.at = 0 /\ q.todo = r.todo /\ q.args = r.args /\ q.make = make
  BY <1>1, <1>7 DEF Fields
<1>3. make[1] = n /\ make[2] = key /\ make[3] = new /\ make # <<>> /\ make = <<make[1], make[2], make[3]>>
  BY <1>0
<1>4. TermOK(w, m, str, make)
  BY <1>1, <1>3, <1>7 DEF MakeOK, TermOK
<1>5. MakeOK(w, m, str, make)
  BY <1>3, <1>4, <1>8 DEF MakeOK
<1>6. ASSUME r.task = "assume" PROVE FactOK(w, cert, m, str, q)
  <2>1. /\ r.args \in Seq(str.support)
        /\ \A y \in Elements(w) : Append(Image(m, r.make[2]), y) \in w.model[r.make[1]] =>
               [todo |-> r.todo, stack |-> Append(Image(m, r.args), y)] \in cert.facts
    BY <1>6, <1>7 DEF WorkerOK, FactOK
  <2>2. \A y \in Elements(w) : Append(Image(m, q.make[2]), y) \in w.model[q.make[1]] =>
               [todo |-> q.todo, stack |-> Append(Image(m, q.args), y)] \in cert.facts
    BY <1>2, <1>3, <1>7, <2>1
  <2> QED
    BY <1>2, <1>3, <1>5, <2>1, <2>2 DEF FactOK
<1> QED
  BY <1>2, <1>5, <1>6 DEF WorkerOK, Runs

\* There is another ob.
Carries(s, s2, new, rep2, ev2) ==
  /\ s2 = [struct |-> [support |-> s.struct.support \cup {new}, rep |-> rep2, table |-> s.struct.table],
           events |-> ev2, merges |-> s.merges]
  /\ rep2 = [s.struct.rep EXCEPT ![new] = new]
  /\ ev2 = [s.events EXCEPT !["exists"] = Append(@, <<new>>)]

Denotes(m2, m, new, e) == m2 = [m EXCEPT ![new] = e]

\* A state with an ob more is as required, and what it had stays so.
LEMMA NewObOK ==
  ASSUME NEW w, NEW m, NEW hands, NEW s, StateOK(w, m, hands, s), NEW new, new \in 1 .. w.dim,
         new \notin s.struct.support, DOMAIN m = 1 .. w.dim, NEW e, e \in Elements(w),
         NEW m2, Denotes(m2, m, new, e), NEW s2, NEW rep2, NEW ev2, Carries(s, s2, new, rep2, ev2)
  PROVE  /\ StateOK(w, m2, hands, s2) /\ Above(w, m, s.struct, m2, s2.struct)
         /\ new \in s2.struct.support /\ m2[new] = e
<1>1. PICK S, S2, str, str2 : S = s.struct.support /\ S2 = s2.struct.support /\ str = s.struct /\ str2 = s2.struct
  OBVIOUS
<1>2. /\ Shaped(s2) /\ (\A x : x \in S2 <=> x \in S \/ x = new) /\ str2.support = S2 /\ str2.rep = rep2
      /\ str2.table = str.table /\ s2.events = ev2 /\ s2.merges = s.merges /\ str.support = S
  <2>1. PICK S3 : S3 = S \cup {new}
    OBVIOUS
  <2>2. \A x : x \in S3 <=> x \in S \/ x = new
    BY <2>1
  <2>3. s2 = [struct |-> [support |-> S3, rep |-> rep2, table |-> str.table], events |-> ev2, merges |-> s.merges]
    BY <1>1, <2>1 DEF Carries
  <2> HIDE <2>1
  <2>4. s2.struct = [support |-> S3, rep |-> rep2, table |-> str.table] /\ s2.events = ev2 /\ s2.merges = s.merges
    BY <2>3
  <2>5. str2.support = S3 /\ str2.rep = rep2 /\ str2.table = str.table
    BY <1>1, <2>4
  <2>6. Shaped(s2)
    BY <2>3, <2>4 DEF Shaped
  <2> QED
    BY <1>1, <2>2, <2>4, <2>5, <2>6
<1>3. RepsOK(w, m, str) /\ TablesOK(w, m, str) /\ EventsOK(w, m, str, s.events) /\ MergesOK(str, hands, s.merges)
  BY <1>1 DEF StateOK
<1>4. S \subseteq 1 .. w.dim /\ DOMAIN str.rep = 1 .. w.dim
  BY <1>2, <1>3 DEF RepsOK
<1>5. /\ DOMAIN rep2 = 1 .. w.dim /\ rep2[new] = new /\ \A x \in 1 .. w.dim : x # new => rep2[x] = str.rep[x]
  <2>1. rep2 = [str.rep EXCEPT ![new] = new]
    BY <1>1 DEF Carries
  <2> QED
    BY <1>4, <2>1
<1>6. m2[new] = e /\ \A x \in 1 .. w.dim : x # new => m2[x] = m[x]
  BY DEF Denotes
<1>7. new \notin S
  BY <1>1
<1>8. \A x \in S : x # new /\ rep2[x] = str.rep[x] /\ m2[x] = m[x]
  BY <1>4, <1>5, <1>6, <1>7
<1>9. RepsOK(w, m2, str2)
  <2>1. ASSUME NEW x \in S2
        PROVE  /\ rep2[x] \in S2 /\ rep2[x] <= x
               /\ rep2[rep2[x]] = rep2[x]
               /\ m2[rep2[x]] = m2[x] /\ m2[x] \in Elements(w)
    <3>1. CASE x = new
      BY <1>2, <1>5, <1>6, <3>1
    <3>2. CASE x \in S
      <4>1. /\ str.rep[x] \in S /\ str.rep[x] <= x /\ str.rep[str.rep[x]] = str.rep[x]
            /\ m[str.rep[x]] = m[x] /\ m[x] \in Elements(w)
        BY <1>2, <1>3, <3>2 DEF RepsOK
      <4> QED
        BY <1>2, <1>8, <3>2, <4>1
    <3> QED
      BY <1>2, <2>1, <3>1, <3>2
  <2>2. S2 \subseteq 1 .. w.dim
    BY <1>2, <1>4
  <2> QED
    BY <1>2, <1>5, <2>1, <2>2 DEF RepsOK
<1>10. Above(w, m, str, m2, str2)
  BY <1>2, <1>8 DEF Above
<1>11. \A n, u : True(w, m, str, n, u) => True(w, m2, str2, n, u)
  BY <1>10, SeqAbove DEF True
<1>12. \A n, u : Telling(w, m, str, n, u) => Telling(w, m2, str2, n, u)
  BY <1>10, <1>11, SeqAbove DEF Telling
<1>13. TablesOK(w, m2, str2)
  BY <1>2, <1>3, <1>11 DEF TablesOK
<1>14. EventsOK(w, m2, str2, ev2)
  <2>1. PICK ev, q, one, q2, ex : /\ ev = s.events /\ ex = "exists" /\ q = ev[ex] /\ one = <<new>> /\ q2 = Append(q, one)
    OBVIOUS
  <2>2. /\ DOMAIN ev = {ex} \cup Told
        /\ \A k \in DOMAIN ev : ev[k] \in Seq(Range(ev[k])) /\ \A u \in Range(ev[k]) : Telling(w, m, str, k, u)
    BY <1>3, <2>1 DEF EventsOK
  <2>3. ev2 = [ev EXCEPT ![ex] = q2]
    BY <2>1 DEF Carries
  <2>4. DOMAIN ev2 = {ex} \cup Told /\ ev2[ex] = q2 /\ \A k \in DOMAIN ev : k # ex => ev2[k] = ev[k]
    BY <2>2, <2>3
  <2>5. q \in Seq(Range(q))
    BY <2>1, <2>2
  <2>6. Appended(q, one, q2)
    BY <2>1, <2>5, AppendRange
  <2>7. Single(S2, new, one)
    <3>1. new \in S2
      BY <1>2
    <3> QED
      BY <2>1, <3>1, SingleIs
  <2>8. Telling(w, m2, str2, ex, one)
    BY <1>2, <2>1, <2>7 DEF Telling, Single
  <2>9. \A u \in Range(q2) : Telling(w, m2, str2, ex, u)
    BY <1>12, <2>1, <2>2, <2>6, <2>8 DEF Appended
  <2>10. q2 \in Seq(Range(q2))
    <3>1. PICK R : R = Range(q2)
      OBVIOUS
    <3>2. one \in R /\ \A y \in Range(q) : y \in R
      BY <2>6, <3>1 DEF Appended
    <3>3. q \in Seq(R)
      BY <2>5, <3>2, SeqSub
    <3>4. q2 \in Seq(R)
      <4>1. PICK z : z = one
        OBVIOUS
      <4>2. q2 = Append(q, z) /\ z \in R
        BY <2>1, <3>2, <4>1
      <4> HIDE <4>1
      <4> QED
        BY <3>3, <4>2
    <3> QED
      BY <3>1, <3>4
  <2>11. ASSUME NEW k \in DOMAIN ev2
         PROVE  ev2[k] \in Seq(Range(ev2[k])) /\ \A u \in Range(ev2[k]) : Telling(w, m2, str2, k, u)
    BY <1>12, <2>2, <2>4, <2>9, <2>10, <2>11
  <2> QED
    BY <2>1, <2>4, <2>11 DEF EventsOK
<1>15. MergesOK(str2, hands, s.merges)
  <2>1. PICK mg : mg = s.merges
    OBVIOUS
  <2>2. /\ mg \in Seq(S) /\ hands \subseteq S
        /\ \A d \in hands \cup Range(mg) : str.rep[d] # d
        /\ Range(mg) \cap hands = {}
        /\ \A i, j \in DOMAIN mg : i # j => mg[i] # mg[j]
    BY <1>2, <1>3, <2>1 DEF MergesOK
  <2>3. S \subseteq S2
    BY <1>2
  <2>4. mg \in Seq(S2)
    BY <2>2, <2>3, SeqSub
  <2>5. \A d \in Range(mg) : d \in S
    <3>1. \A i \in DOMAIN mg : mg[i] \in S
      BY <2>2, SeqAt
    <3> QED
      BY <3>1 DEF Range
  <2>6. \A d \in hands \cup Range(mg) : rep2[d] # d
    BY <1>8, <2>2, <2>5
  <2>7. hands \subseteq S2
    BY <2>2, <2>3
  <2> QED
    BY <1>2, <2>1, <2>2, <2>4, <2>6, <2>7 DEF MergesOK
<1>16. StateOK(w, m2, hands, s2)
  BY <1>1, <1>2, <1>9, <1>13, <1>14, <1>15 DEF StateOK
<1> QED
  BY <1>1, <1>2, <1>6, <1>10, <1>16

\* The state with another ob.
LEMMA CarriesIs ==
  ASSUME NEW s, Shaped(s), NEW new, NEW one, one = <<new>>, NEW s2,
         s2 = [s EXCEPT !.struct.support = @ \cup {new}, !.struct.rep[new] = new,
                        !.events["exists"] = Append(@, one)]
  PROVE  \E rep2, ev2 : Carries(s, s2, new, rep2, ev2)
<1>1. PICK str, S, rep, tab, ev, mg : /\ str = s.struct /\ S = str.support /\ rep = str.rep /\ tab = str.table
                                      /\ ev = s.events /\ mg = s.merges
  OBVIOUS
<1>2. s = [struct |-> str, events |-> ev, merges |-> mg] /\ str = [support |-> S, rep |-> rep, table |-> tab]
  BY <1>1 DEF Shaped
<1>3. PICK S3, rep2, ex, q2, ev2 : /\ S3 = S \cup {new} /\ rep2 = [rep EXCEPT ![new] = new]
                                   /\ ex = "exists" /\ q2 = Append(ev[ex], one)
                                   /\ ev2 = [ev EXCEPT ![ex] = q2]
  OBVIOUS
<1>4. PICK z1, z2 : z1 = [s EXCEPT !.struct.support = S3] /\ z2 = [z1 EXCEPT !.struct.rep[new] = new]
  OBVIOUS
<1>5. s2 = [z2 EXCEPT !.events["exists"] = Append(@, one)]
  <2>1. s.struct.support \cup {new} = S3
    BY <1>1, <1>3, Zenon
  <2>2. z1 = [s EXCEPT !.struct.support = @ \cup {new}]
    BY <1>4, <2>1, Zenon
  <2>3. s2 = [[z1 EXCEPT !.struct.rep[new] = new] EXCEPT !.events["exists"] = Append(@, one)]
    BY <2>2, Zenon
  <2> QED
    BY <1>4, <2>3, Zenon
<1>6. z1 = [struct |-> [support |-> S3, rep |-> rep, table |-> tab], events |-> ev, merges |-> mg]
  BY <1>2, <1>4
<1>7. PICK str2 : str2 = [support |-> S3, rep |-> rep2, table |-> tab]
  OBVIOUS
<1>8. z2 = [struct |-> str2, events |-> ev, merges |-> mg]
  <2>1. z1.struct = [support |-> S3, rep |-> rep, table |-> tab] /\ z1.events = ev /\ z1.merges = mg
    BY <1>6
  <2>2. z1.struct.rep = rep
    BY <2>1
  <2>3. z2 = [z1 EXCEPT !.struct.rep = rep2]
    BY <1>3, <1>4, <2>2, Zenon
  <2>4. PICK str1 : str1 = [support |-> S3, rep |-> rep, table |-> tab]
    OBVIOUS
  <2>5. [str1 EXCEPT !.rep = rep2] = str2
    BY <1>7, <2>4
  <2>6. z2 = [z1 EXCEPT !.struct = [str1 EXCEPT !.rep = rep2]]
    BY <2>1, <2>3, <2>4, Zenon
  <2>7. z2 = [z1 EXCEPT !.struct = str2]
    BY <2>5, <2>6, Zenon
  <2>8. z1 = [struct |-> str1, events |-> ev, merges |-> mg]
    BY <1>6, <2>4, Zenon
  <2> HIDE <1>3, <1>7, <2>4
  <2> QED
    BY <2>7, <2>8
<1>9. s2 = [struct |-> str2, events |-> ev2, merges |-> mg]
  <2>1. z2.events = ev
    BY <1>8
  <2>2. s2 = [z2 EXCEPT !.events = ev2]
    BY <1>3, <1>5, <2>1, Zenon
  <2> HIDE <1>3, <1>7
  <2> QED
    BY <1>8, <2>2
<1>10. s2 = [struct |-> [support |-> s.struct.support \cup {new}, rep |-> rep2, table |-> s.struct.table],
             events |-> ev2, merges |-> s.merges]
  BY <1>1, <1>3, <1>7, <1>9, Zenon
<1>11. rep2 = [s.struct.rep EXCEPT ![new] = new] /\ ev2 = [s.events EXCEPT !["exists"] = Append(@, <<new>>)]
  <2>1. rep2 = [s.struct.rep EXCEPT ![new] = new]
    BY <1>1, <1>3, Zenon
  <2>2. ev2 = [ev EXCEPT !["exists"] = Append(@, one)]
    BY <1>3, Zenon
  <2>3. ev2 = [s.events EXCEPT !["exists"] = Append(@, <<new>>)]
    BY <1>1, <2>2, Zenon
  <2> QED
    BY <2>1, <2>3
<1> QED
  BY <1>10, <1>11, Zenon DEF Carries

\* The new ob is one.
LEMMA NewIs ==
  ASSUME NEW d \in Nat, NEW S, S \subseteq 1 .. d, S # 1 .. d, NEW new, new = Min((1 .. d) \ S)
  PROVE  new \in 1 .. d /\ new \notin S
<1>1. PICK T : T = (1 .. d) \ S
  OBVIOUS
<1>2. T \in SUBSET Nat /\ T # {}
  <2>1. PICK D : D = 1 .. d
    OBVIOUS
  <2>2. PICK x \in D : x \notin S
    BY <2>1
  <2>3. x \in T
    BY <1>1, <2>1, <2>2
  <2>4. \A z \in T : z \in Nat
    BY <1>1
  <2> QED
    BY <2>3, <2>4
<1>3. Min(T) \in T
  BY <1>2, MinIs
<1> QED
  BY <1>1, <1>3

\* A term that has no ob yet.
LEMMA TermLeft ==
  ASSUME NEW w, NEW m, NEW str, NEW make, MakeOK(w, m, str, make), Len(make) = 2
  PROVE  TermOK(w, m, str, make) /\ make = <<make[1], make[2]>>
<1>1. make # <<make[1], make[2], make[3]>>
  OBVIOUS
<1> QED
  BY <1>1 DEF MakeOK

\* A third member.
LEMMA AppendTwo ==
  ASSUME NEW a, NEW b, NEW c, NEW u, u = <<a, b>>, NEW v, v = Append(u, c)
  PROVE  v = <<a, b, c>>
<1>1. PICK X : a \in X /\ b \in X /\ c \in X
  <2>1. PICK X : X = {a, b, c}
    OBVIOUS
  <2> QED
    BY <2>1
<1>2. u \in Seq(X) /\ Len(u) = 2 /\ u[1] = a /\ u[2] = b
  BY <1>1
<1>3. v \in Seq(X) /\ Len(v) = 3 /\ v[1] = a /\ v[2] = b /\ v[3] = c
  BY <1>1, <1>2
<1>4. PICK z : z = <<a, b, c>>
  OBVIOUS
<1>5. z \in Seq(X) /\ Len(z) = 3 /\ z[1] = a /\ z[2] = b /\ z[3] = c
  BY <1>1, <1>4
<1>6. \A i \in 1 .. 3 : v[i] = z[i]
  <2>1. \A i \in 1 .. 3 : i = 1 \/ i = 2 \/ i = 3
    OBVIOUS
  <2> QED
    BY <1>3, <1>5, <2>1
<1>8. v = z
  <2>1. Len(v) = Len(z) /\ \A i \in 1 .. Len(v) : v[i] = z[i]
    BY <1>3, <1>5, <1>6
  <2>2. v \in Seq(X) /\ z \in Seq(X)
    BY <1>3, <1>5
  <2> QED
    BY <2>1, <2>2, SeqEqual
<1> QED
  BY <1>4, <1>8

\* An ob is made of a term.
LEMMA MakeObStep ==
  ASSUME IInv, NEW t \in Thread, MakeOb(t)
  PROVE  IInv'
<1>1. PICK r, new, n, key, one, make : /\ r = th[t] /\ new = Min(Ob \ struct.support)
                                       /\ n = r.make[1] /\ key = r.make[2]
                                       /\ one = <<new>> /\ make = Append(r.make, new)
  OBVIOUS
<1>0. PICK s2 : s2 = [State EXCEPT !.struct.support = @ \cup {new}, !.struct.rep[new] = new,
                                   !.events["exists"] = Append(@, one)]
  OBVIOUS
<1>2. PICK q, e, k : /\ q = [r EXCEPT !.make = make] /\ k = Image(meaning, key)
                     /\ e = Only(ValuesAt(world, n, k))
  OBVIOUS
<1>3. Len(r.make) = 2 /\ struct.support # Ob /\ UNCHANGED <<world, assumed, cleanup>>
  BY <1>1 DEF MakeOb
<1>4. Become(t, q, s2)
  <2>1. q = [r EXCEPT !.make = Append(@, new)]
    BY <1>1, <1>2
  <2>2. s2 = [State EXCEPT !.struct.support = @ \cup {new}, !.struct.rep[new] = new,
                           !.events["exists"] = Append(@, <<new>>)]
    BY <1>0, <1>1, Zenon
  <2> QED
    BY <1>1, <2>1, <2>2, Zenon DEF MakeOb
<1>5. meaning' = [meaning EXCEPT ![new] = e]
  <2>1. meaning' = [meaning EXCEPT ![new] =
              Only({Last(u) : u \in {v \in world.model[n] :
                      Front(v) = [i \in DOMAIN key |-> meaning[key[i]]]}})]
    BY <1>1, Zenon DEF MakeOb
  <2> QED
    BY <1>2, <2>1, Zenon DEF ValuesAt, Image
<1>6. PICK w, m, cert, H, s0 : w = world /\ m = meaning /\ cert = Certificate(world) /\ H = Hands /\ s0 = State
  OBVIOUS
<1>7. /\ StateOK(w, m, H, s0) /\ w.dim \in Nat /\ IsModel(w) /\ s0.struct = struct /\ DOMAIN m = 1 .. w.dim
      /\ Ob = 1 .. w.dim
  BY <1>6, StateIs, WorldIs DEF IInv, WorldOK, Ob, Dim
<1>8. new \in 1 .. w.dim /\ new \notin struct.support
  <2>1. struct.support \subseteq 1 .. w.dim
    BY <1>7 DEF StateOK, RepsOK
  <2> QED
    BY <1>1, <1>3, <1>7, <2>1, NewIs
<1>9. WorkerOK(w, cert, m, struct, r) /\ Fields(r)
  BY <1>1, <1>6 DEF IInv, WorkerOK
<1>10. r.make # <<>> /\ Len(r.make) # 3
  BY <1>3
<1>11. r.task \in {"sample", "assume"}
  BY <1>9, <1>10 DEF WorkerOK
<1>12. MakeOK(w, m, struct, r.make)
  BY <1>9, <1>10, <1>11 DEF WorkerOK, FactOK
<1>13. TermOK(w, m, struct, r.make) /\ r.make = <<n, key>>
  <2>1. TermOK(w, m, struct, r.make) /\ r.make = <<r.make[1], r.make[2]>>
    BY <1>3, <1>12, TermLeft
  <2> QED
    BY <1>1, <2>1
<1>14. make = <<n, key, new>>
  <2>1. PICK two : two = <<n, key>>
    OBVIOUS
  <2>2. make = Append(two, new)
    BY <1>1, <1>13, <2>1, Zenon
  <2> QED
    BY <2>1, <2>2, AppendTwo
<1>15. n \in DOMAIN w.model /\ key \in Seq(struct.support) /\ \E y \in Elements(w) : Append(k, y) \in w.model[n]
  BY <1>1, <1>2, <1>6, <1>13 DEF TermOK
<1>16. e \in Elements(w) /\ Append(k, e) \in w.model[n]
  <2>1. k \in Seq(Elements(w))
    <3>1. PICK S : S = struct.support
      OBVIOUS
    <3>2. \A x \in S : m[x] \in Elements(w)
      BY <1>7, <3>1 DEF StateOK, RepsOK
    <3>3. key \in Seq(S)
      BY <1>15, <3>1
    <3> QED
      BY <1>2, <1>6, <3>2, <3>3, ImageType
  <2>2. PICK y \in Elements(w) : Append(k, y) \in w.model[n]
    BY <1>15
  <2>3. e = Only(ValuesAt(w, n, k))
    BY <1>2, <1>6
  <2> QED
    BY <1>7, <1>15, <2>1, <2>2, <2>3, ValueIs
<1>17. PICK m2 : m2 = [m EXCEPT ![new] = e]
  OBVIOUS
<1>18. PICK rep2, ev2 : Carries(s0, s2, new, rep2, ev2)
  <2>1. Shaped(s0)
    BY <1>7 DEF StateOK
  <2>2. s2 = [s0 EXCEPT !.struct.support = @ \cup {new}, !.struct.rep[new] = new,
                        !.events["exists"] = Append(@, one)]
    BY <1>0, <1>6, Zenon
  <2>3. one = <<new>>
    BY <1>1
  <2> QED
    BY <2>1, <2>2, <2>3, CarriesIs, Zenon
<1>19. /\ StateOK(w, m2, H, s2) /\ Above(w, m, struct, m2, s2.struct)
       /\ new \in s2.struct.support /\ m2[new] = e
  <2>1. new \notin s0.struct.support
    BY <1>7, <1>8
  <2>2. StateOK(w, m2, H, s2) /\ Above(w, m, s0.struct, m2, s2.struct) /\ new \in s2.struct.support /\ m2[new] = e
    <3>1. Denotes(m2, m, new, e)
      BY <1>17 DEF Denotes
    <3> HIDE <1>0, <1>1, <1>2, <1>17
    <3> QED
      BY <1>7, <1>8, <1>16, <1>18, <2>1, <3>1, NewObOK
  <2> QED
    BY <1>7, <2>2
<1>20. PICK str2 : str2 = s2.struct
  OBVIOUS
<1>21. WorkerOK(w, cert, m2, str2, r)
  <2>1. PICK b : b = r.undisturbed
    OBVIOUS
  <2>2. r = [r EXCEPT !.undisturbed = b]
    BY <1>9, <2>1 DEF Fields
  <2>3. Above(w, m, struct, m2, str2)
    BY <1>19, <1>20
  <2> QED
    BY <1>9, <2>2, <2>3, WorkerAbove
<1>22. Append(Image(m2, key), m2[new]) \in w.model[n]
  <2>1. Image(m2, key) = Image(m, key)
    BY <1>15, <1>19, SeqAbove
  <2>2. k = Image(m2, key)
    BY <1>2, <1>6, <2>1
  <2> QED
    BY <1>16, <1>19, <2>2
<1>23. WorkerOK(w, cert, m2, str2, q) /\ q.task = r.task
  <2>1. Makes(r, q, n, key, new)
    <3>1. q = [r EXCEPT !.make = <<n, key, new>>]
      BY <1>2, <1>14, Zenon
    <3> QED
      BY <1>1, <1>10, <3>1, Zenon DEF Makes
  <2>2. new \in str2.support
    BY <1>19, <1>20
  <2>3. HasValue(w, m2, n, key, new)
    BY <1>22 DEF HasValue
  <2> HIDE <1>0, <1>1, <1>2
  <2> QED
    BY <1>11, <1>21, <2>1, <2>2, <2>3, MadeOK
<1>24. world' = world /\ meaning' = m2 /\ RestOK'
  <2>1. RestOK
    BY DEF IInv, RestOK
  <2>2. meaning' = m2
    BY <1>5, <1>6, <1>17
  <2>3. DOMAIN m2 = 1 .. w.dim
    BY <1>7, <1>17
  <2>4. Ob' = Ob /\ CleanupOK'
    BY <1>3, <2>1, CleanupCountKeeps DEF RestOK, CleanupOK, Ob, Dim
  <2> QED
    BY <1>3, <1>7, <2>1, <2>2, <2>3, <2>4 DEF RestOK
<1>25. /\ Above(world, meaning, struct, m2, s2.struct) /\ StateOK(world, m2, Hands, s2)
       /\ WorkerOK(world, Certificate(world), m2, s2.struct, q)
  BY <1>6, <1>19, <1>20, <1>23
<1>26. th[t].task \notin {"merging", "merge"} /\ (q.task = "idle" \/ q.task = th[t].task)
  BY <1>1, <1>11, <1>23
<1> QED
  BY <1>4, <1>24, <1>25, <1>26, BecomeOK

-----------------------------------------------------------------------------
(* How a surveyor begins.                                                  *)

\* The functions of no argument that it makes an ob for.
Missing(w) == IF w.phase = "initialize" THEN MissingFrom(w) ELSE {}

\* There is room for the obs of the missing functions, and the model has their values.
LEMMA MissingIs ==
  ASSUME NEW w, Provides(w), w.count \in Nat, NEW S, S = Missing(w)
  PROVE  /\ IsFiniteSet(S) /\ Cardinality(S) \in Nat /\ w.count + Cardinality(S) <= w.dim
         /\ \A n \in S : n \in Nullary /\ n \in DOMAIN w.tables /\ w.model[n] # {}
<1>1. CASE w.phase = "initialize"
  <2>1. S = MissingFrom(w)
    BY <1>1 DEF Missing
  <2>2. IsFiniteSet(Nullary)
    <3>1. Nullary = (({} \cup {"I"}) \cup {"K"}) \cup {"E"}
      BY DEF Nullary
    <3> QED
      BY <3>1, FS_EmptySet, FS_AddElement
  <2>3. S \in SUBSET Nullary /\ S \subseteq DOMAIN w.tables
    BY <2>1 DEF MissingFrom
  <2>4. IsFiniteSet(S) /\ Cardinality(S) \in Nat
    BY <2>2, <2>3, FS_Subset, FS_CardinalityType
  <2> QED
    BY <1>1, <2>1, <2>3, <2>4 DEF Provides
<1>2. CASE w.phase # "initialize"
  <2>1. S = {}
    BY <1>2 DEF Missing
  <2>2. IsFiniteSet(S) /\ Cardinality(S) = 0
    BY <2>1, FS_EmptySet
  <2> QED
    BY <1>2, <2>1, <2>2 DEF Provides
<1> QED
  BY <1>1, <1>2

\* As many obs as functions: each is one's.
LEMMA AllTaken ==
  ASSUME NEW S, IsFiniteSet(S), NEW k \in Nat, k = Cardinality(S), NEW c \in Nat,
         NEW new \in [S -> c + 1 .. c + k], \A a, b \in S : new[a] = new[b] => a = b,
         NEW x \in c + 1 .. c + k
  PROVE  \E n \in S : new[n] = x
<1>1. PICK T : T = c + 1 .. c + k
  OBVIOUS
<1>2. IsFiniteSet(T) /\ Cardinality(T) = k
  <2>1. PICK a, b : a = c + 1 /\ b = c + k
    OBVIOUS
  <2>2. a \in Int /\ b \in Int /\ T = a .. b
    BY <1>1, <2>1
  <2>3. IsFiniteSet(T) /\ Cardinality(T) = IF a > b THEN 0 ELSE b - a + 1
    BY <2>2, FS_Interval
  <2>4. (IF a > b THEN 0 ELSE b - a + 1) = k
    BY <2>1
  <2> QED
    BY <2>3, <2>4
<1>3. new \in Injection(S, T)
  BY <1>1 DEF Injection, IsInjective
<1>4. new \in Surjection(S, T)
  BY <1>2, <1>3, FS_Injection
<1> QED
  BY <1>1, <1>4 DEF Surjection

\* What a surveyor has made of what it was given: c obs, and new for the missing.
Begun(w, S, c, new, str, ev, m) ==
  /\ str = [support |-> 1 .. c,
            rep     |-> [x \in 1 .. w.dim |-> IF x <= c THEN x ELSE 0],
            table   |-> [n \in DOMAIN w.tables |-> IF n \in S THEN {<<new[n]>>} ELSE w.tables[n]]]
  /\ ev = [exists |-> [i \in 1 .. Cardinality(S) |-> <<w.count + i>>], LESS |-> <<>>, NLESS |-> <<>>]
  /\ m = [x \in 1 .. w.dim |->
            IF x <= w.count THEN w.meaning[x]
            ELSE IF x <= c
            THEN Only({Last(u) : u \in UNION {w.model[n] : n \in {k \in S : new[k] = x}}})
            ELSE 0]

\* What Init says, with names for what it makes.
LEMMA InitIs ==
  ASSUME Init
  PROVE  /\ \E w0 \in Worlds : world = Loaded(w0)
         /\ \E S, c, new : /\ S = Missing(world) /\ c = world.count + Cardinality(S)
                           /\ new \in [S -> world.count + 1 .. c]
                           /\ \A a, b \in S : new[a] = new[b] => a = b
                           /\ Begun(world, S, c, new, struct, events, meaning)
         /\ merges = <<>> /\ assumed = world.assume
         /\ cleanup = [done |-> IF Assumes THEN 0 ELSE CleanupCount, turn |-> 0]
         /\ th = [t \in Thread |-> Idle]
<1>1. PICK S, c : S = Missing(world) /\ c = world.count + Cardinality(S)
  OBVIOUS
<1>2. S = IF Assumes THEN {n \in DOMAIN world.tables : n \in Nullary /\ world.tables[n] = {}} ELSE {}
  <2>1. {n \in DOMAIN world.tables : n \in Nullary /\ world.tables[n] = {}} = MissingFrom(world)
    BY DEF MissingFrom
  <2> QED
    BY <1>1, <2>1, Zenon DEF Missing, Assumes
<1>3. \E new \in [S -> world.count + 1 .. c] :
        /\ \A a, b \in S : new[a] = new[b] => a = b
        /\ Begun(world, S, c, new, struct, events, meaning)
  <2> DEFINE M == IF Assumes THEN {n \in DOMAIN world.tables : n \in Nullary /\ world.tables[n] = {}} ELSE {}
  <2>1. \E new \in [M -> world.count + 1 .. world.count + Cardinality(M)] :
          /\ \A a, b \in M : new[a] = new[b] => a = b
          /\ Begun(world, M, world.count + Cardinality(M), new, struct, events, meaning)
    BY Zenon DEF Init, Begun, Ob, Dim
  <2>2. S = M
    BY <1>2
  <2> HIDE DEF M
  <2> QED
    BY <1>1, <2>1, <2>2, Zenon
<1> QED
  BY <1>1, <1>3, Zenon DEF Init

\* The members of the entries of a model are elements.
LEMMA ElementIs ==
  ASSUME NEW w, NEW n \in DOMAIN w.model, NEW v \in w.model[n], NEW i \in DOMAIN v
  PROVE  v[i] \in Elements(w)
<1> DEFINE E(d) == {d[j] : j \in DOMAIN d}
           U(q) == UNION {E(d) : d \in w.model[q]}
<1>1. v[i] \in E(v)
  BY Zenon
<1>2. Elements(w) = {w.meaning[x] : x \in 1 .. w.count} \cup UNION {U(q) : q \in DOMAIN w.model}
  BY Zenon DEF Elements
<1> HIDE DEF E
<1>3. v[i] \in U(n)
  BY <1>1
<1> HIDE DEF U
<1> QED
  BY <1>2, <1>3

\* What the ob of a function of no argument denotes.
LEMMA ConstantIs ==
  ASSUME NEW w, IsModel(w), NEW n \in DOMAIN w.model, n \in Nullary, w.model[n] # {},
         NEW V, \A y : y \in V <=> \E u \in w.model[n] : y = Last(u), NEW e, e = Only(V)
  PROVE  <<e>> \in w.model[n] /\ e \in Elements(w)
<1>1. e \in V
  <2>1. V # {}
    OBVIOUS
  <2> QED
    BY <2>1, OnlyIs
<1>2. PICK u \in w.model[n] : e = Last(u)
  BY <1>1
<1>3. u \in Seq(Range(u)) /\ Len(u) = 1
  <2>1. IsEntry(n, u) /\ Arity(n) = 0 /\ n \in FunctionNames
    BY DEF IsModel, Arity, FunctionNames
  <2> QED
    BY <2>1 DEF IsEntry
<1>4. e = u[1] /\ DOMAIN u = 1 .. 1
  BY <1>2, <1>3 DEF Last
<1>5. u = <<e>>
  <2>1. PICK one, X : one = <<e>> /\ X = Range(u)
    OBVIOUS
  <2>3. u \in Seq(X) /\ e \in X
    BY <1>3, <1>4, <2>1 DEF Range
  <2>2. one \in Seq(X) /\ Len(one) = 1 /\ one[1] = e
    BY <2>1, <2>3
  <2>4. \A i \in 1 .. Len(u) : u[i] = one[i]
    BY <1>3, <1>4, <2>2
  <2>5. u = one
    BY <1>3, <2>2, <2>3, <2>4, SeqEqual
  <2> QED
    BY <2>1, <2>5
<1>6. 1 \in DOMAIN u
  BY <1>4
<1> QED
  BY <1>4, <1>5, <1>6, ElementIs

\* What a surveyor was given is true in the model.
LEMMA GivenIs ==
  ASSUME NEW w0 \in Worlds, NEW w, w = Loaded(w0)
  PROVE  /\ w.dim \in Nat /\ w.count \in Nat /\ IsModel(w) /\ Provides(w)
         /\ DOMAIN w.tables = DOMAIN w.model
         /\ \A n \in DOMAIN w.model : \A u \in w.tables[n] :
              u \in Seq(1 .. w.count) /\ Image(w.meaning, u) \in w.model[n]
         /\ w.assume \in Seq(Range(w.assume))
<1>1. TrueIn(w0) /\ WorldOK(w)
  BY LoadedIs
<1>2. /\ w.dim = w0.dim /\ w.count = w0.count /\ w.tables = w0.tables
      /\ w.model = w0.model /\ w.meaning = w0.meaning /\ w.assume = w0.assume
  BY LoadedIs
<1>3. IsModel(w) /\ Provides(w)
  BY <1>1 DEF WorldOK
<1> QED
  BY <1>1, <1>2, <1>3 DEF TrueIn, Image

\* What the obs of a surveyor that begins denote.
Meant(w, S, c, new, m) ==
  /\ DOMAIN m = 1 .. w.dim /\ c \in Nat /\ c <= w.dim /\ w.count <= c /\ Cardinality(S) \in Nat
  /\ \A x \in 1 .. w.count : m[x] = w.meaning[x]
  /\ \A n \in S : <<m[new[n]]>> \in w.model[n]
  /\ \A x \in 1 .. c : m[x] \in Elements(w)

\* Every ob of a surveyor that begins denotes an element, and a new one its function.
LEMMA BegunMeans ==
  ASSUME NEW w0 \in Worlds, NEW w, w = Loaded(w0), NEW S, S = Missing(w), NEW c, c = w.count + Cardinality(S),
         NEW new \in [S -> w.count + 1 .. c], \A a, b \in S : new[a] = new[b] => a = b,
         NEW str, NEW ev, NEW m, Begun(w, S, c, new, str, ev, m)
  PROVE  Meant(w, S, c, new, m)
<1>1. /\ w.dim \in Nat /\ w.count \in Nat /\ IsModel(w) /\ Provides(w) /\ DOMAIN w.tables = DOMAIN w.model
  BY GivenIs
<1>2. /\ IsFiniteSet(S) /\ Cardinality(S) \in Nat /\ w.count + Cardinality(S) <= w.dim
      /\ \A n \in S : n \in Nullary /\ n \in DOMAIN w.tables /\ w.model[n] # {}
  BY <1>1, MissingIs
<1>3. PICK k \in Nat : k = Cardinality(S)
  BY <1>2
<1>4. c \in Nat /\ c <= w.dim /\ w.count <= c /\ c = w.count + k
  BY <1>1, <1>2, <1>3
<1>5. m = [x \in 1 .. w.dim |->
            IF x <= w.count THEN w.meaning[x]
            ELSE IF x <= c
            THEN Only({Last(u) : u \in UNION {w.model[n] : n \in {j \in S : new[j] = x}}})
            ELSE 0]
  BY Zenon DEF Begun
<1>6. DOMAIN m = 1 .. w.dim
  BY <1>5, Zenon
<1>7. ASSUME NEW x \in 1 .. w.count PROVE m[x] = w.meaning[x]
  <2>1. x \in 1 .. w.dim /\ x <= w.count
    BY <1>1, <1>4
  <2> QED
    BY <1>5, <2>1
<1>8. ASSUME NEW n \in S PROVE <<m[new[n]]>> \in w.model[n] /\ m[new[n]] \in Elements(w)
  <2>1. PICK x : x = new[n]
    OBVIOUS
  <2>2. x \in 1 .. w.dim /\ ~ (x <= w.count) /\ x <= c
    BY <1>1, <1>4, <2>1
  <2>3. PICK V : V = {Last(u) : u \in UNION {w.model[j] : j \in {i \in S : new[i] = x}}}
    OBVIOUS
  <2>4. m[x] = Only(V)
    BY <1>5, <2>2, <2>3
  <2>5. \A j \in S : new[j] = x <=> j = n
    BY <2>1
  <2>6. \A y : y \in V <=> \E u \in w.model[n] : y = Last(u)
    BY <2>3, <2>5
  <2>7. n \in DOMAIN w.model /\ n \in Nullary /\ w.model[n] # {}
    BY <1>1, <1>2
  <2> QED
    BY <1>1, <2>1, <2>4, <2>6, <2>7, ConstantIs
<1>9. ASSUME NEW x \in 1 .. c PROVE m[x] \in Elements(w)
  <2>1. CASE x <= w.count
    <3>1. x \in 1 .. w.count
      BY <1>1, <2>1
    <3> QED
      BY <1>7, <3>1 DEF Elements
  <2>2. CASE ~ (x <= w.count)
    <3>1. x \in w.count + 1 .. w.count + k
      BY <1>1, <1>4, <2>2
    <3>2. \E n \in S : new[n] = x
      <4>1. PICK d \in Nat : d = w.count
        BY <1>1
      <4>2. new \in [S -> d + 1 .. d + k] /\ x \in d + 1 .. d + k
        BY <1>4, <3>1, <4>1
      <4> QED
        BY <1>2, <1>3, <4>2, AllTaken
    <3> QED
      BY <1>8, <3>2
  <2> QED
    BY <2>1, <2>2
<1> QED
  BY <1>2, <1>4, <1>6, <1>7, <1>8, <1>9 DEF Meant

\* The tables and events are true in the model.
Starting(w, m, str, ev) ==
  /\ RepsOK(w, m, str) /\ TablesOK(w, m, str) /\ EventsOK(w, m, str, ev) /\ DOMAIN m = 1 .. w.dim
  /\ str = [support |-> str.support, rep |-> str.rep, table |-> str.table]

\* What a surveyor begins with is as the invariant has it.
LEMMA BegunOK ==
  ASSUME NEW w0 \in Worlds, NEW w, w = Loaded(w0), NEW S, S = Missing(w), NEW c, c = w.count + Cardinality(S),
         NEW new \in [S -> w.count + 1 .. c], \A a, b \in S : new[a] = new[b] => a = b,
         NEW str, NEW ev, NEW m, Begun(w, S, c, new, str, ev, m)
  PROVE  Starting(w, m, str, ev)
<1>1. /\ DOMAIN m = 1 .. w.dim /\ c \in Nat /\ c <= w.dim /\ w.count <= c /\ Cardinality(S) \in Nat
      /\ \A x \in 1 .. w.count : m[x] = w.meaning[x]
      /\ \A n \in S : <<m[new[n]]>> \in w.model[n]
      /\ \A x \in 1 .. c : m[x] \in Elements(w)
  <2>1. Meant(w, S, c, new, m)
    BY BegunMeans
  <2> QED
    BY <2>1 DEF Meant
<1>2. /\ w.dim \in Nat /\ w.count \in Nat
      /\ DOMAIN w.tables = DOMAIN w.model
      /\ \A n \in DOMAIN w.model : \A u \in w.tables[n] :
           u \in Seq(1 .. w.count) /\ Image(w.meaning, u) \in w.model[n]
  BY GivenIs
<1>3. PICK rep, table : /\ rep = [x \in 1 .. w.dim |-> IF x <= c THEN x ELSE 0]
                        /\ table = [n \in DOMAIN w.tables |-> IF n \in S THEN {<<new[n]>>} ELSE w.tables[n]]
  OBVIOUS
<1>4. str = [support |-> 1 .. c, rep |-> rep, table |-> table]
  BY <1>3, Zenon DEF Begun
<1>5. str.support = 1 .. c /\ str.rep = rep /\ str.table = table
  BY <1>4
<1>6. RepsOK(w, m, str)
  <2>1. DOMAIN rep = 1 .. w.dim /\ \A x \in 1 .. c : x \in 1 .. w.dim /\ rep[x] = x
    BY <1>1, <1>2, <1>3
  <2> QED
    BY <1>1, <1>2, <1>5, <2>1 DEF RepsOK
<1>7. TablesOK(w, m, str)
  <2>1. DOMAIN table = DOMAIN w.model
    BY <1>2, <1>3, Zenon
  <2>2. ASSUME NEW n \in DOMAIN w.model, NEW u \in table[n] PROVE True(w, m, str, n, u)
    <3>1. CASE n \in S
      <4>1. table[n] = {<<new[n]>>}
        BY <1>2, <1>3, <3>1, Zenon
      <4>2. PICK x : x = new[n]
        OBVIOUS
      <4>3. u = <<x>> /\ <<m[x]>> \in w.model[n]
        BY <1>1, <3>1, <4>1, <4>2
      <4>4. x \in 1 .. c
        BY <1>1, <1>2, <3>1, <4>2
      <4>5. u \in Seq(1 .. c)
        BY <4>3, <4>4, SingleIs DEF Single
      <4>6. Image(m, u) = <<m[x]>>
        BY <4>3, ImageOne
      <4> QED
        BY <1>5, <4>3, <4>5, <4>6 DEF True
    <3>2. CASE n \notin S
      <4>1. table[n] = w.tables[n]
        BY <1>2, <1>3, <3>2, Zenon
      <4>2. PICK T : T = 1 .. w.count
        OBVIOUS
      <4>3. u \in Seq(T) /\ Image(w.meaning, u) \in w.model[n]
        BY <1>2, <4>1, <4>2
      <4>4. u \in Seq(1 .. c)
        <5>1. T \subseteq 1 .. c
          BY <1>1, <1>2, <4>2
        <5> QED
          BY <4>3, <5>1, SeqSub
      <4>5. Image(m, u) = Image(w.meaning, u)
        <5>1. ASSUME NEW i \in DOMAIN u PROVE m[u[i]] = w.meaning[u[i]]
          <6>1. u[i] \in T
            BY <4>3, SeqAt
          <6> QED
            BY <1>1, <4>2, <6>1
        <5> QED
          BY <5>1 DEF Image
      <4> QED
        BY <1>5, <4>3, <4>4, <4>5 DEF True
    <3> QED
      BY <3>1, <3>2
  <2> QED
    BY <1>5, <2>1, <2>2 DEF TablesOK
<1>8. EventsOK(w, m, str, ev)
  <2>1. PICK k \in Nat : k = Cardinality(S) /\ c = w.count + k
    BY <1>1
  <2>2. PICK q, none : q = [i \in 1 .. k |-> <<w.count + i>>] /\ none = <<>>
    OBVIOUS
  <2>3. ev = [exists |-> q, LESS |-> none, NLESS |-> none]
    BY <2>1, <2>2, Zenon DEF Begun
  <2>4. /\ DOMAIN ev = {"exists"} \cup Told
        /\ ev["exists"] = q /\ ev["LESS"] = none /\ ev["NLESS"] = none
    BY <2>3 DEF Told
  <2>5. none \in Seq(Range(none)) /\ Range(none) = {}
    BY <2>2 DEF Range
  <2>6. DOMAIN q = 1 .. k
    BY <2>2
  <2>7. q \in Seq(Range(q))
    <3>1. q \in [1 .. k -> Range(q)]
      BY <2>2 DEF Range
    <3> HIDE <2>2
    <3> QED
      BY <3>1
  <2>8. ASSUME NEW u \in Range(q) PROVE u \in Seq(1 .. c) /\ Len(u) = 1
    <3>1. PICK i \in 1 .. k : u = q[i]
      BY <2>6 DEF Range
    <3>2. PICK x : x = w.count + i
      OBVIOUS
    <3>3. u = <<x>>
      BY <2>2, <3>1, <3>2
    <3>4. x \in 1 .. c
      BY <1>2, <2>1, <3>2
    <3> QED
      BY <3>3, <3>4, SingleIs DEF Single
  <2>9. \A n \in DOMAIN ev : n = "exists" \/ ev[n] = none
    BY <2>4 DEF Told
  <2>10. ASSUME NEW n \in DOMAIN ev
         PROVE  ev[n] \in Seq(Range(ev[n])) /\ \A u \in Range(ev[n]) : Telling(w, m, str, n, u)
    <3>1. CASE n = "exists"
      BY <1>5, <2>4, <2>7, <2>8, <3>1 DEF Telling
    <3>2. CASE n # "exists"
      BY <2>5, <2>9, <3>2
    <3> QED
      BY <3>1, <3>2
  <2> QED
    BY <2>4, <2>10 DEF EventsOK
<1> QED
  BY <1>1, <1>4, <1>5, <1>6, <1>7, <1>8 DEF Starting

\* A surveyor begins as the invariant has it.
LEMMA InitOK ==
  ASSUME Init
  PROVE  IInv
<1>1. PICK w0 \in Worlds : world = Loaded(w0)
  BY InitIs
<1>2. PICK S, c, new : /\ S = Missing(world) /\ c = world.count + Cardinality(S)
                       /\ new \in [S -> world.count + 1 .. c]
                       /\ \A a, b \in S : new[a] = new[b] => a = b
                       /\ Begun(world, S, c, new, struct, events, meaning)
  BY InitIs
<1>3. /\ merges = <<>> /\ assumed = world.assume /\ th = [t \in Thread |-> Idle]
      /\ cleanup = [done |-> IF Assumes THEN 0 ELSE CleanupCount, turn |-> 0]
  BY InitIs, Zenon
<1>4. PICK w : w = world
  OBVIOUS
<1>5. WorldOK(w) /\ w.assume \in Seq(Range(w.assume))
  BY <1>1, <1>4, LoadedIs, GivenIs
<1>6. /\ RepsOK(w, meaning, struct) /\ TablesOK(w, meaning, struct) /\ EventsOK(w, meaning, struct, events)
      /\ DOMAIN meaning = 1 .. w.dim
      /\ struct = [support |-> struct.support, rep |-> struct.rep, table |-> struct.table]
  <2>1. PICK str, ev, m : str = struct /\ ev = events /\ m = meaning
    OBVIOUS
  <2>2. w = Loaded(w0) /\ S = Missing(w) /\ c = w.count + Cardinality(S) /\ new \in [S -> w.count + 1 .. c]
    BY <1>1, <1>2, <1>4
  <2>3. (\A a, b \in S : new[a] = new[b] => a = b) /\ Begun(w, S, c, new, str, ev, m)
    BY <1>2, <1>4, <2>1
  <2>4. Starting(w, m, str, ev)
    BY <2>2, <2>3, BegunOK
  <2> QED
    BY <2>1, <2>4 DEF Starting
<1>7. DOMAIN th = Thread /\ \A t \in Thread : th[t] = Idle
  BY <1>3, Zenon
<1>8. \A t \in Thread : th[t].task = "idle" /\ WorkerOK(world, Certificate(world), meaning, struct, th[t])
  <2>1. PICK r, w2, cert : r = Idle /\ w2 = world /\ cert = Certificate(world)
    OBVIOUS
  <2>2. r.task = "idle" /\ WorkerOK(w2, cert, meaning, struct, r)
    BY <2>1, IdleOK
  <2> QED
    BY <1>7, <2>1, <2>2
<1>9. Merging = {} /\ Hands = {}
  <2>1. Merging = {}
    BY <1>8 DEF Merging
  <2> QED
    BY <2>1 DEF Hands
<1>10. StateOK(world, meaning, Hands, State)
  <2>1. Shaped(State)
    BY <1>6 DEF State, Shaped
  <2>2. MergesOK(struct, {}, merges)
    <3>1. merges \in Seq(struct.support) /\ Range(merges) = {} /\ DOMAIN merges = {}
      BY <1>3 DEF Range
    <3> QED
      BY <3>1 DEF MergesOK
  <2> QED
    BY <1>4, <1>6, <1>9, <2>1, <2>2, StateIs DEF StateOK
<1>11. CleanupOK
  <2>1. CleanupCount \in Nat
    BY <1>4, <1>5, CleanupCountIs
  <2>2. PICK n \in Nat : n = IF Assumes THEN 0 ELSE CleanupCount
    BY <2>1
  <2>3. cleanup = [done |-> n, turn |-> 0]
    BY <1>3, <2>2
  <2> QED
    BY <2>1, <2>3 DEF CleanupOK
<1>12. assumed \in Seq(Range(assumed)) /\ \A f \in Range(assumed) : [todo |-> f, stack |-> <<>>] \in Certificate(world).facts
  <2>1. assumed = w.assume /\ FactStarts(w) \subseteq Certificate(world).facts
    BY <1>3, <1>4, <1>5 DEF WorldOK, Verified
  <2>2. ASSUME NEW f \in Range(assumed) PROVE [todo |-> f, stack |-> <<>>] \in Certificate(world).facts
    <3>1. PICK i \in DOMAIN w.assume : f = w.assume[i]
      BY <2>1 DEF Range
    <3>2. [todo |-> f, stack |-> <<>>] \in FactStarts(w)
      BY <3>1, Zenon DEF FactStarts
    <3> QED
      BY <2>1, <3>2
  <2> QED
    BY <1>5, <2>1, <2>2
<1>13. \A t, u \in Merging : t # u => th[t].args[1] # th[u].args[1]
  BY <1>9
<1>14. ~ \E t \in Thread : th[t].task = "merge"
  BY <1>8
<1> QED
  BY <1>1, <1>4, <1>6, <1>7, <1>8, <1>10, <1>11, <1>12, <1>13, <1>14 DEF IInv, Ob, Dim

-----------------------------------------------------------------------------
(* The invariant holds, and what follows from it.                          *)

\* Every step of a worker keeps the invariant.
LEMMA StepOK ==
  ASSUME IInv, NEW t \in Thread, Step(t)
  PROVE  IInv'
<1>1. CASE Instruction(t) \/ EndProgram(t)
  BY <1>1, InstructionStep, EndProgramStep
<1>2. CASE BeginExists(t) \/ (\E n \in Told : BeginOrder(t, n)) \/ BeginCleanup(t)
  BY <1>2, BeginExistsStep, BeginOrderStep, BeginCleanupStep
<1>3. CASE PopMerge(t) \/ ExecuteMerge(t)
  BY <1>3, PopMergeStep, ExecuteMergeStep
<1>4. CASE BeginSample(t) \/ BeginAssume(t) \/ ParseTerm(t) \/ AssumeFact(t)
  BY <1>4, BeginSampleStep, BeginAssumeStep, ParseTermStep, AssumeFactStep
<1>5. CASE MakeOb(t) \/ SampleInVain(t) \/ MakeEntry(t)
  BY <1>5, MakeObStep, SampleInVainStep, MakeEntryStep
<1> QED
  BY <1>1, <1>2, <1>3, <1>4, <1>5 DEF Step

\* A step that changes nothing keeps the invariant.
LEMMA StillIs ==
  ASSUME IInv, UNCHANGED vars
  PROVE  IInv'
<1>1. /\ world' = world /\ struct' = struct /\ events' = events /\ merges' = merges /\ assumed' = assumed
      /\ cleanup' = cleanup /\ th' = th /\ meaning' = meaning
  BY DEF vars
<1>2. RestOK
  BY DEF IInv, RestOK
<1>3. RestOK'
  <2>1. CleanupCount' = CleanupCount
    BY <1>1, CleanupCountKeeps
  <2> QED
    BY <1>1, <1>2, <2>1 DEF RestOK, CleanupOK, Ob, Dim
<1>4. State' = State /\ Hands' = Hands /\ Merging' = Merging
  BY <1>1 DEF State, Hands, Merging
<1>5. Certificate(world)' = Certificate(world)
  BY <1>1
<1> QED
  BY <1>1, <1>3, <1>4, <1>5 DEF IInv, RestOK

\* The invariant that the theorems below follow from.
THEOREM InvAlways == Spec => []IInv
<1>1. Init => IInv
  BY InitOK
<1>2. IInv /\ [Next]_vars => IInv'
  <2> SUFFICES ASSUME IInv, [Next]_vars PROVE IInv'
    OBVIOUS
  <2>1. CASE \E t \in Thread : Step(t)
    BY <2>1, StepOK
  <2>2. CASE Over \/ UNCHANGED vars
    BY <2>2, StillIs DEF Over
  <2> QED
    BY <2>1, <2>2 DEF Next
<1> QED
  BY <1>1, <1>2, PTL DEF Spec

\* Nothing is derived but what the model makes true (VM's Sound), for every
\* number of workers, block size and surveyor whose programs and facts have a
\* certificate: whatever is read before another worker's step and used after it,
\* a merge included, stays true.
THEOREM SoundAlways == Spec => []Sound
<1>1. IInv => Sound
  <2> SUFFICES ASSUME IInv PROVE Sound
    OBVIOUS
  <2>1. RepsOK(world, meaning, struct) /\ TablesOK(world, meaning, struct)
    BY StructIs
  <2>2. ASSUME NEW n \in DOMAIN struct.table, NEW u \in struct.table[n]
        PROVE  [i \in DOMAIN u |-> meaning[u[i]]] \in world.model[n]
    BY <2>1 DEF TablesOK, True, Image
  <2>3. \A x \in struct.support : meaning[struct.rep[x]] = meaning[x]
    BY <2>1 DEF RepsOK
  <2> QED
    BY <2>2, <2>3 DEF Sound
<1> QED
  BY <1>1, InvAlways, PTL

\* What a worker's line reads has been set.
LEMMA ReadableIs ==
  ASSUME IInv, NEW r, NEW c, NEW bs, Running(r, c, bs)
  PROVE  Readable(r) /\ Line(r).op # "PADDING"
<1>1. PICK args : args = Args(r)
  OBVIOUS
<1>2. args = LineAt(world, c).args /\ Line(r).op = LineAt(world, c).op
  BY <1>1 DEF Running, Args
<1>3. Executable(world, c) /\ Fits(world, meaning, struct, c, r.obs, r.sets)
  BY DEF Running, Stands
<1>4. ASSUME NEW i \in DOMAIN args
      PROVE  /\ args[i][1] = "old" => args[i][2] \in DOMAIN r.obs
             /\ args[i][1] \in {"pos", "neg"} => args[i][2] \in DOMAIN r.sets
  <2>1. /\ args[i][1] = "old" => args[i][2] \in DOMAIN c.obs
        /\ args[i][1] \in {"pos", "neg"} => args[i][2] \in DOMAIN c.sets
    BY <1>2, <1>3 DEF Executable
  <2> QED
    BY <1>3, <2>1 DEF Fits
<1>5. Line(r).op # "PADDING"
  BY <1>2, <1>3 DEF Executable
<1> QED
  BY <1>1, <1>4, <1>5 DEF Readable

\* What is merged is not told apart.
LEMMA ApartIs ==
  ASSUME IInv, NEW x \in struct.support, NEW y \in struct.support, meaning[x] = meaning[y],
         NEW u, u = <<x, y>>, NEW T, T = struct.table["NLESS"]
  PROVE  u \notin T
<1> SUFFICES ASSUME u \in struct.table["NLESS"] PROVE FALSE
  OBVIOUS
<1>1. PICK n, w, m : n = "NLESS" /\ w = world /\ m = meaning
  OBVIOUS
<1>2. IsModel(w) /\ RepsOK(w, m, struct) /\ TablesOK(w, m, struct)
  BY <1>1, StructIs, WorldIs DEF WorldOK
<1>3. n \in DOMAIN w.model
  BY <1>1, <1>2 DEF IsModel, Told
<1>4. Image(m, u) \in w.model[n]
  BY <1>1, <1>2, <1>3 DEF TablesOK, True
<1>5. Image(m, u) = <<m[x], m[y]>>
  BY DEF Image
<1>6. PICK e \in Elements(w) : e = m[x] /\ e = m[y]
  BY <1>1, <1>2 DEF RepsOK
<1>7. <<e, e>> \in w.model[n]
  BY <1>4, <1>5, <1>6
<1> QED
  BY <1>1, <1>2, <1>6, <1>7 DEF IsModel

\* The assertions of program.cpp, vm_impl.hpp and theory.cpp hold (VM's
\* AssertionsHold): no worker reads a register that this run of its program has
\* not set, LET finds its value although the structure has changed since its key
\* was seen, and no merge contradicts NLESS.
THEOREM AssertionsAlways == Spec => []AssertionsHold
<1>1. IInv => AssertionsHold
  <2> SUFFICES ASSUME IInv PROVE AssertionsHold
    OBVIOUS
  <2>1. \A i \in DOMAIN world.programs : world.programs[i].ok
    BY WorldIs DEF WorldOK, Verified
  <2>2. ASSUME NEW t \in Thread, th[t].at # 0
        PROVE  /\ Readable(th[t]) /\ Line(th[t]).op # "PADDING"
               /\ Line(th[t]).op = "LET" => Matches(th[t]) # {}
    <3>1. PICK c, bs : Running(th[t], c, bs)
      BY <2>2, RunningOK
    <3> QED
      BY <3>1, ReadableIs, LetFinds
  <2>3. ASSUME NEW t \in Thread, Exclusive(t), NEW dep, NEW rep, dep = th[t].args[1], rep = struct.rep[dep]
        PROVE  /\ rep < dep
               /\ {<<dep, rep>>, <<rep, dep>>} \cap struct.table["NLESS"] = {}
    <3>1. dep \in Hands
      BY <2>3 DEF Exclusive, Hands, Merging
    <3>2. MergesOK(struct, Hands, merges) /\ RepsOK(world, meaning, struct) /\ world.dim \in Nat
      BY StructIs, StateIs, WorldIs DEF StateOK, WorldOK
    <3>3. dep \in struct.support /\ struct.rep[dep] # dep
      BY <3>1, <3>2 DEF MergesOK
    <3>4. /\ rep \in struct.support /\ rep <= dep /\ rep # dep /\ meaning[rep] = meaning[dep]
          /\ dep \in Nat /\ rep \in Nat
      <4>1. PICK S, d : S = struct.support /\ d = world.dim
        OBVIOUS
      <4>2. d \in Nat /\ S \subseteq 1 .. d
        BY <3>2, <4>1 DEF RepsOK
      <4>3. rep \in S /\ rep <= dep /\ rep # dep /\ meaning[rep] = meaning[dep]
        BY <2>3, <3>2, <3>3, <4>1 DEF RepsOK
      <4>4. dep \in 1 .. d /\ rep \in 1 .. d
        BY <3>3, <4>1, <4>2, <4>3
      <4> QED
        BY <4>1, <4>2, <4>3, <4>4
    <3>5. rep < dep
      BY <3>4
    <3>6. PICK u, v, T : u = <<dep, rep>> /\ v = <<rep, dep>> /\ T = struct.table["NLESS"]
      OBVIOUS
    <3>7. dep \in struct.support /\ rep \in struct.support /\ meaning[rep] = meaning[dep]
      BY <3>3, <3>4
    <3>8. u \notin T
      BY <3>6, <3>7, ApartIs
    <3>9. v \notin T
      BY <3>6, <3>7, ApartIs
    <3> QED
      BY <3>5, <3>6, <3>8, <3>9
  <2> QED
    BY <2>1, <2>2, <2>3 DEF AssertionsHold
<1> QED
  BY <1>1, InvAlways, PTL

=============================================================================
