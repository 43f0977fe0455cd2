--------------------------- MODULE AsyncMapProofs ---------------------------
(***************************************************************************)
(* Theorems about the caches of approximations: for any terms, workers and *)
(* values, every callback is called once and none is forgotten.            *)
(***************************************************************************)
EXTENDS AsyncMap, FiniteSetTheorems, SequenceTheorems, FunctionTheorems, TLAPS

(***************************************************************************)
(* The calls that there are.                                               *)
(***************************************************************************)
Vals == SUBSET Approx

ApproxKey == {[name |-> k.name, arity |-> k.arity, ob |-> k.ob, args |-> as] :
                k \in Key, as \in Seq(Vals)}

KeysOf(m) == IF m = "term" THEN Key ELSE ApproxKey

CallbacksOf(m) == IF m = "term" THEN {Arrive(k) : k \in Key}
                  ELSE {Store("term", k, NoValue) : k \in Key}

CallsOf(m) ==
  LET K == KeysOf(m)
  IN  {Call(do, m, k, <<cb>>) : do \in {"find_async", "check", "enlist"},
                                k \in K, cb \in CallbacksOf(m)}
      \cup {Call(do, m, k, Nothing) : do \in {"enlist", "function"}, k \in K}
      \cup {Call(do, m, k, v) : do \in {"store", "notify"}, k \in K, v \in Vals \ {NoValue}}

OtherCalls == {FindNow(k) : k \in Key} \cup {Arrive(k) : k \in Key}

Calls == CallsOf("term") \cup CallsOf("approx") \cup OtherCalls

-----------------------------------------------------------------------------
(* Counting calls.                                                         *)

Of(S, c) == {x \in S : x[1] = c}

CountOf(S, c) == Cardinality(Of(S, c))

\* The calls s, at the places p.
Placed(s, p) == {<<Final(s[i]), p[i]>> : i \in DOMAIN s}

\* The calls s of thread t, with n calls below them.
Above(t, s, n) == {<<Final(s[i]), <<t, Len(s) + n - i>> >> : i \in DOMAIN s}

\* The callbacks s that wait for key k of map m.
InList(m, k, s) == {<<Final(s[i]), <<m, k, i>> >> : i \in DOMAIN s}

Tally(s, c) == Cardinality({i \in DOMAIN s : Final(s[i]) = c})

LEMMA FiniteTally ==
  ASSUME NEW S, NEW s \in Seq(S), NEW c
  PROVE  IsFiniteSet({i \in DOMAIN s : Final(s[i]) = c}) /\ Tally(s, c) \in Nat
<1>1. DOMAIN s = 1 .. Len(s) /\ Len(s) \in Nat
  OBVIOUS
<1>2. IsFiniteSet(1 .. Len(s))
  BY <1>1, FS_Interval
<1>3. {i \in DOMAIN s : Final(s[i]) = c} \subseteq 1 .. Len(s)
  BY <1>1
<1> QED
  BY <1>2, <1>3, FS_Subset, FS_CardinalityType DEF Tally

LEMMA CountPlaced ==
  ASSUME NEW S, NEW s \in Seq(S), NEW p, \A i, j \in DOMAIN s : p[i] = p[j] => i = j, NEW c
  PROVE  /\ IsFiniteSet(Placed(s, p))
         /\ CountOf(Placed(s, p), c) = Tally(s, c)
<1>1. DOMAIN s = 1 .. Len(s) /\ Len(s) \in Nat
  OBVIOUS
<1> DEFINE I == {i \in DOMAIN s : Final(s[i]) = c}
           f == [i \in I |-> <<Final(s[i]), p[i]>>]
           T == Of(Placed(s, p), c)
           g == [i \in 1 .. Len(s) |-> <<Final(s[i]), p[i]>>]
<1>2. IsFiniteSet(Placed(s, p))
  <2>1. \A a \in Placed(s, p) : \E i \in 1 .. Len(s) : g[i] = a
    BY <1>1 DEF Placed
  <2>2. \A i \in 1 .. Len(s) : g[i] \in Placed(s, p)
    BY <1>1 DEF Placed
  <2>3. g \in Surjection(1 .. Len(s), Placed(s, p))
    BY <2>1, <2>2, Fun_IsSurj
  <2> QED
    BY <2>3, <1>1, FS_Interval, FS_Surjection
<1>3. f \in Bijection(I, T)
  <2>1. \A i \in I : f[i] \in T
    BY DEF Of, Placed
  <2>2. \A i, j \in I : f[i] = f[j] => i = j
    BY <1>1
  <2>3. \A a \in T : \E i \in I : f[i] = a
    BY DEF Of, Placed
  <2>4. f \in [I -> T]
    BY <2>1
  <2> HIDE DEF f, I, T
  <2> QED
    BY <2>2, <2>3, <2>4, Fun_IsBij
<1>4. IsFiniteSet(I) /\ Tally(s, c) = Cardinality(I)
  BY FiniteTally DEF Tally
<1> HIDE DEF f, I
<1>5. ExistsBijection(I, T)
  BY <1>3 DEF ExistsBijection
<1>6. Cardinality(T) = Cardinality(I)
  BY <1>4, <1>5, FS_Bijection
<1> QED
  BY <1>2, <1>4, <1>6 DEF CountOf

LEMMA CountAbove ==
  ASSUME NEW S, NEW s \in Seq(S), NEW t, NEW n \in Nat, NEW c
  PROVE  /\ IsFiniteSet(Above(t, s, n))
         /\ CountOf(Above(t, s, n), c) = Tally(s, c)
<1> DEFINE p == [i \in DOMAIN s |-> <<t, Len(s) + n - i>>]
<1>1. DOMAIN s = 1 .. Len(s) /\ Len(s) \in Nat
  OBVIOUS
<1>2. \A i, j \in DOMAIN s : p[i] = p[j] => i = j
  BY <1>1
<1>3. Above(t, s, n) = Placed(s, p)
  BY DEF Above, Placed
<1> HIDE DEF p
<1> QED
  BY <1>2, <1>3, CountPlaced

LEMMA CountInList ==
  ASSUME NEW S, NEW s \in Seq(S), NEW m, NEW k, NEW c
  PROVE  /\ IsFiniteSet(InList(m, k, s))
         /\ CountOf(InList(m, k, s), c) = Tally(s, c)
<1> DEFINE p == [i \in DOMAIN s |-> <<m, k, i>>]
<1>1. \A i, j \in DOMAIN s : p[i] = p[j] => i = j
  OBVIOUS
<1>2. InList(m, k, s) = Placed(s, p)
  BY DEF InList, Placed
<1> HIDE DEF p
<1> QED
  BY <1>1, <1>2, CountPlaced

\* Of n calls, some go and others come.
Balance(n, gone, come, n2) == n \in Nat /\ n2 \in Nat /\ n2 = n - gone + come

\* C has the calls of A and those of B, at other places.
Split(C, A, B) == C = A \cup B /\ A \cap B = {}

LEMMA CountUnion ==
  ASSUME NEW A, NEW B, NEW C, IsFiniteSet(A), IsFiniteSet(B), Split(C, A, B), NEW c
  PROVE  /\ IsFiniteSet(C)
         /\ CountOf(A, c) \in Nat /\ CountOf(B, c) \in Nat
         /\ CountOf(C, c) = CountOf(A, c) + CountOf(B, c)
<1>1. Of(A \cup B, c) = Of(A, c) \cup Of(B, c)
  BY DEF Of
<1>2. Of(A, c) \in SUBSET A /\ Of(B, c) \in SUBSET B
  BY DEF Of
<1>3. IsFiniteSet(Of(A, c)) /\ IsFiniteSet(Of(B, c))
  BY <1>2, FS_Subset
<1>4. Of(A, c) \cap Of(B, c) = {}
  BY <1>2 DEF Split
<1>5. /\ Cardinality(Of(A, c)) \in Nat /\ Cardinality(Of(B, c)) \in Nat
      /\ Cardinality({}) = 0
  BY <1>3, FS_CardinalityType, FS_EmptySet
<1>6. IsFiniteSet(A \cup B)
  BY FS_Union
<1>7. Cardinality(Of(A, c) \cup Of(B, c)) =
        Cardinality(Of(A, c)) + Cardinality(Of(B, c)) - Cardinality(Of(A, c) \cap Of(B, c))
  BY <1>3, FS_Union
<1>8. Cardinality(Of(A, c) \cap Of(B, c)) = 0
  BY <1>4, <1>5
<1>9. Cardinality(Of(A \cup B, c)) = Cardinality(Of(A, c) \cup Of(B, c))
  BY <1>1
<1> HIDE DEF Of
<1>10. Cardinality(Of(A \cup B, c)) = Cardinality(Of(A, c)) + Cardinality(Of(B, c))
  BY <1>5, <1>7, <1>8, <1>9
<1> QED
  BY <1>5, <1>6, <1>10 DEF CountOf, Split

StackCalls(st) == UNION {Above(t, st[t], 0) : t \in Thread}

StackCount(st, c) == CountOf(StackCalls(st), c)

\* Those on the stacks of other threads than t.
Others(st, t) == UNION {Above(u, st[u], 0) : u \in Thread \ {t}}

LEMMA StackCallsSplit ==
  ASSUME NEW st, NEW t \in Thread
  PROVE  StackCalls(st) = Others(st, t) \cup Above(t, st[t], 0)
<1>1. ASSUME NEW x \in StackCalls(st)
      PROVE  x \in Others(st, t) \cup Above(t, st[t], 0)
  <2>1. PICK u \in Thread : x \in Above(u, st[u], 0)
    BY <1>1 DEF StackCalls
  <2>2. CASE u = t
    BY <2>1, <2>2
  <2>3. CASE u # t
    BY <2>1, <2>3 DEF Others
  <2> QED
    BY <2>2, <2>3
<1>2. ASSUME NEW x \in Others(st, t)
      PROVE  x \in StackCalls(st)
  <2>1. PICK u \in Thread \ {t} : x \in Above(u, st[u], 0)
    BY <1>2 DEF Others
  <2> QED
    BY <2>1 DEF StackCalls
<1>3. Above(t, st[t], 0) \subseteq StackCalls(st)
  BY DEF StackCalls
<1> QED
  BY <1>1, <1>2, <1>3

LEMMA AboveConcat ==
  ASSUME NEW S, NEW s \in Seq(S), NEW r \in Seq(S), NEW t
  PROVE  Above(t, s \o r, 0) = Above(t, r, 0) \cup Above(t, s, Len(r))
<1>1. /\ Len(s) \in Nat /\ Len(r) \in Nat /\ Len(s \o r) = Len(s) + Len(r)
      /\ DOMAIN s = 1 .. Len(s) /\ DOMAIN r = 1 .. Len(r)
      /\ DOMAIN (s \o r) = 1 .. Len(s) + Len(r)
  OBVIOUS
<1>2. /\ \A i \in 1 .. Len(s) : (s \o r)[i] = s[i]
      /\ \A i \in 1 .. Len(r) : (s \o r)[Len(s) + i] = r[i]
  BY <1>1
<1> DEFINE q == s \o r
<1>3. ASSUME NEW x \in Above(t, q, 0)
      PROVE  x \in Above(t, r, 0) \cup Above(t, s, Len(r))
  <2>1. PICK i \in 1 .. Len(s) + Len(r) : x = <<Final(q[i]), <<t, Len(s) + Len(r) - i>> >>
    <3>1. PICK i \in DOMAIN q : x = <<Final(q[i]), <<t, Len(q) + 0 - i>> >>
      BY <1>3 DEF Above
    <3>2. i \in 1 .. Len(s) + Len(r) /\ Len(q) + 0 - i = Len(s) + Len(r) - i
      BY <1>1
    <3> QED
      BY <3>1, <3>2
  <2>2. CASE i <= Len(s)
    <3>1. i \in DOMAIN s /\ x = <<Final(s[i]), <<t, Len(s) + Len(r) - i>> >>
      BY <1>1, <1>2, <2>1, <2>2
    <3> QED
      BY <3>1 DEF Above
  <2>3. CASE i > Len(s)
    <3>1. i - Len(s) \in 1 .. Len(r) /\ Len(s) + (i - Len(s)) = i
      BY <1>1, <2>3
    <3>2. x = <<Final(r[i - Len(s)]), <<t, Len(r) + 0 - (i - Len(s))>> >>
      BY <1>1, <1>2, <2>1, <3>1
    <3> QED
      BY <1>1, <3>1, <3>2 DEF Above
  <2> QED
    BY <1>1, <2>2, <2>3
<1>4. ASSUME NEW x \in Above(t, r, 0)
      PROVE  x \in Above(t, q, 0)
  <2>1. PICK i \in 1 .. Len(r) : x = <<Final(r[i]), <<t, Len(r) + 0 - i>> >>
    BY <1>1, <1>4 DEF Above
  <2>2. Len(s) + i \in 1 .. Len(s) + Len(r)
    BY <1>1
  <2>3. x = <<Final(q[Len(s) + i]), <<t, Len(q) + 0 - (Len(s) + i)>> >>
    BY <1>1, <1>2, <2>1
  <2> QED
    BY <1>1, <2>2, <2>3 DEF Above
<1>5. ASSUME NEW x \in Above(t, s, Len(r))
      PROVE  x \in Above(t, q, 0)
  <2>1. PICK i \in 1 .. Len(s) : x = <<Final(s[i]), <<t, Len(s) + Len(r) - i>> >>
    BY <1>1, <1>5 DEF Above
  <2>2. i \in 1 .. Len(s) + Len(r) /\ q[i] = s[i] /\ Len(q) + 0 - i = Len(s) + Len(r) - i
    BY <1>1, <1>2
  <2> QED
    BY <1>1, <2>1, <2>2 DEF Above
<1> QED
  BY <1>3, <1>4, <1>5

\* A thread replaces the calls old on top of its stack by new ones.
Replaced(S, st, st2, t, old, new) ==
  \E r \in Seq(S) : st[t] = old \o r /\ st2 = [st EXCEPT ![t] = new \o r]

LEMMA StackStep ==
  ASSUME NEW S, NEW st \in [Thread -> Seq(S)], NEW t \in Thread,
         NEW old \in Seq(S), NEW new \in Seq(S), NEW st2, Replaced(S, st, st2, t, old, new),
         IsFiniteSet(StackCalls(st))
  PROVE  /\ st2 \in [Thread -> Seq(S)]
         /\ IsFiniteSet(StackCalls(st2))
         /\ \A c : Balance(StackCount(st, c), Tally(old, c), Tally(new, c), StackCount(st2, c))
<1>0. PICK r \in Seq(S) : st[t] = old \o r /\ st2 = [st EXCEPT ![t] = new \o r]
  BY DEF Replaced
<1> DEFINE U == Others(st, t) \cup Above(t, r, 0)
           n == Len(r)
<1>1. n \in Nat /\ DOMAIN r = 1 .. n
  OBVIOUS
<1>2. new \o r \in Seq(S)
  OBVIOUS
<1>3. /\ st2 \in [Thread -> Seq(S)] /\ st2[t] = new \o r
      /\ \A u \in Thread \ {t} : st2[u] = st[u]
  BY <1>0, <1>2
<1>4. StackCalls(st) = U \cup Above(t, old, n)
  <2>1. Above(t, old \o r, 0) = Above(t, r, 0) \cup Above(t, old, n)
    BY AboveConcat
  <2>2. StackCalls(st) = Others(st, t) \cup Above(t, old \o r, 0)
    BY <1>0, StackCallsSplit
  <2> QED
    BY <2>1, <2>2
<1>5. StackCalls(st2) = U \cup Above(t, new, n)
  <2>1. Above(t, new \o r, 0) = Above(t, r, 0) \cup Above(t, new, n)
    BY AboveConcat
  <2>2. StackCalls(st2) = Others(st2, t) \cup Above(t, new \o r, 0)
    BY <1>3, StackCallsSplit
  <2>3. Others(st2, t) = Others(st, t)
    BY <1>3 DEF Others
  <2> QED
    BY <2>1, <2>2, <2>3
<1>6. ASSUME NEW s \in Seq(S)
      PROVE  Split(U \cup Above(t, s, n), U, Above(t, s, n))
  <2>1. ASSUME NEW x \in Above(t, s, n)
        PROVE  x[2][1] = t /\ x[2][2] \in Int /\ x[2][2] >= n
    <3>1. Len(s) \in Nat /\ DOMAIN s = 1 .. Len(s)
      OBVIOUS
    <3> QED
      BY <1>1, <2>1, <3>1 DEF Above
  <2>2. ASSUME NEW x \in Above(t, r, 0)
        PROVE  x[2][2] \in Int /\ x[2][2] < n
    BY <1>1, <2>2 DEF Above
  <2>3. ASSUME NEW u \in Thread \ {t}, NEW x \in Above(u, st[u], 0)
        PROVE  x[2][1] # t
    BY <2>3 DEF Above
  <2>4. ASSUME NEW x \in Others(st, t)
        PROVE  x[2][1] # t
    BY <2>3, <2>4 DEF Others
  <2>5. ASSUME NEW x \in U, x \in Above(t, s, n)
        PROVE  FALSE
    <3>1. x[2][1] = t /\ x[2][2] \in Int /\ x[2][2] >= n
      BY <2>1, <2>5
    <3>2. CASE x \in Others(st, t)
      BY <2>4, <3>1, <3>2
    <3>3. CASE x \in Above(t, r, 0)
      BY <1>1, <2>2, <3>1, <3>3
    <3> QED
      BY <2>5, <3>2, <3>3
  <2> QED
    BY <2>5 DEF Split
<1>7. IsFiniteSet(U)
  <2>1. U \in SUBSET StackCalls(st)
    BY <1>4
  <2> QED
    BY <2>1, FS_Subset
<1> HIDE DEF U, n
<1>8. ASSUME NEW s \in Seq(S), NEW V, V = U \cup Above(t, s, n), NEW c
      PROVE  /\ IsFiniteSet(V)
             /\ CountOf(U, c) \in Nat /\ Tally(s, c) \in Nat
             /\ CountOf(V, c) = CountOf(U, c) + Tally(s, c)
  <2>1. IsFiniteSet(Above(t, s, n)) /\ CountOf(Above(t, s, n), c) = Tally(s, c)
    BY <1>1, CountAbove
  <2>2. Tally(s, c) \in Nat
    BY FiniteTally
  <2>3. Split(V, U, Above(t, s, n))
    BY <1>6, <1>8
  <2>4. IsFiniteSet(V) /\ CountOf(U, c) \in Nat /\ CountOf(V, c) = CountOf(U, c) + Tally(s, c)
    BY <1>7, <2>1, <2>2, <2>3, CountUnion
  <2> QED
    BY <2>1, <2>2, <2>4
<1>9. ASSUME NEW c
      PROVE  Balance(StackCount(st, c), Tally(old, c), Tally(new, c), StackCount(st2, c))
  <2>1. /\ CountOf(U, c) \in Nat /\ Tally(old, c) \in Nat
        /\ StackCount(st, c) = CountOf(U, c) + Tally(old, c)
    BY <1>4, <1>8 DEF StackCount
  <2>2. /\ Tally(new, c) \in Nat
        /\ StackCount(st2, c) = CountOf(U, c) + Tally(new, c)
    BY <1>5, <1>8 DEF StackCount
  <2> QED
    BY <2>1, <2>2 DEF Balance
<1> QED
  BY <1>3, <1>5, <1>8, <1>9

ListOf(cb, m, k) == IF k \in DOMAIN cb[m] THEN cb[m][k] ELSE <<>>

ListCalls(cb) == UNION {UNION {InList(m, k, cb[m][k]) : k \in DOMAIN cb[m]} : m \in Maps}

ListCount(cb, c) == CountOf(ListCalls(cb), c)

LEMMA InListCalls ==
  ASSUME NEW cb, NEW x
  PROVE  x \in ListCalls(cb) <=> \E m, k : m \in Maps /\ x \in InList(m, k, ListOf(cb, m, k))
<1>1. ASSUME x \in ListCalls(cb)
      PROVE  \E m, k : m \in Maps /\ x \in InList(m, k, ListOf(cb, m, k))
  <2>1. PICK m, k : m \in Maps /\ k \in DOMAIN cb[m] /\ x \in InList(m, k, cb[m][k])
    BY <1>1 DEF ListCalls
  <2> QED
    BY <2>1 DEF ListOf
<1>2. ASSUME NEW m \in Maps, NEW k, x \in InList(m, k, ListOf(cb, m, k))
      PROVE  x \in ListCalls(cb)
  <2>1. CASE k \in DOMAIN cb[m]
    BY <1>2, <2>1 DEF ListOf, ListCalls
  <2>2. CASE k \notin DOMAIN cb[m]
    BY <1>2, <2>2 DEF ListOf, InList
  <2> QED
    BY <2>1, <2>2
<1> QED
  BY <1>1, <1>2

\* The callbacks old of key k of map m become new ones.
LEMMA ListStep ==
  ASSUME NEW S, NEW cb, NEW cb2, NEW m \in Maps, NEW k,
         NEW old \in Seq(S), NEW new \in Seq(S),
         ListOf(cb, m, k) = old, ListOf(cb2, m, k) = new,
         \A m2 \in Maps : \A k2 : m2 # m \/ k2 # k => ListOf(cb2, m2, k2) = ListOf(cb, m2, k2),
         IsFiniteSet(ListCalls(cb))
  PROVE  /\ IsFiniteSet(ListCalls(cb2))
         /\ \A c : Balance(ListCount(cb, c), Tally(old, c), Tally(new, c), ListCount(cb2, c))
<1> DEFINE U == {x \in ListCalls(cb) : ~ (x[2][1] = m /\ x[2][2] = k)}
<1>1. ASSUME NEW m2, NEW k2, NEW s, NEW x \in InList(m2, k2, s)
      PROVE  x[2][1] = m2 /\ x[2][2] = k2
  BY <1>1 DEF InList
<1>2. ListCalls(cb) = U \cup InList(m, k, old)
  <2>1. ASSUME NEW x \in ListCalls(cb), x[2][1] = m /\ x[2][2] = k
        PROVE  x \in InList(m, k, old)
    <3>1. PICK m2, k2 : m2 \in Maps /\ x \in InList(m2, k2, ListOf(cb, m2, k2))
      BY <2>1, InListCalls
    <3>2. m2 = m /\ k2 = k
      BY <1>1, <2>1, <3>1
    <3> QED
      BY <3>1, <3>2
  <2>2. \A x \in InList(m, k, old) : x \in ListCalls(cb)
    BY InListCalls
  <2> QED
    BY <2>1, <2>2
<1>3. ListCalls(cb2) = U \cup InList(m, k, new)
  <2>1. ASSUME NEW x \in ListCalls(cb2), x \notin InList(m, k, new)
        PROVE  x \in U
    <3>1. PICK m2, k2 : m2 \in Maps /\ x \in InList(m2, k2, ListOf(cb2, m2, k2))
      BY <2>1, InListCalls
    <3>2. m2 # m \/ k2 # k
      BY <2>1, <3>1
    <3>3. x \in InList(m2, k2, ListOf(cb, m2, k2))
      BY <3>1, <3>2
    <3>4. x \in ListCalls(cb)
      BY <3>1, <3>3, InListCalls
    <3> QED
      BY <1>1, <3>1, <3>2, <3>4
  <2>2. ASSUME NEW x \in U
        PROVE  x \in ListCalls(cb2)
    <3>1. PICK m2, k2 : m2 \in Maps /\ x \in InList(m2, k2, ListOf(cb, m2, k2))
      BY <2>2, InListCalls
    <3>2. m2 # m \/ k2 # k
      BY <1>1, <2>2, <3>1
    <3>3. x \in InList(m2, k2, ListOf(cb2, m2, k2))
      BY <3>1, <3>2
    <3> QED
      BY <3>1, <3>3, InListCalls
  <2>3. \A x \in InList(m, k, new) : x \in ListCalls(cb2)
    BY InListCalls
  <2> QED
    BY <2>1, <2>2, <2>3
<1>4. ASSUME NEW s
      PROVE  Split(U \cup InList(m, k, s), U, InList(m, k, s))
  BY <1>1 DEF Split
<1>5. IsFiniteSet(U)
  <2>1. U \in SUBSET ListCalls(cb)
    BY <1>2
  <2> QED
    BY <2>1, FS_Subset
<1> HIDE DEF U
<1>6. ASSUME NEW s \in Seq(S), NEW V, V = U \cup InList(m, k, s), NEW c
      PROVE  /\ IsFiniteSet(V)
             /\ CountOf(U, c) \in Nat /\ Tally(s, c) \in Nat
             /\ CountOf(V, c) = CountOf(U, c) + Tally(s, c)
  <2>1. IsFiniteSet(InList(m, k, s)) /\ CountOf(InList(m, k, s), c) = Tally(s, c)
    BY CountInList
  <2>2. Tally(s, c) \in Nat
    BY FiniteTally
  <2>3. Split(V, U, InList(m, k, s))
    BY <1>4, <1>6
  <2>4. IsFiniteSet(V) /\ CountOf(U, c) \in Nat /\ CountOf(V, c) = CountOf(U, c) + Tally(s, c)
    BY <1>5, <2>1, <2>2, <2>3, CountUnion
  <2> QED
    BY <2>2, <2>4
<1>7. ASSUME NEW c
      PROVE  Balance(ListCount(cb, c), Tally(old, c), Tally(new, c), ListCount(cb2, c))
  <2>1. /\ CountOf(U, c) \in Nat /\ Tally(old, c) \in Nat
        /\ ListCount(cb, c) = CountOf(U, c) + Tally(old, c)
    BY <1>2, <1>6 DEF ListCount
  <2>2. /\ Tally(new, c) \in Nat
        /\ ListCount(cb2, c) = CountOf(U, c) + Tally(new, c)
    BY <1>3, <1>6 DEF ListCount
  <2> QED
    BY <2>1, <2>2 DEF Balance
<1> QED
  BY <1>3, <1>6, <1>7

-----------------------------------------------------------------------------
(* Calls.                                                                  *)

Function(m, k)  == Call("function", m, k, Nothing)
Notice(m, k, v) == Call("notify", m, k, v)

LEMMA CallShape ==
  ASSUME NEW c \in Calls
  PROVE  /\ c.map \in Maps /\ c.key \in KeysOf(c.map)
         /\ c = Call(c.do, c.map, c.key, c.then)
         /\ c.do \in {"find_async", "find", "check", "enlist", "function", "arrive", "store", "notify"}
         /\ c.do \in {"find_async", "check"} => \E cb \in CallbacksOf(c.map) : c.then = <<cb>>
         /\ c.do = "enlist" => c.then = Nothing \/ \E cb \in CallbacksOf(c.map) : c.then = <<cb>>
         /\ c.do \in {"find", "function", "arrive"} => c.then = Nothing
         /\ c.do \in {"find", "arrive"} => c.map = "term"
         /\ c.do \in {"store", "notify"} => c.then \in Vals /\ c.then # NoValue
<1>1. CASE c \in OtherCalls
  BY <1>1 DEF OtherCalls, FindNow, Arrive, Call, Maps, KeysOf, Nothing
<1>3. ASSUME NEW m \in Maps, NEW do, NEW k \in KeysOf(m), NEW v, c = Call(do, m, k, v)
      PROVE  /\ c.map = m /\ c.key = k /\ c.do = do /\ c.then = v
             /\ c = Call(c.do, c.map, c.key, c.then)
  BY <1>3 DEF Call
<1>4. ASSUME NEW m \in Maps, c \in CallsOf(m)
      PROVE  /\ c.map \in Maps /\ c.key \in KeysOf(c.map)
             /\ c = Call(c.do, c.map, c.key, c.then)
             /\ c.do \in {"find_async", "check", "enlist", "function", "store", "notify"}
             /\ c.do \in {"find_async", "check"} => \E cb \in CallbacksOf(c.map) : c.then = <<cb>>
             /\ c.do = "enlist" => c.then = Nothing \/ \E cb \in CallbacksOf(c.map) : c.then = <<cb>>
             /\ c.do = "function" => c.then = Nothing
             /\ c.do \in {"store", "notify"} => c.then \in Vals /\ c.then # NoValue
  <2>1. CASE \E do \in {"find_async", "check", "enlist"}, k \in KeysOf(m), cb \in CallbacksOf(m) :
               c = Call(do, m, k, <<cb>>)
    <3>1. PICK do \in {"find_async", "check", "enlist"}, k \in KeysOf(m), cb \in CallbacksOf(m) :
                 c = Call(do, m, k, <<cb>>)
      BY <2>1
    <3>2. /\ c.map = m /\ c.key = k /\ c.do = do /\ c.then = <<cb>>
          /\ c = Call(c.do, c.map, c.key, c.then)
      BY <1>3, <3>1
    <3> QED
      BY <3>1, <3>2
  <2>2. CASE \E do \in {"enlist", "function"}, k \in KeysOf(m) : c = Call(do, m, k, Nothing)
    <3>1. PICK do \in {"enlist", "function"}, k \in KeysOf(m) : c = Call(do, m, k, Nothing)
      BY <2>2
    <3>2. /\ c.map = m /\ c.key = k /\ c.do = do /\ c.then = Nothing
          /\ c = Call(c.do, c.map, c.key, c.then)
      BY <1>3, <3>1
    <3> QED
      BY <3>1, <3>2
  <2>3. CASE \E do \in {"store", "notify"}, k \in KeysOf(m), v \in Vals \ {NoValue} :
               c = Call(do, m, k, v)
    <3>1. PICK do \in {"store", "notify"}, k \in KeysOf(m), v \in Vals \ {NoValue} :
                 c = Call(do, m, k, v)
      BY <2>3
    <3>2. /\ c.map = m /\ c.key = k /\ c.do = do /\ c.then = v
          /\ c = Call(c.do, c.map, c.key, c.then)
      BY <1>3, <3>1
    <3> QED
      BY <3>1, <3>2
  <2> QED
    BY <1>4, <2>1, <2>2, <2>3 DEF CallsOf
<1>5. "term" \in Maps /\ "approx" \in Maps
  BY DEF Maps
<1>6. CASE c \in CallsOf("term")
  BY <1>4, <1>5, <1>6
<1>7. CASE c \in CallsOf("approx")
  BY <1>4, <1>5, <1>7
<1> QED
  BY <1>1, <1>6, <1>7 DEF Calls

LEMMA CallMade ==
  ASSUME NEW m \in Maps, NEW k \in KeysOf(m)
  PROVE  /\ \A do \in {"find_async", "check", "enlist"}, cb \in CallbacksOf(m) :
              Call(do, m, k, <<cb>>) \in Calls
         /\ Call("enlist", m, k, Nothing) \in Calls
         /\ Function(m, k) \in Calls
         /\ \A v \in Vals \ {NoValue} : Store(m, k, v) \in Calls /\ Notice(m, k, v) \in Calls
         /\ m = "term" => FindNow(k) \in Calls /\ Arrive(k) \in Calls
<1>1. CallsOf(m) \subseteq Calls
  BY DEF Calls, Maps
<1>2. /\ \A do \in {"find_async", "check", "enlist"}, cb \in CallbacksOf(m) :
           Call(do, m, k, <<cb>>) \in CallsOf(m)
      /\ Call("enlist", m, k, Nothing) \in CallsOf(m) /\ Function(m, k) \in CallsOf(m)
  <2>1. ASSUME NEW do \in {"find_async", "check", "enlist"}, NEW cb \in CallbacksOf(m)
        PROVE  Call(do, m, k, <<cb>>) \in CallsOf(m)
    BY DEF CallsOf
  <2>2. Call("enlist", m, k, Nothing) \in CallsOf(m)
    BY DEF CallsOf
  <2>3. Function(m, k) \in CallsOf(m)
    BY DEF CallsOf, Function
  <2> QED
    BY <2>1, <2>2, <2>3
<1>3. \A v \in Vals \ {NoValue} : Store(m, k, v) \in CallsOf(m) /\ Notice(m, k, v) \in CallsOf(m)
  BY DEF CallsOf, Store, Notice
<1>4. m = "term" => FindNow(k) \in Calls /\ Arrive(k) \in Calls
  BY DEF Calls, OtherCalls, KeysOf
<1> QED
  BY <1>1, <1>2, <1>3, <1>4

\* What becomes of calls.
LEMMA Finals ==
  ASSUME NEW do, NEW m, NEW k
  PROVE  /\ do # "store" => Final(Call(do, m, k, Nothing)) = Call(do, m, k, Nothing)
         /\ \A v : Final(Store(m, k, v)) = Store(m, k, NoValue)
         /\ \A v : Final(Notice(m, k, v)) = Notice(m, k, v)
<1>1. do # "store" => Final(Call(do, m, k, Nothing)) = Call(do, m, k, Nothing)
  BY DEF Final, Call
<1>2. \A v : Final(Store(m, k, v)) = Store(m, k, NoValue)
  BY DEF Final, Call, Store
<1>3. \A v : Final(Notice(m, k, v)) = Notice(m, k, v)
  BY DEF Final, Call, Notice
<1> QED
  BY <1>1, <1>2, <1>3

LEMMA FinalCallback ==
  ASSUME NEW c, c.do \in {"find_async", "check", "enlist"}, NEW cb, c.then = <<cb>>
  PROVE  Final(c) = cb /\ c.then # Nothing /\ c.then[1] = cb
<1>1. <<cb>> # Nothing /\ <<cb>>[1] = cb
  BY DEF Nothing
<1> QED
  BY <1>1 DEF Final

LEMMA FinalOfCallback ==
  ASSUME NEW m \in Maps, NEW cb \in CallbacksOf(m)
  PROVE  Final(cb) = cb
<1>1. CASE m = "term"
  <2>1. PICK k \in Key : cb = Arrive(k)
    BY <1>1 DEF CallbacksOf
  <2> QED
    BY <2>1, Finals DEF Arrive
<1>2. CASE m = "approx"
  <2>1. PICK k \in Key : cb = Store("term", k, NoValue)
    BY <1>2 DEF CallbacksOf
  <2> QED
    BY <2>1, Finals
<1> QED
  BY <1>1, <1>2 DEF Maps

LEMMA CallbackCalled ==
  ASSUME NEW m \in Maps, NEW cb \in CallbacksOf(m), NEW v \in Vals \ {NoValue}
  PROVE  /\ Final(cb) = cb /\ WithValue(cb, v) \in Calls /\ Final(WithValue(cb, v)) = cb
         /\ WithValue(cb, v).do # "enlist"
<1>1. CASE m = "term"
  <2>1. PICK k \in Key : cb = Arrive(k)
    BY <1>1 DEF CallbacksOf
  <2>2. WithValue(cb, v) = cb /\ Final(cb) = cb
    BY <2>1, Finals DEF WithValue, Arrive, Call
  <2>3. cb \in Calls
    BY <2>1, CallMade DEF Maps, KeysOf
  <2>4. cb.do = "arrive"
    BY <2>1 DEF Arrive, Call
  <2> QED
    BY <2>2, <2>3, <2>4
<1>2. CASE m = "approx"
  <2>1. PICK k \in Key : cb = Store("term", k, NoValue)
    BY <1>2 DEF CallbacksOf
  <2>2. WithValue(cb, v) = Store("term", k, v)
    BY <2>1 DEF WithValue, Store, Call
  <2>3. Store("term", k, v) \in Calls /\ Final(Store("term", k, v)) = Store("term", k, NoValue)
    BY CallMade, Finals DEF Maps, KeysOf
  <2>4. Final(cb) = cb
    BY <2>1, Finals
  <2>5. Store("term", k, v).do # "enlist"
    BY DEF Store, Call
  <2> QED
    BY <2>1, <2>2, <2>3, <2>4, <2>5
<1> QED
  BY <1>1, <1>2 DEF Maps

Is(a, b) == IF a = b THEN 1 ELSE 0

LEMMA TallyAppend ==
  ASSUME NEW S, NEW s \in Seq(S), NEW x \in S, NEW c
  PROVE  Tally(Append(s, x), c) = Tally(s, c) + Is(Final(x), c)
<1> DEFINE q == Append(s, x)
           n == Len(s)
           I == {i \in DOMAIN s : Final(s[i]) = c}
           J == {i \in DOMAIN q : Final(q[i]) = c}
<1>1. /\ n \in Nat /\ DOMAIN s = 1 .. n /\ DOMAIN q = 1 .. n + 1
      /\ q[n + 1] = x /\ \A i \in 1 .. n : q[i] = s[i]
  OBVIOUS
<1>2. IsFiniteSet(I) /\ Cardinality(I) \in Nat
  BY FiniteTally DEF Tally
<1>3. CASE Final(x) = c
  <2>1. J = I \cup {n + 1} /\ n + 1 \notin I
    BY <1>1, <1>3
  <2> HIDE DEF I, J
  <2>2. Cardinality(J) = Cardinality(I) + 1
    BY <1>2, <2>1, FS_AddElement
  <2> QED
    BY <1>3, <2>2 DEF Tally, Is, I, J
<1>4. CASE Final(x) # c
  <2>1. J = I
    BY <1>1, <1>4
  <2> HIDE DEF I, J
  <2>2. Cardinality(J) = Cardinality(I) + 0
    BY <1>2, <2>1
  <2> QED
    BY <1>4, <2>2 DEF Tally, Is, I, J
<1> QED
  BY <1>3, <1>4

\* The tallies of short sequences.
LEMMA TallyShort ==
  ASSUME NEW c
  PROVE  /\ Tally(<<>>, c) = 0
         /\ \A x : Tally(<<x>>, c) = Is(Final(x), c)
         /\ \A x, y : Tally(<<x, y>>, c) = Is(Final(x), c) + Is(Final(y), c)
<1>1. Tally(<<>>, c) = 0
  <2>1. {i \in DOMAIN <<>> : Final(<<>>[i]) = c} = {}
    OBVIOUS
  <2> QED
    BY <2>1, FS_EmptySet DEF Tally
<1>2. ASSUME NEW x
      PROVE  Tally(<<x>>, c) = Is(Final(x), c)
  <2>1. <<>> \in Seq({x}) /\ <<x>> = Append(<<>>, x)
    OBVIOUS
  <2>2. Tally(Append(<<>>, x), c) = Tally(<<>>, c) + Is(Final(x), c)
    BY <2>1, TallyAppend
  <2> QED
    BY <1>1, <2>1, <2>2 DEF Is
<1>3. ASSUME NEW x, NEW y
      PROVE  Tally(<<x, y>>, c) = Is(Final(x), c) + Is(Final(y), c)
  <2>1. PICK S, s : S = {x, y} /\ s = <<x>>
    OBVIOUS
  <2>2. s \in Seq(S) /\ y \in S /\ <<x, y>> = Append(s, y)
    BY <2>1
  <2>3. Tally(Append(s, y), c) = Tally(s, c) + Is(Final(y), c)
    BY <2>2, TallyAppend
  <2>4. Tally(s, c) = Is(Final(x), c)
    BY <1>2, <2>1
  <2> QED
    BY <2>2, <2>3, <2>4
<1> QED
  BY <1>1, <1>2, <1>3

QueueCount(q, k) == Cardinality({i \in DOMAIN q : q[i] = k})

LEMMA QueueNat ==
  ASSUME NEW S, NEW q \in Seq(S), NEW k
  PROVE  QueueCount(q, k) \in Nat
<1>1. DOMAIN q = 1 .. Len(q) /\ Len(q) \in Nat
  OBVIOUS
<1>2. IsFiniteSet(1 .. Len(q)) /\ {i \in DOMAIN q : q[i] = k} \in SUBSET (1 .. Len(q))
  BY <1>1, FS_Interval
<1> QED
  BY <1>2, FS_Subset, FS_CardinalityType DEF QueueCount

LEMMA QueueAppend ==
  ASSUME NEW S, NEW q \in Seq(S), NEW x \in S, NEW k
  PROVE  /\ QueueCount(q, k) \in Nat
         /\ QueueCount(Append(q, x), k) = QueueCount(q, k) + Is(x, k)
<1> DEFINE r == Append(q, x)
           n == Len(q)
           I == {i \in DOMAIN q : q[i] = k}
           J == {i \in DOMAIN r : r[i] = k}
<1>1. /\ n \in Nat /\ DOMAIN q = 1 .. n /\ DOMAIN r = 1 .. n + 1
      /\ r[n + 1] = x /\ \A i \in 1 .. n : r[i] = q[i]
  OBVIOUS
<1>2. IsFiniteSet(I) /\ Cardinality(I) \in Nat
  <2>1. IsFiniteSet(1 .. n) /\ I \in SUBSET (1 .. n)
    BY <1>1, FS_Interval
  <2> QED
    BY <2>1, FS_Subset, FS_CardinalityType
<1>3. CASE x = k
  <2>1. J = I \cup {n + 1} /\ n + 1 \notin I
    BY <1>1, <1>3
  <2> HIDE DEF I, J
  <2>2. Cardinality(J) = Cardinality(I) + 1
    BY <1>2, <2>1, FS_AddElement
  <2> QED
    BY <1>2, <1>3, <2>2 DEF QueueCount, Is, I, J
<1>4. CASE x # k
  <2>1. J = I
    BY <1>1, <1>4
  <2> HIDE DEF I, J
  <2>2. Cardinality(J) = Cardinality(I) + 0
    BY <1>2, <2>1
  <2> QED
    BY <1>2, <1>4, <2>2 DEF QueueCount, Is, I, J
<1> QED
  BY <1>3, <1>4

LEMMA QueueTail ==
  ASSUME NEW S, NEW q \in Seq(S), q # <<>>, NEW k
  PROVE  /\ QueueCount(Tail(q), k) \in Nat
         /\ QueueCount(q, k) = QueueCount(Tail(q), k) + Is(Head(q), k)
<1> DEFINE r == Tail(q)
           n == Len(r)
           I == {i \in DOMAIN r : r[i] = k}
           J == {i \in DOMAIN q : q[i] = k}
           f == [i \in I |-> i + 1]
<1>1. /\ n \in Nat /\ DOMAIN r = 1 .. n /\ DOMAIN q = 1 .. n + 1
      /\ q[1] = Head(q) /\ \A i \in 1 .. n : r[i] = q[i + 1]
  OBVIOUS
<1>2. IsFiniteSet(I) /\ Cardinality(I) \in Nat
  <2>1. IsFiniteSet(1 .. n) /\ I \in SUBSET (1 .. n)
    BY <1>1, FS_Interval
  <2> QED
    BY <2>1, FS_Subset, FS_CardinalityType
<1>3. f \in Bijection(I, J \ {1})
  <2>1. ASSUME NEW i \in I
        PROVE  f[i] \in J \ {1}
    BY <1>1
  <2>2. \A i, j \in I : f[i] = f[j] => i = j
    BY <1>1
  <2>3. ASSUME NEW j \in J \ {1}
        PROVE  \E i \in I : f[i] = j
    <3>1. j - 1 \in 1 .. n /\ (j - 1) + 1 = j
      BY <1>1
    <3>2. j - 1 \in I
      BY <1>1, <3>1
    <3> QED
      BY <3>1, <3>2
  <2>4. f \in [I -> J \ {1}]
    BY <2>1
  <2> HIDE DEF f, I, J
  <2> QED
    BY <2>2, <2>3, <2>4, Fun_IsBij
<1>4. J \subseteq (J \ {1}) \cup {1} /\ (1 \in J <=> Head(q) = k)
  BY <1>1
<1> HIDE DEF f, I, J
<1>5. ExistsBijection(I, J \ {1})
  BY <1>3 DEF ExistsBijection
<1>6. IsFiniteSet(J \ {1}) /\ Cardinality(J \ {1}) = Cardinality(I)
  BY <1>2, <1>5, FS_Bijection
<1>7. CASE 1 \in J
  <2>1. J = (J \ {1}) \cup {1}
    BY <1>7
  <2>2. Cardinality((J \ {1}) \cup {1}) = Cardinality(J \ {1}) + 1
    BY <1>6, FS_AddElement
  <2>3. Cardinality(J) = Cardinality((J \ {1}) \cup {1})
    BY <2>1
  <2>4. Cardinality(J) = Cardinality(I) + 1
    BY <1>6, <2>2, <2>3
  <2> QED
    BY <1>2, <1>4, <1>7, <2>4 DEF QueueCount, Is, I, J
<1>8. CASE 1 \notin J
  <2>1. J = J \ {1}
    BY <1>8
  <2>2. Cardinality(J) = Cardinality(J \ {1})
    BY <2>1
  <2>3. Cardinality(J) = Cardinality(I) + 0
    BY <1>2, <1>6, <2>2
  <2> QED
    BY <1>2, <1>4, <1>8, <2>3 DEF QueueCount, Is, I, J
<1> QED
  BY <1>7, <1>8

-----------------------------------------------------------------------------
(* The types, and how a step of a thread changes the counts.               *)

ValuesOK ==
  /\ DOMAIN values = Maps
  /\ \A m \in Maps : /\ DOMAIN values[m] \subseteq KeysOf(m)
                     /\ \A k \in DOMAIN values[m] : values[m][k] \in Vals

CallbacksOK ==
  /\ DOMAIN callbacks = Maps
  /\ \A m \in Maps : /\ DOMAIN callbacks[m] \subseteq KeysOf(m)
                     /\ \A k \in DOMAIN callbacks[m] : callbacks[m][k] \in Seq(CallbacksOf(m))
  /\ IsFiniteSet(ListCalls(callbacks))

WaitingOK == DOMAIN waiting \subseteq Key /\ \A k \in DOMAIN waiting : waiting[k] \in Nat

QueueOK == queue \in Seq(ApproxKey)

StackOK == stack \in [Thread -> Seq(Calls)] /\ IsFiniteSet(StackCalls(stack))

TypeOK == ValuesOK /\ CallbacksOK /\ WaitingOK /\ QueueOK /\ StackOK

LEMMA OnStacksForm ==
  ASSUME NEW st \in [Thread -> Seq(Calls)]
  PROVE  UNION {{<<Final(st[t][i]), <<t, Len(st[t]) - i>> >> : i \in DOMAIN st[t]} : t \in Thread}
           = StackCalls(st)
<1>1. ASSUME NEW t \in Thread
      PROVE  Above(t, st[t], 0) = {<<Final(st[t][i]), <<t, Len(st[t]) - i>> >> : i \in DOMAIN st[t]}
  <2>1. \A i \in DOMAIN st[t] : Len(st[t]) + 0 - i = Len(st[t]) - i
    OBVIOUS
  <2> QED
    BY <2>1 DEF Above
<1> QED
  BY <1>1 DEF StackCalls

CountIn(st, cb, c) == StackCount(st, c) + ListCount(cb, c)

LEMMA CountIs ==
  ASSUME StackOK
  PROVE  \A c : Count(c) = CountIn(stack, callbacks, c)
<1>1. OnStacks = StackCalls(stack)
  BY OnStacksForm DEF StackOK, OnStacks
<1>2. InLists = ListCalls(callbacks)
  BY DEF InLists, ListCalls, InList
<1> QED
  BY <1>1, <1>2 DEF Count, CountIn, StackCount, ListCount, CountOf, Of

LEMMA CountIsNext ==
  ASSUME StackOK'
  PROVE  \A c : Count(c)' = CountIn(stack', callbacks', c)
<1>1. OnStacks' = StackCalls(stack')
  BY OnStacksForm DEF StackOK, OnStacks
<1>2. InLists' = ListCalls(callbacks')
  BY DEF InLists, ListCalls, InList
<1> QED
  BY <1>1, <1>2 DEF Count, CountIn, StackCount, ListCount, CountOf, Of

LEMMA BecomeEffect ==
  ASSUME StackOK, NEW t \in Thread, stack[t] # <<>>, NEW calls \in Seq(Calls), Become(t, calls)
  PROVE  /\ StackOK'
         /\ \A c : Balance(StackCount(stack, c), Is(Final(Top(t)), c), Tally(calls, c),
                           StackCount(stack', c))
<1>1. PICK st, st2, old, r : /\ st = stack /\ st2 = stack'
                             /\ old = <<Top(t)>> /\ r = Tail(stack[t])
  OBVIOUS
<1>2. st \in [Thread -> Seq(Calls)] /\ IsFiniteSet(StackCalls(st))
  BY <1>1 DEF StackOK
<1>3. old \in Seq(Calls) /\ r \in Seq(Calls) /\ st[t] = old \o r
  BY <1>1, <1>2 DEF Top
<1>4. Replaced(Calls, st, st2, t, old, calls)
  BY <1>1, <1>3 DEF Become, Replaced
<1>5. /\ st2 \in [Thread -> Seq(Calls)] /\ IsFiniteSet(StackCalls(st2))
      /\ \A c : Balance(StackCount(st, c), Tally(old, c), Tally(calls, c), StackCount(st2, c))
  BY <1>2, <1>3, <1>4, StackStep
<1>6. \A c : Tally(old, c) = Is(Final(Top(t)), c)
  BY <1>1, TallyShort
<1>7. StackOK'
  BY <1>1, <1>5 DEF StackOK
<1> QED
  BY <1>1, <1>5, <1>6, <1>7

LEMMA ListCountNat ==
  ASSUME NEW cb, IsFiniteSet(ListCalls(cb)), NEW c
  PROVE  ListCount(cb, c) \in Nat
<1>1. Of(ListCalls(cb), c) \in SUBSET ListCalls(cb)
  BY DEF Of
<1> QED
  BY <1>1, FS_Subset, FS_CardinalityType DEF ListCount, CountOf

\* The callbacks are left alone.
LEMMA CallEffect ==
  ASSUME StackOK, CallbacksOK, NEW t \in Thread, stack[t] # <<>>,
         NEW calls \in Seq(Calls), Become(t, calls), UNCHANGED callbacks
  PROVE  /\ StackOK' /\ CallbacksOK'
         /\ \A c : Balance(Count(c), Is(Final(Top(t)), c), Tally(calls, c), Count(c)')
<1>1. /\ StackOK'
      /\ \A c : Balance(StackCount(stack, c), Is(Final(Top(t)), c), Tally(calls, c),
                        StackCount(stack', c))
  BY BecomeEffect
<1>2. CallbacksOK'
  BY DEF CallbacksOK
<1>3. ASSUME NEW c
      PROVE  Balance(Count(c), Is(Final(Top(t)), c), Tally(calls, c), Count(c)')
  <2>1. Count(c) = CountIn(stack, callbacks, c)
    BY CountIs
  <2>2. Count(c)' = CountIn(stack', callbacks', c)
    BY <1>1, CountIsNext
  <2>3. ListCount(callbacks, c) \in Nat /\ ListCount(callbacks', c) = ListCount(callbacks, c)
    BY ListCountNat DEF CallbacksOK
  <2>4. Tally(calls, c) \in Nat /\ Is(Final(Top(t)), c) \in Nat
    BY FiniteTally DEF Is
  <2> HIDE DEF CallbacksOK
  <2> QED
    BY <1>1, <2>1, <2>2, <2>3, <2>4 DEF Balance, CountIn
<1> QED
  BY <1>1, <1>2, <1>3

LEMMA ListOfCallbacks ==
  ASSUME CallbacksOK, NEW m \in Maps, NEW k
  PROVE  ListOf(callbacks, m, k) \in Seq(CallbacksOf(m))
BY DEF CallbacksOK, ListOf

LEMMA EnlistedEffect ==
  ASSUME CallbacksOK, NEW m \in Maps, NEW k \in KeysOf(m),
         NEW more, more = <<>> \/ \E cb \in CallbacksOf(m) : more = <<cb>>,
         callbacks' = Enlisted(m, k, more)
  PROVE  /\ CallbacksOK'
         /\ \A c : Balance(ListCount(callbacks, c), 0, Tally(more, c), ListCount(callbacks', c))
         /\ k \in DOMAIN callbacks'[m]
         /\ \A p \in Maps : DOMAIN callbacks'[p] \subseteq DOMAIN callbacks[p] \cup {j \in {k} : p = m}
         /\ \A p \in Maps : DOMAIN callbacks[p] \subseteq DOMAIN callbacks'[p]
<1>1. PICK old : old = ListOf(callbacks, m, k) /\ old \in Seq(CallbacksOf(m))
  BY ListOfCallbacks
<1>2. more \in Seq(CallbacksOf(m)) /\ old \o more \in Seq(CallbacksOf(m))
  <2>1. more \in Seq(CallbacksOf(m))
    <3>1. \A cb \in CallbacksOf(m) : <<cb>> \in Seq(CallbacksOf(m))
      OBVIOUS
    <3>2. <<>> \in Seq(CallbacksOf(m))
      OBVIOUS
    <3> QED
      BY <3>1, <3>2
  <2> QED
    BY <1>1, <2>1
<1>3. /\ DOMAIN callbacks' = Maps
      /\ DOMAIN callbacks'[m] = DOMAIN callbacks[m] \cup {k}
      /\ callbacks'[m][k] = old \o more
      /\ \A j \in DOMAIN callbacks[m] \ {k} : callbacks'[m][j] = callbacks[m][j]
      /\ \A p \in Maps \ {m} : callbacks'[p] = callbacks[p]
  <2>1. old \o more = IF k \in DOMAIN callbacks[m] THEN callbacks[m][k] \o more ELSE more
    <3>1. <<>> \o more = more
      BY <1>2
    <3> QED
      BY <1>1, <3>1 DEF ListOf
  <2>2. callbacks' = [callbacks EXCEPT ![m] = With(@, k, old \o more)]
    BY <2>1 DEF Enlisted
  <2>3. /\ DOMAIN callbacks' = Maps
        /\ callbacks'[m] = With(callbacks[m], k, old \o more)
        /\ \A p \in Maps \ {m} : callbacks'[p] = callbacks[p]
    BY <2>2 DEF CallbacksOK
  <2> QED
    BY <2>3 DEF With
<1>4. PICK cb2 : cb2 = callbacks'
  OBVIOUS
<1>5. /\ ListOf(cb2, m, k) = old \o more
      /\ \A m2 \in Maps : \A k2 : m2 # m \/ k2 # k => ListOf(cb2, m2, k2) = ListOf(callbacks, m2, k2)
  BY <1>3, <1>4 DEF ListOf
<1>6. /\ IsFiniteSet(ListCalls(cb2))
      /\ \A c : Balance(ListCount(callbacks, c), Tally(old, c), Tally(old \o more, c), ListCount(cb2, c))
  <2>1. PICK cb, new2 : cb = callbacks /\ new2 = old \o more
    OBVIOUS
  <2>2. /\ ListOf(cb, m, k) = old /\ ListOf(cb2, m, k) = new2
        /\ \A m2 \in Maps : \A k2 : m2 # m \/ k2 # k => ListOf(cb2, m2, k2) = ListOf(cb, m2, k2)
        /\ IsFiniteSet(ListCalls(cb)) /\ new2 \in Seq(CallbacksOf(m))
    BY <1>1, <1>2, <1>5, <2>1 DEF CallbacksOK
  <2>3. /\ IsFiniteSet(ListCalls(cb2))
        /\ \A c : Balance(ListCount(cb, c), Tally(old, c), Tally(new2, c), ListCount(cb2, c))
    BY <1>1, <2>2, ListStep
  <2> QED
    BY <2>1, <2>3
<1>7. ASSUME NEW c
      PROVE  Tally(old, c) \in Nat /\ Tally(old \o more, c) = Tally(old, c) + Tally(more, c)
  <2>1. Tally(old, c) \in Nat
    BY <1>1, FiniteTally
  <2>2. CASE more = <<>>
    <3>1. old \o more = old
      BY <1>1, <2>2
    <3>2. Tally(more, c) = 0
      BY <2>2, TallyShort
    <3> QED
      BY <2>1, <3>1, <3>2
  <2>3. ASSUME NEW cb \in CallbacksOf(m), more = <<cb>>
        PROVE  Tally(old \o more, c) = Tally(old, c) + Tally(more, c)
    <3>1. old \o more = Append(old, cb)
      BY <1>1, <2>3
    <3>2. Tally(Append(old, cb), c) = Tally(old, c) + Is(Final(cb), c)
      BY <1>1, TallyAppend
    <3>3. Tally(more, c) = Is(Final(cb), c)
      BY <2>3, TallyShort
    <3> QED
      BY <3>1, <3>2, <3>3
  <2> QED
    BY <2>1, <2>2, <2>3
<1>8. ASSUME NEW c
      PROVE  Balance(ListCount(callbacks, c), 0, Tally(more, c), ListCount(callbacks', c))
  <2>1. Tally(more, c) \in Nat
    BY <1>2, FiniteTally
  <2> QED
    BY <1>4, <1>6, <1>7, <2>1 DEF Balance
<1>9. CallbacksOK'
  BY <1>2, <1>3, <1>4, <1>6 DEF CallbacksOK
<1> QED
  BY <1>3, <1>8, <1>9

\* The calls whose number matters.
Owed(c) == c.do \in {"function", "arrive", "store", "notify"}

LEMMA TopShape ==
  ASSUME StackOK, NEW t \in Thread, stack[t] # <<>>
  PROVE  Top(t) \in Calls
BY DEF StackOK, Top

LEMMA NotifyEffect ==
  ASSUME StackOK, CallbacksOK, NEW t \in Thread, Notify(t),
         Top(t).key \in DOMAIN callbacks[Top(t).map]
  PROVE  /\ StackOK' /\ CallbacksOK'
         /\ \A c : Balance(Count(c), Is(Top(t), c), 0, Count(c)')
         /\ \E calls \in Seq(Calls) : /\ Become(t, calls)
                                      /\ \A i \in DOMAIN calls : calls[i].do # "enlist"
         /\ DOMAIN callbacks' = Maps
         /\ \A p \in Maps : DOMAIN callbacks'[p] = {j \in DOMAIN callbacks[p] : p # Top(t).map \/ j # Top(t).key}
<1>1. PICK m, k, v : m = Top(t).map /\ k = Top(t).key /\ v = Top(t).then
  OBVIOUS
<1>2. /\ Top(t) \in Calls /\ stack[t] # <<>> /\ Top(t).do = "notify"
  BY TopShape DEF Notify, Doing
<1>3. /\ m \in Maps /\ k \in KeysOf(m) /\ Top(t) = Notice(m, k, v) /\ v \in Vals \ {NoValue}
  BY <1>1, <1>2, CallShape DEF Notice
<1>4. PICK called : called = callbacks[m][k]
  OBVIOUS
<1>5. called \in Seq(CallbacksOf(m))
  BY <1>1, <1>3, <1>4 DEF CallbacksOK
<1>6. PICK calls : calls = [i \in DOMAIN called |-> WithValue(called[i], v)]
  OBVIOUS
<1>7. \A i \in DOMAIN called : /\ Final(called[i]) = called[i] /\ calls[i] \in Calls
                               /\ Final(calls[i]) = called[i] /\ calls[i].do # "enlist"
  <2>1. \A i \in DOMAIN called : called[i] \in CallbacksOf(m)
    BY <1>5
  <2> QED
    BY <1>3, <1>6, <2>1, CallbackCalled
<1>8. calls \in Seq(Calls) /\ DOMAIN calls = DOMAIN called
  <2>1. Len(called) \in Nat /\ DOMAIN called = 1 .. Len(called)
    BY <1>5
  <2>2. calls \in [1 .. Len(called) -> Calls]
    BY <1>6, <1>7, <2>1
  <2> QED
    BY <1>6, <2>1, <2>2
<1>9. \A c : Tally(calls, c) = Tally(called, c)
  <2>1. ASSUME NEW c
        PROVE  {i \in DOMAIN calls : Final(calls[i]) = c} = {i \in DOMAIN called : Final(called[i]) = c}
    BY <1>7, <1>8
  <2> QED
    BY <2>1 DEF Tally
<1>10. Become(t, calls)
  BY <1>1, <1>4, <1>6 DEF Notify
<1>11. /\ DOMAIN callbacks' = Maps
       /\ DOMAIN callbacks'[m] = DOMAIN callbacks[m] \ {k}
       /\ \A j \in DOMAIN callbacks'[m] : callbacks'[m][j] = callbacks[m][j]
       /\ \A p \in Maps \ {m} : callbacks'[p] = callbacks[p]
  <2>1. callbacks' = [callbacks EXCEPT ![m] = Without(@, k)]
    BY <1>1 DEF Notify
  <2>2. /\ DOMAIN callbacks' = Maps
        /\ callbacks'[m] = Without(callbacks[m], k)
        /\ \A p \in Maps \ {m} : callbacks'[p] = callbacks[p]
    BY <1>3, <2>1 DEF CallbacksOK
  <2> QED
    BY <2>2 DEF Without
<1>12. /\ StackOK'
       /\ \A c : Balance(StackCount(stack, c), Is(Final(Top(t)), c), Tally(calls, c),
                         StackCount(stack', c))
  BY <1>2, <1>8, <1>10, BecomeEffect
<1>13. /\ IsFiniteSet(ListCalls(callbacks'))
       /\ \A c : Balance(ListCount(callbacks, c), Tally(called, c), 0, ListCount(callbacks', c))
  <2>1. PICK cb, cb2, none : cb = callbacks /\ cb2 = callbacks' /\ none = <<>>
    OBVIOUS
  <2>2. /\ ListOf(cb, m, k) = called /\ ListOf(cb2, m, k) = none
        /\ \A m2 \in Maps : \A k2 : m2 # m \/ k2 # k => ListOf(cb2, m2, k2) = ListOf(cb, m2, k2)
    BY <1>1, <1>3, <1>4, <1>11, <2>1 DEF ListOf
  <2>3. IsFiniteSet(ListCalls(cb)) /\ none \in Seq(CallbacksOf(m))
    BY <2>1 DEF CallbacksOK
  <2>4. /\ IsFiniteSet(ListCalls(cb2))
        /\ \A c : Balance(ListCount(cb, c), Tally(called, c), Tally(none, c), ListCount(cb2, c))
    BY <1>3, <1>5, <2>2, <2>3, ListStep
  <2>5. \A c : Tally(none, c) = 0
    BY <2>1, TallyShort
  <2> QED
    BY <2>1, <2>4, <2>5
<1>14. CallbacksOK'
  BY <1>11, <1>13 DEF CallbacksOK
<1>15. ASSUME NEW c
       PROVE  Balance(Count(c), Is(Top(t), c), 0, Count(c)')
  <2>1. Count(c) = CountIn(stack, callbacks, c)
    BY CountIs
  <2>2. Count(c)' = CountIn(stack', callbacks', c)
    BY <1>12, CountIsNext
  <2>3. Final(Top(t)) = Top(t)
    BY <1>3, Finals
  <2>4. Tally(called, c) \in Nat /\ Is(Top(t), c) \in Nat
    BY <1>5, FiniteTally DEF Is
  <2> QED
    BY <1>9, <1>12, <1>13, <2>1, <2>2, <2>3, <2>4 DEF Balance, CountIn
<1>16. \A p \in Maps : DOMAIN callbacks'[p] = {j \in DOMAIN callbacks[p] : p # m \/ j # k}
  BY <1>11
<1> QED
  BY <1>1, <1>7, <1>8, <1>10, <1>11, <1>12, <1>14, <1>15, <1>16

-----------------------------------------------------------------------------
(* The inductive invariant.                                                *)

\* A task waits for as many callbacks as there will be.
TasksWait == \A k : Count(Arrive(k)) = IF k \in DOMAIN waiting THEN waiting[k] ELSE 0

Kept(m, k) == IF m = "term" THEN IF k \in DOMAIN waiting THEN 1 ELSE 0
              ELSE QueueCount(queue, k)

\* One call, task or entry of the queue will store a key that has no value.
OneMaker == \A m \in Maps : \A k : Makers(m, k) + Kept(m, k) = Due(m, k)

\* A stored value is told at most once.
NotifyOnce ==
  \A m \in Maps : \A k, v : Count(Notice(m, k, v)) # 0 =>
    /\ Count(Notice(m, k, v)) = 1
    /\ k \in DOMAIN values[m] /\ values[m][k] = v /\ v # NoValue

\* The thread that inserted a key makes its list before it starts its function.
EnlistFirst ==
  \A t \in Thread : \A i \in 1 .. Len(stack[t]) : stack[t][i].do = "enlist" =>
    /\ i = 1 /\ Len(stack[t]) >= 2
    /\ stack[t][2] = Function(stack[t][1].map, stack[t][1].key)

Starting(m, k) ==
  \E t \in Thread : stack[t] # <<>> /\ Top(t).do = "enlist" /\ Top(t).map = m /\ Top(t).key = k

\* Until its value is told, a key has a list of callbacks or is about to have one.
ListMade ==
  \A m \in Maps : \A k \in DOMAIN values[m] :
    values[m][k] = NoValue \/ (\E v : Count(Notice(m, k, v)) # 0) =>
      k \in DOMAIN callbacks[m] \/ Starting(m, k)

\* Callbacks wait for a key that has no value yet, or whose value is being told.
ListsCalled ==
  \A m \in Maps : \A k \in DOMAIN callbacks[m] :
    Value(m, k) = NoValue \/ Count(Notice(m, k, Value(m, k))) = 1

IInv ==
  TypeOK /\ TasksWait /\ OneMaker /\ NotifyOnce /\ EnlistFirst /\ ListMade /\ ListsCalled

LEMMA OwedCalls ==
  /\ \A k : Owed(Arrive(k))
  /\ \A m, k : Owed(Function(m, k))
  /\ \A m, k, v : Owed(Store(m, k, v))
  /\ \A m, k, v : Owed(Notice(m, k, v))
BY DEF Owed, Arrive, Function, Store, Notice, Call

LEMMA IsArrive ==
  ASSUME NEW k
  PROVE  /\ \A j : Is(Arrive(k), Arrive(j)) = IF k = j THEN 1 ELSE 0
         /\ \A p, j : Is(Arrive(k), Function(p, j)) = 0
         /\ \A p, j : Is(Arrive(k), Store(p, j, NoValue)) = 0
         /\ \A p, j, u : Is(Arrive(k), Notice(p, j, u)) = 0
BY DEF Is, Arrive, Function, Store, Notice, Call

LEMMA IsFunction ==
  ASSUME NEW m, NEW k
  PROVE  /\ \A j : Is(Function(m, k), Arrive(j)) = 0
         /\ \A p, j : Is(Function(m, k), Function(p, j)) = IF m = p /\ k = j THEN 1 ELSE 0
         /\ \A p, j : Is(Function(m, k), Store(p, j, NoValue)) = 0
         /\ \A p, j, u : Is(Function(m, k), Notice(p, j, u)) = 0
BY DEF Is, Arrive, Function, Store, Notice, Call

LEMMA IsStore ==
  ASSUME NEW m, NEW k
  PROVE  /\ \A j : Is(Store(m, k, NoValue), Arrive(j)) = 0
         /\ \A p, j : Is(Store(m, k, NoValue), Function(p, j)) = 0
         /\ \A p, j : Is(Store(m, k, NoValue), Store(p, j, NoValue)) = IF m = p /\ k = j THEN 1 ELSE 0
         /\ \A p, j, u : Is(Store(m, k, NoValue), Notice(p, j, u)) = 0
BY DEF Is, Arrive, Function, Store, Notice, Call

LEMMA IsNotice ==
  ASSUME NEW m, NEW k, NEW v
  PROVE  /\ \A j : Is(Notice(m, k, v), Arrive(j)) = 0
         /\ \A p, j : Is(Notice(m, k, v), Function(p, j)) = 0
         /\ \A p, j : Is(Notice(m, k, v), Store(p, j, NoValue)) = 0
         /\ \A p, j, u : Is(Notice(m, k, v), Notice(p, j, u)) = IF m = p /\ k = j /\ v = u THEN 1 ELSE 0
BY DEF Is, Arrive, Function, Store, Notice, Call

\* A call that is to be made is counted.
LEMMA OnStackCounted ==
  ASSUME StackOK, CallbacksOK, NEW t \in Thread, NEW i \in 1 .. Len(stack[t])
  PROVE  Count(Final(stack[t][i])) \in Nat \ {0}
<1> DEFINE c == Final(stack[t][i])
           x == <<c, <<t, Len(stack[t]) + 0 - i>> >>
<1>1. DOMAIN stack[t] = 1 .. Len(stack[t])
  BY DEF StackOK
<1>2. x \in Of(StackCalls(stack), c)
  BY <1>1 DEF Of, StackCalls, Above
<1>3. IsFiniteSet(Of(StackCalls(stack), c))
  <2>1. Of(StackCalls(stack), c) \in SUBSET StackCalls(stack)
    BY DEF Of
  <2> QED
    BY <2>1, FS_Subset DEF StackOK
<1>4. StackCount(stack, c) \in Nat \ {0}
  BY <1>2, <1>3, FS_EmptySet, FS_CardinalityType DEF StackCount, CountOf
<1>5. ListCount(callbacks, c) \in Nat
  BY ListCountNat DEF CallbacksOK
<1>6. Count(c) = StackCount(stack, c) + ListCount(callbacks, c)
  BY CountIs DEF CountIn
<1> QED
  BY <1>4, <1>5, <1>6

LEMMA CountNat ==
  ASSUME StackOK, CallbacksOK, NEW c
  PROVE  Count(c) \in Nat
<1>1. StackCount(stack, c) \in Nat
  <2>1. Of(StackCalls(stack), c) \in SUBSET StackCalls(stack)
    BY DEF Of
  <2> QED
    BY <2>1, FS_Subset, FS_CardinalityType DEF StackOK, StackCount, CountOf
<1>2. ListCount(callbacks, c) \in Nat
  BY ListCountNat DEF CallbacksOK
<1> QED
  BY <1>1, <1>2, CountIs DEF CountIn

\* The calls that matter, and what they are about, stay.
LEMMA SameCounts ==
  ASSUME TasksWait, OneMaker, NotifyOnce, UNCHANGED <<values, waiting, queue>>,
         \A c : Owed(c) => Count(c)' = Count(c)
  PROVE  TasksWait' /\ OneMaker' /\ NotifyOnce'
<1>1. \A k : Count(Arrive(k))' = Count(Arrive(k))
  BY OwedCalls
<1>2. \A m, k : Count(Function(m, k))' = Count(Function(m, k))
  BY OwedCalls
<1>3. \A m, k : Count(Store(m, k, NoValue))' = Count(Store(m, k, NoValue))
  BY OwedCalls
<1>4. \A m, k, v : Count(Notice(m, k, v))' = Count(Notice(m, k, v))
  BY OwedCalls
<1>5. TasksWait'
  BY <1>1 DEF TasksWait
<1>6. OneMaker'
  <2>1. \A m, k : Makers(m, k)' = Makers(m, k)
    BY <1>2, <1>3 DEF Makers, Function
  <2>2. \A m, k : Kept(m, k)' = Kept(m, k) /\ Due(m, k)' = Due(m, k)
    BY DEF Kept, Due, Value
  <2> QED
    BY <2>1, <2>2 DEF OneMaker
<1>7. NotifyOnce'
  BY <1>4 DEF NotifyOnce
<1> QED
  BY <1>5, <1>6, <1>7

-----------------------------------------------------------------------------
(* Lists are made before functions start.                                  *)

LEMMA StackNow ==
  ASSUME StackOK, NEW t \in Thread, stack[t] # <<>>, NEW calls \in Seq(Calls), Become(t, calls)
  PROVE  /\ Len(calls) \in Nat /\ Len(stack[t]) \in Nat \ {0}
         /\ Len(stack'[t]) = Len(calls) + Len(stack[t]) - 1
         /\ \A i \in 1 .. Len(calls) : stack'[t][i] = calls[i]
         /\ \A i \in Len(calls) + 1 .. Len(stack'[t]) :
              stack'[t][i] = stack[t][i - Len(calls) + 1]
         /\ \A u \in Thread \ {t} : stack'[u] = stack[u]
<1>1. PICK s, r : s = stack[t] /\ r = Tail(s)
  OBVIOUS
<1>2. /\ s \in Seq(Calls) /\ s # <<>> /\ r \in Seq(Calls)
      /\ Len(s) \in Nat \ {0} /\ Len(r) = Len(s) - 1
      /\ \A i \in 1 .. Len(r) : r[i] = s[i + 1]
  BY <1>1 DEF StackOK
<1>3. /\ stack'[t] = calls \o r
      /\ \A u \in Thread \ {t} : stack'[u] = stack[u]
  BY <1>1 DEF StackOK, Become
<1>4. PICK q : q = calls \o r
  OBVIOUS
<1>5. /\ Len(calls) \in Nat /\ Len(q) = Len(calls) + Len(r)
      /\ \A i \in 1 .. Len(calls) : q[i] = calls[i]
      /\ \A i \in Len(calls) + 1 .. Len(q) : q[i] = r[i - Len(calls)]
  <2>1. /\ Len(q) = Len(calls) + Len(r) /\ Len(calls) \in Nat /\ Len(r) \in Nat
        /\ \A i \in 1 .. Len(calls) + Len(r) :
             q[i] = IF i <= Len(calls) THEN calls[i] ELSE r[i - Len(calls)]
    BY <1>2, <1>4, ConcatProperties
  <2> QED
    BY <2>1
<1>6. \A i \in Len(calls) + 1 .. Len(q) : q[i] = s[i - Len(calls) + 1]
  BY <1>2, <1>5
<1> QED
  BY <1>1, <1>2, <1>3, <1>4, <1>5, <1>6

\* What a step pushes is no "enlist", or one that a new key starts with.
LEMMA EnlistStep ==
  ASSUME StackOK, EnlistFirst, NEW t \in Thread, stack[t] # <<>>,
         NEW calls \in Seq(Calls), Become(t, calls),
         \/ \A i \in 1 .. Len(calls) : calls[i].do # "enlist"
         \/ \E m, k, th : calls = <<Call("enlist", m, k, th), Function(m, k)>>
  PROVE  EnlistFirst'
<1> SUFFICES ASSUME NEW u \in Thread, NEW i \in 1 .. Len(stack'[u]), stack'[u][i].do = "enlist"
             PROVE  /\ i = 1 /\ Len(stack'[u]) >= 2
                    /\ stack'[u][2] = Function(stack'[u][1].map, stack'[u][1].key)
  BY DEF EnlistFirst
<1>1. /\ Len(calls) \in Nat /\ Len(stack[t]) \in Nat \ {0}
      /\ Len(stack'[t]) = Len(calls) + Len(stack[t]) - 1
      /\ \A j \in 1 .. Len(calls) : stack'[t][j] = calls[j]
      /\ \A j \in Len(calls) + 1 .. Len(stack'[t]) :
           stack'[t][j] = stack[t][j - Len(calls) + 1]
      /\ \A v \in Thread \ {t} : stack'[v] = stack[v]
  BY StackNow
<1>2. CASE u # t
  BY <1>1, <1>2 DEF EnlistFirst
<1>3. CASE u = t
  <2>1. i <= Len(calls)
    <3>1. CASE i > Len(calls)
      <4>1. PICK j : j = i - Len(calls) + 1
        OBVIOUS
      <4>2. i \in Len(calls) + 1 .. Len(stack'[t])
        BY <1>1, <1>3, <3>1
      <4>3. stack'[t][i] = stack[t][j]
        BY <1>1, <4>1, <4>2
      <4>4. j \in 1 .. Len(stack[t]) /\ j # 1
        BY <1>1, <4>1, <4>2
      <4>5. stack[t][j].do = "enlist"
        BY <1>3, <4>3
      <4> QED
        BY <4>4, <4>5 DEF EnlistFirst
    <3> QED
      BY <1>1, <1>3, <3>1
  <2>2. calls[i].do = "enlist" /\ i \in 1 .. Len(calls)
    BY <1>1, <1>3, <2>1
  <2>3. PICK m, k, th : calls = <<Call("enlist", m, k, th), Function(m, k)>>
    BY <2>2
  <2>4. /\ Len(calls) = 2 /\ calls[1] = Call("enlist", m, k, th) /\ calls[2] = Function(m, k)
    BY <2>3
  <2>5. calls[2].do # "enlist" /\ calls[1].map = m /\ calls[1].key = k
    BY <2>4 DEF Function, Call
  <2>6. i = 1
    BY <2>2, <2>4, <2>5
  <2>7. Len(stack'[t]) >= 2 /\ stack'[t][1] = calls[1] /\ stack'[t][2] = calls[2]
    BY <1>1, <2>4
  <2> QED
    BY <1>3, <2>4, <2>5, <2>6, <2>7
<1> QED
  BY <1>2, <1>3

\* Another thread that is about to make a list still is.
LEMMA StartingStep ==
  ASSUME StackOK, NEW t \in Thread, NEW s, stack' = [stack EXCEPT ![t] = s],
         NEW m, NEW k, Starting(m, k),
         ~ (stack[t] # <<>> /\ Top(t).do = "enlist" /\ Top(t).map = m /\ Top(t).key = k)
  PROVE  Starting(m, k)'
<1>1. PICK u \in Thread : /\ stack[u] # <<>> /\ Top(u).do = "enlist"
                          /\ Top(u).map = m /\ Top(u).key = k
  BY DEF Starting
<1>2. u # t
  BY <1>1
<1>3. stack'[u] = stack[u]
  BY <1>2 DEF StackOK
<1> QED
  BY <1>1, <1>3 DEF Starting, Top

\* Such a key has no value, nor anything else that will make it.
LEMMA StartingDue ==
  ASSUME TypeOK, OneMaker, EnlistFirst, NEW m \in Maps, NEW k, Starting(m, k)
  PROVE  Due(m, k) = 1 /\ Count(Store(m, k, NoValue)) = 0
<1>1. PICK u \in Thread : /\ stack[u] # <<>> /\ Top(u).do = "enlist"
                          /\ Top(u).map = m /\ Top(u).key = k
  BY DEF Starting
<1>2. Len(stack[u]) \in Nat \ {0} /\ Top(u) = stack[u][1]
  BY <1>1 DEF TypeOK, StackOK, Top
<1>3. 2 \in 1 .. Len(stack[u]) /\ stack[u][2] = Function(m, k)
  BY <1>1, <1>2 DEF EnlistFirst
<1>4. Count(Final(Function(m, k))) \in Nat \ {0}
  BY <1>3, OnStackCounted DEF TypeOK
<1>5. Final(Function(m, k)) = Function(m, k)
  BY Finals DEF Function
<1>6. Count(Store(m, k, NoValue)) \in Nat
  BY CountNat DEF TypeOK
<1>7. Kept(m, k) \in Nat
  BY QueueNat DEF TypeOK, QueueOK, Kept
<1>8. Due(m, k) \in {0, 1}
  BY DEF Due
<1>9. Count(Function(m, k)) + Count(Store(m, k, NoValue)) + Kept(m, k) = Due(m, k)
  BY DEF OneMaker, Makers, Function
<1> QED
  BY <1>4, <1>5, <1>6, <1>7, <1>8, <1>9

-----------------------------------------------------------------------------
(* Each step preserves the invariant.                                      *)

\* Neither the values nor the lists change, nor what is told.
LEMMA ListsStay ==
  ASSUME IInv, NEW t \in Thread, NEW s, stack' = [stack EXCEPT ![t] = s],
         stack[t] = <<>> \/ Top(t).do # "enlist",
         UNCHANGED <<values, callbacks>>,
         \A m, k, v : Count(Notice(m, k, v))' = Count(Notice(m, k, v))
  PROVE  ListMade' /\ ListsCalled'
<1>1. \A m, k : Starting(m, k) => Starting(m, k)'
  BY StartingStep DEF IInv, TypeOK
<1>2. ListMade'
  BY <1>1 DEF IInv, ListMade
<1>3. ListsCalled'
  BY DEF IInv, ListsCalled, Value
<1> QED
  BY <1>2, <1>3

LEMMA QuietStep ==
  ASSUME IInv, NEW t \in Thread, stack[t] # <<>>, Top(t).do # "enlist",
         NEW calls \in Seq(Calls), Become(t, calls), UNCHANGED async,
         \A i \in 1 .. Len(calls) : calls[i].do # "enlist",
         \A c : Owed(c) => Is(Final(Top(t)), c) = Tally(calls, c)
  PROVE  IInv'
<1>1. UNCHANGED <<values, callbacks, waiting, queue>>
  BY DEF async
<1>2. /\ StackOK' /\ CallbacksOK'
      /\ \A c : Balance(Count(c), Is(Final(Top(t)), c), Tally(calls, c), Count(c)')
  BY <1>1, CallEffect DEF IInv, TypeOK
<1>3. ASSUME NEW c, Owed(c)
      PROVE  Count(c)' = Count(c)
  <2>1. Tally(calls, c) \in Nat
    BY FiniteTally
  <2>2. Balance(Count(c), Tally(calls, c), Tally(calls, c), Count(c)')
    BY <1>2, <1>3
  <2> QED
    BY <2>1, <2>2 DEF Balance
<1>4. TypeOK'
  BY <1>1, <1>2 DEF IInv, TypeOK, ValuesOK, WaitingOK, QueueOK
<1>5. TasksWait' /\ OneMaker' /\ NotifyOnce'
  BY <1>1, <1>3, SameCounts DEF IInv
<1>6. EnlistFirst'
  BY EnlistStep DEF IInv, TypeOK
<1>7. ListMade' /\ ListsCalled'
  <2>1. \A m, k, v : Count(Notice(m, k, v))' = Count(Notice(m, k, v))
    BY <1>3, OwedCalls
  <2>2. stack' = [stack EXCEPT ![t] = calls \o Tail(@)]
    BY DEF Become
  <2> QED
    BY <1>1, <2>1, <2>2, ListsStay
<1> QED
  BY <1>4, <1>5, <1>6, <1>7 DEF IInv

\* A callback that is called with the value it waits for.
LEMMA CallbackPushed ==
  ASSUME NEW m \in Maps, NEW cb \in CallbacksOf(m), NEW v \in Vals \ {NoValue},
         NEW calls, calls = <<WithValue(cb, v)>>
  PROVE  /\ calls \in Seq(Calls)
         /\ \A i \in 1 .. Len(calls) : calls[i].do # "enlist"
         /\ \A c : Tally(calls, c) = Is(cb, c)
<1>1. WithValue(cb, v) \in Calls /\ Final(WithValue(cb, v)) = cb /\ WithValue(cb, v).do # "enlist"
  BY CallbackCalled
<1> QED
  BY <1>1, TallyShort

LEMMA ValueShape ==
  ASSUME ValuesOK, NEW m \in Maps, NEW k
  PROVE  Value(m, k) \in Vals
BY DEF ValuesOK, Value, NoValue, Vals

LEMMA FindFound ==
  ASSUME IInv, NEW t \in Thread, FindStep(t), ~ IsNew(Top(t).map, Top(t).key)
  PROVE  IInv'
<1>1. PICK m, k, th : m = Top(t).map /\ k = Top(t).key /\ th = Top(t).then
  OBVIOUS
<1>2. stack[t] # <<>> /\ Top(t).do \in {"find_async", "find"}
  BY DEF FindStep, Doing
<1>3. Top(t) \in Calls
  BY <1>2, TopShape DEF IInv, TypeOK
<1>4. /\ m \in Maps /\ k \in KeysOf(m) /\ Top(t) = Call(Top(t).do, m, k, th)
      /\ Top(t).do = "find" => th = Nothing
      /\ Top(t).do = "find_async" => \E cb \in CallbacksOf(m) : th = <<cb>>
  BY <1>1, <1>3, CallShape
<1>5. UNCHANGED async
  BY DEF FindStep, async
<1>6. Become(t, IF th = Nothing THEN <<>>
                ELSE IF Value(m, k) # NoValue THEN <<WithValue(th[1], Value(m, k))>>
                ELSE <<Call("check", m, k, th)>>)
  BY <1>1 DEF FindStep
<1>7. CASE Top(t).do = "find"
  <2>1. PICK calls : calls = <<>>
    OBVIOUS
  <2>2. calls \in Seq(Calls) /\ Become(t, calls) /\ Len(calls) = 0
    BY <1>4, <1>6, <1>7, <2>1
  <2>3. ASSUME NEW c, Owed(c)
        PROVE  Is(Final(Top(t)), c) = Tally(calls, c)
    <3>1. Final(Top(t)) = Top(t)
      BY <1>4, <1>7, Finals
    <3>2. Top(t) # c
      BY <1>7, <2>3 DEF Owed
    <3> QED
      BY <2>1, <3>1, <3>2, TallyShort DEF Is
  <2>4. Top(t).do # "enlist" /\ \A i \in 1 .. Len(calls) : calls[i].do # "enlist"
    BY <1>7, <2>2
  <2> QED
    BY <1>2, <1>5, <2>2, <2>3, <2>4, QuietStep
<1>8. CASE Top(t).do = "find_async"
  <2>1. PICK cb \in CallbacksOf(m) : th = <<cb>>
    BY <1>4, <1>8
  <2>2. th # Nothing /\ th[1] = cb /\ Final(Top(t)) = cb
    <3>1. Top(t).do \in {"find_async", "check", "enlist"} /\ Top(t).then = <<cb>>
      BY <1>1, <1>8, <2>1
    <3>2. Final(Top(t)) = cb /\ Top(t).then # Nothing /\ Top(t).then[1] = cb
      BY <3>1, FinalCallback
    <3> QED
      BY <1>1, <3>2
  <2>3. CASE Value(m, k) # NoValue
    <3>1. PICK v, calls : v = Value(m, k) /\ calls = <<WithValue(cb, v)>>
      OBVIOUS
    <3>2. v \in Vals \ {NoValue}
      BY <1>4, <2>3, <3>1, ValueShape DEF IInv, TypeOK
    <3>3. /\ calls \in Seq(Calls)
          /\ \A i \in 1 .. Len(calls) : calls[i].do # "enlist"
          /\ \A c : Tally(calls, c) = Is(cb, c)
      BY <1>4, <3>1, <3>2, CallbackPushed
    <3>4. Become(t, calls)
      BY <1>6, <2>2, <2>3, <3>1
    <3>5. \A c : Is(Final(Top(t)), c) = Tally(calls, c)
      BY <2>2, <3>3
    <3> QED
      BY <1>2, <1>5, <1>8, <3>3, <3>4, <3>5, QuietStep
  <2>4. CASE Value(m, k) = NoValue
    <3>1. PICK x, calls : x = Call("check", m, k, <<cb>>) /\ calls = <<x>>
      OBVIOUS
    <3>2. x \in Calls /\ Final(x) = cb /\ x.do # "enlist"
      <4>1. x \in Calls
        BY <1>4, <3>1, CallMade
      <4>2. x.do = "check" /\ x.then = <<cb>>
        BY <3>1 DEF Call
      <4>3. x.do # "enlist" /\ Final(x) = cb
        BY <4>2, FinalCallback
      <4> QED
        BY <4>1, <4>2, <4>3
    <3>3. calls \in Seq(Calls) /\ \A i \in 1 .. Len(calls) : calls[i].do # "enlist"
      BY <3>1, <3>2
    <3>4. Become(t, calls)
      BY <1>6, <2>1, <2>2, <2>4, <3>1
    <3>5. \A c : Is(Final(Top(t)), c) = Tally(calls, c)
      BY <2>2, <3>1, <3>2, TallyShort
    <3> QED
      BY <1>2, <1>5, <1>8, <3>3, <3>4, <3>5, QuietStep
  <2> QED
    BY <2>3, <2>4
<1> QED
  BY <1>2, <1>7, <1>8

LEMMA FindNew ==
  ASSUME IInv, NEW t \in Thread, FindStep(t), IsNew(Top(t).map, Top(t).key)
  PROVE  IInv'
<1>1. PICK m, k, th : m = Top(t).map /\ k = Top(t).key /\ th = Top(t).then
  OBVIOUS
<1>2. stack[t] # <<>> /\ Top(t).do \in {"find_async", "find"}
  BY DEF FindStep, Doing
<1>3. Top(t) \in Calls
  BY <1>2, TopShape DEF IInv, TypeOK
<1>4. /\ m \in Maps /\ k \in KeysOf(m) /\ Top(t) = Call(Top(t).do, m, k, th)
      /\ Top(t).do = "find" => th = Nothing
      /\ Top(t).do = "find_async" => \E cb \in CallbacksOf(m) : th = <<cb>>
  BY <1>1, <1>3, CallShape
<1>5. PICK x, f, calls : /\ x = Call("enlist", m, k, th) /\ f = Function(m, k)
                         /\ calls = <<x, f>>
  OBVIOUS
<1>6. x \in Calls /\ f \in Calls /\ calls \in Seq(Calls)
  <2>1. x \in Calls
    BY <1>2, <1>4, <1>5, CallMade
  <2>2. f \in Calls
    BY <1>4, <1>5, CallMade
  <2> QED
    BY <1>5, <2>1, <2>2
<1>7. Become(t, calls) /\ UNCHANGED <<callbacks, waiting, queue>>
  BY <1>1, <1>5 DEF FindStep, Function
<1>8. /\ k \notin DOMAIN values[m]
      /\ DOMAIN values' = Maps
      /\ DOMAIN values'[m] = DOMAIN values[m] \cup {k} /\ values'[m][k] = NoValue
      /\ \A j \in DOMAIN values[m] : values'[m][j] = values[m][j]
      /\ \A p \in Maps \ {m} : values'[p] = values[p]
  <2>1. k \notin DOMAIN values[m]
    BY <1>1 DEF IsNew
  <2>2. values' = [values EXCEPT ![m] = With(@, k, NoValue)]
    BY <1>1 DEF FindStep, InsertKey
  <2>3. /\ DOMAIN values' = Maps
        /\ values'[m] = With(values[m], k, NoValue)
        /\ \A p \in Maps \ {m} : values'[p] = values[p]
    BY <1>4, <2>2 DEF IInv, TypeOK, ValuesOK
  <2> QED
    BY <2>1, <2>3 DEF With
<1>9. /\ StackOK' /\ CallbacksOK'
      /\ \A c : Balance(Count(c), Is(Final(Top(t)), c), Tally(calls, c), Count(c)')
  BY <1>2, <1>6, <1>7, CallEffect DEF IInv, TypeOK
<1>10. ASSUME NEW c, Owed(c)
       PROVE  Count(c)' = Count(c) + Is(Function(m, k), c)
  <2>1. Tally(calls, c) = Is(Final(x), c) + Is(f, c)
    <3>1. Final(f) = f
      BY <1>5, Finals DEF Function
    <3> QED
      BY <1>5, <3>1, TallyShort
  <2>2. Is(Final(x), c) = Is(Final(Top(t)), c)
    <3>1. CASE Top(t).do = "find"
      <4>1. Final(Top(t)) = Top(t) /\ Final(x) = x
        BY <1>4, <1>5, <3>1, Finals
      <4>2. Top(t) # c /\ x # c
        BY <1>5, <1>10, <3>1 DEF Owed, Call
      <4> QED
        BY <4>1, <4>2 DEF Is
    <3>2. CASE Top(t).do = "find_async"
      <4>1. PICK cb \in CallbacksOf(m) : th = <<cb>>
        BY <1>4, <3>2
      <4>2. x.do = "enlist" /\ x.then = <<cb>>
        BY <1>5, <4>1 DEF Call
      <4>3. Top(t).do \in {"find_async", "check", "enlist"} /\ Top(t).then = <<cb>>
        BY <1>1, <3>2, <4>1
      <4>4. Final(x) = cb
        BY <4>2, FinalCallback
      <4>5. Final(Top(t)) = cb
        BY <4>3, FinalCallback
      <4> QED
        BY <4>4, <4>5
    <3> QED
      BY <1>2, <3>1, <3>2
  <2>3. Is(Final(x), c) \in Nat /\ Is(f, c) \in Nat
    BY DEF Is
  <2>4. Balance(Count(c), Is(Final(x), c), Is(Final(x), c) + Is(f, c), Count(c)')
    BY <1>9, <2>1, <2>2
  <2> QED
    BY <1>5, <2>3, <2>4 DEF Balance
<1>11. \A j : Count(Arrive(j))' = Count(Arrive(j))
  BY <1>10, OwedCalls, IsFunction, CountNat DEF IInv, TypeOK
<1>12. \A p, j : Count(Store(p, j, NoValue))' = Count(Store(p, j, NoValue))
  BY <1>10, OwedCalls, IsFunction, CountNat DEF IInv, TypeOK
<1>13. \A p, j, u : Count(Notice(p, j, u))' = Count(Notice(p, j, u))
  BY <1>10, OwedCalls, IsFunction, CountNat DEF IInv, TypeOK
<1>14. \A p, j : Count(Function(p, j))' =
                   IF p = m /\ j = k THEN Count(Function(p, j)) + 1 ELSE Count(Function(p, j))
  BY <1>10, OwedCalls, IsFunction, CountNat DEF IInv, TypeOK
<1>15. TypeOK'
  <2>1. ValuesOK'
    BY <1>4, <1>8 DEF IInv, TypeOK, ValuesOK, NoValue, Vals
  <2> QED
    BY <1>7, <1>9, <2>1 DEF IInv, TypeOK, WaitingOK, QueueOK
<1>16. TasksWait'
  BY <1>7, <1>11 DEF IInv, TasksWait
<1>17. OneMaker'
  <2> SUFFICES ASSUME NEW p \in Maps, NEW j
               PROVE  (Makers(p, j) + Kept(p, j) = Due(p, j))'
    BY DEF OneMaker
  <2>1. Count(Function(p, j)) + Count(Store(p, j, NoValue)) + Kept(p, j) = Due(p, j)
    BY DEF IInv, OneMaker, Makers, Function
  <2>2. Kept(p, j)' = Kept(p, j) /\ Count(Store(p, j, NoValue))' = Count(Store(p, j, NoValue))
    BY <1>7, <1>12 DEF Kept
  <2>3. /\ Count(Function(p, j)) \in Nat /\ Count(Store(p, j, NoValue)) \in Nat
        /\ Kept(p, j) \in Nat
    BY CountNat, QueueNat DEF IInv, TypeOK, QueueOK, Kept
  <2>4. Due(p, j)' = IF p = m /\ j = k THEN 1 ELSE Due(p, j)
    BY <1>4, <1>8 DEF Due, Value
  <2>5. p = m /\ j = k => Due(p, j) = 0
    BY <1>8 DEF Due
  <2>6. (Count(Function(p, j)) + Count(Store(p, j, NoValue)) + Kept(p, j) = Due(p, j))'
    BY <1>14, <2>1, <2>2, <2>3, <2>4, <2>5
  <2> QED
    BY <2>6 DEF Makers, Function
<1>18. NotifyOnce'
  BY <1>8, <1>13 DEF IInv, NotifyOnce
<1>19. EnlistFirst'
  BY <1>2, <1>5, <1>6, <1>7, EnlistStep DEF IInv, TypeOK
<1>20. ListMade'
  <2>1. Starting(m, k)'
    <3>1. Len(calls) = 2 /\ calls[1] = x
      BY <1>5
    <3>2. /\ Len(stack[t]) \in Nat \ {0} /\ Len(stack'[t]) = Len(calls) + Len(stack[t]) - 1
          /\ \A i \in 1 .. Len(calls) : stack'[t][i] = calls[i]
      BY <1>2, <1>6, <1>7, StackNow DEF IInv, TypeOK
    <3>3. stack'[t] \in Seq(Calls)
      BY <1>9 DEF StackOK
    <3>4. stack'[t] # <<>> /\ Head(stack'[t]) = x
      <4>1. Len(stack'[t]) >= 2 /\ stack'[t][1] = x
        BY <3>1, <3>2
      <4> QED
        BY <3>3, <4>1
    <3>5. x.do = "enlist" /\ x.map = m /\ x.key = k
      BY <1>5 DEF Call
    <3> QED
      BY <3>4, <3>5 DEF Starting, Top
  <2>2. \A p, j : Starting(p, j) => Starting(p, j)'
    BY <1>2, <1>7, StartingStep DEF IInv, TypeOK, Become
  <2> QED
    BY <1>7, <1>8, <1>13, <2>1, <2>2 DEF IInv, ListMade
<1>21. ListsCalled'
  <2>1. \A p \in Maps : \A j : Value(p, j)' = Value(p, j)
    BY <1>4, <1>8 DEF Value
  <2>2. ASSUME NEW p \in Maps, NEW j \in DOMAIN callbacks[p]
        PROVE  (Value(p, j) = NoValue \/ Count(Notice(p, j, Value(p, j))) = 1)'
    <3>1. PICK v : v = Value(p, j)
      OBVIOUS
    <3>2. v = NoValue \/ Count(Notice(p, j, v)) = 1
      BY <3>1 DEF IInv, ListsCalled
    <3>3. v = NoValue \/ Count(Notice(p, j, v))' = 1
      BY <1>13, <3>2
    <3> QED
      BY <2>1, <3>1, <3>3
  <2> QED
    BY <1>7, <2>2 DEF ListsCalled
<1> QED
  BY <1>15, <1>16, <1>17, <1>18, <1>19, <1>20, <1>21 DEF IInv

\* A callback is put on the list of a key that has no value.
LEMMA Enlisting ==
  ASSUME IInv, NEW t \in Thread, stack[t] # <<>>, Top(t).do \in {"enlist", "check"},
         callbacks' = Enlisted(Top(t).map, Top(t).key, Top(t).then), Become(t, <<>>),
         UNCHANGED <<values, waiting, queue>>, Value(Top(t).map, Top(t).key) = NoValue
  PROVE  IInv'
<1>1. PICK m, k, th : m = Top(t).map /\ k = Top(t).key /\ th = Top(t).then
  OBVIOUS
<1>2. Top(t) \in Calls
  BY TopShape DEF IInv, TypeOK
<1>3. /\ m \in Maps /\ k \in KeysOf(m) /\ Top(t) = Call(Top(t).do, m, k, th)
      /\ \/ th = Nothing /\ Top(t).do = "enlist"
         \/ \E cb \in CallbacksOf(m) : th = <<cb>>
  BY <1>1, <1>2, CallShape
<1>4. PICK calls : calls = <<>>
  OBVIOUS
<1>5. calls \in Seq(Calls) /\ Become(t, calls) /\ Len(calls) = 0
  BY <1>4
<1>6. /\ StackOK'
      /\ \A c : Balance(StackCount(stack, c), Is(Final(Top(t)), c), Tally(calls, c),
                        StackCount(stack', c))
  BY <1>5, BecomeEffect DEF IInv, TypeOK
<1>7. /\ CallbacksOK'
      /\ \A c : Balance(ListCount(callbacks, c), 0, Tally(th, c), ListCount(callbacks', c))
      /\ k \in DOMAIN callbacks'[m]
      /\ \A p \in Maps : DOMAIN callbacks'[p] \subseteq DOMAIN callbacks[p] \cup {j \in {k} : p = m}
      /\ \A p \in Maps : DOMAIN callbacks[p] \subseteq DOMAIN callbacks'[p]
  <2>1. th = <<>> \/ \E cb \in CallbacksOf(m) : th = <<cb>>
    BY <1>3 DEF Nothing
  <2>2. callbacks' = Enlisted(m, k, th)
    BY <1>1
  <2> QED
    BY <1>3, <2>1, <2>2, EnlistedEffect DEF IInv, TypeOK
<1>8. ASSUME NEW c, Owed(c)
      PROVE  Count(c)' = Count(c)
  <2>1. Tally(th, c) = Is(Final(Top(t)), c)
    <3>1. CASE th = Nothing /\ Top(t).do = "enlist"
      <4>1. Final(Top(t)) = Top(t) /\ Top(t) # c
        BY <1>3, <1>8, <3>1, Finals DEF Owed
      <4> QED
        BY <3>1, <4>1, TallyShort DEF Is, Nothing
    <3>2. ASSUME NEW cb \in CallbacksOf(m), th = <<cb>>
          PROVE  Tally(th, c) = Is(Final(Top(t)), c)
      <4>1. Top(t).do \in {"find_async", "check", "enlist"} /\ Top(t).then = <<cb>>
        BY <1>1, <3>2
      <4>2. Final(Top(t)) = cb
        BY <4>1, FinalCallback
      <4>3. Tally(th, c) = Is(Final(cb), c)
        BY <3>2, TallyShort
      <4>4. Final(cb) = cb
        BY <1>3, FinalOfCallback
      <4> QED
        BY <4>2, <4>3, <4>4
    <3> QED
      BY <1>3, <3>1, <3>2
  <2>2. Tally(calls, c) = 0
    BY <1>4, TallyShort
  <2>3. Count(c) = CountIn(stack, callbacks, c) /\ Count(c)' = CountIn(stack', callbacks', c)
    BY <1>6, CountIs, CountIsNext DEF IInv, TypeOK
  <2>4. Is(Final(Top(t)), c) \in Nat
    BY DEF Is
  <2> QED
    BY <1>6, <1>7, <2>1, <2>2, <2>3, <2>4 DEF Balance, CountIn
<1>9. TypeOK'
  BY <1>6, <1>7 DEF IInv, TypeOK, ValuesOK, WaitingOK, QueueOK
<1>10. TasksWait' /\ OneMaker' /\ NotifyOnce'
  BY <1>8, SameCounts DEF IInv
<1>11. EnlistFirst'
  <2>1. \A i \in 1 .. Len(calls) : calls[i].do # "enlist"
    BY <1>5
  <2>2. StackOK /\ EnlistFirst
    BY DEF IInv, TypeOK
  <2> QED
    BY <1>5, <2>1, <2>2, EnlistStep
<1>12. \A p, j, u : Count(Notice(p, j, u))' = Count(Notice(p, j, u))
  BY <1>8, OwedCalls
<1>13. ListMade'
  <2>1. ASSUME NEW p, NEW j, Starting(p, j), ~ (p = m /\ j = k)
        PROVE  Starting(p, j)'
    BY <1>1, <2>1, StartingStep DEF IInv, TypeOK, Become
  <2> QED
    BY <1>7, <1>12, <2>1 DEF IInv, ListMade
<1>14. ListsCalled'
  <2>1. ASSUME NEW p \in Maps, NEW j \in DOMAIN callbacks'[p]
        PROVE  (Value(p, j) = NoValue \/ Count(Notice(p, j, Value(p, j))) = 1)'
    <3>1. PICK v : v = Value(p, j)
      OBVIOUS
    <3>2. v = NoValue \/ Count(Notice(p, j, v)) = 1
      BY <1>1, <1>7, <2>1, <3>1 DEF IInv, ListsCalled
    <3>3. v = NoValue \/ Count(Notice(p, j, v))' = 1
      BY <1>12, <3>2
    <3>4. Value(p, j)' = v
      BY <3>1 DEF Value
    <3> QED
      BY <3>3, <3>4
  <2> QED
    BY <2>1 DEF ListsCalled
<1> QED
  BY <1>9, <1>10, <1>11, <1>13, <1>14 DEF IInv

LEMMA EnlistInv ==
  ASSUME IInv, NEW t \in Thread, Enlist(t)
  PROVE  IInv'
<1>1. stack[t] # <<>> /\ Top(t).do = "enlist"
  BY DEF Enlist, Doing
<1>2. Starting(Top(t).map, Top(t).key)
  BY <1>1 DEF Starting
<1>3. Top(t).map \in Maps
  BY <1>1, TopShape, CallShape DEF IInv, TypeOK
<1>4. Due(Top(t).map, Top(t).key) = 1
  BY <1>2, <1>3, StartingDue DEF IInv
<1>5. Value(Top(t).map, Top(t).key) = NoValue
  BY <1>4 DEF Due
<1> QED
  BY <1>1, <1>5, Enlisting DEF Enlist

LEMMA CheckInv ==
  ASSUME IInv, NEW t \in Thread, Check(t)
  PROVE  IInv'
<1>1. PICK m, k, th : m = Top(t).map /\ k = Top(t).key /\ th = Top(t).then
  OBVIOUS
<1>2. stack[t] # <<>> /\ Top(t).do = "check" /\ Top(t) \in Calls
  BY TopShape DEF Check, Doing, IInv, TypeOK
<1>3. CASE Value(m, k) = NoValue
  BY <1>1, <1>2, <1>3, Enlisting DEF Check
<1>4. CASE Value(m, k) # NoValue
  <2>1. m \in Maps /\ \E cb \in CallbacksOf(m) : th = <<cb>>
    BY <1>1, <1>2, CallShape
  <2>2. PICK cb \in CallbacksOf(m) : th = <<cb>>
    BY <2>1
  <2>3. PICK v, calls : v = Value(m, k) /\ calls = <<WithValue(cb, v)>>
    OBVIOUS
  <2>4. v \in Vals \ {NoValue}
    BY <1>4, <2>1, <2>3, ValueShape DEF IInv, TypeOK
  <2>5. /\ calls \in Seq(Calls)
        /\ \A i \in 1 .. Len(calls) : calls[i].do # "enlist"
        /\ \A c : Tally(calls, c) = Is(cb, c)
    BY <2>1, <2>3, <2>4, CallbackPushed
  <2>6. th[1] = cb
    BY <2>2
  <2>7. Become(t, calls) /\ UNCHANGED async
    BY <1>1, <1>4, <2>3, <2>6 DEF Check, async
  <2>8. Top(t).do \in {"find_async", "check", "enlist"} /\ Top(t).then = <<cb>>
    BY <1>1, <1>2, <2>2
  <2>9. Final(Top(t)) = cb
    BY <2>8, FinalCallback
  <2>10. \A c : Is(Final(Top(t)), c) = Tally(calls, c)
    BY <2>5, <2>9
  <2> QED
    BY <1>2, <2>5, <2>7, <2>10, QuietStep
<1> QED
  BY <1>3, <1>4

\* A value is stored, and is to be told.
LEMMA StoreValueInv ==
  ASSUME IInv, NEW t \in Thread, StoreValue(t)
  PROVE  IInv'
<1>1. PICK m, k, v : m = Top(t).map /\ k = Top(t).key /\ v = Top(t).then
  OBVIOUS
<1>2. stack[t] # <<>> /\ Top(t).do = "store" /\ Top(t) \in Calls
  BY TopShape DEF StoreValue, Doing, IInv, TypeOK
<1>3. /\ m \in Maps /\ k \in KeysOf(m) /\ v \in Vals \ {NoValue}
      /\ Top(t) = Store(m, k, v)
  BY <1>1, <1>2, CallShape DEF Store
<1>4. PICK calls : calls = <<Notice(m, k, v)>>
  OBVIOUS
<1>5. /\ calls \in Seq(Calls) /\ Become(t, calls)
      /\ UNCHANGED <<callbacks, waiting, queue>>
      /\ \A i \in 1 .. Len(calls) : calls[i].do # "enlist"
  <2>1. Notice(m, k, v) \in Calls
    BY <1>3, CallMade
  <2>2. Notice(m, k, v).do # "enlist"
    BY DEF Notice, Call
  <2>3. Become(t, calls) /\ UNCHANGED <<callbacks, waiting, queue>>
    BY <1>1, <1>4 DEF StoreValue, Notice
  <2> QED
    BY <1>4, <2>1, <2>2, <2>3
<1>6. /\ StackOK' /\ CallbacksOK'
      /\ \A c : Balance(Count(c), Is(Final(Top(t)), c), Tally(calls, c), Count(c)')
  BY <1>2, <1>5, CallEffect DEF IInv, TypeOK
<1>7. ASSUME NEW c
      PROVE  Balance(Count(c), Is(Store(m, k, NoValue), c), Is(Notice(m, k, v), c), Count(c)')
  <2>1. Final(Top(t)) = Store(m, k, NoValue)
    BY <1>3, Finals
  <2>2. Tally(calls, c) = Is(Notice(m, k, v), c)
    <3>1. Final(Notice(m, k, v)) = Notice(m, k, v)
      BY Finals
    <3> QED
      BY <1>4, <3>1, TallyShort
  <2> QED
    BY <1>6, <2>1, <2>2
<1>8. \A j : Count(Arrive(j))' = Count(Arrive(j))
  BY <1>7, IsStore, IsNotice DEF Balance
<1>9. \A p, j : Count(Function(p, j))' = Count(Function(p, j))
  BY <1>7, IsStore, IsNotice DEF Balance
<1>10. \A p, j : /\ Count(Store(p, j, NoValue)) \in Nat /\ Count(Function(p, j)) \in Nat
                 /\ Count(Store(p, j, NoValue))' = Count(Store(p, j, NoValue))
                                                    - IF p = m /\ j = k THEN 1 ELSE 0
  BY <1>7, IsStore, IsNotice DEF Balance
<1>11. \A p, j, u : /\ Count(Notice(p, j, u)) \in Nat
                    /\ Count(Notice(p, j, u))' = Count(Notice(p, j, u))
                         + IF p = m /\ j = k /\ u = v THEN 1 ELSE 0
  BY <1>7, IsStore, IsNotice DEF Balance
<1>12. Count(Store(m, k, NoValue)) \in Nat \ {0}
  <2>1. 1 \in 1 .. Len(stack[t]) /\ Top(t) = stack[t][1]
    BY <1>2 DEF IInv, TypeOK, StackOK, Top
  <2>2. Count(Final(stack[t][1])) \in Nat \ {0}
    BY <2>1, OnStackCounted DEF IInv, TypeOK
  <2>3. Final(stack[t][1]) = Store(m, k, NoValue)
    BY <1>3, <2>1, Finals
  <2> QED
    BY <2>2, <2>3
<1>13. \A p \in Maps : \A j : /\ Kept(p, j) \in Nat
                              /\ Count(Function(p, j)) + Count(Store(p, j, NoValue)) + Kept(p, j) = Due(p, j)
                              /\ Due(p, j) \in {0, 1}
  <2>1. \A p \in Maps : \A j : Kept(p, j) \in Nat
    BY QueueNat DEF IInv, TypeOK, QueueOK, Kept
  <2>2. \A p \in Maps : \A j : Makers(p, j) + Kept(p, j) = Due(p, j)
    BY DEF IInv, OneMaker
  <2> QED
    BY <2>1, <2>2 DEF Makers, Function, Due
<1>14. /\ Due(m, k) = 1 /\ Count(Store(m, k, NoValue)) = 1
       /\ Count(Function(m, k)) = 0 /\ Kept(m, k) = 0
  BY <1>3, <1>10, <1>12, <1>13
<1>15. k \in DOMAIN values[m] /\ values[m][k] = NoValue
  BY <1>14 DEF Due, Value
<1>16. /\ DOMAIN values' = Maps /\ DOMAIN values'[m] = DOMAIN values[m] /\ values'[m][k] = v
       /\ \A j \in DOMAIN values[m] \ {k} : values'[m][j] = values[m][j]
       /\ \A p \in Maps \ {m} : values'[p] = values[p]
  <2>1. values' = [values EXCEPT ![m][k] = v]
    BY <1>1 DEF StoreValue
  <2>2. DOMAIN values = Maps
    BY DEF IInv, TypeOK, ValuesOK
  <2> QED
    BY <1>3, <1>15, <2>1, <2>2
<1>17. \A u : Count(Notice(m, k, u)) = 0
  BY <1>3, <1>15 DEF IInv, NotifyOnce
<1>18. ~ Starting(m, k)
  BY <1>3, <1>14, StartingDue DEF IInv
<1>19. k \in DOMAIN callbacks[m]
  BY <1>3, <1>15, <1>18 DEF IInv, ListMade
<1>20. TypeOK'
  <2>1. ValuesOK'
    BY <1>3, <1>15, <1>16 DEF IInv, TypeOK, ValuesOK
  <2> QED
    BY <1>5, <1>6, <2>1 DEF IInv, TypeOK, WaitingOK, QueueOK
<1>21. TasksWait'
  BY <1>5, <1>8 DEF IInv, TasksWait
<1>22. OneMaker'
  <2> SUFFICES ASSUME NEW p \in Maps, NEW j
               PROVE  (Makers(p, j) + Kept(p, j) = Due(p, j))'
    BY DEF OneMaker
  <2>1. Kept(p, j)' = Kept(p, j)
    BY <1>5 DEF Kept
  <2>2. Due(p, j)' = IF p = m /\ j = k THEN 0 ELSE Due(p, j)
    BY <1>3, <1>15, <1>16 DEF Due, Value
  <2>3. (Count(Function(p, j)) + Count(Store(p, j, NoValue)) + Kept(p, j) = Due(p, j))'
    BY <1>9, <1>10, <1>13, <1>14, <2>1, <2>2
  <2> QED
    BY <2>3 DEF Makers, Function
<1>23. NotifyOnce'
  <2> SUFFICES ASSUME NEW p \in Maps, NEW j, NEW u, Count(Notice(p, j, u))' # 0
               PROVE  /\ Count(Notice(p, j, u))' = 1
                      /\ j \in DOMAIN values'[p] /\ values'[p][j] = u /\ u # NoValue
    BY DEF NotifyOnce
  <2>1. CASE p = m /\ j = k
    BY <1>3, <1>11, <1>15, <1>16, <1>17, <2>1
  <2>2. CASE ~ (p = m /\ j = k)
    <3>1. Count(Notice(p, j, u))' = Count(Notice(p, j, u))
      BY <1>11, <2>2
    <3>2. /\ Count(Notice(p, j, u)) = 1
          /\ j \in DOMAIN values[p] /\ values[p][j] = u /\ u # NoValue
      BY <3>1 DEF IInv, NotifyOnce
    <3> QED
      BY <1>16, <2>2, <3>1, <3>2
  <2> QED
    BY <2>1, <2>2
<1>24. EnlistFirst'
  BY <1>2, <1>5, EnlistStep DEF IInv, TypeOK
<1>25. ListMade'
  <2> SUFFICES ASSUME NEW p \in Maps, NEW j \in DOMAIN values'[p],
                      values'[p][j] = NoValue \/ \E u : Count(Notice(p, j, u))' # 0
               PROVE  j \in DOMAIN callbacks'[p] \/ Starting(p, j)'
    BY DEF ListMade
  <2>1. CASE p = m /\ j = k
    BY <1>5, <1>19, <2>1
  <2>2. CASE ~ (p = m /\ j = k)
    <3>1. \A u : Count(Notice(p, j, u))' = Count(Notice(p, j, u))
      BY <1>11, <2>2
    <3>2. j \in DOMAIN values[p] /\ values'[p][j] = values[p][j]
      BY <1>16, <2>2
    <3>3. j \in DOMAIN callbacks[p] \/ Starting(p, j)
      BY <3>1, <3>2 DEF IInv, ListMade
    <3>4. Starting(p, j) => Starting(p, j)'
      BY <1>2, <1>5, StartingStep DEF IInv, TypeOK, Become
    <3> QED
      BY <1>5, <3>3, <3>4
  <2> QED
    BY <2>1, <2>2
<1>26. ListsCalled'
  <2> SUFFICES ASSUME NEW p \in Maps, NEW j \in DOMAIN callbacks[p]
               PROVE  (Value(p, j) = NoValue \/ Count(Notice(p, j, Value(p, j))) = 1)'
    BY <1>5 DEF ListsCalled
  <2>1. PICK u : u = Value(p, j)'
    OBVIOUS
  <2>2. CASE p = m /\ j = k
    <3>1. u = v
      BY <1>15, <1>16, <2>1, <2>2 DEF Value
    <3>2. Count(Notice(p, j, u))' = 1
      BY <1>11, <1>17, <2>2, <3>1
    <3> QED
      BY <2>1, <3>2
  <2>3. CASE ~ (p = m /\ j = k)
    <3>1. u = Value(p, j)
      BY <1>3, <1>16, <2>1, <2>3 DEF Value
    <3>2. u = NoValue \/ Count(Notice(p, j, u)) = 1
      BY <3>1 DEF IInv, ListsCalled
    <3>3. Count(Notice(p, j, u))' = Count(Notice(p, j, u))
      BY <1>11, <2>3
    <3> QED
      BY <2>1, <3>2, <3>3
  <2> QED
    BY <2>2, <2>3
<1> QED
  BY <1>20, <1>21, <1>22, <1>23, <1>24, <1>25, <1>26 DEF IInv

\* The callbacks of a value are called with it.
LEMMA NotifyInv ==
  ASSUME IInv, NEW t \in Thread, Notify(t)
  PROVE  IInv'
<1>1. PICK m, k, v : m = Top(t).map /\ k = Top(t).key /\ v = Top(t).then
  OBVIOUS
<1>2. stack[t] # <<>> /\ Top(t).do = "notify" /\ Top(t) \in Calls
  BY TopShape DEF Notify, Doing, IInv, TypeOK
<1>3. m \in Maps /\ k \in KeysOf(m) /\ v \in Vals \ {NoValue} /\ Top(t) = Notice(m, k, v)
  BY <1>1, <1>2, CallShape DEF Notice
<1>4. Count(Notice(m, k, v)) \in Nat \ {0}
  <2>1. 1 \in 1 .. Len(stack[t]) /\ Top(t) = stack[t][1]
    BY <1>2 DEF IInv, TypeOK, StackOK, Top
  <2>2. Count(Final(stack[t][1])) \in Nat \ {0}
    BY <2>1, OnStackCounted DEF IInv, TypeOK
  <2>3. Final(stack[t][1]) = Notice(m, k, v)
    BY <1>3, <2>1, Finals
  <2> QED
    BY <2>2, <2>3
<1>5. Count(Notice(m, k, v)) = 1 /\ k \in DOMAIN values[m] /\ values[m][k] = v /\ v # NoValue
  <2>1. Count(Notice(m, k, v)) # 0
    BY <1>4
  <2> QED
    BY <1>3, <2>1 DEF IInv, NotifyOnce
<1>6. ~ Starting(m, k)
  <2>1. Due(m, k) = 0
    BY <1>5 DEF Due, Value
  <2> QED
    BY <1>3, <2>1, StartingDue DEF IInv
<1>7. k \in DOMAIN callbacks[m]
  <2>1. \E u : Count(Notice(m, k, u)) # 0
    BY <1>4
  <2> QED
    BY <1>3, <1>5, <1>6, <2>1 DEF IInv, ListMade
<1>8. /\ StackOK' /\ CallbacksOK'
      /\ \A c : Balance(Count(c), Is(Notice(m, k, v), c), 0, Count(c)')
      /\ \E calls \in Seq(Calls) : /\ Become(t, calls)
                                   /\ \A i \in DOMAIN calls : calls[i].do # "enlist"
      /\ \A p \in Maps : DOMAIN callbacks'[p] = {j \in DOMAIN callbacks[p] : p # m \/ j # k}
  <2>1. Top(t).key \in DOMAIN callbacks[Top(t).map]
    BY <1>1, <1>7
  <2> QED
    BY <1>1, <1>3, <2>1, NotifyEffect DEF IInv, TypeOK
<1>9. PICK calls : /\ calls \in Seq(Calls) /\ Become(t, calls)
                   /\ \A i \in 1 .. Len(calls) : calls[i].do # "enlist"
  <2>1. PICK calls \in Seq(Calls) : /\ Become(t, calls)
                                    /\ \A i \in DOMAIN calls : calls[i].do # "enlist"
    BY <1>8
  <2>2. DOMAIN calls = 1 .. Len(calls)
    OBVIOUS
  <2> QED
    BY <2>1, <2>2
<1>10. UNCHANGED <<values, waiting, queue>>
  BY DEF Notify
<1>11. \A j : Count(Arrive(j))' = Count(Arrive(j))
  BY <1>8, IsNotice DEF Balance
<1>12. \A p, j : /\ Count(Function(p, j))' = Count(Function(p, j))
                 /\ Count(Store(p, j, NoValue))' = Count(Store(p, j, NoValue))
  BY <1>8, IsNotice DEF Balance
<1>13. \A p, j, u : Count(Notice(p, j, u))' =
                      IF p = m /\ j = k /\ u = v THEN 0 ELSE Count(Notice(p, j, u))
  <2>1. ASSUME NEW p, NEW j, NEW u
        PROVE  Balance(Count(Notice(p, j, u)),
                       IF p = m /\ j = k /\ u = v THEN 1 ELSE 0, 0, Count(Notice(p, j, u))')
    BY <1>8, IsNotice
  <2>2. ASSUME NEW p, NEW j, NEW u, p = m /\ j = k /\ u = v
        PROVE  Count(Notice(p, j, u))' = 0
    BY <1>5, <2>1, <2>2 DEF Balance
  <2>3. ASSUME NEW p, NEW j, NEW u, ~ (p = m /\ j = k /\ u = v)
        PROVE  Count(Notice(p, j, u))' = Count(Notice(p, j, u))
    BY <2>1, <2>3 DEF Balance
  <2> QED
    BY <2>2, <2>3
<1>14. TypeOK'
  BY <1>8, <1>10 DEF IInv, TypeOK, ValuesOK, WaitingOK, QueueOK
<1>15. TasksWait'
  BY <1>10, <1>11 DEF IInv, TasksWait
<1>16. OneMaker'
  <2>1. \A p, j : Makers(p, j)' = Makers(p, j)
    BY <1>12 DEF Makers, Function
  <2>2. \A p, j : Kept(p, j)' = Kept(p, j) /\ Due(p, j)' = Due(p, j)
    BY <1>10 DEF Kept, Due, Value
  <2> QED
    BY <2>1, <2>2 DEF IInv, OneMaker
<1>17. NotifyOnce'
  BY <1>10, <1>13 DEF IInv, NotifyOnce
<1>18. EnlistFirst'
  BY <1>2, <1>9, EnlistStep DEF IInv, TypeOK
<1>19. ListMade'
  <2> SUFFICES ASSUME NEW p \in Maps, NEW j \in DOMAIN values[p],
                      values[p][j] = NoValue \/ \E u : Count(Notice(p, j, u))' # 0
               PROVE  j \in DOMAIN callbacks'[p] \/ Starting(p, j)'
    BY <1>10 DEF ListMade
  <2>1. ~ (p = m /\ j = k)
    <3>1. CASE p = m /\ j = k
      <4>1. PICK u : Count(Notice(m, k, u))' # 0
        BY <1>5, <3>1
      <4>2. u # v /\ Count(Notice(m, k, u)) # 0
        BY <1>13, <4>1
      <4>3. values[m][k] = u
        BY <1>3, <4>2 DEF IInv, NotifyOnce
      <4> QED
        BY <1>5, <4>2, <4>3
    <3> QED
      BY <3>1
  <2>2. \A u : Count(Notice(p, j, u))' = Count(Notice(p, j, u))
    BY <1>13, <2>1
  <2>3. j \in DOMAIN callbacks[p] \/ Starting(p, j)
    BY <2>2 DEF IInv, ListMade
  <2>4. Starting(p, j) => Starting(p, j)'
    BY <1>2, <1>9, StartingStep DEF IInv, TypeOK, Become
  <2> QED
    BY <1>8, <2>1, <2>3, <2>4
<1>20. ListsCalled'
  <2> SUFFICES ASSUME NEW p \in Maps, NEW j \in DOMAIN callbacks'[p]
               PROVE  (Value(p, j) = NoValue \/ Count(Notice(p, j, Value(p, j))) = 1)'
    BY DEF ListsCalled
  <2>1. j \in DOMAIN callbacks[p] /\ ~ (p = m /\ j = k)
    BY <1>8
  <2>2. PICK u : u = Value(p, j)
    OBVIOUS
  <2>3. u = NoValue \/ Count(Notice(p, j, u)) = 1
    BY <2>1, <2>2 DEF IInv, ListsCalled
  <2>4. Count(Notice(p, j, u))' = Count(Notice(p, j, u))
    BY <1>13, <2>1
  <2>5. Value(p, j)' = u
    BY <1>10, <2>2 DEF Value
  <2> QED
    BY <2>3, <2>4, <2>5
<1> QED
  BY <1>14, <1>15, <1>16, <1>17, <1>18, <1>19, <1>20 DEF IInv

AllBecome(s, x) == \A i \in DOMAIN s : Final(s[i]) = x

LEMMA TallyAll ==
  ASSUME NEW S, NEW s \in Seq(S), NEW x, AllBecome(s, x), NEW c
  PROVE  Tally(s, c) = IF x = c THEN Len(s) ELSE 0
<1>1. DOMAIN s = 1 .. Len(s) /\ Len(s) \in Nat
  OBVIOUS
<1>2. CASE x = c
  <2>1. {i \in DOMAIN s : Final(s[i]) = c} = 1 .. Len(s)
    BY <1>1, <1>2 DEF AllBecome
  <2>2. Cardinality(1 .. Len(s)) = Len(s)
    <3>1. PICK n : n = Len(s)
      OBVIOUS
    <3>2. n \in Nat /\ 1 \in Nat
      BY <1>1, <3>1
    <3>3. Cardinality(1 .. n) = IF 1 > n THEN 0 ELSE n - 1 + 1
      BY <3>2, FS_Interval
    <3> QED
      BY <3>1, <3>2, <3>3
  <2> QED
    BY <1>2, <2>1, <2>2 DEF Tally
<1>3. CASE x # c
  <2>1. {i \in DOMAIN s : Final(s[i]) = c} = {}
    BY <1>3 DEF AllBecome
  <2> QED
    BY <1>3, <2>1, FS_EmptySet DEF Tally
<1> QED
  BY <1>2, <1>3

\* A thread starts a call.
LEMMA BeginEffect ==
  ASSUME StackOK, CallbacksOK, NEW t \in Thread, stack[t] = <<>>, NEW x \in Calls,
         stack' = [stack EXCEPT ![t] = <<x>>], UNCHANGED callbacks
  PROVE  /\ StackOK' /\ CallbacksOK'
         /\ \A c : Balance(Count(c), 0, Is(Final(x), c), Count(c)')
<1>1. PICK st, st2, old, calls : /\ st = stack /\ st2 = stack'
                                 /\ old = <<>> /\ calls = <<x>>
  OBVIOUS
<1>2. st \in [Thread -> Seq(Calls)] /\ IsFiniteSet(StackCalls(st))
  BY <1>1 DEF StackOK
<1>3. old \in Seq(Calls) /\ calls \in Seq(Calls) /\ calls \o old = calls /\ old \o old = old
  BY <1>1
<1>4. Replaced(Calls, st, st2, t, old, calls)
  <2>1. st[t] = old \o old
    BY <1>1, <1>3
  <2>2. st2 = [st EXCEPT ![t] = calls \o old]
    BY <1>1, <1>3
  <2> QED
    BY <1>3, <2>1, <2>2 DEF Replaced
<1>5. /\ st2 \in [Thread -> Seq(Calls)] /\ IsFiniteSet(StackCalls(st2))
      /\ \A c : Balance(StackCount(st, c), Tally(old, c), Tally(calls, c), StackCount(st2, c))
  BY <1>2, <1>3, <1>4, StackStep
<1>6. \A c : Tally(old, c) = 0 /\ Tally(calls, c) = Is(Final(x), c)
  BY <1>1, TallyShort
<1>7. StackOK' /\ CallbacksOK'
  <2>1. StackOK'
    BY <1>1, <1>5 DEF StackOK
  <2>2. CallbacksOK'
    BY DEF CallbacksOK
  <2> QED
    BY <2>1, <2>2
<1>8. ASSUME NEW c
      PROVE  Balance(Count(c), 0, Is(Final(x), c), Count(c)')
  <2>1. Count(c) = CountIn(stack, callbacks, c)
    BY CountIs
  <2>2. Count(c)' = CountIn(stack', callbacks', c)
    BY <1>7, CountIsNext
  <2>3. ListCount(callbacks, c) \in Nat /\ ListCount(callbacks', c) = ListCount(callbacks, c)
    BY ListCountNat DEF CallbacksOK
  <2>4. Is(Final(x), c) \in Nat
    BY DEF Is
  <2>5. Balance(StackCount(stack, c), 0, Is(Final(x), c), StackCount(stack', c))
    BY <1>1, <1>5, <1>6
  <2> QED
    BY <2>1, <2>2, <2>3, <2>4, <2>5 DEF Balance, CountIn
<1> QED
  BY <1>7, <1>8

\* A step that neither makes a list nor stores or tells a value.
LEMMA RestStays ==
  ASSUME IInv, NEW t \in Thread, NEW s, stack' = [stack EXCEPT ![t] = s],
         stack[t] = <<>> \/ Top(t).do # "enlist", UNCHANGED <<values, callbacks>>,
         StackOK', CallbacksOK', WaitingOK', QueueOK',
         \A m, k, v : Count(Notice(m, k, v))' = Count(Notice(m, k, v))
  PROVE  TypeOK' /\ NotifyOnce' /\ ListMade' /\ ListsCalled'
<1>1. TypeOK'
  BY DEF IInv, TypeOK, ValuesOK
<1>2. NotifyOnce'
  BY DEF IInv, NotifyOnce
<1>3. ListMade' /\ ListsCalled'
  BY ListsStay
<1> QED
  BY <1>1, <1>2, <1>3

LEMMA EnlistBegin ==
  ASSUME StackOK, EnlistFirst, NEW t \in Thread, stack[t] = <<>>, NEW x \in Calls,
         x.do # "enlist", stack' = [stack EXCEPT ![t] = <<x>>]
  PROVE  EnlistFirst'
<1>1. stack'[t] = <<x>> /\ \A u \in Thread \ {t} : stack'[u] = stack[u]
  BY DEF StackOK
<1>2. Len(stack'[t]) = 1 /\ stack'[t][1] = x
  BY <1>1
<1> QED
  BY <1>1, <1>2 DEF EnlistFirst

\* What makes a key's value, counted one by one.
LEMMA MakersNow ==
  ASSUME TypeOK, OneMaker, NEW m \in Maps, NEW k
  PROVE  /\ Count(Function(m, k)) \in Nat /\ Count(Store(m, k, NoValue)) \in Nat
         /\ Kept(m, k) \in Nat /\ Due(m, k) \in {0, 1}
         /\ Count(Function(m, k)) + Count(Store(m, k, NoValue)) + Kept(m, k) = Due(m, k)
<1>1. Count(Function(m, k)) \in Nat /\ Count(Store(m, k, NoValue)) \in Nat
  BY CountNat DEF TypeOK
<1>2. Kept(m, k) \in Nat
  BY QueueNat DEF TypeOK, QueueOK, Kept
<1>3. Makers(m, k) + Kept(m, k) = Due(m, k)
  BY DEF OneMaker
<1> QED
  BY <1>1, <1>2, <1>3 DEF Makers, Function, Due

\* The next call of a thread is counted.
LEMMA TopCounted ==
  ASSUME TypeOK, NEW t \in Thread, stack[t] # <<>>
  PROVE  Count(Final(Top(t))) \in Nat \ {0}
<1>1. 1 \in 1 .. Len(stack[t]) /\ Top(t) = stack[t][1]
  BY DEF TypeOK, StackOK, Top
<1> QED
  BY <1>1, OnStackCounted DEF TypeOK

\* A worker is to compute a value.
LEMMA ScheduleInv ==
  ASSUME IInv, NEW t \in Thread, Schedule(t)
  PROVE  IInv'
<1>1. PICK k : k = Top(t).key
  OBVIOUS
<1>2. /\ stack[t] # <<>> /\ Top(t) \in Calls /\ Top(t).do = "function"
      /\ Top(t).map = "approx"
  BY TopShape DEF Schedule, Doing, IInv, TypeOK
<1>3. k \in ApproxKey /\ Top(t) = Function("approx", k)
  BY <1>1, <1>2, CallShape DEF Function, KeysOf
<1>4. PICK calls : calls = <<>>
  OBVIOUS
<1>5. /\ calls \in Seq(Calls) /\ Become(t, calls) /\ Len(calls) = 0
      /\ \A i \in 1 .. Len(calls) : calls[i].do # "enlist"
  BY <1>4 DEF Schedule
<1>6. UNCHANGED <<values, callbacks, waiting>> /\ queue' = Append(queue, k)
  BY <1>1 DEF Schedule
<1>7. /\ StackOK' /\ CallbacksOK'
      /\ \A c : Balance(Count(c), Is(Final(Top(t)), c), Tally(calls, c), Count(c)')
  BY <1>2, <1>5, <1>6, CallEffect DEF IInv, TypeOK
<1>8. ASSUME NEW c
      PROVE  Balance(Count(c), Is(Function("approx", k), c), 0, Count(c)')
  <2>1. Final(Function("approx", k)) = Function("approx", k)
    BY Finals DEF Function
  <2>2. Tally(calls, c) = 0
    BY <1>4, TallyShort
  <2> QED
    BY <1>3, <1>7, <2>1, <2>2
<1>9. \A p, j, u : Count(Notice(p, j, u))' = Count(Notice(p, j, u))
  BY <1>8, IsFunction DEF Balance
<1>10. TypeOK' /\ NotifyOnce' /\ ListMade' /\ ListsCalled'
  <2>1. WaitingOK' /\ QueueOK'
    BY <1>3, <1>6 DEF IInv, TypeOK, WaitingOK, QueueOK
  <2>2. stack' = [stack EXCEPT ![t] = calls \o Tail(@)]
    BY <1>5 DEF Become
  <2>3. Top(t).do # "enlist" /\ UNCHANGED <<values, callbacks>>
    BY <1>2, <1>6
  <2> QED
    BY <1>7, <1>9, <2>1, <2>2, <2>3, RestStays
<1>11. TasksWait'
  <2>1. \A j : Count(Arrive(j))' = Count(Arrive(j))
    BY <1>8, IsFunction DEF Balance
  <2> QED
    BY <1>6, <2>1 DEF IInv, TasksWait
<1>12. OneMaker'
  <2> SUFFICES ASSUME NEW p \in Maps, NEW j
               PROVE  (Makers(p, j) + Kept(p, j) = Due(p, j))'
    BY DEF OneMaker
  <2>1. /\ Count(Function(p, j)) \in Nat /\ Count(Store(p, j, NoValue)) \in Nat
        /\ Kept(p, j) \in Nat
        /\ Count(Function(p, j)) + Count(Store(p, j, NoValue)) + Kept(p, j) = Due(p, j)
    BY MakersNow DEF IInv
  <2>2. Count(Store(p, j, NoValue))' = Count(Store(p, j, NoValue))
    BY <1>8, IsFunction DEF Balance
  <2>3. Count(Function(p, j))' = Count(Function(p, j)) - IF p = "approx" /\ j = k THEN 1 ELSE 0
    BY <1>8, IsFunction DEF Balance
  <2>4. Kept(p, j)' = Kept(p, j) + IF p = "approx" /\ j = k THEN 1 ELSE 0
    <3>1. CASE p = "term"
      BY <1>6, <2>1, <3>1 DEF Kept
    <3>2. CASE p = "approx"
      <4>1. QueueCount(queue', j) = QueueCount(queue, j) + Is(k, j)
        BY <1>3, <1>6, QueueAppend DEF IInv, TypeOK, QueueOK
      <4> QED
        BY <3>2, <4>1 DEF Kept, Is
    <3> QED
      BY <3>1, <3>2 DEF Maps
  <2>5. Due(p, j)' = Due(p, j)
    BY <1>6 DEF Due, Value
  <2>6. (Count(Function(p, j)) + Count(Store(p, j, NoValue)) + Kept(p, j) = Due(p, j))'
    BY <2>1, <2>2, <2>3, <2>4, <2>5
  <2> QED
    BY <2>6 DEF Makers, Function
<1>13. EnlistFirst'
  BY <1>2, <1>5, EnlistStep DEF IInv, TypeOK
<1> QED
  BY <1>10, <1>11, <1>12, <1>13 DEF IInv

\* A worker has computed a value.
LEMMA WorkInv ==
  ASSUME IInv, NEW t \in Thread, NEW a \in Approx, Work(t, {a})
  PROVE  IInv'
<1>1. PICK k, v, x : k = Head(queue) /\ v = {a} /\ x = Store("approx", k, v)
  OBVIOUS
<1>2. /\ queue \in Seq(ApproxKey) /\ queue # <<>> /\ k \in ApproxKey
      /\ queue' = Tail(queue) /\ queue' \in Seq(ApproxKey)
      /\ UNCHANGED <<values, callbacks, waiting>>
  BY <1>1 DEF Work, IInv, TypeOK, QueueOK
<1>3. x \in Calls /\ x.do # "enlist" /\ Final(x) = Store("approx", k, NoValue)
  <2>1. v \in Vals \ {NoValue}
    BY <1>1 DEF Vals, NoValue
  <2>2. "approx" \in Maps /\ k \in KeysOf("approx")
    BY <1>2 DEF Maps, KeysOf
  <2>3. x \in Calls
    BY <1>1, <2>1, <2>2, CallMade
  <2>4. x.do # "enlist"
    BY <1>1 DEF Store, Call
  <2> QED
    BY <1>1, <2>3, <2>4, Finals
<1>4. stack[t] = <<>> /\ stack' = [stack EXCEPT ![t] = <<x>>]
  BY <1>1 DEF Work
<1>5. /\ StackOK' /\ CallbacksOK'
      /\ \A c : Balance(Count(c), 0, Is(Store("approx", k, NoValue), c), Count(c)')
  BY <1>2, <1>3, <1>4, BeginEffect DEF IInv, TypeOK
<1>6. \A p, j, u : Count(Notice(p, j, u))' = Count(Notice(p, j, u))
  BY <1>5, IsStore DEF Balance
<1>7. TypeOK' /\ NotifyOnce' /\ ListMade' /\ ListsCalled'
  <2>1. WaitingOK' /\ QueueOK'
    BY <1>2 DEF IInv, TypeOK, WaitingOK, QueueOK
  <2>2. UNCHANGED <<values, callbacks>>
    BY <1>2
  <2> QED
    BY <1>4, <1>5, <1>6, <2>1, <2>2, RestStays
<1>8. TasksWait'
  <2>1. \A j : Count(Arrive(j))' = Count(Arrive(j))
    BY <1>5, IsStore DEF Balance
  <2> QED
    BY <1>2, <2>1 DEF IInv, TasksWait
<1>9. OneMaker'
  <2> SUFFICES ASSUME NEW p \in Maps, NEW j
               PROVE  (Makers(p, j) + Kept(p, j) = Due(p, j))'
    BY DEF OneMaker
  <2>1. /\ Count(Function(p, j)) \in Nat /\ Count(Store(p, j, NoValue)) \in Nat
        /\ Kept(p, j) \in Nat
        /\ Count(Function(p, j)) + Count(Store(p, j, NoValue)) + Kept(p, j) = Due(p, j)
    BY MakersNow DEF IInv
  <2>2. Count(Function(p, j))' = Count(Function(p, j))
    BY <1>5, IsStore DEF Balance
  <2>3. Count(Store(p, j, NoValue))' =
          Count(Store(p, j, NoValue)) + IF p = "approx" /\ j = k THEN 1 ELSE 0
    BY <1>5, IsStore DEF Balance
  <2>4. /\ Kept(p, j)' \in Nat
        /\ Kept(p, j) = Kept(p, j)' + IF p = "approx" /\ j = k THEN 1 ELSE 0
    <3>1. CASE p = "term"
      BY <1>2, <2>1, <3>1 DEF Kept
    <3>2. CASE p = "approx"
      <4>1. /\ QueueCount(Tail(queue), j) \in Nat
            /\ QueueCount(queue, j) = QueueCount(Tail(queue), j) + Is(k, j)
        BY <1>1, <1>2, QueueTail
      <4> QED
        BY <1>2, <3>2, <4>1 DEF Kept, Is
    <3> QED
      BY <3>1, <3>2 DEF Maps
  <2>5. Due(p, j)' = Due(p, j)
    BY <1>2 DEF Due, Value
  <2>6. (Count(Function(p, j)) + Count(Store(p, j, NoValue)) + Kept(p, j) = Due(p, j))'
    BY <2>1, <2>2, <2>3, <2>4, <2>5
  <2> QED
    BY <2>6 DEF Makers, Function
<1>10. EnlistFirst'
  BY <1>3, <1>4, EnlistBegin DEF IInv, TypeOK
<1> QED
  BY <1>7, <1>8, <1>9, <1>10 DEF IInv

\* The server asks for a term.
LEMMA AskInv ==
  ASSUME IInv, NEW k \in Key, Ask(k)
  PROVE  IInv'
<1>1. PICK x, t : x = FindNow(k) /\ t = Server
  OBVIOUS
<1>2. t \in Thread /\ stack[t] = <<>> /\ stack' = [stack EXCEPT ![t] = <<x>>]
  BY <1>1 DEF Ask, Thread
<1>3. UNCHANGED <<values, callbacks, waiting, queue>>
  BY DEF Ask, async
<1>4. x \in Calls /\ x.do = "find" /\ Final(x) = x
  <2>1. "term" \in Maps /\ k \in KeysOf("term")
    BY DEF Maps, KeysOf
  <2>2. x \in Calls
    BY <1>1, <2>1, CallMade
  <2>3. x.do = "find"
    BY <1>1 DEF FindNow, Call
  <2>4. Final(x) = x
    BY <1>1, Finals DEF FindNow
  <2> QED
    BY <2>2, <2>3, <2>4
<1>5. /\ StackOK' /\ CallbacksOK'
      /\ \A c : Balance(Count(c), 0, Is(x, c), Count(c)')
  BY <1>2, <1>3, <1>4, BeginEffect DEF IInv, TypeOK
<1>6. \A c : Owed(c) => Count(c)' = Count(c)
  <2>1. \A c : Owed(c) => Is(x, c) = 0
    BY <1>4 DEF Owed, Is
  <2> QED
    BY <1>5, <2>1 DEF Balance
<1>7. TasksWait' /\ OneMaker' /\ NotifyOnce'
  BY <1>3, <1>6, SameCounts DEF IInv
<1>8. TypeOK' /\ ListMade' /\ ListsCalled'
  <2>1. WaitingOK' /\ QueueOK'
    BY <1>3 DEF IInv, TypeOK, WaitingOK, QueueOK
  <2>2. \A p, j, u : Count(Notice(p, j, u))' = Count(Notice(p, j, u))
    BY <1>6, OwedCalls
  <2> QED
    BY <1>2, <1>3, <1>5, <2>1, <2>2, RestStays
<1>9. EnlistFirst'
  BY <1>2, <1>4, EnlistBegin DEF IInv, TypeOK
<1> QED
  BY <1>7, <1>8, <1>9 DEF IInv

\* The calls of a new task: one search for each argument, and its own arrival.
LEMMA TaskCallsAre ==
  ASSUME NEW k \in Key, NEW calls, calls = TaskCalls(k)
  PROVE  /\ calls \in Seq(Calls) /\ Len(k.args) \in Nat
         /\ \A i \in 1 .. Len(calls) : calls[i].do # "enlist"
         /\ \A c : Tally(calls, c) = IF Arrive(k) = c THEN 1 + Len(k.args) ELSE 0
<1> DEFINE finds == [i \in DOMAIN k.args |-> FindAsync("term", k.args[i], Arrive(k))]
<1>1. /\ k.args \in Seq(Key) /\ Len(k.args) \in Nat /\ DOMAIN k.args = 1 .. Len(k.args)
      /\ \A i \in DOMAIN k.args : k.args[i] \in Key
  BY AsyncAssumption
<1>2. /\ Arrive(k) \in Calls /\ Final(Arrive(k)) = Arrive(k) /\ Arrive(k).do = "arrive"
  <2>1. "term" \in Maps /\ k \in KeysOf("term")
    BY DEF Maps, KeysOf
  <2>2. Arrive(k) \in Calls
    BY <2>1, CallMade
  <2> QED
    BY <2>2, Finals DEF Arrive, Call
<1>3. ASSUME NEW i \in DOMAIN k.args
      PROVE  finds[i] \in Calls /\ Final(finds[i]) = Arrive(k) /\ finds[i].do = "find_async"
  <2>1. finds[i] = Call("find_async", "term", k.args[i], <<Arrive(k)>>)
    BY DEF FindAsync
  <2>2. /\ "term" \in Maps /\ k.args[i] \in KeysOf("term") /\ Arrive(k) \in CallbacksOf("term")
    BY <1>1 DEF Maps, KeysOf, CallbacksOf
  <2>3. finds[i] \in Calls
    BY <2>1, <2>2, CallMade
  <2>4. finds[i].do = "find_async" /\ finds[i].then = <<Arrive(k)>>
    BY <2>1 DEF Call
  <2> QED
    BY <2>3, <2>4, FinalCallback
<1>4. finds \in Seq(Calls) /\ Len(finds) = Len(k.args) /\ DOMAIN finds = DOMAIN k.args
  <2>1. finds \in [1 .. Len(k.args) -> Calls]
    BY <1>1, <1>3
  <2> QED
    BY <1>1, <2>1
<1>5. /\ calls \in Seq(Calls) /\ Len(calls) = Len(k.args) + 1
      /\ calls[Len(k.args) + 1] = Arrive(k)
      /\ \A i \in 1 .. Len(k.args) : calls[i] = finds[i]
  <2>1. calls = Append(finds, Arrive(k))
    BY DEF TaskCalls
  <2> HIDE DEF finds
  <2> QED
    BY <1>1, <1>2, <1>4, <2>1
<1>6. \A i \in 1 .. Len(calls) : calls[i].do # "enlist" /\ Final(calls[i]) = Arrive(k)
  <2> SUFFICES ASSUME NEW i \in 1 .. Len(calls)
               PROVE  calls[i].do # "enlist" /\ Final(calls[i]) = Arrive(k)
    OBVIOUS
  <2>1. CASE i \in 1 .. Len(k.args)
    BY <1>1, <1>3, <1>5, <2>1
  <2>2. CASE i = Len(k.args) + 1
    BY <1>2, <1>5, <2>2
  <2> QED
    BY <1>1, <1>5, <2>1, <2>2
<1>7. DOMAIN calls = 1 .. Len(calls)
  BY <1>5
<1>8. ASSUME NEW c
      PROVE  Tally(calls, c) = IF Arrive(k) = c THEN Len(calls) ELSE 0
  <2>1. calls \in Seq(Calls)
    BY <1>5
  <2>2. AllBecome(calls, Arrive(k))
    BY <1>6, <1>7 DEF AllBecome
  <2> QED
    BY <2>1, <2>2, TallyAll
<1> QED
  BY <1>1, <1>5, <1>6, <1>8

\* A task is made, which waits for its arguments.
LEMMA NewTaskInv ==
  ASSUME IInv, NEW t \in Thread, NewTask(t)
  PROVE  IInv'
<1>1. PICK k : k = Top(t).key
  OBVIOUS
<1>2. /\ stack[t] # <<>> /\ Top(t) \in Calls /\ Top(t).do = "function"
      /\ Top(t).map = "term"
  BY TopShape DEF NewTask, Doing, IInv, TypeOK
<1>3. k \in Key /\ Top(t) = Function("term", k) /\ "term" \in Maps
  BY <1>1, <1>2, CallShape DEF Function, KeysOf
<1>4. PICK calls, n : calls = TaskCalls(k) /\ n = 1 + Len(k.args)
  OBVIOUS
<1>5. /\ calls \in Seq(Calls) /\ n \in Nat
      /\ \A i \in 1 .. Len(calls) : calls[i].do # "enlist"
      /\ \A c : Tally(calls, c) = IF Arrive(k) = c THEN n ELSE 0
  <2>1. /\ calls \in Seq(Calls) /\ Len(k.args) \in Nat
        /\ \A i \in 1 .. Len(calls) : calls[i].do # "enlist"
        /\ \A c : Tally(calls, c) = IF Arrive(k) = c THEN 1 + Len(k.args) ELSE 0
    BY <1>3, <1>4, TaskCallsAre
  <2>2. n \in Nat /\ \A c : Tally(calls, c) = IF Arrive(k) = c THEN n ELSE 0
    BY <1>4, <2>1
  <2> QED
    BY <2>1, <2>2
<1>6. /\ Become(t, calls) /\ waiting' = With(waiting, k, n)
      /\ UNCHANGED <<values, callbacks, queue>>
  BY <1>1, <1>4 DEF NewTask
<1>7. /\ StackOK' /\ CallbacksOK'
      /\ \A c : Balance(Count(c), Is(Final(Top(t)), c), Tally(calls, c), Count(c)')
  BY <1>2, <1>5, <1>6, CallEffect DEF IInv, TypeOK
<1>8. Final(Function("term", k)) = Function("term", k)
  BY Finals DEF Function
<1>9. ASSUME NEW c
      PROVE  Balance(Count(c), Is(Function("term", k), c), IF Arrive(k) = c THEN n ELSE 0, Count(c)')
  BY <1>3, <1>5, <1>7, <1>8
<1>10. Count(Function("term", k)) \in Nat \ {0}
  BY <1>2, <1>3, <1>8, TopCounted DEF IInv
<1>11. k \notin DOMAIN waiting
  <2>1. /\ Count(Store("term", k, NoValue)) \in Nat
        /\ Kept("term", k) \in Nat /\ Due("term", k) \in {0, 1}
        /\ Count(Function("term", k)) + Count(Store("term", k, NoValue)) + Kept("term", k)
             = Due("term", k)
    BY <1>3, MakersNow DEF IInv
  <2>2. Kept("term", k) = 0
    BY <1>10, <2>1
  <2> QED
    BY <2>2 DEF Kept
<1>12. Count(Arrive(k)) = 0
  BY <1>11 DEF IInv, TasksWait
<1>13. \A j : Count(Arrive(j))' = IF j = k THEN n ELSE Count(Arrive(j))
  <2>1. \A j : Is(Function("term", k), Arrive(j)) = 0 /\ (Arrive(k) = Arrive(j) <=> j = k)
    BY IsFunction DEF Arrive, Call
  <2> QED
    BY <1>5, <1>9, <1>12, <2>1 DEF Balance
<1>14. /\ \A p, j : Arrive(k) # Function(p, j) /\ Arrive(k) # Store(p, j, NoValue)
       /\ \A p, j, u : Arrive(k) # Notice(p, j, u)
  BY DEF Arrive, Function, Store, Notice, Call
<1>15. \A p, j, u : Count(Notice(p, j, u))' = Count(Notice(p, j, u))
  BY <1>9, <1>14, IsFunction DEF Balance
<1>16. \A p, j : /\ Count(Store(p, j, NoValue))' = Count(Store(p, j, NoValue))
                 /\ Count(Function(p, j))' =
                      Count(Function(p, j)) - IF p = "term" /\ j = k THEN 1 ELSE 0
  BY <1>9, <1>14, IsFunction DEF Balance
<1>17. /\ DOMAIN waiting' = DOMAIN waiting \cup {k} /\ waiting'[k] = n
       /\ \A j \in DOMAIN waiting : waiting'[j] = waiting[j]
  BY <1>6, <1>11 DEF With
<1>18. TypeOK' /\ NotifyOnce' /\ ListMade' /\ ListsCalled'
  <2>1. WaitingOK' /\ QueueOK'
    BY <1>3, <1>5, <1>6, <1>17 DEF IInv, TypeOK, WaitingOK, QueueOK
  <2>2. stack' = [stack EXCEPT ![t] = calls \o Tail(@)]
    BY <1>6 DEF Become
  <2>3. Top(t).do # "enlist" /\ UNCHANGED <<values, callbacks>>
    BY <1>2, <1>6
  <2> QED
    BY <1>7, <1>15, <2>1, <2>2, <2>3, RestStays
<1>19. TasksWait'
  BY <1>13, <1>17 DEF IInv, TasksWait
<1>20. OneMaker'
  <2> SUFFICES ASSUME NEW p \in Maps, NEW j
               PROVE  (Makers(p, j) + Kept(p, j) = Due(p, j))'
    BY DEF OneMaker
  <2>1. /\ Count(Function(p, j)) \in Nat /\ Count(Store(p, j, NoValue)) \in Nat
        /\ Kept(p, j) \in Nat
        /\ Count(Function(p, j)) + Count(Store(p, j, NoValue)) + Kept(p, j) = Due(p, j)
    BY MakersNow DEF IInv
  <2>2. Kept(p, j)' = Kept(p, j) + IF p = "term" /\ j = k THEN 1 ELSE 0
    <3>1. CASE p = "term"
      BY <1>11, <1>17, <3>1 DEF Kept
    <3>2. CASE p = "approx"
      BY <1>6, <2>1, <3>2 DEF Kept
    <3> QED
      BY <3>1, <3>2 DEF Maps
  <2>3. Due(p, j)' = Due(p, j)
    BY <1>6 DEF Due, Value
  <2>4. (Count(Function(p, j)) + Count(Store(p, j, NoValue)) + Kept(p, j) = Due(p, j))'
    BY <1>16, <2>1, <2>2, <2>3
  <2> QED
    BY <2>4 DEF Makers, Function
<1>21. EnlistFirst'
  BY <1>2, <1>5, <1>6, EnlistStep DEF IInv, TypeOK
<1> QED
  BY <1>18, <1>19, <1>20, <1>21 DEF IInv

LEMMA IsSequence ==
  ASSUME NEW S, NEW n \in Nat, NEW s \in [1 .. n -> S]
  PROVE  s \in Seq(S)
OBVIOUS

\* What the last callback of a task pushes.
LEMMA Converted ==
  ASSUME ValuesOK, NEW k \in Key, NEW x,
         x = FindAsync("approx", Convert(k), Store("term", k, NoValue))
  PROVE  x \in Calls /\ x.do # "enlist" /\ Final(x) = Store("term", k, NoValue)
<1>1. x = Call("find_async", "approx", Convert(k), <<Store("term", k, NoValue)>>)
  BY DEF FindAsync
<1>2. Convert(k) \in KeysOf("approx")
  <2>1. PICK as : as = [i \in DOMAIN k.args |-> Value("term", k.args[i])]
    OBVIOUS
  <2>2. k.args \in Seq(Key) /\ DOMAIN k.args = 1 .. Len(k.args) /\ Len(k.args) \in Nat
    BY AsyncAssumption
  <2>3. "term" \in Maps
    BY DEF Maps
  <2>4. \A i \in DOMAIN k.args : Value("term", k.args[i]) \in Vals
    BY <2>3, ValueShape
  <2>5. PICK n : n = Len(k.args)
    OBVIOUS
  <2>6. n \in Nat /\ as \in [1 .. n -> Vals]
    BY <2>1, <2>2, <2>4, <2>5
  <2>7. as \in Seq(Vals)
    BY <2>6, IsSequence
  <2> QED
    BY <2>1, <2>7 DEF Convert, KeysOf, ApproxKey
<1>3. "approx" \in Maps /\ Store("term", k, NoValue) \in CallbacksOf("approx")
  BY DEF Maps, CallbacksOf
<1>4. x \in Calls
  BY <1>1, <1>2, <1>3, CallMade
<1>5. x.do = "find_async" /\ x.then = <<Store("term", k, NoValue)>>
  BY <1>1 DEF Call
<1> QED
  BY <1>4, <1>5, FinalCallback

\* A task has one callback less to wait for, or is done.
LEMMA TaskArriveInv ==
  ASSUME IInv, NEW t \in Thread, TaskArrive(t)
  PROVE  IInv'
<1>1. PICK k : k = Top(t).key
  OBVIOUS
<1>2. stack[t] # <<>> /\ Top(t) \in Calls /\ Top(t).do = "arrive"
  BY TopShape DEF TaskArrive, Doing, IInv, TypeOK
<1>3. k \in Key /\ Top(t) = Arrive(k) /\ "term" \in Maps /\ Final(Top(t)) = Arrive(k)
  <2>1. Top(t) = Arrive(k) /\ k \in Key /\ "term" \in Maps
    BY <1>1, <1>2, CallShape DEF Arrive, KeysOf
  <2> QED
    BY <2>1, Finals DEF Arrive
<1>4. Count(Arrive(k)) \in Nat \ {0}
  BY <1>2, <1>3, TopCounted DEF IInv
<1>5. k \in DOMAIN waiting /\ waiting[k] = Count(Arrive(k))
  BY <1>4 DEF IInv, TasksWait
<1>6. UNCHANGED <<values, callbacks, queue>>
  BY DEF TaskArrive
<1>7. PICK calls : /\ calls \in Seq(Calls) /\ Become(t, calls)
                   /\ \A i \in 1 .. Len(calls) : calls[i].do # "enlist"
                   /\ \/ /\ waiting[k] = 1 /\ waiting' = Without(waiting, k)
                         /\ \A c : Tally(calls, c) = Is(Store("term", k, NoValue), c)
                      \/ /\ waiting[k] # 1 /\ waiting' = [waiting EXCEPT ![k] = @ - 1]
                         /\ \A c : Tally(calls, c) = 0
  <2>1. CASE waiting[k] = 1
    <3>1. PICK x, calls : /\ x = FindAsync("approx", Convert(k), Store("term", k, NoValue))
                          /\ calls = <<x>>
      OBVIOUS
    <3>2. x \in Calls /\ x.do # "enlist" /\ Final(x) = Store("term", k, NoValue)
      BY <1>3, <3>1, Converted DEF IInv, TypeOK
    <3>3. Become(t, calls) /\ waiting' = Without(waiting, k)
      BY <1>1, <2>1, <3>1 DEF TaskArrive
    <3>4. calls \in Seq(Calls) /\ \A i \in 1 .. Len(calls) : calls[i].do # "enlist"
      BY <3>1, <3>2
    <3>5. \A c : Tally(calls, c) = Is(Store("term", k, NoValue), c)
      BY <3>1, <3>2, TallyShort
    <3> QED
      BY <2>1, <3>3, <3>4, <3>5
  <2>2. CASE waiting[k] # 1
    <3>1. PICK calls : calls = <<>>
      OBVIOUS
    <3>2. Become(t, calls) /\ waiting' = [waiting EXCEPT ![k] = @ - 1]
      BY <1>1, <2>2, <3>1 DEF TaskArrive
    <3>3. calls \in Seq(Calls) /\ Len(calls) = 0
      BY <3>1
    <3>4. \A c : Tally(calls, c) = 0
      BY <3>1, TallyShort
    <3>5. \A i \in 1 .. Len(calls) : calls[i].do # "enlist"
      BY <3>3
    <3> QED
      BY <2>2, <3>2, <3>3, <3>4, <3>5
  <2> QED
    BY <2>1, <2>2
<1>8. PICK last : last = IF waiting[k] = 1 THEN 1 ELSE 0
  OBVIOUS
<1>9. /\ StackOK' /\ CallbacksOK'
      /\ \A c : Balance(Count(c), Is(Final(Top(t)), c), Tally(calls, c), Count(c)')
  BY <1>2, <1>6, <1>7, CallEffect DEF IInv, TypeOK
<1>10. ASSUME NEW c
       PROVE  Balance(Count(c), Is(Arrive(k), c),
                      IF last = 1 THEN Is(Store("term", k, NoValue), c) ELSE 0, Count(c)')
  BY <1>3, <1>7, <1>8, <1>9
<1>11. \A j : Count(Arrive(j))' = Count(Arrive(j)) - IF j = k THEN 1 ELSE 0
  <2>1. ASSUME NEW j
        PROVE  Balance(Count(Arrive(j)), IF k = j THEN 1 ELSE 0, 0, Count(Arrive(j))')
    BY <1>10, IsArrive, IsStore
  <2> QED
    BY <2>1 DEF Balance
<1>12. \A p, j : Count(Function(p, j))' = Count(Function(p, j))
  <2>1. ASSUME NEW p, NEW j
        PROVE  Balance(Count(Function(p, j)), 0, 0, Count(Function(p, j))')
    BY <1>10, IsArrive, IsStore
  <2> QED
    BY <2>1 DEF Balance
<1>13. \A p, j : Count(Store(p, j, NoValue))' =
                   Count(Store(p, j, NoValue)) + IF p = "term" /\ j = k THEN last ELSE 0
  <2>1. ASSUME NEW p, NEW j
        PROVE  Balance(Count(Store(p, j, NoValue)), 0, IF p = "term" /\ j = k THEN last ELSE 0,
                       Count(Store(p, j, NoValue))')
    BY <1>8, <1>10, IsArrive, IsStore
  <2> QED
    BY <1>8, <2>1 DEF Balance
<1>14. \A p, j, u : Count(Notice(p, j, u))' = Count(Notice(p, j, u))
  <2>1. ASSUME NEW p, NEW j, NEW u
        PROVE  Balance(Count(Notice(p, j, u)), 0, 0, Count(Notice(p, j, u))')
    BY <1>10, IsArrive, IsStore
  <2> QED
    BY <2>1 DEF Balance
<1>15. \/ /\ last = 1 /\ waiting[k] = 1 /\ DOMAIN waiting' = DOMAIN waiting \ {k}
          /\ \A j \in DOMAIN waiting \ {k} : waiting'[j] = waiting[j]
       \/ /\ last = 0 /\ DOMAIN waiting' = DOMAIN waiting /\ waiting'[k] = waiting[k] - 1
          /\ \A j \in DOMAIN waiting \ {k} : waiting'[j] = waiting[j]
  BY <1>5, <1>7, <1>8 DEF Without
<1>16. TypeOK' /\ NotifyOnce' /\ ListMade' /\ ListsCalled'
  <2>1. WaitingOK' /\ QueueOK'
    BY <1>4, <1>5, <1>6, <1>15 DEF IInv, TypeOK, WaitingOK, QueueOK
  <2>2. stack' = [stack EXCEPT ![t] = calls \o Tail(@)]
    BY <1>7 DEF Become
  <2>3. Top(t).do # "enlist" /\ UNCHANGED <<values, callbacks>>
    BY <1>2, <1>6
  <2> QED
    BY <1>9, <1>14, <2>1, <2>2, <2>3, RestStays
<1>17. TasksWait'
  <2> SUFFICES ASSUME NEW j
               PROVE  Count(Arrive(j))' = IF j \in DOMAIN waiting' THEN waiting'[j] ELSE 0
    BY DEF TasksWait
  <2>1. Count(Arrive(j)) = IF j \in DOMAIN waiting THEN waiting[j] ELSE 0
    BY DEF IInv, TasksWait
  <2>2. CASE j = k
    BY <1>4, <1>5, <1>11, <1>15, <2>2
  <2>3. CASE j # k
    <3>1. Count(Arrive(j))' = Count(Arrive(j))
      <4>1. Count(Arrive(j)) \in Nat
        BY CountNat DEF IInv, TypeOK
      <4> QED
        BY <1>11, <2>3, <4>1
    <3> QED
      BY <1>15, <2>1, <2>3, <3>1
  <2> QED
    BY <2>2, <2>3
<1>18. OneMaker'
  <2> SUFFICES ASSUME NEW p \in Maps, NEW j
               PROVE  (Makers(p, j) + Kept(p, j) = Due(p, j))'
    BY DEF OneMaker
  <2>1. /\ Count(Function(p, j)) \in Nat /\ Count(Store(p, j, NoValue)) \in Nat
        /\ Kept(p, j) \in Nat
        /\ Count(Function(p, j)) + Count(Store(p, j, NoValue)) + Kept(p, j) = Due(p, j)
    BY MakersNow DEF IInv
  <2>2. Kept(p, j)' = Kept(p, j) - IF p = "term" /\ j = k THEN last ELSE 0
    <3>1. CASE p = "term"
      BY <1>5, <1>15, <3>1 DEF Kept
    <3>2. CASE p = "approx"
      BY <1>6, <2>1, <3>2 DEF Kept
    <3> QED
      BY <3>1, <3>2 DEF Maps
  <2>3. Due(p, j)' = Due(p, j)
    BY <1>6 DEF Due, Value
  <2>4. (Count(Function(p, j)) + Count(Store(p, j, NoValue)) + Kept(p, j) = Due(p, j))'
    BY <1>8, <1>12, <1>13, <2>1, <2>2, <2>3
  <2> QED
    BY <2>4 DEF Makers, Function
<1>19. EnlistFirst'
  BY <1>2, <1>7, EnlistStep DEF IInv, TypeOK
<1> QED
  BY <1>16, <1>17, <1>18, <1>19 DEF IInv

-----------------------------------------------------------------------------
(* The theorems.                                                           *)

LEMMA InitInv ==
  ASSUME AsyncInit
  PROVE  IInv
<1>1. /\ DOMAIN values = Maps /\ \A m \in Maps : values[m] = <<>>
      /\ DOMAIN callbacks = Maps /\ \A m \in Maps : callbacks[m] = <<>>
      /\ waiting = <<>> /\ queue = <<>> /\ stack = [t \in Thread |-> <<>>]
  BY DEF AsyncInit, Maps
<1>2. StackCalls(stack) = {} /\ ListCalls(callbacks) = {}
  <2>1. ASSUME NEW t \in Thread
        PROVE  Above(t, stack[t], 0) = {}
    <3>1. DOMAIN stack[t] = {}
      BY <1>1
    <3> QED
      BY <3>1 DEF Above
  <2>2. StackCalls(stack) = {}
    BY <2>1 DEF StackCalls
  <2>3. \A m \in Maps : DOMAIN callbacks[m] = {}
    BY <1>1
  <2>4. ListCalls(callbacks) = {}
    BY <2>3 DEF ListCalls
  <2> QED
    BY <2>2, <2>4
<1>3. StackOK
  <2>1. <<>> \in Seq(Calls)
    OBVIOUS
  <2> QED
    BY <1>1, <1>2, <2>1, FS_EmptySet DEF StackOK
<1>4. \A c : Count(c) = 0
  <2>1. \A c : Of(StackCalls(stack), c) = {} /\ Of(ListCalls(callbacks), c) = {}
    BY <1>2 DEF Of
  <2>2. \A c : StackCount(stack, c) = 0 /\ ListCount(callbacks, c) = 0
    BY <2>1, FS_EmptySet DEF StackCount, ListCount, CountOf
  <2> QED
    BY <1>3, <2>2, CountIs DEF CountIn
<1>5. \A m \in Maps : DOMAIN values[m] = {} /\ DOMAIN callbacks[m] = {}
  BY <1>1
<1>6. DOMAIN waiting = {} /\ queue \in Seq(ApproxKey)
  BY <1>1
<1>7. TypeOK
  <2>1. ValuesOK
    BY <1>1, <1>5 DEF ValuesOK
  <2>2. CallbacksOK
    BY <1>1, <1>2, <1>5, FS_EmptySet DEF CallbacksOK
  <2>3. WaitingOK /\ QueueOK
    BY <1>6 DEF WaitingOK, QueueOK
  <2> QED
    BY <1>3, <2>1, <2>2, <2>3 DEF TypeOK
<1>8. TasksWait
  BY <1>4, <1>6 DEF TasksWait
<1>9. OneMaker
  <2>1. \A m, k : Makers(m, k) = 0
    BY <1>4 DEF Makers
  <2>2. \A m \in Maps : \A k : Due(m, k) = 0
    BY <1>5 DEF Due
  <2>3. \A m \in Maps : \A k : Kept(m, k) = 0
    <3>1. \A k : {i \in DOMAIN queue : queue[i] = k} = {}
      BY <1>1
    <3> QED
      BY <1>6, <3>1, FS_EmptySet DEF Kept, QueueCount
  <2> QED
    BY <2>1, <2>2, <2>3 DEF OneMaker
<1>10. NotifyOnce
  BY <1>4 DEF NotifyOnce
<1>11. EnlistFirst
  <2>1. \A t \in Thread : Len(stack[t]) = 0
    BY <1>1
  <2> QED
    BY <2>1 DEF EnlistFirst
<1>12. ListMade /\ ListsCalled
  BY <1>5 DEF ListMade, ListsCalled
<1> QED
  BY <1>7, <1>8, <1>9, <1>10, <1>11, <1>12 DEF IInv

LEMMA Stutter ==
  ASSUME IInv, UNCHANGED asyncVars
  PROVE  IInv'
<1>1. UNCHANGED <<values, callbacks, waiting, queue, stack>>
  BY DEF asyncVars, async
<1>2. StackOK' /\ CallbacksOK'
  BY <1>1 DEF IInv, TypeOK, StackOK, CallbacksOK
<1>3. \A c : Count(c)' = Count(c)
  <2>1. \A c : Count(c) = CountIn(stack, callbacks, c)
    BY CountIs DEF IInv, TypeOK
  <2>2. \A c : Count(c)' = CountIn(stack', callbacks', c)
    BY <1>2, CountIsNext
  <2> QED
    BY <1>1, <2>1, <2>2
<1>4. TypeOK'
  BY <1>1, <1>2 DEF IInv, TypeOK, ValuesOK, WaitingOK, QueueOK
<1>5. TasksWait' /\ OneMaker' /\ NotifyOnce'
  BY <1>1, <1>3, SameCounts DEF IInv
<1>6. EnlistFirst'
  BY <1>1 DEF IInv, EnlistFirst
<1>7. ListMade' /\ ListsCalled'
  <2>1. \A m, k : Starting(m, k)' = Starting(m, k)
    BY <1>1 DEF Starting, Top
  <2>2. ListMade'
    BY <1>1, <1>3, <2>1 DEF IInv, ListMade
  <2>3. ListsCalled'
    BY <1>1, <1>3 DEF IInv, ListsCalled, Value
  <2> QED
    BY <2>2, <2>3
<1> QED
  BY <1>4, <1>5, <1>6, <1>7 DEF IInv

\* The inductive invariant holds, however threads interleave.
THEOREM Invariant == AsyncSpec => []IInv
<1>1. AsyncInit => IInv
  BY InitInv
<1>2. IInv /\ [AsyncNext]_asyncVars => IInv'
  <2> SUFFICES ASSUME IInv, [AsyncNext]_asyncVars
               PROVE  IInv'
    OBVIOUS
  <2>1. ASSUME NEW k \in Key, Ask(k)
        PROVE  IInv'
    BY <2>1, AskInv
  <2>2. ASSUME NEW t \in Thread, NEW a \in Approx, Work(t, {a})
        PROVE  IInv'
    BY <2>2, WorkInv
  <2>3. ASSUME NEW t \in Thread, AsyncStep(t)
        PROVE  IInv'
    <3>1. CASE FindStep(t)
      BY <3>1, FindNew, FindFound
    <3>2. CASE Enlist(t)
      BY <3>2, EnlistInv
    <3>3. CASE Check(t)
      BY <3>3, CheckInv
    <3>4. CASE StoreValue(t)
      BY <3>4, StoreValueInv
    <3>5. CASE Notify(t)
      BY <3>5, NotifyInv
    <3>6. CASE NewTask(t)
      BY <3>6, NewTaskInv
    <3>7. CASE TaskArrive(t)
      BY <3>7, TaskArriveInv
    <3>8. CASE Schedule(t)
      BY <3>8, ScheduleInv
    <3> QED
      BY <2>3, <3>1, <3>2, <3>3, <3>4, <3>5, <3>6, <3>7, <3>8 DEF AsyncStep
  <2>4. CASE UNCHANGED asyncVars
    BY <2>4, Stutter
  <2> QED
    BY <2>1, <2>2, <2>3, <2>4 DEF AsyncNext
<1> QED
  BY <1>1, <1>2, PTL DEF AsyncSpec

\* Nothing is called twice or forgotten, for any terms, threads and values.
THEOREM CallbacksAccounted == AsyncSpec => []Accounted
<1>1. IInv => Accounted
  <2> SUFFICES ASSUME IInv
               PROVE  Accounted
    OBVIOUS
  <2>1. ASSUME NEW k \in DOMAIN waiting
        PROVE  waiting[k] = Count(Arrive(k))
    BY DEF IInv, TasksWait
  <2>2. ASSUME NEW k \in DOMAIN values["term"]
        PROVE  Makers("term", k) + Cardinality({k} \cap DOMAIN waiting) = Due("term", k)
    <3>1. Cardinality({k} \cap DOMAIN waiting) = IF k \in DOMAIN waiting THEN 1 ELSE 0
      <4>1. CASE k \in DOMAIN waiting
        <5>1. {k} \cap DOMAIN waiting = {k}
          BY <4>1
        <5> QED
          BY <4>1, <5>1, FS_Singleton
      <4>2. CASE k \notin DOMAIN waiting
        <5>1. {k} \cap DOMAIN waiting = {}
          BY <4>2
        <5> QED
          BY <4>2, <5>1, FS_EmptySet
      <4> QED
        BY <4>1, <4>2
    <3>2. Makers("term", k) + Kept("term", k) = Due("term", k)
      BY DEF IInv, OneMaker, Maps
    <3> QED
      BY <3>1, <3>2 DEF Kept
  <2>3. ASSUME NEW k \in DOMAIN values["approx"]
        PROVE  Makers("approx", k) + Cardinality({i \in DOMAIN queue : queue[i] = k})
                 = Due("approx", k)
    <3>1. Makers("approx", k) + Kept("approx", k) = Due("approx", k)
      BY DEF IInv, OneMaker, Maps
    <3> QED
      BY <3>1 DEF Kept, QueueCount
  <2>4. ASSUME NEW m \in Maps, NEW k \in DOMAIN callbacks[m]
        PROVE  Value(m, k) = NoValue \/ Count(Call("notify", m, k, Value(m, k))) = 1
    BY DEF IInv, ListsCalled, Notice
  <2> QED
    BY <2>1, <2>2, <2>3, <2>4 DEF Accounted
<1> QED
  BY <1>1, Invariant, PTL

\* No assertion of store() fails, and no callback finds its task gone.
THEOREM AssertionsHold == AsyncSpec => []Asserted
<1>1. IInv => Asserted
  <2> SUFFICES ASSUME IInv, NEW t \in Thread, stack[t] # <<>>
               PROVE  /\ Top(t).do = "store" => Due(Top(t).map, Top(t).key) = 1
                      /\ Top(t).do = "notify" => Top(t).key \in DOMAIN callbacks[Top(t).map]
                      /\ Top(t).do = "arrive" => Top(t).key \in DOMAIN waiting
    BY DEF Asserted, Doing
  <2>1. PICK m, k, v : m = Top(t).map /\ k = Top(t).key /\ v = Top(t).then
    OBVIOUS
  <2>2. /\ m \in Maps /\ k \in KeysOf(m) /\ Top(t) = Call(Top(t).do, m, k, v)
        /\ Top(t).do = "arrive" => m = "term" /\ v = Nothing
    BY <2>1, TopShape, CallShape DEF IInv, TypeOK
  <2>3. Count(Final(Top(t))) \in Nat \ {0}
    BY TopCounted DEF IInv
  <2>4. CASE Top(t).do = "store"
    <3>1. Final(Top(t)) = Store(m, k, NoValue)
      <4>1. Top(t) = Store(m, k, v)
        BY <2>2, <2>4 DEF Store
      <4> QED
        BY <4>1, Finals
    <3>2. /\ Count(Function(m, k)) \in Nat /\ Kept(m, k) \in Nat /\ Due(m, k) \in {0, 1}
          /\ Count(Function(m, k)) + Count(Store(m, k, NoValue)) + Kept(m, k) = Due(m, k)
      BY <2>2, MakersNow DEF IInv
    <3>3. Due(m, k) = 1
      BY <2>3, <3>1, <3>2
    <3> QED
      BY <2>1, <2>4, <3>3
  <2>5. CASE Top(t).do = "notify"
    <3>1. Final(Top(t)) = Notice(m, k, v)
      <4>1. Top(t) = Notice(m, k, v)
        BY <2>2, <2>5 DEF Notice
      <4> QED
        BY <4>1, Finals
    <3>2. Count(Notice(m, k, v)) # 0
      BY <2>3, <3>1
    <3>3. k \in DOMAIN values[m] /\ values[m][k] = v /\ v # NoValue
      BY <2>2, <3>2 DEF IInv, NotifyOnce
    <3>4. ~ Starting(m, k)
      <4>1. Due(m, k) = 0
        BY <3>3 DEF Due, Value
      <4> QED
        BY <2>2, <4>1, StartingDue DEF IInv
    <3>5. k \in DOMAIN callbacks[m]
      BY <2>2, <3>2, <3>3, <3>4 DEF IInv, ListMade
    <3> QED
      BY <2>1, <2>5, <3>5
  <2>6. CASE Top(t).do = "arrive"
    <3>1. Final(Top(t)) = Arrive(k)
      BY <2>2, <2>6, Finals DEF Arrive
    <3>2. Count(Arrive(k)) # 0
      BY <2>3, <3>1
    <3>3. k \in DOMAIN waiting
      BY <3>2 DEF IInv, TasksWait
    <3> QED
      BY <2>1, <2>6, <3>3
  <2> QED
    BY <2>4, <2>5, <2>6
<1> QED
  BY <1>1, Invariant, PTL

=============================================================================
