-------------------------- MODULE PropagateProofs --------------------------
(***************************************************************************)
(* Proofs about Propagate: a reply of FALSE is sound.                       *)
(*                                                                         *)
(* A limit of a theory is a set of obs for each expression and parity that *)
(* no constraint leads out of.  The invariant is that whatever the server  *)
(* knows, has heard or will find stays within every limit, so that a FALSE *)
(* means that every limit clashes; and what a solution of the facts is     *)
(* above and below is a limit that does not.                               *)
(***************************************************************************)
EXTENDS Propagate, TLAPS, FiniteSetTheorems, SequenceTheorems, WellFoundedInduction

-----------------------------------------------------------------------------
(* Sequences.                                                              *)

\* A set of naturals that has a member has a least one.
LEMMA LeastNat ==
  ASSUME NEW S \in SUBSET Nat, S # {}
  PROVE  \E x \in S : \A y \in S : x <= y
<1>1. PICK x \in S : \A y \in S : ~ (<<y, x>> \in OpToRel(<, Nat))
  BY WFMin, NatLessThanWellFounded
<1>2. ASSUME NEW y \in S PROVE x <= y
  <2>1. ~ (y < x)
    BY <1>1 DEF OpToRel
  <2> QED
    BY <2>1
<1> QED
  BY <1>2

Prefix(ss, f) == [i \in 1 .. Len(ss) |-> IF i = 1 THEN ss[i] ELSE f[i - 1] \o ss[i]]

\* What FlattenSeq is, when there is a sequence to join.
LEMMA FlattenDef ==
  ASSUME NEW ss, Len(ss) # 0
  PROVE  FlattenSeq(ss) = (CHOOSE f : f = Prefix(ss, f))[Len(ss)]
  BY DEF FlattenSeq, Prefix

\* The prefixes that FlattenSeq joins exist.
LEMMA FlattenPrefix ==
  ASSUME NEW X, NEW ss \in Seq(Seq(X))
  PROVE  \E f : f = Prefix(ss, f)
<1> DEFINE Upto(f, n) == f = [i \in 1 .. n |-> IF i = 1 THEN ss[i] ELSE f[i - 1] \o ss[i]]
           Bad == {n \in 0 .. Len(ss) : ~ \E f : Upto(f, n)}
<1>0. Len(ss) \in Nat
  OBVIOUS
<1>1. Bad = {}
  <2> SUFFICES ASSUME Bad # {} PROVE FALSE
    OBVIOUS
  <2>1. PICK n \in Bad : \A k \in Bad : n <= k
    <3> HIDE DEF Upto
    <3>1. Bad \in SUBSET Nat
      BY <1>0
    <3> HIDE DEF Bad
    <3> QED
      BY <3>1, LeastNat
  <2>2. n \in 0 .. Len(ss) /\ ~ \E f : Upto(f, n)
    OBVIOUS
  <2>3. n # 0
    <3>1. 1 .. 0 = {}
      OBVIOUS
    <3>2. PICK f : f = [i \in {} |-> 0]
      OBVIOUS
    <3>4. f = [i \in {} |-> IF i = 1 THEN ss[i] ELSE f[i - 1] \o ss[i]]
      BY <3>2
    <3>3. Upto(f, 0)
      BY <3>1, <3>4, Zenon
    <3> QED
      BY <2>2, <3>3
  <2>4. PICK f : Upto(f, n - 1)
    <3>1. n - 1 \in 0 .. Len(ss) /\ ~ (n <= n - 1)
      BY <2>2, <2>3, <1>0
    <3> HIDE DEF Upto
    <3> QED
      BY <3>1, <2>1
  <2> DEFINE g == [i \in 1 .. n |-> IF i = n THEN IF i = 1 THEN ss[i] ELSE f[i - 1] \o ss[i] ELSE f[i]]
  <2>5. \A i \in 1 .. n - 1 : g[i] = f[i]
    BY <2>2, <2>3, <1>0
  <2>6. ASSUME NEW i \in 1 .. n
        PROVE  g[i] = IF i = 1 THEN ss[i] ELSE g[i - 1] \o ss[i]
    <3>1. CASE i = n
      <4>1. n # 1 => g[n - 1] = f[n - 1]
        BY <2>5, <2>2, <2>3, <1>0
      <4>2. g[n] = IF n = 1 THEN ss[n] ELSE f[n - 1] \o ss[n]
        BY <2>2, <2>3, <1>0
      <4> HIDE DEF g
      <4> QED
        BY <4>1, <4>2, <3>1
    <3>2. CASE i # n
      <4>1. i \in 1 .. n - 1 /\ g[i] = f[i]
        BY <3>2, <2>2, <1>0
      <4>2. f[i] = IF i = 1 THEN ss[i] ELSE f[i - 1] \o ss[i]
        BY <4>1, <2>4, Zenon
      <4>3. i # 1 => g[i - 1] = f[i - 1]
        BY <4>1, <2>5, <2>2, <1>0
      <4> HIDE DEF g
      <4> QED
        BY <4>1, <4>2, <4>3
    <3> QED
      BY <3>1, <3>2
  <2>7. Upto(g, n)
    <3>1. g = [i \in 1 .. n |-> g[i]]
      BY Zenon
    <3> HIDE DEF g
    <3> QED
      BY <2>6, <3>1
  <2> QED
    BY <2>2, <2>7
<1>2. \E f : Upto(f, Len(ss))
  <2> HIDE DEF Upto
  <2> QED
    BY <1>0, <1>1
<1> QED
  BY <1>2 DEF Prefix

\* What a sequence of sequences is flattened to has their members.
LEMMA Flatten ==
  ASSUME NEW X, NEW ss \in Seq(Seq(X))
  PROVE  /\ FlattenSeq(ss) \in Seq(X)
         /\ \A x : x \in Range(FlattenSeq(ss)) <=> \E j \in DOMAIN ss : x \in Range(ss[j])
<1>1. CASE Len(ss) = 0
  <2>1. FlattenSeq(ss) = ss /\ ss = <<>>
    BY <1>1 DEF FlattenSeq
  <2> QED
    BY <2>1 DEF Range
<1>2. CASE Len(ss) # 0
  <2> DEFINE f == CHOOSE f : f = Prefix(ss, f)
  <2>1. f = Prefix(ss, f)
    BY FlattenPrefix, Zenon
  <2>2. FlattenSeq(ss) = f[Len(ss)]
    BY <1>2, FlattenDef, Zenon
  <2> HIDE DEF f
  <2>3. \A i \in 1 .. Len(ss) : f[i] = IF i = 1 THEN ss[i] ELSE f[i - 1] \o ss[i]
    BY <2>1, Zenon DEF Prefix
  <2>4. Len(ss) \in Nat /\ DOMAIN ss = 1 .. Len(ss) /\ \A i \in 1 .. Len(ss) : ss[i] \in Seq(X)
    OBVIOUS
  <2> DEFINE Good(n) == /\ f[n] \in Seq(X)
                        /\ \A x : x \in Range(f[n]) <=> \E j \in 1 .. n : x \in Range(ss[j])
             Bad == {n \in 1 .. Len(ss) : ~ Good(n)}
  <2>5. Bad = {}
    <3> SUFFICES ASSUME Bad # {} PROVE FALSE
      OBVIOUS
    <3>1. PICK n \in Bad : \A k \in Bad : n <= k
      <4>1. Bad \in SUBSET Nat
        BY <2>4
      <4> QED
        BY <4>1, LeastNat
    <3>2. n \in 1 .. Len(ss) /\ ~ Good(n)
      OBVIOUS
    <3>3. CASE n = 1
      <4>1. f[1] = ss[1] /\ f[1] \in Seq(X)
        BY <2>3, <2>4, <3>2, <3>3
      <4>2. 1 .. 1 = {1}
        OBVIOUS
      <4>3. Good(1)
        BY <4>1, <4>2
      <4> QED
        BY <3>2, <3>3, <4>3
    <3>4. CASE n # 1
      <4>1. n - 1 \in 1 .. Len(ss) /\ ~ (n <= n - 1)
        BY <2>4, <3>2, <3>4
      <4>2. Good(n - 1)
        BY <4>1, <3>1
      <4>3. PICK a \in Seq(X) : a = f[n - 1]
        BY <4>2
      <4>4. PICK b \in Seq(X) : b = ss[n]
        BY <2>4, <3>2
      <4>5. f[n] = a \o b
        BY <2>3, <3>2, <3>4, <4>3, <4>4
      <4>6. a \o b \in Seq(X)
        OBVIOUS
      <4>7. \A x : x \in Range(a \o b) <=> x \in Range(a) \/ x \in Range(b)
        <5>1. DOMAIN a = 1 .. Len(a) /\ DOMAIN b = 1 .. Len(b) /\ Len(a) \in Nat /\ Len(b) \in Nat
          OBVIOUS
        <5>2. Len(a \o b) = Len(a) + Len(b) /\ DOMAIN (a \o b) = 1 .. Len(a) + Len(b)
          OBVIOUS
        <5>3. \A i \in 1 .. Len(a) + Len(b) : (a \o b)[i] = IF i <= Len(a) THEN a[i] ELSE b[i - Len(a)]
          OBVIOUS
        <5>4. ASSUME NEW i \in 1 .. Len(a) + Len(b)
              PROVE  (a \o b)[i] \in Range(a) \/ (a \o b)[i] \in Range(b)
          <6>1. CASE i <= Len(a)
            <7>1. i \in 1 .. Len(a) /\ (a \o b)[i] = a[i]
              BY <5>1, <5>3, <6>1
            <7> QED
              BY <7>1, <5>1 DEF Range
          <6>2. CASE ~ (i <= Len(a))
            <7>1. i - Len(a) \in 1 .. Len(b) /\ (a \o b)[i] = b[i - Len(a)]
              BY <5>1, <5>3, <6>2
            <7> QED
              BY <7>1, <5>1 DEF Range
          <6> QED
            BY <6>1, <6>2
        <5>5. ASSUME NEW i \in 1 .. Len(a) PROVE a[i] \in Range(a \o b)
          <6>1. i \in 1 .. Len(a) + Len(b) /\ (a \o b)[i] = a[i]
            BY <5>1, <5>3
          <6> QED
            BY <6>1, <5>2 DEF Range
        <5>6. ASSUME NEW i \in 1 .. Len(b) PROVE b[i] \in Range(a \o b)
          <6>1. i + Len(a) \in 1 .. Len(a) + Len(b) /\ (a \o b)[i + Len(a)] = b[i + Len(a) - Len(a)] /\ i + Len(a) - Len(a) = i
            BY <5>1, <5>3
          <6>2. (a \o b)[i + Len(a)] = b[i]
            BY <6>1
          <6> QED
            BY <6>1, <6>2, <5>2 DEF Range
        <5>7. Range(a \o b) = {(a \o b)[i] : i \in 1 .. Len(a) + Len(b)}
          BY <5>2 DEF Range
        <5>8. Range(a) = {a[i] : i \in 1 .. Len(a)} /\ Range(b) = {b[i] : i \in 1 .. Len(b)}
          BY <5>1 DEF Range
        <5> QED
          BY <5>4, <5>5, <5>6, <5>7, <5>8
      <4>8. \A j : j \in 1 .. n <=> j \in 1 .. n - 1 \/ j = n
        BY <3>2, <2>4
      <4>9. Good(n)
        <5>1. f[n] \in Seq(X)
          BY <4>5, <4>6
        <5>2. \A x : x \in Range(f[n]) <=> x \in Range(f[n - 1]) \/ x \in Range(ss[n])
          BY <4>3, <4>4, <4>5, <4>7
        <5> QED
          BY <4>2, <4>8, <5>1, <5>2
      <4> QED
        BY <4>9, <3>2
    <3> QED
      BY <3>3, <3>4
  <2>6. Good(Len(ss))
    <3>1. Len(ss) \in 1 .. Len(ss)
      BY <2>4, <1>2
    <3> HIDE DEF Good
    <3> QED
      BY <3>1, <2>5
  <2>7. FlattenSeq(ss) \in Seq(X)
    BY <2>2, <2>6
  <2>8. \A x : x \in Range(FlattenSeq(ss)) <=> \E j \in 1 .. Len(ss) : x \in Range(ss[j])
    BY <2>2, <2>6
  <2> QED
    BY <2>4, <2>7, <2>8
<1> QED
  BY <1>1, <1>2

IsJoined(X, q, a, b) ==
  /\ q \in Seq(X) /\ q = a \o b /\ Range(q) = Range(a) \cup Range(b)
  /\ \A i \in DOMAIN a : i \in DOMAIN q /\ q[i] = a[i]
  /\ \A i \in DOMAIN b : Len(a) + i \in DOMAIN q /\ q[Len(a) + i] = b[i]

\* Where the members of two sequences are when these are joined.
LEMMA JoinedAt ==
  ASSUME NEW X, NEW a \in Seq(X), NEW b \in Seq(X), NEW q, q = a \o b
  PROVE  /\ \A i \in DOMAIN a : i \in DOMAIN q /\ q[i] = a[i]
         /\ \A i \in DOMAIN b : Len(a) + i \in DOMAIN q /\ q[Len(a) + i] = b[i]
<1>1. PICK m \in Nat, n \in Nat : m = Len(a) /\ n = Len(b)
  OBVIOUS
<1>2. DOMAIN a = 1 .. m /\ DOMAIN b = 1 .. n
  BY <1>1
<1>3. DOMAIN q = 1 .. m + n /\ \A i \in 1 .. m + n : q[i] = IF i <= m THEN a[i] ELSE b[i - m]
  BY <1>1
<1>4. ASSUME NEW i \in DOMAIN a PROVE i \in DOMAIN q /\ q[i] = a[i]
  <2>1. i \in 1 .. m + n /\ i <= m
    BY <1>2
  <2> QED
    BY <1>3, <2>1
<1>5. ASSUME NEW i \in DOMAIN b PROVE m + i \in DOMAIN q /\ q[m + i] = b[i]
  <2>1. PICK k \in 1 .. m + n : k = m + i /\ ~ (k <= m) /\ k - m = i
    <3>1. i \in 1 .. n
      BY <1>2
    <3>2. m + i \in 1 .. m + n /\ ~ (m + i <= m) /\ m + i - m = i
      BY <3>1
    <3> QED
      BY <3>2
  <2>2. k \in DOMAIN q /\ q[k] = b[i]
    BY <1>3, <2>1
  <2> QED
    BY <2>1, <2>2
<1> QED
  BY <1>1, <1>4, <1>5

\* Two sequences joined have the members of both.
LEMMA Joined ==
  ASSUME NEW X, NEW a \in Seq(X), NEW b \in Seq(X)
  PROVE  \E q : IsJoined(X, q, a, b)
<1>1. PICK q : q = a \o b
  OBVIOUS
<1>2. q \in Seq(X)
  BY <1>1, ConcatProperties, Zenon
<1>3. Range(q) = Range(a) \cup Range(b)
  BY <1>1, RangeConcatenation
<1>4. /\ \A i \in DOMAIN a : i \in DOMAIN q /\ q[i] = a[i]
      /\ \A i \in DOMAIN b : Len(a) + i \in DOMAIN q /\ q[Len(a) + i] = b[i]
  BY <1>1, JoinedAt
<1> QED
  BY <1>1, <1>2, <1>3, <1>4, Zenon DEF IsJoined

\* Every place of a flattened sequence is a place of one of the sequences, which is
\* there as it was.
LEMMA FlattenParts ==
  ASSUME NEW X, NEW ss \in Seq(Seq(X))
  PROVE  \A m \in DOMAIN FlattenSeq(ss) : \E j \in DOMAIN ss, o \in Nat :
           /\ m - o \in DOMAIN ss[j]
           /\ \A i \in DOMAIN ss[j] : /\ o + i \in DOMAIN FlattenSeq(ss)
                                      /\ FlattenSeq(ss)[o + i] = ss[j][i]
<1>1. CASE Len(ss) = 0
  <2>1. FlattenSeq(ss) = ss /\ DOMAIN ss = {}
    BY <1>1 DEF FlattenSeq
  <2> QED
    BY <2>1
<1>2. CASE Len(ss) # 0
  <2> DEFINE f == CHOOSE f : f = Prefix(ss, f)
             Part(q, m, j, o) == /\ m - o \in DOMAIN ss[j]
                                 /\ \A i \in DOMAIN ss[j] : o + i \in DOMAIN q /\ q[o + i] = ss[j][i]
             Parts(q, n) == \A m \in DOMAIN q : \E j \in 1 .. n, o \in Nat : Part(q, m, j, o)
             Good(n) == f[n] \in Seq(X) /\ Parts(f[n], n)
             Bad == {n \in 1 .. Len(ss) : ~ Good(n)}
  <2>1. f = Prefix(ss, f)
    BY FlattenPrefix, Zenon
  <2>2. FlattenSeq(ss) = f[Len(ss)]
    BY <1>2, FlattenDef, Zenon
  <2> HIDE DEF f
  <2>3. \A i \in 1 .. Len(ss) : f[i] = IF i = 1 THEN ss[i] ELSE f[i - 1] \o ss[i]
    BY <2>1, Zenon DEF Prefix
  <2>4. Len(ss) \in Nat /\ DOMAIN ss = 1 .. Len(ss) /\ \A i \in 1 .. Len(ss) : ss[i] \in Seq(X)
    OBVIOUS
  <2>5. Bad = {}
    <3> SUFFICES ASSUME Bad # {} PROVE FALSE
      OBVIOUS
    <3>1. PICK n \in Bad : \A k \in Bad : n <= k
      <4>1. Bad \in SUBSET Nat
        BY <2>4
      <4> HIDE DEF Bad
      <4> QED
        BY <4>1, LeastNat
    <3>2. n \in 1 .. Len(ss) /\ ~ Good(n)
      OBVIOUS
    <3>3. CASE n = 1
      <4>1. f[1] = ss[1] /\ f[1] \in Seq(X)
        BY <2>3, <2>4, <3>2, <3>3
      <4>2. ASSUME NEW m \in DOMAIN f[1] PROVE Part(f[1], m, 1, 0)
        <5>1. PICK b \in Seq(X) : b = ss[1]
          BY <4>1
        <5>2. f[1] = b
          BY <4>1, <5>1
        <5>3. m - 0 = m /\ \A i \in DOMAIN b : 0 + i = i
          BY <4>2, <5>2
        <5> QED
          BY <5>1, <5>2, <5>3
      <4>3. 1 \in 1 .. 1 /\ 0 \in Nat
        OBVIOUS
      <4> HIDE DEF Part
      <4>4. Good(1)
        BY <4>1, <4>2, <4>3
      <4> QED
        BY <3>2, <3>3, <4>4
    <3>4. CASE n # 1
      <4>1. n - 1 \in 1 .. Len(ss) /\ ~ (n <= n - 1)
        BY <2>4, <3>2, <3>4
      <4>2. Good(n - 1)
        <5> HIDE DEF Good
        <5> QED
          BY <4>1, <3>1
      <4>3. PICK a \in Seq(X) : a = f[n - 1]
        BY <4>2
      <4>4. PICK b \in Seq(X) : b = ss[n]
        BY <2>4, <3>2
      <4>5. f[n] = a \o b
        BY <2>3, <3>2, <3>4, <4>3, <4>4
      <4>10. PICK q : IsJoined(X, q, a, b)
        BY <4>3, <4>4, Joined
      <4>6. q \in Seq(X) /\ q = a \o b
        BY <4>10, Zenon DEF IsJoined
      <4>7. /\ DOMAIN a = 1 .. Len(a) /\ DOMAIN b = 1 .. Len(b) /\ Len(a) \in Nat /\ Len(b) \in Nat
            /\ DOMAIN q = 1 .. Len(a) + Len(b)
            /\ \A i \in 1 .. Len(a) + Len(b) : q[i] = IF i <= Len(a) THEN a[i] ELSE b[i - Len(a)]
        BY <4>6
      <4>11. /\ \A i \in DOMAIN a : i \in DOMAIN q /\ q[i] = a[i]
             /\ \A i \in DOMAIN b : Len(a) + i \in DOMAIN q /\ q[Len(a) + i] = b[i]
        BY <4>10, Zenon DEF IsJoined
      <4>8. ASSUME NEW m \in DOMAIN q PROVE \E j \in 1 .. n, o \in Nat : Part(q, m, j, o)
        <5>1. CASE m <= Len(a)
          <6>1. m \in DOMAIN a
            BY <4>7, <4>8, <5>1
          <6>2. PICK j \in 1 .. n - 1, o \in Nat : Part(a, m, j, o)
            <7> HIDE DEF Part
            <7> QED
              BY <6>1, <4>2, <4>3
          <6>3. j \in 1 .. n
            BY <3>2, <2>4
          <6>4. ASSUME NEW i \in DOMAIN ss[j] PROVE o + i \in DOMAIN q /\ q[o + i] = ss[j][i]
            <7>1. o + i \in DOMAIN a /\ a[o + i] = ss[j][i]
              BY <6>2
            <7>2. o + i \in DOMAIN q /\ q[o + i] = a[o + i]
              BY <4>11, <7>1
            <7> QED
              BY <7>1, <7>2, Zenon
          <6>5. Part(q, m, j, o)
            BY <6>2, <6>4
          <6> HIDE DEF Part
          <6> QED
            BY <6>3, <6>5
        <5>2. CASE ~ (m <= Len(a))
          <6>1. m - Len(a) \in DOMAIN b
            BY <4>7, <4>8, <5>2
          <6>2. ASSUME NEW i \in DOMAIN b PROVE Len(a) + i \in DOMAIN q /\ q[Len(a) + i] = b[i]
            BY <4>11
          <6>3. Part(q, m, n, Len(a))
            <7>1. Len(a) \in Nat /\ ss[n] = b
              BY <4>4, <4>7
            <7> QED
              BY <7>1, <6>1, <6>2, Zenon
          <6>4. n \in 1 .. n
            BY <3>2, <2>4
          <6> HIDE DEF Part
          <6> QED
            BY <4>7, <6>3, <6>4
        <5> QED
          BY <5>1, <5>2
      <4> HIDE DEF Part
      <4>9. Good(n)
        BY <4>5, <4>6, <4>8
      <4> QED
        BY <4>9, <3>2
    <3> QED
      BY <3>3, <3>4
  <2>6. Good(Len(ss))
    <3>1. Len(ss) \in 1 .. Len(ss)
      BY <2>4, <1>2
    <3> HIDE DEF Good
    <3> QED
      BY <3>1, <2>5
  <2> HIDE DEF Part
  <2>7. Parts(FlattenSeq(ss), Len(ss))
    BY <2>2, <2>6
  <2> QED
    BY <2>4, <2>7 DEF Part
<1> QED
  BY <1>1, <1>2

\* The same, of the sequences that a function gives.
LEMMA FlattenOver ==
  ASSUME NEW X, NEW n \in Nat, NEW g \in [1 .. n -> Seq(X)]
  PROVE  /\ FlattenSeq(g) \in Seq(X)
         /\ \A x : x \in Range(FlattenSeq(g)) <=> \E j \in 1 .. n : x \in Range(g[j])
<1>1. g \in Seq(Seq(X)) /\ DOMAIN g = 1 .. n
  OBVIOUS
<1>2. /\ FlattenSeq(g) \in Seq(X)
      /\ \A x : x \in Range(FlattenSeq(g)) <=> \E j \in DOMAIN g : x \in Range(g[j])
  BY <1>1, Flatten, Zenon
<1> QED
  BY <1>1, <1>2, Zenon

-----------------------------------------------------------------------------
(* Types.                                                                  *)

Approximation(s) == [Parity -> SUBSET SUBSET Obs(s)]

Keys(s) == {BinaryKey(s, n, t, p, a, b) : n \in DOMAIN s.model, t \in {"VAL", "RHS", "LHS"},
                                          p \in Parity, a \in SUBSET Obs(s), b \in SUBSET Obs(s)}

\* What is known of an unknown ob is an approximation.
LEMMA UnknownType ==
  ASSUME NEW s, PartOfModel(s)
  PROVE  Unknown(s) \in Approximation(s)
<1>1. Above(s, s.TOP) \in SUBSET Obs(s) /\ Below(s, s.BOT) \in SUBSET Obs(s)
  BY DEF Above, Below
<1>2. PICK a \in SUBSET SUBSET Obs(s) : a = {Above(s, s.TOP)}
  BY <1>1
<1>3. PICK b \in SUBSET SUBSET Obs(s) : b = {Below(s, s.BOT)}
  BY <1>1
<1>4. PICK c \in SUBSET SUBSET Obs(s) : c = {{}}
  OBVIOUS
<1>5. Unknown(s) = [ABOVE |-> a, BELOW |-> b, NABOVE |-> c, NBELOW |-> c]
  BY <1>2, <1>3, <1>4 DEF Unknown
<1> QED
  BY <1>5 DEF Approximation, Parity

\* What is known of an ob of the structure is an approximation.
LEMMA KnownType ==
  ASSUME NEW s, NEW x
  PROVE  Known(s, x) \in Approximation(s)
<1>1. /\ Above(s, x) \in SUBSET Obs(s) /\ Below(s, x) \in SUBSET Obs(s)
      /\ NAbove(s, x) \in SUBSET Obs(s) /\ NBelow(s, x) \in SUBSET Obs(s)
  BY DEF Above, Below, NAbove, NBelow
<1>2. PICK a \in SUBSET SUBSET Obs(s) : a = {Above(s, x)}
  BY <1>1
<1>3. PICK b \in SUBSET SUBSET Obs(s) : b = {Below(s, x)}
  BY <1>1
<1>4. PICK c \in SUBSET SUBSET Obs(s) : c = {NAbove(s, x)}
  BY <1>1
<1>5. PICK d \in SUBSET SUBSET Obs(s) : d = {NBelow(s, x)}
  BY <1>1
<1>6. Known(s, x) = [ABOVE |-> a, BELOW |-> b, NABOVE |-> c, NBELOW |-> d]
  BY <1>2, <1>3, <1>4, <1>5 DEF Known
<1> QED
  BY <1>6 DEF Approximation, Parity

\* What a constant brings is an approximation, whether or not it is known.
LEMMA NullaryType ==
  ASSUME NEW s, NEW n, PartOfModel(s)
  PROVE  NullaryFunction(s, n) \in Approximation(s)
  BY UnknownType, KnownType DEF NullaryFunction

\* What LESS and NLESS tell their arguments are approximations.
LEMMA RelationTypes ==
  ASSUME NEW s, NEW a \in Approximation(s), PartOfModel(s)
  PROVE  /\ LessLhs(s, a) \in Approximation(s) /\ LessRhs(s, a) \in Approximation(s)
         /\ NLessLhs(s, a) \in Approximation(s) /\ NLessRhs(s, a) \in Approximation(s)
<1>1. PICK u \in Approximation(s) : u = Unknown(s)
  BY UnknownType
<1>2. a.ABOVE = a["ABOVE"] /\ a.BELOW = a["BELOW"] /\ a.NABOVE = a["NABOVE"] /\ a.NBELOW = a["NBELOW"]
  OBVIOUS
<1>3. \A p \in Parity : a[p] \in SUBSET SUBSET Obs(s)
  BY DEF Approximation
<1>4. LessLhs(s, a) \in Approximation(s)
  BY <1>1, <1>2, <1>3 DEF LessLhs, Approximation, Parity
<1>5. LessRhs(s, a) \in Approximation(s)
  BY <1>1, <1>2, <1>3 DEF LessRhs, Approximation, Parity
<1>6. NLessLhs(s, a) \in Approximation(s)
  BY <1>1, <1>2, <1>3 DEF NLessLhs, Approximation, Parity
<1>7. NLessRhs(s, a) \in Approximation(s)
  BY <1>1, <1>2, <1>3 DEF NLessRhs, Approximation, Parity
<1> QED
  BY <1>4, <1>5, <1>6, <1>7

\* The closure of a set of obs is a set of obs.
LEMMA ConvexType ==
  ASSUME NEW s, NEW obs, NEW up
  PROVE  Convex(s, obs, up) \in SUBSET Obs(s)
  BY DEF Convex, Above, Below

\* What the function behind a cache returns is a set of obs.
LEMMA BinaryType ==
  ASSUME NEW s, NEW k \in Keys(s), PartOfModel(s)
  PROVE  BinaryValue(s, k) \in SUBSET Obs(s)
<1>1. s.TOP \in Obs(s) /\ s.BOT \in Obs(s)
  BY DEF PartOfModel
<1>2. \A f, l, r, p : FunctionLhsRhs(s, f, l, r, p) \in SUBSET Obs(s)
  BY <1>1, ConvexType DEF FunctionLhsRhs
<1>3. \A f, l, r, p : FunctionLhsVal(s, f, l, r, p) \in SUBSET Obs(s)
  BY ConvexType DEF FunctionLhsVal
<1>4. \A f, l, r, p : FunctionRhsVal(s, f, l, r, p) \in SUBSET Obs(s)
  BY ConvexType DEF FunctionRhsVal
<1>5. k.target \in {"VAL", "RHS", "LHS"}
  BY DEF Keys, BinaryKey
<1> QED
  BY <1>2, <1>3, <1>4, <1>5 DEF BinaryValue

\* The keys that propagation asks for are keys.
LEMMA KeyType ==
  ASSUME NEW s, NEW n \in DOMAIN s.model, NEW t \in {"VAL", "RHS", "LHS"}, NEW p \in Parity,
         NEW a \in SUBSET Obs(s), NEW b \in SUBSET Obs(s)
  PROVE  BinaryKey(s, n, t, p, a, b) \in Keys(s)
  BY SMT DEF Keys

Messages(s, th) == [to : DOMAIN th, approx : Approximation(s)]

Searches(s, th) == [do : {"find"}, of : DOMAIN th, parity : Parity, key : SUBSET Keys(s)]

Finds(s, th) == {a \in Searches(s, th) : a.key # Pending}

\* What a constraint tells without asking a cache is a message of the theory.
LEMMA ToldType ==
  ASSUME NEW s, NEW th, PartOfModel(s), IsTheory(s, th),
         NEW st \in [DOMAIN th -> Approximation(s)], NEW i \in DOMAIN th
  PROVE  Told(s, th, st, i) \subseteq Messages(s, th)
<1> DEFINE e == th[i]
           l == e.args[1]
           r == e.args[2]
<1>1. ASSUME NEW j \in DOMAIN th, NEW a \in Approximation(s) PROVE Says(j, a) \in Messages(s, th)
  BY DEF Says, Messages
<1>2. CASE e.arity = "NULLARY_FUNCTION"
  <2>1. e.name \notin {"LESS", "NLESS"} /\ e.arity # "EQUAL"
    BY <1>2 DEF IsTheory
  <2>2. Told(s, th, st, i) = {Says(i, NullaryFunction(s, e.name))}
    BY <1>2, <2>1 DEF Told
  <2> QED
    BY <1>1, <2>2, NullaryType
<1>3. CASE e.name = "LESS"
  <2>1. e.arity = "BINARY_RELATION" /\ l \in DOMAIN th /\ r \in DOMAIN th
    BY <1>3 DEF IsTheory
  <2>2. Told(s, th, st, i) = {Says(l, LessRhs(s, st[r])), Says(r, LessLhs(s, st[l]))}
    BY <1>3, <2>1 DEF Told
  <2> QED
    BY <1>1, <2>1, <2>2, RelationTypes
<1>4. CASE e.name = "NLESS"
  <2>1. e.arity = "BINARY_RELATION" /\ l \in DOMAIN th /\ r \in DOMAIN th
    BY <1>4 DEF IsTheory
  <2>2. Told(s, th, st, i) = {Says(l, NLessRhs(s, st[r])), Says(r, NLessLhs(s, st[l]))}
    BY <1>4, <2>1 DEF Told
  <2> QED
    BY <1>1, <2>1, <2>2, RelationTypes
<1>5. CASE e.arity = "EQUAL"
  <2>1. e.name \notin {"LESS", "NLESS"} /\ l \in DOMAIN th /\ r \in DOMAIN th
    BY <1>5 DEF IsTheory
  <2>2. Told(s, th, st, i) = {Says(l, st[r]), Says(r, st[l])}
    BY <1>5, <2>1 DEF Told
  <2> QED
    BY <1>1, <2>1, <2>2
<1>6. CASE e.arity \notin {"NULLARY_FUNCTION", "EQUAL"} /\ e.name \notin {"LESS", "NLESS"}
  BY <1>6 DEF Told
<1> QED
  BY <1>2, <1>3, <1>4, <1>5, <1>6

\* What a constraint asks the caches for is a search of the theory.
LEMMA AsksType ==
  ASSUME NEW s, NEW th, PartOfModel(s), IsTheory(s, th),
         NEW st \in [DOMAIN th -> Approximation(s)], NEW i \in DOMAIN th
  PROVE  Asks(s, th, st, i) \in Seq(Searches(s, th))
<1> DEFINE e == th[i]
           l == e.args[1]
           r == e.args[2]
           Ask(to, target, p, x, y) ==
             [do |-> "find", of |-> to, parity |-> p,
              key |-> {BinaryKey(s, e.name, target, p, a, b) : a \in x, b \in y}]
<1>1. CASE ~ IsFunction(e)
  BY <1>1 DEF Asks
<1>2. CASE IsFunction(e)
  <2>1. l \in DOMAIN th /\ r \in DOMAIN th /\ e.name \in DOMAIN s.model
    BY <1>2 DEF IsTheory
  <2>2. \A j \in DOMAIN th : /\ st[j].ABOVE \in SUBSET SUBSET Obs(s) /\ st[j].BELOW \in SUBSET SUBSET Obs(s)
                             /\ st[j].NABOVE \in SUBSET SUBSET Obs(s) /\ st[j].NBELOW \in SUBSET SUBSET Obs(s)
    BY DEF Approximation, Parity
  <2>3. ASSUME NEW to \in DOMAIN th, NEW target \in {"VAL", "RHS", "LHS"}, NEW p \in Parity,
               NEW x \in SUBSET SUBSET Obs(s), NEW y \in SUBSET SUBSET Obs(s)
        PROVE  Ask(to, target, p, x, y) \in Searches(s, th)
    BY <2>1, KeyType DEF Searches
  <2> DEFINE a1 == Ask(i, "VAL", "ABOVE", st[l].ABOVE, st[r].ABOVE)
             a2 == Ask(i, "VAL", "BELOW", st[l].BELOW, st[r].BELOW)
             a3 == Ask(r, "RHS", "NABOVE", st[l].ABOVE, st[i].NABOVE)
             a4 == Ask(r, "RHS", "NBELOW", st[l].BELOW, st[i].NBELOW)
             a5 == Ask(l, "LHS", "NABOVE", st[r].ABOVE, st[i].NABOVE)
             a6 == Ask(l, "LHS", "NBELOW", st[r].BELOW, st[i].NBELOW)
  <2>4. Asks(s, th, st, i) = IF ~ IsFunction(e) THEN <<>> ELSE <<a1, a2, a3, a4, a5, a6>>
    BY DEF Asks
  <2> HIDE DEF Ask
  <2>5. /\ a1 \in Searches(s, th) /\ a2 \in Searches(s, th) /\ a3 \in Searches(s, th)
        /\ a4 \in Searches(s, th) /\ a5 \in Searches(s, th) /\ a6 \in Searches(s, th)
    BY <2>1, <2>2, <2>3 DEF Parity
  <2> HIDE DEF a1, a2, a3, a4, a5, a6
  <2> QED
    BY <1>2, <2>4, <2>5
<1> QED
  BY <1>1, <1>2

-----------------------------------------------------------------------------
(* Limits.  B gives every expression and parity a set of obs, and whatever *)
(* propagation makes of subsets of these sets is a subset, too.            *)

Under(B, i, p, bound) == \A S \in bound : S \subseteq B[i][p]

\* What the constraint of an expression lets through.
Respects(s, th, B, i) ==
  LET e == th[i]
      l == e.args[1]
      r == e.args[2]
      Lets(to, target, p, x, y) ==
        \A a \in SUBSET x, b \in SUBSET y :
          BinaryValue(s, BinaryKey(s, e.name, target, p, a, b)) \subseteq B[to][p]
  IN  /\ e.arity = "NULLARY_FUNCTION" =>
           \A p \in Parity : Under(B, i, p, NullaryFunction(s, e.name)[p])
      /\ e.name = "LESS" =>
           /\ B[r]["ABOVE"] \subseteq B[l]["ABOVE"] /\ B[r]["NBELOW"] \subseteq B[l]["NBELOW"]
           /\ B[l]["BELOW"] \subseteq B[r]["BELOW"] /\ B[l]["NABOVE"] \subseteq B[r]["NABOVE"]
      /\ e.name = "NLESS" =>
           B[r]["BELOW"] \subseteq B[l]["NABOVE"] /\ B[l]["ABOVE"] \subseteq B[r]["NBELOW"]
      /\ e.arity = "EQUAL" => \A p \in Parity : B[l][p] = B[r][p]
      /\ IsFunction(e) =>
           /\ Lets(i, "VAL", "ABOVE", B[l]["ABOVE"], B[r]["ABOVE"])
           /\ Lets(i, "VAL", "BELOW", B[l]["BELOW"], B[r]["BELOW"])
           /\ Lets(r, "RHS", "NABOVE", B[l]["ABOVE"], B[i]["NABOVE"])
           /\ Lets(r, "RHS", "NBELOW", B[l]["BELOW"], B[i]["NBELOW"])
           /\ Lets(l, "LHS", "NABOVE", B[r]["ABOVE"], B[i]["NABOVE"])
           /\ Lets(l, "LHS", "NBELOW", B[r]["BELOW"], B[i]["NBELOW"])

Limit(s, th, B) ==
  /\ \A i \in DOMAIN th, p \in Parity : Under(B, i, p, Unknown(s)[p])
  /\ \A i \in DOMAIN th : Respects(s, th, B, i)

Within(th, B, st) == \A i \in DOMAIN th, p \in Parity : Under(B, i, p, st[i][p])

\* What constraints tell, of states that are within a limit, is within it.
LEMMA ToldWithin ==
  ASSUME NEW s, NEW th, PartOfModel(s), IsTheory(s, th), NEW B, Limit(s, th, B),
         NEW st \in [DOMAIN th -> Approximation(s)], Within(th, B, st),
         NEW i \in DOMAIN th, NEW m \in Told(s, th, st, i), NEW p \in Parity
  PROVE  Under(B, m.to, p, m.approx[p])
<1> DEFINE e == th[i]
           l == e.args[1]
           r == e.args[2]
<1>1. \A j, a : Says(j, a).to = j /\ Says(j, a).approx = a
  BY DEF Says
<1>2. \A j \in DOMAIN th : Under(B, j, p, Unknown(s)[p])
  BY DEF Limit
<1>3. Respects(s, th, B, i)
  BY DEF Limit
<1>4. PICK u \in Approximation(s) : u = Unknown(s)
  BY UnknownType
<1>5. DOMAIN u = Parity
  BY DEF Approximation
<1>6. p \in {"ABOVE", "BELOW", "NABOVE", "NBELOW"}
  BY DEF Parity
<1>7. CASE e.arity = "NULLARY_FUNCTION"
  <2>1. e.name \notin {"LESS", "NLESS"} /\ e.arity # "EQUAL"
    BY <1>7 DEF IsTheory
  <2>2. Told(s, th, st, i) = {Says(i, NullaryFunction(s, e.name))}
    BY <1>7, <2>1 DEF Told
  <2>3. m.to = i /\ m.approx = NullaryFunction(s, e.name)
    BY <1>1, <2>2
  <2> QED
    BY <1>3, <1>7, <2>3 DEF Respects
<1>8. CASE e.name = "LESS"
  <2>1. e.arity = "BINARY_RELATION" /\ l \in DOMAIN th /\ r \in DOMAIN th
    BY <1>8 DEF IsTheory
  <2>2. Told(s, th, st, i) = {Says(l, LessRhs(s, st[r])), Says(r, LessLhs(s, st[l]))}
    BY <1>8, <2>1 DEF Told
  <2>3. /\ B[r]["ABOVE"] \subseteq B[l]["ABOVE"] /\ B[r]["NBELOW"] \subseteq B[l]["NBELOW"]
        /\ B[l]["BELOW"] \subseteq B[r]["BELOW"] /\ B[l]["NABOVE"] \subseteq B[r]["NABOVE"]
    BY <1>3, <1>8 DEF Respects
  <2>4. \A q \in Parity : Under(B, l, q, st[l][q]) /\ Under(B, r, q, st[r][q])
    BY <2>1 DEF Within
  <2>5. CASE m = Says(l, LessRhs(s, st[r]))
    <3>1. LessRhs(s, st[r])[p] = CASE p = "ABOVE" -> st[r]["ABOVE"] [] p = "NBELOW" -> st[r]["NBELOW"] [] OTHER -> u[p]
      BY <1>4, <1>5, <1>6 DEF LessRhs, Parity
    <3>2. Under(B, l, "ABOVE", st[r]["ABOVE"]) /\ Under(B, l, "NBELOW", st[r]["NBELOW"])
      BY <2>3, <2>4 DEF Under, Parity
    <3>3. Under(B, l, p, LessRhs(s, st[r])[p])
      BY <1>2, <1>4, <2>1, <3>1, <3>2
    <3> QED
      BY <1>1, <2>5, <3>3
  <2>6. CASE m = Says(r, LessLhs(s, st[l]))
    <3>1. LessLhs(s, st[l])[p] = CASE p = "BELOW" -> st[l]["BELOW"] [] p = "NABOVE" -> st[l]["NABOVE"] [] OTHER -> u[p]
      BY <1>4, <1>5, <1>6 DEF LessLhs, Parity
    <3>2. Under(B, r, "BELOW", st[l]["BELOW"]) /\ Under(B, r, "NABOVE", st[l]["NABOVE"])
      BY <2>3, <2>4 DEF Under, Parity
    <3>3. Under(B, r, p, LessLhs(s, st[l])[p])
      BY <1>2, <1>4, <2>1, <3>1, <3>2
    <3> QED
      BY <1>1, <2>6, <3>3
  <2> QED
    BY <2>2, <2>5, <2>6
<1>9. CASE e.name = "NLESS"
  <2>1. e.arity = "BINARY_RELATION" /\ l \in DOMAIN th /\ r \in DOMAIN th
    BY <1>9 DEF IsTheory
  <2>2. Told(s, th, st, i) = {Says(l, NLessRhs(s, st[r])), Says(r, NLessLhs(s, st[l]))}
    BY <1>9, <2>1 DEF Told
  <2>3. B[r]["BELOW"] \subseteq B[l]["NABOVE"] /\ B[l]["ABOVE"] \subseteq B[r]["NBELOW"]
    BY <1>3, <1>9 DEF Respects
  <2>4. \A q \in Parity : Under(B, l, q, st[l][q]) /\ Under(B, r, q, st[r][q])
    BY <2>1 DEF Within
  <2>5. CASE m = Says(l, NLessRhs(s, st[r]))
    <3>1. NLessRhs(s, st[r])[p] = IF p = "NABOVE" THEN st[r]["BELOW"] ELSE u[p]
      BY <1>4, <1>5, <1>6 DEF NLessRhs, Parity
    <3>2. Under(B, l, "NABOVE", st[r]["BELOW"])
      BY <2>3, <2>4 DEF Under, Parity
    <3>3. Under(B, l, p, NLessRhs(s, st[r])[p])
      BY <1>2, <1>4, <2>1, <3>1, <3>2
    <3> QED
      BY <1>1, <2>5, <3>3
  <2>6. CASE m = Says(r, NLessLhs(s, st[l]))
    <3>1. NLessLhs(s, st[l])[p] = IF p = "NBELOW" THEN st[l]["ABOVE"] ELSE u[p]
      BY <1>4, <1>5, <1>6 DEF NLessLhs, Parity
    <3>2. Under(B, r, "NBELOW", st[l]["ABOVE"])
      BY <2>3, <2>4 DEF Under, Parity
    <3>3. Under(B, r, p, NLessLhs(s, st[l])[p])
      BY <1>2, <1>4, <2>1, <3>1, <3>2
    <3> QED
      BY <1>1, <2>6, <3>3
  <2> QED
    BY <2>2, <2>5, <2>6
<1>10. CASE e.arity = "EQUAL"
  <2>1. e.name \notin {"LESS", "NLESS"} /\ l \in DOMAIN th /\ r \in DOMAIN th
    BY <1>10 DEF IsTheory
  <2>2. Told(s, th, st, i) = {Says(l, st[r]), Says(r, st[l])}
    BY <1>10, <2>1 DEF Told
  <2>3. B[l][p] = B[r][p]
    BY <1>3, <1>10 DEF Respects
  <2>4. Under(B, l, p, st[l][p]) /\ Under(B, r, p, st[r][p])
    BY <2>1 DEF Within
  <2>5. Under(B, l, p, st[r][p]) /\ Under(B, r, p, st[l][p])
    BY <2>3, <2>4 DEF Under
  <2> QED
    BY <1>1, <2>2, <2>5
<1>11. CASE e.arity \notin {"NULLARY_FUNCTION", "EQUAL"} /\ e.name \notin {"LESS", "NLESS"}
  BY <1>11 DEF Told
<1> QED
  BY <1>7, <1>8, <1>9, <1>10, <1>11

\* The answers to what constraints ask, of states within a limit, are within it.
LEMMA AsksWithin ==
  ASSUME NEW s, NEW th, PartOfModel(s), IsTheory(s, th), NEW B, Limit(s, th, B),
         NEW st \in [DOMAIN th -> Approximation(s)], Within(th, B, st),
         NEW i \in DOMAIN th, NEW q \in Range(Asks(s, th, st, i)), NEW k \in q.key
  PROVE  BinaryValue(s, k) \subseteq B[q.of][q.parity]
<1> DEFINE e == th[i]
           l == e.args[1]
           r == e.args[2]
           Ask(to, target, p, x, y) ==
             [do |-> "find", of |-> to, parity |-> p,
              key |-> {BinaryKey(s, e.name, target, p, a, b) : a \in x, b \in y}]
           Lets(to, target, p, x, y) ==
             \A a \in SUBSET x, b \in SUBSET y :
               BinaryValue(s, BinaryKey(s, e.name, target, p, a, b)) \subseteq B[to][p]
           Sub(x, X) == \A a \in x : a \subseteq X
           a1 == Ask(i, "VAL", "ABOVE", st[l].ABOVE, st[r].ABOVE)
           a2 == Ask(i, "VAL", "BELOW", st[l].BELOW, st[r].BELOW)
           a3 == Ask(r, "RHS", "NABOVE", st[l].ABOVE, st[i].NABOVE)
           a4 == Ask(r, "RHS", "NBELOW", st[l].BELOW, st[i].NBELOW)
           a5 == Ask(l, "LHS", "NABOVE", st[r].ABOVE, st[i].NABOVE)
           a6 == Ask(l, "LHS", "NBELOW", st[r].BELOW, st[i].NBELOW)
<1>1. Asks(s, th, st, i) = IF ~ IsFunction(e) THEN <<>> ELSE <<a1, a2, a3, a4, a5, a6>>
  BY DEF Asks
<1>2. ASSUME NEW to, NEW target, NEW p, NEW x, NEW y, NEW X, NEW Y,
             Sub(x, X), Sub(y, Y),
             Lets(to, target, p, X, Y), q = Ask(to, target, p, x, y)
      PROVE  BinaryValue(s, k) \subseteq B[q.of][q.parity]
  <2>1. q.of = to /\ q.parity = p
    BY <1>2
  <2>2. PICK a \in x, b \in y : k = BinaryKey(s, e.name, target, p, a, b)
    BY <1>2
  <2> QED
    BY <1>2, <2>1, <2>2
<1> HIDE DEF Ask, Lets, Sub
<1>3. IsFunction(e) /\ q \in {a1, a2, a3, a4, a5, a6}
  <2>1. Range(<<>>) = {} /\ Range(<<a1, a2, a3, a4, a5, a6>>) = {a1, a2, a3, a4, a5, a6}
    <3> HIDE DEF a1, a2, a3, a4, a5, a6
    <3> QED
      BY DEF Range
  <2> HIDE DEF a1, a2, a3, a4, a5, a6
  <2> QED
    BY <1>1, <2>1
<1>4. l \in DOMAIN th /\ r \in DOMAIN th
  BY <1>3 DEF IsTheory
<1>5. /\ Lets(i, "VAL", "ABOVE", B[l]["ABOVE"], B[r]["ABOVE"])
      /\ Lets(i, "VAL", "BELOW", B[l]["BELOW"], B[r]["BELOW"])
      /\ Lets(r, "RHS", "NABOVE", B[l]["ABOVE"], B[i]["NABOVE"])
      /\ Lets(r, "RHS", "NBELOW", B[l]["BELOW"], B[i]["NBELOW"])
      /\ Lets(l, "LHS", "NABOVE", B[r]["ABOVE"], B[i]["NABOVE"])
      /\ Lets(l, "LHS", "NBELOW", B[r]["BELOW"], B[i]["NBELOW"])
  <2>1. Respects(s, th, B, i)
    BY DEF Limit
  <2> QED
    BY <1>3, <2>1 DEF Respects, Lets
<1>6. \A j \in {i, l, r} : /\ Sub(st[j].ABOVE, B[j]["ABOVE"]) /\ Sub(st[j].BELOW, B[j]["BELOW"])
                           /\ Sub(st[j].NABOVE, B[j]["NABOVE"]) /\ Sub(st[j].NBELOW, B[j]["NBELOW"])
  BY <1>4 DEF Within, Under, Parity, Sub
<1>7. CASE q = a1
  BY <1>2, <1>5, <1>6, <1>7
<1>8. CASE q = a2
  BY <1>2, <1>5, <1>6, <1>8
<1>9. CASE q = a3
  BY <1>2, <1>5, <1>6, <1>9
<1>10. CASE q = a4
  BY <1>2, <1>5, <1>6, <1>10
<1>11. CASE q = a5
  BY <1>2, <1>5, <1>6, <1>11
<1>12. CASE q = a6
  BY <1>2, <1>5, <1>6, <1>12
<1> QED
  BY <1>3, <1>7, <1>8, <1>9, <1>10, <1>11, <1>12

-----------------------------------------------------------------------------
(* What is told and asked.                                                 *)

Bounds(s) == SUBSET SUBSET Obs(s)

Inboxes(s, th) == [DOMAIN th -> [Parity -> SUBSET Bounds(s)]]

\* A theory is a sequence.
LEMMA TheoryDomain ==
  ASSUME NEW s, NEW th, IsTheory(s, th)
  PROVE  Len(th) \in Nat /\ DOMAIN th = 1 .. Len(th)
  BY DEF IsTheory

\* An approximation has a bound for each parity.
LEMMA ApproximationParity ==
  ASSUME NEW s, NEW a \in Approximation(s), NEW p \in Parity
  PROVE  a[p] \in Bounds(s)
  BY DEF Approximation, Bounds

\* What an inbox has was told, or is pending.
LEMMA InboxHas ==
  ASSUME NEW s, NEW th, NEW st, NEW i \in DOMAIN th, NEW p \in Parity,
         NEW m \in Inbox(s, th, st)[i][p]
  PROVE  \/ m = Pending
         \/ \E j \in DOMAIN th : \E t \in Told(s, th, st, j) : t.to = i /\ m = t.approx[p]
<1> DEFINE told == UNION {Told(s, th, st, j) : j \in DOMAIN th}
           asks == UNION {Range(Asks(s, th, st, j)) : j \in DOMAIN th}
           here(j, q) == {t.approx[q] : t \in {t \in told : t.to = j}}
           wait(j, q) == {a.key : a \in {a \in asks : a.of = j /\ a.parity = q /\ a.key = Pending}}
           both(j, q) == here(j, q) \cup wait(j, q)
<1>1. Inbox(s, th, st) = [j \in DOMAIN th |-> [q \in Parity |-> both(j, q)]]
  BY DEF Inbox
<1>2. m \in both(i, p)
  <2> HIDE DEF both
  <2> QED
    BY <1>1
<1>3. m \in here(i, p) \/ m \in wait(i, p)
  BY <1>2
<1>4. CASE m \in here(i, p)
  <2>1. PICK t \in told : t.to = i /\ m = t.approx[p]
    BY <1>4
  <2> QED
    BY <2>1
<1>5. CASE m \in wait(i, p)
  BY <1>5
<1> QED
  BY <1>3, <1>4, <1>5

\* Every expression has an inbox, for each parity.
LEMMA InboxDomain ==
  ASSUME NEW s, NEW th, NEW st
  PROVE  \E F : Inbox(s, th, st) = [j \in DOMAIN th |-> [q \in Parity |-> F[j][q]]]
<1>1. PICK inb : inb = Inbox(s, th, st)
  OBVIOUS
<1>2. inb = [j \in DOMAIN th |-> [q \in Parity |-> inb[j][q]]]
  BY <1>1 DEF Inbox
<1> QED
  BY <1>1, <1>2

\* The first messages of a round are bounds.
LEMMA InboxType ==
  ASSUME NEW s, NEW th, PartOfModel(s), IsTheory(s, th),
         NEW st \in [DOMAIN th -> Approximation(s)]
  PROVE  Inbox(s, th, st) \in Inboxes(s, th)
<1>1. ASSUME NEW i \in DOMAIN th, NEW p \in Parity, NEW m \in Inbox(s, th, st)[i][p]
      PROVE  m \in Bounds(s)
  <2>1. CASE m = Pending
    BY <2>1 DEF Pending, Bounds
  <2>2. CASE m # Pending
    <3>1. PICK j \in DOMAIN th : \E t \in Told(s, th, st, j) : t.to = i /\ m = t.approx[p]
      BY <2>2, InboxHas
    <3>2. PICK t \in Told(s, th, st, j) : t.to = i /\ m = t.approx[p]
      BY <3>1
    <3>3. t.approx \in Approximation(s)
      BY ToldType DEF Messages
    <3> QED
      BY <3>2, <3>3, ApproximationParity
  <2> QED
    BY <2>1, <2>2
<1>2. PICK F : Inbox(s, th, st) = [j \in DOMAIN th |-> [q \in Parity |-> F[j][q]]]
  BY InboxDomain
<1>3. \A i \in DOMAIN th, p \in Parity : F[i][p] \in SUBSET Bounds(s)
  BY <1>1, <1>2
<1> QED
  BY <1>2, <1>3 DEF Inboxes

\* The first messages of a round, of states within a limit, are within it.
LEMMA InboxWithin ==
  ASSUME NEW s, NEW th, PartOfModel(s), IsTheory(s, th), NEW B, Limit(s, th, B),
         NEW st \in [DOMAIN th -> Approximation(s)], Within(th, B, st),
         NEW i \in DOMAIN th, NEW p \in Parity, NEW m \in Inbox(s, th, st)[i][p]
  PROVE  Under(B, i, p, m)
<1>1. CASE m = Pending
  BY <1>1 DEF Under, Pending
<1>2. CASE m # Pending
  <2>1. PICK j \in DOMAIN th : \E t \in Told(s, th, st, j) : t.to = i /\ m = t.approx[p]
    BY <1>2, InboxHas
  <2>2. PICK t \in Told(s, th, st, j) : t.to = i /\ m = t.approx[p]
    BY <2>1
  <2>3. Under(B, t.to, p, t.approx[p])
    BY ToldWithin
  <2> QED
    BY <2>2, <2>3
<1> QED
  BY <1>1, <1>2

\* The searches of a round are what the expressions ask, but for pending keys.
Found(s, th, st) == {a \in UNION {Range(Asks(s, th, st, i)) : i \in DOMAIN th} : a.key # Pending}

\* The agenda of a round is what constraints ask that is not pending.
LEMMA FindingHas ==
  ASSUME NEW th, PartOfModel(structure), IsTheory(structure, th),
         NEW st \in [DOMAIN th -> Approximation(structure)]
  PROVE  /\ Finding(th, st) \in Seq(Finds(structure, th))
         /\ \A a : a \in Range(Finding(th, st)) <=> a \in Found(structure, th, st)
<1> DEFINE Y == Searches(structure, th)
           X == Finds(structure, th)
           asks(i) == Asks(structure, th, st, i)
           known(i) == [a \in DOMAIN asks(i) |-> IfKnown(asks(i)[a])]
           g == [i \in DOMAIN th |-> FlattenSeq(known(i))]
<1>1. Finding(th, st) = FlattenSeq(g)
  BY DEF Finding, Each
<1>2. ASSUME NEW i \in DOMAIN th
      PROVE  /\ FlattenSeq(known(i)) \in Seq(X)
             /\ \A a : a \in Range(FlattenSeq(known(i))) <=> a \in Range(asks(i)) /\ a.key # Pending
  <2>1. PICK q \in Seq(Y) : q = asks(i)
    BY AsksType
  <2>2. PICK k : k = [a \in DOMAIN q |-> IfKnown(q[a])]
    OBVIOUS
  <2>3. known(i) = k
    BY <2>1, <2>2
  <2>4. DOMAIN q = 1 .. Len(q) /\ Len(q) \in Nat
    OBVIOUS
  <2>5. \A a \in DOMAIN q : IfKnown(q[a]) = IF q[a].key = Pending THEN <<>> ELSE <<q[a]>>
    BY DEF IfKnown
  <2>6. ASSUME NEW a \in DOMAIN q
        PROVE  /\ IfKnown(q[a]) \in Seq(X)
               /\ \A b : b \in Range(IfKnown(q[a])) <=> b = q[a] /\ b.key # Pending
    <3>1. \A b \in X : <<b>> \in Seq(X) /\ Range(<<b>>) = {b}
      BY DEF Range
    <3>2. <<>> \in Seq(X) /\ Range(<<>>) = {}
      BY DEF Range
    <3>3. CASE q[a].key = Pending
      BY <2>5, <3>2, <3>3
    <3>4. CASE q[a].key # Pending
      <4>1. IfKnown(q[a]) = <<q[a]>> /\ q[a] \in X
        BY <2>5, <3>4 DEF Finds
      <4> QED
        BY <3>1, <3>4, <4>1
    <3> QED
      BY <3>3, <3>4
  <2>7. k \in [1 .. Len(q) -> Seq(X)] /\ \A a \in 1 .. Len(q) : k[a] = IfKnown(q[a])
    BY <2>2, <2>4, <2>6
  <2>8. /\ FlattenSeq(k) \in Seq(X)
        /\ \A x : x \in Range(FlattenSeq(k)) <=> \E a \in 1 .. Len(q) : x \in Range(k[a])
    BY <2>4, <2>7, FlattenOver
  <2>9. \A x : x \in Range(q) <=> \E a \in 1 .. Len(q) : x = q[a]
    BY <2>4 DEF Range
  <2>10. ASSUME NEW x PROVE x \in Range(FlattenSeq(k)) <=> x \in Range(q) /\ x.key # Pending
    <3>1. \A a \in 1 .. Len(q) : x \in Range(k[a]) <=> x = q[a] /\ x.key # Pending
      BY <2>4, <2>6, <2>7
    <3>2. x \in Range(FlattenSeq(k)) <=> \E a \in 1 .. Len(q) : x = q[a] /\ x.key # Pending
      BY <2>8, <3>1
    <3>3. x \in Range(q) <=> \E a \in 1 .. Len(q) : x = q[a]
      BY <2>9
    <3> QED
      BY <3>2, <3>3, Zenon
  <2> QED
    BY <2>1, <2>3, <2>8, <2>10, Zenon
<1> HIDE DEF known
<1>3. g \in [1 .. Len(th) -> Seq(X)] /\ Len(th) \in Nat /\ DOMAIN th = 1 .. Len(th)
  BY <1>2, TheoryDomain
<1>4. /\ FlattenSeq(g) \in Seq(X)
      /\ \A x : x \in Range(FlattenSeq(g)) <=> \E i \in 1 .. Len(th) : x \in Range(g[i])
  <2> HIDE DEF g, X
  <2> QED
    BY <1>3, FlattenOver
<1>5. \A x : x \in Range(FlattenSeq(g)) <=> \E i \in DOMAIN th : x \in Range(asks(i)) /\ x.key # Pending
  BY <1>2, <1>3, <1>4
<1> QED
  BY <1>1, <1>4, <1>5 DEF Found

\* What an item of the agenda will add.
Allowed(s, B, a) ==
  /\ a.do = "find" => \A k \in a.key : BinaryValue(s, k) \subseteq B[a.of][a.parity]
  /\ a.do = "union" => Under(B, a.of, a.parity, a.key)

\* What a round is to find, of states within a limit, will be within it.
LEMMA FindingWithin ==
  ASSUME NEW th, PartOfModel(structure), IsTheory(structure, th), NEW B, Limit(structure, th, B),
         NEW st \in [DOMAIN th -> Approximation(structure)], Within(th, B, st),
         NEW a \in Range(Finding(th, st))
  PROVE  Allowed(structure, B, a)
<1>1. PICK i \in DOMAIN th : a \in Range(Asks(structure, th, st, i))
  BY FindingHas DEF Found
<1>2. \A k \in a.key : BinaryValue(structure, k) \subseteq B[a.of][a.parity]
  BY <1>1, AsksWithin
<1>3. a.do = "find"
  <2>1. PICK q \in Seq(Searches(structure, th)) : q = Asks(structure, th, st, i)
    BY AsksType
  <2>2. a \in Searches(structure, th)
    BY <1>1, <2>1 DEF Range
  <2> QED
    BY <2>2 DEF Searches
<1> QED
  BY <1>2, <1>3 DEF Allowed

-----------------------------------------------------------------------------
(* The invariant.                                                          *)

Joins          == [do : {"union"}, of : DOMAIN theory, parity : Parity, key : Bounds(structure)]
Adoptions      == [do : {"adopt"}, of : DOMAIN theory, parity : {""}, key : {{}}]
Judgements(th) == [do : {"disjoint"}, of : DOMAIN th, parity : {"ABOVE", "BELOW"}, key : {{}}]
Updates        == Joins \cup Adoptions \cup Judgements(theory)

Busy == stage \in {"propagate", "update"}

SessionOK ==
  /\ PartOfModel(structure)
  /\ requests \in Seq(Range(requests))
  /\ \A r \in Range(requests) : IsTheory(structure, ParseTheory(r.facts))

TheoryOK ==
  /\ stage \in {"idle", "propagate", "update", "conclude"}
  /\ stage = "idle" => theory = <<>>
  /\ stage # "idle" => requests # <<>> /\ theory = ParseTheory(Head(requests).facts)
  /\ IsTheory(structure, theory)

Single(bound) == \A S, T \in bound : S = T

StatesOK ==
  /\ states \in [DOMAIN theory -> Approximation(structure)]
  /\ \A i \in DOMAIN theory, p \in Parity : Single(states[i][p])
  /\ Busy => inbox \in Inboxes(structure, theory)
  /\ valid \in {{}, {TRUE}, {FALSE}}

AgendaOK ==
  /\ stage = "idle" => agenda = <<>>
  /\ stage = "propagate" => agenda \in Seq(Finds(structure, theory))
  /\ stage = "update" => agenda \in Seq(Updates)
  /\ stage = "conclude" => agenda \in Seq(Judgements(theory))

Joining(a, i, p) == a.do = "union" /\ a.of = i /\ a.parity = p

Fusions == [i \in DOMAIN theory |-> [p \in Parity |-> Fused(i, p)]]

\* Until a state is adopted, what is more than one set is to be united before.
Prepared(q, fusions) ==
  \A m \in DOMAIN q : q[m].do = "adopt" =>
    \A p \in Parity : \/ Single(fusions[q[m].of][p])
                      \/ \E k \in 1 .. m - 1 : Joining(q[k], q[m].of, p)

Ready == stage = "update" => Prepared(agenda, Fusions)

\* What a cache has for a key is the value of the key, unless it is pending.
CacheRight ==
  /\ DOMAIN cache = {"binary", "union", "disjoint"}
  /\ \A c \in DOMAIN cache : \A k \in DOMAIN cache[c] :
       cache[c][k] \in {Pending, {Value(structure, [cache |-> c, key |-> k])}}

Clashes(th, B) ==
  \E i \in DOMAIN th : \/ B[i]["ABOVE"] \cap B[i]["NABOVE"] # {}
                       \/ B[i]["BELOW"] \cap B[i]["NBELOW"] # {}

Heard(B) ==
  Busy => \A i \in DOMAIN theory, p \in Parity : \A m \in inbox[i][p] : Under(B, i, p, m)

Due(B) == \A a \in Range(agenda) : Allowed(structure, B, a)

\* A limit contains whatever is known, told or on its way.
LimitHolds(B) ==
  Limit(structure, theory, B) =>
    /\ Within(theory, B, states) /\ Heard(B) /\ Due(B)
    /\ valid = {FALSE} => Clashes(theory, B)

LimitsHold == \A B : LimitHolds(B)

ReplyRight ==
  reply.result = {FALSE} =>
    /\ IsTheory(structure, ParseTheory(reply.facts))
    /\ \A B : Limit(structure, ParseTheory(reply.facts), B) => Clashes(ParseTheory(reply.facts), B)

ShapeOK == SessionOK /\ TheoryOK /\ StatesOK /\ AgendaOK /\ Ready /\ CacheRight

Inv == ShapeOK /\ LimitsHold /\ ReplyRight

-----------------------------------------------------------------------------
(* The caches.                                                             *)

\* A worker that stores a value leaves the caches right.
LEMMA CacheStore ==
  ASSUME CacheRight, Store
  PROVE  CacheRight'
<1>1. PICK i \in DOMAIN queue :
        cache' = [cache EXCEPT ![queue[i].cache][queue[i].key] = {Value(structure, queue[i])}]
  BY DEF Store
<1>2. PICK c0, k0 : c0 = queue[i].cache /\ k0 = queue[i].key
  OBVIOUS
<1>3. PICK v0 : v0 = {Value(structure, queue[i])}
  OBVIOUS
<1>4. cache' = [cache EXCEPT ![c0][k0] = v0]
  BY <1>1, <1>2, <1>3
<1>5. v0 = {Value(structure, [cache |-> c0, key |-> k0])}
  BY <1>2, <1>3 DEF Value
<1>6. structure' = structure
  BY DEF Store
<1>7. DOMAIN cache' = DOMAIN cache /\ \A c \in DOMAIN cache : DOMAIN cache'[c] = DOMAIN cache[c]
  BY <1>4
<1>8. \A c \in DOMAIN cache : \A k \in DOMAIN cache[c] :
        cache'[c][k] = IF c = c0 /\ k = k0 THEN v0 ELSE cache[c][k]
  BY <1>4
<1>9. ASSUME NEW c \in DOMAIN cache, NEW k \in DOMAIN cache[c]
      PROVE  cache'[c][k] \in {Pending, {Value(structure, [cache |-> c, key |-> k])}}
  <2>1. cache[c][k] \in {Pending, {Value(structure, [cache |-> c, key |-> k])}}
    BY DEF CacheRight
  <2>2. CASE c = c0 /\ k = k0
    BY <1>5, <1>8, <2>2
  <2>3. CASE ~ (c = c0 /\ k = k0)
    BY <1>8, <2>1, <2>3
  <2> QED
    BY <2>2, <2>3
<1> QED
  BY <1>6, <1>7, <1>9 DEF CacheRight

\* A key that is new to a cache is pending there: the caches stay right.
LEMMA CacheFind ==
  ASSUME CacheRight, structure' = structure, NEW c \in {"binary", "union", "disjoint"}, NEW k, TryFind(c, k)
  PROVE  CacheRight'
<1>1. CASE k \in DOMAIN cache[c]
  BY <1>1 DEF TryFind, CacheRight, pool
<1>2. CASE k \notin DOMAIN cache[c]
  <2>1. PICK new : new = Scheduled(cache[c], k)
    OBVIOUS
  <2>2. cache' = [cache EXCEPT ![c] = new]
    BY <1>2, <2>1 DEF TryFind
  <2>3. DOMAIN cache' = DOMAIN cache /\ c \in DOMAIN cache
    BY <2>2 DEF CacheRight
  <2>4. \A d \in DOMAIN cache : cache'[d] = IF d = c THEN new ELSE cache[d]
    BY <2>2
  <2>5. DOMAIN new = DOMAIN cache[c] \cup {k} /\ \A x \in DOMAIN new : new[x] = IF x = k THEN Pending ELSE cache[c][x]
    BY <2>1 DEF Scheduled
  <2>6. ASSUME NEW d \in DOMAIN cache, NEW x \in DOMAIN cache'[d]
        PROVE  cache'[d][x] \in {Pending, {Value(structure, [cache |-> d, key |-> x])}}
    <3>1. CASE d # c
      BY <2>4, <3>1 DEF CacheRight
    <3>2. CASE d = c /\ x = k
      BY <2>3, <2>4, <2>5, <3>2
    <3>3. CASE d = c /\ x # k
      <4>1. x \in DOMAIN cache[c] /\ cache'[d][x] = cache[c][x]
        BY <2>3, <2>4, <2>5, <3>3
      <4> QED
        BY <2>3, <3>3, <4>1 DEF CacheRight
    <3> QED
      BY <3>1, <3>2, <3>3
  <2> QED
    BY <2>3, <2>6 DEF CacheRight
<1> QED
  BY <1>1, <1>2

\* What a search, a union or a comparison takes from its cache.
LEMMA CachedRight ==
  ASSUME CacheRight, NEW k
  PROVE  /\ Cached("binary", k) \in {Pending, {BinaryValue(structure, k)}}
         /\ Cached("union", k) \in {Pending, {UNION k}}
         /\ Cached("disjoint", k) \in {Pending, {\A a, b \in k : a # b => a \cap b = {}}}
<1>1. \A c \in {"binary", "union", "disjoint"} :
        Cached(c, k) \in {Pending, {Value(structure, [cache |-> c, key |-> k])}}
  BY DEF CacheRight, Cached
<1>2. Value(structure, [cache |-> "binary", key |-> k]) = BinaryValue(structure, k)
  BY DEF Value
<1>3. Value(structure, [cache |-> "union", key |-> k]) = UNION k
  BY DEF Value
<1>4. Value(structure, [cache |-> "disjoint", key |-> k]) = (\A a, b \in k : a # b => a \cap b = {})
  BY DEF Value
<1> QED
  BY <1>1, <1>2, <1>3, <1>4

-----------------------------------------------------------------------------
(* Fusing.                                                                 *)

\* The bounds of a structure are finite.
LEMMA BoundFinite ==
  ASSUME NEW s, PartOfModel(s), NEW b \in Bounds(s)
  PROVE  IsFiniteSet(b)
<1>1. IsFiniteSet(Obs(s))
  <2>1. s.dim \in Nat
    BY DEF PartOfModel
  <2>2. 1 \in Int /\ s.dim \in Int
    BY <2>1
  <2> QED
    BY <2>2, FS_Interval DEF Obs
<1>2. IsFiniteSet(SUBSET Obs(s))
  BY <1>1, FS_SUBSET
<1> QED
  BY <1>2, FS_Subset DEF Bounds

\* A bound of less than two sets is single.
LEMMA FewSingle ==
  ASSUME NEW s, PartOfModel(s), NEW b \in Bounds(s), Cardinality(b) < 2
  PROVE  Single(b)
<1>1. IsFiniteSet(b) /\ Cardinality(b) \in Nat
  BY BoundFinite, FS_CardinalityType
<1>2. Cardinality(b) = 0 \/ Cardinality(b) = 1
  BY <1>1
<1>3. b = {} \/ \E x : b = {x}
  BY <1>1, <1>2, FS_EmptySet, FS_Singleton
<1> QED
  BY <1>3 DEF Single

\* What is known of an unknown ob are single sets.
LEMMA UnknownSingle ==
  ASSUME NEW s, NEW p \in Parity
  PROVE  Single(Unknown(s)[p])
<1>1. \E x : Unknown(s)[p] = {x}
  <2>1. PICK a, b : a = Above(s, s.TOP) /\ b = Below(s, s.BOT)
    OBVIOUS
  <2>2. Unknown(s) = [ABOVE |-> {a}, BELOW |-> {b}, NABOVE |-> {{}}, NBELOW |-> {{}}]
    BY <2>1 DEF Unknown
  <2>3. /\ Unknown(s)["ABOVE"] = {a} /\ Unknown(s)["BELOW"] = {b}
        /\ Unknown(s)["NABOVE"] = {{}} /\ Unknown(s)["NBELOW"] = {{}}
    BY <2>2
  <2> QED
    BY <2>3 DEF Parity
<1> QED
  BY <1>1 DEF Single

Fusion(s, heard, p) ==
  IF Pending \in heard THEN Pending
  ELSE IF Sets(s, heard, p) = {} THEN Unknown(s)[p] ELSE Sets(s, heard, p)

\* Fused, of what was heard.
LEMMA FusedIs ==
  ASSUME NEW i, NEW p
  PROVE  Fused(i, p) = Fusion(structure, inbox[i][p], p)
  BY DEF Fused, Fusion

\* What is fused of bounds is a bound.
LEMMA FusionType ==
  ASSUME NEW s, PartOfModel(s), NEW p \in Parity, NEW heard \in SUBSET Bounds(s)
  PROVE  Fusion(s, heard, p) \in Bounds(s)
<1>1. Sets(s, heard, p) \in Bounds(s)
  BY DEF Sets, Bounds
<1>2. Unknown(s)[p] \in Bounds(s) /\ Pending \in Bounds(s)
  BY UnknownType, ApproximationParity DEF Pending, Bounds
<1> QED
  BY <1>1, <1>2 DEF Fusion

\* What is fused of an inbox is a bound.
LEMMA FusedType ==
  ASSUME PartOfModel(structure), inbox \in Inboxes(structure, theory),
         NEW i \in DOMAIN theory, NEW p \in Parity
  PROVE  Fused(i, p) \in Bounds(structure)
<1>1. PICK heard : heard = inbox[i][p]
  OBVIOUS
<1>2. heard \in SUBSET Bounds(structure)
  BY <1>1 DEF Inboxes
<1> QED
  BY <1>1, <1>2, FusionType, FusedIs

\* What is fused of messages within a limit is within it.
LEMMA FusedWithin ==
  ASSUME PartOfModel(structure), NEW B, Limit(structure, theory, B), Busy, Heard(B),
         NEW i \in DOMAIN theory, NEW p \in Parity
  PROVE  Under(B, i, p, Fused(i, p))
<1>1. PICK heard : heard = inbox[i][p]
  OBVIOUS
<1>2. \A m \in heard : Under(B, i, p, m)
  BY <1>1 DEF Heard
<1>3. Under(B, i, p, Sets(structure, heard, p))
  BY <1>2 DEF Sets, Under
<1>4. Under(B, i, p, Unknown(structure)[p]) /\ Under(B, i, p, Pending)
  BY DEF Limit, Under, Pending
<1> QED
  BY <1>1, <1>3, <1>4, FusedIs DEF Fusion

\* What is heard as one bound of one set is fused to one set.
LEMMA FusionOne ==
  ASSUME NEW s, NEW p \in Parity, NEW bound, NEW heard \in SUBSET {bound}, Single(bound)
  PROVE  Single(Fusion(s, heard, p))
<1>1. Single(Sets(s, heard, p))
  <2>1. UNION heard \subseteq bound
    OBVIOUS
  <2> QED
    BY <2>1 DEF Sets, Single
<1>2. Single(Pending) /\ Single(Unknown(s)[p])
  BY UnknownSingle DEF Pending, Single
<1> QED
  BY <1>1, <1>2 DEF Fusion

\* An agenda whose head is no union, or was done, stays prepared without it.
LEMMA PreparedTail ==
  ASSUME NEW X, NEW q \in Seq(X), q # <<>>, NEW D, \A a \in X : a.of \in D, NEW F, NEW G, Prepared(q, F),
         \A i \in D, p \in Parity : Single(F[i][p]) \/ Joining(Head(q), i, p) => Single(G[i][p])
  PROVE  Prepared(Tail(q), G)
<1>1. PICK t : t = Tail(q)
  OBVIOUS
<1>2. ASSUME NEW m \in DOMAIN t, t[m].do = "adopt", NEW p \in Parity, ~ Single(G[t[m].of][p])
      PROVE  \E k \in 1 .. m - 1 : Joining(t[k], t[m].of, p)
  <2>1. t \in Seq(X) /\ DOMAIN t = 1 .. Len(t) /\ Len(t) \in Nat /\ DOMAIN q = 1 .. Len(t) + 1
    BY <1>1
  <2>2. \A n \in 1 .. Len(t) : t[n] = q[n + 1]
    BY <1>1, <2>1
  <2>3. m \in Nat /\ m + 1 \in DOMAIN q /\ t[m] = q[m + 1] /\ q[m + 1] \in X
    BY <2>1, <2>2
  <2>4. ~ Single(F[q[m + 1].of][p])
    BY <1>2, <2>3
  <2>5. PICK k \in 1 .. m + 1 - 1 : Joining(q[k], q[m + 1].of, p)
    BY <1>2, <2>3, <2>4 DEF Prepared
  <2>6. k # 1
    <3>1. Head(q) = q[1]
      OBVIOUS
    <3> QED
      BY <1>2, <2>3, <2>5, <3>1
  <2>7. k - 1 \in 1 .. m - 1 /\ k - 1 \in 1 .. Len(t) /\ k - 1 + 1 = k
    BY <2>1, <2>3, <2>5, <2>6
  <2>8. t[k - 1] = q[k]
    BY <2>2, <2>7
  <2> QED
    BY <2>3, <2>5, <2>7, <2>8
<1> QED
  BY <1>1, <1>2 DEF Prepared

\* Judgements before the rest of an agenda leave it prepared.
LEMMA PreparedPrefix ==
  ASSUME NEW X, NEW a \in Seq(X), NEW b \in Seq(X), NEW F, Prepared(b, F),
         \A x \in Range(a) : x.do # "adopt"
  PROVE  Prepared(a \o b, F)
<1>1. PICK q \in Seq(X) : q = a \o b
  BY ConcatProperties
<1>2. /\ DOMAIN a = 1 .. Len(a) /\ DOMAIN b = 1 .. Len(b) /\ Len(a) \in Nat /\ Len(b) \in Nat
      /\ DOMAIN q = 1 .. Len(a) + Len(b)
      /\ \A i \in 1 .. Len(a) + Len(b) : q[i] = IF i <= Len(a) THEN a[i] ELSE b[i - Len(a)]
  BY <1>1
<1>3. ASSUME NEW m \in DOMAIN q, q[m].do = "adopt", NEW p \in Parity, ~ Single(F[q[m].of][p])
      PROVE  \E k \in 1 .. m - 1 : Joining(q[k], q[m].of, p)
  <2>1. ~ (m <= Len(a))
    <3>1. SUFFICES ASSUME m <= Len(a) PROVE FALSE
      OBVIOUS
    <3>2. m \in DOMAIN a /\ q[m] = a[m]
      BY <1>2, <3>1
    <3> QED
      BY <1>3, <3>2 DEF Range
  <2>2. PICK n \in DOMAIN b : n = m - Len(a) /\ q[m] = b[n]
    BY <1>2, <2>1
  <2>3. PICK k \in 1 .. n - 1 : Joining(b[k], b[n].of, p)
    BY <1>3, <2>2 DEF Prepared
  <2>4. Len(a) + k \in 1 .. m - 1 /\ k \in DOMAIN b
    BY <1>2, <2>2, <2>3
  <2>5. q[Len(a) + k] = b[k]
    BY <1>1, <2>4, JoinedAt
  <2>6. Joining(q[Len(a) + k], q[m].of, p)
    BY <2>2, <2>3, <2>5
  <2> QED
    BY <2>4, <2>6, Zenon
<1> QED
  BY <1>1, <1>3 DEF Prepared

Join(i, p) == Op("union", i, p, Fused(i, p))

\* The unions of an expression are of the parities that have several sets.
LEMMA UnionsHas ==
  ASSUME PartOfModel(structure), inbox \in Inboxes(structure, theory), NEW i \in DOMAIN theory
  PROVE  /\ Unions(i) \in Seq(Joins)
         /\ \A a : a \in Range(Unions(i)) <=> \E p \in Parity : a = Join(i, p) /\ ~ (Cardinality(Fused(i, p)) < 2)
<1> DEFINE Of(p) == IF Cardinality(Fused(i, p)) < 2 THEN <<>> ELSE <<Join(i, p)>>
<1>1. ASSUME NEW p \in Parity
      PROVE  /\ Of(p) \in Seq(Joins)
             /\ \A a : a \in Range(Of(p)) <=> a = Join(i, p) /\ ~ (Cardinality(Fused(i, p)) < 2)
  <2>1. Join(i, p) \in Joins
    BY FusedType DEF Join, Op, Joins
  <2>2. PICK x \in Joins : x = Join(i, p)
    BY <2>1
  <2>3. <<x>> \in Seq(Joins) /\ Range(<<x>>) = {x} /\ <<>> \in Seq(Joins) /\ Range(<<>>) = {}
    BY DEF Range
  <2> QED
    BY <2>2, <2>3
<1>2. Unions(i) = Of("ABOVE") \o Of("BELOW") \o Of("NABOVE") \o Of("NBELOW")
  BY DEF Unions, Join
<1> HIDE DEF Of
<1>3. PICK a \in Seq(Joins), b \in Seq(Joins), c \in Seq(Joins), d \in Seq(Joins) :
        a = Of("ABOVE") /\ b = Of("BELOW") /\ c = Of("NABOVE") /\ d = Of("NBELOW")
  BY <1>1 DEF Parity
<1>4. PICK u : IsJoined(Joins, u, a, b)
  BY <1>3, Joined
<1>5. u \in Seq(Joins)
  BY <1>4 DEF IsJoined
<1>6. PICK v : IsJoined(Joins, v, u, c)
  BY <1>3, <1>5, Joined
<1>7. v \in Seq(Joins)
  BY <1>6 DEF IsJoined
<1>8. PICK w : IsJoined(Joins, w, v, d)
  BY <1>3, <1>7, Joined
<1>9. w \in Seq(Joins) /\ Unions(i) = w
  BY <1>2, <1>3, <1>4, <1>6, <1>8 DEF IsJoined
<1>10. \A x : x \in Range(w) <=> x \in Range(a) \/ x \in Range(b) \/ x \in Range(c) \/ x \in Range(d)
  <2>1. /\ Range(u) = Range(a) \cup Range(b)
        /\ Range(v) = Range(u) \cup Range(c)
        /\ Range(w) = Range(v) \cup Range(d)
    BY <1>4, <1>6, <1>8 DEF IsJoined
  <2> QED
    BY <2>1
<1>11. \A x : x \in Range(w) <=> \E p \in Parity : x \in Range(Of(p))
  BY <1>3, <1>10 DEF Parity
<1> QED
  BY <1>1, <1>9, <1>11

\* The agenda of an expression is of updates, and is prepared.
LEMMA UpdatingHas ==
  ASSUME PartOfModel(structure), inbox \in Inboxes(structure, theory), NEW i \in DOMAIN theory
  PROVE  /\ Updating(i) \in Seq(Updates)
         /\ \A a \in Range(Updating(i)) : a.of = i
         /\ \A a \in Range(Updating(i)) : a.do = "union" => \E p \in Parity : a = Join(i, p)
         /\ \A n \in DOMAIN Updating(i) : Updating(i)[n].do = "adopt" =>
              \A p \in Parity : \/ Single(Fused(i, p))
                                \/ \E k \in DOMAIN Updating(i) : k < n /\ Joining(Updating(i)[k], i, p)
<1> DEFINE adopt == Op("adopt", i, "", {})
<1>1. PICK q \in Seq(Joins) : q = Unions(i)
  BY UnionsHas
<1>2. \A a : a \in Range(q) <=> \E p \in Parity : a = Join(i, p) /\ ~ (Cardinality(Fused(i, p)) < 2)
  BY <1>1, UnionsHas
<1>3. CASE Updating(i) = <<>>
  <2>1. Range(<<>>) = {} /\ DOMAIN <<>> = {} /\ <<>> \in Seq(Updates)
    BY DEF Range
  <2> QED
    BY <1>3, <2>1
<1>4. CASE Updating(i) # <<>>
  <2>1. Updating(i) = Append(q, adopt)
    BY <1>1, <1>4 DEF Updating
  <2>2. adopt \in Adoptions
    BY DEF Op, Adoptions
  <2>3. q \in Seq(Updates) /\ adopt \in Updates
    <3>1. Joins \subseteq Updates /\ adopt \in Updates
      BY <2>2 DEF Updates
    <3> QED
      BY <3>1, SeqMonotonic
  <2>4. adopt.do = "adopt" /\ adopt.of = i
    BY DEF Op
  <2> HIDE DEF adopt
  <2>5. PICK u \in Seq(Updates) : u = Append(q, adopt)
    BY <2>3, AppendProperties
  <2>6. /\ Len(q) \in Nat /\ DOMAIN q = 1 .. Len(q) /\ DOMAIN u = 1 .. Len(q) + 1
        /\ \A n \in 1 .. Len(q) : u[n] = q[n]
        /\ u[Len(q) + 1] = adopt
    BY <2>3, <2>5
  <2>7. \A n \in DOMAIN u : n \in 1 .. Len(q) \/ n = Len(q) + 1
    BY <2>6
  <2>8. ASSUME NEW a \in Range(u) PROVE a = adopt \/ \E p \in Parity : a = Join(i, p)
    <3>1. PICK n \in DOMAIN u : a = u[n]
      BY DEF Range
    <3>2. CASE n \in 1 .. Len(q)
      <4>1. a \in Range(q)
        BY <2>6, <3>1, <3>2 DEF Range
      <4> QED
        BY <1>2, <4>1
    <3>3. CASE n = Len(q) + 1
      BY <2>6, <3>1, <3>3
    <3> QED
      BY <2>7, <3>2, <3>3
  <2>9. \A p \in Parity : Join(i, p).of = i /\ Join(i, p).do = "union" /\ Join(i, p).parity = p
    BY DEF Join, Op
  <2>10. \A a \in Range(u) : a.of = i /\ (a.do = "union" => \E p \in Parity : a = Join(i, p))
    BY <2>4, <2>8, <2>9
  <2>11. ASSUME NEW n \in DOMAIN u, u[n].do = "adopt", NEW p \in Parity, ~ Single(Fused(i, p))
         PROVE  \E k \in DOMAIN u : k < n /\ Joining(u[k], i, p)
    <3>1. n = Len(q) + 1
      <4>1. SUFFICES ASSUME n \in 1 .. Len(q) PROVE FALSE
        BY <2>7
      <4>2. q[n] \in Joins /\ u[n] = q[n]
        BY <2>6, <4>1
      <4> QED
        BY <2>11, <4>2 DEF Joins
    <3>2. ~ (Cardinality(Fused(i, p)) < 2)
      BY <2>11, FusedType, FewSingle
    <3>3. Join(i, p) \in Range(q)
      BY <1>2, <3>2
    <3>4. PICK k \in 1 .. Len(q) : q[k] = Join(i, p)
      BY <2>6, <3>3 DEF Range
    <3>5. k \in DOMAIN u /\ k < n /\ u[k] = Join(i, p)
      BY <2>6, <3>1, <3>4
    <3> QED
      BY <2>9, <3>5 DEF Joining
  <2> QED
    BY <2>1, <2>5, <2>10, <2>11
<1> QED
  BY <1>3, <1>4

\* The agenda that Deliver makes is of updates, and is prepared.
LEMMA DeliverHas ==
  ASSUME PartOfModel(structure), IsTheory(structure, theory), inbox \in Inboxes(structure, theory)
  PROVE  /\ Each(Updating, theory) \in Seq(Updates)
         /\ \A a \in Range(Each(Updating, theory)) : \E i \in DOMAIN theory : a \in Range(Updating(i))
         /\ \A m \in DOMAIN Each(Updating, theory) : Each(Updating, theory)[m].do = "adopt" =>
              \A p \in Parity : \/ Single(Fused(Each(Updating, theory)[m].of, p))
                                \/ \E k \in 1 .. m - 1 :
                                     Joining(Each(Updating, theory)[k], Each(Updating, theory)[m].of, p)
<1>1. PICK g : g = [i \in DOMAIN theory |-> Updating(i)]
  OBVIOUS
<1>2. Each(Updating, theory) = FlattenSeq(g)
  BY <1>1 DEF Each
<1>3. PICK n \in Nat : n = Len(theory) /\ DOMAIN theory = 1 .. n
  BY TheoryDomain
<1>4. g \in [1 .. n -> Seq(Updates)] /\ \A i \in 1 .. n : g[i] = Updating(i)
  BY <1>1, <1>3, UpdatingHas
<1>5. PICK q : q = FlattenSeq(g)
  OBVIOUS
<1>11. PICK X : X = Updates
  OBVIOUS
<1>12. g \in [1 .. n -> Seq(X)]
  BY <1>4, <1>11
<1>13. /\ FlattenSeq(g) \in Seq(X)
       /\ \A x : x \in Range(FlattenSeq(g)) <=> \E j \in 1 .. n : x \in Range(g[j])
  BY <1>3, <1>12, FlattenOver, Zenon
<1>14. g \in Seq(Seq(X)) /\ DOMAIN g = 1 .. n
  BY <1>3, <1>12
<1>15. \A m \in DOMAIN FlattenSeq(g) : \E j \in DOMAIN g, o \in Nat :
         /\ m - o \in DOMAIN g[j]
         /\ \A i \in DOMAIN g[j] : /\ o + i \in DOMAIN FlattenSeq(g)
                                   /\ FlattenSeq(g)[o + i] = g[j][i]
  BY <1>14, FlattenParts, Zenon
<1>16. q \in Seq(Updates) /\ \A x : x \in Range(q) <=> \E j \in 1 .. n : x \in Range(g[j])
  BY <1>5, <1>11, <1>13
<1>6. ASSUME NEW m \in DOMAIN q
      PROVE  \E j \in 1 .. n, o \in Nat :
               /\ m - o \in DOMAIN g[j]
               /\ \A i \in DOMAIN g[j] : o + i \in DOMAIN q /\ q[o + i] = g[j][i]
  <2>1. m \in DOMAIN FlattenSeq(g)
    BY <1>5
  <2>2. PICK j \in DOMAIN g, o \in Nat :
          /\ m - o \in DOMAIN g[j]
          /\ \A i \in DOMAIN g[j] : /\ o + i \in DOMAIN FlattenSeq(g)
                                    /\ FlattenSeq(g)[o + i] = g[j][i]
    BY <2>1, <1>15, Zenon
  <2>3. j \in 1 .. n
    BY <1>14
  <2>4. \A i \in DOMAIN g[j] : o + i \in DOMAIN q /\ q[o + i] = g[j][i]
    BY <2>2, <1>5
  <2> QED
    BY <2>2, <2>3, <2>4
<1>7. \A a \in Range(q) : \E i \in DOMAIN theory : a \in Range(Updating(i))
  BY <1>3, <1>4, <1>16
<1>8. ASSUME NEW m \in DOMAIN q, q[m].do = "adopt", NEW p \in Parity, ~ Single(Fused(q[m].of, p))
      PROVE  \E k \in 1 .. m - 1 : Joining(q[k], q[m].of, p)
  <2>1. PICK j \in 1 .. n, o \in Nat :
          /\ m - o \in DOMAIN g[j]
          /\ \A i \in DOMAIN g[j] : o + i \in DOMAIN q /\ q[o + i] = g[j][i]
    BY <1>6
  <2>2. PICK u \in Seq(Updates) : u = g[j] /\ u = Updating(j)
    BY <1>4
  <2>3. PICK d \in DOMAIN u : d = m - o
    BY <2>1, <2>2
  <2>4. d \in Nat /\ m \in Nat /\ DOMAIN u \subseteq Nat \ {0} /\ DOMAIN q \subseteq Nat \ {0}
    BY <1>16
  <2>5. o + d = m
    BY <2>3, <2>4
  <2>6. q[m] = u[d]
    BY <2>1, <2>2, <2>5
  <2>7. j \in DOMAIN theory /\ u[d] \in Range(u)
    BY <1>3 DEF Range
  <2>8. u[d].of = j
    BY <2>2, <2>7, UpdatingHas
  <2>9. PICK k \in DOMAIN u : k < d /\ Joining(u[k], j, p)
    BY <1>8, <2>2, <2>6, <2>7, <2>8, UpdatingHas
  <2>10. o + k \in DOMAIN q /\ q[o + k] = u[k]
    BY <2>1, <2>2
  <2>11. o + k \in 1 .. m - 1
    BY <2>4, <2>5, <2>9, <2>10
  <2> QED
    BY <2>6, <2>8, <2>9, <2>10, <2>11
<1>9. Each(Updating, theory) = q
  BY <1>2, <1>5
<1>10. /\ q \in Seq(Updates)
       /\ \A a \in Range(q) : \E i \in DOMAIN theory : a \in Range(Updating(i))
       /\ \A m \in DOMAIN q : q[m].do = "adopt" =>
            \A p \in Parity : \/ Single(Fused(q[m].of, p))
                              \/ \E k \in 1 .. m - 1 : Joining(q[k], q[m].of, p)
  BY <1>16, <1>7, <1>8
<1> QED
  BY <1>9, <1>10, Zenon

\* The judgements of an expression are judgements of its theory.
LEMMA JudgingType ==
  ASSUME NEW th, NEW i \in DOMAIN th
  PROVE  /\ Judging(i) \in Seq(Judgements(th))
         /\ Len(Judging(i)) = 2
         /\ \A a \in Range(Judging(i)) : a.do = "disjoint"
<1>1. PICK a \in Judgements(th) : a = Op("disjoint", i, "ABOVE", {})
  BY DEF Op, Judgements
<1>2. PICK b \in Judgements(th) : b = Op("disjoint", i, "BELOW", {})
  BY DEF Op, Judgements
<1>3. Judging(i) = <<a, b>>
  BY <1>1, <1>2 DEF Judging
<1>4. <<a, b>> \in Seq(Judgements(th)) /\ Len(<<a, b>>) = 2 /\ Range(<<a, b>>) = {a, b}
  BY DEF Range
<1>5. a.do = "disjoint" /\ b.do = "disjoint"
  BY DEF Judgements
<1> QED
  BY <1>3, <1>4, <1>5

\* The agenda of a conclusion is of judgements.
LEMMA EachJudging ==
  ASSUME NEW th, Len(th) \in Nat, DOMAIN th = 1 .. Len(th)
  PROVE  Each(Judging, th) \in Seq(Judgements(th))
<1>1. PICK g : g = [i \in DOMAIN th |-> Judging(i)]
  OBVIOUS
<1>2. g \in [1 .. Len(th) -> Seq(Judgements(th))]
  BY <1>1, JudgingType
<1>3. Each(Judging, th) = FlattenSeq(g)
  BY <1>1 DEF Each
<1> QED
  BY <1>2, <1>3, FlattenOver

-----------------------------------------------------------------------------
(* The steps.                                                              *)

\* The head and the tail of a sequence that is not empty.
LEMMA HeadTail ==
  ASSUME NEW X, NEW q \in Seq(X), q # <<>>
  PROVE  /\ Head(q) \in X /\ Head(q) \in Range(q) /\ Head(q) = q[1]
         /\ Tail(q) \in Seq(X) /\ Range(Tail(q)) \subseteq Range(q)
         /\ DOMAIN q = 1 .. Len(q) /\ Len(q) \in Nat /\ 1 \in DOMAIN q
         /\ \A m \in DOMAIN Tail(q) : m \in Nat \ {0} /\ m + 1 \in DOMAIN q /\ Tail(q)[m] = q[m + 1]
<1>1. Head(q) \in X /\ Tail(q) \in Seq(X) /\ Head(q) = q[1] /\ DOMAIN q = 1 .. Len(q) /\ Len(q) \in Nat /\ 1 \in DOMAIN q
  OBVIOUS
<1>2. \A m \in DOMAIN Tail(q) : m \in Nat \ {0} /\ m + 1 \in DOMAIN q /\ Tail(q)[m] = q[m + 1]
  OBVIOUS
<1> QED
  BY <1>1, <1>2 DEF Range

\* The head of the agenda tells the stage.
LEMMA StageOf ==
  ASSUME TheoryOK, AgendaOK, agenda # <<>>
  PROVE  /\ Head(agenda).do = "find" => stage = "propagate" /\ agenda \in Seq(Finds(structure, theory))
         /\ Head(agenda).do \in {"union", "adopt"} => stage = "update" /\ agenda \in Seq(Updates)
         /\ Head(agenda).do = "union" => Head(agenda) \in Joins
         /\ Head(agenda).do = "adopt" => Head(agenda) \in Adoptions
         /\ Head(agenda).do = "disjoint" => stage \in {"update", "conclude"} /\ Head(agenda) \in Judgements(theory)
<1>1. CASE stage = "idle"
  BY <1>1 DEF AgendaOK
<1>2. CASE stage = "propagate"
  <2>1. agenda \in Seq(Finds(structure, theory))
    BY <1>2 DEF AgendaOK
  <2>2. Head(agenda) \in Finds(structure, theory)
    BY <2>1, HeadTail
  <2>3. Head(agenda).do = "find"
    BY <2>2 DEF Finds, Searches
  <2> QED
    BY <1>2, <2>1, <2>3
<1>3. CASE stage = "update"
  <2>1. agenda \in Seq(Updates)
    BY <1>3 DEF AgendaOK
  <2>2. Head(agenda) \in Updates
    BY <2>1, HeadTail
  <2>3. PICK a : a = Head(agenda)
    OBVIOUS
  <2>4. a \in Joins \/ a \in Adoptions \/ a \in Judgements(theory)
    BY <2>2, <2>3 DEF Updates
  <2>5. a \in Joins => a.do = "union"
    BY DEF Joins
  <2>6. a \in Adoptions => a.do = "adopt"
    BY DEF Adoptions
  <2>7. a \in Judgements(theory) => a.do = "disjoint"
    BY DEF Judgements
  <2> QED
    BY <1>3, <2>1, <2>3, <2>4, <2>5, <2>6, <2>7
<1>4. CASE stage = "conclude"
  <2>1. agenda \in Seq(Judgements(theory))
    BY <1>4 DEF AgendaOK
  <2>2. Head(agenda) \in Judgements(theory)
    BY <2>1, HeadTail
  <2>3. Head(agenda).do = "disjoint"
    BY <2>2 DEF Judgements
  <2> QED
    BY <1>4, <2>2, <2>3
<1> QED
  BY <1>1, <1>2, <1>3, <1>4 DEF TheoryOK

\* What one of the steps leaves alone.
LEMMA SessionKept ==
  ASSUME SessionOK, UNCHANGED <<structure, requests>>
  PROVE  SessionOK'
  BY DEF SessionOK

\* The theory is right as long as it, the stage and the requests stay.
LEMMA TheoryKept ==
  ASSUME TheoryOK, UNCHANGED <<structure, requests, theory, stage>>
  PROVE  TheoryOK'
  BY DEF TheoryOK

Put(inb, i, p, b) == [inb EXCEPT ![i][p] = b]

\* A bound is put in an inbox.
LEMMA InboxSet ==
  ASSUME NEW s, NEW th, NEW inb \in Inboxes(s, th), NEW i \in DOMAIN th, NEW p \in Parity,
         NEW b \in SUBSET Bounds(s)
  PROVE  /\ Put(inb, i, p, b) \in Inboxes(s, th)
         /\ \A j \in DOMAIN th, q \in Parity :
              Put(inb, i, p, b)[j][q] = IF j = i /\ q = p THEN b ELSE inb[j][q]
<1>1. PICK row \in [Parity -> SUBSET Bounds(s)] : row = inb[i]
  BY DEF Inboxes
<1>2. PICK new : new = [row EXCEPT ![p] = b]
  OBVIOUS
<1>3. new \in [Parity -> SUBSET Bounds(s)] /\ \A q \in Parity : new[q] = IF q = p THEN b ELSE row[q]
  BY <1>2
<1>4. Put(inb, i, p, b) = [inb EXCEPT ![i] = new]
  BY <1>1, <1>2 DEF Put
<1>5. /\ [inb EXCEPT ![i] = new] \in Inboxes(s, th)
      /\ \A j \in DOMAIN th : [inb EXCEPT ![i] = new][j] = IF j = i THEN new ELSE inb[j]
  BY <1>3 DEF Inboxes
<1> QED
  BY <1>1, <1>3, <1>4, <1>5

\* Find keeps the invariant: what a cache knows is within any limit.
LEMMA FindInv ==
  ASSUME Inv, Find
  PROVE  Inv'
<1>1. PICK a : a = Head(agenda)
  OBVIOUS
<1>2. PICK k : k = (CHOOSE x \in a.key : TRUE)
  OBVIOUS
<1>3. /\ agenda # <<>> /\ a.do = "find"
      /\ TryFind("binary", k)
      /\ inbox' = [inbox EXCEPT ![a.of][a.parity] = @ \cup {Cached("binary", k)}]
      /\ agenda' = Tail(agenda)
      /\ UNCHANGED <<structure, workers, requests, theory, states, changed, valid, stage, reply>>
  BY <1>1, <1>2 DEF Find, Doing
<1>4. stage = "propagate" /\ agenda \in Seq(Finds(structure, theory))
  BY <1>1, <1>3, StageOf DEF Inv, ShapeOK
<1>5. PartOfModel(structure) /\ IsTheory(structure, theory) /\ inbox \in Inboxes(structure, theory)
  BY <1>4 DEF Inv, ShapeOK, SessionOK, TheoryOK, StatesOK, Busy
<1>6. /\ a \in Finds(structure, theory) /\ a \in Range(agenda)
      /\ Tail(agenda) \in Seq(Finds(structure, theory)) /\ Range(Tail(agenda)) \subseteq Range(agenda)
  BY <1>1, <1>3, <1>4, HeadTail
<1>7. a.of \in DOMAIN theory /\ a.parity \in Parity /\ k \in a.key /\ a.key \subseteq Keys(structure)
  BY <1>2, <1>6 DEF Finds, Searches, Pending
<1>8. PICK m : m = Cached("binary", k)
  OBVIOUS
<1>9. m \in {Pending, {BinaryValue(structure, k)}}
  BY <1>8, CachedRight DEF Inv, ShapeOK
<1>10. m \in Bounds(structure)
  BY <1>5, <1>7, <1>9, BinaryType DEF Pending, Bounds
<1>11. PICK b : b = inbox[a.of][a.parity] \cup {m}
  OBVIOUS
<1>12. b \in SUBSET Bounds(structure)
  BY <1>5, <1>7, <1>10, <1>11 DEF Inboxes
<1>13. inbox' = [inbox EXCEPT ![a.of][a.parity] = b]
  BY <1>3, <1>8, <1>11
<1>14. PICK i \in DOMAIN theory, p \in Parity : i = a.of /\ p = a.parity
  BY <1>7
<1>15. /\ inbox' \in Inboxes(structure, theory)
       /\ \A j \in DOMAIN theory, q \in Parity : inbox'[j][q] = IF j = i /\ q = p THEN b ELSE inbox[j][q]
  <2>1. inbox' = Put(inbox, i, p, b)
    BY <1>13, <1>14 DEF Put
  <2>2. /\ Put(inbox, i, p, b) \in Inboxes(structure, theory)
        /\ \A j \in DOMAIN theory, q \in Parity :
             Put(inbox, i, p, b)[j][q] = IF j = i /\ q = p THEN b ELSE inbox[j][q]
    BY <1>5, <1>12, InboxSet
  <2> QED
    BY <2>1, <2>2
<1>16. SessionOK' /\ TheoryOK'
  BY <1>3, SessionKept, TheoryKept DEF Inv, ShapeOK
<1>17. StatesOK'
  BY <1>3, <1>15 DEF Inv, ShapeOK, StatesOK
<1>18. AgendaOK' /\ Ready'
  BY <1>3, <1>4, <1>6 DEF AgendaOK, Ready
<1>19. CacheRight'
  BY <1>3, CacheFind DEF Inv, ShapeOK
<1>20. ASSUME NEW B, Limit(structure, theory, B)
       PROVE  Within(theory, B, states) /\ Heard(B)' /\ Due(B)' /\ (valid = {FALSE} => Clashes(theory, B))
  <2>1. /\ Within(theory, B, states) /\ Heard(B) /\ Due(B)
        /\ valid = {FALSE} => Clashes(theory, B)
    BY <1>20 DEF Inv, LimitsHold, LimitHolds
  <2>2. Allowed(structure, B, a)
    BY <1>6, <2>1 DEF Due
  <2>3. Under(B, i, p, m)
    BY <1>3, <1>7, <1>9, <1>14, <2>2 DEF Allowed, Under, Pending
  <2>4. Heard(B)'
    <3>1. \A j \in DOMAIN theory, q \in Parity : \A x \in inbox[j][q] : Under(B, j, q, x)
      BY <1>4, <2>1 DEF Heard, Busy
    <3>2. \A x \in b : Under(B, i, p, x)
      BY <1>11, <1>14, <2>3, <3>1
    <3>3. \A j \in DOMAIN theory, q \in Parity : \A x \in inbox'[j][q] : Under(B, j, q, x)
      BY <1>15, <3>1, <3>2
    <3> QED
      BY <1>3, <3>3 DEF Heard, Under
  <2>5. Due(B)'
    BY <1>3, <1>6, <2>1 DEF Due
  <2> QED
    BY <2>1, <2>4, <2>5
<1>21. LimitsHold'
  BY <1>3, <1>20 DEF LimitsHold, LimitHolds
<1>22. ReplyRight'
  BY <1>3 DEF Inv, ReplyRight
<1> QED
  BY <1>16, <1>17, <1>18, <1>19, <1>21, <1>22 DEF Inv, ShapeOK

\* Ready, of the next state, from the fusions and the agenda of that state.
LEMMA ReadyNext ==
  ASSUME NEW q, NEW F, q = agenda', F = Fusions', Prepared(q, F)
  PROVE  Ready'
<1>1. Ready' <=> (stage' = "update" => Prepared(agenda', Fusions'))
  BY DEF Ready
<1>2. Prepared(agenda', Fusions')
  OBVIOUS
<1> QED
  BY <1>1, <1>2

\* Unite keeps the invariant: a union of sets within a limit is within it.
LEMMA UniteInv ==
  ASSUME Inv, Unite
  PROVE  Inv'
<1>1. PICK a : a = Head(agenda)
  OBVIOUS
<1>2. /\ agenda # <<>> /\ a.do = "union"
      /\ TryFind("union", a.key)
      /\ inbox' = [inbox EXCEPT ![a.of][a.parity] = {Cached("union", a.key)}]
      /\ agenda' = Tail(agenda)
      /\ UNCHANGED <<structure, workers, requests, theory, states, changed, valid, stage, reply>>
  BY <1>1 DEF Unite, Doing
<1>3. stage = "update" /\ agenda \in Seq(Updates) /\ a \in Joins
  BY <1>1, <1>2, StageOf DEF Inv, ShapeOK
<1>4. PartOfModel(structure) /\ IsTheory(structure, theory) /\ inbox \in Inboxes(structure, theory)
  BY <1>3 DEF Inv, ShapeOK, SessionOK, TheoryOK, StatesOK, Busy
<1>5. a \in Range(agenda) /\ Tail(agenda) \in Seq(Updates) /\ Range(Tail(agenda)) \subseteq Range(agenda)
  BY <1>1, <1>2, <1>3, HeadTail
<1>6. PICK i \in DOMAIN theory, p \in Parity, key \in Bounds(structure) : i = a.of /\ p = a.parity /\ key = a.key
  BY <1>3 DEF Joins
<1>7. PICK m : m = Cached("union", key)
  OBVIOUS
<1>8. m \in {Pending, {UNION key}}
  BY <1>7, CachedRight DEF Inv, ShapeOK
<1>9. m \in Bounds(structure) /\ Single(m)
  <2>1. PICK u \in SUBSET Obs(structure) : u = UNION key
    BY <1>6 DEF Bounds
  <2>2. m = {} \/ m = {u}
    BY <1>8, <2>1 DEF Pending
  <2> QED
    BY <2>2 DEF Bounds, Single
<1>10. PICK b \in SUBSET Bounds(structure) : b = {m}
  BY <1>9
<1>11. inbox' = Put(inbox, i, p, b)
  BY <1>2, <1>6, <1>7, <1>10 DEF Put
<1>12. /\ inbox' \in Inboxes(structure, theory)
       /\ \A j \in DOMAIN theory, q \in Parity : inbox'[j][q] = IF j = i /\ q = p THEN b ELSE inbox[j][q]
  <2>1. /\ Put(inbox, i, p, b) \in Inboxes(structure, theory)
        /\ \A j \in DOMAIN theory, q \in Parity :
             Put(inbox, i, p, b)[j][q] = IF j = i /\ q = p THEN b ELSE inbox[j][q]
    BY <1>4, <1>6, <1>10, InboxSet
  <2> QED
    BY <1>11, <2>1
<1>13. SessionOK' /\ TheoryOK'
  BY <1>2, SessionKept, TheoryKept DEF Inv, ShapeOK
<1>14. StatesOK'
  BY <1>2, <1>12 DEF Inv, ShapeOK, StatesOK
<1>15. AgendaOK'
  BY <1>2, <1>3, <1>5 DEF AgendaOK, Updates, Joins, Adoptions
<1>16. Ready'
  <2>1. PICK F, G : F = Fusions /\ G = Fusions'
    OBVIOUS
  <2>2. \A j \in DOMAIN theory, q \in Parity : F[j][q] = Fusion(structure, inbox[j][q], q)
    BY <2>1, FusedIs DEF Fusions
  <2>3. \A j \in DOMAIN theory, q \in Parity : G[j][q] = Fusion(structure, inbox'[j][q], q)
    BY <1>2, <2>1 DEF Fusions, Fused, Fusion
  <2>4. Single(G[i][p])
    BY <1>9, <1>10, <1>12, <2>3, FusionOne
  <2>5. \A j \in DOMAIN theory, q \in Parity : Single(F[j][q]) \/ Joining(a, j, q) => Single(G[j][q])
    BY <1>6, <1>12, <2>2, <2>3, <2>4 DEF Joining
  <2>6. Prepared(agenda, F)
    BY <1>3, <2>1 DEF Inv, ShapeOK, Ready
  <2>7. \A x \in Updates : x.of \in DOMAIN theory
    BY DEF Updates, Joins, Adoptions, Judgements
  <2>8. Prepared(Tail(agenda), G)
    <3>1. PICK X, D : X = Updates /\ D = DOMAIN theory
      OBVIOUS
    <3>2. \A x \in X : x.of \in D
      BY <2>7, <3>1
    <3>3. \A j \in D, q \in Parity : Single(F[j][q]) \/ Joining(Head(agenda), j, q) => Single(G[j][q])
      BY <1>1, <2>5, <3>1
    <3>4. agenda \in Seq(X) /\ agenda # <<>>
      BY <1>2, <1>3, <3>1
    <3> QED
      BY <2>6, <3>2, <3>3, <3>4, PreparedTail
  <2>9. PICK t : t = Tail(agenda)
    OBVIOUS
  <2>10. Prepared(t, G) /\ agenda' = t
    BY <1>2, <2>8, <2>9
  <2> QED
    BY <2>1, <2>10, ReadyNext
<1>17. CacheRight'
  BY <1>2, CacheFind DEF Inv, ShapeOK
<1>18. ASSUME NEW B, Limit(structure, theory, B)
       PROVE  Within(theory, B, states) /\ Heard(B)' /\ Due(B)' /\ (valid = {FALSE} => Clashes(theory, B))
  <2>1. /\ Within(theory, B, states) /\ Heard(B) /\ Due(B)
        /\ valid = {FALSE} => Clashes(theory, B)
    BY <1>18 DEF Inv, LimitsHold, LimitHolds
  <2>2. Under(B, i, p, key)
    BY <1>2, <1>5, <1>6, <2>1 DEF Due, Allowed
  <2>3. Under(B, i, p, m)
    BY <1>8, <2>2 DEF Under, Pending
  <2>4. Heard(B)'
    <3>1. \A j \in DOMAIN theory, q \in Parity : \A x \in inbox[j][q] : Under(B, j, q, x)
      BY <1>3, <2>1 DEF Heard, Busy
    <3>2. \A x \in b : Under(B, i, p, x)
      BY <1>10, <2>3
    <3>3. \A j \in DOMAIN theory, q \in Parity : \A x \in inbox'[j][q] : Under(B, j, q, x)
      BY <1>12, <3>1, <3>2
    <3> QED
      BY <1>2, <3>3 DEF Heard, Under
  <2>5. Due(B)'
    BY <1>2, <1>5, <2>1 DEF Due
  <2> QED
    BY <2>1, <2>4, <2>5
<1>19. LimitsHold'
  BY <1>2, <1>18 DEF LimitsHold, LimitHolds
<1>20. ReplyRight'
  BY <1>2 DEF Inv, ReplyRight
<1> QED
  BY <1>13, <1>14, <1>15, <1>16, <1>17, <1>19, <1>20 DEF Inv, ShapeOK

\* Silence is fused to what is known of every ob.
LEMMA FusionSilence ==
  ASSUME NEW s, NEW p \in Parity
  PROVE  Fusion(s, Silence[p], p) = Unknown(s)[p]
  BY DEF Fusion, Silence, Sets

\* An inbox that is silenced is still an inbox.
LEMMA InboxSilence ==
  ASSUME NEW s, NEW th, NEW inb \in Inboxes(s, th), NEW i \in DOMAIN th,
         NEW out, out = [inb EXCEPT ![i] = Silence]
  PROVE  out \in Inboxes(s, th)
<1>1. Silence \in [Parity -> SUBSET Bounds(s)]
  BY DEF Silence
<1> QED
  BY <1>1 DEF Inboxes

\* Deliver keeps the invariant: the agenda unites before it adopts.
LEMMA DeliverInv ==
  ASSUME Inv, Deliver
  PROVE  Inv'
<1>1. /\ stage = "propagate" /\ stage' = "update"
      /\ agenda' = Each(Updating, theory)
      /\ inbox' = [i \in DOMAIN theory |-> IF Updating(i) = <<>> THEN Silence ELSE inbox[i]]
      /\ UNCHANGED <<structure, workers, requests, theory, states, changed, valid, reply, pool>>
  BY DEF Deliver
<1>2. PartOfModel(structure) /\ IsTheory(structure, theory) /\ inbox \in Inboxes(structure, theory)
  BY <1>1 DEF Inv, ShapeOK, SessionOK, TheoryOK, StatesOK, Busy
<1>3. PICK q : q = Each(Updating, theory)
  OBVIOUS
<1>4. /\ q \in Seq(Updates)
      /\ \A a \in Range(q) : \E i \in DOMAIN theory : a \in Range(Updating(i))
      /\ \A m \in DOMAIN q : q[m].do = "adopt" =>
              \A p \in Parity : \/ Single(Fused(q[m].of, p))
                                \/ \E k \in 1 .. m - 1 : Joining(q[k], q[m].of, p)
  BY <1>2, <1>3, DeliverHas
<1>5. inbox' \in Inboxes(structure, theory)
  <2>1. Silence \in [Parity -> SUBSET Bounds(structure)]
    BY DEF Silence
  <2> QED
    BY <1>1, <1>2, <2>1 DEF Inboxes
<1>6. SessionOK' /\ TheoryOK'
  BY <1>1, SessionKept DEF Inv, ShapeOK, TheoryOK
<1>7. StatesOK'
  BY <1>1, <1>5 DEF Inv, ShapeOK, StatesOK
<1>8. AgendaOK'
  BY <1>1, <1>3, <1>4 DEF AgendaOK, Updates, Joins, Adoptions
<1>9. Ready'
  <2>1. PICK G : G = Fusions'
    OBVIOUS
  <2>2. \A j \in DOMAIN theory, p \in Parity : G[j][p] = Fusion(structure, inbox'[j][p], p)
    BY <1>1, <2>1 DEF Fusions, Fused, Fusion
  <2>3. ASSUME NEW j \in DOMAIN theory, NEW p \in Parity, Single(Fused(j, p))
        PROVE  Single(G[j][p])
    <3>1. CASE Updating(j) = <<>>
      BY <1>1, <2>2, <3>1, FusionSilence, UnknownSingle
    <3>2. CASE Updating(j) # <<>>
      BY <1>1, <2>2, <2>3, <3>2, FusedIs
    <3> QED
      BY <3>1, <3>2
  <2>4. ASSUME NEW m \in DOMAIN q PROVE q[m].of \in DOMAIN theory
    <3>1. q[m] \in Updates
      BY <1>4
    <3> QED
      BY <3>1 DEF Updates, Joins, Adoptions, Judgements
  <2>5. Prepared(q, G)
    BY <1>4, <2>3, <2>4 DEF Prepared
  <2> QED
    BY <1>1, <1>3, <2>1, <2>5, ReadyNext
<1>10. CacheRight'
  BY <1>1 DEF Inv, ShapeOK, CacheRight, pool
<1>11. ASSUME NEW B, Limit(structure, theory, B)
       PROVE  Within(theory, B, states) /\ Heard(B)' /\ Due(B)' /\ (valid = {FALSE} => Clashes(theory, B))
  <2>1. /\ Within(theory, B, states) /\ Heard(B)
        /\ valid = {FALSE} => Clashes(theory, B)
    BY <1>11 DEF Inv, LimitsHold, LimitHolds
  <2>2. Heard(B)'
    <3>1. \A j \in DOMAIN theory, p \in Parity : \A x \in inbox[j][p] : Under(B, j, p, x)
      BY <1>1, <2>1 DEF Heard, Busy
    <3>2. \A p \in Parity : Silence[p] = {}
      BY DEF Silence
    <3>3. \A j \in DOMAIN theory, p \in Parity : \A x \in inbox'[j][p] : Under(B, j, p, x)
      BY <1>1, <3>1, <3>2
    <3> QED
      BY <1>1, <3>3 DEF Heard, Under
  <2>3. ASSUME NEW a \in Range(q) PROVE Allowed(structure, B, a)
    <3>1. PICK i \in DOMAIN theory : a \in Range(Updating(i))
      BY <1>4
    <3>2. a.do # "find"
      <4>1. a \in Updates
        BY <1>4 DEF Range
      <4> QED
        BY <4>1 DEF Updates, Joins, Adoptions, Judgements
    <3>3. CASE a.do = "union"
      <4>1. PICK p \in Parity : a = Join(i, p)
        BY <1>2, <3>1, <3>3, UpdatingHas
      <4>2. a.of = i /\ a.parity = p /\ a.key = Fused(i, p)
        BY <4>1 DEF Join, Op
      <4>3. Under(B, i, p, Fused(i, p))
        BY <1>1, <1>2, <1>11, <2>1, FusedWithin DEF Busy
      <4> QED
        BY <3>2, <4>2, <4>3 DEF Allowed
    <3> QED
      BY <3>2, <3>3 DEF Allowed
  <2>4. Due(B)'
    BY <1>1, <1>3, <2>3 DEF Due
  <2> QED
    BY <2>1, <2>2, <2>4
<1>12. LimitsHold'
  BY <1>1, <1>11 DEF LimitsHold, LimitHolds
<1>13. ReplyRight'
  BY <1>1 DEF Inv, ReplyRight
<1> QED
  BY <1>6, <1>7, <1>8, <1>9, <1>10, <1>12, <1>13 DEF Inv, ShapeOK

\* Adopt keeps the invariant: a state that is adopted is within any limit.
LEMMA AdoptInv ==
  ASSUME Inv, Adopt
  PROVE  Inv'
<1>1. PICK i : i = Head(agenda).of
  OBVIOUS
<1>2. PICK new : new = [p \in Parity |-> Fused(i, p)]
  OBVIOUS
<1>3. /\ agenda # <<>> /\ Head(agenda).do = "adopt"
      /\ inbox' = [inbox EXCEPT ![i] = Silence]
      /\ UNCHANGED <<structure, workers, requests, theory, stage, reply, pool>>
      /\ \/ agenda' = Tail(agenda) /\ UNCHANGED <<states, changed, valid>>
         \/ /\ states' = [states EXCEPT ![i] = new]
            /\ valid' = {TRUE}
            /\ agenda' = Judging(i) \o Tail(agenda)
  BY <1>1, <1>2 DEF Adopt, Doing
<1>4. stage = "update" /\ agenda \in Seq(Updates) /\ Head(agenda) \in Adoptions
  BY <1>3, StageOf DEF Inv, ShapeOK
<1>5. PartOfModel(structure) /\ IsTheory(structure, theory) /\ inbox \in Inboxes(structure, theory)
  BY <1>4 DEF Inv, ShapeOK, SessionOK, TheoryOK, StatesOK, Busy
<1>6. i \in DOMAIN theory
  BY <1>1, <1>4 DEF Adoptions
<1>7. PICK t \in Seq(Updates) : /\ t = Tail(agenda) /\ Range(t) \subseteq Range(agenda)
                                /\ Head(agenda) = agenda[1] /\ 1 \in DOMAIN agenda
  BY <1>3, <1>4, HeadTail
<1>8. PICK j \in Seq(Updates) : j = Judging(i) /\ \A a \in Range(j) : a.do = "disjoint"
  <2>1. Judging(i) \in Seq(Judgements(theory)) /\ Judgements(theory) \subseteq Updates
    BY <1>6, JudgingType DEF Updates
  <2>2. Judging(i) \in Seq(Updates)
    BY <2>1, SeqMonotonic
  <2> QED
    BY <1>6, <2>2, JudgingType
<1>9. PICK jt \in Seq(Updates) : jt = j \o t /\ Range(jt) = Range(j) \cup Range(t)
  <2>1. PICK q : IsJoined(Updates, q, j, t)
    BY <1>7, <1>8, Joined
  <2> QED
    BY <2>1 DEF IsJoined
<1>10. agenda' = t \/ agenda' = jt
  BY <1>3, <1>7, <1>8, <1>9
<1>11. /\ inbox' \in Inboxes(structure, theory)
       /\ \A k \in DOMAIN theory : inbox'[k] = IF k = i THEN Silence ELSE inbox[k]
  <2>1. PICK out : out = inbox'
    OBVIOUS
  <2>2. out = [inbox EXCEPT ![i] = Silence]
    BY <1>3, <2>1
  <2>3. out \in Inboxes(structure, theory) /\ \A k \in DOMAIN theory : out[k] = IF k = i THEN Silence ELSE inbox[k]
    <3>1. PICK inb : inb = inbox
      OBVIOUS
    <3>2. inb \in Inboxes(structure, theory) /\ out = [inb EXCEPT ![i] = Silence]
      BY <1>5, <2>2, <3>1
    <3>3. out \in Inboxes(structure, theory)
      BY <1>6, <3>2, InboxSilence
    <3>4. ASSUME NEW k \in DOMAIN theory PROVE out[k] = IF k = i THEN Silence ELSE inb[k]
      BY <1>6, <3>2 DEF Inboxes
    <3> QED
      BY <3>1, <3>3, <3>4
  <2> QED
    BY <2>1, <2>3
<1>12. new \in Approximation(structure) /\ \A p \in Parity : Single(new[p])
  <2>1. \A p \in Parity : new[p] = Fused(i, p) /\ new[p] \in Bounds(structure)
    BY <1>2, <1>5, <1>6, FusedType
  <2>2. new \in Approximation(structure)
    BY <1>2, <2>1 DEF Approximation, Bounds
  <2>3. PICK F : F = Fusions
    OBVIOUS
  <2>4. Prepared(agenda, F) /\ \A p \in Parity : F[i][p] = Fused(i, p)
    BY <1>4, <1>6, <2>3 DEF Inv, ShapeOK, Ready, Fusions
  <2>5. \A k \in 1 .. 1 - 1 : FALSE
    OBVIOUS
  <2>6. agenda[1].do = "adopt" /\ agenda[1].of = i
    BY <1>1, <1>3, <1>7
  <2>7. \A p \in Parity : Single(F[i][p])
    BY <1>7, <2>4, <2>5, <2>6 DEF Prepared
  <2> QED
    BY <2>1, <2>2, <2>4, <2>7
<1>13. SessionOK' /\ TheoryOK'
  BY <1>3, SessionKept, TheoryKept DEF Inv, ShapeOK
<1>14. StatesOK'
  <2>1. states \in [DOMAIN theory -> Approximation(structure)] /\ \A k \in DOMAIN theory, p \in Parity : Single(states[k][p])
    BY DEF Inv, ShapeOK, StatesOK
  <2>2. states' \in [DOMAIN theory -> Approximation(structure)] /\ \A k \in DOMAIN theory, p \in Parity : Single(states'[k][p])
    <3>1. CASE states' = states
      BY <2>1, <3>1
    <3>2. CASE states' = [states EXCEPT ![i] = new]
      <4>1. states' \in [DOMAIN theory -> Approximation(structure)]
        BY <1>6, <1>12, <2>1, <3>2
      <4>2. \A k \in DOMAIN theory : states'[k] = IF k = i THEN new ELSE states[k]
        BY <2>1, <3>2
      <4> QED
        BY <1>12, <2>1, <4>1, <4>2
    <3> QED
      BY <1>3, <3>1, <3>2
  <2>3. valid' \in {{}, {TRUE}, {FALSE}}
    BY <1>3 DEF Inv, ShapeOK, StatesOK
  <2> QED
    BY <1>3, <1>11, <2>2, <2>3 DEF StatesOK, Single
<1>15. AgendaOK'
  BY <1>3, <1>4, <1>10 DEF AgendaOK, Updates, Joins, Adoptions
<1>16. Ready'
  <2>1. PICK F, G : F = Fusions /\ G = Fusions'
    OBVIOUS
  <2>2. \A k \in DOMAIN theory, p \in Parity : F[k][p] = Fusion(structure, inbox[k][p], p)
    BY <2>1, FusedIs DEF Fusions
  <2>3. \A k \in DOMAIN theory, p \in Parity : G[k][p] = Fusion(structure, inbox'[k][p], p)
    BY <1>3, <2>1 DEF Fusions, Fused, Fusion
  <2>4. \A p \in Parity : Single(G[i][p])
    BY <1>6, <1>11, <2>3, FusionSilence, UnknownSingle
  <2>5. \A k \in DOMAIN theory, p \in Parity : Single(F[k][p]) \/ Joining(Head(agenda), k, p) => Single(G[k][p])
    BY <1>3, <1>11, <2>2, <2>3, <2>4 DEF Joining
  <2>6. Prepared(agenda, F)
    BY <1>4, <2>1 DEF Inv, ShapeOK, Ready
  <2>7. Prepared(t, G)
    <3>1. PICK X, D : X = Updates /\ D = DOMAIN theory
      OBVIOUS
    <3>2. \A x \in X : x.of \in D
      BY <3>1 DEF Updates, Joins, Adoptions, Judgements
    <3>3. \A k \in D, p \in Parity : Single(F[k][p]) \/ Joining(Head(agenda), k, p) => Single(G[k][p])
      BY <2>5, <3>1
    <3>4. agenda \in Seq(X) /\ agenda # <<>>
      BY <1>3, <1>4, <3>1
    <3> QED
      BY <1>7, <2>6, <3>2, <3>3, <3>4, PreparedTail
  <2>8. Prepared(jt, G)
    <3>1. \A x \in Range(j) : x.do # "adopt"
      BY <1>8
    <3> QED
      BY <1>7, <1>8, <1>9, <2>7, <3>1, PreparedPrefix
  <2>9. PICK q : q = agenda'
    OBVIOUS
  <2>10. Prepared(q, G)
    BY <1>10, <2>7, <2>8, <2>9
  <2> QED
    BY <2>1, <2>9, <2>10, ReadyNext
<1>17. CacheRight'
  BY <1>3 DEF Inv, ShapeOK, CacheRight, pool
<1>18. ASSUME NEW B, Limit(structure, theory, B)
       PROVE  Within(theory, B, states') /\ Heard(B)' /\ Due(B)' /\ (valid' = {FALSE} => Clashes(theory, B))
  <2>1. /\ Within(theory, B, states) /\ Heard(B) /\ Due(B)
        /\ valid = {FALSE} => Clashes(theory, B)
    BY <1>18 DEF Inv, LimitsHold, LimitHolds
  <2>2. Within(theory, B, states')
    <3>1. CASE states' = states
      BY <2>1, <3>1
    <3>2. CASE states' = [states EXCEPT ![i] = new]
      <4>1. \A p \in Parity : Under(B, i, p, new[p])
        BY <1>2, <1>4, <1>5, <1>6, <1>18, <2>1, FusedWithin DEF Busy
      <4>2. \A k \in DOMAIN theory : states'[k] = IF k = i THEN new ELSE states[k]
        BY <3>2 DEF Inv, ShapeOK, StatesOK
      <4> QED
        BY <2>1, <4>1, <4>2 DEF Within
    <3> QED
      BY <1>3, <3>1, <3>2
  <2>3. Heard(B)'
    <3>1. \A k \in DOMAIN theory, p \in Parity : \A x \in inbox[k][p] : Under(B, k, p, x)
      BY <1>4, <2>1 DEF Heard, Busy
    <3>2. \A p \in Parity : Silence[p] = {}
      BY DEF Silence
    <3>3. \A k \in DOMAIN theory, p \in Parity : \A x \in inbox'[k][p] : Under(B, k, p, x)
      BY <1>11, <3>1, <3>2
    <3> QED
      BY <1>3, <3>3 DEF Heard, Under
  <2>4. \A a \in Range(agenda') : a \in Range(agenda) \/ a.do = "disjoint"
    BY <1>7, <1>8, <1>9, <1>10
  <2>5. Due(B)'
    BY <1>3, <2>1, <2>4 DEF Due, Allowed
  <2>6. valid' = {FALSE} => Clashes(theory, B)
    BY <1>3, <2>1
  <2> QED
    BY <2>2, <2>3, <2>5, <2>6
<1>19. LimitsHold'
  BY <1>3, <1>18 DEF LimitsHold, LimitHolds
<1>20. ReplyRight'
  BY <1>3 DEF Inv, ReplyRight
<1> QED
  BY <1>13, <1>14, <1>15, <1>16, <1>17, <1>19, <1>20 DEF Inv, ShapeOK

\* What AndTrool returns: FALSE only of a FALSE.
LEMMA AndTroolIs ==
  ASSUME NEW x \in {{}, {TRUE}, {FALSE}}, NEW y \in {{}, {TRUE}, {FALSE}}
  PROVE  /\ AndTrool(x, y) \in {{}, {TRUE}, {FALSE}}
         /\ AndTrool(x, y) = {FALSE} <=> x = {FALSE} \/ y = {FALSE}
  BY DEF AndTrool

\* A state that is found to be invalid clashes.
LEMMA ClashFound ==
  ASSUME NEW th, NEW B, NEW i \in DOMAIN th, NEW p \in {"ABOVE", "BELOW"}, NEW n,
         n = IF p = "ABOVE" THEN "NABOVE" ELSE "NBELOW",
         NEW pos, NEW neg, Single(pos), Single(neg), Under(B, i, p, pos), Under(B, i, n, neg),
         pos # Pending, neg # Pending,
         \/ pos = neg /\ pos # {{}}
         \/ \E a, b \in pos \cup neg : a # b /\ a \cap b # {}
  PROVE  Clashes(th, B)
<1>1. PICK S \in pos, T \in neg : pos = {S} /\ neg = {T}
  BY DEF Single, Pending
<1>2. S \subseteq B[i][p] /\ T \subseteq B[i][n]
  BY DEF Under
<1>3. S \cap T # {}
  <2>1. CASE pos = neg /\ pos # {{}}
    BY <1>1, <2>1
  <2>2. CASE \E a, b \in pos \cup neg : a # b /\ a \cap b # {}
    <3>1. PICK a, b \in pos \cup neg : a # b /\ a \cap b # {}
      BY <2>2
    <3>2. (a = S /\ b = T) \/ (a = T /\ b = S)
      BY <1>1, <3>1
    <3> QED
      BY <3>1, <3>2
  <2> QED
    BY <2>1, <2>2
<1>4. B[i][p] \cap B[i][n] # {}
  BY <1>2, <1>3
<1> QED
  BY <1>4 DEF Clashes

\* Conclude keeps the invariant.
LEMMA ConcludeInv ==
  ASSUME Inv, stage # "idle", Conclude, UNCHANGED <<structure, requests, theory, states, reply>>, CacheRight'
  PROVE  Inv'
<1>1. /\ stage' = "conclude" /\ valid' = {TRUE} /\ agenda' = Each(Judging, theory)
  BY DEF Conclude
<1>2. IsTheory(structure, theory)
  BY DEF Inv, ShapeOK, TheoryOK
<1>3. PICK q : q = Each(Judging, theory)
  OBVIOUS
<1>4. q \in Seq(Judgements(theory))
  BY <1>2, <1>3, TheoryDomain, EachJudging
<1>5. SessionOK' /\ TheoryOK'
  BY <1>1, SessionKept DEF Inv, ShapeOK, TheoryOK
<1>6. StatesOK'
  BY <1>1 DEF Inv, ShapeOK, StatesOK, Single, Busy
<1>7. AgendaOK' /\ Ready'
  BY <1>1, <1>3, <1>4 DEF AgendaOK, Ready
<1>8. ASSUME NEW B, Limit(structure, theory, B)
      PROVE  Within(theory, B, states) /\ Heard(B)' /\ Due(B)'
  <2>1. Within(theory, B, states)
    BY <1>8 DEF Inv, LimitsHold, LimitHolds
  <2>2. Heard(B)'
    BY <1>1 DEF Heard, Busy
  <2>3. ASSUME NEW a \in Range(q) PROVE a.do = "disjoint"
    <3>1. a \in Judgements(theory)
      BY <1>4 DEF Range
    <3> QED
      BY <3>1 DEF Judgements
  <2>4. Due(B)'
    BY <1>1, <1>3, <2>3 DEF Due, Allowed
  <2> QED
    BY <2>1, <2>2, <2>4
<1>9. LimitsHold'
  BY <1>1, <1>8 DEF LimitsHold, LimitHolds
<1>10. ReplyRight'
  BY DEF Inv, ReplyRight
<1> QED
  BY <1>5, <1>6, <1>7, <1>9, <1>10 DEF Inv, ShapeOK

\* Judge keeps the invariant: it says FALSE only of states that clash, and then
\* every limit clashes, too.
LEMMA JudgeInv ==
  ASSUME Inv, Judge
  PROVE  Inv'
<1>1. PICK i, p : i = Head(agenda).of /\ p = Head(agenda).parity
  OBVIOUS
<1>2. PICK n : n = IF p = "ABOVE" THEN "NABOVE" ELSE "NBELOW"
  OBVIOUS
<1>3. PICK pos, neg : pos = states[i][p] /\ neg = states[i][n]
  OBVIOUS
<1>4. PICK disjoint :
        disjoint = CASE ~ (pos # Pending /\ neg # Pending) -> Pending
                     [] (pos # Pending /\ neg # Pending) /\ pos = neg -> {pos = {{}}}
                     [] (pos # Pending /\ neg # Pending) /\ pos # neg -> Cached("disjoint", pos \cup neg)
  OBVIOUS
<1>5. PICK verdict : verdict = AndTrool(valid, disjoint)
  OBVIOUS
<1>6. /\ agenda # <<>> /\ Head(agenda).do = "disjoint"
      /\ IF (pos # Pending /\ neg # Pending) /\ pos # neg THEN TryFind("disjoint", pos \cup neg) ELSE UNCHANGED pool
      /\ \/ Conclude
         \/ /\ valid' = verdict /\ agenda' = Tail(agenda)
            /\ UNCHANGED <<inbox, changed, stage>>
      /\ UNCHANGED <<structure, workers, requests, theory, states, reply>>
  BY <1>1, <1>2, <1>3, <1>4, <1>5 DEF Judge, Doing
<1>7. stage \in {"update", "conclude"} /\ Head(agenda) \in Judgements(theory)
  BY <1>6, StageOf DEF Inv, ShapeOK
<1>8. i \in DOMAIN theory /\ p \in {"ABOVE", "BELOW"} /\ p \in Parity /\ n \in Parity
  BY <1>1, <1>2, <1>7 DEF Judgements, Parity
<1>9. CacheRight /\ CacheRight'
  <2>1. CacheRight
    BY DEF Inv, ShapeOK
  <2>2. CASE (pos # Pending /\ neg # Pending) /\ pos # neg
    <3>1. PICK key : key = pos \cup neg
      OBVIOUS
    <3>2. TryFind("disjoint", key)
      BY <1>6, <2>2, <3>1
    <3> QED
      BY <1>6, <2>1, <3>2, CacheFind
  <2>3. CASE ~ ((pos # Pending /\ neg # Pending) /\ pos # neg)
    BY <1>6, <2>1, <2>3 DEF CacheRight, pool
  <2> QED
    BY <2>1, <2>2, <2>3
<1>10. CASE Conclude
  BY <1>6, <1>7, <1>9, <1>10, ConcludeInv
<1>11. CASE valid' = verdict /\ agenda' = Tail(agenda) /\ UNCHANGED <<inbox, changed, stage>>
  <2>1. \/ disjoint = {}
        \/ pos # Pending /\ neg # Pending /\ pos = neg /\ disjoint = {pos = {{}}}
        \/ pos # Pending /\ neg # Pending /\ disjoint = {\A a, b \in pos \cup neg : a # b => a \cap b = {}}
    <3>1. PICK key : key = pos \cup neg
      OBVIOUS
    <3>2. Cached("disjoint", key) \in {Pending, {\A a, b \in key : a # b => a \cap b = {}}}
      BY <1>9, CachedRight
    <3>3. CASE ~ (pos # Pending /\ neg # Pending)
      BY <1>4, <3>3 DEF Pending
    <3>4. CASE (pos # Pending /\ neg # Pending) /\ pos = neg
      BY <1>4, <3>4
    <3>5. CASE (pos # Pending /\ neg # Pending) /\ pos # neg
      <4>1. disjoint = Cached("disjoint", key)
        BY <1>4, <3>1, <3>5
      <4> QED
        BY <3>1, <3>2, <3>5, <4>1 DEF Pending
    <3> QED
      BY <3>3, <3>4, <3>5
  <2>2. disjoint \in {{}, {TRUE}, {FALSE}}
    <3>1. \A P : P \in BOOLEAN => {P} \in {{TRUE}, {FALSE}}
      OBVIOUS
    <3>2. PICK P, Q : P = (pos = {{}}) /\ Q = (\A a, b \in pos \cup neg : a # b => a \cap b = {})
      OBVIOUS
    <3>3. P \in BOOLEAN /\ Q \in BOOLEAN
      BY <3>2
    <3> QED
      BY <2>1, <3>1, <3>2, <3>3
  <2>3. valid \in {{}, {TRUE}, {FALSE}}
    BY DEF Inv, ShapeOK, StatesOK
  <2>4. /\ verdict \in {{}, {TRUE}, {FALSE}}
        /\ verdict = {FALSE} => valid = {FALSE} \/ disjoint = {FALSE}
    BY <1>5, <2>2, <2>3, AndTroolIs
  <2>5. SessionOK' /\ TheoryOK'
    BY <1>6, <1>11, SessionKept, TheoryKept DEF Inv, ShapeOK
  <2>6. StatesOK'
    BY <1>6, <1>11, <2>4 DEF Inv, ShapeOK, StatesOK, Busy, Single
  <2>7. PICK t : t = Tail(agenda)
    OBVIOUS
  <2>8. /\ stage = "update" => agenda \in Seq(Updates) /\ t \in Seq(Updates)
        /\ stage = "conclude" => t \in Seq(Judgements(theory))
        /\ Range(t) \subseteq Range(agenda)
    <3>1. CASE stage = "update"
      <4>1. agenda \in Seq(Updates)
        BY <3>1 DEF Inv, ShapeOK, AgendaOK
      <4> QED
        BY <1>6, <2>7, <3>1, <4>1, HeadTail
    <3>2. CASE stage = "conclude"
      <4>1. agenda \in Seq(Judgements(theory))
        BY <3>2 DEF Inv, ShapeOK, AgendaOK
      <4> QED
        BY <1>6, <2>7, <3>2, <4>1, HeadTail
    <3> QED
      BY <1>7, <3>1, <3>2
  <2>9. AgendaOK'
    BY <1>6, <1>7, <1>11, <2>7, <2>8 DEF AgendaOK, Updates, Joins, Adoptions
  <2>10. Ready'
    <3>1. CASE stage = "update"
      <4>1. PICK F, X, D : F = Fusions /\ X = Updates /\ D = DOMAIN theory
        OBVIOUS
      <4>2. Prepared(agenda, F)
        BY <3>1, <4>1 DEF Inv, ShapeOK, Ready
      <4>3. \A x \in X : x.of \in D
        BY <4>1 DEF Updates, Joins, Adoptions, Judgements
      <4>4. \A k \in D, q \in Parity : Single(F[k][q]) \/ Joining(Head(agenda), k, q) => Single(F[k][q])
        BY <1>6 DEF Joining
      <4>5. agenda \in Seq(X) /\ agenda # <<>>
        BY <1>6, <2>8, <3>1, <4>1
      <4>6. Prepared(t, F)
        BY <2>7, <4>2, <4>3, <4>4, <4>5, PreparedTail
      <4>7. F = Fusions'
        BY <1>6, <1>11, <4>1 DEF Fusions, Fused
      <4>8. t = agenda'
        BY <1>11, <2>7
      <4> QED
        BY <4>6, <4>7, <4>8, ReadyNext
    <3>2. CASE stage # "update"
      BY <1>11, <3>2 DEF Ready
    <3> QED
      BY <3>1, <3>2
  <2>11. ASSUME NEW B, Limit(structure, theory, B)
         PROVE  Within(theory, B, states) /\ Heard(B)' /\ Due(B)' /\ (verdict = {FALSE} => Clashes(theory, B))
    <3>1. /\ Within(theory, B, states) /\ Heard(B) /\ Due(B)
          /\ valid = {FALSE} => Clashes(theory, B)
      BY <2>11 DEF Inv, LimitsHold, LimitHolds
    <3>2. Heard(B)'
      BY <1>6, <1>11, <3>1 DEF Heard, Under, Busy
    <3>3. Due(B)'
      BY <1>6, <1>11, <2>7, <2>8, <3>1 DEF Due
    <3>4. Under(B, i, p, pos) /\ Under(B, i, n, neg)
      BY <1>3, <1>8, <3>1 DEF Within
    <3>5. Single(pos) /\ Single(neg)
      BY <1>3, <1>8 DEF Inv, ShapeOK, StatesOK
    <3>6. ASSUME disjoint = {FALSE} PROVE Clashes(theory, B)
      <4>1. pos # Pending /\ neg # Pending
        BY <2>1, <3>6
      <4>2. \/ pos = neg /\ pos # {{}}
            \/ \E a, b \in pos \cup neg : a # b /\ a \cap b # {}
        <5>1. CASE pos = neg /\ disjoint = {pos = {{}}}
          BY <3>6, <5>1
        <5>2. CASE disjoint = {\A a, b \in pos \cup neg : a # b => a \cap b = {}}
          <6>1. PICK Q : Q = (\A a, b \in pos \cup neg : a # b => a \cap b = {})
            OBVIOUS
          <6>2. Q \in BOOLEAN /\ {Q} = {FALSE}
            BY <3>6, <5>2, <6>1
          <6>3. ~ Q
            BY <6>2
          <6> QED
            BY <6>1, <6>3
        <5> QED
          BY <2>1, <3>6, <5>1, <5>2
      <4> QED
        BY <1>2, <1>8, <3>4, <3>5, <4>1, <4>2, ClashFound
    <3> QED
      BY <2>4, <3>1, <3>2, <3>3, <3>6
  <2>12. LimitsHold'
    BY <1>6, <1>11, <2>11 DEF LimitsHold, LimitHolds
  <2>13. ReplyRight'
    BY <1>6 DEF Inv, ReplyRight
  <2> QED
    BY <1>9, <2>5, <2>6, <2>9, <2>10, <2>12, <2>13 DEF Inv, ShapeOK
<1> QED
  BY <1>6, <1>10, <1>11

\* A round that begins, of states within every limit, keeps the invariant.
LEMMA PropagateStepInv ==
  ASSUME SessionOK, CacheRight', ReplyRight, UNCHANGED <<structure, requests, reply>>,
         NEW th, NEW st, theory' = th, states' = st,
         requests # <<>>, th = ParseTheory(Head(requests).facts), IsTheory(structure, th),
         st \in [DOMAIN th -> Approximation(structure)],
         \A i \in DOMAIN th, p \in Parity : Single(st[i][p]),
         \A B : Limit(structure, th, B) => Within(th, B, st),
         PropagateStep(th, st)
  PROVE  Inv'
<1>1. /\ stage' = "propagate" /\ inbox' = Inbox(structure, th, st)
      /\ agenda' = Finding(th, st) /\ valid' = {}
  BY DEF PropagateStep
<1>2. PartOfModel(structure)
  BY DEF SessionOK
<1>3. PICK inb : inb = Inbox(structure, th, st)
  OBVIOUS
<1>4. inb \in Inboxes(structure, th)
  BY <1>2, <1>3, InboxType
<1>5. PICK q : q = Finding(th, st)
  OBVIOUS
<1>6. q \in Seq(Finds(structure, th))
  BY <1>2, <1>5, FindingHas
<1>7. SessionOK' /\ TheoryOK'
  BY <1>1, SessionKept DEF TheoryOK
<1>8. StatesOK'
  BY <1>1, <1>3, <1>4 DEF StatesOK, Busy, Single
<1>9. AgendaOK' /\ Ready'
  BY <1>1, <1>5, <1>6 DEF AgendaOK, Ready
<1>10. ASSUME NEW B, Limit(structure, th, B)
       PROVE  Within(th, B, st) /\ Heard(B)' /\ Due(B)'
  <2>1. Within(th, B, st)
    BY <1>10
  <2>2. \A i \in DOMAIN th, p \in Parity : \A m \in inb[i][p] : Under(B, i, p, m)
    BY <1>2, <1>3, <1>10, <2>1, InboxWithin
  <2>3. Heard(B)'
    BY <1>1, <1>3, <2>2 DEF Heard, Under
  <2>4. \A a \in Range(q) : Allowed(structure, B, a)
    BY <1>2, <1>5, <1>10, <2>1, FindingWithin
  <2>5. Due(B)'
    BY <1>1, <1>5, <2>4 DEF Due
  <2> QED
    BY <2>1, <2>3, <2>5
<1>11. LimitsHold'
  BY <1>1, <1>10 DEF LimitsHold, LimitHolds
<1>12. ReplyRight'
  BY DEF ReplyRight
<1> QED
  BY <1>7, <1>8, <1>9, <1>11, <1>12 DEF Inv, ShapeOK

\* Call keeps the invariant: unknown states are within every limit.
LEMMA CallInv ==
  ASSUME Inv, Call
  PROVE  Inv'
<1>1. PICK th, st : th = theory' /\ st = states'
  OBVIOUS
<1>2. /\ requests # <<>>
      /\ th = ParseTheory(Head(requests).facts)
      /\ st = [i \in DOMAIN th |-> Unknown(structure)]
      /\ PropagateStep(th, st)
      /\ UNCHANGED <<structure, workers, requests, reply, pool>>
  BY <1>1 DEF Call
<1>3. SessionOK /\ CacheRight /\ ReplyRight
  BY DEF Inv, ShapeOK
<1>4. CacheRight'
  BY <1>2, <1>3 DEF CacheRight, pool
<1>5. IsTheory(structure, th)
  <2>1. Head(requests) \in Range(requests)
    BY <1>2, <1>3, HeadTail DEF SessionOK
  <2> QED
    BY <1>2, <1>3, <2>1 DEF SessionOK
<1>6. PartOfModel(structure)
  BY <1>3 DEF SessionOK
<1>7. \A i \in DOMAIN th : st[i] = Unknown(structure)
  BY <1>2
<1>8. st \in [DOMAIN th -> Approximation(structure)]
  BY <1>2, <1>6, UnknownType
<1>9. \A i \in DOMAIN th, p \in Parity : Single(st[i][p])
  BY <1>7, UnknownSingle
<1>10. \A B : Limit(structure, th, B) => Within(th, B, st)
  BY <1>7 DEF Limit, Within
<1> QED
  BY <1>1, <1>2, <1>3, <1>4, <1>5, <1>8, <1>9, <1>10, PropagateStepInv

\* NextStep keeps the invariant: another round, or the conclusion.
LEMMA NextStepInv ==
  ASSUME Inv, NextStep
  PROVE  Inv'
<1>1. /\ stage = "update"
      /\ PropagateStep(theory, states) \/ Conclude
      /\ UNCHANGED <<structure, workers, requests, theory, states, reply, pool>>
  BY DEF NextStep
<1>2. CacheRight'
  BY <1>1 DEF Inv, ShapeOK, CacheRight, pool
<1>3. CASE Conclude
  BY <1>1, <1>2, <1>3, ConcludeInv
<1>4. CASE PropagateStep(theory, states)
  <2>1. PICK th, st : th = theory /\ st = states
    OBVIOUS
  <2>2. /\ SessionOK /\ ReplyRight
        /\ requests # <<>> /\ th = ParseTheory(Head(requests).facts) /\ IsTheory(structure, th)
    BY <1>1, <2>1 DEF Inv, ShapeOK, TheoryOK
  <2>3. /\ st \in [DOMAIN th -> Approximation(structure)]
        /\ \A i \in DOMAIN th, p \in Parity : Single(st[i][p])
    BY <2>1 DEF Inv, ShapeOK, StatesOK
  <2>4. \A B : Limit(structure, th, B) => Within(th, B, st)
    BY <2>1 DEF Inv, LimitsHold, LimitHolds
  <2>5. theory' = th /\ states' = st /\ PropagateStep(th, st)
    BY <1>1, <1>4, <2>1
  <2> QED
    BY <1>1, <1>2, <2>2, <2>3, <2>4, <2>5, PropagateStepInv
<1> QED
  BY <1>1, <1>3, <1>4

\* Reply keeps the invariant: a reply of FALSE is about a theory whose limits
\* all clash.
LEMMA ReplyInv ==
  ASSUME Inv, Reply
  PROVE  Inv'
<1>1. /\ stage = "conclude" /\ agenda = <<>>
      /\ reply' = [facts |-> Head(requests).facts, result |-> valid]
      /\ requests' = requests \/ requests' = Tail(requests)
      /\ stage' = "idle"
      /\ theory' = <<>> /\ states' = <<>> /\ valid' = {}
      /\ UNCHANGED <<structure, workers, inbox, changed, agenda, pool>>
  BY DEF Reply
<1>2. requests # <<>> /\ theory = ParseTheory(Head(requests).facts)
  BY <1>1 DEF Inv, ShapeOK, TheoryOK
<1>3. SessionOK'
  <2>1. PICK X : X = Range(requests)
    OBVIOUS
  <2>2. requests \in Seq(X) /\ PartOfModel(structure) /\ \A r \in X : IsTheory(structure, ParseTheory(r.facts))
    BY <2>1 DEF Inv, ShapeOK, SessionOK
  <2>3. PICK rs \in Seq(X) : rs = requests' /\ Range(rs) \subseteq X
    <3>1. Tail(requests) \in Seq(X) /\ Range(Tail(requests)) \subseteq X
      BY <1>2, <2>1, <2>2, HeadTail
    <3> QED
      BY <1>1, <2>1, <2>2, <3>1
  <2>4. rs \in Seq(Range(rs))
    BY SeqOfRange
  <2>5. PartOfModel(structure') /\ \A r \in Range(rs) : IsTheory(structure', ParseTheory(r.facts))
    BY <1>1, <2>2, <2>3
  <2> QED
    BY <2>3, <2>4, <2>5 DEF SessionOK
<1>4. TheoryOK'
  <2>1. PICK s : s = structure
    OBVIOUS
  <2>2. <<>> \in Seq(Range(<<>>)) /\ DOMAIN <<>> = {}
    OBVIOUS
  <2>3. IsTheory(s, <<>>)
    BY <2>2 DEF IsTheory
  <2>4. IsTheory(structure', theory')
    BY <1>1, <2>1, <2>3
  <2> QED
    BY <1>1, <2>4 DEF TheoryOK
<1>5. StatesOK'
  <2>1. DOMAIN <<>> = {} /\ <<>> \in [{} -> Approximation(structure)]
    OBVIOUS
  <2> QED
    BY <1>1, <2>1 DEF StatesOK, Busy
<1>6. AgendaOK' /\ Ready'
  BY <1>1 DEF AgendaOK, Ready
<1>7. CacheRight'
  BY <1>1 DEF Inv, ShapeOK, CacheRight, pool
<1>8. LimitsHold'
  <2>1. DOMAIN <<>> = {} /\ Range(<<>>) = {}
    BY DEF Range
  <2>2. ASSUME NEW B PROVE Within(<<>>, B, <<>>) /\ Heard(B)' /\ Due(B)'
    BY <1>1, <2>1 DEF Within, Heard, Busy, Due
  <2> QED
    BY <1>1, <2>2 DEF LimitsHold, LimitHolds
<1>9. ReplyRight'
  <2>1. PICK th : th = theory
    OBVIOUS
  <2>2. /\ IsTheory(structure, th)
        /\ valid = {FALSE} => \A B : Limit(structure, th, B) => Clashes(th, B)
    BY <2>1 DEF Inv, ShapeOK, TheoryOK, LimitsHold, LimitHolds
  <2>3. ParseTheory(reply'.facts) = th /\ reply'.result = valid /\ structure' = structure
    BY <1>1, <1>2, <2>1
  <2> QED
    BY <2>2, <2>3 DEF ReplyRight
<1> QED
  BY <1>3, <1>4, <1>5, <1>6, <1>7, <1>8, <1>9 DEF Inv, ShapeOK

\* Store keeps the invariant: it stores the value of the key.
LEMMA StoreInv ==
  ASSUME Inv, Store
  PROVE  Inv'
<1>1. UNCHANGED <<structure, workers, server>>
  BY DEF Store
<1>2. UNCHANGED <<structure, requests, theory, states, inbox, changed, valid, stage, agenda, reply>>
  BY <1>1 DEF server
<1>3. SessionOK' /\ TheoryOK'
  BY <1>2, SessionKept, TheoryKept DEF Inv, ShapeOK
<1>4. StatesOK' /\ AgendaOK'
  BY <1>2 DEF Inv, ShapeOK, StatesOK, AgendaOK, Busy, Updates, Joins, Adoptions, Single
<1>5. Ready'
  <2>1. PICK q, F : q = agenda /\ F = Fusions
    OBVIOUS
  <2>2. q = agenda' /\ F = Fusions'
    BY <1>2, <2>1 DEF Fusions, Fused
  <2>3. CASE stage = "update"
    <3>1. Prepared(q, F)
      BY <2>1, <2>3 DEF Inv, ShapeOK, Ready
    <3> QED
      BY <2>2, <3>1, ReadyNext
  <2>4. CASE stage # "update"
    BY <1>2, <2>4 DEF Ready
  <2> QED
    BY <2>3, <2>4
<1>6. CacheRight'
  BY CacheStore DEF Inv, ShapeOK
<1>7. LimitsHold'
  BY <1>2 DEF Inv, LimitsHold, LimitHolds, Heard, Due, Busy
<1>8. ReplyRight'
  BY <1>2 DEF Inv, ReplyRight
<1> QED
  BY <1>3, <1>4, <1>5, <1>6, <1>7, <1>8 DEF Inv, ShapeOK

\* A step that changes nothing keeps the invariant.
LEMMA StutterInv ==
  ASSUME Inv, UNCHANGED vars
  PROVE  Inv'
<1>1. UNCHANGED <<structure, workers, requests, theory, states, inbox, changed, valid, stage, agenda, reply, cache, queue>>
  BY DEF vars, server, pool
<1>2. SessionOK' /\ TheoryOK'
  BY <1>1, SessionKept, TheoryKept DEF Inv, ShapeOK
<1>3. StatesOK' /\ AgendaOK'
  BY <1>1 DEF Inv, ShapeOK, StatesOK, AgendaOK, Busy, Updates, Joins, Adoptions, Single
<1>6. CacheRight'
  BY <1>1 DEF Inv, ShapeOK, CacheRight
<1>4. Ready'
  <2>1. PICK q, F : q = agenda /\ F = Fusions
    OBVIOUS
  <2>2. q = agenda' /\ F = Fusions'
    BY <1>1, <2>1 DEF Fusions, Fused
  <2>3. CASE stage = "update"
    <3>1. Prepared(q, F)
      BY <2>1, <2>3 DEF Inv, ShapeOK, Ready
    <3> QED
      BY <2>2, <3>1, ReadyNext
  <2>4. CASE stage # "update"
    BY <1>1, <2>4 DEF Ready
  <2> QED
    BY <2>3, <2>4
<1>5. LimitsHold' /\ ReplyRight'
  BY <1>1 DEF Inv, LimitsHold, LimitHolds, Heard, Due, Busy, ReplyRight
<1> QED
  BY <1>2, <1>3, <1>4, <1>5, <1>6 DEF Inv, ShapeOK

\* The invariant holds in the beginning.
LEMMA InitInv ==
  ASSUME Init
  PROVE  Inv
<1>1. PICK s \in Sessions :
        /\ structure = s.structure /\ workers = s.workers /\ requests = s.requests
        /\ theory = <<>> /\ states = <<>> /\ inbox = <<>>
        /\ changed = FALSE /\ valid = {}
        /\ stage = "idle" /\ agenda = <<>>
        /\ cache = [binary |-> <<>>, union |-> <<>>, disjoint |-> <<>>]
        /\ queue = <<>>
        /\ reply = [facts |-> <<>>, result |-> {}]
  BY DEF Init
<1>2. SessionOK
  BY <1>1, SessionsAssumption DEF SessionOK
<1>3. TheoryOK
  <2>1. PICK t : t = structure
    OBVIOUS
  <2>2. <<>> \in Seq(Range(<<>>)) /\ DOMAIN <<>> = {}
    OBVIOUS
  <2>3. IsTheory(t, <<>>)
    BY <2>2 DEF IsTheory
  <2> QED
    BY <1>1, <2>1, <2>3 DEF TheoryOK
<1>4. StatesOK
  <2>1. DOMAIN <<>> = {} /\ <<>> \in [{} -> Approximation(structure)]
    OBVIOUS
  <2> QED
    BY <1>1, <2>1 DEF StatesOK, Busy
<1>5. AgendaOK /\ Ready
  BY <1>1 DEF AgendaOK, Ready
<1>6. CacheRight
  <2>1. DOMAIN cache = {"binary", "union", "disjoint"}
    BY <1>1
  <2>2. \A c \in DOMAIN cache : DOMAIN cache[c] = {}
    BY <1>1
  <2> QED
    BY <2>1, <2>2 DEF CacheRight
<1>7. LimitsHold
  <2>1. DOMAIN <<>> = {} /\ Range(<<>>) = {}
    BY DEF Range
  <2> QED
    BY <1>1, <2>1 DEF LimitsHold, LimitHolds, Within, Heard, Busy, Due
<1>8. ReplyRight
  BY <1>1 DEF ReplyRight
<1> QED
  BY <1>2, <1>3, <1>4, <1>5, <1>6, <1>7, <1>8 DEF Inv, ShapeOK

\* The invariant: a reply of FALSE clashes in every limit of its theory, whatever
\* the order in which the server asks its caches and the workers store values.
THEOREM InvAlways == Spec => []Inv
<1>1. Init => Inv
  BY InitInv
<1>2. Inv /\ [Next]_vars => Inv'
  <2> SUFFICES ASSUME Inv, [Next]_vars PROVE Inv'
    OBVIOUS
  <2>1. CASE Call
    BY <2>1, CallInv
  <2>2. CASE Find
    BY <2>2, FindInv
  <2>3. CASE Deliver
    BY <2>3, DeliverInv
  <2>4. CASE Unite
    BY <2>4, UniteInv
  <2>5. CASE Adopt
    BY <2>5, AdoptInv
  <2>6. CASE Judge
    BY <2>6, JudgeInv
  <2>7. CASE NextStep
    BY <2>7, NextStepInv
  <2>8. CASE Reply
    BY <2>8, ReplyInv
  <2>9. CASE Store
    BY <2>9, StoreInv
  <2>10. CASE UNCHANGED vars
    BY <2>10, StutterInv
  <2> QED
    BY <2>1, <2>2, <2>3, <2>4, <2>5, <2>6, <2>7, <2>8, <2>9, <2>10 DEF Next, Serve
<1> QED
  BY <1>1, <1>2, PTL DEF Spec

-----------------------------------------------------------------------------
(* A solution is a limit: what an ob is above and below in the model bounds *)
(* what propagation may say of it.                                         *)

Leq(s, x, y)     == <<x, y>> \in s.order
Apply(s, f, x, y) == s.model[f][<<x, y>>]

Truth(s, v) == [ABOVE  |-> {y \in Obs(s) : Leq(s, v, y)},   BELOW  |-> {y \in Obs(s) : Leq(s, y, v)},
                NABOVE |-> {y \in Obs(s) : ~ Leq(s, v, y)}, NBELOW |-> {y \in Obs(s) : ~ Leq(s, y, v)}]

\* The truth of an ob, parity by parity.
LEMMA TruthIs ==
  ASSUME NEW s, NEW v
  PROVE  /\ Truth(s, v)["ABOVE"] = {y \in Obs(s) : Leq(s, v, y)}
         /\ Truth(s, v)["BELOW"] = {y \in Obs(s) : Leq(s, y, v)}
         /\ Truth(s, v)["NABOVE"] = {y \in Obs(s) : ~ Leq(s, v, y)}
         /\ Truth(s, v)["NBELOW"] = {y \in Obs(s) : ~ Leq(s, y, v)}
<1>1. PICK a, b, c, d : /\ a = {y \in Obs(s) : Leq(s, v, y)}
                        /\ b = {y \in Obs(s) : Leq(s, y, v)}
                        /\ c = {y \in Obs(s) : ~ Leq(s, v, y)}
                        /\ d = {y \in Obs(s) : ~ Leq(s, y, v)}
  OBVIOUS
<1>2. Truth(s, v) = [ABOVE |-> a, BELOW |-> b, NABOVE |-> c, NBELOW |-> d]
  BY <1>1 DEF Truth
<1>3. Truth(s, v)["ABOVE"] = a /\ Truth(s, v)["BELOW"] = b /\ Truth(s, v)["NABOVE"] = c /\ Truth(s, v)["NBELOW"] = d
  BY <1>2
<1> QED
  BY <1>1, <1>3

\* The order of a model.
LEMMA OrderFacts ==
  ASSUME NEW s, PartOfModel(s)
  PROVE  /\ s.TOP \in Obs(s) /\ s.BOT \in Obs(s)
         /\ \A x \in Obs(s) : Leq(s, x, x) /\ Leq(s, s.BOT, x) /\ Leq(s, x, s.TOP)
         /\ \A x, y, z \in Obs(s) : Leq(s, x, y) /\ Leq(s, y, z) => Leq(s, x, z)
  BY DEF PartOfModel, Leq

\* What the entries of a table say.
LEMMA TableFacts ==
  ASSUME NEW s, PartOfModel(s), NEW x \in Obs(s)
  PROVE  /\ \A y \in Above(s, x) : y \in Obs(s) /\ Leq(s, x, y)
         /\ \A y \in Below(s, x) : y \in Obs(s) /\ Leq(s, y, x)
         /\ \A y \in NAbove(s, x) : y \in Obs(s) /\ ~ Leq(s, x, y)
         /\ \A y \in NBelow(s, x) : y \in Obs(s) /\ ~ Leq(s, y, x)
<1>1. \A a, b \in Obs(s) : <<a, b>> \in s.less => Leq(s, a, b)
  BY DEF PartOfModel, Leq
<1>2. \A a, b \in Obs(s) : <<a, b>> \in s.nless => ~ Leq(s, a, b)
  BY DEF PartOfModel, Leq
<1> QED
  BY <1>1, <1>2 DEF Above, Below, NAbove, NBelow

\* The functions of a model are monotone.
LEMMA ModelFacts ==
  ASSUME NEW s, PartOfModel(s), NEW f \in DOMAIN s.model
  PROVE  /\ \A x, y \in Obs(s) : Apply(s, f, x, y) \in Obs(s)
         /\ \A x, y, u, v \in Obs(s) : Leq(s, x, u) /\ Leq(s, y, v) => Leq(s, Apply(s, f, x, y), Apply(s, f, u, v))
         /\ f \in s.symmetric => \A x, y \in Obs(s) : Apply(s, f, x, y) = Apply(s, f, y, x)
         /\ \A e \in Entries(s, f) : /\ e[1] \in Obs(s) /\ e[2] \in Obs(s) /\ e[3] \in Obs(s)
                                     /\ e[3] = Apply(s, f, e[1], e[2])
<1>1. /\ \A x, y \in Obs(s) : Apply(s, f, x, y) \in Obs(s)
      /\ \A x, y, z \in Obs(s) : Leq(s, x, y) => /\ Leq(s, Apply(s, f, x, z), Apply(s, f, y, z))
                                                 /\ Leq(s, Apply(s, f, z, x), Apply(s, f, z, y))
      /\ f \in s.symmetric => \A x, y \in Obs(s) : Apply(s, f, x, y) = Apply(s, f, y, x)
      /\ \A e \in Entries(s, f) : {e[1], e[2], e[3]} \subseteq Obs(s) /\ e[3] = Apply(s, f, e[1], e[2])
  BY DEF PartOfModel, Leq, Apply
<1>2. ASSUME NEW x \in Obs(s), NEW y \in Obs(s), NEW u \in Obs(s), NEW v \in Obs(s), Leq(s, x, u), Leq(s, y, v)
      PROVE  Leq(s, Apply(s, f, x, y), Apply(s, f, u, v))
  <2>1. Leq(s, Apply(s, f, x, y), Apply(s, f, u, y)) /\ Leq(s, Apply(s, f, u, y), Apply(s, f, u, v))
    BY <1>1, <1>2
  <2> QED
    BY <1>1, <2>1, OrderFacts
<1> QED
  BY <1>1, <1>2

\* A value that two ends share is the value in between.
LEMMA ConstantFact ==
  ASSUME NEW s, PartOfModel(s), NEW f \in DOMAIN s.model, NEW l \in Obs(s), NEW r \in Obs(s), Constant(s, f, l)
  PROVE  Leq(s, Apply(s, f, l, s.TOP), Apply(s, f, l, r)) /\ Leq(s, Apply(s, f, l, r), Apply(s, f, l, s.TOP))
<1>1. PICK v \in Obs(s) : <<l, s.TOP, v>> \in Entries(s, f) /\ <<l, s.BOT, v>> \in Entries(s, f)
  BY DEF Constant
<1>2. \A a, b, c : <<a, b, c>>[1] = a /\ <<a, b, c>>[2] = b /\ <<a, b, c>>[3] = c
  OBVIOUS
<1>3. v = Apply(s, f, l, s.TOP) /\ v = Apply(s, f, l, s.BOT)
  BY <1>1, <1>2, ModelFacts
<1>4. Leq(s, s.BOT, r) /\ Leq(s, r, s.TOP) /\ Leq(s, l, l) /\ s.TOP \in Obs(s) /\ s.BOT \in Obs(s)
  BY OrderFacts
<1>5. Leq(s, Apply(s, f, l, s.BOT), Apply(s, f, l, r)) /\ Leq(s, Apply(s, f, l, r), Apply(s, f, l, s.TOP))
  BY <1>4, ModelFacts
<1> QED
  BY <1>3, <1>5

\* The value of a function is among what lazy_binary_function_lhs_rhs() leaves.
LEMMA ForwardSound ==
  ASSUME NEW s, PartOfModel(s), NEW f \in DOMAIN s.model, NEW l \in Obs(s), NEW r \in Obs(s),
         NEW p \in {"ABOVE", "BELOW"}, NEW a \in SUBSET Truth(s, l)[p], NEW b \in SUBSET Truth(s, r)[p]
  PROVE  FunctionLhsRhs(s, f, a, b, p) \subseteq Truth(s, Apply(s, f, l, r))[p]
<1> DEFINE v == Apply(s, f, l, r)
           optimum == IF p = "ABOVE" THEN s.TOP ELSE s.BOT
           vals == {e[3] : e \in {e \in Entries(s, f) :
                     e[1] \in a /\ IF Constant(s, f, e[1]) THEN e[2] = s.TOP ELSE e[2] \in b}}
<1>1. FunctionLhsRhs(s, f, a, b, p) = {optimum} \cup Convex(s, vals, p = "ABOVE")
  BY DEF FunctionLhsRhs
<1>2. v \in Obs(s)
  BY ModelFacts
<1>3. ASSUME NEW x \in vals
      PROVE  /\ x \in Obs(s)
             /\ p = "ABOVE" => Leq(s, v, x)
             /\ p = "BELOW" => Leq(s, x, v)
  <2>1. PICK e \in Entries(s, f) :
          /\ x = e[3] /\ e[1] \in a
          /\ IF Constant(s, f, e[1]) THEN e[2] = s.TOP ELSE e[2] \in b
    BY <1>3
  <2>2. e[1] \in Obs(s) /\ e[2] \in Obs(s) /\ x \in Obs(s) /\ x = Apply(s, f, e[1], e[2])
    BY <2>1, ModelFacts
  <2>3. CASE p = "ABOVE"
    <3>1. Leq(s, l, e[1])
      BY <2>1, <2>3, TruthIs
    <3>2. Leq(s, r, e[2])
      BY <2>1, <2>3, TruthIs, OrderFacts
    <3> QED
      BY <2>2, <2>3, <3>1, <3>2, ModelFacts
  <2>4. CASE p = "BELOW"
    <3>1. Leq(s, e[1], l)
      BY <2>1, <2>4, TruthIs
    <3>2. CASE Constant(s, f, e[1])
      <4>1. Leq(s, x, Apply(s, f, e[1], r))
        BY <2>1, <2>2, <3>2, ConstantFact
      <4>2. Leq(s, Apply(s, f, e[1], r), v) /\ Apply(s, f, e[1], r) \in Obs(s)
        BY <2>2, <3>1, ModelFacts, OrderFacts
      <4> QED
        BY <1>2, <2>2, <2>4, <4>1, <4>2, OrderFacts
    <3>3. CASE ~ Constant(s, f, e[1])
      <4>1. Leq(s, e[2], r)
        BY <2>1, <2>4, <3>3, TruthIs
      <4> QED
        BY <2>2, <2>4, <3>1, <4>1, ModelFacts
    <3> QED
      BY <3>2, <3>3
  <2> QED
    BY <2>2, <2>3, <2>4
<1> HIDE DEF vals
<1>4. CASE p = "ABOVE"
  <2>1. optimum \in Truth(s, v)[p]
    BY <1>2, <1>4, TruthIs, OrderFacts
  <2>2. ASSUME NEW y \in Convex(s, vals, p = "ABOVE") PROVE y \in Truth(s, v)[p]
    <3>1. PICK x \in vals : y \in Above(s, x)
      BY <1>4, <2>2 DEF Convex
    <3>2. x \in Obs(s) /\ Leq(s, v, x)
      BY <1>3, <1>4
    <3>3. y \in Obs(s) /\ Leq(s, x, y)
      BY <3>1, <3>2, TableFacts
    <3>4. Leq(s, v, y)
      BY <1>2, <3>2, <3>3, OrderFacts
    <3> QED
      BY <1>4, <3>3, <3>4, TruthIs
  <2>3. PICK T, c : T = Truth(s, v)[p] /\ c = Convex(s, vals, p = "ABOVE")
    OBVIOUS
  <2>4. optimum \in T /\ c \subseteq T
    BY <2>1, <2>2, <2>3
  <2>5. {optimum} \cup c \subseteq T
    BY <2>4
  <2> QED
    BY <1>1, <2>3, <2>5
<1>5. CASE p = "BELOW"
  <2>1. optimum \in Truth(s, v)[p]
    BY <1>2, <1>5, TruthIs, OrderFacts
  <2>2. ASSUME NEW y \in Convex(s, vals, p = "ABOVE") PROVE y \in Truth(s, v)[p]
    <3>1. PICK x \in vals : y \in Below(s, x)
      BY <1>5, <2>2 DEF Convex
    <3>2. x \in Obs(s) /\ Leq(s, x, v)
      BY <1>3, <1>5
    <3>3. y \in Obs(s) /\ Leq(s, y, x)
      BY <3>1, <3>2, TableFacts
    <3>4. Leq(s, y, v)
      BY <1>2, <3>2, <3>3, OrderFacts
    <3> QED
      BY <1>5, <3>3, <3>4, TruthIs
  <2>3. PICK T, c : T = Truth(s, v)[p] /\ c = Convex(s, vals, p = "ABOVE")
    OBVIOUS
  <2>4. optimum \in T /\ c \subseteq T
    BY <2>1, <2>2, <2>3
  <2>5. {optimum} \cup c \subseteq T
    BY <2>4
  <2> QED
    BY <1>1, <2>3, <2>5
<1> QED
  BY <1>4, <1>5

\* What is below an ob that is not above v is not above v.
LEMMA ConvexDown ==
  ASSUME NEW s, PartOfModel(s), NEW xs \in SUBSET Obs(s), NEW v \in Obs(s),
         \A x \in xs : ~ Leq(s, v, x)
  PROVE  Convex(s, xs, FALSE) \subseteq Truth(s, v)["NABOVE"]
<1> SUFFICES ASSUME NEW y \in Convex(s, xs, FALSE) PROVE y \in Truth(s, v)["NABOVE"]
  OBVIOUS
<1>1. PICK x \in xs : y \in Below(s, x)
  BY DEF Convex
<1>2. y \in Obs(s) /\ Leq(s, y, x) /\ ~ Leq(s, v, x)
  BY <1>1, TableFacts
<1>3. ~ Leq(s, v, y)
  BY <1>2, OrderFacts
<1> QED
  BY <1>2, <1>3, TruthIs

\* What is above an ob that is not below v is not below v.
LEMMA ConvexUp ==
  ASSUME NEW s, PartOfModel(s), NEW xs \in SUBSET Obs(s), NEW v \in Obs(s),
         \A x \in xs : ~ Leq(s, x, v)
  PROVE  Convex(s, xs, TRUE) \subseteq Truth(s, v)["NBELOW"]
<1> SUFFICES ASSUME NEW y \in Convex(s, xs, TRUE) PROVE y \in Truth(s, v)["NBELOW"]
  OBVIOUS
<1>1. PICK x \in xs : y \in Above(s, x)
  BY DEF Convex
<1>2. y \in Obs(s) /\ Leq(s, x, y) /\ ~ Leq(s, x, v)
  BY <1>1, TableFacts
<1>3. ~ Leq(s, y, v)
  BY <1>2, OrderFacts
<1> QED
  BY <1>2, <1>3, TruthIs

Positive(p) == IF p = "NABOVE" THEN "ABOVE" ELSE "BELOW"

\* A right argument is among what lazy_binary_function_lhs_val() leaves.
LEMMA BackwardRhs ==
  ASSUME NEW s, PartOfModel(s), NEW f \in DOMAIN s.model, NEW l \in Obs(s), NEW r \in Obs(s),
         NEW p \in {"NABOVE", "NBELOW"},
         NEW a \in SUBSET Truth(s, l)[Positive(p)], NEW b \in SUBSET Truth(s, Apply(s, f, l, r))[p]
  PROVE  FunctionLhsVal(s, f, a, b, p) \subseteq Truth(s, r)[p]
<1>1. PICK xs : xs = {e[2] : e \in {e \in Entries(s, f) : e[1] \in a /\ e[3] \in b}}
  OBVIOUS
<1>2. FunctionLhsVal(s, f, a, b, p) = Convex(s, xs, p = "NBELOW")
  BY <1>1 DEF FunctionLhsVal
<1>3. PICK v \in Obs(s) : v = Apply(s, f, l, r)
  BY ModelFacts
<1>4. ASSUME NEW x \in xs
      PROVE  /\ x \in Obs(s)
             /\ p = "NABOVE" => ~ Leq(s, r, x)
             /\ p = "NBELOW" => ~ Leq(s, x, r)
  <2>1. PICK e \in Entries(s, f) : x = e[2] /\ e[1] \in a /\ e[3] \in b
    BY <1>1
  <2>2. PICK x1 \in Obs(s), x3 \in Obs(s) : x1 = e[1] /\ x3 = e[3] /\ x \in Obs(s) /\ x3 = Apply(s, f, x1, x)
    BY <2>1, ModelFacts
  <2>3. CASE p = "NABOVE"
    <3>1. Leq(s, l, x1) /\ ~ Leq(s, v, x3)
      BY <1>3, <2>1, <2>2, <2>3, TruthIs DEF Positive
    <3> QED
      BY <1>3, <2>2, <2>3, <3>1, ModelFacts
  <2>4. CASE p = "NBELOW"
    <3>1. Leq(s, x1, l) /\ ~ Leq(s, x3, v)
      BY <1>3, <2>1, <2>2, <2>4, TruthIs DEF Positive
    <3> QED
      BY <1>3, <2>2, <2>4, <3>1, ModelFacts
  <2> QED
    BY <2>2, <2>3, <2>4
<1>5. xs \in SUBSET Obs(s)
  BY <1>4
<1>6. CASE p = "NABOVE"
  <2>1. Convex(s, xs, FALSE) \subseteq Truth(s, r)["NABOVE"]
    BY <1>4, <1>5, <1>6, ConvexDown
  <2>2. (p = "NBELOW") = FALSE
    BY <1>6
  <2> QED
    BY <1>2, <1>6, <2>1, <2>2
<1>7. CASE p = "NBELOW"
  <2>1. Convex(s, xs, TRUE) \subseteq Truth(s, r)["NBELOW"]
    BY <1>4, <1>5, <1>7, ConvexUp
  <2>2. (p = "NBELOW") = TRUE
    BY <1>7
  <2> QED
    BY <1>2, <1>7, <2>1, <2>2
<1> QED
  BY <1>6, <1>7

\* A left argument is among what lazy_binary_function_rhs_val() leaves.
LEMMA BackwardLhs ==
  ASSUME NEW s, PartOfModel(s), NEW f \in DOMAIN s.model, NEW l \in Obs(s), NEW r \in Obs(s),
         NEW p \in {"NABOVE", "NBELOW"},
         NEW a \in SUBSET Truth(s, r)[Positive(p)], NEW b \in SUBSET Truth(s, Apply(s, f, l, r))[p]
  PROVE  FunctionRhsVal(s, f, a, b, p) \subseteq Truth(s, l)[p]
<1>1. PICK xs : xs = {e[1] : e \in {e \in Entries(s, f) : e[2] \in a /\ e[3] \in b}}
  OBVIOUS
<1>2. FunctionRhsVal(s, f, a, b, p) = Convex(s, xs, p = "NBELOW")
  BY <1>1 DEF FunctionRhsVal
<1>3. PICK v \in Obs(s) : v = Apply(s, f, l, r)
  BY ModelFacts
<1>4. ASSUME NEW x \in xs
      PROVE  /\ x \in Obs(s)
             /\ p = "NABOVE" => ~ Leq(s, l, x)
             /\ p = "NBELOW" => ~ Leq(s, x, l)
  <2>1. PICK e \in Entries(s, f) : x = e[1] /\ e[2] \in a /\ e[3] \in b
    BY <1>1
  <2>2. PICK x2 \in Obs(s), x3 \in Obs(s) : x2 = e[2] /\ x3 = e[3] /\ x \in Obs(s) /\ x3 = Apply(s, f, x, x2)
    BY <2>1, ModelFacts
  <2>3. CASE p = "NABOVE"
    <3>1. Leq(s, r, x2) /\ ~ Leq(s, v, x3)
      BY <1>3, <2>1, <2>2, <2>3, TruthIs DEF Positive
    <3> QED
      BY <1>3, <2>2, <2>3, <3>1, ModelFacts
  <2>4. CASE p = "NBELOW"
    <3>1. Leq(s, x2, r) /\ ~ Leq(s, x3, v)
      BY <1>3, <2>1, <2>2, <2>4, TruthIs DEF Positive
    <3> QED
      BY <1>3, <2>2, <2>4, <3>1, ModelFacts
  <2> QED
    BY <2>2, <2>3, <2>4
<1>5. xs \in SUBSET Obs(s)
  BY <1>4
<1>6. CASE p = "NABOVE"
  <2>1. Convex(s, xs, FALSE) \subseteq Truth(s, l)["NABOVE"]
    BY <1>4, <1>5, <1>6, ConvexDown
  <2>2. (p = "NBELOW") = FALSE
    BY <1>6
  <2> QED
    BY <1>2, <1>6, <2>1, <2>2
<1>7. CASE p = "NBELOW"
  <2>1. Convex(s, xs, TRUE) \subseteq Truth(s, l)["NBELOW"]
    BY <1>4, <1>5, <1>7, ConvexUp
  <2>2. (p = "NBELOW") = TRUE
    BY <1>7
  <2> QED
    BY <1>2, <1>7, <2>1, <2>2
<1> QED
  BY <1>6, <1>7

Answer(s, f, target, p, a, b) == BinaryValue(s, BinaryKey(s, f, target, p, a, b))

\* The answer of a cache, a symmetric function having one for both arguments.
LEMMA AnswerIs ==
  ASSUME NEW s, NEW f, NEW p, NEW a, NEW b
  PROVE  /\ Answer(s, f, "VAL", p, a, b) = FunctionLhsRhs(s, f, a, b, p)
         /\ Answer(s, f, "RHS", p, a, b) = FunctionLhsVal(s, f, a, b, p)
         /\ Answer(s, f, "LHS", p, a, b) = IF f \in s.symmetric THEN FunctionLhsVal(s, f, a, b, p)
                                           ELSE FunctionRhsVal(s, f, a, b, p)
<1>1. ASSUME NEW target, NEW t, t = IF f \in s.symmetric /\ target = "LHS" THEN "RHS" ELSE target,
             t \in {"VAL", "RHS", "LHS"}
      PROVE  Answer(s, f, target, p, a, b) = CASE t = "VAL" -> FunctionLhsRhs(s, f, a, b, p)
                                               [] t = "RHS" -> FunctionLhsVal(s, f, a, b, p)
                                               [] t = "LHS" -> FunctionRhsVal(s, f, a, b, p)
  <2>1. PICK k : k = [name |-> f, parity |-> p, args |-> <<a, b>>, target |-> t]
    OBVIOUS
  <2>2. k.name = f /\ k.parity = p /\ k.args[1] = a /\ k.args[2] = b /\ k.target = t
    BY <2>1
  <2>3. BinaryKey(s, f, target, p, a, b) = k
    BY <1>1, <2>1 DEF BinaryKey
  <2> QED
    BY <2>2, <2>3 DEF Answer, BinaryValue
<1>2. Answer(s, f, "VAL", p, a, b) = FunctionLhsRhs(s, f, a, b, p)
  BY <1>1
<1>3. Answer(s, f, "RHS", p, a, b) = FunctionLhsVal(s, f, a, b, p)
  BY <1>1
<1>4. CASE f \in s.symmetric
  BY <1>1, <1>2, <1>3, <1>4
<1>5. CASE f \notin s.symmetric
  BY <1>1, <1>2, <1>3, <1>5
<1> QED
  BY <1>4, <1>5

\* The answers of the caches of a function are true of the obs of a solution.
LEMMA AnswersSound ==
  ASSUME NEW s, PartOfModel(s), NEW f \in DOMAIN s.model, NEW l \in Obs(s), NEW r \in Obs(s),
         NEW i, i = Apply(s, f, l, r)
  PROVE  /\ \A p \in {"ABOVE", "BELOW"} : \A a \in SUBSET Truth(s, l)[p], b \in SUBSET Truth(s, r)[p] :
              Answer(s, f, "VAL", p, a, b) \subseteq Truth(s, i)[p]
         /\ \A p \in {"NABOVE", "NBELOW"} : \A a \in SUBSET Truth(s, l)[Positive(p)], b \in SUBSET Truth(s, i)[p] :
              Answer(s, f, "RHS", p, a, b) \subseteq Truth(s, r)[p]
         /\ \A p \in {"NABOVE", "NBELOW"} : \A a \in SUBSET Truth(s, r)[Positive(p)], b \in SUBSET Truth(s, i)[p] :
              Answer(s, f, "LHS", p, a, b) \subseteq Truth(s, l)[p]
<1>1. ASSUME NEW p \in {"ABOVE", "BELOW"}, NEW a \in SUBSET Truth(s, l)[p], NEW b \in SUBSET Truth(s, r)[p]
      PROVE  Answer(s, f, "VAL", p, a, b) \subseteq Truth(s, i)[p]
  BY AnswerIs, ForwardSound
<1>2. ASSUME NEW p \in {"NABOVE", "NBELOW"}, NEW a \in SUBSET Truth(s, l)[Positive(p)], NEW b \in SUBSET Truth(s, i)[p]
      PROVE  Answer(s, f, "RHS", p, a, b) \subseteq Truth(s, r)[p]
  BY AnswerIs, BackwardRhs
<1>3. ASSUME NEW p \in {"NABOVE", "NBELOW"}, NEW a \in SUBSET Truth(s, r)[Positive(p)], NEW b \in SUBSET Truth(s, i)[p]
      PROVE  Answer(s, f, "LHS", p, a, b) \subseteq Truth(s, l)[p]
  <2>1. CASE f \in s.symmetric
    <3>1. i = Apply(s, f, r, l)
      BY <2>1, ModelFacts
    <3>2. FunctionLhsVal(s, f, a, b, p) \subseteq Truth(s, l)[p]
      BY <3>1, BackwardRhs
    <3> QED
      BY <2>1, <3>2, AnswerIs
  <2>2. CASE f \notin s.symmetric
    <3>1. FunctionRhsVal(s, f, a, b, p) \subseteq Truth(s, l)[p]
      BY BackwardLhs
    <3> QED
      BY <2>2, <3>1, AnswerIs
  <2> QED
    BY <2>1, <2>2
<1> QED
  BY <1>1, <1>2, <1>3

\* The bounds that a solution sets respect every constraint.
LEMMA SolutionRespects ==
  ASSUME NEW s, NEW th, PartOfModel(s), IsTheory(s, th),
         NEW vals \in [DOMAIN th -> Obs(s)], Solves(s, th, vals),
         NEW B, \A j \in DOMAIN th : B[j] = Truth(s, vals[j]), NEW i \in DOMAIN th,
         \A j \in DOMAIN th, p \in Parity : Under(B, j, p, Unknown(s)[p])
  PROVE  Respects(s, th, B, i)
<1> DEFINE e == th[i]
           l == e.args[1]
           r == e.args[2]
           Lets(to, target, p, x, y) ==
             \A a \in SUBSET x, b \in SUBSET y : Answer(s, e.name, target, p, a, b) \subseteq B[to][p]
<1>1. ASSUME e.arity = "NULLARY_FUNCTION", NEW p \in Parity
      PROVE  Under(B, i, p, NullaryFunction(s, e.name)[p])
  <2>1. CASE s.constant[e.name] = 0
    BY <2>1 DEF NullaryFunction
  <2>2. CASE s.constant[e.name] # 0
    <3>1. PICK c : c = s.constant[e.name]
      OBVIOUS
    <3>2. e.name \in DOMAIN s.constant
      BY <1>1 DEF IsTheory
    <3>3. c \in Obs(s) /\ c = s.meaning[e.name]
      BY <2>2, <3>1, <3>2 DEF PartOfModel
    <3>4. vals[i] = c
      BY <1>1, <3>3 DEF Solves
    <3>5. NullaryFunction(s, e.name) = Known(s, c)
      BY <2>2, <3>1 DEF NullaryFunction
    <3>6. PICK w, x, y, z : /\ w = Above(s, c) /\ x = Below(s, c) /\ y = NAbove(s, c) /\ z = NBelow(s, c)
      OBVIOUS
    <3>7. Known(s, c) = [ABOVE |-> {w}, BELOW |-> {x}, NABOVE |-> {y}, NBELOW |-> {z}]
      BY <3>6 DEF Known
    <3>8. /\ Known(s, c)["ABOVE"] = {w} /\ Known(s, c)["BELOW"] = {x}
          /\ Known(s, c)["NABOVE"] = {y} /\ Known(s, c)["NBELOW"] = {z}
      BY <3>7
    <3>9. B[i] = Truth(s, c)
      BY <3>4
    <3>10. w \subseteq B[i]["ABOVE"] /\ x \subseteq B[i]["BELOW"] /\ y \subseteq B[i]["NABOVE"] /\ z \subseteq B[i]["NBELOW"]
      BY <3>3, <3>6, <3>9, TruthIs, TableFacts
    <3> QED
      BY <3>5, <3>8, <3>10 DEF Under, Parity
  <2> QED
    BY <2>1, <2>2
<1>2. ASSUME e.name = "LESS"
      PROVE  /\ B[r]["ABOVE"] \subseteq B[l]["ABOVE"] /\ B[r]["NBELOW"] \subseteq B[l]["NBELOW"]
             /\ B[l]["BELOW"] \subseteq B[r]["BELOW"] /\ B[l]["NABOVE"] \subseteq B[r]["NABOVE"]
  <2>1. l \in DOMAIN th /\ r \in DOMAIN th
    BY <1>2 DEF IsTheory
  <2>2. PICK x \in Obs(s), y \in Obs(s) : x = vals[l] /\ y = vals[r]
    BY <2>1
  <2>3. Leq(s, x, y)
    BY <1>2, <2>2 DEF Solves, Leq
  <2>4. B[l] = Truth(s, x) /\ B[r] = Truth(s, y)
    BY <2>1, <2>2
  <2> QED
    BY <2>3, <2>4, TruthIs, OrderFacts
<1>3. ASSUME e.name = "NLESS"
      PROVE  B[r]["BELOW"] \subseteq B[l]["NABOVE"] /\ B[l]["ABOVE"] \subseteq B[r]["NBELOW"]
  <2>1. l \in DOMAIN th /\ r \in DOMAIN th
    BY <1>3 DEF IsTheory
  <2>2. PICK x \in Obs(s), y \in Obs(s) : x = vals[l] /\ y = vals[r]
    BY <2>1
  <2>3. ~ Leq(s, x, y)
    BY <1>3, <2>2 DEF Solves, Leq
  <2>4. B[l] = Truth(s, x) /\ B[r] = Truth(s, y)
    BY <2>1, <2>2
  <2> QED
    BY <2>3, <2>4, TruthIs, OrderFacts
<1>4. ASSUME e.arity = "EQUAL", NEW p \in Parity PROVE B[l][p] = B[r][p]
  <2>1. l \in DOMAIN th /\ r \in DOMAIN th
    BY <1>4 DEF IsTheory
  <2>2. vals[l] = vals[r]
    BY <1>4 DEF Solves
  <2> QED
    BY <2>1, <2>2
<1>5. ASSUME IsFunction(e)
      PROVE  /\ Lets(i, "VAL", "ABOVE", B[l]["ABOVE"], B[r]["ABOVE"])
             /\ Lets(i, "VAL", "BELOW", B[l]["BELOW"], B[r]["BELOW"])
             /\ Lets(r, "RHS", "NABOVE", B[l]["ABOVE"], B[i]["NABOVE"])
             /\ Lets(r, "RHS", "NBELOW", B[l]["BELOW"], B[i]["NBELOW"])
             /\ Lets(l, "LHS", "NABOVE", B[r]["ABOVE"], B[i]["NABOVE"])
             /\ Lets(l, "LHS", "NBELOW", B[r]["BELOW"], B[i]["NBELOW"])
  <2>1. l \in DOMAIN th /\ r \in DOMAIN th /\ e.name \in DOMAIN s.model
    BY <1>5 DEF IsTheory
  <2>2. PICK x \in Obs(s), y \in Obs(s) : x = vals[l] /\ y = vals[r]
    BY <2>1
  <2>3. PICK f \in DOMAIN s.model : f = e.name
    BY <2>1
  <2>4. PICK v : v = vals[i]
    OBVIOUS
  <2>5. v = Apply(s, f, x, y)
    BY <1>5, <2>2, <2>3, <2>4 DEF Solves, Apply
  <2>6. B[l] = Truth(s, x) /\ B[r] = Truth(s, y) /\ B[i] = Truth(s, v)
    BY <2>1, <2>2, <2>4
  <2>7. Positive("NABOVE") = "ABOVE" /\ Positive("NBELOW") = "BELOW"
    BY DEF Positive
  <2>8. /\ \A p \in {"ABOVE", "BELOW"} : Lets(i, "VAL", p, B[l][p], B[r][p])
        /\ \A p \in {"NABOVE", "NBELOW"} : Lets(r, "RHS", p, B[l][Positive(p)], B[i][p])
        /\ \A p \in {"NABOVE", "NBELOW"} : Lets(l, "LHS", p, B[r][Positive(p)], B[i][p])
    BY <2>3, <2>5, <2>6, AnswersSound
  <2> HIDE DEF Lets
  <2> QED
    BY <2>7, <2>8
<1> QED
  BY <1>1, <1>2, <1>3, <1>4, <1>5 DEF Respects, Answer

\* The truth of a solution is a limit, which does not clash.
LEMMA SolutionLimit ==
  ASSUME NEW s, NEW th, PartOfModel(s), IsTheory(s, th),
         NEW vals \in [DOMAIN th -> Obs(s)], Solves(s, th, vals),
         NEW B, \A j \in DOMAIN th : B[j] = Truth(s, vals[j])
  PROVE  Limit(s, th, B) /\ ~ Clashes(th, B)
<1>1. ASSUME NEW j \in DOMAIN th, NEW p \in Parity PROVE Under(B, j, p, Unknown(s)[p])
  <2>1. PICK v \in Obs(s) : v = vals[j] /\ B[j] = Truth(s, v)
    OBVIOUS
  <2>2. PICK a, b : a = Above(s, s.TOP) /\ b = Below(s, s.BOT)
    OBVIOUS
  <2>3. Unknown(s) = [ABOVE |-> {a}, BELOW |-> {b}, NABOVE |-> {{}}, NBELOW |-> {{}}]
    BY <2>2 DEF Unknown
  <2>4. /\ Unknown(s)["ABOVE"] = {a} /\ Unknown(s)["BELOW"] = {b}
        /\ Unknown(s)["NABOVE"] = {{}} /\ Unknown(s)["NBELOW"] = {{}}
    BY <2>3
  <2>5. a \subseteq B[j]["ABOVE"]
    BY <2>1, <2>2, TruthIs, TableFacts, OrderFacts
  <2>6. b \subseteq B[j]["BELOW"]
    BY <2>1, <2>2, TruthIs, TableFacts, OrderFacts
  <2> QED
    BY <2>4, <2>5, <2>6 DEF Under, Parity
<1>2. \A i \in DOMAIN th : Respects(s, th, B, i)
  BY <1>1, SolutionRespects
<1>3. ASSUME NEW j \in DOMAIN th
      PROVE  B[j]["ABOVE"] \cap B[j]["NABOVE"] = {} /\ B[j]["BELOW"] \cap B[j]["NBELOW"] = {}
  BY TruthIs
<1> QED
  BY <1>1, <1>2, <1>3 DEF Limit, Clashes

\* No facts that have a solution are called inconsistent, however the workers and
\* the steps of the server interleave.
THEOREM SoundAlways == Spec => []Sound
<1>1. ASSUME Inv PROVE Sound
  <2> SUFFICES ASSUME reply.result = {FALSE}, Solvable(structure, ParseTheory(reply.facts)) PROVE FALSE
    BY DEF Sound
  <2>1. PICK s, th : s = structure /\ th = ParseTheory(reply.facts)
    OBVIOUS
  <2>2. /\ PartOfModel(s) /\ IsTheory(s, th)
        /\ \A B : Limit(s, th, B) => Clashes(th, B)
    BY <1>1, <2>1 DEF Inv, ShapeOK, SessionOK, ReplyRight
  <2>3. PICK vals \in [DOMAIN th -> Obs(s)] : Solves(s, th, vals)
    BY <2>1 DEF Solvable
  <2>4. PICK B : B = [j \in DOMAIN th |-> Truth(s, vals[j])]
    OBVIOUS
  <2>5. \A j \in DOMAIN th : B[j] = Truth(s, vals[j])
    BY <2>4
  <2> QED
    BY <2>2, <2>3, <2>5, SolutionLimit
<1> QED
  BY <1>1, InvAlways, PTL

=============================================================================
