----------------------------- MODULE PlanProofs -----------------------------
(***************************************************************************)
(* What the operators return that a plan is made of, for every             *)
(* configuration: the messages of the routes one after the other, each     *)
(* register once, and what is left when some are left alone (RoutingPlan). *)
(* FoldLeft and FlattenSeq are recursive functions, which are shown to     *)
(* exist.                                                                  *)
(***************************************************************************)
EXTENDS RoutingPlan, FiniteSetTheorems, WellFoundedInduction, TLAPS

----------------------------------------------------------------------------
(* Folds: FoldLeft is defined by a function over the subsets of the domain, *)
(* of which it has to be shown that it exists.                             *)

LEMMA BelowIsWellFounded ==
  \E R : IsWellFoundedOn(R, Nat) /\ \A x, y \in Nat : <<y, x>> \in R <=> y < x
<1>1. IsWellFoundedOn(OpToRel(<, Nat), Nat)
  BY NatLessThanWellFounded
<1>2. \A x, y \in Nat : <<y, x>> \in OpToRel(<, Nat) <=> y < x
  BY DEF OpToRel
<1>. QED
  BY <1>1, <1>2, Zenon

\* Every non-empty set of naturals has a smallest member.
LEMMA Smallest ==
  ASSUME NEW S \in SUBSET Nat, S # {}
  PROVE  \E x \in S : \A y \in S : x <= y
<1>1. PICK R : IsWellFoundedOn(R, Nat) /\ \A x, y \in Nat : <<y, x>> \in R <=> y < x
  BY BelowIsWellFounded
<1>2. PICK x \in S : \A y \in S : <<y, x>> \notin R
  BY <1>1, WFMin
<1>3. \A y \in S : ~(y < x)
  BY <1>1, <1>2
<1>. QED
  BY <1>3

\* What is true of 0 and goes from a number to the next is true up to n.
LEMMA UpTo ==
  ASSUME NEW n \in Nat, NEW T, 0 \in T, \A k \in 0 .. n : k \in T /\ k < n => k + 1 \in T
  PROVE  \A k \in 0 .. n : k \in T
<1>. DEFINE S == {k \in 0 .. n : k \notin T}
<1>. SUFFICES ASSUME S # {} PROVE FALSE
  OBVIOUS
<1>1. S \in SUBSET Nat
  OBVIOUS
<1>2. PICK k \in S : \A y \in S : k <= y
  <2>. HIDE DEF S
  <2>. QED
    BY <1>1, Smallest
<1>3. k - 1 \in 0 .. n /\ k - 1 \in T /\ k - 1 < n /\ (k - 1) + 1 = k
  BY <1>2
<1>. QED
  BY <1>2, <1>3

\* The largest of the numbers up to k + 1 is k + 1, if it is among them.
LEMMA LargestOf ==
  ASSUME NEW k \in Nat, NEW s \in SUBSET (1 .. k + 1), k + 1 \in s
  PROVE  Max(s) = k + 1
<1>. DEFINE m == Max(s)
<1>1. \A x \in s : k + 1 >= x
  OBVIOUS
<1>2. m \in s /\ \A x \in s : m >= x
  BY <1>1 DEF Max
<1>3. m \in Int /\ m >= k + 1 /\ k + 1 >= m
  <2>. HIDE DEF m
  <2>. QED
    BY <1>1, <1>2
<1>4. m = k + 1
  <2>. HIDE DEF m
  <2>. QED
    BY <1>3
<1>. QED
  BY <1>4

LEMMA LargestIn ==
  ASSUME NEW n \in Nat, NEW s \in SUBSET (1 .. n), s # {}
  PROVE  Max(s) \in s
<1>. DEFINE T == {n - x : x \in s}
<1>1. \A x \in s : n - x \in Nat
  OBVIOUS
<1>2. T \in SUBSET Nat /\ T # {}
  BY <1>1
<1>3. PICK t \in T : \A u \in T : t <= u
  <2>. HIDE DEF T
  <2>. QED
    BY <1>2, Smallest
<1>4. PICK x \in s : t = n - x
  BY <1>3
<1>5. \A y \in s : n - x <= n - y
  BY <1>3, <1>4
<1>6. \A y \in s : x >= y
  BY <1>5
<1>. QED
  BY <1>6 DEF Max

Folded(g, n, X, base, F) ==
  /\ g \in [SUBSET (1 .. n) -> X]
  /\ \A s \in SUBSET (1 .. n) : g[s] = IF s = {} THEN base ELSE F[g[s \ {Max(s)}]][Max(s)]

\* A fold is well defined: the function it is the last value of exists.
LEMMA FoldExists ==
  ASSUME NEW n \in Nat, NEW X, NEW base \in X, NEW F \in [X -> [1 .. n -> X]]
  PROVE  \E g : Folded(g, n, X, base, F)
<1>. DEFINE FoldsTo(g, k) ==
              /\ g \in [SUBSET (1 .. k) -> X]
              /\ \A s \in SUBSET (1 .. k) : g[s] = IF s = {} THEN base ELSE F[g[s \ {Max(s)}]][Max(s)]
            T == {k \in 0 .. n : \E g : FoldsTo(g, k)}
<1>1. 0 \in T
  <2>1. FoldsTo([s \in SUBSET (1 .. 0) |-> base], 0)
    <3>1. SUBSET (1 .. 0) = {{}}
      OBVIOUS
    <3>. QED
      BY <3>1
  <2>2. \E g : FoldsTo(g, 0)
    <3>. HIDE DEF FoldsTo
    <3>. QED
      BY <2>1
  <2>. HIDE DEF FoldsTo
  <2>. QED
    BY <2>2
<1>2. ASSUME NEW k \in 0 .. n, k \in T, k < n
      PROVE  k + 1 \in T
  <2>1. PICK g : FoldsTo(g, k)
    BY <1>2
  <2>. DEFINE h == [s \in SUBSET (1 .. k + 1) |->
                      IF k + 1 \in s THEN F[g[s \ {k + 1}]][k + 1] ELSE g[s]]
  <2>2. ASSUME NEW s \in SUBSET (1 .. k + 1), k + 1 \in s
        PROVE  /\ s \ {Max(s)} \in SUBSET (1 .. k) /\ Max(s) = k + 1 /\ s # {}
               /\ h[s] \in X /\ h[s] = F[h[s \ {Max(s)}]][Max(s)]
    <3>1. Max(s) = k + 1
      BY <2>2, LargestOf
    <3>2. s \ {k + 1} \in SUBSET (1 .. k) /\ k + 1 \notin s \ {k + 1} /\ s \ {k + 1} \in SUBSET (1 .. k + 1)
      OBVIOUS
    <3>3. h[s \ {k + 1}] = g[s \ {k + 1}] /\ g[s \ {k + 1}] \in X /\ k + 1 \in 1 .. n
      BY <3>2, <2>1, <1>2
    <3>4. h[s] = F[g[s \ {k + 1}]][k + 1]
      BY <2>2
    <3>5. F[g[s \ {k + 1}]][k + 1] \in X
      BY <3>3
    <3>. QED
      BY <3>1, <3>2, <3>3, <3>4, <3>5, <2>2
  <2>3. ASSUME NEW s \in SUBSET (1 .. k + 1), k + 1 \notin s
        PROVE  /\ h[s] \in X
               /\ h[s] = IF s = {} THEN base ELSE F[h[s \ {Max(s)}]][Max(s)]
    <3>4. \A x \in s : x \in 1 .. k
      BY <2>3
    <3>1. s \in SUBSET (1 .. k) /\ k + 1 \notin s \ {Max(s)} /\ s \ {Max(s)} \in SUBSET (1 .. k)
          /\ s \ {Max(s)} \in SUBSET (1 .. k + 1)
      BY <3>4, <2>3, Zenon
    <3>2. h[s] = g[s] /\ h[s \ {Max(s)}] = g[s \ {Max(s)}]
      BY <3>1, <2>3
    <3>3. g[s] \in X /\ g[s] = IF s = {} THEN base ELSE F[g[s \ {Max(s)}]][Max(s)]
      BY <3>1, <2>1
    <3>. QED
      BY <3>2, <3>3
  <2>4. FoldsTo(h, k + 1)
    <3>1. \A s \in SUBSET (1 .. k + 1) : h[s] \in X
      BY <2>2, <2>3
    <3>2. h \in [SUBSET (1 .. k + 1) -> X]
      BY <3>1
    <3>3. \A s \in SUBSET (1 .. k + 1) : h[s] = IF s = {} THEN base ELSE F[h[s \ {Max(s)}]][Max(s)]
      <4>. HIDE DEF h
      <4>. QED
        BY <2>2, <2>3
    <3>. QED
      BY <3>2, <3>3
  <2>5. \E g_1 : FoldsTo(g_1, k + 1)
    <3>. HIDE DEF FoldsTo, h
    <3>. QED
      BY <2>4
  <2>. HIDE DEF FoldsTo
  <2>. QED
    BY <2>5, <1>2
<1>3. n \in T
  <2>. HIDE DEF T
  <2>1. \A k \in 0 .. n : k \in T
    BY <1>1, <1>2, UpTo
  <2>. QED
    BY <2>1
<1>4. PICK g : FoldsTo(g, n)
  BY <1>3
<1>. QED
  BY <1>4 DEF Folded

Folds(it, n, X, base, F) ==
  /\ it[{}] = base
  /\ \A s \in SUBSET (1 .. n) :
       s # {} /\ it[s \ {Max(s)}] \in X => it[s] = F[it[s \ {Max(s)}]][Max(s)]

FoldSteps(h, it, n, X, base, F) ==
  /\ h \in [0 .. n -> X] /\ h[0] = base /\ h[n] = it[1 .. n]
  /\ \A k \in 0 .. n : k < n => h[k + 1] = F[h[k]][k + 1]

\* The values such a function takes on the way are the steps of the fold.
LEMMA Chain ==
  ASSUME NEW n \in Nat, NEW X, NEW base \in X, NEW F \in [X -> [1 .. n -> X]], NEW it,
         Folds(it, n, X, base, F)
  PROVE  \E h : FoldSteps(h, it, n, X, base, F)
<1>. DEFINE h == [k \in 0 .. n |-> it[1 .. k]]
            T == {k \in 0 .. n : h[k] \in X}
<1>1. h[0] = base
  <2>1. 1 .. 0 = {}
    OBVIOUS
  <2>. QED
    BY <2>1 DEF Folds
<1>2. ASSUME NEW k \in 0 .. n, h[k] \in X, k < n
      PROVE  k + 1 \in 0 .. n /\ h[k + 1] \in X /\ h[k + 1] = F[h[k]][k + 1]
  <2>5. /\ 1 .. k + 1 \in SUBSET (1 .. n) /\ k + 1 \in 1 .. k + 1 /\ k + 1 \in 1 .. n
        /\ k \in Nat /\ k + 1 \in 0 .. n
    BY <1>2
  <2>6. (1 .. k + 1) \ {k + 1} = 1 .. k
    <3>1. k \in Nat
      OBVIOUS
    <3>2. \A x \in Int : x \in (1 .. k + 1) \ {k + 1} <=> x \in 1 .. k
      BY <3>1
    <3>. QED
      BY <3>2
  <2>1. /\ 1 .. k + 1 \in SUBSET (1 .. n) /\ k + 1 \in 1 .. k + 1 /\ k + 1 \in 1 .. n
        /\ (1 .. k + 1) \ {k + 1} = 1 .. k /\ k \in Nat /\ k + 1 \in 0 .. n /\ 1 .. k + 1 # {}
    BY <2>5, <2>6, Zenon
  <2>2. Max(1 .. k + 1) = k + 1
    BY <2>1, LargestOf
  <2>3. it[1 .. k] = h[k] /\ it[1 .. k + 1] = h[k + 1]
    BY <2>1
  <2>4. h[k + 1] = F[h[k]][k + 1]
    <3>. HIDE DEF h
    <3>. QED
      BY <2>1, <2>2, <2>3, <1>2 DEF Folds
  <2>7. F[h[k]][k + 1] \in X
    <3>. HIDE DEF h
    <3>. QED
      BY <2>1, <1>2
  <2>. HIDE DEF h
  <2>. QED
    BY <2>1, <2>4, <2>7
<1>3. 0 \in T
  <2>. HIDE DEF h
  <2>. QED
    BY <1>1
<1>4. \A k \in 0 .. n : k \in T
  <2>1. \A k \in 0 .. n : k \in T /\ k < n => k + 1 \in T
    <3>. HIDE DEF h
    <3>. QED
      BY <1>2
  <2>. HIDE DEF T
  <2>. QED
    BY <1>3, <2>1, UpTo
<1>5. h \in [0 .. n -> X]
  <2>1. h = [k \in 0 .. n |-> h[k]]
    OBVIOUS
  <2>. HIDE DEF h
  <2>. QED
    BY <1>4, <2>1
<1>6. it[1 .. n] = h[n]
  OBVIOUS
<1>. HIDE DEF h
<1>. QED
  BY <1>1, <1>2, <1>4, <1>5, <1>6 DEF FoldSteps

RecordedSteps(h, msgs, n, X) ==
  /\ h \in [0 .. n -> X] /\ h[0] = <<>> /\ h[n] = Deduplicated(msgs)
  /\ \A k \in 0 .. n : k < n => h[k + 1] = Recorded(h[k], msgs[k + 1])

\* The dictionary of a plan, message by message.
LEMMA RecordedInSteps ==
  ASSUME NEW msgs, NEW n \in Nat, DOMAIN msgs = 1 .. n, NEW X, <<>> \in X,
         \A d \in X : \A i \in 1 .. n : Recorded(d, msgs[i]) \in X
  PROVE  \E h : RecordedSteps(h, msgs, n, X)
<1>. DEFINE base == <<>>
<1>. DEFINE F == [d \in X |-> [i \in 1 .. n |-> Recorded(d, msgs[i])]]
            it == CHOOSE it : it = [s \in SUBSET (1 .. n) |->
                    IF s = {} THEN base ELSE Recorded(it[s \ {Max(s)}], msgs[Max(s)])]
<1>1. Deduplicated(msgs) = it[1 .. n]
  BY DEF Deduplicated, FoldLeft, MapThenFoldSet
<1>2. F \in [X -> [1 .. n -> X]]
  OBVIOUS
<1>3. PICK g : Folded(g, n, X, base, F)
  <2>. HIDE DEF F
  <2>. QED
    BY <1>2, FoldExists
<1>4. \A s \in SUBSET (1 .. n) : s # {} => s \ {Max(s)} \in SUBSET (1 .. n) /\ Max(s) \in 1 .. n
  BY LargestIn
<1>5. g = [s \in SUBSET (1 .. n) |-> IF s = {} THEN base ELSE Recorded(g[s \ {Max(s)}], msgs[Max(s)])]
  <2>1. \A s \in SUBSET (1 .. n) : s # {} => g[s \ {Max(s)}] \in X
    BY <1>3, <1>4 DEF Folded
  <2>2. \A s \in SUBSET (1 .. n) : s # {} =>
          F[g[s \ {Max(s)}]][Max(s)] = Recorded(g[s \ {Max(s)}], msgs[Max(s)])
    BY <2>1, <1>4
  <2>. HIDE DEF F
  <2>. QED
    BY <1>3, <2>2, Zenon DEF Folded
<1>6. it = [s \in SUBSET (1 .. n) |-> IF s = {} THEN base ELSE Recorded(it[s \ {Max(s)}], msgs[Max(s)])]
  BY <1>5
<1>7. /\ it[{}] = base
      /\ \A s \in SUBSET (1 .. n) : s # {} => it[s] = Recorded(it[s \ {Max(s)}], msgs[Max(s)])
  <2>. HIDE DEF it
  <2>. QED
    BY <1>6
<1>8. \A s \in SUBSET (1 .. n) :
        s # {} /\ it[s \ {Max(s)}] \in X => it[s] = F[it[s \ {Max(s)}]][Max(s)]
  <2>. HIDE DEF it
  <2>. QED
    BY <1>4, <1>7
<1>9. PICK h : FoldSteps(h, it, n, X, base, F)
  <2>. HIDE DEF it, F
  <2>1. Folds(it, n, X, base, F)
    BY <1>7, <1>8, Zenon DEF Folds
  <2>. QED
    BY <1>2, <2>1, Chain
<1>10. \A k \in 0 .. n : k < n => h[k + 1] = Recorded(h[k], msgs[k + 1])
  <2>1. \A k \in 0 .. n : k < n => k + 1 \in 1 .. n /\ h[k] \in X
    BY <1>9 DEF FoldSteps
  <2>. HIDE DEF it
  <2>. QED
    BY <1>9, <2>1 DEF FoldSteps
<1>. HIDE DEF it
<1>. QED
  BY <1>1, <1>9, <1>10 DEF FoldSteps, RecordedSteps

----------------------------------------------------------------------------
(* The sequences a plan is made of.                                        *)

LEMMA ConcatRange ==
  ASSUME NEW S, NEW T, NEW first \in Seq(S), NEW second \in Seq(T)
  PROVE  /\ ToSet(first \o second) = ToSet(first) \union ToSet(second)
         /\ Len(first) > 0 => (first \o second)[1] = first[1]
<1>. DEFINE both == first \o second
<1>1. /\ first \in Seq(S \union T) /\ second \in Seq(S \union T)
      /\ Len(first) \in Nat /\ Len(second) \in Nat
  OBVIOUS
<1>2. /\ both \in Seq(S \union T) /\ Len(both) = Len(first) + Len(second)
      /\ \A i \in 1 .. Len(first) : both[i] = first[i]
      /\ \A i \in 1 .. Len(second) : both[i + Len(first)] = second[i]
      /\ \A i \in 1 .. Len(both) :
           i \in 1 .. Len(first) \/ i - Len(first) \in 1 .. Len(second)
  BY <1>1
<1>3. ToSet(both) \subseteq ToSet(first) \union ToSet(second)
  <2>. SUFFICES ASSUME NEW i \in 1 .. Len(both)
                PROVE  both[i] \in ToSet(first) \union ToSet(second)
    BY <1>2 DEF ToSet
  <2>1. CASE i \in 1 .. Len(first)
    BY <1>1, <1>2, <2>1 DEF ToSet
  <2>2. CASE i - Len(first) \in 1 .. Len(second)
    <3>1. both[i] = second[i - Len(first)]
      BY <1>1, <1>2, <2>2
    <3>. QED
      BY <1>1, <2>2, <3>1 DEF ToSet
  <2>. QED
    BY <1>2, <2>1, <2>2
<1>4. ToSet(first) \union ToSet(second) \subseteq ToSet(both)
  <2>1. ASSUME NEW i \in 1 .. Len(first) PROVE first[i] \in ToSet(both)
    BY <1>1, <1>2 DEF ToSet
  <2>2. ASSUME NEW i \in 1 .. Len(second) PROVE second[i] \in ToSet(both)
    <3>1. i + Len(first) \in 1 .. Len(both)
      BY <1>1, <1>2
    <3>. QED
      BY <1>2, <3>1 DEF ToSet
  <2>3. ToSet(first) \subseteq ToSet(both)
    BY <1>1, <2>1 DEF ToSet
  <2>4. ToSet(second) \subseteq ToSet(both)
    BY <1>1, <2>2 DEF ToSet
  <2>. QED
    BY <2>3, <2>4
<1>. QED
  BY <1>1, <1>2, <1>3, <1>4

LEMMA Appended ==
  ASSUME NEW S, NEW s \in Seq(S), NEW x \in S
  PROVE  ToSet(Append(s, x)) = ToSet(s) \union {x}
<1>1. Len(Append(s, x)) = Len(s) + 1 /\ Append(s, x)[Len(s) + 1] = x
  OBVIOUS
<1>2. \A i \in 1 .. Len(s) : Append(s, x)[i] = s[i]
  OBVIOUS
<1>3. DOMAIN Append(s, x) = 1 .. Len(s) + 1 /\ DOMAIN s = 1 .. Len(s) /\ Len(s) \in Nat
  OBVIOUS
<1>. QED
  BY <1>1, <1>2, <1>3 DEF ToSet

LEMMA HeadOrTail ==
  ASSUME NEW S, NEW s \in Seq(S), s # <<>>, NEW x \in ToSet(s)
  PROVE  x = Head(s) \/ x \in ToSet(Tail(s))
<1>1. PICK i \in 1 .. Len(s) : x = s[i]
  BY DEF ToSet
<1>2. CASE i # 1
  <2>1. i - 1 \in DOMAIN Tail(s) /\ Tail(s)[i - 1] = s[i]
    BY <1>2
  <2>. QED
    BY <1>1, <2>1 DEF ToSet
<1>. QED
  BY <1>1, <1>2

FlattenSteps(h, seqs, n, S) ==
  /\ h \in [0 .. n -> Seq(S)] /\ h[0] = <<>> /\ h[n] = FlattenSeq(seqs)
  /\ \A k \in 0 .. n : k < n => h[k + 1] = h[k] \o seqs[k + 1]

\* Sequences one after the other, sequence by sequence.
LEMMA FlattenInSteps ==
  ASSUME NEW S, NEW seqs \in Seq(Seq(S))
  PROVE  \E h : FlattenSteps(h, seqs, Len(seqs), S)
<1>. DEFINE n == Len(seqs)
            FlatTo(g, k) ==
              /\ g \in [1 .. k -> Seq(S)]
              /\ \A i \in 1 .. k : g[i] = IF i = 1 THEN seqs[i] ELSE g[i - 1] \o seqs[i]
            T == {k \in 0 .. n : \E g : FlatTo(g, k)}
            it == CHOOSE it : it = [i \in 1 .. Len(seqs) |-> IF i = 1 THEN seqs[i] ELSE it[i - 1] \o seqs[i]]
<1>0. n \in Nat /\ \A i \in 1 .. n : seqs[i] \in Seq(S)
  OBVIOUS
<1>1. 0 \in T
  <2>1. FlatTo([i \in 1 .. 0 |-> <<>>], 0)
    OBVIOUS
  <2>. HIDE DEF FlatTo
  <2>. QED
    BY <2>1, <1>0
<1>2. ASSUME NEW k \in 0 .. n, k \in T, k < n
      PROVE  k + 1 \in T
  <2>1. PICK g : FlatTo(g, k)
    BY <1>2
  <2>. DEFINE h == [i \in 1 .. k + 1 |->
                      IF i <= k THEN g[i] ELSE IF i = 1 THEN seqs[i] ELSE g[i - 1] \o seqs[i]]
  <2>2. k \in Nat /\ k + 1 \in 1 .. n /\ \A i \in 1 .. k + 1 : i <= k \/ i = k + 1
    BY <1>0, <1>2
  <2>3. ASSUME NEW i \in 1 .. k + 1, i <= k
        PROVE  h[i] \in Seq(S) /\ h[i] = IF i = 1 THEN seqs[i] ELSE h[i - 1] \o seqs[i]
    <3>1. i \in 1 .. k /\ (i # 1 => i - 1 \in 1 .. k + 1 /\ i - 1 <= k)
      BY <2>2, <2>3
    <3>2. h[i] = g[i] /\ (i # 1 => h[i - 1] = g[i - 1])
      BY <3>1
    <3>. HIDE DEF h
    <3>. QED
      BY <3>1, <3>2, <2>1
  <2>4. h[k + 1] \in Seq(S) /\ h[k + 1] = IF k + 1 = 1 THEN seqs[k + 1] ELSE h[k] \o seqs[k + 1]
    <3>1. h[k + 1] = IF k + 1 = 1 THEN seqs[k + 1] ELSE g[k] \o seqs[k + 1]
      BY <2>2
    <3>2. k + 1 # 1 => k \in 1 .. k /\ h[k] = g[k]
      BY <2>2
    <3>3. k + 1 # 1 => g[k] \in Seq(S)
      BY <3>2, <2>1
    <3>4. seqs[k + 1] \in Seq(S)
      BY <2>2
    <3>. HIDE DEF h
    <3>. QED
      BY <3>1, <3>2, <3>3, <3>4
  <2>5. h = [i \in 1 .. k + 1 |-> h[i]]
    OBVIOUS
  <2>6. FlatTo(h, k + 1)
    <3>. HIDE DEF h
    <3>1. \A i \in 1 .. k + 1 : h[i] \in Seq(S)
      BY <2>2, <2>3, <2>4
    <3>2. h \in [1 .. k + 1 -> Seq(S)]
      BY <2>5, <3>1
    <3>3. \A i \in 1 .. k + 1 : h[i] = IF i = 1 THEN seqs[i] ELSE h[i - 1] \o seqs[i]
      BY <2>2, <2>3, <2>4
    <3>. QED
      BY <3>2, <3>3
  <2>7. \E h_1 : FlatTo(h_1, k + 1)
    <3>. HIDE DEF FlatTo, h
    <3>. QED
      BY <2>6
  <2>. HIDE DEF FlatTo
  <2>. QED
    BY <2>7, <2>2, <1>2
<1>3. n \in T
  <2>. HIDE DEF T, n
  <2>1. \A k \in 0 .. n : k \in T
    BY <1>0, <1>1, <1>2, UpTo
  <2>. QED
    BY <1>0, <2>1
<1>4. PICK g : FlatTo(g, n)
  BY <1>3
<1>5. CASE n = 0
  <2>. DEFINE h == [k \in 0 .. 0 |-> <<>>]
  <2>1. FlattenSeq(seqs) = <<>>
    BY <1>5 DEF FlattenSeq
  <2>2. h \in [0 .. 0 -> Seq(S)] /\ h[0] = <<>>
    OBVIOUS
  <2>. HIDE DEF h
  <2>3. FlattenSteps(h, seqs, 0, S)
    BY <2>1, <2>2 DEF FlattenSteps
  <2>. QED
    BY <2>3, <1>5
<1>6. CASE n # 0
  <2>1. g = [i \in 1 .. Len(seqs) |-> IF i = 1 THEN seqs[i] ELSE g[i - 1] \o seqs[i]]
    BY <1>4
  <2>2. it = [i \in 1 .. Len(seqs) |-> IF i = 1 THEN seqs[i] ELSE it[i - 1] \o seqs[i]]
    BY <2>1
  <2>3. \A i \in 1 .. n : it[i] = IF i = 1 THEN seqs[i] ELSE it[i - 1] \o seqs[i]
    <3>. HIDE DEF it
    <3>. QED
      BY <2>2
  <2>. DEFINE U == {k \in 0 .. n : k = 0 \/ it[k] \in Seq(S)}
  <2>4. 0 \in U /\ \A k \in 0 .. n : k \in U /\ k < n => k + 1 \in U
    <3>1. ASSUME NEW k \in 0 .. n, k \in U, k < n PROVE k + 1 \in U
      <4>1. k + 1 \in 1 .. n /\ k + 1 \in 0 .. n /\ (k + 1) - 1 = k /\ (k + 1 = 1 <=> k = 0)
        BY <1>0, <3>1
      <4>2. it[k + 1] = IF k = 0 THEN seqs[k + 1] ELSE it[k] \o seqs[k + 1]
        <5>. HIDE DEF it
        <5>. QED
          BY <4>1, <2>3
      <4>3. seqs[k + 1] \in Seq(S) /\ (k # 0 => it[k] \in Seq(S))
        BY <4>1, <1>0, <3>1
      <4>4. it[k + 1] \in Seq(S)
        <5>. HIDE DEF it
        <5>. QED
          BY <4>2, <4>3
      <4>. HIDE DEF it
      <4>. QED
        BY <4>1, <4>4
    <3>2. 0 \in U
      BY <1>0
    <3>. HIDE DEF U, n
    <3>. QED
      BY <3>1, <3>2
  <2>5. \A k \in 0 .. n : k \in U
    <3>. HIDE DEF U, n
    <3>. QED
      BY <1>0, <2>4, UpTo
  <2>. DEFINE h == [k \in 0 .. n |-> IF k = 0 THEN <<>> ELSE it[k]]
  <2>6. ASSUME NEW k \in 0 .. n
        PROVE  h[k] \in Seq(S) /\ (k = 0 => h[k] = <<>>) /\ (k # 0 => h[k] = it[k])
    <3>1. k # 0 => it[k] \in Seq(S)
      <4>. HIDE DEF it
      <4>. QED
        BY <2>5
    <3>. HIDE DEF it
    <3>. QED
      BY <3>1
  <2>7. h[0] = <<>> /\ h[n] = FlattenSeq(seqs)
    <3>1. FlattenSeq(seqs) = it[n]
      BY <1>6 DEF FlattenSeq
    <3>2. 0 \in 0 .. n /\ n \in 0 .. n
      BY <1>0
    <3>. HIDE DEF it, h, n
    <3>. QED
      BY <3>1, <3>2, <2>6, <1>6
  <2>8. h = [k \in 0 .. n |-> h[k]]
    OBVIOUS
  <2>9. ASSUME NEW k \in 0 .. n, k < n PROVE h[k + 1] = h[k] \o seqs[k + 1]
    <3>1. k + 1 \in 1 .. n /\ k + 1 \in 0 .. n /\ k + 1 # 0 /\ (k + 1) - 1 = k /\ (k + 1 = 1 <=> k = 0)
      BY <1>0, <2>9
    <3>2. h[k + 1] = it[k + 1] /\ (k = 0 => h[k] = <<>>) /\ (k # 0 => h[k] = it[k])
      <4>. HIDE DEF h, it, n
      <4>. QED
        BY <3>1, <2>6
    <3>3. it[k + 1] = IF k = 0 THEN seqs[k + 1] ELSE it[k] \o seqs[k + 1]
      <4>. HIDE DEF it, h, n
      <4>. QED
        BY <3>1, <2>3
    <3>4. seqs[k + 1] \in Seq(S) /\ <<>> \o seqs[k + 1] = seqs[k + 1]
      BY <3>1, <1>0
    <3>. HIDE DEF it, h, n
    <3>. QED
      BY <3>2, <3>3, <3>4
  <2>. HIDE DEF it, h
  <2>10. FlattenSteps(h, seqs, n, S)
    BY <2>6, <2>7, <2>8, <2>9 DEF FlattenSteps
  <2>. QED
    BY <2>10
<1>. QED
  BY <1>5, <1>6

\* Sequences of members, one after the other, are a sequence of members.
LEMMA FlattenTyped ==
  ASSUME NEW S, NEW seqs \in Seq(Seq(S))
  PROVE  FlattenSeq(seqs) \in Seq(S)
<1>1. PICK h : FlattenSteps(h, seqs, Len(seqs), S)
  BY FlattenInSteps
<1>. QED
  BY <1>1 DEF FlattenSteps

\* They are the members of each of them.
LEMMA FlattenRange ==
  ASSUME NEW S, NEW seqs \in Seq(Seq(S))
  PROVE  ToSet(FlattenSeq(seqs)) = UNION {ToSet(seqs[i]) : i \in DOMAIN seqs}
<1>. DEFINE n == Len(seqs)
            U == UNION {ToSet(seqs[i]) : i \in DOMAIN seqs}
<1>0. n \in Nat /\ DOMAIN seqs = 1 .. n /\ \A i \in 1 .. n : seqs[i] \in Seq(S)
  OBVIOUS
<1>1. ToSet(FlattenSeq(seqs)) \subseteq U
  <2>1. ASSUME NEW i \in DOMAIN seqs PROVE seqs[i] \in Seq(U)
    <3>1. seqs[i] \in Seq(S) /\ \A j \in DOMAIN seqs[i] : seqs[i][j] \in U
      BY DEF ToSet
    <3>. HIDE DEF U
    <3>. QED
      BY <3>1
  <2>. HIDE DEF U
  <2>2. seqs \in Seq(Seq(U))
    BY <2>1
  <2>3. FlattenSeq(seqs) \in Seq(U)
    BY <2>2, FlattenTyped
  <2>. QED
    BY <2>3 DEF ToSet
<1>2. PICK h : FlattenSteps(h, seqs, n, S)
  BY FlattenInSteps
<1>. DEFINE T == {k \in 0 .. n : \A i \in 1 .. k : ToSet(seqs[i]) \subseteq ToSet(h[k])}
<1>3. 0 \in T
  BY <1>0
<1>4. ASSUME NEW k \in 0 .. n, k \in T, k < n PROVE k + 1 \in T
  <2>1. k + 1 \in 0 .. n /\ k + 1 \in 1 .. n /\ \A i \in 1 .. k + 1 : i \in 1 .. k \/ i = k + 1
    BY <1>0, <1>4
  <2>2. h[k] \in Seq(S) /\ seqs[k + 1] \in Seq(S) /\ h[k + 1] = h[k] \o seqs[k + 1]
    BY <1>0, <1>2, <1>4, <2>1 DEF FlattenSteps
  <2>3. ToSet(h[k + 1]) = ToSet(h[k]) \union ToSet(seqs[k + 1])
    BY <2>2, ConcatRange
  <2>4. \A i \in 1 .. k : ToSet(seqs[i]) \subseteq ToSet(h[k])
    BY <1>4
  <2>5. \A i \in 1 .. k + 1 : ToSet(seqs[i]) \subseteq ToSet(h[k + 1])
    BY <2>1, <2>3, <2>4
  <2>. QED
    BY <2>1, <2>5
<1>5. \A k \in 0 .. n : k \in T
  <2>. HIDE DEF T, n
  <2>. QED
    BY <1>0, <1>3, <1>4, UpTo
<1>6. \A i \in 1 .. n : ToSet(seqs[i]) \subseteq ToSet(h[n])
  <2>1. n \in 0 .. n
    BY <1>0
  <2>2. n \in T
    BY <1>5, <2>1
  <2>. QED
    BY <2>2
<1>7. U \subseteq ToSet(FlattenSeq(seqs))
  BY <1>0, <1>2, <1>6 DEF FlattenSteps
<1>. QED
  BY <1>1, <1>7

\* Recording a message keeps a dictionary a sequence of messages.
LEMMA RecordedTyped ==
  ASSUME NEW S, NEW d \in Seq(S), NEW m \in S
  PROVE  Recorded(d, m) \in Seq(S)
<1>. DEFINE same == {i \in DOMAIN d : d[i].reg = m.reg}
<1>1. CASE same = {}
  BY <1>1 DEF Recorded
<1>2. CASE same # {}
  <2>. DEFINE i == CHOOSE i \in same : TRUE
  <2>1. i \in DOMAIN d
    BY <1>2
  <2>2. Recorded(d, m) = [d EXCEPT ![i] = m]
    BY <1>2 DEF Recorded
  <2>. HIDE DEF i
  <2>. QED
    BY <2>1, <2>2
<1>. QED
  BY <1>1, <1>2

\* A sequence in which each register has one message is of the same messages.
LEMMA DeduplicatedTyped ==
  ASSUME NEW S, NEW msgs \in Seq(S)
  PROVE  Deduplicated(msgs) \in Seq(S)
<1>1. \A i \in 1 .. Len(msgs) : msgs[i] \in S
  OBVIOUS
<1>2. \A d \in Seq(S) : \A i \in 1 .. Len(msgs) : Recorded(d, msgs[i]) \in Seq(S)
  BY <1>1, RecordedTyped
<1>3. DOMAIN msgs = 1 .. Len(msgs) /\ Len(msgs) \in Nat /\ <<>> \in Seq(S)
  OBVIOUS
<1>4. PICK h : RecordedSteps(h, msgs, Len(msgs), Seq(S))
  BY <1>2, <1>3, RecordedInSteps
<1>5. Len(msgs) \in 0 .. Len(msgs)
  BY <1>3
<1>6. h[Len(msgs)] \in Seq(S)
  BY <1>4, <1>5 DEF RecordedSteps
<1>. QED
  BY <1>4, <1>6 DEF RecordedSteps

\* It invents no message ...
LEMMA DeduplicatedRange ==
  ASSUME NEW S, NEW msgs \in Seq(S)
  PROVE  ToSet(Deduplicated(msgs)) \subseteq ToSet(msgs)
<1>1. msgs \in Seq(ToSet(msgs))
  BY DEF ToSet
<1>2. Deduplicated(msgs) \in Seq(ToSet(msgs))
  BY <1>1, DeduplicatedTyped
<1>. QED
  BY <1>2 DEF ToSet

\* What is recorded is about the registers recorded before, and the new one.
LEMMA RecordedRegisters ==
  ASSUME NEW S, NEW d \in Seq(S), NEW m \in S
  PROVE  /\ \A i \in DOMAIN d : \E j \in DOMAIN Recorded(d, m) : Recorded(d, m)[j].reg = d[i].reg
         /\ \E j \in DOMAIN Recorded(d, m) : Recorded(d, m)[j].reg = m.reg
<1>. DEFINE same == {i \in DOMAIN d : d[i].reg = m.reg}
<1>1. CASE same = {}
  <2>1. Recorded(d, m) = Append(d, m)
    BY <1>1 DEF Recorded
  <2>2. /\ \A i \in DOMAIN d : i \in DOMAIN Append(d, m) /\ Append(d, m)[i] = d[i]
        /\ Len(d) + 1 \in DOMAIN Append(d, m) /\ Append(d, m)[Len(d) + 1] = m
    OBVIOUS
  <2>. QED
    BY <2>1, <2>2
<1>2. CASE same # {}
  <2>. DEFINE at == CHOOSE i \in same : TRUE
  <2>1. at \in DOMAIN d /\ d[at].reg = m.reg
    BY <1>2
  <2>2. Recorded(d, m) = [d EXCEPT ![at] = m]
    BY <1>2 DEF Recorded
  <2>. HIDE DEF at
  <2>3. DOMAIN Recorded(d, m) = DOMAIN d /\ Recorded(d, m)[at] = m
    BY <2>1, <2>2
  <2>4. \A i \in DOMAIN d : i # at => Recorded(d, m)[i] = d[i]
    BY <2>2
  <2>. QED
    BY <2>1, <2>3, <2>4
<1>. QED
  BY <1>1, <1>2

\* ... and loses no register.
LEMMA DeduplicatedRegisters ==
  ASSUME NEW S, NEW msgs \in Seq(S), NEW i \in DOMAIN msgs
  PROVE  \E m \in ToSet(Deduplicated(msgs)) : m.reg = msgs[i].reg
<1>. DEFINE n == Len(msgs)
            Has(d, r) == \E j \in DOMAIN d : d[j].reg = r
<1>1. /\ n \in Nat /\ DOMAIN msgs = 1 .. n /\ i \in 1 .. n /\ <<>> \in Seq(S)
      /\ \A k \in 1 .. n : msgs[k] \in S
  OBVIOUS
<1>2. \A d \in Seq(S) : \A k \in 1 .. n : Recorded(d, msgs[k]) \in Seq(S)
  BY <1>1, RecordedTyped
<1>3. PICK h : RecordedSteps(h, msgs, n, Seq(S))
  <2>. HIDE DEF n
  <2>. QED
    BY <1>1, <1>2, RecordedInSteps
<1>. DEFINE T == {k \in 0 .. n : \A j \in 1 .. k : Has(h[k], msgs[j].reg)}
<1>4. 0 \in T
  BY <1>1
<1>5. ASSUME NEW k \in 0 .. n, k \in T, k < n PROVE k + 1 \in T
  <2>1. k + 1 \in 0 .. n /\ k + 1 \in 1 .. n /\ \A j \in 1 .. k + 1 : j \in 1 .. k \/ j = k + 1
    BY <1>1, <1>5
  <2>2. h[k] \in Seq(S) /\ msgs[k + 1] \in S /\ h[k + 1] = Recorded(h[k], msgs[k + 1])
    BY <1>1, <1>3, <1>5, <2>1 DEF RecordedSteps
  <2>. DEFINE d == h[k]
              m == msgs[k + 1]
              e == Recorded(d, m)
  <2>3. d \in Seq(S) /\ m \in S
    BY <2>2
  <2>4. h[k + 1] = e
    BY <2>2
  <2>5. /\ \A j \in DOMAIN d : \E l \in DOMAIN e : e[l].reg = d[j].reg
        /\ \E l \in DOMAIN e : e[l].reg = m.reg
    <3>. HIDE DEF d, m
    <3>. QED
      BY <2>3, RecordedRegisters
  <2>6. /\ \A r : Has(h[k], r) => Has(h[k + 1], r)
        /\ Has(h[k + 1], msgs[k + 1].reg)
    <3>. HIDE DEF e
    <3>. QED
      BY <2>4, <2>5
  <2>7. \A j \in 1 .. k : Has(h[k], msgs[j].reg)
    BY <1>5
  <2>. HIDE DEF Has
  <2>8. \A j \in 1 .. k + 1 : Has(h[k + 1], msgs[j].reg)
    BY <2>1, <2>6, <2>7
  <2>. QED
    BY <2>1, <2>8
<1>6. \A k \in 0 .. n : k \in T
  <2>. HIDE DEF T, n
  <2>. QED
    BY <1>1, <1>4, <1>5, UpTo
<1>7. n \in 0 .. n
  BY <1>1
<1>8. n \in T
  BY <1>6, <1>7
<1>9. Has(h[n], msgs[i].reg) /\ h[n] = Deduplicated(msgs)
  BY <1>1, <1>3, <1>8 DEF RecordedSteps
<1>. QED
  BY <1>9 DEF ToSet

\* The last message about a register is one of them.
LEMMA LastMessage ==
  ASSUME NEW S, NEW msgs \in Seq(S), NEW i \in DOMAIN msgs
  PROVE  \E j \in DOMAIN msgs : /\ msgs[j].reg = msgs[i].reg
                                /\ \A k \in DOMAIN msgs : k > j => msgs[k].reg # msgs[j].reg
<1>. DEFINE n == Len(msgs)
            same == {j \in DOMAIN msgs : msgs[j].reg = msgs[i].reg}
            left == {n - j : j \in same}
<1>1. n \in Nat /\ DOMAIN msgs = 1 .. n /\ i \in same
  OBVIOUS
<1>2. left \in SUBSET Nat /\ left # {}
  BY <1>1
<1>3. PICK x \in left : \A y \in left : x <= y
  BY <1>2, Smallest
<1>4. PICK j \in same : x = n - j
  BY <1>3
<1>5. \A k \in same : n - j <= n - k
  BY <1>3, <1>4
<1>6. \A k \in same : ~(k > j)
  BY <1>1, <1>4, <1>5
<1>. QED
  BY <1>4, <1>6

\* Leaving registers alone drops their messages, and only those.
LEMMA WithoutRange ==
  ASSUME NEW S, NEW msgs \in Seq(S), NEW s
  PROVE  /\ Without(msgs, s) \in Seq(S)
         /\ ToSet(Without(msgs, s)) = {m \in ToSet(msgs) : m.reg \notin s}
<1>. DEFINE kept == [i \in DOMAIN msgs |-> IF msgs[i].reg \in s THEN <<>> ELSE << msgs[i] >>]
<1>1. DOMAIN msgs = 1 .. Len(msgs) /\ Len(msgs) \in Nat /\ \A i \in DOMAIN msgs : msgs[i] \in S
  OBVIOUS
<1>2. \A i \in DOMAIN msgs : kept[i] \in Seq(S)
  BY <1>1
<1>3. \A i \in DOMAIN msgs : ToSet(kept[i]) = IF msgs[i].reg \in s THEN {} ELSE {msgs[i]}
  BY DEF ToSet
<1>4. DOMAIN kept = DOMAIN msgs /\ Without(msgs, s) = FlattenSeq(kept)
  BY DEF Without
<1>. HIDE DEF kept
<1>5. kept \in Seq(Seq(S))
  <2>1. kept = [i \in 1 .. Len(msgs) |-> kept[i]]
    BY <1>1 DEF kept
  <2>. QED
    BY <1>1, <1>2, <2>1
<1>6. ToSet(Without(msgs, s)) = UNION {ToSet(kept[i]) : i \in DOMAIN msgs}
  BY <1>4, <1>5, FlattenRange
<1>7. ToSet(msgs) = {msgs[i] : i \in DOMAIN msgs}
  BY DEF ToSet
<1>. QED
  BY <1>3, <1>4, <1>5, <1>6, <1>7, FlattenTyped

\* A finite set written as a sequence has no other members.
LEMMA SetToSeqTyped ==
  ASSUME NEW S, IsFiniteSet(S)
  PROVE  SetToSeq(S) \in Seq(S)
<1>1. Cardinality(S) \in Nat /\ ExistsBijection(1 .. Cardinality(S), S)
  BY FS_CardinalityType
<1>2. \E f \in [1 .. Cardinality(S) -> S] : IsInjective(f)
  BY <1>1 DEF ExistsBijection, Bijection, Injection
<1>3. SetToSeq(S) \in [1 .. Cardinality(S) -> S]
  BY <1>2 DEF SetToSeq
<1>. QED
  BY <1>1, <1>3

\* What the writes of every route and every setting are, those of a file are.
LEMMA DesiredTyped ==
  ASSUME NEW S, NEW file, NEW R, file.routes \in Seq(R),
         \A i \in DOMAIN file.routes :
           LinkMessages(file.routes[i]) \in Seq(S) /\ MixMessages(file.routes[i]) \in Seq(S),
         file.channels \in Seq(S)
  PROVE  Desired(file) \in Seq(S)
<1>. DEFINE links == [i \in DOMAIN file.routes |-> LinkMessages(file.routes[i])]
            mixes == [i \in DOMAIN file.routes |-> MixMessages(file.routes[i])]
<1>1. DOMAIN file.routes = 1 .. Len(file.routes) /\ Len(file.routes) \in Nat
  OBVIOUS
<1>2. links \in Seq(Seq(S)) /\ mixes \in Seq(Seq(S))
  BY <1>1
<1>. HIDE DEF links, mixes
<1>3. FlattenSeq(links) \in Seq(S) /\ FlattenSeq(mixes) \in Seq(S)
  BY <1>2, FlattenTyped
<1>4. Deduplicated(FlattenSeq(links)) \in Seq(S) /\ Deduplicated(FlattenSeq(mixes)) \in Seq(S)
  BY <1>3, DeduplicatedTyped
<1>5. Desired(file) = Deduplicated(FlattenSeq(links)) \o (Deduplicated(FlattenSeq(mixes)) \o file.channels)
  BY DEF Desired, PlannedLinks, PlannedMixes, AllLinks, AllMixes, links, mixes
<1>. QED
  BY <1>4, <1>5

=============================================================================
