---------------------------- MODULE BundleProofs ----------------------------
(***************************************************************************)
(* What the operators of Pod and Bundle compute, for every input: the      *)
(* lists of a command line, the environment, the mounts and the user of a  *)
(* container.                                                              *)
(***************************************************************************)
EXTENDS Bundle, WellFoundedInduction, FiniteSetTheorems, TLAPS

-----------------------------------------------------------------------------
(* Lists, and what a loop keeps of one.                                    *)

(* A set of numbers has a least one, by which induction over data is done. *)
LEMMA LeastNumber ==
  ASSUME NEW T, T \subseteq Nat, T # {}
  PROVE  \E x \in T : \A y \in T : x <= y
<1>1. \E R : IsWellFoundedOn(R, Nat) /\ \A x, y \in Nat : <<y, x>> \in R <=> y < x
  <2>1. \A x, y \in Nat : <<y, x>> \in OpToRel(<, Nat) <=> y < x
    BY DEF OpToRel
  <2> QED
    BY <2>1, NatLessThanWellFounded, Zenon
<1>2. PICK R : IsWellFoundedOn(R, Nat) /\ \A x, y \in Nat : <<y, x>> \in R <=> y < x
  BY <1>1
<1>3. PICK x \in T : \A y \in T : ~ (<<y, x>> \in R)
  BY <1>2, WFMin
<1>4. ASSUME NEW y \in T
      PROVE  x <= y
  <2>1. x \in Nat /\ y \in Nat /\ ~ (y < x)
    BY <1>2, <1>3
  <2> QED
    BY <2>1
<1> QED
  BY <1>4

(* A list is a sequence over whatever it holds.                            *)
LEMMA ListsAreSequences ==
  ASSUME NEW S, NEW s \in Seq(S)
  PROVE  IsList(s)
<1>1. s \in [1..Len(s) -> Range(s)] /\ Len(s) \in Nat
  BY DEF Range
<1> QED
  BY <1>1 DEF IsList

(* The least index of a nonempty set of them.                              *)
LEMMA MinIsMember ==
  ASSUME NEW T, T \subseteq Nat, T # {}
  PROVE  Min(T) \in T
BY LeastNumber DEF Min

(* What a loop over a list keeps is a list: the recursion is well founded, *)
(* and each of its values is a sequence.                                   *)
LEMMA KeptIsList ==
  ASSUME NEW ds, IsList(ds), NEW ok
  PROVE  IsList(Kept(ds, ok))
<1> DEFINE S == Seq(Range(ds))
           G(m, g) == g = [i \in 0..m |->
                              IF i = 0 THEN <<>>
                              ELSE IF i \in ok THEN Append(g[i - 1], ds[i]) ELSE g[i - 1]]
           kept == CHOOSE g : G(Len(ds), g)
           None == {m \in 0..Len(ds) : ~ \E g : G(m, g)}
           Bad == {m \in 0..Len(ds) : kept[m] \notin S}
<1>1. ds \in Seq(Range(ds)) /\ Len(ds) \in Nat
  BY DEF IsList
<1>2. None \subseteq Nat /\ Bad \subseteq Nat
  BY <1>1
<1>3. None = {}
  <2> SUFFICES ASSUME None # {}
               PROVE  FALSE
    OBVIOUS
  <2>1. PICK m \in None : \A k \in None : m <= k
    <3> HIDE DEF None
    <3> QED
      BY <1>2, LeastNumber
  <2>2. m \in Nat /\ m \in 0..Len(ds)
    BY <1>1, <2>1
  <2>3. m # 0
    <3>1. G(0, [i \in 0..0 |-> <<>>])
      OBVIOUS
    <3> HIDE DEF G
    <3> QED
      BY <2>1, <3>1
  <2>4. PICK g : G(m - 1, g)
    <3>1. m - 1 \in 0..Len(ds) /\ ~ (m <= m - 1)
      BY <1>1, <2>2, <2>3
    <3>2. m - 1 \notin None
      <4> HIDE DEF None
      <4> QED
        BY <2>1, <3>1
    <3> HIDE DEF G
    <3> QED
      BY <3>1, <3>2
  <2> DEFINE h == [i \in 0..m |->
                     IF i < m THEN g[i]
                     ELSE IF m \in ok THEN Append(g[m - 1], ds[m]) ELSE g[m - 1]]
             e(i) == IF i = 0 THEN <<>>
                     ELSE IF i \in ok THEN Append(h[i - 1], ds[i]) ELSE h[i - 1]
  <2>5. \A i \in 0..m : h[i] = e(i)
    <3> TAKE i \in 0..m
    <3>1. CASE i < m
      <4>1. i \in 0..(m - 1) /\ i \in Nat /\ (i # 0 => i - 1 \in 0..(m - 1) /\ i - 1 \in 0..m /\ i - 1 < m)
        BY <2>2, <3>1
      <4>2. g[i] = IF i = 0 THEN <<>>
                   ELSE IF i \in ok THEN Append(g[i - 1], ds[i]) ELSE g[i - 1]
        BY <2>4, <4>1
      <4>3. h[i] = g[i] /\ (i # 0 => h[i - 1] = g[i - 1])
        BY <3>1, <4>1
      <4> QED
        BY <4>2, <4>3
    <3>2. CASE i = m
      <4>1. m - 1 \in 0..m /\ m - 1 < m
        BY <2>2, <2>3
      <4>2. h[m - 1] = g[m - 1]
        BY <4>1
      <4>3. h[m] = IF m \in ok THEN Append(g[m - 1], ds[m]) ELSE g[m - 1]
        BY <2>2
      <4> HIDE DEF h
      <4> QED
        BY <2>3, <3>2, <4>2, <4>3
    <3> QED
      BY <2>2, <3>1, <3>2
  <2>6. h = [i \in 0..m |-> e(i)]
    <3>1. h = [i \in 0..m |-> h[i]]
      OBVIOUS
    <3> HIDE DEF h, e
    <3> QED
      BY <2>5, <3>1
  <2>7. G(m, h)
    BY <2>6
  <2> HIDE DEF h, e, G
  <2> QED
    BY <2>1, <2>7
<1>4. G(Len(ds), kept)
  <2>1. Len(ds) \notin None
    BY <1>3
  <2>2. \E g : G(Len(ds), g)
    <3> HIDE DEF G
    <3> QED
      BY <1>1, <2>1
  <2> QED
    BY <2>2
<1>5. \A i \in 0..Len(ds) :
        kept[i] = IF i = 0 THEN <<>>
                  ELSE IF i \in ok THEN Append(kept[i - 1], ds[i]) ELSE kept[i - 1]
  <2> HIDE DEF kept
  <2> QED
    BY <1>4
<1>6. Kept(ds, ok) = kept[Len(ds)]
  BY DEF Kept
<1> HIDE DEF kept
<1>7. Bad = {}
  <2> SUFFICES ASSUME Bad # {}
               PROVE  FALSE
    OBVIOUS
  <2>1. PICK m \in Bad : \A k \in Bad : m <= k
    <3> HIDE DEF Bad
    <3> QED
      BY <1>2, LeastNumber
  <2>2. m \in Nat /\ m \in 0..Len(ds) /\ kept[m] \notin S
    BY <1>1, <2>1
  <2>3. m # 0
    <3>1. kept[0] = <<>> /\ <<>> \in S
      BY <1>1, <1>5
    <3> QED
      BY <2>2, <3>1
  <2>4. m - 1 \in 0..Len(ds) /\ m - 1 \notin Bad
    <3>1. m - 1 \in 0..Len(ds) /\ ~ (m <= m - 1)
      BY <1>1, <2>2, <2>3
    <3> HIDE DEF Bad
    <3> QED
      BY <2>1, <3>1
  <2>5. kept[m - 1] \in S
    BY <2>4
  <2>6. ds[m] \in Range(ds)
    BY <1>1, <2>2, <2>3
  <2>7. Append(kept[m - 1], ds[m]) \in S
    <3> HIDE DEF Bad
    <3> QED
      BY <2>5, <2>6
  <2> HIDE DEF Bad, S
  <2> QED
    BY <1>5, <2>2, <2>3, <2>5, <2>7
<1>8. kept[Len(ds)] \in Seq(Range(ds))
  BY <1>1, <1>7
<1> QED
  BY <1>6, <1>8, ListsAreSequences

(* A function on the indices of a list is a list.                          *)
LEMMA MapIsList ==
  ASSUME NEW s, IsList(s), NEW f, DOMAIN f = DOMAIN s, f = [i \in DOMAIN f |-> f[i]]
  PROVE  IsList(f)
<1>1. DOMAIN f = 1..Len(s) /\ Len(s) \in Nat
  BY DEF IsList
<1>2. f \in Seq(Range(f))
  BY <1>1 DEF Range
<1> QED
  BY <1>2, ListsAreSequences

(* One list after another is a list.                                       *)
LEMMA ConcatIsList ==
  ASSUME NEW s, IsList(s), NEW t, IsList(t)
  PROVE  IsList(s \o t)
<1> DEFINE S == Range(s) \cup Range(t)
<1>1. s \in Seq(Range(s)) /\ t \in Seq(Range(t))
  BY DEF IsList
<1>2. s \in Seq(S) /\ t \in Seq(S)
  <2> DEFINE A == Range(s)
             B == Range(t)
  <2>1. s \in Seq(A) /\ t \in Seq(B)
    BY <1>1
  <2> HIDE DEF A, B
  <2>2. s \in Seq(A \cup B) /\ t \in Seq(A \cup B)
    BY <2>1
  <2> QED
    BY <2>2 DEF A, B
<1> HIDE DEF S
<1>3. s \o t \in Seq(S)
  BY <1>2
<1> QED
  BY <1>3, ListsAreSequences

(* And holds what they hold.                                               *)
LEMMA RangeOfConcat ==
  ASSUME NEW s, IsList(s), NEW t, IsList(t)
  PROVE  Range(s \o t) = Range(s) \cup Range(t)
<1> DEFINE A == Range(s)
           B == Range(t)
<1>1. s \in Seq(A) /\ t \in Seq(B)
  BY DEF IsList
<1>2. A = {s[i] : i \in DOMAIN s} /\ B = {t[i] : i \in DOMAIN t}
      /\ Range(s \o t) = {(s \o t)[i] : i \in DOMAIN (s \o t)}
  BY DEF Range
<1> HIDE DEF A, B
<1>3. s \in Seq(A \cup B) /\ t \in Seq(A \cup B)
  BY <1>1
<1>4. DOMAIN s = 1..Len(s) /\ DOMAIN t = 1..Len(t) /\ Len(s) \in Nat /\ Len(t) \in Nat
      /\ DOMAIN (s \o t) = 1..(Len(s) + Len(t))
  BY <1>3
<1>5. ASSUME NEW i \in DOMAIN (s \o t)
      PROVE  (s \o t)[i] \in A \cup B
  BY <1>3, <1>5
<1>6. ASSUME NEW i \in DOMAIN s
      PROVE  i \in DOMAIN (s \o t) /\ (s \o t)[i] = s[i]
  BY <1>3, <1>4, <1>6
<1>7. ASSUME NEW i \in DOMAIN t
      PROVE  Len(s) + i \in DOMAIN (s \o t) /\ (s \o t)[Len(s) + i] = t[i]
  BY <1>3, <1>4, <1>7
<1>8. Range(s \o t) \subseteq A \cup B
  BY <1>2, <1>5
<1>9. A \cup B \subseteq Range(s \o t)
  BY <1>2, <1>6, <1>7
<1> QED
  BY <1>8, <1>9 DEF A, B

-----------------------------------------------------------------------------
(* Numbers in order.                                                       *)

(* A bounded set of numbers has a greatest one.                            *)
LEMMA MaxIsMember ==
  ASSUME NEW T, T \subseteq Nat, T # {}, NEW b \in Nat, \A x \in T : x <= b
  PROVE  Max(T) \in T /\ \A x \in T : x <= Max(T)
<1> DEFINE U == {m \in Nat : \A x \in T : x <= m}
<1>1. U \subseteq Nat /\ U # {}
  OBVIOUS
<1>2. PICK m \in U : \A k \in U : m <= k
  <2> HIDE DEF U
  <2> QED
    BY <1>1, LeastNumber
<1>3. m \in Nat /\ \A x \in T : x <= m
  BY <1>2
<1>4. m \in T
  <2> SUFFICES ASSUME m \notin T
               PROVE  FALSE
    OBVIOUS
  <2>1. PICK t \in T : TRUE
    OBVIOUS
  <2>2. t \in Nat /\ t <= m /\ t # m
    BY <1>3, <2>1
  <2>3. m - 1 \in Nat /\ ~ (m <= m - 1)
    BY <1>3, <2>2
  <2>4. \A x \in T : x <= m - 1
    <3> TAKE x \in T
    <3>1. x \in Nat /\ x <= m /\ x # m
      BY <1>3
    <3> QED
      BY <1>3, <3>1
  <2>5. m - 1 \in U
    BY <2>3, <2>4
  <2> HIDE DEF U
  <2> QED
    BY <1>2, <2>3, <2>5
<1>5. \E y \in T : \A x \in T : y >= x
  <2>1. \A x \in T : m >= x
    BY <1>3
  <2> QED
    BY <1>4, <2>1
<1>6. Max(T) \in T /\ \A x \in T : Max(T) >= x
  BY <1>5 DEF Max
<1> QED
  BY <1>6

(* A finite set of numbers can be put in order: the least comes before the *)
(* others in theirs.                                                       *)
Ordering(S, s) ==
    /\ s \in [1..Cardinality(S) -> S]
    /\ \A i, j \in 1..Cardinality(S) : i < j => s[i] < s[j]

LEMMA OrderingExists ==
  ASSUME NEW S, S \subseteq Nat, IsFiniteSet(S)
  PROVE  \E s : Ordering(S, s)
<1> DEFINE Bad(T) == T \subseteq Nat /\ IsFiniteSet(T) /\ ~ \E s : Ordering(T, s)
           Sizes == {k \in Nat : \E T \in SUBSET Nat : Bad(T) /\ Cardinality(T) = k}
<1>1. Sizes = {}
  <2> SUFFICES ASSUME Sizes # {}
               PROVE  FALSE
    OBVIOUS
  <2>1. PICK k \in Sizes : \A l \in Sizes : k <= l
    <3>1. Sizes \subseteq Nat
      OBVIOUS
    <3> HIDE DEF Sizes
    <3> QED
      BY <3>1, LeastNumber
  <2>2. k \in Nat
    BY <2>1
  <2>3. PICK T \in SUBSET Nat : Bad(T) /\ Cardinality(T) = k
    BY <2>1
  <2>4. T \subseteq Nat /\ IsFiniteSet(T) /\ ~ \E s : Ordering(T, s)
    BY <2>3
  <2>5. T # {}
    <3>1. Cardinality({}) = 0
      BY FS_EmptySet
    <3>2. Ordering({}, [i \in 1..0 |-> i])
      BY <3>1 DEF Ordering
    <3> QED
      BY <2>4, <3>2
  <2>6. PICK x \in T : \A y \in T : x <= y
    BY <2>4, <2>5, LeastNumber
  <2> DEFINE R == T \ {x}
  <2>7. IsFiniteSet(R) /\ Cardinality(R) = k - 1 /\ k - 1 \in Nat
    <3>1. IsFiniteSet(R) /\ Cardinality(R) = k - 1
      BY <2>3, <2>4, <2>6, FS_RemoveElement
    <3>2. Cardinality(R) \in Nat
      BY <3>1, FS_CardinalityType
    <3> QED
      BY <3>1, <3>2
  <2>8. \E s : Ordering(R, s)
    <3>1. R \in SUBSET Nat /\ ~ (k <= k - 1)
      BY <2>2
    <3>2. k - 1 \notin Sizes
      <4> HIDE DEF Sizes
      <4> QED
        BY <2>1, <3>1, <2>7
    <3> HIDE DEF R
    <3> QED
      BY <2>7, <3>1, <3>2
  <2>9. PICK s : Ordering(R, s)
    BY <2>8
  <2>10. /\ \A i \in 1..(k - 1) : s[i] \in R
         /\ \A i, j \in 1..(k - 1) : i < j => s[i] < s[j]
    <3> HIDE DEF R
    <3> QED
      BY <2>7, <2>9 DEF Ordering
  <2>11. \A y \in R : y \in T /\ x < y
    <3> TAKE y \in R
    <3>1. y \in Nat /\ x \in Nat /\ x <= y /\ x # y /\ y \in T
      BY <2>4, <2>6
    <3> QED
      BY <3>1
  <2> HIDE DEF R
  <2> DEFINE t == [i \in 1..k |-> IF i = 1 THEN x ELSE s[i - 1]]
  <2>12. ASSUME NEW i \in 1..k
         PROVE  t[i] \in T /\ (i # 1 => i - 1 \in 1..(k - 1) /\ t[i] = s[i - 1] /\ x < t[i])
    <3>1. i # 1 => i - 1 \in 1..(k - 1)
      BY <2>2
    <3> QED
      BY <2>10, <2>11, <3>1
  <2>13. ASSUME NEW i \in 1..k, NEW j \in 1..k, i < j
         PROVE  t[i] < t[j]
    <3>1. j # 1 /\ j - 1 \in 1..(k - 1) /\ t[j] = s[j - 1] /\ x < t[j]
      BY <2>2, <2>12, <2>13
    <3>2. CASE i = 1
      BY <3>1, <3>2
    <3>3. CASE i # 1
      <4>1. i - 1 \in 1..(k - 1) /\ t[i] = s[i - 1] /\ i - 1 < j - 1
        BY <2>2, <2>12, <2>13, <3>3
      <4> HIDE DEF t
      <4> QED
        BY <2>10, <3>1, <4>1
    <3> QED
      BY <3>2, <3>3
  <2>14. t \in [1..k -> T]
    BY <2>12
  <2>15. Ordering(T, t)
    <3> HIDE DEF t
    <3> QED
      BY <2>3, <2>13, <2>14 DEF Ordering
  <2> QED
    BY <2>4, <2>15
<1>2. Cardinality(S) \in Nat
  BY FS_CardinalityType
<1>3. ~Bad(S)
  BY <1>1, <1>2
<1> QED
  BY <1>3

(* And Sorted does: every name comes once.                                 *)
LEMMA SortedOnce ==
  ASSUME NEW S, S \subseteq Nat, IsFiniteSet(S)
  PROVE  /\ DOMAIN Sorted(S) = 1..Cardinality(S) /\ Cardinality(S) \in Nat
         /\ \A i \in DOMAIN Sorted(S) : Sorted(S)[i] \in S
         /\ \A i, j \in DOMAIN Sorted(S) : Sorted(S)[i] = Sorted(S)[j] => i = j
         /\ \A x \in S : \E i \in DOMAIN Sorted(S) : Sorted(S)[i] = x
<1> DEFINE k == Cardinality(S)
           s == Sorted(S)
<1>1. k \in Nat
  BY FS_CardinalityType
<1>2. s \in [1..k -> S] /\ \A i, j \in DOMAIN s : i < j => s[i] < s[j]
  <2>1. PICK t : Ordering(S, t)
    BY OrderingExists
  <2>2. t \in [1..k -> S] /\ \A i, j \in DOMAIN t : i < j => t[i] < t[j]
    BY <2>1 DEF Ordering
  <2> HIDE DEF k
  <2>3. s = CHOOSE u \in [1..k -> S] : \A i, j \in DOMAIN u : i < j => u[i] < u[j]
    BY DEF Sorted, k
  <2> HIDE DEF s
  <2> QED
    BY <2>2, <2>3
<1> HIDE DEF s
<1>3. DOMAIN s = 1..k /\ \A i \in 1..k : s[i] \in S /\ s[i] \in Nat
  BY <1>2
<1>4. ASSUME NEW i \in 1..k, NEW j \in 1..k, s[i] = s[j]
      PROVE  i = j
  <2>1. s[i] \in Nat /\ s[j] \in Nat /\ i \in Nat /\ j \in Nat
    BY <1>1, <1>3
  <2>2. ~ (s[i] < s[j]) /\ ~ (s[j] < s[i])
    BY <1>4, <2>1
  <2>3. ~ (i < j) /\ ~ (j < i)
    BY <1>2, <1>3, <2>2
  <2> QED
    BY <2>1, <2>3
<1>5. s \in Injection(1..k, S)
  BY <1>2, <1>3, <1>4 DEF Injection, IsInjective
<1>6. Cardinality(1..k) = k
  BY <1>1, FS_Interval
<1>7. s \in Surjection(1..k, S)
  BY <1>5, <1>6, FS_Injection
<1>8. \A x \in S : \E i \in 1..k : s[i] = x
  BY <1>7 DEF Surjection
<1> QED
  BY <1>1, <1>3, <1>4, <1>8 DEF s

-----------------------------------------------------------------------------
(* The environment.                                                        *)

(* What is where in one list after another.                                *)
LEMMA ConcatAt ==
  ASSUME NEW s, IsList(s), NEW t, IsList(t)
  PROVE  /\ Len(s) \in Nat /\ DOMAIN s = 1..Len(s)
         /\ \A i \in DOMAIN (s \o t) :
              \/ i \in DOMAIN s /\ (s \o t)[i] = s[i]
              \/ i - Len(s) \in DOMAIN t /\ (s \o t)[i] = t[i - Len(s)]
         /\ \A i \in DOMAIN s : i \in DOMAIN (s \o t) /\ (s \o t)[i] = s[i]
         /\ \A i \in DOMAIN t : Len(s) + i \in DOMAIN (s \o t) /\ (s \o t)[Len(s) + i] = t[i]
<1> DEFINE A == Range(s)
           B == Range(t)
<1>1. s \in Seq(A) /\ t \in Seq(B)
  BY DEF IsList
<1> HIDE DEF A, B
<1>2. DOMAIN s = 1..Len(s) /\ DOMAIN t = 1..Len(t) /\ Len(s) \in Nat /\ Len(t) \in Nat
      /\ DOMAIN (s \o t) = 1..(Len(s) + Len(t))
  BY <1>1
<1>3. ASSUME NEW i \in DOMAIN (s \o t)
      PROVE  \/ i \in DOMAIN s /\ (s \o t)[i] = s[i]
             \/ i - Len(s) \in DOMAIN t /\ (s \o t)[i] = t[i - Len(s)]
  BY <1>1, <1>2
<1>4. ASSUME NEW i \in DOMAIN s
      PROVE  i \in DOMAIN (s \o t) /\ (s \o t)[i] = s[i]
  BY <1>1, <1>2, <1>4
<1>5. ASSUME NEW i \in DOMAIN t
      PROVE  Len(s) + i \in DOMAIN (s \o t) /\ (s \o t)[Len(s) + i] = t[i]
  BY <1>1, <1>2, <1>5
<1> QED
  BY <1>2, <1>3, <1>4, <1>5

(* mergeEnv: every variable that is set comes once and with its value,     *)
(* every default that is not is there, and there is nothing else.          *)
THEOREM MergeEnvMerges ==
  ASSUME NEW defaults, IsList(defaults),
         \A i, j \in DOMAIN defaults : defaults[i].key = defaults[j].key => i = j,
         NEW env, DOMAIN env \subseteq Nat, IsFiniteSet(DOMAIN env)
  PROVE  /\ \A k \in DOMAIN env :
              Has(MergeEnv(defaults, env), k, env[k]) /\ Count(MergeEnv(defaults, env), k) = 1
         /\ \A j \in DOMAIN defaults :
              defaults[j].key \notin DOMAIN env => defaults[j] \in Range(MergeEnv(defaults, env))
         /\ \A e \in Range(MergeEnv(defaults, env)) :
              e.key \in DOMAIN env \cup {defaults[j].key : j \in DOMAIN defaults}
<1> DEFINE keys == {defaults[i].key : i \in DOMAIN defaults}
           R == DOMAIN env \ keys
           rest == Sorted(R)
           entry(k) == [key |-> k, value |-> env[k]]
           p == [i \in DOMAIN defaults |->
                   IF defaults[i].key \in DOMAIN env
                   THEN [key |-> defaults[i].key, value |-> env[defaults[i].key]]
                   ELSE defaults[i]]
           q == [i \in DOMAIN rest |-> [key |-> rest[i], value |-> env[rest[i]]]]
           m == MergeEnv(defaults, env)
<1>1. m = p \o q
  BY DEF MergeEnv
<1>2. R \subseteq Nat /\ IsFiniteSet(R)
  BY FS_Difference
<1>3. /\ DOMAIN rest = 1..Cardinality(R) /\ Cardinality(R) \in Nat
      /\ \A i \in DOMAIN rest : rest[i] \in R
      /\ \A i, j \in DOMAIN rest : rest[i] = rest[j] => i = j
      /\ \A x \in R : \E i \in DOMAIN rest : rest[i] = x
  <2> HIDE DEF R
  <2> QED
    BY <1>2, SortedOnce
<1>4. DOMAIN p = DOMAIN defaults /\ DOMAIN q = DOMAIN rest
  OBVIOUS
<1>5. \A i \in DOMAIN p :
        /\ p[i].key = defaults[i].key /\ p[i].key \in keys
        /\ p[i] = IF p[i].key \in DOMAIN env THEN entry(p[i].key) ELSE defaults[i]
  OBVIOUS
<1>6. \A i \in DOMAIN q : q[i].key = rest[i] /\ q[i] = entry(rest[i])
  OBVIOUS
<1>7. IsList(p)
  <2>1. p = [i \in DOMAIN p |-> p[i]]
    OBVIOUS
  <2> HIDE DEF p
  <2> QED
    BY <1>4, <2>1, MapIsList
<1>8. IsList(q)
  <2>1. q = [i \in DOMAIN q |-> q[i]]
    OBVIOUS
  <2>2. DOMAIN q = 1..Cardinality(R) /\ Cardinality(R) \in Nat
    BY <1>3
  <2> HIDE DEF q, R
  <2>3. q \in Seq(Range(q))
    BY <2>1, <2>2 DEF Range
  <2> QED
    BY <2>3, ListsAreSequences
<1> HIDE DEF p, q, rest, m, entry
<1>9. /\ \A i \in DOMAIN m :
           \/ i \in DOMAIN p /\ m[i] = p[i]
           \/ i - Len(p) \in DOMAIN q /\ m[i] = q[i - Len(p)]
      /\ \A i \in DOMAIN p : i \in DOMAIN m /\ m[i] = p[i]
      /\ \A i \in DOMAIN q : Len(p) + i \in DOMAIN m /\ m[Len(p) + i] = q[i]
      /\ Len(p) \in Nat /\ DOMAIN m \subseteq Nat
  <2>1. DOMAIN m \subseteq Nat
    <3>1. IsList(m)
      BY <1>1, <1>7, <1>8, ConcatIsList
    <3> QED
      BY <3>1 DEF IsList
  <2> QED
    BY <1>1, <1>7, <1>8, <2>1, ConcatAt
<1>10. ASSUME NEW k \in DOMAIN env
       PROVE  \E i \in DOMAIN m : m[i] = entry(k)
  <2>1. CASE k \in keys
    <3>1. PICK i \in DOMAIN defaults : defaults[i].key = k
      BY <2>1
    <3>2. i \in DOMAIN p /\ p[i] = entry(k)
      BY <1>4, <1>5, <3>1
    <3> QED
      BY <1>9, <3>2
  <2>2. CASE k \notin keys
    <3>1. PICK i \in DOMAIN rest : rest[i] = k
      BY <1>3, <2>2
    <3>2. i \in DOMAIN q /\ q[i] = entry(k)
      BY <1>4, <1>6, <3>1
    <3> QED
      BY <1>9, <3>2
  <2> QED
    BY <2>1, <2>2
<1>11. ASSUME NEW i \in DOMAIN m, NEW j \in DOMAIN m, m[i].key = m[j].key
       PROVE  i = j
  <2>1. \A a \in DOMAIN p, b \in DOMAIN q : p[a].key # q[b].key
    BY <1>3, <1>4, <1>5, <1>6
  <2>2. \A a, b \in DOMAIN p : p[a].key = p[b].key => a = b
    BY <1>4, <1>5
  <2>3. \A a, b \in DOMAIN q : q[a].key = q[b].key => a = b
    BY <1>3, <1>4, <1>6
  <2>4. i - Len(p) = j - Len(p) => i = j
    BY <1>9
  <2>5. /\ \/ i \in DOMAIN p /\ m[i] = p[i]
           \/ i - Len(p) \in DOMAIN q /\ m[i] = q[i - Len(p)]
        /\ \/ j \in DOMAIN p /\ m[j] = p[j]
           \/ j - Len(p) \in DOMAIN q /\ m[j] = q[j - Len(p)]
    BY <1>9
  <2> QED
    BY <1>11, <2>1, <2>2, <2>3, <2>4, <2>5
<1>12. ASSUME NEW k \in DOMAIN env
       PROVE  Has(m, k, env[k]) /\ Count(m, k) = 1
  <2>1. PICK i \in DOMAIN m : m[i] = entry(k)
    BY <1>10
  <2>2. entry(k).key = k /\ entry(k) = [key |-> k, value |-> env[k]]
    BY DEF entry
  <2>3. {j \in DOMAIN m : m[j].key = k} = {i}
    BY <1>11, <2>1, <2>2
  <2>4. Count(m, k) = 1
    BY <2>3, FS_Singleton DEF Count
  <2> QED
    BY <2>1, <2>2, <2>4 DEF Has
<1>13. ASSUME NEW j \in DOMAIN defaults, defaults[j].key \notin DOMAIN env
       PROVE  defaults[j] \in Range(m)
  <2>1. j \in DOMAIN p /\ p[j] = defaults[j]
    BY <1>4, <1>5, <1>13
  <2>2. j \in DOMAIN m /\ m[j] = defaults[j]
    BY <1>9, <2>1
  <2> QED
    BY <2>2 DEF Range
<1>14. ASSUME NEW e \in Range(m)
       PROVE  e.key \in DOMAIN env \cup keys
  <2>1. PICK i \in DOMAIN m : m[i] = e
    BY DEF Range
  <2>2. \A j \in DOMAIN q : q[j].key \in DOMAIN env
    BY <1>3, <1>4, <1>6
  <2>3. \A j \in DOMAIN p : p[j].key \in keys
    BY <1>5
  <2> HIDE DEF keys
  <2> QED
    BY <1>9, <2>1, <2>2, <2>3
<1> QED
  BY <1>12, <1>13, <1>14 DEF m

-----------------------------------------------------------------------------
(* The user and the limits.                                                *)

(* A user of numbers that fit is that user, with its own group or as both. *)
LEMMA UserParsed ==
  ASSUME NEW user, user # Unset, IsList(user), Len(user) \in 1..2,
         Range(user) \subseteq 0..(2^Bits - 1)
  PROVE  ParseUser(user) = <<user[1], user[Len(user)]>>
<1> DEFINE number(field) == IF field = ByName THEN 0
                            ELSE IF field < 2^Bits THEN field ELSE 2^Bits - 1
<1>1. ASSUME NEW x \in 0..(2^Bits - 1)
      PROVE  number(x) = x
  <2>1. x \in Nat /\ x < 2^Bits
    BY BitsArePositive
  <2>2. x # ByName
    BY <2>1, NameIsNoNumber
  <2> QED
    BY <2>1, <2>2
<1>2. user[1] \in Range(user) /\ user[Len(user)] \in Range(user)
  <2>1. user \in Seq(Range(user))
    BY DEF IsList
  <2> QED
    BY <2>1
<1>3. ParseUser(user) = <<number(user[1]), number(user[Len(user)])>>
  BY DEF ParseUser
<1> HIDE DEF number
<1> QED
  BY <1>1, <1>2, <1>3

(* A limit of the memory that fits its integer is the limit.               *)
LEMMA MemoryLimited ==
  ASSUME NEW limits
  PROVE  /\ limits.mem \in 1..(2^(Bits - 1) - 1) => BuildResources(limits).mem = limits.mem
         /\ limits.mem = 0 => BuildResources(limits).mem = Unset
<1>1. ASSUME limits.mem \in 1..(2^(Bits - 1) - 1)
      PROVE  BuildResources(limits).mem = limits.mem
  <2>1. \A x \in 1..(2^(Bits - 1) - 1) : x > 0 /\ x < 2^(Bits - 1)
    BY BitsArePositive
  <2> QED
    BY <1>1, <2>1 DEF BuildResources
<1> QED
  BY <1>1 DEF BuildResources

-----------------------------------------------------------------------------
(* The mounts of a bundle.                                                 *)

(* The resolver is mounted into a container that shares the network of the *)
(* pod, and into no other that does not mount it itself.                   *)
LEMMA ResolverMounted ==
  ASSUME NEW c, IsList(c.mounts), \A k \in DOMAIN c.mounts : c.mounts[k].src # ResolvConf,
         NEW dns \in BOOLEAN
  PROVE  (\E m \in Range(BundleMounts(c, dns)) : m.src = ResolvConf) <=> (c.net # "none" /\ dns)
<1> DEFINE D == DefaultMounts
           R == ResolvConfMount(c, dns)
           r == [src |-> ResolvConf, dst |-> ResolvConf]
           mount(fs, dst) == [src |-> <<fs>>, dst |-> dst]
           S == {mount("proc", <<"proc">>), mount("tmpfs", <<"dev">>), mount("devpts", <<"dev", "pts">>),
                 mount("shm", <<"dev", "shm">>), mount("mqueue", <<"dev", "mqueue">>),
                 mount("sysfs", <<"sys">>)}
<1>1. D \in Seq(S) /\ \A m \in S : m.src # ResolvConf
  <2>1. D \in Seq(S)
    BY DEF DefaultMounts
  <2>2. \A m \in S : Len(m.src) = 1
    OBVIOUS
  <2>3. Len(ResolvConf) = 2
    BY DEF ResolvConf
  <2>4. \A m \in S : m.src # ResolvConf
    <3> HIDE DEF S
    <3> QED
      BY <2>2, <2>3
  <2> QED
    BY <2>1, <2>4
<1> HIDE DEF S, r
<1>2. IsList(D) /\ \A m \in Range(D) : m.src # ResolvConf
  <2> HIDE DEF D
  <2>1. IsList(D)
    BY <1>1, ListsAreSequences
  <2>2. Range(D) \subseteq S
    BY <1>1 DEF Range
  <2> QED
    BY <1>1, <2>1, <2>2
<1>3. R = IF c.net # "none" /\ dns THEN <<r>> ELSE <<>>
  BY DEF ResolvConfMount, r
<1>4. IsList(R) /\ Range(R) = IF c.net # "none" /\ dns THEN {r} ELSE {}
  <2> HIDE DEF R
  <2>1. R \in Seq({r})
    <3>1. <<r>> \in Seq({r}) /\ <<>> \in Seq({r})
      OBVIOUS
    <3> QED
      BY <1>3, <3>1
  <2>2. Range(R) = IF c.net # "none" /\ dns THEN {r} ELSE {}
    BY <1>3 DEF Range
  <2> QED
    BY <2>1, <2>2, ListsAreSequences
<1> HIDE DEF D, R
<1>5. BundleMounts(c, dns) = (D \o R) \o c.mounts
  BY DEF BundleMounts, D, R
<1>6. Range(BundleMounts(c, dns)) = (Range(D) \cup Range(R)) \cup Range(c.mounts)
  <2> DEFINE e == D \o R
  <2>1. IsList(e) /\ Range(e) = Range(D) \cup Range(R)
    BY <1>2, <1>4, ConcatIsList, RangeOfConcat
  <2> HIDE DEF e
  <2>2. Range(e \o c.mounts) = Range(e) \cup Range(c.mounts)
    BY <2>1, RangeOfConcat
  <2>3. BundleMounts(c, dns) = e \o c.mounts
    BY <1>5 DEF e
  <2> QED
    BY <2>1, <2>2, <2>3
<1>7. \A m \in Range(c.mounts) : m.src # ResolvConf
  BY DEF Range
<1>8. r.src = ResolvConf
  BY DEF r
<1> QED
  BY <1>2, <1>4, <1>6, <1>7, <1>8

(* A mount hides what is mounted on its path before.                       *)
LEMMA SeenInTail ==
  ASSUME NEW s, IsList(s), NEW t, IsList(t), NEW k \in DOMAIN t
  PROVE  SeenAt(s \o t, t[k].dst) = SeenAt(t, t[k].dst)
<1> DEFINE u == s \o t
           dst == t[k].dst
           T == {i \in DOMAIN t : t[i].dst = dst}
           U == {i \in DOMAIN u : u[i].dst = dst}
<1>1. /\ Len(s) \in Nat /\ DOMAIN s = 1..Len(s) /\ DOMAIN t = 1..Len(t) /\ Len(t) \in Nat
      /\ \A i \in DOMAIN u :
           \/ i \in DOMAIN s /\ u[i] = s[i]
           \/ i - Len(s) \in DOMAIN t /\ u[i] = t[i - Len(s)]
      /\ \A i \in DOMAIN t : Len(s) + i \in DOMAIN u /\ u[Len(s) + i] = t[i]
      /\ DOMAIN u = 1..(Len(s) + Len(t))
  <2>1. DOMAIN t = 1..Len(t) /\ Len(t) \in Nat
    BY DEF IsList
  <2>2. DOMAIN u = 1..(Len(s) + Len(t))
    <3>1. s \in Seq(Range(s)) /\ t \in Seq(Range(t))
      BY DEF IsList
    <3> QED
      BY <3>1
  <2> QED
    BY <2>1, <2>2, ConcatAt
<1> HIDE DEF u, dst
<1>2. k \in T /\ T \subseteq Nat /\ \A i \in T : i <= Len(t)
  BY <1>1 DEF dst
<1>3. Max(T) \in T /\ \A i \in T : i <= Max(T)
  <2> HIDE DEF T
  <2> QED
    BY <1>1, <1>2, MaxIsMember
<1>4. Max(T) \in Nat /\ Len(s) + Max(T) \in U /\ U \subseteq Nat /\ \A i \in U : i <= Len(s) + Len(t)
  BY <1>1, <1>3
<1>5. Max(U) \in U /\ \A i \in U : i <= Max(U)
  <2>1. Len(s) + Len(t) \in Nat
    BY <1>1
  <2> HIDE DEF U
  <2> QED
    BY <1>4, <2>1, MaxIsMember
<1>6. \A i \in U : i <= Len(s) + Max(T)
  <2> TAKE i \in U
  <2>1. i \in DOMAIN u /\ i \in Nat
    BY <1>1
  <2>2. CASE i \in DOMAIN s
    BY <1>1, <1>4, <2>2
  <2>3. CASE i - Len(s) \in DOMAIN t /\ u[i] = t[i - Len(s)]
    <3>1. i - Len(s) \in T
      BY <2>3
    <3>2. i - Len(s) <= Max(T)
      BY <1>3, <3>1
    <3> HIDE DEF T, U
    <3> QED
      BY <1>1, <1>4, <2>1, <3>2
  <2> QED
    BY <1>1, <2>1, <2>2, <2>3
<1>7. Max(U) = Len(s) + Max(T)
  <2>1. Max(U) \in Nat /\ Len(s) + Max(T) \in Nat
    BY <1>1, <1>4, <1>5
  <2>2. Max(U) <= Len(s) + Max(T) /\ Len(s) + Max(T) <= Max(U)
    BY <1>4, <1>5, <1>6
  <2> HIDE DEF T, U
  <2> QED
    BY <2>1, <2>2
<1>8. u[Max(U)] = t[Max(T)]
  BY <1>1, <1>3, <1>7
<1> QED
  BY <1>8 DEF SeenAt, u, dst

(* And the one mount on its path is seen.                                  *)
LEMMA SeenAlone ==
  ASSUME NEW s, IsList(s), NEW t, IsList(t), NEW i \in DOMAIN s,
         \A j \in DOMAIN s : s[j].dst = s[i].dst => j = i,
         \A j \in DOMAIN t : t[j].dst # s[i].dst
  PROVE  SeenAt(s \o t, s[i].dst) = s[i]
<1> DEFINE u == s \o t
<1>1. /\ Len(s) \in Nat /\ DOMAIN s = 1..Len(s)
      /\ \A j \in DOMAIN u :
           \/ j \in DOMAIN s /\ u[j] = s[j]
           \/ j - Len(s) \in DOMAIN t /\ u[j] = t[j - Len(s)]
      /\ i \in DOMAIN u /\ u[i] = s[i]
  BY ConcatAt
<1> HIDE DEF u
<1>2. {j \in DOMAIN u : u[j].dst = s[i].dst} = {i}
  BY <1>1
<1>3. Max({i}) = i
  <2>1. i \in Nat /\ {i} \subseteq Nat /\ {i} # {} /\ \A x \in {i} : x <= i
    BY <1>1
  <2>2. Max({i}) \in {i}
    BY <2>1, MaxIsMember
  <2> QED
    BY <2>2
<1> QED
  BY <1>1, <1>2, <1>3 DEF SeenAt, u

(* A container sees its own mounts, and of the bundler's those it has none *)
(* of its own for.                                                         *)
THEOREM MountsSeen ==
  ASSUME NEW c, IsList(c.mounts), NEW dns
  PROVE  /\ \A k \in DOMAIN c.mounts :
              SeenAt(BundleMounts(c, dns), c.mounts[k].dst) = SeenAt(c.mounts, c.mounts[k].dst)
         /\ \A m \in Range(DefaultMounts) :
              (\A k \in DOMAIN c.mounts : c.mounts[k].dst # m.dst) =>
                  SeenAt(BundleMounts(c, dns), m.dst) = m
<1> DEFINE D == DefaultMounts
           R == ResolvConfMount(c, dns)
           r == [src |-> ResolvConf, dst |-> ResolvConf]
           M == c.mounts
<1>1. DOMAIN D = 1..6 /\ D \in Seq(Range(D))
  <2>1. D \in Seq({D[1], D[2], D[3], D[4], D[5], D[6]})
    BY DEF DefaultMounts
  <2>2. DOMAIN D = 1..6
    BY DEF DefaultMounts
  <2> HIDE DEF D
  <2>3. IsList(D)
    BY <2>1, ListsAreSequences
  <2> QED
    BY <2>2, <2>3 DEF IsList
<1>2. \A i, j \in DOMAIN D : D[i].dst = D[j].dst => i = j
  BY DEF DefaultMounts
<1>3. \A i \in DOMAIN D : D[i].dst # ResolvConf
  BY DEF DefaultMounts, ResolvConf
<1>4. R = <<r>> \/ R = <<>>
  BY DEF ResolvConfMount
<1> HIDE DEF D, R
<1>5. IsList(D) /\ IsList(R) /\ \A j \in DOMAIN R : R[j].dst = ResolvConf
  <2>1. r.dst = ResolvConf
    OBVIOUS
  <2> HIDE DEF r
  <2>2. R \in Seq({r})
    <3>1. <<r>> \in Seq({r}) /\ <<>> \in Seq({r})
      OBVIOUS
    <3> QED
      BY <1>4, <3>1
  <2>3. \A j \in DOMAIN R : R[j] = r
    BY <1>4
  <2> QED
    BY <1>1, <2>1, <2>2, <2>3, ListsAreSequences
<1> HIDE DEF M, r
<1>6. BundleMounts(c, dns) = (D \o R) \o M /\ (D \o R) \o M = D \o (R \o M)
  <2>1. BundleMounts(c, dns) = (D \o R) \o M
    BY DEF BundleMounts, D, R, M
  <2>2. IsList(M)
    BY DEF M
  <2> DEFINE S == Range(D) \cup Range(R) \cup Range(M)
  <2>3. D \in Seq(S) /\ R \in Seq(S) /\ M \in Seq(S)
    <3> DEFINE X == Range(D)
               Y == Range(R)
               Z == Range(M)
    <3>1. D \in Seq(X) /\ R \in Seq(Y) /\ M \in Seq(Z)
      BY <1>5, <2>2 DEF IsList
    <3> HIDE DEF X, Y, Z
    <3>2. D \in Seq(X \cup Y \cup Z) /\ R \in Seq(X \cup Y \cup Z) /\ M \in Seq(X \cup Y \cup Z)
      BY <3>1
    <3> QED
      BY <3>2 DEF X, Y, Z
  <2> HIDE DEF S
  <2> QED
    BY <2>1, <2>3
<1>7. IsList(M) /\ IsList(D \o R) /\ IsList(R \o M)
  BY <1>5, ConcatIsList DEF M
<1>8. ASSUME NEW k \in DOMAIN M
      PROVE  SeenAt(BundleMounts(c, dns), M[k].dst) = SeenAt(M, M[k].dst)
  <2> DEFINE e == D \o R
  <2>1. IsList(e) /\ BundleMounts(c, dns) = e \o M
    BY <1>6, <1>7
  <2> HIDE DEF e
  <2> QED
    BY <1>7, <2>1, SeenInTail
<1>9. ASSUME NEW m \in Range(D), \A k \in DOMAIN M : M[k].dst # m.dst
      PROVE  SeenAt(BundleMounts(c, dns), m.dst) = m
  <2> DEFINE e == R \o M
  <2>1. PICK i \in DOMAIN D : D[i] = m
    BY DEF Range
  <2>2. \A j \in DOMAIN e : e[j].dst # D[i].dst
    <3>1. \A j \in DOMAIN e : e[j] \in Range(R) \cup Range(M)
      <4>1. Range(e) = Range(R) \cup Range(M)
        BY <1>5, <1>7, RangeOfConcat
      <4> HIDE DEF e
      <4> QED
        BY <4>1 DEF Range
    <3>2. D[i].dst # ResolvConf /\ \A x \in Range(R) : x.dst = ResolvConf
      BY <1>3, <1>5 DEF Range
    <3>3. \A x \in Range(M) : x.dst # D[i].dst
      BY <1>9, <2>1 DEF Range
    <3> HIDE DEF e
    <3> QED
      BY <3>1, <3>2, <3>3
  <2>3. IsList(e) /\ BundleMounts(c, dns) = D \o e
    BY <1>6, <1>7
  <2> HIDE DEF e
  <2>4. SeenAt(D \o e, D[i].dst) = D[i]
    BY <1>2, <1>5, <2>2, <2>3, SeenAlone
  <2> QED
    BY <2>1, <2>3, <2>4
<1> QED
  BY <1>8, <1>9 DEF D, M
=============================================================================
