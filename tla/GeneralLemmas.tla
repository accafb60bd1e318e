---------------------------- MODULE GeneralLemmas -----------------------------
(* Induction, over sets of numbers; what is reached in a graph; joined maps. *)
EXTENDS Reach, Maps, WellFoundedInduction, FiniteSetTheorems, TLAPS

\* A set of numbers with something in it has a least.
LEMMA LeastNumber ==
    ASSUME NEW T, T \subseteq Nat, T # {}
    PROVE  \E x \in T : \A y \in T : x <= y
<1> DEFINE R == OpToRel(<, Nat)
<1>1. IsWellFoundedOn(R, Nat)
    BY NatLessThanWellFounded
<1>2. PICK x \in T : \A y \in T : <<y, x>> \notin R
    BY ONLY <1>1, T \subseteq Nat, T # {}, WFMin
<1>3. \A y \in T : ~(y < x)
    BY <1>2 DEF OpToRel
<1>4. QED BY <1>3

\* A set that has 0 and with a number the next has all numbers.
LEMMA NumbersByInduction ==
    ASSUME NEW T, 0 \in T, \A n \in Nat \cap T : n + 1 \in T
    PROVE  Nat \subseteq T
<1> SUFFICES ASSUME Nat \ T # {} PROVE FALSE
    OBVIOUS
<1>1. PICK x \in Nat \ T : \A y \in Nat \ T : x <= y
    BY LeastNumber
<1>2. x - 1 \in Nat \cap T
    BY <1>1
<1>3. QED BY <1>1, <1>2

\* A finite set of numbers with something in it has a greatest.
LEMMA GreatestNumber ==
    ASSUME NEW T, T \subseteq Nat, T # {}, IsFiniteSet(T)
    PROVE  \E x \in T : \A y \in T : y <= x
<1> DEFINE Has(S) == S # {} => \E x \in S : \A y \in S : y <= x
           Sizes == {n \in Nat : \A S : S \subseteq Nat /\ IsFiniteSet(S) /\ Cardinality(S) = n => Has(S)}
<1>1. \A n \in Nat : n \in Sizes <=> \A S : S \subseteq Nat /\ IsFiniteSet(S) /\ Cardinality(S) = n => Has(S)
    OBVIOUS
<1> HIDE DEF Sizes
<1>2. 0 \in Sizes
    <2>1. \A S : IsFiniteSet(S) /\ Cardinality(S) = 0 => S = {}
        BY FS_EmptySet
    <2>2. QED BY <1>1, <2>1
<1>3. ASSUME NEW n \in Nat \cap Sizes PROVE n + 1 \in Sizes
    <2>1. ASSUME NEW S, S \subseteq Nat, IsFiniteSet(S), Cardinality(S) = n + 1, NEW z \in S
          PROVE  \E x \in S : \A y \in S : y <= x
        <3>1. IsFiniteSet(S \ {z}) /\ Cardinality(S \ {z}) = Cardinality(S) - 1
            BY <2>1, FS_RemoveElement
        <3>2. n \in Nat /\ Cardinality(S) - 1 = n /\ S \ {z} \subseteq Nat
            BY <1>3, <2>1
        <3>3. Has(S \ {z})
            BY <1>1, <1>3, <3>1, <3>2
        <3>4. CASE S \ {z} = {}
            BY <2>1, <3>4
        <3>5. CASE S \ {z} # {}
            <4>1. PICK x \in S \ {z} : \A y \in S \ {z} : y <= x
                BY <3>3, <3>5
            <4>2. x \in Nat /\ z \in Nat /\ \A y \in S : y \in Nat
                BY <2>1
            <4>3. CASE z <= x
                BY <4>1, <4>2, <4>3
            <4>4. CASE x <= z
                BY <2>1, <4>1, <4>2, <4>4
            <4>5. QED BY <4>2, <4>3, <4>4
        <3>6. QED BY <3>4, <3>5
    <2>2. QED BY <1>1, <2>1
<1>4. Cardinality(T) \in Nat /\ Nat \subseteq Sizes
    BY <1>2, <1>3, NumbersByInduction, FS_CardinalityType
<1>5. QED BY <1>1, <1>4

-------------------------------------------------------------------------------
(* Reach. *)

\* The waves are what their recursive definition says.
LEMMA WavesDefined ==
    ASSUME NEW next, NEW from, Cardinality(DOMAIN next) \in Nat
    PROVE  LET w == Waves(next, from)
           IN  /\ w[0] = from
               /\ \A i \in 1..Cardinality(DOMAIN next) : w[i] = Widened(next, w[i - 1])
<1> DEFINE N == Cardinality(DOMAIN next)
           Begun(k) == \E g : /\ g = [i \in 0..k |-> g[i]]
                              /\ g[0] = from /\ \A i \in 1..k : g[i] = Widened(next, g[i - 1])
           T == {k \in Nat : Begun(k)}
<1>1. 0 \in T
    <2> DEFINE h == [i \in 0..0 |-> from]
    <2>1. h[0] = from /\ h = [i \in 0..0 |-> h[i]] /\ \A i \in 1..0 : h[i] = Widened(next, h[i - 1])
        OBVIOUS
    <2> HIDE DEF h
    <2>2. Begun(0)
        BY <2>1
    <2>3. QED BY <2>2
<1>2. ASSUME NEW k \in Nat \cap T PROVE k + 1 \in T
    <2>1. PICK g : g[0] = from /\ \A i \in 1..k : g[i] = Widened(next, g[i - 1])
        OBVIOUS
    <2> DEFINE h == [i \in 0..(k + 1) |-> IF i = k + 1 THEN Widened(next, g[k]) ELSE g[i]]
    <2>2. h[0] = from /\ h = [i \in 0..(k + 1) |-> h[i]]
        BY <2>1
    <2>3. ASSUME NEW i \in 1..(k + 1) PROVE h[i] = Widened(next, h[i - 1])
        <3>1. h[i - 1] = g[i - 1]
            OBVIOUS
        <3>2. CASE i = k + 1
            BY <3>1, <3>2
        <3>3. CASE i # k + 1
            <4>1. h[i] = g[i] /\ i \in 1..k
                BY <3>3
            <4>2. QED BY <2>1, <3>1, <4>1
        <3>4. QED BY <3>2, <3>3
    <2> HIDE DEF h
    <2>4. Begun(k + 1)
        BY <2>2, <2>3
    <2> HIDE DEF Begun
    <2>5. QED BY <2>4
<1>3. N \in T
    <2> HIDE DEF T, N
    <2>1. Nat \subseteq T
        BY <1>1, <1>2, NumbersByInduction
    <2>2. QED BY <2>1 DEF N
<1>4. PICK g : /\ g = [i \in 0..N |-> g[i]]
               /\ g[0] = from /\ \A i \in 1..N : g[i] = Widened(next, g[i - 1])
    BY <1>3
<1>5. g = [i \in 0..N |-> IF i = 0 THEN from ELSE Widened(next, g[i - 1])]
    <2>1. ASSUME NEW i \in 0..N PROVE g[i] = IF i = 0 THEN from ELSE Widened(next, g[i - 1])
        <3>1. CASE i = 0
            BY <1>4, <3>1
        <3>2. CASE i # 0
            <4> HIDE DEF N
            <4>1. i \in 1..N
                BY <3>2
            <4>2. QED BY <1>4, <3>2, <4>1
        <3>3. QED BY <3>1, <3>2
    <2>2. QED BY <1>4, <2>1
<1> DEFINE w == CHOOSE f : f = [i \in 0..N |-> IF i = 0 THEN from ELSE Widened(next, f[i - 1])]
<1>6. w = [i \in 0..N |-> IF i = 0 THEN from ELSE Widened(next, w[i - 1])]
    BY <1>5
<1>7. Waves(next, from) = w
    BY DEF Waves
<1> HIDE DEF w
<1>8. w[0] = from /\ \A i \in 1..N : w[i] = Widened(next, w[i - 1])
    BY <1>6
<1>9. QED BY <1>7, <1>8

(* What is reached is the least set with the nodes it starts from and,     *)
(* with a node, those next to it: as many waves as there are nodes suffice. *)
LEMMA ReachedIsLeast ==
    ASSUME NEW nodes, IsFiniteSet(nodes), NEW next \in [nodes -> SUBSET nodes], NEW from \in SUBSET nodes
    PROVE  /\ Reached(next, from) \subseteq nodes
           /\ from \subseteq Reached(next, from)
           /\ \A n \in Reached(next, from) : next[n] \subseteq Reached(next, from)
           /\ \A S : from \subseteq S /\ (\A n \in S \cap nodes : next[n] \subseteq S) => Reached(next, from) \subseteq S
<1> DEFINE w == Waves(next, from)
           N == Cardinality(nodes)
<1>1. N \in Nat /\ DOMAIN next = nodes
    BY FS_CardinalityType
<1>2. Reached(next, from) = w[N]
    BY <1>1 DEF Reached
<1>3. w[0] = from /\ \A i \in 1..N : w[i] = Widened(next, w[i - 1])
    BY <1>1, WavesDefined
<1> HIDE DEF w, N
<1>4. \A i \in Nat : i < N => w[i + 1] = Widened(next, w[i])
    BY <1>1, <1>3
<1>5. ASSUME NEW S, from \subseteq S, \A n \in S \cap nodes : next[n] \subseteq S
      PROVE  \A i \in 0..N : w[i] \subseteq S \cap nodes
    <2> DEFINE T == {i \in Nat : i <= N => w[i] \subseteq S \cap nodes}
    <2>1. 0 \in T
        BY <1>3, <1>5
    <2>2. ASSUME NEW i \in Nat \cap T PROVE i + 1 \in T
        <3>1. CASE i < N
            BY <1>1, <1>4, <1>5, <3>1 DEF Widened
        <3>2. CASE ~(i < N)
            BY <1>1, <3>2
        <3>3. QED BY <3>1, <3>2
    <2> HIDE DEF T
    <2>3. Nat \subseteq T
        BY <2>1, <2>2, NumbersByInduction
    <2>4. QED BY <1>1, <2>3 DEF T
<1>6. \A i \in 0..N : w[i] \subseteq nodes
    BY <1>5
<1>7. from \subseteq w[N]
    <2> DEFINE T == {i \in Nat : i <= N => from \subseteq w[i]}
    <2>1. 0 \in T
        BY <1>3
    <2>2. ASSUME NEW i \in Nat \cap T PROVE i + 1 \in T
        BY <1>1, <1>4 DEF Widened
    <2> HIDE DEF T
    <2>3. Nat \subseteq T
        BY <2>1, <2>2, NumbersByInduction
    <2>4. QED BY <1>1, <2>3 DEF T
<1>8. \A n \in w[N] : next[n] \subseteq w[N]
    <2>1. CASE \E k \in Nat : k < N /\ w[k + 1] = w[k]
        <3>1. PICK k \in Nat : k < N /\ w[k + 1] = w[k]
            BY <2>1
        <3>2. Widened(next, w[k]) = w[k]
            BY <1>4, <3>1
        <3> DEFINE T == {i \in Nat : k + i <= N => w[k + i] = w[k]}
        <3>3. 0 \in T
            OBVIOUS
        <3>4. ASSUME NEW i \in Nat \cap T PROVE i + 1 \in T
            <4>1. k + (i + 1) = (k + i) + 1 /\ k + i \in Nat
                OBVIOUS
            <4>2. CASE k + i < N
                BY <1>1, <1>4, <3>2, <4>1, <4>2
            <4>3. CASE ~(k + i < N)
                BY <1>1, <4>1, <4>3
            <4>4. QED BY <4>2, <4>3
        <3> HIDE DEF T
        <3>5. Nat \subseteq T
            BY <3>3, <3>4, NumbersByInduction
        <3>6. N - k \in Nat /\ k + (N - k) = N
            BY <1>1, <3>1
        <3>7. w[N] = w[k]
            BY <1>1, <3>5, <3>6 DEF T
        <3>8. QED BY <3>2, <3>7 DEF Widened
    <2>2. CASE \A k \in Nat : k < N => w[k + 1] # w[k]
        <3> DEFINE T == {i \in Nat : i <= N => Cardinality(w[i]) >= i}
        <3>1. \A i \in 0..N : IsFiniteSet(w[i]) /\ Cardinality(w[i]) \in Nat
            BY <1>6, FS_Subset, FS_CardinalityType
        <3>2. 0 \in T
            BY <1>1, <3>1
        <3>3. ASSUME NEW i \in Nat \cap T PROVE i + 1 \in T
            <4>1. CASE i < N
                <5>1. w[i] \subseteq w[i + 1] /\ w[i + 1] # w[i]
                    BY <1>4, <2>2, <4>1 DEF Widened
                <5>2. i \in 0..N /\ i + 1 \in 0..N
                    BY <1>1, <4>1
                <5>3. Cardinality(w[i]) # Cardinality(w[i + 1]) /\ Cardinality(w[i]) <= Cardinality(w[i + 1])
                    BY <3>1, <5>1, <5>2, FS_Subset
                <5>4. QED BY <3>1, <4>1, <5>2, <5>3
            <4>2. CASE ~(i < N)
                BY <1>1, <4>2
            <4>3. QED BY <4>1, <4>2
        <3> HIDE DEF T
        <3>4. Nat \subseteq T
            BY <3>2, <3>3, NumbersByInduction
        <3>5. Cardinality(w[N]) >= N /\ w[N] \subseteq nodes
            BY <1>1, <1>6, <3>4 DEF T
        <3>6. w[N] = nodes
            BY <1>1, <3>1, <3>5, FS_Subset DEF N
        <3>7. QED BY <3>6
    <2>3. QED BY <2>1, <2>2
<1>9. \A S : from \subseteq S /\ (\A n \in S \cap nodes : next[n] \subseteq S) => w[N] \subseteq S
    BY <1>1, <1>5
<1>10. QED BY <1>1, <1>2, <1>6, <1>7, <1>8, <1>9

-------------------------------------------------------------------------------
(* Maps. *)

LEMMA JoinIs ==
    ASSUME NEW f, NEW g
    PROVE  /\ DOMAIN (f ++ g) = DOMAIN f \cup DOMAIN g
           /\ \A x \in DOMAIN f : (f ++ g)[x] = f[x]
           /\ \A x \in DOMAIN g \ DOMAIN f : (f ++ g)[x] = g[x]
    BY DEF ++
===============================================================================
