------------------------------- MODULE Recursion -------------------------------
(* Induction and recursion over 0 .. N, as the proofs about the reader's driver *)
(* and about the filter of the load cell need them: by the least               *)
(* counterexample, and by functions, which a lemma can be about.                *)
EXTENDS Integers, WellFoundedInduction, TLAPS

\* Every non-empty set of numbers has a least one: the form of induction used
\* below, on the least counterexample.
LEMMA LeastExists ==
    ASSUME NEW T, T \subseteq Nat, T # {}
    PROVE  \E n \in T : \A m \in T : n <= m
<1> DEFINE R == OpToRel(<, Nat)
<1>1. IsWellFoundedOn(R, Nat)
    BY NatLessThanWellFounded
<1> HIDE DEF R
<1>2. PICK n \in T : \A m \in T : ~(<<m, n>> \in R)
    BY <1>1, WFMin
<1>3. \A m \in T : ~(m < n)
    BY <1>2 DEF R, OpToRel
<1> QED BY <1>2, <1>3

LEMMA NoDescent ==
    ASSUME NEW T, T \subseteq Nat, \A n \in T : \E m \in T : m < n
    PROVE  T = {}
<1> SUFFICES ASSUME T # {} PROVE FALSE
    OBVIOUS
<1>1. PICK n \in T : \A m \in T : n <= m
    BY LeastExists
<1>2. PICK m \in T : m < n
    OBVIOUS
<1> QED BY <1>1, <1>2

\* step[n][f] is computed from the values of f below n.
IsRecursion(N, V, step) ==
    /\ step \in [0 .. N -> [[0 .. N -> V] -> V]]
    /\ \A f, g \in [0 .. N -> V] : \A n \in 0 .. N :
          (\A m \in 0 .. n - 1 : f[m] = g[m]) => step[n][f] = step[n][g]

Computes(N, V, step, f) ==
    f \in [0 .. N -> V] /\ \A n \in 0 .. N : f[n] = step[n][f]

\* What is defined by recursion exists.
LEMMA RecursionExists ==
    ASSUME NEW N \in Nat, NEW V, V # {}, NEW step, IsRecursion(N, V, step)
    PROVE  \E f : Computes(N, V, step, f)
<1> USE DEF IsRecursion
<1> DEFINE UpTo(k, f) == \A n \in 0 .. k : f[n] = step[n][f]
           Unsolved == {k \in 0 .. N : ~\E f \in [0 .. N -> V] : UpTo(k, f)}
<1>1. Unsolved = {}
    <2> SUFFICES ASSUME Unsolved # {} PROVE FALSE
        OBVIOUS
    <2>0. Unsolved \subseteq 0 .. N
        OBVIOUS
    <2>1. PICK k \in Unsolved : \A m \in Unsolved : k <= m
        <3>1. Unsolved \subseteq Nat
            BY <2>0
        <3> HIDE DEF Unsolved
        <3> QED BY <3>1, LeastExists
    <2>k. k \in 0 .. N
        BY <2>0, <2>1
    <2>2. PICK f \in [0 .. N -> V] : \A n \in 0 .. k - 1 : f[n] = step[n][f]
        <3>1. CASE k = 0
            <4>1. PICK v \in V : TRUE
                OBVIOUS
            <4>2. [n \in 0 .. N |-> v] \in [0 .. N -> V] /\ 0 .. k - 1 = {}
                BY <3>1
            <4> QED BY <4>2
        <3>2. CASE k # 0
            <4>1. k - 1 \in 0 .. N
                BY <2>k, <3>2
            <4>2. k - 1 \notin Unsolved
                <5> HIDE DEF Unsolved
                <5> QED BY <2>1, <2>k
            <4> QED BY <4>1, <4>2
        <3> QED BY <3>1, <3>2
    <2> DEFINE g == [f EXCEPT ![k] = step[k][f]]
    <2>3. g \in [0 .. N -> V] /\ g[k] = step[k][f]
        BY <2>k
    <2>4. \A n \in 0 .. k - 1 : g[n] = f[n]
        BY <2>k
    <2> HIDE DEF g
    <2>5. \A n \in 0 .. k : step[n][g] = step[n][f]
        <3> SUFFICES ASSUME NEW n \in 0 .. k PROVE step[n][g] = step[n][f]
            OBVIOUS
        <3>1. n \in 0 .. N /\ \A m \in 0 .. n - 1 : g[m] = f[m]
            BY <2>k, <2>4
        <3> QED BY <2>3, <3>1
    <2>6. \A n \in 0 .. k : g[n] = step[n][g]
        BY <2>k, <2>2, <2>3, <2>4, <2>5
    <2> QED BY <2>1, <2>3, <2>6
<1>2. N \notin Unsolved
    BY <1>1
<1> QED BY <1>2 DEF Computes
=============================================================================
