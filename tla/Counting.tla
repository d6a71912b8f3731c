------------------------------- MODULE Counting -------------------------------
(***************************************************************************)
(* What the proofs about loops, queues and positions rest on: a set of     *)
(* numbers that has zero and the next of each has them all, a set of       *)
(* positions has a first and a last one, and a loop has a value after each *)
(* of its turns.                                                           *)
(***************************************************************************)
EXTENDS Integers, Sequences, FiniteSetsExt, WellFoundedInduction, TLAPS

\* A set of numbers that has zero and with each number the next one has them all.
LEMMA CountingUp ==
    ASSUME NEW S \in SUBSET Nat, 0 \in S, \A n \in S : n + 1 \in S
    PROVE  \A n \in Nat : n \in S
<1> DEFINE Less == OpToRel(<, Nat)
           T == Nat \ S
<1> SUFFICES ASSUME T # {} PROVE FALSE
    OBVIOUS
<1>1. IsWellFoundedOn(Less, Nat)
    BY NatLessThanWellFounded
<1>2. \A x, y \in Nat : <<y, x>> \in Less <=> y < x
    BY DEF OpToRel
<1> HIDE DEF Less
<1>3. PICK x \in T : \A y \in T : <<y, x>> \notin Less
    BY <1>1, WFMin
<1>4. x \in Nat /\ x # 0 /\ x - 1 \in Nat /\ x - 1 < x
    BY <1>3
<1>5. x - 1 \in S
    BY <1>2, <1>3, <1>4
<1>6. (x - 1) + 1 = x
    BY <1>4
<1> QED
    BY <1>3, <1>5, <1>6

\* A set of positions has a last one.
LEMMA LastOf ==
    ASSUME NEW n \in Nat, NEW S, S \subseteq 1..n, S # {}
    PROVE  Max(S) \in S /\ \A i \in S : Max(S) >= i
<1> DEFINE Less == OpToRel(<, Nat)
           T == {n - i : i \in S}
<1>1. IsWellFoundedOn(Less, Nat)
    BY NatLessThanWellFounded
<1>2. T \subseteq Nat /\ T # {}
    OBVIOUS
<1>3. \A x, y \in Nat : <<y, x>> \in Less <=> y < x
    BY DEF OpToRel
<1> HIDE DEF Less
<1>4. PICK x \in T : \A y \in T : <<y, x>> \notin Less
    BY <1>1, <1>2, WFMin
<1>5. \A y \in T : ~(y < x)
    BY <1>2, <1>3, <1>4
<1>6. PICK last \in S : x = n - last
    BY <1>4
<1>7. \A i \in S : last >= i
    <2> SUFFICES ASSUME NEW i \in S PROVE last >= i
        OBVIOUS
    <2>1. ~(n - i < n - last)
        BY <1>5, <1>6
    <2> QED
        BY <2>1
<1>8. \E m \in S : \A i \in S : m >= i
    BY <1>7
<1> QED
    BY <1>8 DEF Max

\* A set of numbers has a first one.
LEMMA FirstOf ==
    ASSUME NEW S \in SUBSET Nat, S # {}
    PROVE  Min(S) \in S /\ \A i \in S : Min(S) <= i
<1> DEFINE Less == OpToRel(<, Nat)
<1>1. IsWellFoundedOn(Less, Nat)
    BY NatLessThanWellFounded
<1>2. \A x, y \in Nat : <<y, x>> \in Less <=> y < x
    BY DEF OpToRel
<1> HIDE DEF Less
<1>3. PICK x \in S : \A y \in S : <<y, x>> \notin Less
    BY <1>1, WFMin
<1>4. ASSUME NEW y \in S PROVE x <= y
    <2>1. x \in Nat /\ y \in Nat /\ ~(y < x)
        BY <1>2, <1>3
    <2> QED
        BY <2>1
<1> QED
    BY <1>3, <1>4 DEF Min

\* The values of a loop of L turns, each of which makes one of the one before.
Loop(f, L, S, base, turn) ==
    /\ f \in [0..L -> S] /\ f[0] = base
    /\ \A n \in 1..L : f[n] = turn[<<n, f[n - 1]>>]

\* A loop has a value after every turn.
LEMMA LoopExists ==
    ASSUME NEW L \in Nat, NEW S, NEW base \in S, NEW turn \in [(1..L) \X S -> S]
    PROVE  \E f : Loop(f, L, S, base, turn)
<1> DEFINE Runs(f, m) == f[0] = base /\ \A n \in 1..m : f[n] = turn[<<n, f[n - 1]>>]
           Good == {m \in Nat : m <= L => \E f \in [0..m -> S] : Runs(f, m)}
<1>1. 0 \in Good
    <2>1. Runs([n \in 0..0 |-> base], 0) /\ [n \in 0..0 |-> base] \in [0..0 -> S]
        OBVIOUS
    <2> QED
        BY <2>1
<1>2. ASSUME NEW m \in Good PROVE m + 1 \in Good
    <2> SUFFICES ASSUME m + 1 <= L PROVE \E f \in [0..(m + 1) -> S] : Runs(f, m + 1)
        OBVIOUS
    <2>1. PICK f \in [0..m -> S] : Runs(f, m)
        OBVIOUS
    <2> DEFINE g == [n \in 0..(m + 1) |-> IF n = m + 1 THEN turn[<<m + 1, f[m]>>] ELSE f[n]]
    <2>2. turn[<<m + 1, f[m]>>] \in S
        <3>1. m \in Nat /\ m \in 0..m /\ m + 1 \in 1..L
            OBVIOUS
        <3>2. f[m] \in S
            BY <3>1
        <3>3. <<m + 1, f[m]>> \in (1..L) \X S
            BY <3>1, <3>2
        <3> QED
            BY <3>3
    <2>3. g \in [0..(m + 1) -> S] /\ g[0] = base
        BY <2>1, <2>2
    <2>4. ASSUME NEW n \in 1..(m + 1) PROVE g[n] = turn[<<n, g[n - 1]>>]
        <3>1. CASE n = m + 1
            <4>1. g[n - 1] = f[m] /\ g[n] = turn[<<m + 1, f[m]>>]
                BY <3>1
            <4> QED
                BY <3>1, <4>1
        <3>2. CASE n \in 1..m
            <4>1. g[n] = f[n] /\ g[n - 1] = f[n - 1]
                BY <3>2
            <4> QED
                BY <2>1, <3>2, <4>1
        <3> QED
            BY <3>1, <3>2
    <2> QED
        BY <2>3, <2>4
<1>3. L \in Good
    <2> HIDE DEF Good
    <2>1. Good \in SUBSET Nat
        BY DEF Good
    <2> QED
        BY <1>1, <1>2, <2>1, CountingUp
<1> QED
    BY <1>3 DEF Loop

\* A function that takes each turn as long as it stays among the values is the loop.
LEMMA LoopMeets ==
    ASSUME NEW L \in Nat, NEW S, NEW base \in S, NEW turn \in [(1..L) \X S -> S],
           NEW f, f = [n \in 0..L |-> f[n]], f[0] = base,
           \A n \in 1..L : f[n - 1] \in S => f[n] = turn[<<n, f[n - 1]>>]
    PROVE  Loop(f, L, S, base, turn)
<1> DEFINE Typed == {n \in Nat : n <= L => f[n] \in S}
<1>1. 0 \in Typed
    OBVIOUS
<1>2. ASSUME NEW n \in Typed PROVE n + 1 \in Typed
    <2> SUFFICES ASSUME n + 1 <= L PROVE f[n + 1] \in S
        OBVIOUS
    <2>1. f[n] \in S /\ n + 1 \in 1..L /\ (n + 1) - 1 = n
        OBVIOUS
    <2>2. f[n + 1] = turn[<<n + 1, f[n]>>] /\ <<n + 1, f[n]>> \in (1..L) \X S
        BY <2>1
    <2> QED
        BY <2>2
<1>3. \A n \in Nat : n \in Typed
    <2> HIDE DEF Typed
    <2>1. Typed \in SUBSET Nat
        BY DEF Typed
    <2> QED
        BY <1>1, <1>2, <2>1, CountingUp
<1>4. \A n \in 0..L : f[n] \in S
    BY <1>3
<1>5. f \in [0..L -> S]
    BY <1>4
<1>6. \A n \in 1..L : f[n] = turn[<<n, f[n - 1]>>]
    <2>1. \A n \in 1..L : n - 1 \in 0..L
        OBVIOUS
    <2> QED
        BY <1>4, <2>1
<1> QED
    BY <1>5, <1>6 DEF Loop
=============================================================================
