---------------------------- MODULE LeastNumber ----------------------------
(***************************************************************************)
(* The least-number principle for sets, on which "the newest issue" and    *)
(* "the first run of a list" rest, both chosen by their place; induction   *)
(* and loops up to a number, from the same principle.                      *)
(***************************************************************************)
EXTENDS Integers, FiniteSetTheorems, WellFoundedInduction, TLAPS

(* A nonempty set of natural numbers has a least member: the intervals 0..m *)
(* that end in the set are finite, and inclusion of finite sets is          *)
(* well-founded.                                                            *)
LEMMA LeastNatural ==
  ASSUME NEW T, T \subseteq Nat, T # {}
  PROVE  \E m \in T : \A k \in T : m <= k
<1> DEFINE R == StrictSubsetOrdering(Nat)
           F == {0..m : m \in T}
<1>1. F \subseteq FiniteSubsetsOf(Nat) /\ F # {}
  <2>1. ASSUME NEW m \in T PROVE 0..m \in SUBSET Nat /\ IsFiniteSet(0..m)
    <3>1. 0 \in Int /\ m \in Int
      OBVIOUS
    <3>2. IsFiniteSet(0..m)
      BY <3>1, FS_Interval, Zenon
    <3> QED BY <3>2
  <2> QED BY <2>1 DEF FiniteSubsetsOf
<1>2. IsWellFoundedOn(R, FiniteSubsetsOf(Nat))
  BY FS_StrictSubsetOrderingWellFounded
<1> HIDE DEF F, R
<1>3. PICK u \in F : \A v \in F : <<v, u>> \notin R
  BY <1>1, <1>2, WFMin
<1>4. PICK m \in T : u = 0..m
  BY DEF F
<1>5. ASSUME NEW k \in T, k < m PROVE FALSE
  <2>1. 0..k \in F /\ 0..k \subseteq Nat /\ 0..m \subseteq Nat
    BY DEF F
  <2>2. 0..k \subseteq 0..m /\ m \in 0..m /\ m \notin 0..k
    BY <1>5
  <2>3. <<0..k, 0..m>> \in R
    BY <2>1, <2>2 DEF R, StrictSubsetOrdering
  <2> QED BY <1>3, <1>4, <2>1, <2>3
<1> QED BY <1>5

(* A nonempty set of natural numbers with an upper bound has a greatest     *)
(* member, the least of its bounds.                                         *)
LEMMA GreatestNatural ==
  ASSUME NEW n \in Nat, NEW T, T \subseteq 0..n, T # {}
  PROVE  \E m \in T : \A k \in T : k <= m
<1> DEFINE Bounds == {b \in Nat : \A k \in T : k <= b}
<1>1. Bounds \subseteq Nat /\ n \in Bounds
  OBVIOUS
<1> HIDE DEF Bounds
<1>2. PICK b \in Bounds : \A c \in Bounds : b <= c
  BY <1>1, LeastNatural
<1>3. b \in Nat /\ \A k \in T : k <= b
  BY DEF Bounds
<1>4. CASE b \in T
  BY <1>3, <1>4
<1>5. CASE b \notin T
  <2>1. \A k \in T : k \in Nat /\ k <= b - 1
    BY <1>3, <1>5
  <2>2. b - 1 \in Nat
    <3>1. PICK k \in T : k \in Nat /\ k <= b - 1
      BY <2>1
    <3> QED BY <3>1, <1>3
  <2>3. b - 1 \in Bounds
    BY <2>1, <2>2 DEF Bounds
  <2> QED BY <1>2, <1>3, <2>3
<1> QED BY <1>4, <1>5

(* A nonempty finite set of natural numbers has a greatest member: a        *)
(* smallest one without would have a member and be left with none.          *)
LEMMA GreatestOfFinite ==
  ASSUME NEW T, T \subseteq Nat, IsFiniteSet(T), T # {}
  PROVE  \E m \in T : \A k \in T : k <= m
<1> DEFINE R == StrictSubsetOrdering(Nat)
           Headed(U) == \E m \in U : \A k \in U : k <= m
           F == {U \in FiniteSubsetsOf(Nat) : U # {} /\ ~Headed(U)}
<1>1. CASE F # {}
  <2>1. PICK U \in F : \A V \in F : <<V, U>> \notin R
    <3>1. F \subseteq FiniteSubsetsOf(Nat)
      OBVIOUS
    <3> HIDE DEF F, R
    <3>2. IsWellFoundedOn(StrictSubsetOrdering(Nat), FiniteSubsetsOf(Nat))
      BY FS_StrictSubsetOrderingWellFounded
    <3> QED BY <1>1, <3>1, <3>2, WFMin DEF R
  <2>2. U \subseteq Nat /\ IsFiniteSet(U) /\ U # {} /\ ~Headed(U)
    BY DEF FiniteSubsetsOf
  <2>3. PICK a \in U : TRUE
    BY <2>2
  <2>4. IsFiniteSet(U \ {a}) /\ U \ {a} \subseteq Nat
    <3>1. IsFiniteSet(U \ {a})
      BY <2>2, FS_RemoveElement, Zenon
    <3> QED BY <2>2, <3>1
  <2>5. <<U \ {a}, U>> \in R
    BY <2>2, <2>3, <2>4 DEF StrictSubsetOrdering
  <2>6. U \ {a} = {} \/ Headed(U \ {a})
    BY <2>1, <2>4, <2>5 DEF FiniteSubsetsOf
  <2>7. CASE U \ {a} = {}
    <3>1. \A k \in U : k <= a
      BY <2>2, <2>3, <2>7
    <3> QED BY <2>2, <2>3, <3>1
  <2>8. CASE Headed(U \ {a})
    <3>1. PICK m \in U \ {a} : \A k \in U \ {a} : k <= m
      BY <2>8
    <3>2. \A k \in U : k <= (IF m <= a THEN a ELSE m)
      BY <2>2, <2>3, <3>1
    <3> QED BY <2>2, <2>3, <3>2
  <2> QED BY <2>6, <2>7, <2>8
<1>2. CASE F = {}
  BY <1>2 DEF FiniteSubsetsOf
<1> QED BY <1>1, <1>2

(* What holds at first and is kept by every step holds up to the end: the   *)
(* least number outside a set of numbers is zero or follows one inside it.  *)
LEMMA UpTo ==
  ASSUME NEW n \in Nat, NEW T, 0 \in T, \A i \in 1..n : i - 1 \in T => i \in T
  PROVE  \A i \in 0..n : i \in T
<1> DEFINE Out == {i \in 0..n : i \notin T}
<1>1. CASE Out # {}
  <2>1. PICK m \in Out : \A k \in Out : m <= k
    <3>1. Out \subseteq Nat
      OBVIOUS
    <3> HIDE DEF Out
    <3> QED BY <1>1, <3>1, LeastNatural
  <2>2. m # 0 /\ m \in 1..n /\ m - 1 \in 0..n /\ m - 1 \notin Out
    BY <2>1
  <2> QED BY <2>2
<1>2. CASE Out = {}
  BY <1>2
<1> QED BY <1>1, <1>2

\* what the body of a loop over the numbers 1..n may be, a function of the
\* state before it and the number, and the states that the loop passes through
Body(S, n) == [S \X (1..n) -> S]
Loop(S, b, n, step) ==
  {f \in [0..n -> S] : f[0] = b /\ \A i \in 1..n : f[i] = step[<<f[i - 1], i>>]}

(* A loop can be run: it passes through n + 1 states.                       *)
LEMMA LoopDefined ==
  ASSUME NEW S, NEW b \in S, NEW n \in Nat, NEW step \in Body(S, n)
  PROVE  \E f : f \in Loop(S, b, n, step)
<1> USE DEF Body, Loop
<1> DEFINE Passes(m) ==
             \E f \in [0..m -> S] : f[0] = b /\ \A i \in 1..m : f[i] = step[<<f[i - 1], i>>]
           T == {m \in 0..n : ~Passes(m)}
<1>1. Passes(0)
  <2> DEFINE f == [i \in 0..0 |-> b]
  <2>1. f \in [0..0 -> S] /\ f[0] = b /\ 1..0 = {}
    OBVIOUS
  <2> HIDE DEF f
  <2> QED BY <2>1
<1>2. ASSUME NEW m \in 1..n, Passes(m - 1) PROVE Passes(m)
  <2>1. PICK f \in [0..m - 1 -> S] : f[0] = b /\ \A i \in 1..m - 1 : f[i] = step[<<f[i - 1], i>>]
    BY <1>2
  <2> DEFINE g == [i \in 0..m |-> IF i = m THEN step[<<f[m - 1], m>>] ELSE f[i]]
  <2>2. step[<<f[m - 1], m>>] \in S
    OBVIOUS
  <2>3. g \in [0..m -> S]
    BY <2>2
  <2>4. g[0] = b
    BY <2>1
  <2>5. ASSUME NEW i \in 1..m PROVE g[i] = step[<<g[i - 1], i>>]
    <3>1. i - 1 \in 0..m /\ i - 1 # m /\ i \in 0..m
      OBVIOUS
    <3>2. g[i - 1] = f[i - 1]
      BY <3>1
    <3>3. CASE i = m
      BY <3>1, <3>2, <3>3
    <3>4. CASE i # m
      BY <2>1, <3>1, <3>2, <3>4
    <3> QED BY <3>3, <3>4
  <2> HIDE DEF g
  <2> QED BY <2>3, <2>4, <2>5
<1> HIDE DEF Passes
<1>3. CASE T # {}
  <2>1. PICK m \in T : \A k \in T : m <= k
    <3>1. T \subseteq Nat
      OBVIOUS
    <3> HIDE DEF T
    <3> QED BY <1>3, <3>1, LeastNatural
  <2>2. m # 0 /\ m \in 1..n /\ m - 1 \in 0..n /\ m - 1 \notin T
    BY <1>1, <2>1
  <2>3. Passes(m)
    BY <1>2, <2>2
  <2> QED BY <2>3
<1>4. CASE T = {}
  <2>1. Passes(n)
    BY <1>4
  <2> QED BY <2>1 DEF Passes
<1> QED BY <1>3, <1>4
=============================================================================
