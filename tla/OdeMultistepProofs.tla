------------------------- MODULE OdeMultistepProofs -------------------------
(***************************************************************************)
(* The multistep integrators, for every mesh, order, set of output points  *)
(* and of roots, and any number of calls.                                  *)
(***************************************************************************)
EXTENDS OdeMultistep, LeastNumber, SequenceTheorems

-----------------------------------------------------------------------------
(* vode_integrate_to: roots are reported once and in order.                *)

\* The roots of the wanted kind between the start and a place on the way.
Passed(way, place) ==
  {c \in Roots \X DOMAIN roots :
     /\ c[1] \in roots[c[2]] /\ c[1] * way > 0 /\ (place - c[1]) * way >= 0
     /\ wanted[c[2]] \in {0, Vode!Change(c[2], c[1], way)}}

\* No root belongs to two of the functions.
Distinct == \A i, j \in DOMAIN roots : i # j => roots[i] \cap roots[j] = {}

\* A list holds the roots passed, in the order of the way.
Lists(list, way, place) ==
  /\ {list[i] : i \in DOMAIN list} = Passed(way, place)
  /\ \A i, j \in DOMAIN list : i < j => (list[j][1] - list[i][1]) * way > 0

\* Nothing happens before the direction is known; the mesh is on the far side
\* of the root reported last; times of the mesh are even.
VodeInv ==
  /\ Vode!TypeOK /\ Distinct /\ DOMAIN roots \subseteq {1, 2}
  /\ reported \in Seq(Roots \X DOMAIN roots)
  /\ t % 2 = 0 /\ t * dir >= 0
  /\ started <=> dir # 0
  /\ ~started => t = 0 /\ hu = 0 /\ ~at_event /\ pc = "idle"
  /\ at_event => pc = "idle" /\ t_event * dir > 0 /\ (t - t_event) * dir > 0
  /\ Lists(reported, dir, Vode!Seen)

\* Places compared along the way.
LEMMA Compared ==
  ASSUME NEW way \in {-1, 1}, NEW a \in Int, NEW b \in Int, NEW c \in Int
  PROVE  /\ (a - b) * way >= 0 /\ a # b => (a - b) * way > 0
         /\ ~((a - b) * way >= 0) <=> (b - a) * way > 0
         /\ (a - b) * way >= 0 /\ (b - a) * way >= 0 => a = b
         /\ (a - b) * way >= 0 /\ (b - c) * way >= 0 => (a - c) * way >= 0
         /\ (a - b) * way >= 0 /\ (b - c) * way > 0 => (a - c) * way > 0
         /\ (a - b) * way > 0 /\ (b - c) * way >= 0 => (a - c) * way > 0
         /\ (a - b) * way > 0 /\ b * way >= 0 => a * way > 0
         /\ (a - b) * way >= 0 /\ b * way >= 0 => a * way >= 0
         /\ (a - b) * way >= 0 /\ b * way > 0 => a * way > 0
<1>1. CASE way = 1
  BY <1>1
<1>2. CASE way = -1
  <2>1. \A k \in Int : k * way = 0 - k
    BY <1>2
  <2>2. (a - b) * way = b - a /\ (b - a) * way = a - b /\ (b - c) * way = c - b
        /\ (a - c) * way = c - a /\ a * way = 0 - a /\ b * way = 0 - b
    BY <2>1
  <2> QED BY <2>2
<1> QED BY <1>1, <1>2

\* With one more root of the wanted kind in sight, the roots passed are those
\* passed before and this one.
LEMMA PassedOne ==
  ASSUME MultistepAssumption, Distinct, NEW way \in {-1, 1}, NEW left \in Int, NEW top \in Int,
         left * way >= 0,
         NEW c \in Vode!Candidates(left, top, way), Vode!Earliest(c, way, Vode!Candidates(left, top, way))
  PROVE  /\ Passed(way, c[1]) = Passed(way, left) \cup {c}
         /\ c[1] \in Int /\ c[1] * way > 0 /\ (c[1] - left) * way > 0 /\ (top - c[1]) * way > 0
<1>1. \A r \in Roots : r \in Int
  BY DEF MultistepAssumption
<1>2. /\ c \in Roots \X DOMAIN roots /\ c[1] \in roots[c[2]]
      /\ (c[1] - left) * way > 0 /\ (top - c[1]) * way > 0
      /\ wanted[c[2]] \in {0, Vode!Change(c[2], c[1], way)}
  BY DEF Vode!Candidates, Vode!Between
<1>3. c[1] \in Int /\ c[1] * way > 0
  BY <1>1, <1>2
<1>4. ASSUME NEW d \in Passed(way, c[1]), d \notin Passed(way, left) PROVE d = c
  <2>1. /\ d \in Roots \X DOMAIN roots /\ d[1] \in roots[d[2]] /\ d[1] * way > 0
        /\ (c[1] - d[1]) * way >= 0 /\ wanted[d[2]] \in {0, Vode!Change(d[2], d[1], way)}
    BY <1>4 DEF Passed
  <2>2. d[1] \in Int
    BY <1>1, <2>1
  <2>3. ~((left - d[1]) * way >= 0)
    BY <1>4, <2>1 DEF Passed
  <2>4. (d[1] - left) * way > 0 /\ (top - d[1]) * way > 0
    BY <1>2, <1>3, <2>1, <2>2, <2>3, Compared
  <2>5. d \in Vode!Candidates(left, top, way)
    BY <2>1, <2>4 DEF Vode!Candidates, Vode!Between
  <2>6. (d[1] - c[1]) * way >= 0
    BY <2>5 DEF Vode!Earliest
  <2>7. d[1] = c[1]
    BY <2>1, <2>2, <1>3, <2>6, Compared
  <2>8. d[2] = c[2]
    BY <1>2, <2>1, <2>7 DEF Distinct
  <2>9. d = <<d[1], d[2]>>
    BY <2>1
  <2>10. c \in Roots \X DOMAIN roots
    BY <1>2
  <2>11. c = <<c[1], c[2]>>
    BY <2>10
  <2> QED BY <2>7, <2>8, <2>9, <2>11, Zenon
<1>5. c \in Passed(way, c[1])
  BY <1>2, <1>3 DEF Passed
<1>6. ASSUME NEW d \in Passed(way, left) PROVE d \in Passed(way, c[1])
  <2>1. /\ d \in Roots \X DOMAIN roots /\ d[1] \in roots[d[2]] /\ d[1] * way > 0
        /\ (left - d[1]) * way >= 0 /\ wanted[d[2]] \in {0, Vode!Change(d[2], d[1], way)}
    BY <1>6 DEF Passed
  <2>2. d[1] \in Int
    BY <1>1, <2>1
  <2>3. (c[1] - d[1]) * way >= 0
    BY <1>2, <1>3, <2>1, <2>2
  <2> QED BY <2>1, <2>3 DEF Passed
<1> QED BY <1>2, <1>3, <1>4, <1>5, <1>6

\* Where no root of the wanted kind lies between, none is passed: the mesh
\* itself does not hit one.
LEMMA PassedNone ==
  ASSUME MultistepAssumption, NEW way \in {-1, 1}, NEW left \in Int, NEW top \in Int,
         left * way >= 0, (top - left) * way >= 0, top % 2 = 0,
         Vode!Candidates(left, top, way) = {}
  PROVE  Passed(way, top) = Passed(way, left)
<1>1. \A r \in Roots : r \in Int /\ r % 2 = 1
  BY DEF MultistepAssumption
<1>2. ASSUME NEW d \in Passed(way, top) PROVE d \in Passed(way, left)
  <2>1. /\ d \in Roots \X DOMAIN roots /\ d[1] \in roots[d[2]] /\ d[1] * way > 0
        /\ (top - d[1]) * way >= 0 /\ wanted[d[2]] \in {0, Vode!Change(d[2], d[1], way)}
    BY <1>2 DEF Passed
  <2>2. d[1] \in Int /\ d[1] # top
    BY <1>1, <2>1
  <2>3. (top - d[1]) * way > 0
    BY <2>1, <2>2, Compared
  <2>4. ~((d[1] - left) * way > 0)
    <3> SUFFICES ASSUME (d[1] - left) * way > 0 PROVE FALSE
      OBVIOUS
    <3>1. d \in Vode!Candidates(left, top, way)
      BY <2>1, <2>3 DEF Vode!Candidates, Vode!Between
    <3> QED BY <3>1
  <2>5. (left - d[1]) * way >= 0
    BY <2>2, <2>4
  <2> QED BY <2>1, <2>5 DEF Passed
<1>3. ASSUME NEW d \in Passed(way, left) PROVE d \in Passed(way, top)
  <2>1. /\ d \in Roots \X DOMAIN roots /\ d[1] \in roots[d[2]] /\ d[1] * way > 0
        /\ (left - d[1]) * way >= 0 /\ wanted[d[2]] \in {0, Vode!Change(d[2], d[1], way)}
    BY <1>3 DEF Passed
  <2>2. d[1] \in Int
    BY <1>1, <2>1
  <2>3. (top - d[1]) * way >= 0
    BY <2>1, <2>2
  <2> QED BY <2>1, <2>3 DEF Passed
<1> QED BY <1>2, <1>3

\* The invariant says what the run checks.
LEMMA VodeInvReports ==
  ASSUME VodeInv PROVE Vode!RootsReported
BY DEF VodeInv, Lists, Passed, Vode!RootsReported

\* A function on the first numbers is a sequence.
LEMMA ListOf ==
  ASSUME NEW S, NEW n \in Nat, NEW f \in [1..n -> S]
  PROVE  f \in Seq(S) /\ Len(f) = n
<1>1. f \in Seq(S)
  <2>1. [1..n -> S] \in {[1..m -> S] : m \in Nat}
    OBVIOUS
  <2> QED BY <2>1, SeqDef
<1>2. Len(f) \in Nat /\ 1..n = 1..Len(f)
  BY <1>1, LenProperties
<1> QED BY <1>1, <1>2

\* The first elements of a sequence.
LEMMA FirstOfList ==
  ASSUME NEW S, NEW s \in Seq(S), NEW n \in Nat, n <= Len(s)
  PROVE  /\ SubSeq(s, 1, n) \in Seq(S) /\ Len(SubSeq(s, 1, n)) = n
         /\ \A i \in 1..n : SubSeq(s, 1, n)[i] = s[i]
<1>1. Len(s) \in Nat /\ n \in Int /\ 1 \in Int
  BY LenProperties
<1>2. \A i \in 1..n : i \in 1..Len(s)
  BY <1>1
<1>3. \A i \in 1..n : s[i] \in S
  BY <1>2, ElementOfSeq
<1>4. /\ SubSeq(s, 1, n) \in Seq(S) /\ Len(SubSeq(s, 1, n)) = IF 1 <= n THEN n - 1 + 1 ELSE 0
      /\ \A i \in 1..n - 1 + 1 : SubSeq(s, 1, n)[i] = s[1 + i - 1]
  BY <1>1, <1>3, SubSeqProperties
<1>5. /\ n - 1 + 1 = n /\ (IF 1 <= n THEN n - 1 + 1 ELSE 0) = n
      /\ \A i \in 1..n : 1 + i - 1 = i
  OBVIOUS
<1>6. ASSUME NEW i \in 1..n PROVE SubSeq(s, 1, n)[i] = s[i]
  BY <1>4, <1>5
<1> QED BY <1>4, <1>5, <1>6

\* Two functions at most, with roots of their own, and no direction yet.
LEMMA VodeStarts ==
  ASSUME MultistepAssumption, Vode!Init PROVE VodeInv
<1>1. PICK n \in 0..2, rs \in [1..2 -> {rs \in SUBSET Roots : Vode!Apart(rs)}], ds \in [1..2 -> -1..1] :
        /\ rs[1] \cap rs[2] = {}
        /\ roots = SubSeq(rs, 1, n) /\ wanted = SubSeq(ds, 1, n)
  BY DEF Vode!Init
<1>2. /\ roots \in Seq(SUBSET Roots) /\ DOMAIN roots = 1..n
      /\ \A k \in 1..n : roots[k] = rs[k]
  <2>1. rs \in Seq(SUBSET Roots) /\ Len(rs) = 2
    <3>1. rs \in [1..2 -> SUBSET Roots] /\ 2 \in Nat
      BY <1>1
    <3> QED BY <3>1, ListOf
  <2>2. n \in Nat /\ n <= Len(rs)
    BY <2>1
  <2>5. /\ SubSeq(rs, 1, n) \in Seq(SUBSET Roots) /\ Len(SubSeq(rs, 1, n)) = n
        /\ \A k \in 1..n : SubSeq(rs, 1, n)[k] = rs[k]
    BY <2>1, <2>2, FirstOfList
  <2>6. roots = SubSeq(rs, 1, n)
    BY <1>1
  <2>3. /\ roots \in Seq(SUBSET Roots) /\ Len(roots) = n
        /\ \A k \in 1..n : roots[k] = rs[k]
    BY <2>5, <2>6, Zenon
  <2>4. DOMAIN roots = 1..n
    BY <2>3, LenProperties
  <2> QED BY <2>3, <2>4
<1>3. wanted \in [1..n -> -1..1]
  <2>1. ds \in Seq(-1..1) /\ Len(ds) = 2
    <3>1. ds \in [1..2 -> -1..1] /\ 2 \in Nat
      BY <1>1
    <3> QED BY <3>1, ListOf
  <2>2. n \in Nat /\ n <= Len(ds)
    BY <2>1
  <2>5. SubSeq(ds, 1, n) \in Seq(-1..1) /\ Len(SubSeq(ds, 1, n)) = n
    BY <2>1, <2>2, FirstOfList
  <2>6. wanted = SubSeq(ds, 1, n)
    BY <1>1
  <2>3. wanted \in Seq(-1..1) /\ Len(wanted) = n
    BY <2>5, <2>6, Zenon
  <2>4. wanted \in [1..Len(wanted) -> -1..1]
    BY <2>3, LenProperties
  <2> QED BY <2>3, <2>4, Zenon
<1>4. Distinct /\ DOMAIN roots \subseteq {1, 2}
  <2>1. DOMAIN roots \subseteq {1, 2}
    <3>1. 1..n \subseteq {1, 2}
      OBVIOUS
    <3> QED BY <1>2, <3>1, Zenon
  <2>2. ASSUME NEW i \in DOMAIN roots, NEW j \in DOMAIN roots, i # j PROVE roots[i] \cap roots[j] = {}
    <3>1. (i = 1 /\ j = 2) \/ (i = 2 /\ j = 1)
      BY <2>1, <2>2
    <3> QED BY <1>1, <1>2, <2>2, <3>1
  <2> QED BY <2>1, <2>2 DEF Distinct
<1>5. /\ pc = "idle" /\ call = 0 /\ target = 0 /\ started = FALSE /\ dir = 0 /\ t = 0 /\ hu = 0
      /\ ksteps = 0 /\ at_event = FALSE /\ t_event = 0 /\ reported = <<>> /\ how = "none" /\ status = "OK"
  BY DEF Vode!Init
<1>6. Reach \in Nat /\ MaxSteps \in Nat /\ Calls \in Nat /\ \A r \in Roots : r \in Int
  BY DEF MultistepAssumption
<1>7. Vode!TypeOK
  <2>1. hu \in -2 * Reach..2 * Reach /\ ksteps \in 0..MaxSteps /\ call \in 0..Calls
    BY <1>5, <1>6
  <2>2. wanted \in [DOMAIN roots -> -1..1]
    BY <1>2, <1>3
  <2>3. reported \in Seq(Roots \X {1, 2})
    BY <1>5, EmptySeq
  <2>4. target \in Int /\ t \in Int /\ t_event \in Roots \cup {0} /\ dir \in {-1, 0, 1}
    BY <1>5
  <2>5. /\ pc \in {"idle", "step"} /\ started \in BOOLEAN /\ at_event \in BOOLEAN
        /\ how \in {"none", "top", "interpolated", "root"} /\ status \in {"OK", "CONVERGENCE_ERROR"}
    BY <1>5, Zenon
  <2> QED BY <1>2, <2>1, <2>2, <2>3, <2>4, <2>5, Zenon DEF Vode!TypeOK
<1>8. Passed(dir, Vode!Seen) = {}
  <2>1. ASSUME NEW c \in Roots \X DOMAIN roots PROVE ~(c[1] * dir > 0)
    BY <1>5, <1>6, <2>1
  <2> QED BY <2>1 DEF Passed
<1>9. Lists(reported, dir, Vode!Seen)
  BY <1>5, <1>8 DEF Lists
<1> QED BY <1>4, <1>5, <1>6, <1>7, <1>9, EmptySeq DEF VodeInv

\* The functions monitored stay what they are, so what is passed and listed
\* depends on the place only.
LEMMA ListsKept ==
  ASSUME roots' = roots, wanted' = wanted, NEW list, NEW way, NEW place
  PROVE  Lists(list, way, place)' <=> Lists(list, way, place)
<1>1. ASSUME NEW k, NEW r PROVE Vode!Change(k, r, way)' = Vode!Change(k, r, way)
  BY Zenon DEF Vode!Change
<1>2. Passed(way, place)' = Passed(way, place)
  BY <1>1, Zenon DEF Passed
<1> QED BY <1>2 DEF Lists

\* A root reported joins the list as its last.
LEMMA ReportedOne ==
  ASSUME MultistepAssumption, VodeInv, dir # 0, NEW left \in Int, NEW top \in Int,
         left * dir >= 0, Lists(reported, dir, left),
         NEW c \in Vode!Candidates(left, top, dir),
         Vode!Earliest(c, dir, Vode!Candidates(left, top, dir))
  PROVE  /\ Append(reported, c) \in Seq(Roots \X DOMAIN roots)
         /\ Lists(Append(reported, c), dir, c[1])
         /\ c[1] \in Int /\ c[1] * dir > 0 /\ (top - c[1]) * dir > 0
<1>1. dir \in {-1, 1} /\ Distinct /\ reported \in Seq(Roots \X DOMAIN roots)
  BY DEF VodeInv, Vode!TypeOK
<1>2. /\ Passed(dir, c[1]) = Passed(dir, left) \cup {c}
      /\ c[1] \in Int /\ c[1] * dir > 0 /\ (c[1] - left) * dir > 0 /\ (top - c[1]) * dir > 0
  BY <1>1, PassedOne
<1>3. c \in Roots \X DOMAIN roots
  BY DEF Vode!Candidates
<1> DEFINE list == Append(reported, c)
           n == Len(reported)
<1>4. /\ list \in Seq(Roots \X DOMAIN roots) /\ DOMAIN list = 1..n + 1 /\ n \in Nat
      /\ \A i \in 1..n : list[i] = reported[i]
      /\ list[n + 1] = c /\ DOMAIN reported = 1..n
  BY <1>1, <1>3, AppendProperties, LenProperties
<1> HIDE DEF list, n
<1>5. \A i : i \in 1..n + 1 <=> i \in 1..n \/ i = n + 1
  <2>1. n \in Nat
    BY <1>4
  <2> QED BY <2>1
<1>6. {list[i] : i \in DOMAIN list} = {reported[i] : i \in DOMAIN reported} \cup {c}
  <2>1. ASSUME NEW i \in DOMAIN list PROVE list[i] \in {reported[k] : k \in DOMAIN reported} \cup {c}
    BY <1>4, <1>5, Zenon
  <2>2. c \in {list[i] : i \in DOMAIN list}
    BY <1>4, <1>5, Zenon
  <2>3. ASSUME NEW i \in DOMAIN reported PROVE reported[i] \in {list[k] : k \in DOMAIN list}
    BY <1>4, <1>5, Zenon
  <2> QED BY <2>1, <2>2, <2>3
<1>7. ASSUME NEW i \in DOMAIN list, NEW j \in DOMAIN list, i < j
      PROVE  (list[j][1] - list[i][1]) * dir > 0
  <2>1. i \in Nat /\ j \in Nat /\ i \in 1..n
    <3>1. n \in Nat /\ i \in 1..n + 1 /\ j \in 1..n + 1
      BY <1>4
    <3> QED BY <1>7, <3>1
  <2>2. CASE j \in 1..n
    <3>1. list[i] = reported[i] /\ list[j] = reported[j] /\ i \in DOMAIN reported /\ j \in DOMAIN reported
      BY <1>4, <2>1, <2>2
    <3> QED BY <1>7, <3>1 DEF Lists
  <2>3. CASE j = n + 1
    <3>1. list[i] = reported[i] /\ i \in DOMAIN reported /\ list[j] = c
      BY <1>4, <2>1, <2>3
    <3>2. list[i] \in Passed(dir, left)
      BY <3>1, Zenon DEF Lists
    <3>3. list[i][1] \in Roots /\ (left - list[i][1]) * dir >= 0
      BY <3>2 DEF Passed
    <3>4. list[i][1] \in Int
      BY <3>3 DEF MultistepAssumption
    <3>5. (c[1] - list[i][1]) * dir > 0
      <4>1. PICK a \in Int, b \in Int : a = c[1] /\ b = list[i][1]
        BY <1>2, <3>4
      <4>2. (a - left) * dir > 0 /\ (left - b) * dir >= 0
        BY <1>2, <3>3, <4>1
      <4>3. (a - b) * dir > 0
        BY <1>1, <4>2, Compared
      <4> QED BY <4>1, <4>3
    <3> QED BY <3>1, <3>5
  <2> QED BY <1>4, <1>5, <2>2, <2>3
<1>8. Lists(list, dir, c[1])
  BY <1>2, <1>6, <1>7 DEF Lists
<1> QED BY <1>2, <1>4, <1>8 DEF list

\* What a step of the program leaves to be shown of the invariant.
LEMMA VodeAssembled ==
  ASSUME MultistepAssumption, VodeInv, roots' = roots, wanted' = wanted,
         pc' \in {"idle", "step"}, started' \in BOOLEAN, at_event' \in BOOLEAN,
         how' \in {"none", "top", "interpolated", "root"}, status' \in {"OK", "CONVERGENCE_ERROR"},
         call' \in 0..Calls, ksteps' \in 0..MaxSteps, target' \in Int,
         dir' \in {-1, 0, 1}, hu' \in -2 * Reach..2 * Reach,
         t' \in Int, t' % 2 = 0, t' * dir' >= 0,
         started' <=> dir' # 0,
         ~started' => t' = 0 /\ hu' = 0 /\ ~at_event' /\ pc' = "idle",
         t_event' \in Roots \cup {0},
         at_event' => pc' = "idle" /\ t_event' * dir' > 0 /\ (t' - t_event') * dir' > 0,
         reported' \in Seq(Roots \X DOMAIN roots),
         NEW list, NEW way, NEW place,
         list = reported', way = dir', place = IF at_event' THEN t_event' ELSE t',
         Lists(list, way, place)
  PROVE  VodeInv'
<1>1. Distinct' /\ DOMAIN roots' \subseteq {1, 2}
  BY DEF VodeInv, Distinct
<1>2. Lists(list, way, place)'
  BY ListsKept
<1>3. Lists(reported, dir, Vode!Seen)'
  BY <1>2, Zenon DEF Vode!Seen
<1>4. reported' \in Seq(Roots \X DOMAIN roots') /\ reported' \in Seq(Roots \X {1, 2})
  <2>1. Roots \X DOMAIN roots \subseteq Roots \X {1, 2}
    BY DEF VodeInv
  <2>2. reported' \in Seq(Roots \X {1, 2})
    <3>1. PICK S, T : S = Roots \X DOMAIN roots /\ T = Roots \X {1, 2}
      OBVIOUS
    <3>2. S \subseteq T /\ reported' \in Seq(S)
      BY <2>1, <3>1
    <3>3. reported' \in Seq(T)
      BY <3>2, SeqMonotonic
    <3> QED BY <3>1, <3>3
  <2>3. reported' \in Seq(Roots \X DOMAIN roots')
    BY Zenon
  <2> QED BY <2>2, <2>3
<1>5. roots' \in Seq(SUBSET Roots) /\ wanted' \in [DOMAIN roots' -> -1..1]
  BY DEF VodeInv, Vode!TypeOK
<1>6. Vode!TypeOK'
  BY <1>4, <1>5, Zenon DEF Vode!TypeOK
<1> QED BY <1>1, <1>3, <1>4, <1>6, Zenon DEF VodeInv

\* A step of the mesh, along the way and of even length.
LEMMA MeshStep ==
  ASSUME MultistepAssumption, VodeInv, dir # 0, NEW s \in 1..Reach,
         NEW m, NEW top, m = 2 * s * dir, top = t + m
  PROVE  /\ m \in -2 * Reach..2 * Reach
         /\ top \in Int /\ top % 2 = 0
         /\ top * dir >= 0 /\ (top - t) * dir > 0
<1>1. Reach \in Nat /\ s \in Nat /\ s >= 1 /\ s <= Reach
  BY DEF MultistepAssumption
<1>2. t \in Int /\ t % 2 = 0 /\ t * dir >= 0 /\ dir \in {-1, 1}
  BY DEF VodeInv, Vode!TypeOK
<1>3. CASE dir = 1
  <2>1. m = 2 * s /\ top = t + 2 * s
    BY <1>1, <1>2, <1>3
  <2> QED BY <1>1, <1>2, <1>3, <2>1
<1>4. CASE dir = -1
  <2>1. m = -2 * s /\ top = t - 2 * s
    BY <1>1, <1>2, <1>4
  <2>2. t <= 0
    BY <1>2, <1>4
  <2>3. top \in Int /\ top % 2 = 0 /\ top <= 0 /\ top - t = -2 * s
    BY <1>1, <1>2, <2>1, <2>2
  <2> QED BY <1>1, <1>2, <1>4, <2>1, <2>3
<1> QED BY <1>2, <1>3, <1>4

\* The step of the mesh reports the first root it passes, or none lies in it.
LEMMA AdvanceReports ==
  ASSUME MultistepAssumption, VodeInv, Vode!Advance PROVE VodeInv'
<1>1. /\ pc = "step" /\ dir \in {-1, 1} /\ dir # 0 /\ started /\ ~at_event
      /\ t \in Int /\ t * dir >= 0 /\ reported \in Seq(Roots \X DOMAIN roots)
  BY DEF VodeInv, Vode!TypeOK, Vode!Advance
<1>2. PICK s \in 1..Reach : hu' = 2 * s * dir /\ t' = t + hu'
  BY DEF Vode!Advance
<1>3. /\ hu' \in -2 * Reach..2 * Reach /\ t' \in Int /\ t' % 2 = 0
      /\ t' * dir >= 0 /\ (t' - t) * dir > 0
  <2>1. PICK m, k : m = 2 * s * dir /\ k = t + m
    OBVIOUS
  <2>2. m \in -2 * Reach..2 * Reach /\ k \in Int /\ k % 2 = 0 /\ k * dir >= 0 /\ (k - t) * dir > 0
    BY <1>1, <2>1, MeshStep, Zenon
  <2>3. hu' = m /\ t' = k
    BY <1>2, <2>1, Zenon
  <2> QED BY <2>2, <2>3, Zenon
<1>4. /\ roots' = roots /\ wanted' = wanted /\ call' = call /\ target' = target
      /\ started' = started /\ dir' = dir /\ ksteps' = ksteps + 1 /\ ksteps < MaxSteps
  BY DEF Vode!Advance, Vode!setup
<1>5. ksteps' \in 0..MaxSteps /\ call' \in 0..Calls /\ target' \in Int
  <2>1. ksteps \in 0..MaxSteps /\ call \in 0..Calls /\ target \in Int /\ MaxSteps \in Nat
    BY DEF VodeInv, Vode!TypeOK, MultistepAssumption
  <2> QED BY <1>4, <2>1
<1>6. Lists(reported, dir, t)
  BY <1>1 DEF VodeInv, Vode!Seen
<1>7. PICK top \in Int : top = t'
  BY <1>3
<1>8. CASE Vode!Candidates(t, top, dir) = {}
  <2>1. UNCHANGED <<at_event, t_event, reported>> /\ pc' \in {"idle", "step"}
        /\ how' \in {"none", "top", "interpolated", "root"} /\ status' \in {"OK", "CONVERGENCE_ERROR"}
    <3>1. UNCHANGED Vode!events /\ (Vode!Finish("OK", "interpolated") \/ UNCHANGED <<pc, how, status>>)
      BY <1>7, <1>8, Zenon DEF Vode!Advance
    <3> QED BY <3>1, Zenon DEF Vode!events, Vode!Finish, VodeInv, Vode!TypeOK
  <2>2. Passed(dir, top) = Passed(dir, t)
    <3>1. (top - t) * dir > 0 /\ top % 2 = 0
      BY <1>3, <1>7, Zenon
    <3>2. (top - t) * dir >= 0
      <4>1. t \in Int /\ dir \in Int
        BY <1>1
      <4>2. (top - t) * dir \in Int
        BY <1>7, <4>1
      <4> QED BY <3>1, <4>2
    <3> QED BY <1>1, <1>8, <3>1, <3>2, PassedNone
  <2>3. Lists(reported, dir, top)
    BY <1>6, <2>2, Zenon DEF Lists
  <2>4. t_event' \in Roots \cup {0} /\ at_event' = FALSE /\ started' = TRUE /\ dir' # 0
    BY <1>1, <1>4, <2>1 DEF VodeInv, Vode!TypeOK
  <2>5. VodeInv'
    BY <1>1, <1>3, <1>4, <1>5, <1>7, <2>1, <2>3, <2>4, VodeAssembled
  <2> QED BY <2>5
<1>9. ASSUME NEW c \in Vode!Candidates(t, top, dir), Vode!Earliest(c, dir, Vode!Candidates(t, top, dir)),
             Vode!Report(c)
      PROVE  VodeInv'
  <2>1. /\ at_event' = TRUE /\ t_event' = c[1] /\ reported' = Append(reported, c)
        /\ pc' = "idle" /\ how' = "root" /\ status' = "OK"
    BY <1>9 DEF Vode!Report
  <2>2. /\ Append(reported, c) \in Seq(Roots \X DOMAIN roots)
        /\ Lists(Append(reported, c), dir, c[1])
        /\ c[1] \in Int /\ c[1] * dir > 0 /\ (top - c[1]) * dir > 0
    BY <1>1, <1>6, <1>9, ReportedOne
  <2>3. c[1] \in Roots
    BY DEF Vode!Candidates
  <2>4. /\ pc' \in {"idle", "step"} /\ started' \in BOOLEAN /\ at_event' \in BOOLEAN
        /\ how' \in {"none", "top", "interpolated", "root"} /\ status' \in {"OK", "CONVERGENCE_ERROR"}
        /\ started' = TRUE
    BY <1>1, <1>4, <2>1, Zenon
  <2>5. dir' \in {-1, 0, 1} /\ dir' # 0 /\ t_event' \in Roots \cup {0}
        /\ t_event' * dir' > 0 /\ (t' - t_event') * dir' > 0 /\ t' * dir' >= 0
    <3>1. dir' \in {-1, 0, 1} /\ dir' # 0 /\ t_event' \in Roots \cup {0}
      BY <1>1, <1>4, <2>1, <2>3
    <3> QED BY <1>3, <1>4, <1>7, <2>1, <2>2, <3>1, Zenon
  <2> QED BY <1>3, <1>4, <1>5, <2>1, <2>2, <2>4, <2>5, VodeAssembled
<1> QED BY <1>7, <1>8, <1>9, Zenon DEF Vode!Advance

\* A step that only leaves the loop, or a call that only answers.
LEMMA AnswerReports ==
  ASSUME MultistepAssumption, VodeInv,
         UNCHANGED <<roots, wanted, started, dir, t, hu, ksteps, at_event, t_event, reported>>,
         call' \in 0..Calls, target' \in Int, pc' = "idle",
         how' \in {"none", "top", "interpolated", "root"}, status' \in {"OK", "CONVERGENCE_ERROR"}
  PROVE  VodeInv'
<1>1. /\ started' \in BOOLEAN /\ at_event' \in BOOLEAN /\ ksteps' \in 0..MaxSteps
      /\ dir' \in {-1, 0, 1} /\ hu' \in -2 * Reach..2 * Reach /\ t' \in Int
      /\ t_event' \in Roots \cup {0} /\ pc' \in {"idle", "step"}
  BY Zenon DEF VodeInv, Vode!TypeOK
<1>2. /\ t' % 2 = 0 /\ t' * dir' >= 0 /\ (started' <=> dir' # 0)
      /\ ~started' => t' = 0 /\ hu' = 0 /\ ~at_event' /\ pc' = "idle"
      /\ at_event' => pc' = "idle" /\ t_event' * dir' > 0 /\ (t' - t_event') * dir' > 0
      /\ reported' \in Seq(Roots \X DOMAIN roots)
  BY Zenon DEF VodeInv
<1>3. PICK list, way, place : /\ list = reported' /\ way = dir'
                             /\ place = IF at_event' THEN t_event' ELSE t'
  OBVIOUS
<1>4. Lists(list, way, place)
  BY <1>3, Zenon DEF VodeInv, Vode!Seen
<1> QED BY <1>1, <1>2, <1>3, <1>4, VodeAssembled, Zenon

\* Nothing is passed before the first step, whichever way it goes.
LEMMA NothingYet ==
  ASSUME MultistepAssumption, VodeInv, ~started, NEW way \in {-1, 1}
  PROVE  Lists(reported, way, t)
<1>1. dir = 0 /\ t = 0 /\ ~at_event /\ Lists(reported, dir, t)
  BY DEF VodeInv, Vode!TypeOK, Vode!Seen
<1>2. \A r \in Roots : r \in Int
  BY DEF MultistepAssumption
<1>3. Passed(dir, t) = {}
  <2>1. ASSUME NEW c \in Roots \X DOMAIN roots PROVE ~(c[1] * dir > 0)
    BY <1>1, <1>2, <2>1
  <2> QED BY <2>1 DEF Passed
<1>4. Passed(way, t) = {}
  <2>1. ASSUME NEW c \in Roots \X DOMAIN roots PROVE ~(c[1] * way > 0 /\ (t - c[1]) * way >= 0)
    <3>1. PICK r \in Int : r = c[1]
      BY <1>2
    <3>2. ~(r * way > 0 /\ (0 - r) * way >= 0)
      <4>1. CASE way = 1
        BY <4>1
      <4>2. CASE way = -1
        BY <4>2
      <4> QED BY <4>1, <4>2
    <3> QED BY <1>1, <3>1, <3>2
  <2> QED BY <2>1 DEF Passed
<1>5. DOMAIN reported = {}
  BY <1>1, <1>3 DEF Lists
<1> QED BY <1>4, <1>5 DEF Lists

\* A call reports the next root of the step that the last one ended in, and
\* goes on from the mesh when there is none.
LEMMA CallReports ==
  ASSUME MultistepAssumption, VodeInv, NEW to \in Touts, Vode!Call(to) PROVE VodeInv'
<1>1. /\ pc = "idle" /\ call' = call + 1 /\ call < Calls /\ target' = to
      /\ UNCHANGED <<roots, wanted, t, hu, ksteps>>
  BY DEF Vode!Call, Vode!mesh
<1>2. call' \in 0..Calls /\ target' \in Int
  <2>1. to \in Int /\ Calls \in Nat
    BY DEF MultistepAssumption
  <2>2. call \in 0..Calls
    BY DEF VodeInv, Vode!TypeOK
  <2> QED BY <1>1, <2>1, <2>2
<1>3. /\ to \in Int /\ t \in Int /\ dir \in {-1, 0, 1} /\ t % 2 = 0
      /\ ksteps \in 0..MaxSteps /\ hu \in -2 * Reach..2 * Reach
  BY DEF VodeInv, Vode!TypeOK, MultistepAssumption
<1>4. reported \in Seq(Roots \X DOMAIN roots)
  BY DEF VodeInv
<1>5. CASE UNCHANGED <<started, dir, at_event, t_event, reported>> /\ pc' = "idle"
           /\ how' \in {"top", "interpolated"} /\ status' = "OK"
  <2>1. how' \in {"none", "top", "interpolated", "root"} /\ status' \in {"OK", "CONVERGENCE_ERROR"}
    BY <1>5, Zenon
  <2> QED BY <1>1, <1>2, <1>5, <2>1, AnswerReports, Zenon
<1>6. ASSUME NEW c \in Vode!Rest, Vode!Earliest(c, dir, Vode!Rest), Vode!Report(c),
             started' = TRUE, dir' = IF started THEN dir ELSE Vode!Sign(to - t)
      PROVE  VodeInv'
  <2>1. /\ at_event' = TRUE /\ t_event' = c[1] /\ reported' = Append(reported, c)
        /\ pc' = "idle" /\ how' = "root" /\ status' = "OK"
    BY <1>6 DEF Vode!Report
  <2>2. at_event /\ Vode!Rest = Vode!Candidates(t_event, t, dir)
    BY <1>6 DEF Vode!Rest
  <2>3. /\ dir # 0 /\ started /\ t_event * dir > 0 /\ t_event \in Int /\ t * dir >= 0
        /\ Lists(reported, dir, t_event)
    BY <2>2 DEF VodeInv, Vode!Seen, Vode!TypeOK, MultistepAssumption
  <2>4. dir' = dir /\ dir' \in {-1, 0, 1} /\ dir' # 0 /\ dir \in {-1, 1}
    BY <1>3, <1>6, <2>3
  <2>5. t_event * dir >= 0
    <3>1. t_event * dir \in Int
      BY <2>3, <2>4
    <3> QED BY <2>3, <3>1
  <2>6. /\ Append(reported, c) \in Seq(Roots \X DOMAIN roots)
        /\ Lists(Append(reported, c), dir, c[1])
        /\ c[1] \in Int /\ c[1] * dir > 0 /\ (t - c[1]) * dir > 0
    BY <1>3, <1>6, <2>2, <2>3, <2>5, ReportedOne
  <2>7. c[1] \in Roots
    BY <1>6, <2>2 DEF Vode!Candidates
  <2>8. /\ pc' \in {"idle", "step"} /\ started' \in BOOLEAN /\ at_event' \in BOOLEAN
        /\ how' \in {"none", "top", "interpolated", "root"} /\ status' \in {"OK", "CONVERGENCE_ERROR"}
        /\ t_event' \in Roots \cup {0}
    BY <1>6, <2>1, <2>7, Zenon
  <2>9. /\ t_event' * dir' > 0 /\ (t' - t_event') * dir' > 0 /\ t' * dir' >= 0
        /\ hu' \in -2 * Reach..2 * Reach /\ ksteps' \in 0..MaxSteps /\ t' \in Int /\ t' % 2 = 0
    BY <1>1, <1>3, <2>1, <2>3, <2>4, <2>6, Zenon
  <2> QED BY <1>1, <1>2, <1>6, <2>1, <2>4, <2>6, <2>8, <2>9, VodeAssembled
<1>7. ASSUME Vode!Rest = {}, at_event' = FALSE, UNCHANGED <<t_event, reported>>,
             started' = TRUE, dir' = IF started THEN dir ELSE Vode!Sign(to - t),
             pc' \in {"idle", "step"}, status' = "OK", how' \in {"none", "interpolated"}
      PROVE  VodeInv'
  <2>1. PICK way : way = dir'
    OBVIOUS
  <2>2. ASSUME started PROVE Lists(reported, way, t) /\ way \in {-1, 1} /\ t * way >= 0
    <3>1. way = dir /\ dir # 0 /\ dir \in {-1, 1} /\ t * dir >= 0
      BY <1>3, <1>7, <2>1, <2>2 DEF VodeInv
    <3>2. ASSUME at_event PROVE Lists(reported, dir, t)
      <4>1. /\ Vode!Candidates(t_event, t, dir) = {} /\ t_event \in Int /\ Lists(reported, dir, t_event)
            /\ t_event * dir > 0 /\ (t - t_event) * dir > 0
        <5>1. Vode!Candidates(t_event, t, dir) = {}
          BY <1>7, <3>2 DEF Vode!Rest
        <5>2. t_event \in Int
          BY DEF VodeInv, Vode!TypeOK, MultistepAssumption
        <5>3. Lists(reported, dir, t_event) /\ t_event * dir > 0 /\ (t - t_event) * dir > 0
          BY <3>2, Zenon DEF VodeInv, Vode!Seen
        <5> QED BY <5>1, <5>2, <5>3
      <4>2. t_event * dir \in Int /\ (t - t_event) * dir \in Int
        BY <1>3, <3>1, <4>1
      <4>3. t_event * dir >= 0 /\ (t - t_event) * dir >= 0
        BY <4>1, <4>2
      <4>4. Passed(dir, t) = Passed(dir, t_event)
        BY <1>3, <3>1, <4>1, <4>3, PassedNone
      <4> QED BY <4>1, <4>4, Zenon DEF Lists
    <3>3. ASSUME ~at_event PROVE Lists(reported, dir, t)
      BY <3>3 DEF VodeInv, Vode!Seen
    <3> QED BY <3>1, <3>2, <3>3
  <2>3. ASSUME ~started PROVE Lists(reported, way, t) /\ way \in {-1, 1} /\ t * way >= 0
    <3>1. way \in {-1, 1} /\ t = 0
      BY <1>3, <1>7, <2>1, <2>3 DEF Vode!Sign, VodeInv
    <3>2. Lists(reported, way, t) /\ t * way >= 0
      BY <2>3, <3>1, NothingYet
    <3> QED BY <3>1, <3>2
  <2>4. Lists(reported, way, t) /\ way \in {-1, 1} /\ t * way >= 0
    BY <2>2, <2>3
  <2>5. /\ pc' \in {"idle", "step"} /\ started' \in BOOLEAN /\ at_event' \in BOOLEAN
        /\ how' \in {"none", "top", "interpolated", "root"} /\ status' \in {"OK", "CONVERGENCE_ERROR"}
        /\ t_event' \in Roots \cup {0}
    BY <1>7, Zenon DEF VodeInv, Vode!TypeOK
  <2>6. /\ dir' \in {-1, 0, 1} /\ dir' # 0
    BY <2>1, <2>4
  <2>7. /\ hu' \in -2 * Reach..2 * Reach /\ ksteps' \in 0..MaxSteps /\ t' \in Int /\ t' % 2 = 0
        /\ t' * dir' >= 0 /\ reported' \in Seq(Roots \X DOMAIN roots)
    BY <1>1, <1>3, <1>4, <1>7, <2>1, <2>4, Zenon
  <2>8. PICK list, place : list = reported' /\ place = t'
    OBVIOUS
  <2>9. Lists(list, way, place) /\ place = IF at_event' THEN t_event' ELSE t'
    BY <1>1, <1>7, <2>4, <2>8, Zenon
  <2> QED BY <1>1, <1>2, <1>7, <2>1, <2>5, <2>6, <2>7, <2>8, <2>9, VodeAssembled
<1>8. \/ UNCHANGED <<started, dir, at_event, t_event, reported>> /\ pc' = "idle"
           /\ how' \in {"top", "interpolated"} /\ status' = "OK"
      \/ /\ started' = TRUE /\ dir' = IF started THEN dir ELSE Vode!Sign(to - t)
         /\ \/ \E c \in Vode!Rest : Vode!Earliest(c, dir, Vode!Rest) /\ Vode!Report(c)
            \/ /\ Vode!Rest = {} /\ at_event' = FALSE /\ UNCHANGED <<t_event, reported>>
               /\ pc' \in {"idle", "step"} /\ status' = "OK" /\ how' \in {"none", "interpolated"}
  BY Zenon DEF Vode!Call, Vode!Finish, Vode!events
<1> QED BY <1>5, <1>6, <1>7, <1>8

\* So does a step of something else.
LEMMA VodeIdles ==
  ASSUME MultistepAssumption, VodeInv,
         UNCHANGED <<pc, call, target, roots, wanted, started, dir, t, hu, ksteps, at_event, t_event,
                     reported, how, status>>
  PROVE  VodeInv'
<1>1. Vode!TypeOK' /\ Distinct' /\ DOMAIN roots' \subseteq {1, 2} /\ reported' \in Seq(Roots \X DOMAIN roots')
  <2>1. Vode!TypeOK'
    BY DEF VodeInv, Vode!TypeOK
  <2> QED BY <2>1 DEF VodeInv, Distinct
<1>2. PICK list, way, place : list = reported /\ way = dir /\ place = Vode!Seen
  OBVIOUS
<1>3. Lists(list, way, place)'
  BY <1>2, ListsKept, Zenon DEF VodeInv
<1>4. Lists(reported, dir, Vode!Seen)'
  BY <1>2, <1>3, Zenon DEF Vode!Seen
<1> QED BY <1>1, <1>4, Zenon DEF VodeInv

\* Every step of the integrator keeps the invariant.
LEMMA VodeReports ==
  ASSUME MultistepAssumption, VodeInv, Vode!Step \/ \E to \in Touts : Vode!Call(to)
  PROVE  VodeInv'
<1>1. CASE Vode!Exhausted \/ Vode!StepFails
  <2>1. /\ UNCHANGED <<roots, wanted, started, dir, t, hu, ksteps, at_event, t_event, reported, call, target>>
        /\ pc' = "idle" /\ how' = "none" /\ status' = "CONVERGENCE_ERROR"
    BY <1>1, Zenon DEF Vode!Exhausted, Vode!StepFails, Vode!Finish, Vode!setup, Vode!mesh, Vode!events
  <2>2. call' \in 0..Calls /\ target' \in Int
    BY <2>1, Zenon DEF VodeInv, Vode!TypeOK
  <2>3. how' \in {"none", "top", "interpolated", "root"} /\ status' \in {"OK", "CONVERGENCE_ERROR"}
    BY <2>1, Zenon
  <2> QED BY <2>1, <2>2, <2>3, AnswerReports, Zenon
<1> QED BY <1>1, AdvanceReports, CallReports DEF Vode!Step

\* vode_integrate_to reports the roots it takes the program past, once and in
\* order, for any functions, output points and number of calls.
THEOREM RootsAreReported == MultistepSpec => []RootsReported
<1> DEFINE Inv == code = "vode" => VodeInv
<1> USE MultistepAssumption
<1>1. MultistepInit => Inv
  <2> SUFFICES ASSUME MultistepInit, code = "vode" PROVE VodeInv
    OBVIOUS
  <2>1. Vode!Init
    BY DEF MultistepInit
  <2> QED BY <2>1, VodeStarts
<1>2. Inv /\ [MultistepNext]_allVars => Inv'
  <2> SUFFICES ASSUME Inv, [MultistepNext]_allVars, code' = "vode" PROVE VodeInv'
    OBVIOUS
  <2>1. code = "vode" /\ VodeInv
    BY DEF MultistepNext, allVars, BesideAdams, BesideNordsieck, BesideDdeabm, BesideVode
  <2>2. CASE MultistepNext
    BY <2>1, <2>2, VodeReports DEF MultistepNext
  <2>3. CASE UNCHANGED allVars
    BY <2>1, <2>3, VodeIdles DEF allVars, OfDriver, OfVode
  <2> QED BY <2>2, <2>3
<1>3. Inv => RootsReported
  BY VodeInvReports DEF RootsReported
<1> QED BY <1>1, <1>2, <1>3, PTL DEF MultistepSpec

-----------------------------------------------------------------------------
(* vode_integrate_to: what is interpolated lies in the last step.          *)

\* Without events the point asked for is never behind the last step, and ahead
\* of the mesh while no step was taken and in the loop.  With them the point may
\* be anywhere.
VodeWindow ==
  /\ at_event => Vode!has_event
  /\ ~Vode!has_event =>
       /\ started => (target - (t - hu)) * dir >= 0
       /\ started /\ hu = 0 => (target - t) * dir > 0
       /\ pc = "step" => (target - t) * dir > 0

\* A step of the mesh that starts before the point asked for, and reaches it,
\* has it inside.
LEMMA AdvanceInWindow ==
  ASSUME MultistepAssumption, VodeInv, VodeWindow, Vode!Advance
  PROVE  VodeWindow' /\ (Vode!InterpolatesInWindow' \/ Vode!AskedBehind)
<1>1. /\ pc = "step" /\ started /\ dir \in {-1, 1} /\ dir # 0 /\ t \in Int /\ target \in Int
  BY DEF VodeInv, Vode!TypeOK, Vode!Advance
<1>2. PICK s \in 1..Reach : hu' = 2 * s * dir /\ t' = t + hu'
  BY DEF Vode!Advance
<1>3. PICK m, top : m = 2 * s * dir /\ top = t + m
  OBVIOUS
<1>4. m \in -2 * Reach..2 * Reach /\ top \in Int /\ (top - t) * dir > 0
  BY <1>1, <1>3, MeshStep
<1>5. hu' = m /\ t' = top /\ target' = target /\ started' = started /\ dir' = dir /\ roots' = roots
  BY <1>2, <1>3, Zenon DEF Vode!Advance, Vode!setup
<1>6. m \in Int /\ m # 0 /\ top - m = t
  <2>1. Reach \in Nat
    BY DEF MultistepAssumption
  <2>2. m \in Int /\ top = t + m
    BY <1>3, <1>4, <2>1
  <2>3. m # 0
    <3> SUFFICES ASSUME m = 0 PROVE FALSE
      OBVIOUS
    <3>1. top = t
      BY <1>1, <2>2
    <3>2. (top - t) * dir = 0
      BY <1>1, <3>1
    <3> QED BY <1>4, <3>2
  <2> QED BY <1>1, <2>2, <2>3
<1>7. ASSUME (target - t) * dir > 0 PROVE (target' - (t' - hu')) * dir' >= 0
  <2>1. (target - t) * dir \in Int
    BY <1>1
  <2>2. (target - t) * dir >= 0
    BY <1>7, <2>1
  <2> QED BY <1>5, <1>6, <2>2, Zenon
<1>8. pc' = "step" => (target' - t') * dir' > 0
  <2> SUFFICES ASSUME pc' = "step" PROVE (target' - t') * dir' > 0
    OBVIOUS
  <2>1. ~((top - target) * dir >= 0)
    BY <1>5, Zenon DEF Vode!Advance, Vode!Report, Vode!Finish
  <2>2. (target - top) * dir > 0
    BY <1>1, <1>4, <2>1, Compared
  <2> QED BY <1>5, <2>2, Zenon
<1>9. ASSUME (target - t) * dir > 0 PROVE Vode!InterpolatesInWindow'
  <2> SUFFICES ASSUME pc' = "idle", how' = "interpolated"
               PROVE  (target' - (t' - hu')) * dir' >= 0 /\ (t' - target') * dir' >= 0
    BY DEF Vode!InterpolatesInWindow
  <2>1. (t' - target) * dir >= 0
    <3>1. pc # "idle" /\ "root" # "interpolated"
      BY <1>1
    <3> QED BY <3>1, Zenon DEF Vode!Advance, Vode!Report
  <2>2. (target' - (t' - hu')) * dir' >= 0
    BY <1>7, <1>9
  <2> QED BY <1>5, <2>1, <2>2, Zenon
<1>10. (target - t) * dir > 0 \/ Vode!AskedBehind
  <2>1. CASE ~Vode!has_event
    BY <1>1, <2>1, Zenon DEF VodeWindow
  <2>2. CASE Vode!has_event /\ (t - target) * dir >= 0
    BY <1>1, <2>2, Zenon DEF Vode!AskedBehind
  <2>3. CASE ~((t - target) * dir >= 0)
    BY <1>1, <2>3, Compared
  <2> QED BY <2>1, <2>2, <2>3
<1>11. at_event' => Vode!has_event'
  <2>1. at_event' => at_event \/ \E c \in Roots \X DOMAIN roots : TRUE
    <3>1. ASSUME NEW c \in Vode!Candidates(t, t', dir) PROVE c \in Roots \X DOMAIN roots
      BY <3>1, Zenon DEF Vode!Candidates
    <3> QED BY <3>1, Zenon DEF Vode!Advance, Vode!events
  <2>2. ASSUME NEW c \in Roots \X DOMAIN roots PROVE roots # <<>>
    BY <2>2
  <2>3. at_event => roots # <<>>
    BY DEF VodeWindow, Vode!has_event
  <2> QED BY <1>5, <2>1, <2>2, <2>3, Zenon DEF Vode!has_event
<1>12. VodeWindow'
  <2> SUFFICES ASSUME ~Vode!has_event'
               PROVE  /\ started' => (target' - (t' - hu')) * dir' >= 0
                      /\ started' /\ hu' = 0 => (target' - t') * dir' > 0
                      /\ pc' = "step" => (target' - t') * dir' > 0
    BY <1>11, Zenon DEF VodeWindow
  <2>1. (target - t) * dir > 0
    BY <1>1, <1>5, Zenon DEF VodeWindow, Vode!has_event
  <2>2. (target' - (t' - hu')) * dir' >= 0
    BY <1>7, <2>1
  <2> QED BY <1>5, <1>6, <1>8, <2>2, Zenon
<1> QED BY <1>9, <1>10, <1>12

\* A call of a program without events asks for a point further on, and enters
\* the loop when the mesh has not reached it; with events it answers from the
\* rest of a step, unless the point lies before that step.
LEMMA CallInWindow ==
  ASSUME MultistepAssumption, VodeInv, VodeWindow, NEW to \in Touts, Vode!Call(to)
  PROVE  VodeWindow' /\ (Vode!InterpolatesInWindow' \/ Vode!AskedBehind)
<1>1. /\ pc = "idle" /\ target' = to /\ t' = t /\ hu' = hu /\ to \in Int /\ t \in Int /\ target \in Int
      /\ hu \in Int /\ dir \in {-1, 0, 1} /\ roots' = roots
  <2>1. Reach \in Nat /\ to \in Int
    BY DEF MultistepAssumption
  <2> QED BY <2>1 DEF VodeInv, Vode!TypeOK, Vode!Call, Vode!mesh
<1>2. ASSUME started PROVE dir \in {-1, 1} /\ (to - target) * dir >= 0
  BY <1>1, <1>2 DEF VodeInv, Vode!Call, Vode!Onward
<1>3. ASSUME started, ~Vode!has_event PROVE (to - (t - hu)) * dir >= 0
  <2>1. PICK left \in Int : left = t - hu
    BY <1>1
  <2>2. (target - left) * dir >= 0
    BY <1>3, <2>1 DEF VodeWindow
  <2>3. (to - left) * dir >= 0
    BY <1>1, <1>2, <1>3, <2>2, Compared
  <2> QED BY <2>1, <2>3
<1>4. ASSUME started, ~Vode!has_event, hu = 0 PROVE (to - t) * dir > 0
  <2>1. (target - t) * dir > 0
    BY <1>4 DEF VodeWindow
  <2> QED BY <1>1, <1>2, <1>4, <2>1, Compared
<1>5. at_event' => Vode!has_event'
  <2>1. at_event' => at_event
    BY Zenon DEF Vode!Call, Vode!events, Vode!Rest
  <2> QED BY <1>1, <2>1, Zenon DEF VodeWindow, Vode!has_event
<1>6. /\ started /\ ~Vode!has_event => (to - (t - hu)) * dir >= 0 /\ (hu = 0 => (to - t) * dir > 0)
      /\ at_event => Vode!has_event /\ started
  BY <1>3, <1>4, Zenon DEF VodeWindow, VodeInv
<1>7. \/ UNCHANGED <<started, dir>> /\ pc' = "idle" /\ how' = "top"
      \/ /\ UNCHANGED <<started, dir>> /\ pc' = "idle" /\ how' = "interpolated"
         /\ started /\ (t - target') * dir >= 0 /\ (to - (t - hu)) * dir >= 0
      \/ /\ to # t
         /\ ~(started /\ ~Vode!has_event /\ hu # 0 /\ (t - target') * dir >= 0 /\ (to - (t - hu)) * dir >= 0)
         /\ started' = TRUE /\ dir' = IF started THEN dir ELSE Vode!Sign(to - t)
         /\ \/ at_event /\ pc' = "idle" /\ how' = "root"
            \/ at_event /\ pc' = "idle" /\ how' = "interpolated" /\ (t - target') * dir >= 0
            \/ ~(at_event /\ (t - target') * dir >= 0) /\ pc' = "step"
  BY Zenon DEF Vode!Call, Vode!Finish, Vode!Report, Vode!Rest, Vode!Reached
<1>8. VodeWindow'
  <2> SUFFICES ASSUME ~Vode!has_event
               PROVE  /\ started' => (to - (t - hu)) * dir' >= 0
                      /\ started' /\ hu = 0 => (to - t) * dir' > 0
                      /\ pc' = "step" => (to - t) * dir' > 0
    BY <1>1, <1>5, Zenon DEF VodeWindow, Vode!has_event
  <2>1. CASE UNCHANGED <<started, dir>> /\ pc' = "idle"
    <3>1. pc' # "step"
      BY <2>1
    <3> QED BY <1>6, <2>1, <3>1, Zenon
  <2>2. ASSUME started, dir' = dir, pc' = "step", to # t,
               ~(hu # 0 /\ (t - to) * dir >= 0 /\ (to - (t - hu)) * dir >= 0)
        PROVE  (to - t) * dir > 0
    <3>1. ASSUME (t - to) * dir >= 0 PROVE FALSE
      <4>1. (to - (t - hu)) * dir >= 0 /\ (hu = 0 => (to - t) * dir > 0)
        BY <1>6, <2>2
      <4>2. (to - t) * dir > 0
        BY <2>2, <3>1, <4>1, Zenon
      <4>3. (to - t) * dir \in Int
        BY <1>1
      <4>4. (to - t) * dir >= 0
        BY <4>2, <4>3
      <4>5. to = t
        BY <1>1, <1>2, <2>2, <3>1, <4>4, Compared
      <4> QED BY <2>2, <4>5
    <3> QED BY <1>1, <1>2, <2>2, <3>1, Compared
  <2>3. ASSUME ~started, dir' = Vode!Sign(to - t), pc' = "step", to # t
        PROVE  (to - t) * dir' > 0 /\ (to - (t - hu)) * dir' >= 0
    <3>1. hu = 0
      BY <2>3 DEF VodeInv
    <3>2. (to - t) * dir' > 0
      <4>1. CASE to - t < 0
        BY <1>1, <2>3, <4>1 DEF Vode!Sign
      <4>2. CASE to - t > 0
        BY <1>1, <2>3, <4>2 DEF Vode!Sign
      <4> QED BY <1>1, <2>3, <4>1, <4>2
    <3>3. t - hu = t
      BY <1>1, <3>1
    <3>4. (to - t) * dir' \in Int
      BY <1>1, <2>3 DEF Vode!Sign
    <3>5. (to - t) * dir' >= 0
      BY <3>2, <3>4
    <3> QED BY <3>2, <3>3, <3>5, Zenon
  <2>4. \/ UNCHANGED <<started, dir>> /\ pc' = "idle"
        \/ /\ to # t /\ pc' = "step" /\ started' = TRUE
           /\ ~(started /\ hu # 0 /\ (t - to) * dir >= 0 /\ (to - (t - hu)) * dir >= 0)
           /\ dir' = IF started THEN dir ELSE Vode!Sign(to - t)
    BY <1>1, <1>6, <1>7, Zenon
  <2>5. CASE started
    <3>1. \/ UNCHANGED <<started, dir>> /\ pc' = "idle"
          \/ /\ to # t /\ pc' = "step" /\ started' = TRUE /\ dir' = dir
             /\ ~(hu # 0 /\ (t - to) * dir >= 0 /\ (to - (t - hu)) * dir >= 0)
      BY <2>4, <2>5, Zenon
    <3> QED BY <1>6, <2>1, <2>2, <2>5, <3>1, Zenon
  <2>6. CASE ~started
    <3>1. \/ UNCHANGED <<started, dir>> /\ pc' = "idle"
          \/ to # t /\ pc' = "step" /\ started' = TRUE /\ dir' = Vode!Sign(to - t)
      BY <2>4, <2>6, Zenon
    <3> QED BY <2>1, <2>3, <2>6, <3>1, Zenon
  <2> QED BY <2>5, <2>6
<1>9. Vode!InterpolatesInWindow' \/ Vode!AskedBehind
  <2> SUFFICES ASSUME pc' = "idle", how' = "interpolated", ~Vode!AskedBehind
               PROVE  (to - (t - hu)) * dir' >= 0 /\ (t - to) * dir' >= 0
    BY <1>1, Zenon DEF Vode!InterpolatesInWindow
  <2>1. how' # "top" /\ how' # "root" /\ pc' # "step"
    OBVIOUS
  <2>2. /\ started /\ dir' = dir /\ (t - to) * dir >= 0
        /\ (to - (t - hu)) * dir >= 0 \/ Vode!has_event
    BY <1>1, <1>6, <1>7, <2>1, Zenon
  <2>3. (to - (t - hu)) * dir >= 0
    <3>1. PICK left \in Int : left = t - hu
      BY <1>1
    <3>2. ASSUME Vode!has_event PROVE ~((left - to) * dir > 0)
      BY <1>1, <3>1, <3>2, Zenon DEF Vode!AskedBehind
    <3>3. dir \in {-1, 1}
      BY <1>2, <2>2
    <3>4. Vode!has_event => (to - left) * dir >= 0
      BY <1>1, <3>1, <3>2, <3>3, Compared
    <3> QED BY <2>2, <3>1, <3>4, Zenon
  <2> QED BY <2>2, <2>3, Zenon
<1> QED BY <1>8, <1>9


-----------------------------------------------------------------------------
(* ddeabm_integrate_to: the window of the interpolation, and tstop.        *)

\* The distance from one place to another along the direction.
Fwd(a, b) == IF delsgn = -1 THEN a - b ELSE b - a

\* Once a direction is known the last step goes along it, and the point reported
\* last is not before it.  The point asked for lies ahead, not beyond tstop; a
\* trial starts before it, and passes tstop only with the least length of a
\* first step.
DdeabmPlaces ==
  /\ init < 2 => pc = "idle" /\ x = t /\ xold = t
  /\ init = 2 => /\ delsgn \in {-1, 1} /\ Fwd(0, h) > 0 /\ Fwd(xold, x) >= 0
                 /\ pc = "idle" => Fwd(xold, t) >= 0
                 /\ pc # "idle" => /\ Fwd(t, target) > 0 /\ Fwd(xold, target) >= 0
                                   /\ has_tstop => Fwd(target, tstop) >= 0
                 /\ pc = "trial" => /\ ~start /\ Fwd(x, target) > 0
                                    /\ has_tstop => \/ Ddeabm!Abs(h) <= Ddeabm!Abs(tstop - x)
                                                    \/ Ddeabm!Abs(h) <= Floor

DdeabmInv == Ddeabm!TypeOK /\ DdeabmPlaces

\* The least and the greatest of two numbers.
LEMMA MinMaxOfTwo ==
  ASSUME NEW a \in Int, NEW b \in Int
  PROVE  /\ Ddeabm!Min({a, b}) = IF a <= b THEN a ELSE b
         /\ Ddeabm!Max({a, b}) = IF a >= b THEN a ELSE b
<1>1. Ddeabm!Min({a, b}) = IF a <= b THEN a ELSE b
  BY DEF Ddeabm!Min
<1>2. Ddeabm!Max({a, b}) = IF a >= b THEN a ELSE b
  BY DEF Ddeabm!Max
<1> QED BY <1>1, <1>2

\* The longest a step may get.
Bound == Ddeabm!Max({Longest, Floor, Gap})

\* It bounds each of the three.
LEMMA BoundOfSteps ==
  ASSUME MultistepAssumption
  PROVE  /\ Longest \in Nat /\ Floor \in Nat /\ Gap \in Nat /\ Bound \in Nat
         /\ Longest <= Bound /\ Floor <= Bound /\ Gap <= Bound
         /\ Longest >= 1 /\ Gap >= 1 /\ Gap <= Floor
<1>1. Longest \in Nat /\ Floor \in Nat /\ Gap \in Nat /\ Longest >= 1 /\ Gap >= 1 /\ Gap <= Floor
  BY DEF MultistepAssumption
<1>2. ASSUME NEW a \in Nat, NEW b \in Nat, NEW c \in Nat
      PROVE  Ddeabm!Max({a, b, c}) \in Nat /\ \A k \in {a, b, c} : k <= Ddeabm!Max({a, b, c})
  <2>1. \E m \in {a, b, c} : \A k \in {a, b, c} : m >= k
    <3>1. CASE a >= b /\ a >= c
      BY <3>1
    <3>2. CASE b >= a /\ b >= c
      BY <3>2
    <3>3. CASE c >= a /\ c >= b
      BY <3>3
    <3> QED BY <3>1, <3>2, <3>3
  <2>2. Ddeabm!Max({a, b, c}) \in {a, b, c} /\ \A k \in {a, b, c} : Ddeabm!Max({a, b, c}) >= k
    BY <2>1, Zenon DEF Ddeabm!Max
  <2> QED BY <2>2
<1> QED BY <1>1, <1>2 DEF Bound

\* A length with the sign of a number.
LEMMA SignedLength ==
  ASSUME NEW a \in Int, NEW n \in Int, n >= 0
  PROVE  /\ Ddeabm!Sign(a) * n = IF a < 0 THEN 0 - n ELSE n
         /\ Ddeabm!Sign(a) * n \in Int /\ Ddeabm!Abs(Ddeabm!Sign(a) * n) = n
<1>1. Ddeabm!Sign(a) * n = IF a < 0 THEN 0 - n ELSE n
  <2>1. CASE a < 0
    BY <2>1 DEF Ddeabm!Sign
  <2>2. CASE ~(a < 0)
    BY <2>2 DEF Ddeabm!Sign
  <2> QED BY <2>1, <2>2
<1> QED BY <1>1 DEF Ddeabm!Abs

\* The numbers of a state.
LEMMA DdeabmNumbers ==
  ASSUME MultistepAssumption, DdeabmInv
  PROVE  /\ t \in Int /\ x \in Int /\ xold \in Int /\ h \in Int /\ tstop \in Int /\ target \in Int
         /\ Ddeabm!Abs(h) <= Bound /\ init \in 0..2 /\ ksteps \in Nat /\ ifail \in 0..4
         /\ delsgn \in {-1, 0, 1} /\ call \in 0..Calls
<1>1. Bound \in Nat
  BY BoundOfSteps
<1>2. t \in Int /\ x \in Int /\ xold \in Int /\ h \in Int /\ tstop \in Int /\ target \in Int
  BY DEF DdeabmInv, Ddeabm!TypeOK
<1> QED BY <1>1, <1>2 DEF DdeabmInv, Ddeabm!TypeOK, Bound

\* The step cut to tstop keeps its direction.
LEMMA ClippedStep ==
  ASSUME MultistepAssumption, DdeabmInv, init = 2, ~Ddeabm!AtStop
  PROVE  /\ Ddeabm!Clipped \in Int /\ Fwd(0, Ddeabm!Clipped) > 0
         /\ Ddeabm!Sign(Ddeabm!Clipped) = Ddeabm!Sign(h)
         /\ Ddeabm!Abs(Ddeabm!Clipped) <= Ddeabm!Abs(h)
         /\ has_tstop => Ddeabm!Abs(Ddeabm!Clipped) <= Ddeabm!Abs(tstop - x)
<1>1. h \in Int /\ x \in Int /\ tstop \in Int /\ Gap \in Nat /\ Gap >= 1
  BY DdeabmNumbers, BoundOfSteps
<1>2. Fwd(0, h) > 0 /\ delsgn \in {-1, 1}
  BY DEF DdeabmInv, DdeabmPlaces
<1>3. CASE ~has_tstop
  <2>1. Ddeabm!Clipped = h
    BY <1>3 DEF Ddeabm!Clipped
  <2>2. Ddeabm!Abs(h) \in Int
    BY <1>1 DEF Ddeabm!Abs
  <2> QED BY <1>1, <1>2, <1>3, <2>1, <2>2
<1>4. CASE has_tstop
  <2>1. PICK a \in Int, b \in Int : a = Ddeabm!Abs(h) /\ b = Ddeabm!Abs(tstop - x)
    <3>1. Ddeabm!Abs(h) \in Int /\ Ddeabm!Abs(tstop - x) \in Int
      BY <1>1 DEF Ddeabm!Abs
    <3> QED BY <3>1
  <2>2. a >= 1 /\ b >= 1
    <3>1. a >= 1
      BY <1>1, <1>2, <2>1 DEF Ddeabm!Abs, Fwd
    <3>2. b >= Gap
      BY <1>1, <1>4, <2>1 DEF Ddeabm!AtStop
    <3> QED BY <1>1, <3>1, <3>2
  <2>3. PICK n \in Int : n = Ddeabm!Min({a, b}) /\ n >= 1 /\ n <= a /\ n <= b
    BY <2>2, MinMaxOfTwo
  <2>4. Ddeabm!Clipped = Ddeabm!Sign(h) * n
    BY <1>4, <2>1, <2>3 DEF Ddeabm!Clipped
  <2>5. /\ Ddeabm!Clipped = (IF h < 0 THEN 0 - n ELSE n) /\ Ddeabm!Abs(Ddeabm!Clipped) = n
    <3>1. n >= 0
      BY <2>3
    <3> QED BY <1>1, <2>4, <3>1, SignedLength
  <2>6. Ddeabm!Clipped \in Int /\ Fwd(0, Ddeabm!Clipped) > 0 /\ Ddeabm!Sign(Ddeabm!Clipped) = Ddeabm!Sign(h)
    BY <1>1, <1>2, <2>3, <2>5 DEF Fwd, Ddeabm!Sign
  <2> QED BY <2>1, <2>3, <2>5, <2>6
<1> QED BY <1>3, <1>4

\* A length that goes the way of the step before.
LEMMA StepOfLength ==
  ASSUME MultistepAssumption, DdeabmInv, init = 2, NEW n \in Int, n >= 1
  PROVE  /\ Ddeabm!Sign(h) * n \in Int /\ Ddeabm!Abs(Ddeabm!Sign(h) * n) = n
         /\ Fwd(0, Ddeabm!Sign(h) * n) = n
<1>1. h \in Int /\ Fwd(0, h) > 0 /\ delsgn \in {-1, 1}
  BY DdeabmNumbers DEF DdeabmInv, DdeabmPlaces
<1>2. /\ Ddeabm!Sign(h) * n = (IF h < 0 THEN 0 - n ELSE n)
      /\ Ddeabm!Sign(h) * n \in Int /\ Ddeabm!Abs(Ddeabm!Sign(h) * n) = n
  <2>1. n >= 0
    OBVIOUS
  <2> QED BY <1>1, <2>1, SignedLength
<1> QED BY <1>1, <1>2 DEF Fwd

\* The state after ddeabm_init.
LEMMA DdeabmStarts ==
  ASSUME MultistepAssumption, Ddeabm!Init PROVE DdeabmInv
<1>1. /\ pc = "idle" /\ call = 0 /\ init = 0 /\ start = TRUE /\ t \in Targets /\ x = t /\ xold = t
      /\ target = t /\ h = 0 /\ delsgn = 0 /\ has_tstop = FALSE /\ tstop = 0 /\ ksteps = 0 /\ ifail = 0
      /\ how = "none" /\ status = "OK"
  BY DEF Ddeabm!Init
<1>2. Targets \subseteq Nat /\ Calls \in Nat /\ Bound \in Nat
  BY BoundOfSteps DEF MultistepAssumption
<1>3. /\ call \in 0..Calls /\ target \in Nat /\ init \in 0..2 /\ {t, x, xold, tstop, h} \subseteq Int
      /\ Ddeabm!Abs(h) <= Bound /\ delsgn \in {-1, 0, 1} /\ ksteps \in Nat /\ ifail \in 0..4
  BY <1>1, <1>2 DEF Ddeabm!Abs
<1>4. Ddeabm!TypeOK
  BY <1>1, <1>3, Zenon DEF Ddeabm!TypeOK, Bound
<1>5. DdeabmPlaces
  BY <1>1 DEF DdeabmPlaces
<1> QED BY <1>4, <1>5 DEF DdeabmInv


\* A call refused, answered at once, or entering the loop towards a point
\* further on and not beyond tstop.
LEMMA CallContinues ==
  ASSUME MultistepAssumption, DdeabmInv, NEW to \in Targets,
         NEW stop \in {{}} \cup {{s} : s \in Stops}, Ddeabm!Call(to, stop)
  PROVE  DdeabmInv'
<1>1. /\ pc = "idle" /\ call < Calls /\ call' = call + 1 /\ target' = to
      /\ UNCHANGED <<start, t, xold, ksteps, ifail>> /\ Ddeabm!SetStop(stop)
  BY Zenon DEF Ddeabm!Call
<1>2. /\ t \in Int /\ x \in Int /\ xold \in Int /\ h \in Int /\ tstop \in Int /\ target \in Int
      /\ Ddeabm!Abs(h) <= Bound /\ init \in 0..2 /\ ksteps \in Nat /\ ifail \in 0..4
      /\ delsgn \in {-1, 0, 1} /\ call \in 0..Calls
  BY DdeabmNumbers
<1>3. /\ Longest \in Nat /\ Gap \in Nat /\ Bound \in Nat /\ Longest <= Bound /\ Gap <= Bound
      /\ Longest >= 1 /\ Gap >= 1
  BY BoundOfSteps
<1>4. to \in Nat /\ Targets \subseteq Nat /\ Stops \subseteq Nat /\ Calls \in Nat
  BY DEF MultistepAssumption
<1>5. has_tstop' \in BOOLEAN /\ tstop' \in Int
  <2>1. CASE stop = {}
    <3>1. UNCHANGED <<has_tstop, tstop>>
      BY <1>1, <2>1, Zenon DEF Ddeabm!SetStop
    <3>2. has_tstop \in BOOLEAN
      BY DEF DdeabmInv, Ddeabm!TypeOK
    <3> QED BY <1>2, <3>1, <3>2
  <2>2. CASE stop # {}
    <3>1. has_tstop' = TRUE /\ tstop' \in stop
      BY <1>1, <2>2, Zenon DEF Ddeabm!SetStop
    <3>2. tstop' \in Stops
      BY <2>2, <3>1
    <3> QED BY <1>4, <3>1, <3>2
  <2> QED BY <2>1, <2>2
<1>6. /\ start' \in BOOLEAN /\ call' \in 0..Calls /\ target' \in Nat /\ ksteps' \in Nat /\ ifail' \in 0..4
  <2>1. start' \in BOOLEAN
    BY <1>1 DEF DdeabmInv, Ddeabm!TypeOK
  <2> QED BY <1>1, <1>2, <1>4, <2>1
<1>7. ASSUME pc' \in {"idle", "head"}, init' \in 0..2, x' \in Int, h' \in Int, Ddeabm!Abs(h') <= Bound,
             delsgn' \in {-1, 0, 1}, how' \in {"none", "initial"}, status' \in {"OK", "DOMAIN_ERROR"}
      PROVE  Ddeabm!TypeOK'
  <2>1. {t', x', xold', tstop', h'} \subseteq Int
    BY <1>1, <1>2, <1>5, <1>7
  <2>2. /\ pc' \in {"idle", "head", "trial"}
        /\ how' \in {"none", "initial", "mesh", "interpolated", "extrapolated"}
        /\ status' \in {"OK", "DOMAIN_ERROR", "CONVERGENCE_ERROR"}
    BY <1>7, Zenon
  <2> QED BY <1>5, <1>6, <1>7, <2>1, <2>2, Zenon DEF Ddeabm!TypeOK, Ddeabm!Abs, Bound
<1>8. ASSUME UNCHANGED <<pc, x, h, delsgn>>, init' = init \/ (init = 0 /\ init' = 1),
             how' \in {"none", "initial"}, status' \in {"OK", "DOMAIN_ERROR"}
      PROVE  DdeabmInv'
  <2>1. Ddeabm!TypeOK'
    <3>1. pc' \in {"idle", "head"}
      BY <1>1, <1>8, Zenon
    <3>2. init' \in 0..2 /\ x' \in Int /\ h' \in Int /\ Ddeabm!Abs(h') <= Bound /\ delsgn' \in {-1, 0, 1}
      BY <1>2, <1>8
    <3> QED BY <1>7, <1>8, <3>1, <3>2
  <2>2. pc' = "idle"
    BY <1>1, <1>8
  <2>3. DdeabmPlaces'
    <3>1. init' < 2 => init < 2
      BY <1>2, <1>8
    <3>2. init' = 2 => init = 2
      BY <1>2, <1>8
    <3>3. init < 2 => x = t /\ xold = t
      BY DEF DdeabmInv, DdeabmPlaces
    <3>4. init = 2 => /\ delsgn \in {-1, 1} /\ Fwd(0, h) > 0 /\ Fwd(xold, x) >= 0 /\ Fwd(xold, t) >= 0
      BY <1>1 DEF DdeabmInv, DdeabmPlaces
    <3>5. init' = 2 => /\ delsgn' \in {-1, 1} /\ Fwd(0, h)' > 0 /\ Fwd(xold, x)' >= 0
                      /\ Fwd(xold, t)' >= 0
      BY <1>1, <1>8, <3>2, <3>4, Zenon DEF Fwd
    <3> QED BY <1>1, <1>8, <2>2, <3>1, <3>3, <3>5 DEF DdeabmPlaces
  <2> QED BY <2>1, <2>3 DEF DdeabmInv
<1>9. ASSUME ~Ddeabm!Refused(to), t # to, pc' = "head", init' = 2, status' = "OK", how' = "none",
             IF init = 2 THEN UNCHANGED <<x, h, delsgn>>
             ELSE /\ x' = t /\ delsgn' = Ddeabm!Sign(to - t)
                  /\ h' = Ddeabm!Sign(to - t)
                            * Ddeabm!Min({Longest, Ddeabm!Max({Gap, Ddeabm!Abs(to - t)})})
      PROVE  DdeabmInv'
  <2>1. /\ delsgn' \in {-1, 1} /\ Fwd(t, to)' > 0 /\ x' \in Int /\ h' \in Int /\ Ddeabm!Abs(h') <= Bound
        /\ Fwd(0, h)' > 0 /\ Fwd(xold, x)' >= 0 /\ Fwd(xold, t)' >= 0
    <3>1. CASE init = 2
      <4>1. /\ delsgn \in {-1, 1} /\ Fwd(0, h) > 0 /\ Fwd(xold, x) >= 0 /\ Fwd(xold, t) >= 0
        BY <1>1, <3>1 DEF DdeabmInv, DdeabmPlaces
      <4>2. UNCHANGED <<x, h, delsgn>>
        BY <1>9, <3>1
      <4>3. Fwd(t, to) > 0
        <5>1. ~(delsgn * (to - t) < 0)
          BY <1>9, <3>1 DEF Ddeabm!Refused
        <5>2. CASE delsgn = 1
          BY <1>2, <1>4, <1>9, <5>1, <5>2 DEF Fwd
        <5>3. CASE delsgn = -1
          BY <1>2, <1>4, <1>9, <5>1, <5>3 DEF Fwd
        <5> QED BY <4>1, <5>2, <5>3
      <4> QED BY <1>1, <1>2, <4>1, <4>2, <4>3, Zenon DEF Fwd
    <3>2. CASE init # 2
      <4>1. x = t /\ xold = t
        BY <1>2, <3>2 DEF DdeabmInv, DdeabmPlaces
      <4>2. PICK a \in Int : a = Ddeabm!Abs(to - t)
        <5>1. Ddeabm!Abs(to - t) \in Int
          BY <1>2, <1>4 DEF Ddeabm!Abs
        <5> QED BY <5>1
      <4>3. PICK b \in Int : b = Ddeabm!Max({Gap, a}) /\ b >= Gap
        <5>1. Gap \in Int
          BY <1>3
        <5>2. Ddeabm!Max({Gap, a}) = IF Gap >= a THEN Gap ELSE a
          BY <5>1, MinMaxOfTwo
        <5> QED BY <5>1, <5>2
      <4>4. PICK n \in Int : n = Ddeabm!Min({Longest, b}) /\ n >= 1 /\ n <= Longest
        <5>1. Longest \in Int /\ b >= 1
          BY <1>3, <4>3
        <5> QED BY <1>3, <5>1, MinMaxOfTwo
      <4>5. h' = Ddeabm!Sign(to - t) * n /\ x' = t /\ delsgn' = Ddeabm!Sign(to - t)
        BY <1>9, <3>2, <4>2, <4>3, <4>4
      <4>6. /\ h' = (IF to - t < 0 THEN 0 - n ELSE n) /\ Ddeabm!Abs(h') = n
        <5>1. to - t \in Int /\ n >= 0
          BY <1>2, <1>4, <4>4
        <5> QED BY <4>5, <5>1, SignedLength
      <4>7. delsgn' \in {-1, 1} /\ Fwd(t, to)' > 0 /\ Fwd(0, h)' > 0
        BY <1>1, <1>2, <1>4, <1>9, <4>4, <4>5, <4>6 DEF Fwd, Ddeabm!Sign
      <4>8. Fwd(xold, x)' = 0 /\ Fwd(xold, t)' = 0
        BY <1>1, <1>2, <4>1, <4>5 DEF Fwd
      <4>9. x' \in Int /\ h' \in Int /\ Ddeabm!Abs(h') <= Bound
        BY <1>2, <1>3, <4>4, <4>5, <4>6
      <4> QED BY <1>3, <4>1, <4>7, <4>8, <4>9
    <3> QED BY <3>1, <3>2
  <2>2. has_tstop' => Fwd(target, tstop)' >= 0
    <3> SUFFICES ASSUME has_tstop' PROVE Fwd(target, tstop)' >= 0
      OBVIOUS
    <3>1. /\ Ddeabm!Sign(to - t) = Ddeabm!Sign(tstop' - t)
          /\ ~(Ddeabm!Abs(to - t) > Ddeabm!Abs(tstop' - t))
      BY <1>9 DEF Ddeabm!Refused, Ddeabm!Conflict
    <3>2. PICK a \in Int : a = tstop'
      BY <1>5
    <3>3. CASE to < t
      <4>1. to - t < 0 /\ to - t \in Int /\ a - t \in Int
        BY <1>2, <1>4, <3>2, <3>3
      <4>2. a - t < 0
        BY <3>1, <3>2, <4>1 DEF Ddeabm!Sign
      <4>3. a <= to
        BY <1>2, <1>4, <3>1, <3>2, <4>1, <4>2 DEF Ddeabm!Abs
      <4>4. delsgn' = -1
        BY <1>1, <1>2, <1>4, <2>1, <3>3 DEF Fwd
      <4>5. Fwd(target, tstop)' = to - a
        BY <1>1, <3>2, <4>4, Zenon DEF Fwd
      <4> QED BY <1>4, <4>3, <4>5
    <3>4. CASE to > t
      <4>1. ~(to - t < 0) /\ to - t \in Int /\ a - t \in Int
        BY <1>2, <1>4, <3>2, <3>4
      <4>2. ~(a - t < 0)
        BY <3>1, <3>2, <4>1 DEF Ddeabm!Sign
      <4>3. to <= a
        <5>1. Ddeabm!Abs(to - t) = to - t /\ Ddeabm!Abs(a - t) = a - t
          BY <4>1, <4>2 DEF Ddeabm!Abs
        <5>2. ~(to - t > a - t)
          BY <3>1, <3>2, <5>1
        <5> QED BY <1>2, <1>4, <5>2
      <4>4. delsgn' # -1
        BY <1>1, <1>2, <1>4, <2>1, <3>4 DEF Fwd
      <4> QED BY <1>1, <1>4, <3>2, <4>3, <4>4 DEF Fwd
    <3> QED BY <1>2, <1>4, <1>9, <3>3, <3>4
  <2>3. Fwd(xold, target)' >= 0 /\ Fwd(t, target)' > 0
    BY <1>1, <1>2, <1>4, <2>1 DEF Fwd
  <2>4. Ddeabm!TypeOK'
    <3>1. init' \in 0..2 /\ delsgn' \in {-1, 0, 1}
      BY <1>9, <2>1
    <3>2. pc' \in {"idle", "head"} /\ how' \in {"none", "initial"} /\ status' \in {"OK", "DOMAIN_ERROR"}
      BY <1>9, Zenon
    <3> QED BY <1>7, <2>1, <3>1, <3>2
  <2>5. pc' # "idle" /\ pc' # "trial" /\ ~(init' < 2)
    BY <1>9
  <2>6. DdeabmPlaces'
    BY <1>1, <2>1, <2>2, <2>3, <2>5 DEF DdeabmPlaces
  <2> QED BY <2>4, <2>6 DEF DdeabmInv
<1>10. \/ /\ UNCHANGED <<pc, x, h, delsgn>> /\ (init' = init \/ (init = 0 /\ init' = 1))
          /\ how' \in {"none", "initial"} /\ status' \in {"OK", "DOMAIN_ERROR"}
       \/ /\ ~Ddeabm!Refused(to) /\ t # to /\ pc' = "head" /\ init' = 2 /\ status' = "OK" /\ how' = "none"
          /\ IF init = 2 THEN UNCHANGED <<x, h, delsgn>>
             ELSE /\ x' = t /\ delsgn' = Ddeabm!Sign(to - t)
                  /\ h' = Ddeabm!Sign(to - t)
                            * Ddeabm!Min({Longest, Ddeabm!Max({Gap, Ddeabm!Abs(to - t)})})
  BY Zenon DEF Ddeabm!Call
<1> QED BY <1>8, <1>9, <1>10

\* What holds in the loop, and stays when a call leaves it.
LEMMA InTheLoop ==
  ASSUME MultistepAssumption, DdeabmInv, pc # "idle"
  PROVE  /\ init = 2 /\ delsgn \in {-1, 1} /\ Fwd(0, h) > 0 /\ Fwd(xold, x) >= 0
         /\ Fwd(t, target) > 0 /\ Fwd(xold, target) >= 0
         /\ (has_tstop => Fwd(target, tstop) >= 0)
<1>1. init \in 0..2 /\ ~(init < 2)
  BY DdeabmNumbers DEF DdeabmInv, DdeabmPlaces
<1>2. init = 2
  BY <1>1
<1> QED BY <1>2 DEF DdeabmInv, DdeabmPlaces

\* A mesh that has not passed the point asked for ends before it; one that has
\* ends beyond it, or the point reported last is ahead of the mesh, and the one
\* asked for then at most twice as far.
LEMMA PassedIsBeyond ==
  ASSUME MultistepAssumption, DdeabmInv, pc # "idle"
  PROVE  /\ Ddeabm!Passed => \/ Fwd(target, x) >= 0
                             \/ /\ (t - x) * delsgn > 0
                                /\ Ddeabm!Abs(target - x) <= 2 * Ddeabm!Abs(t - x)
         /\ ~Ddeabm!Passed => Fwd(x, target) > 0
<1>1. t \in Int /\ x \in Int /\ target \in Int
  BY DdeabmNumbers
<1>2. delsgn \in {-1, 1} /\ Fwd(t, target) > 0
  BY InTheLoop
<1>3. PICK d \in Int, e \in Int : d = x - t /\ e = target - t
  BY <1>1
<1>4. target - x = e - d /\ t - x = 0 - d
  BY <1>1, <1>3
<1>5. Ddeabm!Passed <=> Ddeabm!Abs(d) >= Ddeabm!Abs(e)
  BY <1>3, Zenon DEF Ddeabm!Passed
<1>6. CASE delsgn = 1
  <2>1. e > 0 /\ Fwd(target, x) = d - e /\ Fwd(x, target) = e - d
    BY <1>1, <1>2, <1>3, <1>6 DEF Fwd
  <2>2. /\ (Ddeabm!Abs(d) >= Ddeabm!Abs(e)) => d - e >= 0 \/ (0 - d > 0 /\ Ddeabm!Abs(e - d) <= 2 * Ddeabm!Abs(0 - d))
        /\ ~(Ddeabm!Abs(d) >= Ddeabm!Abs(e)) => e - d > 0
    BY <2>1 DEF Ddeabm!Abs
  <2>3. (t - x) * delsgn = 0 - d
    BY <1>1, <1>3, <1>6
  <2> QED BY <1>4, <1>5, <2>1, <2>2, <2>3, Zenon
<1>7. CASE delsgn = -1
  <2>1. e < 0 /\ Fwd(target, x) = e - d /\ Fwd(x, target) = d - e
    BY <1>1, <1>2, <1>3, <1>7 DEF Fwd
  <2>2. /\ (Ddeabm!Abs(d) >= Ddeabm!Abs(e)) => e - d >= 0 \/ (d > 0 /\ Ddeabm!Abs(e - d) <= 2 * Ddeabm!Abs(0 - d))
        /\ ~(Ddeabm!Abs(d) >= Ddeabm!Abs(e)) => d - e > 0
    BY <2>1 DEF Ddeabm!Abs
  <2>3. (t - x) * delsgn = d
    BY <1>1, <1>3, <1>7
  <2> QED BY <1>4, <1>5, <2>1, <2>2, <2>3, Zenon
<1> QED BY <1>2, <1>6, <1>7

\* A step cut to the distance of tstop does not pass it.
LEMMA CutStaysBefore ==
  ASSUME NEW a \in Int, NEW n \in Int, NEW b \in Int, delsgn \in {-1, 1}, Fwd(0, n) > 0, Fwd(a, b) >= 0,
         Ddeabm!Abs(n) <= Ddeabm!Abs(b - a)
  PROVE  Ddeabm!Between(a, a + n, b)
<1>1. CASE delsgn = 1
  <2>1. Ddeabm!Abs(n) = n /\ Ddeabm!Abs(b - a) = b - a /\ n > 0
    BY <1>1 DEF Fwd, Ddeabm!Abs
  <2> QED BY <2>1 DEF Ddeabm!Between
<1>2. CASE delsgn = -1
  <2>1. Ddeabm!Abs(n) = 0 - n /\ Ddeabm!Abs(b - a) = a - b /\ n < 0
    BY <1>2 DEF Fwd, Ddeabm!Abs
  <2> QED BY <2>1 DEF Ddeabm!Between
<1> QED BY <1>1, <1>2

\* What a step of the loop leaves to be shown of the types.
LEMMA LoopTypes ==
  ASSUME MultistepAssumption, DdeabmInv, UNCHANGED Ddeabm!setup, start' \in BOOLEAN,
         pc' \in {"idle", "head", "trial"}, t' \in Int, x' \in Int, xold' \in Int, h' \in Int,
         Ddeabm!Abs(h') <= Bound, ksteps' \in Nat, ifail' \in 0..4,
         how' \in {"none", "initial", "mesh", "interpolated", "extrapolated"},
         status' \in {"OK", "DOMAIN_ERROR", "CONVERGENCE_ERROR"}
  PROVE  Ddeabm!TypeOK'
<1>1. /\ call' \in 0..Calls /\ target' \in Nat /\ init' \in 0..2 /\ delsgn' \in {-1, 0, 1}
      /\ has_tstop' \in BOOLEAN /\ tstop' = tstop
  BY Zenon DEF Ddeabm!setup, DdeabmInv, Ddeabm!TypeOK
<1>2. {t', x', xold', tstop', h'} \subseteq Int
  BY <1>1, DdeabmNumbers
<1> QED BY <1>1, <1>2, Zenon DEF Ddeabm!TypeOK, Ddeabm!Abs, Bound

\* The strings a step may set.
LEMMA LoopWords ==
  ASSUME DdeabmInv
  PROVE  /\ start \in BOOLEAN
         /\ how \in {"none", "initial", "mesh", "interpolated", "extrapolated"}
         /\ status \in {"OK", "DOMAIN_ERROR", "CONVERGENCE_ERROR"}
BY DEF DdeabmInv, Ddeabm!TypeOK

\* The call returns with the point asked for, interpolated or extrapolated.
LEMMA ReturnKeeps ==
  ASSUME MultistepAssumption, DdeabmInv, Ddeabm!Interpolate \/ Ddeabm!Extrapolate
  PROVE  DdeabmInv' /\ Ddeabm!InterpolatesInWindow
<1>1. /\ pc = "head" /\ pc' = "idle" /\ t' = target /\ status' = "OK"
      /\ UNCHANGED <<start, x, xold, h, ksteps, ifail>> /\ UNCHANGED Ddeabm!setup
      /\ \/ Ddeabm!Passed /\ how' = "interpolated"
         \/ ~Ddeabm!Passed /\ Ddeabm!AtStop /\ how' = "extrapolated"
  BY DEF Ddeabm!Interpolate, Ddeabm!Extrapolate, Ddeabm!Return
<1>2. UNCHANGED <<call, target, init, delsgn, has_tstop, tstop>>
  BY <1>1 DEF Ddeabm!setup
<1>3. pc # "idle"
  BY <1>1
<1>4. /\ t \in Int /\ x \in Int /\ xold \in Int /\ h \in Int /\ tstop \in Int /\ target \in Int
      /\ Ddeabm!Abs(h) <= Bound /\ ksteps \in Nat /\ ifail \in 0..4 /\ Gap \in Nat
  BY DdeabmNumbers, BoundOfSteps
<1>5. /\ init = 2 /\ delsgn \in {-1, 1} /\ Fwd(0, h) > 0 /\ Fwd(xold, x) >= 0
      /\ Fwd(t, target) > 0 /\ Fwd(xold, target) >= 0
      /\ (has_tstop => Fwd(target, tstop) >= 0)
  BY <1>3, InTheLoop
<1>6. Ddeabm!TypeOK'
  <2>1. /\ pc' \in {"idle", "head", "trial"} /\ start' \in BOOLEAN
        /\ how' \in {"none", "initial", "mesh", "interpolated", "extrapolated"}
        /\ status' \in {"OK", "DOMAIN_ERROR", "CONVERGENCE_ERROR"}
    BY <1>1, LoopWords, Zenon
  <2>2. t' \in Int /\ x' \in Int /\ xold' \in Int /\ h' \in Int /\ Ddeabm!Abs(h') <= Bound /\ ksteps' \in Nat
        /\ ifail' \in 0..4
    BY <1>1, <1>4
  <2> QED BY <1>1, <2>1, <2>2, LoopTypes
<1>7. DdeabmInv'
  <2>1. /\ Fwd(0, h)' > 0 /\ Fwd(xold, x)' >= 0 /\ Fwd(xold, t)' >= 0
    BY <1>1, <1>2, <1>5, Zenon DEF Fwd
  <2>2. DdeabmPlaces'
    BY <1>1, <1>2, <1>5, <2>1 DEF DdeabmPlaces
  <2> QED BY <1>6, <2>2 DEF DdeabmInv
<1>8. ASSUME how' = "interpolated"
      PROVE  \/ Ddeabm!Between(xold, target, x)
             \/ (t - x) * delsgn > 0 /\ Ddeabm!Abs(target - x) <= 2 * Ddeabm!Abs(t - x)
  <2>1. Ddeabm!Passed
    BY <1>1, <1>8
  <2>2. CASE Fwd(target, x) >= 0
    BY <1>4, <1>5, <2>2 DEF Fwd, Ddeabm!Between
  <2> QED BY <1>3, <2>1, <2>2, PassedIsBeyond, Zenon
<1>9. ASSUME how' = "extrapolated" PROVE Ddeabm!Abs(target - x) < Gap
  <2>1. ~Ddeabm!Passed /\ has_tstop /\ Ddeabm!Abs(tstop - x) < Gap
    BY <1>1, <1>9 DEF Ddeabm!AtStop
  <2>2. Fwd(x, target) > 0 /\ Fwd(target, tstop) >= 0
    BY <1>3, <1>5, <2>1, PassedIsBeyond
  <2>3. CASE delsgn = 1
    BY <1>4, <2>1, <2>2, <2>3 DEF Fwd, Ddeabm!Abs
  <2>4. CASE delsgn = -1
    BY <1>4, <2>1, <2>2, <2>4 DEF Fwd, Ddeabm!Abs
  <2> QED BY <1>5, <2>3, <2>4
<1> QED BY <1>1, <1>7, <1>8, <1>9, Zenon DEF Ddeabm!InterpolatesInWindow

\* The call gives up at the top of the mesh, with a step of the same direction.
LEMMA LeftAtTop ==
  ASSUME MultistepAssumption, DdeabmInv, pc # "idle", UNCHANGED Ddeabm!setup, UNCHANGED <<start, x>>,
         xold' \in {xold, x}, pc' = "idle", how' = "mesh", t' = x,
         status' \in {"OK", "DOMAIN_ERROR", "CONVERGENCE_ERROR"},
         h' \in Int, Ddeabm!Abs(h') <= Bound, NEW step, step = h', Fwd(0, step) > 0,
         ksteps' \in Nat, ifail' \in 0..4
  PROVE  DdeabmInv'
<1>1. UNCHANGED <<call, target, init, delsgn, has_tstop, tstop>>
  BY DEF Ddeabm!setup
<1>2. t \in Int /\ x \in Int /\ xold \in Int
  BY DdeabmNumbers
<1>3. /\ init = 2 /\ delsgn \in {-1, 1} /\ Fwd(xold, x) >= 0
  BY InTheLoop
<1>4. Ddeabm!TypeOK'
  <2>1. /\ pc' \in {"idle", "head", "trial"} /\ start' \in BOOLEAN
        /\ how' \in {"none", "initial", "mesh", "interpolated", "extrapolated"}
    BY LoopWords, Zenon
  <2>2. t' \in Int /\ x' \in Int /\ xold' \in Int
    BY <1>2
  <2> QED BY <2>1, <2>2, LoopTypes
<1>5. Fwd(0, h)' > 0
  BY <1>1, Zenon DEF Fwd
<1>6. Fwd(xold, x)' >= 0 /\ Fwd(xold, t)' >= 0
  <2>1. CASE xold' = xold
    BY <1>1, <1>3, <2>1, Zenon DEF Fwd
  <2>2. CASE xold' = x
    <3>1. Fwd(x, x) = 0
      BY <1>2 DEF Fwd
    <3>2. Fwd(xold, x)' = 0 /\ Fwd(xold, t)' = 0
      BY <1>1, <2>2, <3>1, Zenon DEF Fwd
    <3> QED BY <3>2
  <2> QED BY <2>1, <2>2
<1>7. DdeabmPlaces'
  BY <1>1, <1>3, <1>5, <1>6 DEF DdeabmPlaces
<1> QED BY <1>4, <1>7 DEF DdeabmInv

\* The ways a call ends at the head of the loop.
LEMMA GiveUpKeeps ==
  ASSUME MultistepAssumption, DdeabmInv, Ddeabm!Exhausted \/ Ddeabm!NoWeight \/ Ddeabm!Impossible
  PROVE  DdeabmInv'
<1>1. /\ pc = "head" /\ pc' = "idle" /\ how' = "mesh" /\ t' = x /\ ~Ddeabm!AtStop
      /\ status' \in {"OK", "DOMAIN_ERROR", "CONVERGENCE_ERROR"}
      /\ UNCHANGED <<start, x, xold, ksteps, ifail>> /\ UNCHANGED Ddeabm!setup
      /\ h' \in {h, Ddeabm!Clipped, Ddeabm!Sign(h) * Gap}
  BY DEF Ddeabm!Exhausted, Ddeabm!NoWeight, Ddeabm!Impossible, Ddeabm!GiveUp, Ddeabm!Return, Ddeabm!Ready
<1>2. pc # "idle"
  BY <1>1
<1>3. init = 2 /\ Fwd(0, h) > 0
  BY <1>2, InTheLoop
<1>4. h \in Int /\ Ddeabm!Abs(h) <= Bound /\ ksteps \in Nat /\ ifail \in 0..4 /\ Gap \in Nat /\ Gap >= 1 /\ Gap <= Bound
      /\ Bound \in Nat
  BY DdeabmNumbers, BoundOfSteps
<1>5. PICK step : step = h'
  OBVIOUS
<1>6. step \in Int /\ Ddeabm!Abs(step) <= Bound /\ Fwd(0, step) > 0
  <2>1. CASE step = h
    BY <1>3, <1>4, <2>1
  <2>2. CASE step = Ddeabm!Clipped
    <3>1. Ddeabm!Clipped \in Int /\ Fwd(0, Ddeabm!Clipped) > 0 /\ Ddeabm!Abs(Ddeabm!Clipped) <= Ddeabm!Abs(h)
      BY <1>1, <1>3, ClippedStep
    <3>2. Ddeabm!Abs(Ddeabm!Clipped) \in Int /\ Ddeabm!Abs(h) \in Int
      BY <1>4, <3>1 DEF Ddeabm!Abs
    <3> QED BY <1>4, <2>2, <3>1, <3>2
  <2>3. CASE step = Ddeabm!Sign(h) * Gap
    <3>1. Gap \in Int
      BY <1>4
    <3>2. /\ Ddeabm!Sign(h) * Gap \in Int /\ Ddeabm!Abs(Ddeabm!Sign(h) * Gap) = Gap
          /\ Fwd(0, Ddeabm!Sign(h) * Gap) = Gap
      BY <1>3, <1>4, <3>1, StepOfLength
    <3> QED BY <1>4, <2>3, <3>2
  <2> QED BY <1>1, <1>5, <2>1, <2>2, <2>3
<1>7. xold' \in {xold, x} /\ ksteps' \in Nat /\ ifail' \in 0..4 /\ UNCHANGED <<start, x>>
  BY <1>1, <1>4
<1> QED BY <1>1, <1>2, <1>5, <1>6, <1>7, LeftAtTop

\* A trial starts at the head of the loop before the point asked for, with a
\* step cut to tstop; only the first step has a least length beside it.
LEMMA BeginKeeps ==
  ASSUME MultistepAssumption, DdeabmInv, Ddeabm!Begin
  PROVE  /\ DdeabmInv'
         /\ has_tstop => Ddeabm!Between(x, x + h', tstop) \/ (start /\ Ddeabm!Abs(h') = Floor)
<1>1. /\ pc = "head" /\ ~Ddeabm!Passed /\ ~Ddeabm!AtStop /\ pc' = "trial" /\ ifail' = 0 /\ start' = FALSE
      /\ h' \in IF start THEN {Ddeabm!Sign(h) * Ddeabm!Max({Floor, s}) : s \in 1..Ddeabm!Abs(Ddeabm!Clipped)}
                ELSE {Ddeabm!Clipped}
      /\ UNCHANGED <<t, x, xold, ksteps, how, status>> /\ UNCHANGED Ddeabm!setup
  BY DEF Ddeabm!Begin, Ddeabm!Ready, Ddeabm!point
<1>2. UNCHANGED <<call, target, init, delsgn, has_tstop, tstop>>
  BY <1>1 DEF Ddeabm!setup
<1>3. pc # "idle"
  BY <1>1
<1>4. /\ t \in Int /\ x \in Int /\ xold \in Int /\ h \in Int /\ tstop \in Int /\ target \in Int
      /\ Ddeabm!Abs(h) <= Bound /\ Ddeabm!Abs(h) \in Int /\ ksteps \in Nat /\ ifail \in 0..4
      /\ Gap \in Nat /\ Gap >= 1 /\ Floor \in Nat /\ Floor >= 1 /\ Floor <= Bound /\ Bound \in Nat
  BY DdeabmNumbers, BoundOfSteps DEF Ddeabm!Abs
<1>5. /\ init = 2 /\ delsgn \in {-1, 1} /\ Fwd(0, h) > 0 /\ Fwd(xold, x) >= 0
      /\ Fwd(t, target) > 0 /\ Fwd(xold, target) >= 0
      /\ (has_tstop => Fwd(target, tstop) >= 0)
  BY <1>3, InTheLoop
<1>6. /\ Ddeabm!Clipped \in Int /\ Fwd(0, Ddeabm!Clipped) > 0
      /\ Ddeabm!Abs(Ddeabm!Clipped) <= Ddeabm!Abs(h)
      /\ has_tstop => Ddeabm!Abs(Ddeabm!Clipped) <= Ddeabm!Abs(tstop - x)
  BY <1>1, <1>5, ClippedStep
<1>7. Ddeabm!Abs(Ddeabm!Clipped) \in Int /\ Ddeabm!Abs(tstop - x) \in Int
  BY <1>4, <1>6 DEF Ddeabm!Abs
<1>8. PICK step : step = h'
  OBVIOUS
<1>9. /\ step \in Int /\ Ddeabm!Abs(step) <= Bound /\ Fwd(0, step) > 0
      /\ has_tstop => Ddeabm!Abs(step) <= Ddeabm!Abs(tstop - x) \/ (start /\ Ddeabm!Abs(step) = Floor)
  <2>1. CASE ~start
    <3>1. step = Ddeabm!Clipped
      BY <1>1, <1>8, <2>1
    <3> QED BY <1>4, <1>6, <1>7, <3>1
  <2>2. CASE start
    <3>1. PICK s \in 1..Ddeabm!Abs(Ddeabm!Clipped) : step = Ddeabm!Sign(h) * Ddeabm!Max({Floor, s})
      BY <1>1, <1>8, <2>2
    <3>2. s \in Int /\ s <= Ddeabm!Abs(Ddeabm!Clipped)
      BY <1>7
    <3>3. Ddeabm!Max({Floor, s}) = IF Floor >= s THEN Floor ELSE s
      <4>1. Floor \in Int
        BY <1>4
      <4> QED BY <3>2, <4>1, MinMaxOfTwo
    <3>4. PICK n \in Int : n = Ddeabm!Max({Floor, s}) /\ n >= 1 /\ (n = Floor \/ n = s)
      BY <1>4, <3>2, <3>3
    <3>5. /\ Ddeabm!Sign(h) * n \in Int /\ Ddeabm!Abs(Ddeabm!Sign(h) * n) = n
          /\ Fwd(0, Ddeabm!Sign(h) * n) = n
      BY <1>5, <3>4, StepOfLength
    <3>6. step = Ddeabm!Sign(h) * n
      BY <3>1, <3>4
    <3>7. n <= Bound
      BY <1>4, <1>6, <1>7, <3>2, <3>4
    <3>8. has_tstop => n <= Ddeabm!Abs(tstop - x) \/ n = Floor
      BY <1>4, <1>6, <1>7, <3>2, <3>4
    <3> QED BY <2>2, <3>4, <3>5, <3>6, <3>7, <3>8
  <2> QED BY <2>1, <2>2
<1>10. Ddeabm!TypeOK'
  <2>1. /\ pc' \in {"idle", "head", "trial"} /\ start' \in BOOLEAN
        /\ how' \in {"none", "initial", "mesh", "interpolated", "extrapolated"}
        /\ status' \in {"OK", "DOMAIN_ERROR", "CONVERGENCE_ERROR"}
    BY <1>1, LoopWords, Zenon
  <2>2. t' \in Int /\ x' \in Int /\ xold' \in Int /\ h' \in Int /\ Ddeabm!Abs(h') <= Bound /\ ksteps' \in Nat
        /\ ifail' \in 0..4
    BY <1>1, <1>4, <1>8, <1>9
  <2> QED BY <1>1, <2>1, <2>2, LoopTypes
<1>11. Fwd(x, target) > 0
  BY <1>1, <1>3, PassedIsBeyond
<1>12. DdeabmPlaces'
  <2>1. has_tstop => Ddeabm!Abs(step) <= Ddeabm!Abs(tstop - x) \/ Ddeabm!Abs(step) <= Floor
    <3>1. Ddeabm!Abs(step) \in Int
      BY <1>9 DEF Ddeabm!Abs
    <3> QED BY <1>4, <1>9, <3>1
  <2>2. /\ Fwd(0, h)' > 0
        /\ (has_tstop' => Ddeabm!Abs(h') <= Ddeabm!Abs(tstop' - x') \/ Ddeabm!Abs(h') <= Floor)
    BY <1>1, <1>2, <1>8, <1>9, <2>1, Zenon DEF Fwd
  <2>3. /\ Fwd(xold, x)' >= 0 /\ Fwd(t, target)' > 0 /\ Fwd(xold, target)' >= 0 /\ Fwd(x, target)' > 0
        /\ (has_tstop' => Fwd(target, tstop)' >= 0)
    BY <1>1, <1>2, <1>5, <1>11, Zenon DEF Fwd
  <2>4. pc' # "idle" /\ ~(init' < 2) /\ delsgn' \in {-1, 1} /\ ~start'
    BY <1>1, <1>2, <1>5
  <2> QED BY <2>2, <2>3, <2>4 DEF DdeabmPlaces, Ddeabm!Abs
<1>13. has_tstop => Ddeabm!Between(x, x + step, tstop) \/ (start /\ Ddeabm!Abs(step) = Floor)
  <2> SUFFICES ASSUME has_tstop, Ddeabm!Abs(step) <= Ddeabm!Abs(tstop - x)
               PROVE  Ddeabm!Between(x, x + step, tstop)
    BY <1>9
  <2>1. Fwd(x, tstop) >= 0
    BY <1>4, <1>5, <1>11 DEF Fwd
  <2> QED BY <1>4, <1>5, <1>9, <2>1, CutStaysBefore
<1> QED BY <1>8, <1>10, <1>12, <1>13 DEF DdeabmInv, Ddeabm!Abs

\* A trial that fails is repeated with a shorter step, unless that is below
\* roundoff.
LEMMA RejectKeeps ==
  ASSUME MultistepAssumption, DdeabmInv, Ddeabm!Reject PROVE DdeabmInv'
<1>1. /\ pc = "trial" /\ ksteps' = ksteps + 1 /\ ifail' = Ddeabm!Min({4, ifail + 1}) /\ xold' = x
      /\ UNCHANGED <<start, x>> /\ UNCHANGED Ddeabm!setup
  BY DEF Ddeabm!Reject
<1>2. PICK s \in 0..Ddeabm!Abs(h) \div 2 :
        /\ h' = Ddeabm!Sign(h) * Ddeabm!Max({Gap, s})
        /\ IF s >= Gap THEN UNCHANGED <<pc, t, how, status>> ELSE Ddeabm!GiveUp("CONVERGENCE_ERROR")
  BY DEF Ddeabm!Reject
<1>3. UNCHANGED <<call, target, init, delsgn, has_tstop, tstop>>
  BY <1>1 DEF Ddeabm!setup
<1>4. pc # "idle"
  BY <1>1
<1>5. /\ t \in Int /\ x \in Int /\ xold \in Int /\ h \in Int /\ tstop \in Int /\ target \in Int
      /\ Ddeabm!Abs(h) <= Bound /\ Ddeabm!Abs(h) \in Nat /\ ksteps \in Nat /\ ifail \in 0..4
      /\ Gap \in Nat /\ Gap >= 1 /\ Gap <= Bound /\ Bound \in Nat /\ Floor \in Nat
  BY DdeabmNumbers, BoundOfSteps DEF Ddeabm!Abs
<1>6. /\ init = 2 /\ delsgn \in {-1, 1} /\ Fwd(0, h) > 0 /\ Fwd(xold, x) >= 0
      /\ Fwd(t, target) > 0 /\ Fwd(xold, target) >= 0
      /\ (has_tstop => Fwd(target, tstop) >= 0)
  BY <1>4, InTheLoop
<1>7. /\ Fwd(x, target) > 0
      /\ (has_tstop => Ddeabm!Abs(h) <= Ddeabm!Abs(tstop - x) \/ Ddeabm!Abs(h) <= Floor)
  BY <1>1, <1>6 DEF DdeabmInv, DdeabmPlaces
<1>8. s \in Nat /\ s <= Ddeabm!Abs(h)
  BY <1>5
<1>9. Ddeabm!Max({Gap, s}) = IF Gap >= s THEN Gap ELSE s
  <2>1. Gap \in Int /\ s \in Int
    BY <1>5, <1>8
  <2> QED BY <2>1, MinMaxOfTwo
<1>10. PICK n \in Int : n = Ddeabm!Max({Gap, s}) /\ n >= 1 /\ n <= Bound /\ (s >= Gap => n = s)
  BY <1>5, <1>8, <1>9
<1>11. PICK step : step = h'
  OBVIOUS
<1>12. step \in Int /\ Ddeabm!Abs(step) = n /\ Fwd(0, step) > 0
  <2>1. /\ Ddeabm!Sign(h) * n \in Int /\ Ddeabm!Abs(Ddeabm!Sign(h) * n) = n
        /\ Fwd(0, Ddeabm!Sign(h) * n) = n
    BY <1>6, <1>10, StepOfLength
  <2>2. step = Ddeabm!Sign(h) * n
    BY <1>2, <1>10, <1>11
  <2> QED BY <1>10, <2>1, <2>2
<1>13. ksteps' \in Nat /\ ifail' \in 0..4
  <2>1. Ddeabm!Min({4, ifail + 1}) = IF 4 <= ifail + 1 THEN 4 ELSE ifail + 1
    BY <1>5, MinMaxOfTwo
  <2> QED BY <1>1, <1>5, <2>1
<1>14. CASE s >= Gap
  <2>1. UNCHANGED <<pc, t, how, status>>
    BY <1>2, <1>14
  <2>2. Ddeabm!TypeOK'
    <3>1. /\ pc' \in {"idle", "head", "trial"} /\ start' \in BOOLEAN
          /\ how' \in {"none", "initial", "mesh", "interpolated", "extrapolated"}
          /\ status' \in {"OK", "DOMAIN_ERROR", "CONVERGENCE_ERROR"}
      BY <1>1, <2>1, LoopWords, Zenon
    <3>2. t' \in Int /\ x' \in Int /\ xold' \in Int /\ h' \in Int /\ Ddeabm!Abs(h') <= Bound
      BY <1>1, <1>5, <1>10, <1>11, <1>12, <2>1
    <3> QED BY <1>1, <1>13, <3>1, <3>2, LoopTypes
  <2>3. has_tstop => Ddeabm!Abs(step) <= Ddeabm!Abs(tstop - x) \/ Ddeabm!Abs(step) <= Floor
    <3>1. Ddeabm!Abs(tstop - x) \in Int
      BY <1>5 DEF Ddeabm!Abs
    <3> QED BY <1>5, <1>7, <1>8, <1>10, <1>12, <1>14, <3>1
  <2>4. DdeabmPlaces'
    <3>1. /\ Fwd(0, h)' > 0
          /\ (has_tstop' => Ddeabm!Abs(h') <= Ddeabm!Abs(tstop' - x') \/ Ddeabm!Abs(h') <= Floor)
      BY <1>1, <1>3, <1>11, <1>12, <2>3, Zenon DEF Fwd
    <3>2. /\ Fwd(t, target)' > 0 /\ Fwd(x, target)' > 0
          /\ (has_tstop' => Fwd(target, tstop)' >= 0)
      BY <1>1, <1>3, <1>6, <1>7, <2>1, Zenon DEF Fwd
    <3>3. Fwd(xold, x)' >= 0 /\ Fwd(xold, target)' >= 0
      <4>1. Fwd(x, x) = 0 /\ Fwd(x, target) >= 0
        BY <1>5, <1>7 DEF Fwd
      <4>2. Fwd(xold, x)' = Fwd(x, x) /\ Fwd(xold, target)' = Fwd(x, target)
        BY <1>1, <1>3, Zenon DEF Fwd
      <4> QED BY <4>1, <4>2
    <3>4. pc' # "idle" /\ ~(init' < 2) /\ delsgn' \in {-1, 1} /\ ~start'
      <4>1. ~start
        BY <1>1, <1>6 DEF DdeabmInv, DdeabmPlaces
      <4> QED BY <1>1, <1>3, <1>6, <2>1, <4>1
    <3> QED BY <3>1, <3>2, <3>3, <3>4 DEF DdeabmPlaces, Ddeabm!Abs
  <2> QED BY <2>2, <2>4 DEF DdeabmInv
<1>15. CASE ~(s >= Gap)
  <2>1. pc' = "idle" /\ status' = "CONVERGENCE_ERROR" /\ how' = "mesh" /\ t' = x
    BY <1>2, <1>15 DEF Ddeabm!GiveUp, Ddeabm!Return
  <2>2. /\ xold' \in {xold, x} /\ status' \in {"OK", "DOMAIN_ERROR", "CONVERGENCE_ERROR"}
        /\ UNCHANGED <<start, x>>
    BY <1>1, <2>1
  <2>3. h' \in Int /\ Ddeabm!Abs(h') <= Bound
    BY <1>10, <1>11, <1>12
  <2> QED BY <1>1, <1>4, <1>11, <1>12, <1>13, <2>1, <2>2, <2>3, LeftAtTop
<1> QED BY <1>14, <1>15

\* A step taken goes to its end, not beyond tstop unless it is as short as a
\* first step may be; the next is at least a unit.
LEMMA AcceptStep ==
  ASSUME MultistepAssumption, DdeabmInv, Ddeabm!Accept
  PROVE  /\ DdeabmInv'
         /\ has_tstop => Ddeabm!Between(x, x', tstop) \/ Ddeabm!Abs(x' - x) <= Floor
<1>1. /\ pc = "trial" /\ ksteps' = ksteps + 1 /\ xold' = x /\ x' = x + h /\ pc' = "head" /\ ifail' = 0
      /\ UNCHANGED <<start, t, how, status>> /\ UNCHANGED Ddeabm!setup
  BY DEF Ddeabm!Accept
<1>2. PICK s \in Ddeabm!NextSizes(Ddeabm!Abs(h)) : h' = Ddeabm!Sign(h) * s
  BY DEF Ddeabm!Accept
<1>3. UNCHANGED <<call, target, init, delsgn, has_tstop, tstop>>
  BY <1>1 DEF Ddeabm!setup
<1>4. pc # "idle"
  BY <1>1
<1>5. /\ t \in Int /\ x \in Int /\ xold \in Int /\ h \in Int /\ tstop \in Int /\ target \in Int
      /\ Ddeabm!Abs(h) <= Bound /\ Ddeabm!Abs(h) \in Nat /\ ksteps \in Nat
      /\ Gap \in Nat /\ Gap >= 1 /\ Gap <= Bound /\ Bound \in Nat /\ Longest \in Nat /\ Longest >= 1 /\ Longest <= Bound
  BY DdeabmNumbers, BoundOfSteps DEF Ddeabm!Abs
<1>6. /\ init = 2 /\ delsgn \in {-1, 1} /\ Fwd(0, h) > 0 /\ Fwd(xold, x) >= 0
      /\ Fwd(t, target) > 0 /\ Fwd(xold, target) >= 0
      /\ (has_tstop => Fwd(target, tstop) >= 0)
  BY <1>4, InTheLoop
<1>7. /\ Fwd(x, target) > 0
      /\ (has_tstop => Ddeabm!Abs(h) <= Ddeabm!Abs(tstop - x) \/ Ddeabm!Abs(h) <= Floor)
  BY <1>1, <1>6 DEF DdeabmInv, DdeabmPlaces
<1>8. s \in Int /\ s >= 1 /\ s <= Bound
  <2>1. PICK a \in Nat : a = Ddeabm!Abs(h) /\ a >= 1 /\ a <= Bound
    <3>1. Ddeabm!Abs(h) >= 1
      BY <1>5, <1>6 DEF Fwd, Ddeabm!Abs
    <3> QED BY <1>5, <3>1
  <2>2. \/ s = Ddeabm!Min({Longest, 2 * a}) \/ s = a
        \/ \E r \in (a + 1) \div 2..(9 * a) \div 10 : s = Ddeabm!Max({Gap, r})
    BY <2>1 DEF Ddeabm!NextSizes
  <2>3. Ddeabm!Min({Longest, 2 * a}) = IF Longest <= 2 * a THEN Longest ELSE 2 * a
    BY <1>5, MinMaxOfTwo
  <2>4. ASSUME NEW r \in (a + 1) \div 2..(9 * a) \div 10, s = Ddeabm!Max({Gap, r})
        PROVE  s \in Int /\ s >= 1 /\ s <= Bound
    <3>1. r \in Int /\ r <= a
      BY <2>1
    <3>2. Ddeabm!Max({Gap, r}) = IF Gap >= r THEN Gap ELSE r
      <4>1. Gap \in Int /\ r \in Int
        BY <1>5, <3>1
      <4> QED BY <4>1, MinMaxOfTwo
    <3> QED BY <1>5, <2>1, <2>4, <3>1, <3>2
  <2>5. CASE s = Ddeabm!Min({Longest, 2 * a})
    BY <1>5, <2>1, <2>3, <2>5
  <2>6. CASE s = a
    BY <1>5, <2>1, <2>6
  <2> QED BY <2>2, <2>4, <2>5, <2>6
<1>9. PICK step : step = h'
  OBVIOUS
<1>10. step \in Int /\ Ddeabm!Abs(step) = s /\ Fwd(0, step) > 0
  <2>1. /\ Ddeabm!Sign(h) * s \in Int /\ Ddeabm!Abs(Ddeabm!Sign(h) * s) = s
        /\ Fwd(0, Ddeabm!Sign(h) * s) = s
    BY <1>6, <1>8, StepOfLength
  <2>2. step = Ddeabm!Sign(h) * s
    BY <1>2, <1>9
  <2> QED BY <1>8, <2>1, <2>2
<1>11. Ddeabm!TypeOK'
  <2>1. /\ pc' \in {"idle", "head", "trial"} /\ start' \in BOOLEAN
        /\ how' \in {"none", "initial", "mesh", "interpolated", "extrapolated"}
        /\ status' \in {"OK", "DOMAIN_ERROR", "CONVERGENCE_ERROR"}
    BY <1>1, LoopWords, Zenon
  <2>2. t' \in Int /\ x' \in Int /\ xold' \in Int /\ h' \in Int /\ Ddeabm!Abs(h') <= Bound /\ ksteps' \in Nat
        /\ ifail' \in 0..4
    BY <1>1, <1>5, <1>8, <1>9, <1>10
  <2> QED BY <1>1, <2>1, <2>2, LoopTypes
<1>12. ~start
  BY <1>1, <1>6 DEF DdeabmInv, DdeabmPlaces
<1>13. DdeabmPlaces'
  <2>1. PICK top \in Int : top = x + h
    BY <1>5
  <2>2. Fwd(x, top) >= 0 /\ Fwd(x, target) >= 0
    BY <1>5, <1>6, <1>7, <2>1 DEF Fwd
  <2>3. /\ Fwd(0, h)' > 0 /\ Fwd(xold, x)' >= 0 /\ Fwd(t, target)' > 0 /\ Fwd(xold, target)' >= 0
        /\ (has_tstop' => Fwd(target, tstop)' >= 0)
    BY <1>1, <1>3, <1>6, <1>9, <1>10, <2>1, <2>2, Zenon DEF Fwd
  <2>4. pc' # "idle" /\ pc' # "trial" /\ ~(init' < 2) /\ delsgn' \in {-1, 1} /\ ~start'
    BY <1>1, <1>3, <1>6, <1>12
  <2> QED BY <2>3, <2>4 DEF DdeabmPlaces
<1>14. has_tstop => Ddeabm!Between(x, x', tstop) \/ Ddeabm!Abs(x' - x) <= Floor
  <2>1. x' - x = h
    BY <1>1, <1>5
  <2>2. ASSUME has_tstop, Ddeabm!Abs(h) <= Ddeabm!Abs(tstop - x) PROVE Ddeabm!Between(x, x + h, tstop)
    <3>1. Fwd(x, tstop) >= 0
      BY <1>5, <1>6, <1>7, <2>2 DEF Fwd
    <3> QED BY <1>5, <1>6, <2>2, <3>1, CutStaysBefore
  <2> QED BY <1>1, <1>7, <2>1, <2>2, Zenon
<1> QED BY <1>11, <1>13, <1>14 DEF DdeabmInv

\* A step of something else.
LEMMA DdeabmIdles ==
  ASSUME MultistepAssumption, DdeabmInv, UNCHANGED Ddeabm!vars
  PROVE  DdeabmInv'
<1>1. UNCHANGED <<pc, call, target, init, delsgn, has_tstop, tstop, start, t, x, xold, h, ksteps, ifail, how, status>>
  BY DEF Ddeabm!vars, Ddeabm!setup, Ddeabm!point
<1>2. Ddeabm!TypeOK'
  <2>1. /\ {t', x', xold', tstop', h'} \subseteq Int /\ Ddeabm!Abs(h') <= Ddeabm!Max({Longest, Floor, Gap})
    BY <1>1, Zenon DEF DdeabmInv, Ddeabm!TypeOK
  <2>2. /\ pc' \in {"idle", "head", "trial"}
        /\ call' \in 0..Calls /\ target' \in Nat /\ init' \in 0..2 /\ start' \in BOOLEAN
        /\ delsgn' \in {-1, 0, 1} /\ has_tstop' \in BOOLEAN
        /\ ksteps' \in Nat /\ ifail' \in 0..4
        /\ how' \in {"none", "initial", "mesh", "interpolated", "extrapolated"}
        /\ status' \in {"OK", "DOMAIN_ERROR", "CONVERGENCE_ERROR"}
    BY <1>1, Zenon DEF DdeabmInv, Ddeabm!TypeOK
  <2> QED BY <2>1, <2>2, Zenon DEF Ddeabm!TypeOK, Ddeabm!Abs
<1>3. DdeabmPlaces'
  BY <1>1 DEF DdeabmInv, DdeabmPlaces, Fwd, Ddeabm!Abs
<1> QED BY <1>2, <1>3 DEF DdeabmInv

\* Every step of the integrator keeps the invariant.
LEMMA DdeabmKeeps ==
  ASSUME MultistepAssumption, DdeabmInv,
         \/ Ddeabm!Step
         \/ \E to \in Targets, stop \in {{}} \cup {{s} : s \in Stops} : Ddeabm!Call(to, stop)
  PROVE  DdeabmInv'
<1>1. CASE Ddeabm!Interpolate \/ Ddeabm!Extrapolate
  BY <1>1, ReturnKeeps
<1>2. CASE Ddeabm!Exhausted \/ Ddeabm!NoWeight \/ Ddeabm!Impossible
  BY <1>2, GiveUpKeeps
<1>3. CASE Ddeabm!Begin
  BY <1>3, BeginKeeps
<1>4. CASE Ddeabm!Reject
  BY <1>4, RejectKeeps
<1>5. CASE Ddeabm!Accept
  BY <1>5, AcceptStep
<1>6. CASE \E to \in Targets, stop \in {{}} \cup {{s} : s \in Stops} : Ddeabm!Call(to, stop)
  BY <1>6, CallContinues
<1> QED BY <1>1, <1>2, <1>3, <1>4, <1>5, <1>6 DEF Ddeabm!Step

\* A call that ends at the head of the loop has the point asked for, or the top
\* of the mesh.
LEMMA DdeabmInWindow ==
  ASSUME MultistepAssumption, DdeabmInv,
         \/ Ddeabm!Step
         \/ \E to \in Targets, stop \in {{}} \cup {{s} : s \in Stops} : Ddeabm!Call(to, stop)
  PROVE  Ddeabm!InterpolatesInWindow
<1> SUFFICES ASSUME pc = "head", pc' = "idle" PROVE Ddeabm!InterpolatesInWindow
  BY DEF Ddeabm!InterpolatesInWindow
<1>1. CASE Ddeabm!Interpolate \/ Ddeabm!Extrapolate
  BY <1>1, ReturnKeeps
<1>2. CASE Ddeabm!Exhausted \/ Ddeabm!NoWeight \/ Ddeabm!Impossible
  <2>1. how' = "mesh"
    BY <1>2 DEF Ddeabm!Exhausted, Ddeabm!NoWeight, Ddeabm!Impossible, Ddeabm!GiveUp, Ddeabm!Return
  <2> QED BY <2>1 DEF Ddeabm!InterpolatesInWindow
<1>3. ~Ddeabm!Begin /\ ~Ddeabm!Reject /\ ~Ddeabm!Accept
  BY DEF Ddeabm!Begin, Ddeabm!Reject, Ddeabm!Accept
<1>4. ~ \E to \in Targets, stop \in {{}} \cup {{s} : s \in Stops} : Ddeabm!Call(to, stop)
  BY DEF Ddeabm!Call
<1> QED BY <1>1, <1>2, <1>3, <1>4 DEF Ddeabm!Step

\* Only the head of the loop begins a trial, and only a trial accepted moves the
\* mesh.
LEMMA DdeabmStaysBefore ==
  ASSUME MultistepAssumption, DdeabmInv,
         \/ Ddeabm!Step
         \/ \E to \in Targets, stop \in {{}} \cup {{s} : s \in Stops} : Ddeabm!Call(to, stop)
  PROVE  Ddeabm!StaysBefore
<1>1. ASSUME pc = "head", pc' = "trial" PROVE Ddeabm!Begin
  <2>1. pc' # "idle" /\ pc' # "head" /\ pc # "trial" /\ pc # "idle"
    BY <1>1
  <2> QED BY <2>1, Zenon DEF Ddeabm!Step, Ddeabm!Interpolate, Ddeabm!Extrapolate, Ddeabm!Exhausted,
           Ddeabm!NoWeight, Ddeabm!Impossible, Ddeabm!GiveUp, Ddeabm!Return, Ddeabm!Reject,
           Ddeabm!Accept, Ddeabm!Call
<1>2. ASSUME pc = "trial", x' # x PROVE Ddeabm!Accept
  <2>1. pc # "head" /\ pc # "idle"
    BY <1>2
  <2> QED BY <1>2, <2>1, Zenon DEF Ddeabm!Step, Ddeabm!Interpolate, Ddeabm!Extrapolate, Ddeabm!Exhausted,
           Ddeabm!NoWeight, Ddeabm!Impossible, Ddeabm!Begin, Ddeabm!Ready, Ddeabm!Reject, Ddeabm!Call
<1>3. ASSUME has_tstop, pc = "head", pc' = "trial"
      PROVE  Ddeabm!Between(x, x + h', tstop) \/ (start /\ Ddeabm!Abs(h') = Floor)
  BY <1>1, <1>3, BeginKeeps
<1>4. ASSUME has_tstop, pc = "trial", x' # x
      PROVE  Ddeabm!Between(x, x', tstop) \/ Ddeabm!Abs(x' - x) <= Floor
  BY <1>2, <1>4, AcceptStep
<1> QED BY <1>3, <1>4, Zenon DEF Ddeabm!StaysBefore

-----------------------------------------------------------------------------
(* Both drivers.                                                           *)

\* An output point is interpolated inside the last completed step, and no step
\* of ddeabm_integrate_to lands beyond tstop, over any sequence of calls, but for
\* the exceptions that ContinuesWithinMesh names.
THEOREM InterpolationStaysInside == MultistepSpec => ContinuesWithinMesh
<1> DEFINE Inv == /\ code = "ddeabm" => DdeabmInv
                  /\ code = "vode" => VodeInv /\ VodeWindow
<1> USE MultistepAssumption
<1>1. MultistepInit => Inv
  <2>1. ASSUME MultistepInit, code = "ddeabm" PROVE DdeabmInv
    <3>1. Ddeabm!Init
      BY <2>1 DEF MultistepInit
    <3> QED BY <3>1, DdeabmStarts
  <2>2. ASSUME MultistepInit, code = "vode" PROVE VodeInv /\ VodeWindow
    <3>1. Vode!Init
      BY <2>2 DEF MultistepInit
    <3>2. ~started /\ pc # "step" /\ ~at_event
      BY <3>1 DEF Vode!Init
    <3>3. VodeWindow
      BY <3>2 DEF VodeWindow
    <3> QED BY <3>1, <3>3, VodeStarts
  <2> QED BY <2>1, <2>2
<1>2. ASSUME MultistepNext PROVE code' = code
  BY <1>2 DEF MultistepNext, BesideAdams, BesideNordsieck, BesideDdeabm, BesideVode
<1>3. ASSUME Inv, [MultistepNext]_allVars, code = "ddeabm" PROVE DdeabmInv'
  <2>1. CASE MultistepNext
    BY <1>3, <2>1, DdeabmKeeps DEF MultistepNext
  <2>2. CASE UNCHANGED allVars
    <3>1. UNCHANGED Ddeabm!vars
      BY <2>2 DEF allVars, OfDriver, OfDdeabm, Ddeabm!vars, Ddeabm!setup, Ddeabm!point
    <3> QED BY <1>3, <3>1, DdeabmIdles
  <2> QED BY <1>3, <2>1, <2>2
<1>4. ASSUME Inv, MultistepNext, code = "vode"
      PROVE  VodeInv' /\ VodeWindow' /\ (Vode!InterpolatesInWindow' \/ Vode!AskedBehind)
  <2>1. Vode!Step \/ \E to \in Touts : Vode!Call(to)
    BY <1>4 DEF MultistepNext
  <2>2. VodeInv'
    BY <1>4, <2>1, VodeReports
  <2>3. CASE Vode!Exhausted \/ Vode!StepFails
    <3>1. /\ UNCHANGED <<roots, started, dir, t, hu, target, at_event>> /\ pc' = "idle" /\ how' = "none"
      BY <2>3, Zenon DEF Vode!Exhausted, Vode!StepFails, Vode!Finish, Vode!setup, Vode!mesh, Vode!events
    <3>2. pc' # "step" /\ how' # "interpolated"
      BY <3>1
    <3>3. VodeWindow'
      BY <1>4, <3>1, <3>2, Zenon DEF VodeWindow, Vode!has_event
    <3>4. Vode!InterpolatesInWindow'
      BY <3>2, Zenon DEF Vode!InterpolatesInWindow
    <3> QED BY <2>2, <3>3, <3>4
  <2>4. CASE Vode!Advance
    BY <1>4, <2>2, <2>4, AdvanceInWindow
  <2>5. CASE \E to \in Touts : Vode!Call(to)
    BY <1>4, <2>2, <2>5, CallInWindow
  <2> QED BY <2>1, <2>3, <2>4, <2>5 DEF Vode!Step
<1>5. Inv /\ [MultistepNext]_allVars => Inv'
  <2> SUFFICES ASSUME Inv, [MultistepNext]_allVars PROVE Inv'
    OBVIOUS
  <2>1. code' = code
    BY <1>2 DEF allVars
  <2>2. ASSUME UNCHANGED allVars, code = "vode" PROVE VodeInv' /\ VodeWindow'
    <3>1. UNCHANGED <<pc, call, target, roots, wanted, started, dir, t, hu, ksteps, at_event, t_event,
                      reported, how, status>>
      BY <2>2 DEF allVars, OfDriver, OfVode
    <3>2. VodeInv /\ VodeWindow
      BY <2>2
    <3>3. VodeWindow'
      BY <3>1, <3>2, Zenon DEF VodeWindow, Vode!has_event
    <3> QED BY <3>1, <3>2, <3>3, VodeIdles
  <2> QED BY <1>3, <1>4, <2>1, <2>2
<1>6. Inv /\ [MultistepNext]_allVars =>
        [/\ code = "ddeabm" => Ddeabm!InterpolatesInWindow /\ Ddeabm!StaysBefore
         /\ code = "vode" => Vode!InterpolatesInWindow' \/ Vode!AskedBehind]_allVars
  <2> SUFFICES ASSUME Inv, MultistepNext
               PROVE  /\ code = "ddeabm" => Ddeabm!InterpolatesInWindow /\ Ddeabm!StaysBefore
                      /\ code = "vode" => Vode!InterpolatesInWindow' \/ Vode!AskedBehind
    OBVIOUS
  <2>1. ASSUME code = "ddeabm" PROVE Ddeabm!InterpolatesInWindow /\ Ddeabm!StaysBefore
    BY <2>1, DdeabmInWindow, DdeabmStaysBefore DEF MultistepNext
  <2> QED BY <1>4, <2>1
<1> QED BY <1>1, <1>5, <1>6, PTL DEF MultistepSpec, ContinuesWithinMesh

-----------------------------------------------------------------------------
(* take_step of VODE: what it remembers of the steps before.               *)

\* tau and the scale of the array are those of the mesh, a trial has room for
\* another failure, and tq(1), tq(3) and the correction put aside are there when
\* an order change is due.
NordsieckInv ==
  /\ pc \in {"idle", "judge", "failed"} /\ held \in BOOLEAN /\ formed \in BOOLEAN
  /\ nq \in 1..VodeOrder /\ nqwait \in 1..Nordsieck!Max({RestartWait, VodeOrder + 1})
  /\ h \in VodeSizes /\ next \in VodeSizes /\ scale = h
  /\ tau \in [1..VodeOrder + 1 -> VodeSizes \cup {0}]
  /\ stash \in [order : 0..VodeOrder - 1, age : 0..2]
  /\ last \in Seq(VodeSizes)
  /\ kflag \in 0..ErrFailures /\ ncf \in 0..ConvFailures
  /\ pc = "judge" => kflag < ErrFailures /\ ncf < ConvFailures /\ formed = Nordsieck!Formed(nq, nqwait)
  /\ pc = "idle" => ~held
  /\ nq <= Len(last) + 1
  /\ \A j \in 1..nq - 1 : tau[j] = last[j]
  /\ pc # "failed" /\ ~held /\ nqwait = 1 /\ nq < VodeOrder =>
       stash = [order |-> nq, age |-> 0] /\ tau[1] = last[1]

\* The invariant says what the run checks.
LEMMA NordsieckInvInformed ==
  ASSUME MultistepAssumption, NordsieckInv
  PROVE  Nordsieck!TypeOK /\ Nordsieck!CoefficientsOfMesh /\ Nordsieck!OrderInformed
<1>1. Nordsieck!TypeOK
  BY DEF NordsieckInv, Nordsieck!TypeOK
<1>2. Nordsieck!CoefficientsOfMesh
  BY DEF NordsieckInv, Nordsieck!CoefficientsOfMesh
<1>3. Nordsieck!OrderInformed
  <2> SUFFICES ASSUME pc = "judge", nqwait = 1, ~held
               PROVE  /\ formed
                      /\ nq < VodeOrder => stash = [order |-> nq, age |-> 0] /\ tau[1] = last[1]
    BY DEF Nordsieck!OrderInformed
  <2>1. formed
    BY DEF NordsieckInv, Nordsieck!Formed
  <2> QED BY <2>1 DEF NordsieckInv
<1> QED BY <1>1, <1>2, <1>3

\* The numbers of this method.
LEMMA NordsieckNumbers ==
  ASSUME MultistepAssumption
  PROVE  /\ VodeOrder \in Nat /\ VodeOrder >= 1 /\ VodeSizes \subseteq Nat
         /\ RestartWait \in Nat /\ RestartWait >= 1
         /\ ErrFailures \in Nat /\ ErrFailures >= 1 /\ ConvFailures \in Nat /\ ConvFailures >= 1
         /\ Nordsieck!Max({RestartWait, VodeOrder + 1}) \in Nat
         /\ RestartWait <= Nordsieck!Max({RestartWait, VodeOrder + 1})
         /\ VodeOrder + 1 <= Nordsieck!Max({RestartWait, VodeOrder + 1})
<1>1. /\ VodeOrder \in Nat /\ VodeOrder >= 1 /\ VodeSizes \subseteq Nat
      /\ RestartWait \in Nat /\ RestartWait >= 1
      /\ ErrFailures \in Nat /\ ErrFailures >= 1 /\ ConvFailures \in Nat /\ ConvFailures >= 1
  BY DEF MultistepAssumption
<1>2. \A a, b \in Int : Nordsieck!Max({a, b}) = IF a >= b THEN a ELSE b
  BY DEF Nordsieck!Max
<1>3. Nordsieck!Max({RestartWait, VodeOrder + 1}) = IF RestartWait >= VodeOrder + 1 THEN RestartWait ELSE VodeOrder + 1
  <2>1. RestartWait \in Int /\ VodeOrder + 1 \in Int
    BY <1>1
  <2> QED BY <1>2, <2>1
<1> QED BY <1>1, <1>3

\* The shortest length is one of them.
LEMMA ShortestLength ==
  ASSUME MultistepAssumption, VodeSizes # {}
  PROVE  Nordsieck!hmin \in VodeSizes
<1>1. \E m \in VodeSizes : \A k \in VodeSizes : m <= k
  BY NordsieckNumbers, LeastNatural
<1> QED BY <1>1, Zenon DEF Nordsieck!hmin, Nordsieck!Min

\* A tenth of the step, or the least length, is a length.
LEMMA TenthIsLength ==
  ASSUME MultistepAssumption, VodeSizes # {}
  PROVE  Nordsieck!Tenth \subseteq VodeSizes
BY ShortestLength DEF Nordsieck!Tenth

\* The state at the first entry.
LEMMA NordsieckStarts ==
  ASSUME MultistepAssumption, Nordsieck!Init PROVE NordsieckInv
<1>1. /\ pc = "idle" /\ nq = 1 /\ nqwait = 2 /\ h \in VodeSizes /\ next = h /\ scale = h /\ held = FALSE
      /\ tau = [i \in 1..VodeOrder + 1 |-> IF i = 1 THEN h ELSE 0]
      /\ stash = [order |-> 0, age |-> 0] /\ formed = FALSE /\ last = <<>> /\ kflag = 0 /\ ncf = 0
  BY DEF Nordsieck!Init
<1>2. nq \in 1..VodeOrder /\ nqwait \in 1..Nordsieck!Max({RestartWait, VodeOrder + 1})
  BY <1>1, NordsieckNumbers
<1>3. tau \in [1..VodeOrder + 1 -> VodeSizes \cup {0}]
  BY <1>1
<1>4. 0 \in 0..VodeOrder - 1 /\ 0 \in 0..2
  BY NordsieckNumbers
<1>5. kflag \in 0..ErrFailures /\ ncf \in 0..ConvFailures
  BY <1>1, NordsieckNumbers
<1>6. last \in Seq(VodeSizes) /\ Len(last) = 0
  BY <1>1, EmptySeq
<1>7. nq <= Len(last) + 1 /\ nq - 1 = 0 /\ nqwait # 1
  BY <1>1, <1>6
<1>8. \A j \in 1..nq - 1 : tau[j] = last[j]
  BY <1>7
<1>9. stash \in [order : 0..VodeOrder - 1, age : 0..2]
  BY <1>1, <1>4
<1> QED BY <1>1, <1>2, <1>3, <1>5, <1>6, <1>7, <1>8, <1>9 DEF NordsieckInv

\* A step begins with the length chosen before.
LEMMA NordsieckBegins ==
  ASSUME MultistepAssumption, NordsieckInv, Nordsieck!Begin PROVE NordsieckInv'
<1>1. /\ pc = "idle" /\ pc' = "judge" /\ kflag' = 0 /\ ncf' = 0 /\ h' = next /\ next' = next /\ scale' = next
      /\ formed' = Nordsieck!Formed(nq, nqwait) /\ UNCHANGED <<nq, nqwait, held, tau, stash, last>>
  BY DEF Nordsieck!Begin, Nordsieck!Rescale
<1>2. kflag' \in 0..ErrFailures /\ ncf' \in 0..ConvFailures /\ kflag' < ErrFailures /\ ncf' < ConvFailures
  BY <1>1, NordsieckNumbers
<1>3. formed' \in BOOLEAN /\ formed' = Nordsieck!Formed(nq', nqwait')
  BY <1>1 DEF Nordsieck!Formed
<1> QED BY <1>1, <1>2, <1>3 DEF NordsieckInv, Nordsieck!Formed

\* A trial that fails leaves the coefficients: its step is shorter, and an order
\* change waits.
LEMMA NordsieckRetries ==
  ASSUME MultistepAssumption, NordsieckInv, Nordsieck!NotConverged \/ Nordsieck!TooLarge
  PROVE  NordsieckInv'
<1>1. pc = "judge" /\ held' = TRUE /\ UNCHANGED <<stash, last>>
  BY DEF Nordsieck!NotConverged, Nordsieck!TooLarge
<1>2. /\ kflag < ErrFailures /\ ncf < ConvFailures /\ kflag \in 0..ErrFailures /\ ncf \in 0..ConvFailures
      /\ nq \in 1..VodeOrder /\ h \in VodeSizes /\ next \in VodeSizes
  BY <1>1 DEF NordsieckInv
<1>3. Nordsieck!Tenth \subseteq VodeSizes
  BY <1>2, TenthIsLength
<1>4. CASE Nordsieck!Fail
  <2>1. pc' = "failed" /\ UNCHANGED <<nq, nqwait, h, next, scale, tau, formed>>
    BY <1>4 DEF Nordsieck!Fail
  <2>2. kflag' \in 0..ErrFailures /\ ncf' \in 0..ConvFailures
    <3>1. (kflag' = kflag /\ ncf' = ncf + 1) \/ (kflag' = kflag + 1 /\ ncf' = ncf)
      BY DEF Nordsieck!NotConverged, Nordsieck!TooLarge
    <3> QED BY <1>2, <3>1, NordsieckNumbers
  <2> QED BY <1>1, <2>1, <2>2 DEF NordsieckInv
<1>5. CASE ~Nordsieck!Fail
  <2>1. /\ pc' = pc /\ formed' = Nordsieck!Formed(nq', nqwait')
        /\ \/ kflag' = kflag /\ ncf' = ncf + 1 /\ ncf' < ConvFailures
           \/ kflag' = kflag + 1 /\ ncf' = ncf /\ kflag' < ErrFailures
    BY <1>5 DEF Nordsieck!NotConverged, Nordsieck!TooLarge
  <2>2. /\ kflag' \in 0..ErrFailures /\ ncf' \in 0..ConvFailures /\ kflag' < ErrFailures /\ ncf' < ConvFailures
    BY <1>2, <2>1, NordsieckNumbers
  <2>3. formed' \in BOOLEAN
    BY <2>1 DEF Nordsieck!Formed
  <2>4. PICK s \in VodeSizes :
          /\ Nordsieck!Rescale(s)
          /\ \/ UNCHANGED <<nq, nqwait, tau>>
             \/ nq = 1 /\ UNCHANGED nq /\ nqwait' = RestartWait /\ tau' = [tau EXCEPT ![1] = s]
             \/ nq > 1 /\ nq' = nq - 1 /\ nqwait' = nq /\ UNCHANGED tau
    BY <1>3, <1>5, Zenon DEF Nordsieck!NotConverged, Nordsieck!TooLarge, Nordsieck!Reduced, Nordsieck!Restarted,
       Nordsieck!Lowered
  <2>5. h' = s /\ next' = s /\ scale' = s
    BY <2>4 DEF Nordsieck!Rescale
  <2>6. /\ nq' \in 1..VodeOrder /\ nqwait' \in 1..Nordsieck!Max({RestartWait, VodeOrder + 1})
        /\ tau' \in [1..VodeOrder + 1 -> VodeSizes \cup {0}] /\ nq' <= Len(last) + 1
        /\ \A j \in 1..nq' - 1 : tau'[j] = last[j]
    <3>1. /\ nqwait \in 1..Nordsieck!Max({RestartWait, VodeOrder + 1}) /\ nq <= Len(last) + 1 /\ Len(last) \in Nat
          /\ tau \in [1..VodeOrder + 1 -> VodeSizes \cup {0}]
          /\ \A j \in 1..nq - 1 : tau[j] = last[j]
      BY LenProperties DEF NordsieckInv
    <3>2. CASE UNCHANGED <<nq, nqwait, tau>>
      BY <1>2, <3>1, <3>2
    <3>3. CASE /\ nq = 1 /\ UNCHANGED nq /\ nqwait' = RestartWait /\ tau' = [tau EXCEPT ![1] = s]
      <4>1. tau' \in [1..VodeOrder + 1 -> VodeSizes \cup {0}]
        BY <3>1, <3>3
      <4>2. nqwait' \in 1..Nordsieck!Max({RestartWait, VodeOrder + 1})
        BY <3>3, NordsieckNumbers
      <4>3. nq' \in 1..VodeOrder /\ nq' <= Len(last) + 1
        BY <1>2, <3>1, <3>3
      <4>4. \A j \in 1..nq' - 1 : tau'[j] = last[j]
        BY <3>3
      <4> QED BY <4>1, <4>2, <4>3, <4>4, Zenon
    <3>4. CASE nq > 1 /\ nq' = nq - 1 /\ nqwait' = nq /\ UNCHANGED tau
      <4>1. nq' \in 1..VodeOrder /\ nqwait' \in 1..Nordsieck!Max({RestartWait, VodeOrder + 1}) /\ nq' <= Len(last) + 1
        <5>1. PICK top \in Nat : top = Nordsieck!Max({RestartWait, VodeOrder + 1}) /\ VodeOrder + 1 <= top
          BY NordsieckNumbers
        <5>2. nq \in Nat /\ nq > 1 /\ nq <= VodeOrder /\ VodeOrder \in Nat /\ nq <= Len(last) + 1 /\ Len(last) \in Nat
          BY <1>2, <3>1, <3>4, NordsieckNumbers
        <5>3. nq - 1 \in 1..VodeOrder /\ nq \in 1..top /\ nq - 1 <= Len(last) + 1
          BY <5>1, <5>2
        <5> QED BY <3>4, <5>1, <5>3
      <4>2. ASSUME NEW j \in 1..nq' - 1 PROVE tau'[j] = last[j]
        <5>1. j \in 1..nq - 1
          BY <1>2, <3>4
        <5> QED BY <3>1, <3>4, <5>1
      <4>3. tau' \in [1..VodeOrder + 1 -> VodeSizes \cup {0}]
        BY <3>1, <3>4
      <4> QED BY <4>1, <4>2, <4>3
    <3> QED BY <2>4, <3>2, <3>3, <3>4
  <2> QED BY <1>1, <2>1, <2>2, <2>3, <2>5, <2>6 DEF NordsieckInv, Nordsieck!Formed
<1> QED BY <1>4, <1>5

\* A step accepted goes before the ones that made the mesh, and the order rises
\* by one at most.
LEMMA NordsieckAccepts ==
  ASSUME MultistepAssumption, NordsieckInv, Nordsieck!Accept PROVE NordsieckInv'
<1>1. /\ pc = "judge" /\ pc' = "idle" /\ held' = FALSE /\ UNCHANGED <<h, scale, formed, kflag, ncf>>
      /\ last' = SubSeq(<<h>> \o last, 1, Nordsieck!Min({VodeOrder, Len(last) + 1}))
      /\ tau' = [i \in 1..VodeOrder + 1 |->
                   IF i = 1 THEN h ELSE IF i <= nq + 1 THEN tau[i - 1] ELSE tau[i]]
      /\ stash' = IF nq < VodeOrder /\ nqwait - 1 = 1 THEN [order |-> nq, age |-> 0]
                  ELSE [stash EXCEPT !.age = Nordsieck!Min({2, @ + 1})]
  BY DEF Nordsieck!Accept, Nordsieck!Aside
<1>2. /\ nq \in 1..VodeOrder /\ nqwait \in 1..Nordsieck!Max({RestartWait, VodeOrder + 1}) /\ h \in VodeSizes
      /\ next \in VodeSizes /\ scale = h /\ held \in BOOLEAN /\ formed \in BOOLEAN
      /\ tau \in [1..VodeOrder + 1 -> VodeSizes \cup {0}]
      /\ stash \in [order : 0..VodeOrder - 1, age : 0..2]
      /\ last \in Seq(VodeSizes) /\ Len(last) \in Nat /\ kflag \in 0..ErrFailures /\ ncf \in 0..ConvFailures
      /\ nq <= Len(last) + 1 /\ \A j \in 1..nq - 1 : tau[j] = last[j]
  BY LenProperties DEF NordsieckInv
<1>3. \A a, b \in Int : Nordsieck!Min({a, b}) = IF a <= b THEN a ELSE b
  BY DEF Nordsieck!Min
<1>4. \A a, b \in Int : Nordsieck!Max({a, b}) = IF a >= b THEN a ELSE b
  BY DEF Nordsieck!Max
<1>13. PICK top \in Nat : top = Nordsieck!Max({RestartWait, VodeOrder + 1})
  BY NordsieckNumbers
<1>14. /\ VodeOrder \in Nat /\ VodeOrder >= 1 /\ VodeOrder + 1 <= top /\ 2 <= top /\ nqwait \in 1..top
       /\ nq \in Nat /\ nq >= 1 /\ nq <= VodeOrder /\ nqwait \in Nat /\ nqwait >= 1 /\ nqwait <= top
  <2>1. VodeOrder \in Nat /\ VodeOrder >= 1 /\ VodeOrder + 1 <= top /\ nqwait \in 1..top /\ nq \in 1..VodeOrder
    BY <1>2, <1>13, NordsieckNumbers
  <2> QED BY <2>1
<1>15. Len(last) \in Nat /\ nq <= Len(last) + 1
  BY <1>2
<1>16. h \in VodeSizes /\ next \in VodeSizes
  BY <1>2
<1>5. PICK m \in Nat : m = Nordsieck!Min({VodeOrder, Len(last) + 1}) /\ m = (IF VodeOrder <= Len(last) + 1 THEN VodeOrder ELSE Len(last) + 1)
  <2>1. VodeOrder \in Int /\ Len(last) + 1 \in Int
    BY <1>14, <1>15
  <2>2. Nordsieck!Min({VodeOrder, Len(last) + 1}) = IF VodeOrder <= Len(last) + 1 THEN VodeOrder ELSE Len(last) + 1
    BY <1>3, <2>1
  <2>3. \E n \in Nat : n = IF VodeOrder <= Len(last) + 1 THEN VodeOrder ELSE Len(last) + 1
    BY <1>14, <1>15
  <2> QED BY <2>2, <2>3
<1>6. 1 <= m /\ m <= Len(last) + 1 /\ m <= VodeOrder /\ (m = VodeOrder \/ m = Len(last) + 1)
  BY <1>5, <1>14, <1>15
<1>7. /\ last' \in Seq(VodeSizes) /\ Len(last') = m
      /\ \A j \in 1..m : last'[j] = IF j = 1 THEN h ELSE last[j - 1]
  <2>1. <<h>> \in Seq(VodeSizes) /\ Len(<<h>>) = 1 /\ <<h>>[1] = h
    BY <1>2
  <2>5. last \in Seq(VodeSizes) /\ Len(last) \in Nat
    BY <1>2
  <2>2. /\ <<h>> \o last \in Seq(VodeSizes) /\ Len(<<h>> \o last) = Len(last) + 1
        /\ \A j \in 1..Len(last) + 1 : (<<h>> \o last)[j] = IF j <= 1 THEN <<h>>[j] ELSE last[j - 1]
    BY <2>1, <2>5
  <2>3. \A j \in 1..Len(last) + 1 : (<<h>> \o last)[j] = IF j = 1 THEN h ELSE last[j - 1]
    BY <2>1, <2>2
  <2>4. last' = SubSeq(<<h>> \o last, 1, m)
    BY <1>1, <1>5
  <2>6. 1..m \subseteq 1..Len(last) + 1 /\ m <= Len(<<h>> \o last)
    BY <1>6, <1>15, <2>2
  <2>7. /\ SubSeq(<<h>> \o last, 1, m) \in Seq(VodeSizes) /\ Len(SubSeq(<<h>> \o last, 1, m)) = m
        /\ \A j \in 1..m : SubSeq(<<h>> \o last, 1, m)[j] = (<<h>> \o last)[j]
    <3>1. PICK list \in Seq(VodeSizes) : list = <<h>> \o last
      BY <2>2
    <3>2. m \in Nat /\ m <= Len(list)
      BY <1>5, <2>6, <3>1, Zenon
    <3>3. /\ SubSeq(list, 1, m) \in Seq(VodeSizes) /\ Len(SubSeq(list, 1, m)) = m
          /\ \A j \in 1..m : SubSeq(list, 1, m)[j] = list[j]
      BY <3>2, FirstOfList, Zenon
    <3> QED BY <3>1, <3>3, Zenon
  <2> QED BY <2>3, <2>4, <2>6, <2>7
<1>8. tau' \in [1..VodeOrder + 1 -> VodeSizes \cup {0}]
  <2> SUFFICES ASSUME NEW i \in 1..VodeOrder + 1
               PROVE  (IF i = 1 THEN h ELSE IF i <= nq + 1 THEN tau[i - 1] ELSE tau[i]) \in VodeSizes \cup {0}
    BY <1>1
  <2>1. i # 1 => i - 1 \in 1..VodeOrder + 1
    BY NordsieckNumbers
  <2> QED BY <1>2, <2>1
<1>9. stash' \in [order : 0..VodeOrder - 1, age : 0..2]
  <2>1. nq < VodeOrder => nq \in 0..VodeOrder - 1
    BY <1>14
  <2>3. stash.age \in 0..2
    BY <1>2
  <2>2. Nordsieck!Min({2, stash.age + 1}) \in 0..2
    BY <1>3, <2>3
  <2>4. 0 \in 0..2
    OBVIOUS
  <2>5. CASE nq < VodeOrder /\ nqwait - 1 = 1
    BY <1>1, <2>1, <2>4, <2>5
  <2>6. CASE ~(nq < VodeOrder /\ nqwait - 1 = 1)
    BY <1>1, <1>2, <2>2, <2>6
  <2> QED BY <2>5, <2>6
<1>10. /\ nq' \in 1..VodeOrder /\ nq' <= nq + 1
       /\ nqwait' \in 1..top /\ next' \in VodeSizes
       /\ nqwait' = 1 => nq' = nq /\ nqwait - 1 = 1
  <2>2. CASE held
    <3>1. nqwait' = Nordsieck!Max({2, nqwait - 1}) /\ next' = h /\ nq' = nq
      BY <2>2 DEF Nordsieck!Accept, Nordsieck!PutOff
    <3>2. nqwait' = IF 2 >= nqwait - 1 THEN 2 ELSE nqwait - 1
      BY <1>4, <1>14, <3>1
    <3> QED BY <1>14, <1>16, <3>1, <3>2
  <2>3. CASE ~held
    <3>1. Nordsieck!Select(nqwait - 1)
      BY <2>3 DEF Nordsieck!Accept
    <3>2. Nordsieck!Grown \subseteq VodeSizes
      BY DEF Nordsieck!Grown
    <3>3. CASE nqwait' = (IF nqwait - 1 = 0 THEN 2 ELSE nqwait - 1) /\ next' \in Nordsieck!Grown \cup {h} /\ UNCHANGED nq
      BY <1>14, <1>16, <3>2, <3>3
    <3>4. CASE /\ nq' \in {nq - 1, nq + 1} \cap 1..VodeOrder
               /\ nqwait' = nq' + 1 /\ next' \in Nordsieck!Grown
      <4>1. nq' \in Int /\ (nq' = nq - 1 \/ nq' = nq + 1) /\ 1 <= nq' /\ nq' <= VodeOrder
        BY <1>14, <3>4
      <4>3. PICK q \in Int : q = nq'
        BY <4>1
      <4>7. 1 <= q /\ q <= VodeOrder
        BY <4>1, <4>3
      <4>4. q + 1 \in 1..top /\ q + 1 # 1
        BY <1>14, <4>7
      <4>2. nqwait' \in 1..top /\ nqwait' # 1
        BY <3>4, <4>3, <4>4
      <4>5. nq' \in 1..VodeOrder /\ nq' <= nq + 1
        BY <1>14, <4>1
      <4>6. next' \in VodeSizes
        BY <3>2, <3>4
      <4> QED BY <4>2, <4>5, <4>6
    <3> QED BY <3>1, <3>3, <3>4 DEF Nordsieck!Select
  <2> QED BY <1>2, <2>2, <2>3
<1>11. nq' <= Len(last') + 1 /\ \A j \in 1..nq' - 1 : tau'[j] = last'[j]
  <2>1. nq' <= Len(last') + 1
    BY <1>6, <1>7, <1>10, <1>14, <1>15
  <2>2. ASSUME NEW j \in 1..nq' - 1 PROVE tau'[j] = last'[j]
    <3>4. nq' \in Nat /\ nq' <= nq + 1 /\ nq' <= VodeOrder /\ nq' <= m + 1
      BY <1>7, <1>10, <1>14, <2>1
    <3>5. PICK q \in Nat : q = nq'
      BY <3>4
    <3>1. j \in 1..m /\ j <= nq /\ j \in 1..VodeOrder + 1 /\ j \in Nat
      <4>1. j \in 1..q - 1 /\ q <= nq + 1 /\ q <= VodeOrder /\ q <= m + 1
        BY <3>4, <3>5
      <4> QED BY <1>6, <1>14, <4>1
    <3>2. CASE j = 1
      BY <1>1, <1>7, <3>1, <3>2
    <3>3. CASE j # 1
      <4>2. j - 1 \in 1..nq - 1 /\ j <= nq + 1
        BY <1>14, <3>1, <3>3
      <4>1. tau'[j] = tau[j - 1] /\ last'[j] = last[j - 1]
        BY <1>1, <1>7, <3>1, <3>3, <4>2
      <4> QED BY <1>2, <4>1, <4>2
    <3> QED BY <3>2, <3>3
  <2> QED BY <2>1, <2>2
<1>12. nqwait' = 1 /\ nq' < VodeOrder => stash' = [order |-> nq', age |-> 0] /\ tau'[1] = last'[1]
  <2>1. 1 \in 1..VodeOrder + 1 /\ 1 \in 1..m
    BY <1>6, NordsieckNumbers
  <2> QED BY <1>1, <1>7, <1>10, <2>1
<1> QED BY <1>1, <1>2, <1>7, <1>8, <1>9, <1>10, <1>11, <1>12, <1>13 DEF NordsieckInv

\* Every step keeps it, and so does a step of the other programs.
LEMMA NordsieckKeeps ==
  ASSUME MultistepAssumption, NordsieckInv, Nordsieck!Next \/ UNCHANGED Nordsieck!vars
  PROVE  NordsieckInv'
<1>1. CASE UNCHANGED Nordsieck!vars
  BY <1>1 DEF NordsieckInv, Nordsieck!vars, Nordsieck!Formed
<1> QED BY <1>1, NordsieckBegins, NordsieckRetries, NordsieckAccepts DEF Nordsieck!Next

\* The coefficients of a trial of VODE are of the steps really accepted, and an
\* order is chosen on estimates that were formed for it, for every maximal order,
\* set of step lengths and numbers of failures allowed.
THEOREM NordsieckCorrect ==
  MultistepSpec =>
    [](code = "nordsieck" =>
         Nordsieck!TypeOK /\ Nordsieck!CoefficientsOfMesh /\ Nordsieck!OrderInformed)
<1> DEFINE Inv == code = "nordsieck" => NordsieckInv
<1>1. MultistepInit => Inv
  BY MultistepAssumption, NordsieckStarts DEF MultistepInit
<1>2. Inv /\ [MultistepNext]_allVars => Inv'
  <2> SUFFICES ASSUME Inv, [MultistepNext]_allVars, code' = "nordsieck" PROVE NordsieckInv'
    OBVIOUS
  <2>1. CASE MultistepNext
    <3>1. code = "nordsieck" /\ Nordsieck!Next
      BY <2>1 DEF MultistepNext, BesideAdams, BesideNordsieck, BesideDdeabm, BesideVode
    <3> QED BY <3>1, MultistepAssumption, NordsieckKeeps
  <2>2. CASE UNCHANGED allVars
    <3>1. code = "nordsieck" /\ UNCHANGED Nordsieck!vars
      BY <2>2 DEF allVars, OfNordsieck, Nordsieck!vars
    <3> QED BY <3>1, MultistepAssumption, NordsieckKeeps
  <2> QED BY <2>1, <2>2
<1>3. Inv => (code = "nordsieck" =>
                Nordsieck!TypeOK /\ Nordsieck!CoefficientsOfMesh /\ Nordsieck!OrderInformed)
  BY MultistepAssumption, NordsieckInvInformed
<1> QED BY <1>1, <1>2, <1>3, PTL DEF MultistepSpec

-----------------------------------------------------------------------------
(* step of DDEABM: the coefficients it keeps from one step to the next.    *)

\* The order of the trial that is judged, or of the step accepted last, and how
\* many numbers of this length are right: a trial below ns adds none.
Order == IF pc = "judge" THEN kord ELSE kold
Done == IF Order < ns THEN ns - 1 ELSE ns

\* A mesh of this length is kept: the next trial may go on with it.
Kept == pc = "idle" /\ ns >= 1

\* What the steps before were, how one order follows another, and which columns
\* of phi there are.
AdamsOrders ==
  /\ last \in Seq(AdamsSizes) /\ iv \in Seq(1..AdamsOrder + 1)
  /\ kold <= Len(last) /\ kord <= Len(last) + 1 /\ kord <= kold + 1 /\ kord <= depth
  /\ pc = "judge" => ns >= 1 /\ ~start
  /\ pc = "retry" => ns = 0
  /\ pc = "idle" => crashed \/ kold = 0 \/ ns >= 1
  /\ Kept => hold \in AdamsSizes /\ \A i \in 1..ns : i <= Len(last) => last[i] = hold
  /\ pc = "judge" => \A i \in 1..ns - 1 : i <= Len(last) => last[i] = h
  /\ Kept \/ (pc = "judge" /\ ns >= 2) => kold - 1 <= kord /\ kold >= 1 /\ depth >= kold + 1
  /\ Kept /\ ns > kold => depth >= kold + 2
  /\ pc = "judge" /\ ns > kord => depth > kord

\* The distances to the points before.
AdamsDistances ==
  /\ pc = "judge" => \A i \in 1..kord : psi[i] = h + Adams!Way(i - 1)
  /\ pc = "judge" => \A i \in 1..Done : psi[i] = i * h
  /\ pc # "judge" => \A i \in 1..kord - 1 : psi[i] = Adams!Way(i)
  /\ Kept => \A i \in 1..Done : psi[i] = i * hold

\* How far the array v has got.  At q it has the number of index done, or less
\* where the order has no more; from an entry of the stack on, it has what the
\* order had that was given up there.
Stairs(array, order, stack, done) ==
  LET m == Len(stack)
  IN /\ \A i \in 1..m : stack[i] <= order + m + 1 - i
     /\ \A i \in 1..m - 1 : stack[i + 1] < stack[i]
     /\ \A q \in 1..order :
          m = 0 \/ q < stack[m] => array[q] = IF q <= order + 1 - done THEN done ELSE order + 1 - q
     /\ \A i \in 1..m : \A q \in stack[i]..order + m :
          i = 1 \/ q < stack[i - 1] => array[q] = order + m - i + 2 - q

AdamsStaircase ==
  /\ Done >= 1 /\ kprev >= Done /\ kprev + Len(iv) <= AdamsOrder
  /\ IF Order >= ns THEN kprev = Order ELSE kprev <= ns
  /\ Len(iv) > 0 => iv[Len(iv)] >= kprev + 3 - Done /\ kprev >= 2
  /\ Stairs(v, kprev, iv, Done)

\* What is taken from it.
AdamsTaken ==
  /\ \A q \in kprev + 1 - Done..kprev + Len(iv) : w[q] = v[q]
  /\ Order >= ns => \A q \in 1..kprev - Done : w[q] = -(kprev + 1 - q)
  /\ kgi = IF kprev > Done THEN Done ELSE kprev - 1
  /\ \A i \in 1..kgi : gi[i] = i
  /\ \A i \in 3..Done + 1 : g[i] = i - 1
  /\ pc = "judge" => \A i \in Done + 2..kord + 1 : g[i] = -(i - 1)

AdamsInv ==
  /\ Adams!TypeOK /\ AdamsOrders /\ AdamsDistances
  /\ ns >= 1 => AdamsStaircase /\ AdamsTaken

\* What holds at the start of an interval and is kept holds on all of it.
LEMMA Along ==
  ASSUME NEW a \in Int, NEW b \in Int, NEW T, a \in T, \A i \in a + 1..b : i - 1 \in T => i \in T
  PROVE  \A i \in a..b : i \in T
<1> SUFFICES ASSUME a <= b PROVE \A i \in a..b : i \in T
  OBVIOUS
<1> DEFINE n == b - a
           U == {i \in 0..n : i + a \in T}
<1>1. n \in Nat /\ 0 \in U
  OBVIOUS
<1>2. ASSUME NEW i \in 1..n, i - 1 \in U PROVE i \in U
  <2>1. (i - 1) + a = (i + a) - 1 /\ i + a \in a + 1..b
    OBVIOUS
  <2> QED BY <1>2, <2>1
<1> HIDE DEF U, n
<1>3. \A i \in 0..n : i \in U
  BY <1>1, <1>2, UpTo
<1>4. ASSUME NEW i \in a..b PROVE i \in T
  <2>1. i - a \in 0..n
    BY DEF n
  <2>2. (i - a) + a \in T
    BY <1>3, <2>1 DEF U
  <2> QED BY <2>2
<1> QED BY <1>4

\* The way back over the first n of some lengths.
WayTo(s, n) == LET f[i \in 0..n] == IF i = 0 THEN 0 ELSE f[i - 1] + s[i] IN f[n]

\* It is the sum of them.
LEMMA WayIsSum ==
  ASSUME NEW s \in Seq(Int), NEW n \in 0..Len(s)
  PROVE  \E f \in [0..n -> Int] :
           /\ f[0] = 0 /\ \A i \in 1..n : f[i] = f[i - 1] + s[i]
           /\ WayTo(s, n) = f[n]
<1> DEFINE F(f) == [i \in 0..n |-> IF i = 0 THEN 0 ELSE f[i - 1] + s[i]]
           step == [z \in Int \X (1..n) |-> z[1] + s[z[2]]]
           way == CHOOSE f : f = F(f)
<1>1. n \in Nat /\ \A i \in 1..n : s[i] \in Int
  BY LenProperties
<1>2. step \in Body(Int, n)
  BY <1>1 DEF Body
<1>3. PICK f \in [0..n -> Int] : f[0] = 0 /\ \A i \in 1..n : f[i] = step[<<f[i - 1], i>>]
  <2> HIDE DEF step
  <2>1. 0 \in Int /\ n \in Nat
    BY <1>1
  <2>2. \E f : f \in Loop(Int, 0, n, step)
    BY <1>2, <2>1, LoopDefined, Zenon
  <2>3. PICK f : f \in Loop(Int, 0, n, step)
    BY <2>2
  <2> QED BY <2>3 DEF Loop
<1>4. ASSUME NEW i \in 1..n PROVE f[i] = f[i - 1] + s[i]
  <2>1. i - 1 \in 0..n
    BY <1>1
  <2>2. f[i - 1] \in Int /\ <<f[i - 1], i>> \in Int \X (1..n)
    BY <1>3, <2>1
  <2>3. step[<<f[i - 1], i>>] = f[i - 1] + s[i]
    BY <2>2
  <2> QED BY <1>3, <2>1, <2>3
<1>5. f = F(f)
  <2>1. \A i \in 0..n : f[i] = IF i = 0 THEN 0 ELSE f[i - 1] + s[i]
    <3> SUFFICES ASSUME NEW i \in 0..n, i # 0 PROVE f[i] = f[i - 1] + s[i]
      BY <1>3
    <3>1. i \in 1..n
      BY <1>1
    <3> QED BY <1>4, <3>1
  <2> QED BY <1>3, <2>1
<1>6. way = F(way)
  BY <1>5
<1>7. WayTo(s, n) = way[n]
  BY DEF WayTo
<1> HIDE DEF way
<1>8. /\ way[0] = 0 /\ \A i \in 1..n : way[i] = way[i - 1] + s[i]
      /\ DOMAIN way = 0..n
  <2>1. \A i \in 0..n : way[i] = IF i = 0 THEN 0 ELSE way[i - 1] + s[i]
    BY <1>6
  <2>2. DOMAIN way = 0..n /\ 0 \in 0..n /\ \A i \in 1..n : i \in 0..n /\ i # 0
    BY <1>1, <1>6
  <2> QED BY <2>1, <2>2
<1>9. \A i \in 0..n : way[i] = f[i]
  <2> DEFINE T == {i \in 0..n : way[i] = f[i]}
  <2>1. 0 \in T
    BY <1>1, <1>3, <1>8
  <2>2. \A i \in 1..n : i - 1 \in T => i \in T
    BY <1>4, <1>8
  <2> HIDE DEF T
  <2>3. \A i \in 0..n : i \in T
    BY <1>1, <2>1, <2>2, UpTo
  <2> QED BY <2>3 DEF T
<1>10. WayTo(s, n) = f[n]
  BY <1>1, <1>7, <1>9
<1> QED BY <1>3, <1>4, <1>10

\* It grows by one length at a time.
LEMMA WayGrows ==
  ASSUME NEW s \in Seq(Int)
  PROVE  /\ WayTo(s, 0) = 0
         /\ \A n \in 0..Len(s) : WayTo(s, n) \in Int
         /\ \A n \in 1..Len(s) : WayTo(s, n) = WayTo(s, n - 1) + s[n]
<1>1. Len(s) \in Nat /\ 0 \in 0..Len(s)
  BY LenProperties
<1>2. WayTo(s, 0) = 0
  BY <1>1, WayIsSum
<1>3. ASSUME NEW n \in 0..Len(s) PROVE WayTo(s, n) \in Int
  <2>1. PICK f \in [0..n -> Int] : WayTo(s, n) = f[n]
    BY WayIsSum
  <2> QED BY <1>1, <2>1
<1>4. ASSUME NEW n \in 1..Len(s) PROVE WayTo(s, n) = WayTo(s, n - 1) + s[n]
  <2>1. n \in 0..Len(s) /\ n - 1 \in 0..Len(s) /\ n \in Nat /\ n - 1 \in Nat
    BY <1>1
  <2>2. PICK f \in [0..n -> Int] :
          f[0] = 0 /\ (\A i \in 1..n : f[i] = f[i - 1] + s[i]) /\ WayTo(s, n) = f[n]
    BY <2>1, WayIsSum
  <2>3. PICK k \in [0..n - 1 -> Int] :
          k[0] = 0 /\ (\A i \in 1..n - 1 : k[i] = k[i - 1] + s[i]) /\ WayTo(s, n - 1) = k[n - 1]
    BY <2>1, WayIsSum
  <2>4. \A i \in 0..n - 1 : f[i] = k[i]
    <3> DEFINE T == {i \in 0..n - 1 : f[i] = k[i]}
    <3>1. 0 \in T
      BY <2>1, <2>2, <2>3
    <3>2. \A i \in 1..n - 1 : i - 1 \in T => i \in T
      <4>1. \A i \in 1..n - 1 : i \in 1..n
        BY <2>1
      <4> QED BY <2>2, <2>3, <4>1
    <3> HIDE DEF T
    <3>3. \A i \in 0..n - 1 : i \in T
      BY <2>1, <3>1, <3>2, UpTo
    <3> QED BY <3>3 DEF T
  <2>5. f[n] = f[n - 1] + s[n] /\ f[n - 1] = k[n - 1]
    BY <2>1, <2>2, <2>4
  <2> QED BY <2>2, <2>3, <2>5
<1> QED BY <1>2, <1>3, <1>4

\* The way back from a step taken after them.
LEMMA WayShifts ==
  ASSUME NEW s \in Seq(Int), NEW u \in Seq(Int), NEW c \in Int,
         Len(u) <= Len(s) + 1, Len(u) >= 1 => u[1] = c, \A i \in 2..Len(u) : u[i] = s[i - 1]
  PROVE  \A n \in 1..Len(u) : WayTo(u, n) = c + WayTo(s, n - 1)
<1>1. Len(s) \in Nat /\ Len(u) \in Nat
  BY LenProperties
<1> DEFINE T == {n \in 1..Len(u) : WayTo(u, n) = c + WayTo(s, n - 1)}
<1> SUFFICES ASSUME Len(u) >= 1 PROVE \A n \in 1..Len(u) : n \in T
  BY <1>1
<1>2. 1 \in T
  <2>1. WayTo(u, 1) = WayTo(u, 1 - 1) + u[1] /\ WayTo(u, 1 - 1) = 0 /\ WayTo(s, 1 - 1) = 0 /\ 1 \in 1..Len(u)
    BY <1>1, WayGrows
  <2> QED BY <2>1
<1>3. ASSUME NEW n \in 1 + 1..Len(u), n - 1 \in T PROVE n \in T
  <2>1. n \in 1..Len(u) /\ n \in 2..Len(u) /\ n - 1 \in 1..Len(s) /\ (n - 1) - 1 \in 0..Len(s)
    BY <1>1
  <2>2. WayTo(u, n) = WayTo(u, n - 1) + u[n] /\ u[n] = s[n - 1]
    BY <2>1, WayGrows
  <2>3. WayTo(s, n - 1) = WayTo(s, (n - 1) - 1) + s[n - 1]
    BY <2>1, WayGrows
  <2>4. WayTo(u, n - 1) = c + WayTo(s, (n - 1) - 1)
    BY <1>3
  <2>5. WayTo(s, (n - 1) - 1) \in Int
    BY <2>1, WayGrows
  <2>7. s[n - 1] \in Int
    BY <2>1, ElementOfSeq
  <2>8. PICK a, b, d \in Int : a = WayTo(s, (n - 1) - 1) /\ b = s[n - 1] /\ d = WayTo(s, n - 1) /\ d = a + b
    BY <2>3, <2>5, <2>7
  <2>9. (c + a) + b = c + d
    <3>1. a \in Int /\ b \in Int /\ d = a + b
      BY <2>8
    <3> QED BY <3>1
  <2>6. WayTo(u, n) = c + WayTo(s, n - 1)
    BY <2>2, <2>4, <2>8, <2>9
  <2> QED BY <2>1, <2>6
<1> HIDE DEF T
<1>4. 1 \in Int /\ Len(u) \in Int
  BY <1>1
<1> QED BY <1>2, <1>3, <1>4, Along, Zenon

\* The way back over equal lengths.
LEMMA WayOfEqual ==
  ASSUME NEW s \in Seq(Int), NEW c \in Int, NEW n \in 0..Len(s), \A i \in 1..n : s[i] = c
  PROVE  \A i \in 0..n : WayTo(s, i) = i * c
<1>1. Len(s) \in Nat /\ n \in Nat
  BY LenProperties
<1> DEFINE T == {i \in 0..n : WayTo(s, i) = i * c}
<1>2. 0 \in T
  BY <1>1, WayGrows
<1>3. ASSUME NEW i \in 1..n, i - 1 \in T PROVE i \in T
  <2>1. i \in 1..Len(s) /\ i - 1 \in Nat
    BY <1>1
  <2>2. WayTo(s, i) = WayTo(s, i - 1) + s[i] /\ s[i] = c
    BY <2>1, WayGrows
  <2>3. WayTo(s, i - 1) = (i - 1) * c
    BY <1>3
  <2>4. (i - 1) * c + c = i * c
    BY <1>1, <2>1
  <2> QED BY <2>2, <2>3, <2>4
<1> HIDE DEF T
<1>4. \A i \in 0..n : i \in T
  BY <1>1, <1>2, <1>3, UpTo
<1> QED BY <1>4 DEF T

\* What the rows of the loop over the g(*) hold, which starts with the number of
\* index n where there is one.
RowAt(first, n, i, q) ==
  IF q > kord - n THEN first[q]
  ELSE IF q > kord + 2 - i THEN -(kord + 1 - q)
  ELSE IF i = n + 1 THEN n ELSE -(i - 1)

\* The rows of the loop are these.
LEMMA RowsOf ==
  ASSUME AdamsOrder \in Nat, kord \in 1..AdamsOrder, NEW n \in 1..kord,
         NEW first \in [1..AdamsOrder + 1 -> Int], \A q \in 1..kord + 1 - n : first[q] = n
  PROVE  \A i \in n + 1..kord + 1 :
           Adams!Rows(first, n)[i] = [q \in 1..AdamsOrder + 1 |-> RowAt(first, n, i, q)]
<1> DEFINE F(f) ==
             [i \in n + 1..kord + 1 |->
                IF i = n + 1 THEN first
                ELSE [q \in 1..AdamsOrder + 1 |->
                        IF q <= kord + 2 - i THEN Adams!Mix(f[i - 1][q], f[i - 1][q + 1], i - 2, n)
                        ELSE f[i - 1][q]]]
           closed == [i \in n + 1..kord + 1 |-> [q \in 1..AdamsOrder + 1 |-> RowAt(first, n, i, q)]]
           row == CHOOSE f : f = F(f)
<1>1. kord \in Int /\ n \in Int /\ 1 <= n /\ n <= kord /\ kord <= AdamsOrder
  OBVIOUS
<1>2. \A i \in n + 1..kord + 1 : \A q \in 1..AdamsOrder + 1 : RowAt(first, n, i, q) \in Int
  BY <1>1 DEF RowAt
<1>3. closed[n + 1] = first
  <2>1. \A q \in 1..AdamsOrder + 1 : RowAt(first, n, n + 1, q) = first[q]
    BY <1>1 DEF RowAt
  <2>2. n + 1 \in n + 1..kord + 1
    BY <1>1
  <2>3. closed[n + 1] = [q \in 1..AdamsOrder + 1 |-> first[q]]
    BY <2>1, <2>2
  <2> QED BY <2>3
<1>4. ASSUME NEW i \in n + 1..kord + 1, i # n + 1, NEW q \in 1..AdamsOrder + 1
      PROVE  RowAt(first, n, i, q) =
               IF q <= kord + 2 - i THEN Adams!Mix(closed[i - 1][q], closed[i - 1][q + 1], i - 2, n)
               ELSE closed[i - 1][q]
  <2>1. i - 1 \in n + 1..kord + 1 /\ i >= n + 2
    BY <1>1, <1>4
  <2>2. closed[i - 1][q] = RowAt(first, n, i - 1, q)
    BY <2>1
  <2>3. CASE q <= kord + 2 - i
    <3>1. q + 1 \in 1..AdamsOrder + 1
      BY <1>1, <2>1, <2>3
    <3>2. closed[i - 1][q + 1] = RowAt(first, n, i - 1, q + 1)
      BY <2>1, <3>1
    <3>3. RowAt(first, n, i, q) = -(i - 1)
      BY <1>1, <2>1, <2>3 DEF RowAt
    <3>4. q \in 1..kord + 1 - n /\ (q + 1 <= kord + 1 - n => q + 1 \in 1..kord + 1 - n)
      BY <1>1, <2>1, <2>3
    <3>5. first[q] = n /\ (q + 1 > kord - n => first[q + 1] = n)
      BY <1>1, <2>1, <2>3, <3>4
    <3>6. RowAt(first, n, i - 1, q) = i - 2 \/ RowAt(first, n, i - 1, q) = -(i - 2)
      BY <1>1, <2>1, <2>3, <3>5 DEF RowAt
    <3>7. RowAt(first, n, i - 1, q + 1) = i - 2 \/ RowAt(first, n, i - 1, q + 1) = -(i - 2)
      BY <1>1, <2>1, <2>3, <3>5 DEF RowAt
    <3>8. /\ i - 2 \in Int /\ i - 2 >= 0 /\ ~((i - 2) + 1 <= n) /\ (i - 2) + 1 = i - 1
          /\ RowAt(first, n, i - 1, q) \in Int /\ RowAt(first, n, i - 1, q + 1) \in Int
      BY <1>1, <1>2, <2>1, <3>1
    <3>9. Adams!Mix(RowAt(first, n, i - 1, q), RowAt(first, n, i - 1, q + 1), i - 2, n) = -(i - 1)
      <4>1. PICK a \in Int : a = RowAt(first, n, i - 1, q)
        BY <3>8
      <4>2. PICK b \in Int : b = RowAt(first, n, i - 1, q + 1)
        BY <3>8
      <4>3. PICK j \in Int : j = i - 2
        BY <3>8
      <4>4. j >= 0 /\ ~(j + 1 <= n) /\ j + 1 = i - 1 /\ (a = j \/ a = -j) /\ (b = j \/ b = -j)
        BY <3>6, <3>7, <3>8, <4>1, <4>2, <4>3
      <4> HIDE DEF F, closed
      <4>5. Adams!Mix(a, b, j, n) = -(i - 1)
        BY <1>1, <4>4 DEF Adams!Mix, Adams!Abs
      <4> QED BY <4>1, <4>2, <4>3, <4>5
    <3> QED BY <2>2, <2>3, <3>2, <3>3, <3>9
  <2>4. CASE q > kord + 2 - i
    <3>1. RowAt(first, n, i, q) = RowAt(first, n, i - 1, q)
      BY <1>1, <2>1, <2>4 DEF RowAt
    <3> QED BY <2>2, <2>4, <3>1
  <2> QED BY <1>1, <2>3, <2>4
<1>5. closed = F(closed)
  <2>1. ASSUME NEW i \in n + 1..kord + 1 PROVE closed[i] = F(closed)[i]
    <3>1. CASE i = n + 1
      BY <1>3, <3>1
    <3>2. CASE i # n + 1
      <4>1. closed[i] = [q \in 1..AdamsOrder + 1 |-> RowAt(first, n, i, q)]
        BY <2>1, Zenon
      <4>2. F(closed)[i] =
              [q \in 1..AdamsOrder + 1 |->
                 IF q <= kord + 2 - i THEN Adams!Mix(closed[i - 1][q], closed[i - 1][q + 1], i - 2, n)
                 ELSE closed[i - 1][q]]
        BY <3>2
      <4> HIDE DEF closed, F
      <4>3. \A q \in 1..AdamsOrder + 1 :
              RowAt(first, n, i, q) =
                IF q <= kord + 2 - i THEN Adams!Mix(closed[i - 1][q], closed[i - 1][q + 1], i - 2, n)
                ELSE closed[i - 1][q]
        BY <1>4, <3>2
      <4> QED BY <4>1, <4>2, <4>3
    <3> QED BY <3>1, <3>2
  <2>2. closed = [i \in n + 1..kord + 1 |-> closed[i]]
    BY Zenon
  <2> HIDE DEF closed
  <2> QED BY <2>1, <2>2
<1>6. row = F(row)
  <2> HIDE DEF closed
  <2> QED BY <1>5
<1>7. Adams!Rows(first, n) = row
  BY DEF Adams!Rows
<1> HIDE DEF row
<1> DEFINE T == {i \in n + 1..kord + 1 : row[i] = closed[i]}
<1>8. n + 1 \in T
  BY <1>1, <1>3, <1>6
<1>9. ASSUME NEW i \in (n + 1) + 1..kord + 1, i - 1 \in T PROVE i \in T
  <2>1. i \in n + 1..kord + 1 /\ i # n + 1
    BY <1>1
  <2> DEFINE Next(f) == [q \in 1..AdamsOrder + 1 |->
                        IF q <= kord + 2 - i THEN Adams!Mix(f[q], f[q + 1], i - 2, n)
                        ELSE f[q]]
  <2>2. F(row)[i] = Next(row[i - 1]) /\ F(closed)[i] = Next(closed[i - 1])
    BY <2>1
  <2>3. row[i - 1] = closed[i - 1]
    BY <1>9
  <2> HIDE DEF F, closed, Next
  <2>4. row[i] = closed[i]
    BY <1>5, <1>6, <2>2, <2>3, Zenon
  <2> QED BY <2>1, <2>4
<1> HIDE DEF T
<1>10. \A i \in n + 1..kord + 1 : i \in T
  <2>1. n + 1 \in Int /\ kord + 1 \in Int
    BY <1>1
  <2> QED BY <1>8, <1>9, <2>1, Along, Zenon
<1>11. \A i \in n + 1..kord + 1 : row[i] = closed[i]
  BY <1>10 DEF T
<1> QED BY <1>7, <1>11

\* A falling stack has its least entry on top.
LEMMA StackAbove ==
  ASSUME NEW m \in Nat, NEW stack, \A i \in 1..m : stack[i] \in Int,
         \A i \in 1..m - 1 : stack[i + 1] < stack[i]
  PROVE  \A i \in 1..m : stack[i] >= stack[m]
<1> SUFFICES ASSUME m >= 1 PROVE \A i \in 1..m : stack[i] >= stack[m]
  OBVIOUS
<1> DEFINE T == {i \in 0..m - 1 : stack[m - i] >= stack[m]}
<1>1. m - 1 \in Nat /\ 0 \in T
  OBVIOUS
<1>2. ASSUME NEW i \in 1..m - 1, i - 1 \in T PROVE i \in T
  <2>1. m - i \in 1..m - 1 /\ m - i \in 1..m /\ (m - i) + 1 = m - (i - 1) /\ m - (i - 1) \in 1..m
    OBVIOUS
  <2>2. stack[(m - i) + 1] < stack[m - i] /\ stack[m - (i - 1)] >= stack[m]
    BY <1>2, <2>1
  <2>3. stack[m - i] \in Int /\ stack[m - (i - 1)] \in Int /\ stack[m] \in Int
    BY <2>1
  <2>4. stack[m - i] >= stack[m]
    BY <2>1, <2>2, <2>3
  <2> QED BY <2>4
<1> HIDE DEF T
<1>3. \A i \in 0..m - 1 : i \in T
  BY <1>1, <1>2, UpTo
<1>4. ASSUME NEW i \in 1..m PROVE stack[i] >= stack[m]
  <2>1. m - i \in 0..m - 1 /\ m - (m - i) = i
    OBVIOUS
  <2>2. stack[m - (m - i)] >= stack[m]
    BY <1>3, <2>1 DEF T
  <2> QED BY <2>1, <2>2
<1> QED BY <1>4

\* Below the stack they begin with equal numbers.
LEMMA StairsBegin ==
  ASSUME NEW array, NEW order \in Int, NEW stack \in Seq(Int), NEW done \in Int, done >= 1,
         Stairs(array, order, stack, done), Len(stack) > 0 => stack[Len(stack)] >= order + 3 - done
  PROVE  \A q \in 1..order + 1 - done : array[q] = done
<1>1. PICK m \in Nat : m = Len(stack)
  BY LenProperties
<1>2. \A q \in 1..order :
        m = 0 \/ q < stack[m] => array[q] = IF q <= order + 1 - done THEN done ELSE order + 1 - q
  BY <1>1 DEF Stairs
<1>3. ASSUME NEW q \in 1..order + 1 - done PROVE array[q] = done
  <2>1. q \in 1..order
    OBVIOUS
  <2>2. m = 0 \/ q < stack[m]
    <3> SUFFICES ASSUME m # 0 PROVE q < stack[m]
      OBVIOUS
    <3>1. stack[m] >= order + 3 - done /\ stack[m] \in Int
      BY <1>1, ElementOfSeq
    <3> QED BY <3>1
  <2> QED BY <1>2, <2>1, <2>2
<1> QED BY <1>3

\* No number of them is used up.
LEMMA StairsPositive ==
  ASSUME NEW array, NEW order \in Nat, NEW stack \in Seq(Int), NEW done \in Int, done >= 1,
         Stairs(array, order, stack, done), NEW q \in 1..order + Len(stack)
  PROVE  array[q] \in Int /\ array[q] >= 1
<1>1. PICK m \in Nat : m = Len(stack)
  BY LenProperties
<1>2. /\ \A i \in 1..m : stack[i] <= order + m + 1 - i
      /\ \A i \in 1..m - 1 : stack[i + 1] < stack[i]
      /\ \A p \in 1..order :
           m = 0 \/ p < stack[m] => array[p] = IF p <= order + 1 - done THEN done ELSE order + 1 - p
      /\ \A i \in 1..m : \A p \in stack[i]..order + m :
           i = 1 \/ p < stack[i - 1] => array[p] = order + m - i + 2 - p
  BY <1>1 DEF Stairs
<1>3. \A i \in 1..m : stack[i] \in Int
  BY <1>1, ElementOfSeq
<1>4. CASE m = 0 \/ q < stack[m]
  <2>1. q <= order
    <3>1. CASE m = 0
      BY <1>1, <3>1
    <3>2. CASE m # 0
      <4>1. m \in 1..m /\ stack[m] <= order + m + 1 - m
        BY <1>2, <3>2
      <4> QED BY <1>3, <1>4, <3>2, <4>1
    <3> QED BY <3>1, <3>2
  <2>2. array[q] = IF q <= order + 1 - done THEN done ELSE order + 1 - q
    BY <1>2, <1>4, <2>1
  <2> QED BY <2>1, <2>2
<1>5. CASE ~(m = 0 \/ q < stack[m])
  <2> DEFINE At == {i \in 1..m : stack[i] <= q}
  <2>1. m \in At /\ At \subseteq Nat
    BY <1>3, <1>5
  <2>2. PICK i \in At : \A c \in At : i <= c
    <3> HIDE DEF At
    <3> QED BY <2>1, LeastNatural
  <2>3. i \in 1..m /\ stack[i] <= q /\ q <= order + m
    BY <1>1
  <2>4. CASE i = 1
    <3>1. array[q] = order + m - i + 2 - q
      BY <1>2, <1>3, <2>3, <2>4
    <3> QED BY <2>3, <2>4, <3>1
  <2>5. CASE i # 1
    <3>1. i - 1 \in 1..m /\ i - 1 \notin At
      BY <2>2, <2>3, <2>5
    <3>2. q < stack[i - 1]
      BY <1>3, <3>1
    <3>4. stack[i - 1] \in Int /\ stack[i - 1] <= order + m + 1 - (i - 1)
      BY <1>2, <1>3, <3>1
    <3>5. q \in stack[i]..order + m
      BY <1>3, <2>3
    <3>3. array[q] = order + m - i + 2 - q
      BY <1>2, <2>3, <3>2, <3>5
    <3> QED BY <2>3, <3>2, <3>3, <3>4
  <2> QED BY <2>4, <2>5
<1> QED BY <1>4, <1>5

\* One more update of the numbers of equal index.
LEMMA StairsExtended ==
  ASSUME NEW k \in Int, NEW n \in 2..k, NEW stack \in Seq(Int), NEW old, NEW new,
         Stairs(old, k, stack, n - 1), Len(stack) > 0 => stack[Len(stack)] >= k + 4 - n,
         \A q \in 1..k + Len(stack) : new[q] = IF q <= k + 1 - n THEN n ELSE old[q]
  PROVE  Stairs(new, k, stack, n)
<1>1. PICK m \in Nat : m = Len(stack)
  BY LenProperties
<1>2. \A i \in 1..m : stack[i] \in Int
  BY <1>1, ElementOfSeq
<1>3. \A i \in 1..m : stack[i] <= k + m + 1 - i
  BY <1>1 DEF Stairs
<1>4. \A i \in 1..m - 1 : stack[i + 1] < stack[i]
  BY <1>1 DEF Stairs
<1>5. \A q \in 1..k :
        m = 0 \/ q < stack[m] => old[q] = IF q <= k + 1 - (n - 1) THEN n - 1 ELSE k + 1 - q
  BY <1>1 DEF Stairs
<1>6. \A i \in 1..m : \A q \in stack[i]..k + m :
        i = 1 \/ q < stack[i - 1] => old[q] = k + m - i + 2 - q
  BY <1>1 DEF Stairs
<1>7. ASSUME NEW q \in 1..k, m = 0 \/ q < stack[m]
      PROVE  new[q] = IF q <= k + 1 - n THEN n ELSE k + 1 - q
  BY <1>1, <1>5, <1>7
<1>8. ASSUME NEW i \in 1..m PROVE stack[i] >= k + 4 - n
  <2>1. stack[i] >= stack[m]
    BY <1>1, <1>2, <1>4, StackAbove
  <2> QED BY <1>1, <1>2, <2>1
<1>9. ASSUME NEW i \in 1..m, NEW q \in stack[i]..k + m, i = 1 \/ q < stack[i - 1]
      PROVE  new[q] = k + m - i + 2 - q
  <2>1. q \in 1..k + m /\ ~(q <= k + 1 - n)
    BY <1>2, <1>8
  <2>2. old[q] = k + m - i + 2 - q
    BY <1>6, <1>9
  <2> QED BY <1>1, <2>1, <2>2
<1> QED BY <1>1, <1>3, <1>4, <1>7, <1>9 DEF Stairs

\* An order given up leaves an entry, where the numbers of the order before are
\* one further on.
LEMMA StairsLowered ==
  ASSUME NEW k \in Int, NEW n \in 2..k, NEW stack \in Seq(Int), NEW old, NEW new, NEW mark \in Int,
         Stairs(old, k + 1, stack, n - 1), Len(stack) > 0 => stack[Len(stack)] >= k + 5 - n,
         \A q \in 1..k + 1 + Len(stack) : new[q] = IF q <= k + 1 - n THEN n ELSE old[q],
         mark = k + 3 - n
  PROVE  Stairs(new, k, Append(stack, mark), n)
<1>1. PICK m \in Nat : m = Len(stack)
  BY LenProperties
<1> DEFINE pushed == Append(stack, mark)
<1>2. /\ pushed \in Seq(Int) /\ Len(pushed) = m + 1 /\ pushed[m + 1] = mark
      /\ \A i \in 1..m : pushed[i] = stack[i]
  BY <1>1, AppendProperties
<1> HIDE DEF pushed
<1>3. \A i \in 1..m : stack[i] \in Int
  BY <1>1, ElementOfSeq
<1>4. \A i \in 1..m : stack[i] <= (k + 1) + m + 1 - i
  BY <1>1 DEF Stairs
<1>5. \A i \in 1..m - 1 : stack[i + 1] < stack[i]
  BY <1>1 DEF Stairs
<1>6. \A q \in 1..k + 1 :
        m = 0 \/ q < stack[m] => old[q] = IF q <= (k + 1) + 1 - (n - 1) THEN n - 1 ELSE (k + 1) + 1 - q
  BY <1>1 DEF Stairs
<1>7. \A i \in 1..m : \A q \in stack[i]..(k + 1) + m :
        i = 1 \/ q < stack[i - 1] => old[q] = (k + 1) + m - i + 2 - q
  BY <1>1 DEF Stairs
<1>8. ASSUME NEW i \in 1..m PROVE stack[i] >= k + 5 - n
  <2>1. stack[i] >= stack[m]
    BY <1>1, <1>3, <1>5, StackAbove
  <2> QED BY <1>1, <1>3, <2>1
<1>9. m > 0 => stack[m] <= k + 2 /\ stack[m] >= k + 5 - n /\ stack[m] \in Int
  <2> SUFFICES ASSUME m > 0 PROVE stack[m] <= k + 2 /\ stack[m] >= k + 5 - n /\ stack[m] \in Int
    OBVIOUS
  <2>1. m \in 1..m
    OBVIOUS
  <2> QED BY <1>3, <1>4, <1>8, <2>1
<1>10. \A i \in 1..m + 1 : pushed[i] <= k + (m + 1) + 1 - i
  <2>1. ASSUME NEW i \in 1..m + 1 PROVE pushed[i] <= k + (m + 1) + 1 - i
    <3>1. CASE i = m + 1
      BY <1>2, <3>1
    <3>2. CASE i # m + 1
      <4>1. i \in 1..m
        BY <3>2
      <4>2. stack[i] <= (k + 1) + m + 1 - i /\ pushed[i] = stack[i] /\ stack[i] \in Int
        BY <1>2, <1>3, <1>4, <4>1
      <4> QED BY <4>2
    <3> QED BY <3>1, <3>2
  <2> QED BY <2>1
<1>11. \A i \in 1..(m + 1) - 1 : pushed[i + 1] < pushed[i]
  <2>1. ASSUME NEW i \in 1..m PROVE pushed[i + 1] < pushed[i]
    <3>1. CASE i = m
      <4>1. pushed[i + 1] = mark /\ pushed[i] = stack[m] /\ m > 0
        BY <1>2, <3>1
      <4> QED BY <1>9, <4>1
    <3>2. CASE i # m
      <4>1. i \in 1..m - 1 /\ i + 1 \in 1..m
        BY <3>2
      <4> QED BY <1>2, <1>5, <4>1
    <3> QED BY <3>1, <3>2
  <2> QED BY <2>1
<1>12. ASSUME NEW q \in 1..k, q < mark PROVE new[q] = IF q <= k + 1 - n THEN n ELSE k + 1 - q
  <2>1. q \in 1..k + 1 + m /\ q \in 1..k + 1
    OBVIOUS
  <2>2. m = 0 \/ q < stack[m]
    BY <1>9, <1>12
  <2>3. old[q] = IF q <= (k + 1) + 1 - (n - 1) THEN n - 1 ELSE (k + 1) + 1 - q
    BY <1>6, <2>1, <2>2
  <2>4. new[q] = IF q <= k + 1 - n THEN n ELSE old[q]
    BY <1>1, <2>1
  <2> QED BY <1>12, <2>3, <2>4
<1>13. ASSUME NEW i \in 1..m + 1, NEW q \in pushed[i]..k + (m + 1), i = 1 \/ q < pushed[i - 1]
       PROVE  new[q] = k + (m + 1) - i + 2 - q
  <2>1. CASE i = m + 1
    <3>1. q >= mark /\ q \in Int /\ q <= k + m + 1 /\ q \in 1..k + 1 + m
      BY <1>2, <2>1
    <3>2. m = 0 \/ q < stack[m]
      <4>1. m # 0 => i - 1 = m /\ m \in 1..m /\ i # 1
        BY <2>1
      <4> QED BY <1>2, <1>13, <4>1
    <3>3. q \in 1..k + 1
      BY <1>9, <3>1, <3>2
    <3>4. old[q] = IF q <= (k + 1) + 1 - (n - 1) THEN n - 1 ELSE (k + 1) + 1 - q
      BY <1>6, <3>2, <3>3
    <3>5. old[q] = k + 2 - q
      BY <3>1, <3>4
    <3>6. new[q] = IF q <= k + 1 - n THEN n ELSE old[q]
      BY <1>1, <3>1
    <3> QED BY <2>1, <3>1, <3>5, <3>6
  <2>2. CASE i # m + 1
    <3>1. i \in 1..m /\ pushed[i] = stack[i] /\ stack[i] \in Int /\ stack[i] >= k + 5 - n
      BY <1>2, <1>3, <1>8, <2>2
    <3>2. q \in stack[i]..(k + 1) + m /\ q \in 1..k + 1 + m /\ ~(q <= k + 1 - n)
      BY <3>1
    <3>3. i = 1 \/ q < stack[i - 1]
      <4>1. i # 1 => i - 1 \in 1..m
        BY <3>1
      <4> QED BY <1>2, <1>13, <4>1
    <3>4. old[q] = (k + 1) + m - i + 2 - q
      BY <1>7, <3>1, <3>2, <3>3
    <3>5. new[q] = old[q]
      BY <1>1, <3>2
    <3> QED BY <3>2, <3>4, <3>5
  <2> QED BY <2>1, <2>2
<1>14. Stairs(new, k, pushed, n)
  BY <1>2, <1>10, <1>11, <1>12, <1>13 DEF Stairs
<1> QED BY <1>14 DEF pushed

\* A raised order without a stack: the diagonal is rebuilt from its start.
LEMMA StairsRaised ==
  ASSUME NEW k \in Int, NEW n \in 2..k, NEW old, NEW new, Stairs(old, k - 1, <<>>, n - 1),
         \A q \in 1..k : new[q] = IF q >= k + 2 - n THEN k + 1 - q ELSE old[q]
  PROVE  Stairs(new, k, <<>>, n - 1)
<1>1. \A q \in 1..k - 1 : old[q] = IF q <= (k - 1) + 1 - (n - 1) THEN n - 1 ELSE (k - 1) + 1 - q
  BY DEF Stairs
<1>2. ASSUME NEW q \in 1..k PROVE new[q] = IF q <= k + 1 - (n - 1) THEN n - 1 ELSE k + 1 - q
  <2>1. CASE q >= k + 2 - n
    BY <2>1
  <2>2. CASE q < k + 2 - n
    <3>1. q \in 1..k - 1 /\ q <= (k - 1) + 1 - (n - 1) /\ q <= k + 1 - (n - 1)
      BY <2>2
    <3> QED BY <1>1, <2>2, <3>1
  <2> QED BY <2>1, <2>2
<1>3. Len(<<>>) = 0
  OBVIOUS
<1> QED BY <1>2, <1>3 DEF Stairs

\* A raised order with a stack: it is rebuilt up to the top, which is popped.
LEMMA StairsPopped ==
  ASSUME NEW k \in Int, NEW n \in 2..k, NEW stack \in Seq(Int), NEW old, NEW new,
         NEW m \in Nat, m = Len(stack), m > 0, NEW top \in Int, top = stack[m], top >= k + 3 - n,
         Stairs(old, k - 1, stack, n - 1),
         \A q \in 1..k + m - 1 : new[q] = IF q \in k + 2 - n..top - 1 THEN k + 1 - q ELSE old[q]
  PROVE  Stairs(new, k, SubSeq(stack, 1, m - 1), n - 1)
<1> DEFINE popped == SubSeq(stack, 1, m - 1)
<1>1. m - 1 \in Nat /\ m \in 1..m /\ m - 1 <= Len(stack) /\ 1 \in Int
  OBVIOUS
<1>2. popped \in Seq(Int) /\ Len(popped) = m - 1 /\ \A i \in 1..m - 1 : popped[i] = stack[i]
  BY <1>1, SubSeqProperties
<1> HIDE DEF popped
<1>3. \A i \in 1..m : stack[i] \in Int
  BY ElementOfSeq
<1>4. \A i \in 1..m : stack[i] <= (k - 1) + m + 1 - i
  BY DEF Stairs
<1>5. \A i \in 1..m - 1 : stack[i + 1] < stack[i]
  BY DEF Stairs
<1>6. \A q \in 1..k - 1 :
        q < stack[m] => old[q] = IF q <= (k - 1) + 1 - (n - 1) THEN n - 1 ELSE (k - 1) + 1 - q
  BY DEF Stairs
<1>7. \A i \in 1..m : \A q \in stack[i]..(k - 1) + m :
        i = 1 \/ q < stack[i - 1] => old[q] = (k - 1) + m - i + 2 - q
  BY DEF Stairs
<1>8. top <= k
  BY <1>1, <1>4
<1>9. ASSUME NEW i \in 1..m - 1 PROVE stack[i] > top
  <2>1. i \in 1..m /\ i + 1 \in 1..m
    OBVIOUS
  <2>2. stack[i + 1] >= stack[m]
    BY <1>3, <1>5, <2>1, StackAbove
  <2> QED BY <1>3, <1>5, <2>1, <2>2
<1>10. \A i \in 1..m - 1 : popped[i] <= k + (m - 1) + 1 - i
  <2>1. ASSUME NEW i \in 1..m - 1 PROVE popped[i] <= k + (m - 1) + 1 - i
    <3>1. i \in 1..m
      OBVIOUS
    <3>3. popped[i] = stack[i] /\ stack[i] \in Int
      BY <1>2, <1>3, <3>1
    <3>2. stack[i] <= (k - 1) + m + 1 - i
      BY <1>4, <3>1
    <3> QED BY <3>1, <3>2, <3>3
  <2> QED BY <2>1
<1>11. \A i \in 1..(m - 1) - 1 : popped[i + 1] < popped[i]
  <2>1. ASSUME NEW i \in 1..(m - 1) - 1 PROVE popped[i + 1] < popped[i]
    <3>1. i \in 1..m - 1 /\ i + 1 \in 1..m - 1
      OBVIOUS
    <3> QED BY <1>2, <1>5, <3>1
  <2> QED BY <2>1
<1>12. ASSUME NEW q \in 1..k, m - 1 = 0 \/ q < popped[m - 1]
       PROVE  new[q] = IF q <= k + 1 - (n - 1) THEN n - 1 ELSE k + 1 - q
  <2>1. q \in 1..k + m - 1
    OBVIOUS
  <2>2. CASE q \in k + 2 - n..top - 1
    BY <2>1, <2>2
  <2>3. CASE q < k + 2 - n
    <3>1. q \in 1..k - 1 /\ q < stack[m] /\ q <= (k - 1) + 1 - (n - 1) /\ q <= k + 1 - (n - 1)
      BY <2>3
    <3>2. old[q] = n - 1
      BY <1>6, <3>1
    <3>3. new[q] = old[q]
      BY <2>1, <2>3
    <3> QED BY <3>1, <3>2, <3>3
  <2>4. CASE q >= top
    <3>1. q \in stack[m]..(k - 1) + m /\ m \in 1..m
      BY <2>4
    <3>2. m = 1 \/ q < stack[m - 1]
      <4> SUFFICES ASSUME m # 1 PROVE q < stack[m - 1]
        OBVIOUS
      <4>1. m - 1 \in 1..m - 1 /\ m - 1 # 0
        OBVIOUS
      <4>2. popped[m - 1] = stack[m - 1]
        BY <1>2, <4>1
      <4> QED BY <1>12, <4>1, <4>2
    <3>3. old[q] = (k - 1) + m - m + 2 - q
      BY <1>7, <3>1, <3>2
    <3>4. new[q] = old[q]
      BY <2>1, <2>4
    <3> QED BY <2>4, <3>3, <3>4
  <2> QED BY <2>2, <2>3, <2>4
<1>13. ASSUME NEW i \in 1..m - 1, NEW q \in popped[i]..k + (m - 1), i = 1 \/ q < popped[i - 1]
       PROVE  new[q] = k + (m - 1) - i + 2 - q
  <2>6. i \in 1..m /\ i \in Int
    OBVIOUS
  <2>1. popped[i] = stack[i] /\ stack[i] \in Int /\ stack[i] > top
    BY <1>2, <1>3, <1>9, <2>6
  <2>7. q \in Int /\ stack[i] <= q /\ q <= (k - 1) + m
    BY <2>1
  <2>8. q \in stack[i]..(k - 1) + m
    BY <2>1, <2>7
  <2>9. PICK s \in Int : s = stack[i] /\ s > top /\ s <= q
    BY <2>1, <2>7
  <2>10. q \in 1..k + m - 1 /\ ~(q \in k + 2 - n..top - 1)
    <3>1. s \in Int /\ s > top /\ s <= q /\ top \in Int /\ top >= k + 3 - n /\ n <= k /\ n \in Int
      BY <2>9
    <3>2. q \in Int /\ q <= k + m - 1
      BY <2>7
    <3>3. q > top
      BY <3>1, <3>2
    <3>4. top >= 3
      BY <3>1
    <3>5. q >= 1
      BY <3>2, <3>3, <3>4
    <3> QED BY <3>2, <3>3, <3>5
  <2>2. q \in stack[i]..(k - 1) + m /\ q \in 1..k + m - 1 /\ ~(q \in k + 2 - n..top - 1)
    BY <2>8, <2>10
  <2>3. i = 1 \/ q < stack[i - 1]
    <3>1. i # 1 => i - 1 \in 1..m - 1
      OBVIOUS
    <3> QED BY <1>2, <1>13, <3>1
  <2>4. old[q] = (k - 1) + m - i + 2 - q
    BY <1>7, <2>2, <2>3, <2>6
  <2>5. new[q] = old[q]
    BY <2>2
  <2> QED BY <2>2, <2>4, <2>5
<1>14. Stairs(new, k, popped, n - 1)
  <2>1. PICK l \in Nat : l = m - 1
    BY <1>1
  <2>2. /\ \A i \in 1..l : popped[i] <= k + l + 1 - i
        /\ \A i \in 1..l - 1 : popped[i + 1] < popped[i]
    BY <1>10, <1>11, <2>1
  <2>3. \A q \in 1..k :
          l = 0 \/ q < popped[l] => new[q] = IF q <= k + 1 - (n - 1) THEN n - 1 ELSE k + 1 - q
    BY <1>12, <2>1
  <2>4. \A i \in 1..l : \A q \in popped[i]..k + l :
          i = 1 \/ q < popped[i - 1] => new[q] = k + l - i + 2 - q
    BY <1>13, <2>1
  <2>5. Len(popped) = l
    BY <1>2, <2>1
  <2> QED BY <2>2, <2>3, <2>4, <2>5 DEF Stairs
<1> QED BY <1>14 DEF popped

\* The numbers v the update of the tables starts from.
Begun == IF iv = <<>> THEN [v EXCEPT ![kord] = 1] ELSE v

\* The diagonal through v(k): each number is one further on than its neighbour.
LEMMA DiagonalOf ==
  ASSUME AdamsOrder \in Nat, kord \in 1..AdamsOrder, NEW n \in 2..kord,
         NEW r \in 1..n - 1, r = Adams!RaisedFrom,
         Begun[kord + 1 - r] = r, \A j \in r..n - 2 : Begun[kord - j] = j
  PROVE  Adams!Diagonal(n) =
           [i \in 1..AdamsOrder + 1 |-> IF kord - i \in r..n - 2 THEN kord + 1 - i ELSE Begun[i]]
<1> DEFINE F(f) ==
             [j \in r - 1..n - 2 |->
                IF j < r THEN Begun[kord + 1 - r] ELSE Adams!Mix(Begun[kord - j], f[j - 1], j, n)]
           closed == [j \in r - 1..n - 2 |-> j + 1]
           up == CHOOSE f : f = F(f)
<1>1. r \in Int /\ n \in Int /\ 1 <= r /\ r - 1 <= n - 2
  OBVIOUS
<1>2. \A j \in r..n - 2 : Adams!Mix(Begun[kord - j], j, j, n) = j + 1
  BY <1>1 DEF Adams!Mix, Adams!Abs
<1>3. closed = F(closed)
  <2>1. ASSUME NEW j \in r - 1..n - 2 PROVE closed[j] = F(closed)[j]
    <3>1. CASE j < r
      BY <1>1, <3>1
    <3>2. CASE j >= r
      <4>1. j - 1 \in r - 1..n - 2 /\ j \in r..n - 2
        BY <1>1, <3>2
      <4>2. closed[j - 1] = j /\ closed[j] = j + 1
        BY <4>1
      <4>3. F(closed)[j] = Adams!Mix(Begun[kord - j], closed[j - 1], j, n)
        BY <3>2
      <4> HIDE DEF F, closed
      <4> QED BY <1>2, <4>1, <4>2, <4>3
    <3> QED BY <1>1, <3>1, <3>2
  <2>2. closed = [j \in r - 1..n - 2 |-> closed[j]]
    OBVIOUS
  <2> HIDE DEF closed
  <2> QED BY <2>1, <2>2
<1>4. up = F(up)
  <2> HIDE DEF closed
  <2> QED BY <1>3
<1>5. Adams!Diagonal(n) =
        [i \in 1..AdamsOrder + 1 |-> IF kord - i \in r..n - 2 THEN up[kord - i] ELSE Begun[i]]
  BY DEF Adams!Diagonal, Begun
<1> HIDE DEF up
<1> DEFINE T == {j \in r - 1..n - 2 : up[j] = j + 1}
<1>6. r - 1 \in T
  BY <1>1, <1>4
<1>7. ASSUME NEW j \in (r - 1) + 1..n - 2, j - 1 \in T PROVE j \in T
  <2>1. j \in r..n - 2 /\ j \in r - 1..n - 2 /\ ~(j < r) /\ (j - 1) + 1 = j
    BY <1>1
  <2>2. up[j - 1] = j
    BY <1>7, <2>1
  <2>3. F(up)[j] = Adams!Mix(Begun[kord - j], up[j - 1], j, n)
    BY <2>1
  <2> HIDE DEF F
  <2>4. up[j] = j + 1
    BY <1>2, <1>4, <2>1, <2>2, <2>3
  <2> QED BY <2>1, <2>4
<1> HIDE DEF T
<1>8. \A j \in r - 1..n - 2 : j \in T
  <2>1. PICK a \in Int : a = r - 1
    BY <1>1
  <2>2. PICK b \in Int : b = n - 2
    BY <1>1
  <2>3. a \in T
    BY <1>6, <2>1
  <2>4. \A j \in a + 1..b : j - 1 \in T => j \in T
    BY <1>7, <2>1, <2>2
  <2>5. \A j \in a..b : j \in T
    BY <2>3, <2>4, Along, Zenon
  <2> QED BY <2>1, <2>2, <2>5
<1>9. \A j \in r - 1..n - 2 : up[j] = j + 1
  BY <1>8 DEF T
<1>10. \A i \in 1..AdamsOrder + 1 : kord - i \in r..n - 2 => up[kord - i] = kord + 1 - i
  BY <1>1, <1>9
<1> QED BY <1>5, <1>10

\* The chain of interp through w: each number is one further on.
LEMMA GdiOf ==
  ASSUME AdamsOrder \in Nat, kold \in 1..AdamsOrder, ~(kold <= kgi), NEW m \in 2..kold + 1,
         m = IF iv = <<>> THEN 2 ELSE kold - iv[Len(iv)] + 3,
         (IF iv = <<>> THEN 1 ELSE w[iv[Len(iv)]]) = m - 1,
         \A q \in 2..kold + 2 - m : w[q] = kold + 1 - q \/ w[q] = -(kold + 1 - q)
  PROVE  Adams!Gdi = kold
<1> DEFINE base == IF iv = <<>> THEN 1 ELSE w[iv[Len(iv)]]
           F(f) ==
             [i \in m - 1..kold |->
                IF i = m - 1 THEN base ELSE Adams!Mix(w[kold + 2 - i], f[i - 1], i - 1, AdamsOrder)]
           closed == [i \in m - 1..kold |-> i]
           chain == CHOOSE f : f = F(f)
<1>1. m \in Int /\ kold \in Int /\ 2 <= m /\ m - 1 <= kold /\ kold <= AdamsOrder
  OBVIOUS
<1>2. ASSUME NEW i \in m..kold PROVE Adams!Mix(w[kold + 2 - i], i - 1, i - 1, AdamsOrder) = i
  <2>1. PICK q \in Int : q = kold + 2 - i
    BY <1>1
  <2>2. PICK j \in Int : j = i - 1
    BY <1>1
  <2>3. q \in 2..kold + 2 - m /\ kold + 1 - q = j /\ j >= 0 /\ j + 1 <= AdamsOrder /\ j + 1 = i
    BY <1>1, <2>1, <2>2
  <2>4. w[q] = j \/ w[q] = -j
    BY <2>3
  <2> HIDE DEF F, closed, base
  <2>5. Adams!Mix(w[q], j, j, AdamsOrder) = j + 1
    BY <2>3, <2>4 DEF Adams!Mix, Adams!Abs
  <2> QED BY <2>1, <2>2, <2>3, <2>5
<1>3. closed = F(closed)
  <2>1. ASSUME NEW i \in m - 1..kold PROVE closed[i] = F(closed)[i]
    <3>1. CASE i = m - 1
      BY <1>1, <3>1
    <3>2. CASE i # m - 1
      <4>1. i - 1 \in m - 1..kold /\ i \in m..kold
        BY <1>1, <3>2
      <4>2. closed[i - 1] = i - 1 /\ closed[i] = i
        BY <4>1
      <4>3. F(closed)[i] = Adams!Mix(w[kold + 2 - i], closed[i - 1], i - 1, AdamsOrder)
        BY <3>2
      <4> HIDE DEF F, closed
      <4> QED BY <1>2, <4>1, <4>2, <4>3
    <3> QED BY <3>1, <3>2
  <2>2. closed = [i \in m - 1..kold |-> closed[i]]
    OBVIOUS
  <2> HIDE DEF closed
  <2> QED BY <2>1, <2>2
<1>4. chain = F(chain)
  <2> HIDE DEF closed
  <2> QED BY <1>3
<1>5. Adams!Gdi = chain[kold]
  BY DEF Adams!Gdi
<1> HIDE DEF chain
<1> DEFINE T == {i \in m - 1..kold : chain[i] = i}
<1>6. ASSUME NEW i \in m..kold, i - 1 \in T PROVE i \in T
  <2>1. i \in m - 1..kold /\ i # m - 1
    BY <1>1
  <2>2. chain[i - 1] = i - 1
    BY <1>6
  <2>3. F(chain)[i] = Adams!Mix(w[kold + 2 - i], chain[i - 1], i - 1, AdamsOrder)
    BY <2>1
  <2> HIDE DEF F
  <2>4. chain[i] = i
    BY <1>2, <1>4, <2>1, <2>2, <2>3
  <2> QED BY <2>1, <2>4
<1>7. m - 1 \in T
  BY <1>1, <1>4
<1> HIDE DEF T
<1>8. \A i \in m - 1..kold : i \in T
  <2>1. PICK a \in Int : a = m - 1
    BY <1>1
  <2>2. a \in T
    BY <1>7, <2>1
  <2>3. \A i \in a + 1..kold : i - 1 \in T => i \in T
    BY <1>1, <1>6, <2>1
  <2>4. \A i \in a..kold : i \in T
    BY <1>1, <2>2, <2>3, Along, Zenon
  <2> QED BY <2>1, <2>4
<1>9. kold \in T
  BY <1>1, <1>8
<1> QED BY <1>5, <1>9 DEF T

\* A sequence of some numbers.
LEMMA ListOfNumbers ==
  ASSUME NEW S, S \subseteq Int, NEW s \in Seq(S)
  PROVE  s \in Seq(Int) /\ Len(s) \in Nat /\ \A i \in 1..Len(s) : s[i] \in S
<1>1. Len(s) \in Nat /\ \A i \in 1..Len(s) : s[i] \in S
  BY LenProperties, ElementOfSeq
<1>2. s \in [1..Len(s) -> Int]
  BY <1>1, LenProperties
<1>3. s \in Seq(Int)
  BY <1>1, <1>2, ListOf
<1> QED BY <1>1, <1>3

\* The numbers of DDEABM.
LEMMA AdamsNumbers ==
  ASSUME MultistepAssumption, LengthsAssumption
  PROVE  /\ AdamsOrder \in Nat /\ AdamsOrder >= 2 /\ AdamsSizes \subseteq Nat
         /\ \A s \in AdamsSizes : s \in Int /\ s >= 1
         /\ Adams!Largest \in AdamsSizes /\ Adams!Smallest \in AdamsSizes
         /\ \A s \in AdamsSizes : Adams!Min({Adams!Largest, 2 * s}) \in AdamsSizes
<1>1. /\ AdamsOrder \in Nat /\ AdamsOrder >= 2 /\ AdamsSizes \subseteq Nat
      /\ \A s \in AdamsSizes : s \in Int /\ s >= 1
  BY DEF MultistepAssumption, LengthsAssumption
<1>2. PICK top \in AdamsSizes : \A s \in AdamsSizes : s <= top /\ (s = top \/ 2 * s \in AdamsSizes)
  BY DEF LengthsAssumption
<1>3. Adams!Largest = top
  <2> DEFINE most == CHOOSE s \in AdamsSizes : \A z \in AdamsSizes : s >= z
  <2>1. most \in AdamsSizes /\ \A z \in AdamsSizes : most >= z
    BY <1>1, <1>2
  <2>2. Adams!Largest = most
    BY Zenon DEF Adams!Largest, Adams!Max
  <2> HIDE DEF most
  <2> QED BY <1>1, <1>2, <2>1, <2>2
<1>4. Adams!Smallest \in AdamsSizes
  <2>1. \E s \in AdamsSizes : \A z \in AdamsSizes : s <= z
    BY <1>1, <1>2, LeastNatural
  <2> QED BY <2>1, Zenon DEF Adams!Smallest, Adams!Min
<1>5. ASSUME NEW s \in AdamsSizes PROVE Adams!Min({Adams!Largest, 2 * s}) \in AdamsSizes
  <2>1. PICK d \in Int : d = 2 * s
    BY <1>1
  <2>2. top \in Int /\ (s = top => top <= d) /\ (s # top => d \in AdamsSizes /\ d <= top)
    BY <1>1, <1>2, <2>1
  <2>3. \A a, b \in Int : Adams!Min({a, b}) = IF a <= b THEN a ELSE b
    BY DEF Adams!Min
  <2>4. Adams!Min({top, d}) = IF top <= d THEN top ELSE d
    BY <2>2, <2>3
  <2>5. Adams!Min({top, d}) \in AdamsSizes
    BY <1>2, <2>2, <2>4
  <2> QED BY <1>3, <2>1, <2>5
<1> QED BY <1>1, <1>2, <1>3, <1>4, <1>5

\* The state at the first entry.
LEMMA AdamsStarts ==
  ASSUME MultistepAssumption, LengthsAssumption, Adams!Init PROVE AdamsInv
<1>1. /\ pc = "idle" /\ kord = 1 /\ kold = 0 /\ kprev = 0 /\ ns = 0
      /\ start = TRUE /\ phase1 = TRUE /\ crashed = FALSE
      /\ h = Adams!Largest /\ hold = 0 /\ kgi = 0 /\ iv = <<>>
      /\ depth = 1 /\ last = <<>> /\ ifail = 0
  BY DEF Adams!Init
<1>2. /\ psi = [i \in 1..AdamsOrder |-> 0] /\ gi = psi
      /\ v = [i \in 1..AdamsOrder + 1 |-> 0] /\ w = v /\ g = v
  BY DEF Adams!Init
<1>3. 0 \in Adams!Indices /\ 1 \in 1..AdamsOrder /\ 0 \in 0..AdamsOrder /\ 0 \in 0..AdamsOrder + 1
  BY AdamsNumbers DEF Adams!Indices
<1>4. Len(iv) <= AdamsOrder - 2 /\ DOMAIN iv = {} /\ 1 \in 1..AdamsOrder + 2
  BY <1>1, AdamsNumbers
<1>5. Adams!TypeOK
  <2>1. /\ pc \in {"idle", "judge", "retry"} /\ {start, phase1, crashed} \subseteq BOOLEAN
        /\ h \in AdamsSizes /\ hold \in AdamsSizes \cup {0}
    BY <1>1, AdamsNumbers
  <2>2. /\ kord \in 1..AdamsOrder /\ kold \in 0..AdamsOrder /\ kprev \in 0..AdamsOrder
        /\ ns \in 0..AdamsOrder + 1 /\ kgi \in 0..AdamsOrder /\ depth \in 1..AdamsOrder + 2 /\ ifail \in 0..4
    BY <1>1, <1>3, <1>4
  <2>3. psi \in [1..AdamsOrder -> Int] /\ gi \in [1..AdamsOrder -> Adams!Indices]
    BY <1>2, <1>3
  <2>4. /\ v \in [1..AdamsOrder + 1 -> Adams!Indices] /\ w \in [1..AdamsOrder + 1 -> Adams!Indices]
        /\ g \in [1..AdamsOrder + 1 -> Adams!Indices]
    BY <1>2, <1>3
  <2>5. \A i \in DOMAIN iv : iv[i] \in 1..AdamsOrder + 1
    BY <1>4
  <2> QED BY <1>4, <2>1, <2>2, <2>3, <2>4, <2>5, Zenon DEF Adams!TypeOK
<1>6. Len(last) = 0 /\ last \in Seq(AdamsSizes) /\ iv \in Seq(1..AdamsOrder + 1) /\ ~(ns >= 1)
  BY <1>1
<1>7. AdamsOrders
  BY <1>1, <1>6 DEF AdamsOrders, Kept
<1>8. AdamsDistances
  BY <1>1, <1>6 DEF AdamsDistances, Kept
<1> QED BY <1>5, <1>6, <1>7, <1>8 DEF AdamsInv

\* The variables of the step.
LEMMA AdamsIdles ==
  ASSUME AdamsInv, UNCHANGED Adams!vars PROVE AdamsInv'
<1>1. UNCHANGED <<pc, kord, kold, kprev, ns, start, phase1, h, hold, psi, v, w, g, gi, kgi, iv, depth,
                  last, ifail, crashed>>
  BY DEF Adams!vars, Adams!coefficients
<1>2. Adams!TypeOK'
  BY <1>1 DEF AdamsInv, Adams!TypeOK
<1>3. AdamsOrders'
  BY <1>1 DEF AdamsInv, AdamsOrders, Kept
<1>4. AdamsDistances'
  BY <1>1 DEF AdamsInv, AdamsDistances, Kept, Done, Order, Adams!Way
<1>5. (ns >= 1 => AdamsStaircase /\ AdamsTaken)'
  BY <1>1 DEF AdamsInv, AdamsStaircase, AdamsTaken, Done, Order
<1> QED BY <1>2, <1>3, <1>4, <1>5 DEF AdamsInv

\* A cut to tstop changes the length only.
LEMMA AdamsClips ==
  ASSUME AdamsInv, Adams!Clip PROVE AdamsInv'
<1>1. /\ pc = "idle" /\ h' \in AdamsSizes
      /\ UNCHANGED <<pc, kord, kold, kprev, ns, start, phase1, hold, psi, v, w, g, gi, kgi, iv, depth,
                     last, ifail, crashed>>
  BY DEF Adams!Clip, Adams!coefficients
<1>2. Adams!TypeOK'
  BY <1>1 DEF AdamsInv, Adams!TypeOK
<1>3. AdamsOrders'
  BY <1>1 DEF AdamsInv, AdamsOrders, Kept
<1>4. AdamsDistances'
  BY <1>1 DEF AdamsInv, AdamsDistances, Kept, Done, Order, Adams!Way
<1>5. (ns >= 1 => AdamsStaircase /\ AdamsTaken)'
  BY <1>1 DEF AdamsInv, AdamsStaircase, AdamsTaken, Done, Order
<1> QED BY <1>2, <1>3, <1>4, <1>5 DEF AdamsInv

\* A failure takes the distances back and gives the length up.
LEMMA AdamsRejects ==
  ASSUME MultistepAssumption, LengthsAssumption, AdamsInv, Adams!Reject PROVE AdamsInv'
<1>1. /\ pc = "judge" /\ psi' = Adams!Restored /\ depth' = kord /\ ns' = 0 /\ phase1' = FALSE
      /\ UNCHANGED <<kold, start, hold, kprev, v, w, g, gi, kgi, iv, last>>
      /\ ifail' = Adams!Min({4, ifail + 1})
      /\ kord' \in IF ifail' >= 3 THEN {1} ELSE Adams!Kept
      /\ \/ h' \in AdamsSizes /\ pc' = "retry" /\ UNCHANGED crashed
         \/ h' = Adams!Smallest /\ pc' = "idle" /\ crashed' = TRUE
  BY DEF Adams!Reject
<1>2. kord \in 1..AdamsOrder /\ ifail \in 0..4 /\ AdamsOrder \in Nat
  BY AdamsNumbers DEF AdamsInv, Adams!TypeOK
<1>3. kord' \in 1..kord
  BY <1>1, <1>2 DEF Adams!Kept
<1>4. ifail' \in 0..4
  <2>1. PICK f \in Int : f = ifail + 1
    BY <1>2
  <2>2. \A a, b \in Int : Adams!Min({a, b}) = IF a <= b THEN a ELSE b
    BY DEF Adams!Min
  <2>3. Adams!Min({4, f}) = IF 4 <= f THEN 4 ELSE f
    BY <2>1, <2>2
  <2> QED BY <1>1, <1>2, <2>1, <2>3
<1>5. psi \in [1..AdamsOrder -> Int] /\ h \in AdamsSizes /\ h \in Int
  BY AdamsNumbers DEF AdamsInv, Adams!TypeOK
<1>6. psi' = [i \in 1..AdamsOrder |-> IF i < kord THEN psi[i + 1] - h ELSE psi[i]]
  BY <1>1 DEF Adams!Restored
<1>7. psi' \in [1..AdamsOrder -> Int]
  <2>1. ASSUME NEW i \in 1..AdamsOrder PROVE (IF i < kord THEN psi[i + 1] - h ELSE psi[i]) \in Int
    <3>1. CASE i < kord
      <4>1. i + 1 \in 1..AdamsOrder
        BY <1>2, <3>1
      <4>2. psi[i + 1] \in Int
        BY <1>5, <4>1
      <4>3. psi[i + 1] - h \in Int
        <5>1. PICK far \in Int : far = psi[i + 1]
          BY <4>2
        <5>2. far - h \in Int
          BY <1>5
        <5> QED BY <5>1, <5>2
      <4> QED BY <3>1, <4>3, Zenon
    <3>2. CASE ~(i < kord)
      BY <1>5, <3>2
    <3> QED BY <3>1, <3>2
  <2> QED BY <1>6, <2>1, Zenon
<1>8. h' \in AdamsSizes /\ pc' \in {"idle", "retry"} /\ crashed' \in BOOLEAN
  BY <1>1, AdamsNumbers DEF AdamsInv, Adams!TypeOK
<1>9. Adams!TypeOK'
  <2>1. /\ pc' \in {"idle", "judge", "retry"} /\ {start', phase1', crashed'} \subseteq BOOLEAN
        /\ h' \in AdamsSizes /\ hold' \in AdamsSizes \cup {0}
    BY <1>1, <1>8 DEF AdamsInv, Adams!TypeOK
  <2>2. kord' \in 1..AdamsOrder /\ ns' \in 0..AdamsOrder + 1 /\ depth' \in 1..AdamsOrder + 2
    BY <1>1, <1>2, <1>3
  <2>3. kold' \in 0..AdamsOrder /\ kprev' \in 0..AdamsOrder /\ kgi' \in 0..AdamsOrder
    BY <1>1 DEF AdamsInv, Adams!TypeOK
  <2>4. /\ v' \in [1..AdamsOrder + 1 -> Adams!Indices] /\ w' \in [1..AdamsOrder + 1 -> Adams!Indices]
        /\ g' \in [1..AdamsOrder + 1 -> Adams!Indices] /\ gi' \in [1..AdamsOrder -> Adams!Indices]
    BY <1>1 DEF AdamsInv, Adams!TypeOK
  <2>5. Len(iv') <= AdamsOrder - 2 /\ \A i \in DOMAIN iv' : iv'[i] \in 1..AdamsOrder + 1
    BY <1>1 DEF AdamsInv, Adams!TypeOK
  <2> QED BY <1>4, <1>7, <2>1, <2>2, <2>3, <2>4, <2>5, Zenon DEF Adams!TypeOK, Adams!Indices
<1>10. last \in Seq(AdamsSizes) /\ kold \in Int /\ kold <= Len(last) /\ kord <= Len(last) + 1 /\ kord <= kold + 1
  BY DEF AdamsInv, AdamsOrders, Adams!TypeOK
<1>15. kord' \in Int /\ kord' <= kord /\ depth' = kord
  BY <1>1, <1>2, <1>3
<1>16. Len(last) \in Int
  BY <1>10, LenProperties
<1>11. kord' <= Len(last) + 1 /\ kord' <= kold + 1 /\ kord' <= depth'
  <2>1. kord \in Int /\ kord <= Len(last) + 1 /\ kold \in Int /\ kord <= kold + 1
    BY <1>2, <1>10
  <2>2. kord' <= Len(last) + 1
    BY <1>15, <1>16, <2>1
  <2>3. kord' <= kold + 1
    BY <1>15, <2>1
  <2> QED BY <1>15, <2>2, <2>3
<1>12. AdamsOrders'
  <2>1. pc' = "idle" => crashed' = TRUE
    BY <1>1
  <2>2. ~Kept' /\ pc' # "judge"
    BY <1>1 DEF Kept
  <2>3. iv' \in Seq(1..AdamsOrder + 1) /\ last' \in Seq(AdamsSizes) /\ kold' <= Len(last')
    BY <1>1 DEF AdamsInv, AdamsOrders
  <2>4. kord' <= Len(last') + 1 /\ kord' <= kold' + 1 /\ kord' <= depth'
    BY <1>1, <1>11
  <2> QED BY <1>1, <2>1, <2>2, <2>3, <2>4, Zenon DEF AdamsOrders
<1>13. AdamsDistances'
  <2>1. ~Kept' /\ pc' # "judge"
    BY <1>1 DEF Kept
  <2>2. ASSUME NEW i \in 1..kord' - 1 PROVE psi'[i] = Adams!Way(i)'
    <3>1. i + 1 \in 1..kord /\ i \in 1..AdamsOrder /\ i < kord /\ (i + 1) - 1 = i
      <4>1. PICK k \in 1..kord : k = kord'
        BY <1>3
      <4>2. i \in 1..k - 1
        BY <4>1
      <4> QED BY <1>2, <4>2
    <3>2. psi[i + 1] = h + Adams!Way((i + 1) - 1)
      BY <1>1, <3>1 DEF AdamsInv, AdamsDistances
    <3>3. psi'[i] = psi[i + 1] - h
      BY <1>6, <3>1
    <3>4. Adams!Way(i) \in Int
      <4>1. Adams!Way(i) = WayTo(last, i)
        BY DEF Adams!Way, WayTo
      <4>2. last \in Seq(Int) /\ i \in 0..Len(last)
        <5>1. last \in Seq(Int) /\ Len(last) \in Nat
          BY <1>10, AdamsNumbers, ListOfNumbers
        <5> QED BY <1>2, <1>10, <3>1, <5>1
      <4> QED BY <4>1, <4>2, WayGrows
    <3>5. Adams!Way(i)' = Adams!Way(i)
      BY <1>1 DEF Adams!Way
    <3>6. PICK way \in Int : way = Adams!Way(i)
      BY <3>4
    <3>7. psi[i + 1] = h + way
      BY <3>2, <3>6
    <3>8. psi'[i] = way
      BY <1>5, <3>3, <3>6, <3>7
    <3> QED BY <3>5, <3>6, <3>8, Zenon
  <2> QED BY <2>1, <2>2 DEF AdamsDistances
<1>14. ~(ns' >= 1)
  BY <1>1
<1> QED BY <1>9, <1>12, <1>13, <1>14 DEF AdamsInv

LatestOf(latest, c, list, m) ==
  /\ latest \in Seq(AdamsSizes) /\ Len(latest) = m /\ latest[1] = c
  /\ \A j \in 2..m : latest[j] = list[j - 1]

\* The latest of some lengths, and those before it that are still remembered.
LEMMA LatestFirst ==
  ASSUME NEW c \in AdamsSizes, NEW list \in Seq(AdamsSizes), NEW m \in Nat, m <= Len(list) + 1, m >= 1
  PROVE  LatestOf(SubSeq(<<c>> \o list, 1, m), c, list, m)
<1>1. <<c>> \in Seq(AdamsSizes) /\ Len(<<c>>) = 1 /\ <<c>>[1] = c /\ Len(list) \in Nat
  BY LenProperties
<1>2. /\ <<c>> \o list \in Seq(AdamsSizes) /\ Len(<<c>> \o list) = Len(list) + 1
      /\ \A j \in 1..Len(list) + 1 : (<<c>> \o list)[j] = IF j <= 1 THEN <<c>>[j] ELSE list[j - 1]
  BY <1>1
<1>3. 1..m \subseteq 1..Len(list) + 1 /\ m <= Len(<<c>> \o list)
  BY <1>1, <1>2
<1>4. /\ SubSeq(<<c>> \o list, 1, m) \in Seq(AdamsSizes) /\ Len(SubSeq(<<c>> \o list, 1, m)) = m
      /\ \A j \in 1..m : SubSeq(<<c>> \o list, 1, m)[j] = (<<c>> \o list)[j]
  BY <1>2, <1>3, FirstOfList, Zenon
<1>5. (<<c>> \o list)[1] = c /\ \A j \in 2..m : j \in 1..Len(list) + 1 /\ (<<c>> \o list)[j] = list[j - 1]
  BY <1>1, <1>2, <1>3
<1>6. 1 \in 1..m /\ \A j \in 2..m : j \in 1..m
  OBVIOUS
<1> QED BY <1>4, <1>5, <1>6 DEF LatestOf

\* The steps that are remembered once this one is accepted.
LEMMA AdamsRemembers ==
  ASSUME MultistepAssumption, LengthsAssumption, AdamsInv, pc = "judge",
         last' = SubSeq(<<h>> \o last, 1, Adams!Min({AdamsOrder, Len(last) + 1}))
  PROVE  \E m \in Nat :
           /\ m >= 1 /\ m <= Len(last) + 1 /\ m <= AdamsOrder /\ kord <= m
           /\ last' \in Seq(AdamsSizes) /\ last' \in Seq(Int) /\ Len(last') = m
           /\ last'[1] = h /\ \A j \in 2..m : last'[j] = last[j - 1]
<1>1. /\ AdamsOrder \in Nat /\ AdamsOrder >= 2 /\ kord \in 1..AdamsOrder
      /\ h \in AdamsSizes /\ last \in Seq(AdamsSizes) /\ kord <= Len(last) + 1
  BY AdamsNumbers DEF AdamsInv, AdamsOrders, Adams!TypeOK
<1>2. Len(last) \in Nat
  BY <1>1, LenProperties
<1>3. PICK m \in Nat : /\ m = Adams!Min({AdamsOrder, Len(last) + 1})
                       /\ m = IF AdamsOrder <= Len(last) + 1 THEN AdamsOrder ELSE Len(last) + 1
  <2>1. PICK l \in Nat : l = Len(last) + 1
    BY <1>2
  <2>2. \A a, b \in Int : Adams!Min({a, b}) = IF a <= b THEN a ELSE b
    BY DEF Adams!Min
  <2>7. AdamsOrder \in Int /\ l \in Int
    BY <1>1, <2>1
  <2>3. Adams!Min({AdamsOrder, l}) = IF AdamsOrder <= l THEN AdamsOrder ELSE l
    BY <2>2, <2>7, Zenon
  <2>4. (IF AdamsOrder <= l THEN AdamsOrder ELSE l) \in Nat
    BY <1>1, <2>1
  <2>5. Adams!Min({AdamsOrder, Len(last) + 1}) = IF AdamsOrder <= Len(last) + 1 THEN AdamsOrder ELSE Len(last) + 1
    BY <2>1, <2>3, Zenon
  <2>6. (IF AdamsOrder <= Len(last) + 1 THEN AdamsOrder ELSE Len(last) + 1) \in Nat
    BY <2>1, <2>4, Zenon
  <2> QED BY <2>5, <2>6, Zenon
<1>4. m >= 1 /\ m <= Len(last) + 1 /\ m <= AdamsOrder /\ kord <= m
  <2>1. PICK l \in Nat : l = Len(last)
    BY <1>2
  <2>2. kord <= l + 1 /\ m = IF AdamsOrder <= l + 1 THEN AdamsOrder ELSE l + 1
    <3>1. kord <= l + 1
      BY <1>1, <2>1
    <3>2. m = IF AdamsOrder <= l + 1 THEN AdamsOrder ELSE l + 1
      BY <1>3, <2>1, Zenon
    <3> QED BY <3>1, <3>2
  <2>3. m >= 1 /\ m <= l + 1 /\ m <= AdamsOrder /\ kord <= m
    BY <1>1, <2>2
  <2> QED BY <2>1, <2>3
<1>5. LatestOf(SubSeq(<<h>> \o last, 1, m), h, last, m)
  BY <1>1, <1>4, LatestFirst, Zenon
<1>6. last' = SubSeq(<<h>> \o last, 1, m)
  BY <1>3
<1>7. /\ last' \in Seq(AdamsSizes) /\ Len(last') = m
      /\ last'[1] = h /\ \A j \in 2..m : last'[j] = last[j - 1]
  BY <1>5, <1>6, Zenon DEF LatestOf
<1>8. last' \in Seq(Int)
  BY <1>7, AdamsNumbers, ListOfNumbers
<1> QED BY <1>4, <1>7, <1>8

\* An accepted step becomes the latest one; the trial's numbers are those of the
\* mesh now.
LEMMA AdamsAccepts ==
  ASSUME MultistepAssumption, LengthsAssumption, AdamsInv, NEW lower \in BOOLEAN, Adams!Accept(lower)
  PROVE  AdamsInv'
<1>1. /\ pc = "judge" /\ pc' = "idle" /\ crashed' = FALSE /\ ifail' = 0
      /\ kold' = kord /\ hold' = h
      /\ UNCHANGED <<ns, start, kprev, psi, v, w, g, gi, kgi, iv>>
  BY DEF Adams!Accept, Adams!coefficients
<1>2. /\ lower => kord > 1
      /\ phase1' = (phase1 /\ ~lower /\ kord # AdamsOrder)
      /\ kord' \in Adams!NextOrder(lower, phase1') /\ h' \in Adams!NextSize(phase1')
      /\ depth' = IF ns > kord /\ depth > kord THEN kord + 2 ELSE kord + 1
      /\ last' = SubSeq(<<h>> \o last, 1, Adams!Min({AdamsOrder, Len(last) + 1}))
  BY DEF Adams!Accept
<1>3. /\ AdamsOrder \in Nat /\ AdamsOrder >= 2 /\ kord \in 1..AdamsOrder /\ kord \in Int /\ 1 <= kord /\ kord <= AdamsOrder
      /\ h \in AdamsSizes /\ h \in Int /\ ns \in Int /\ depth \in Int /\ kold \in Int
  BY AdamsNumbers DEF AdamsInv, Adams!TypeOK
<1>4. /\ last \in Seq(AdamsSizes) /\ last \in Seq(Int) /\ Len(last) \in Nat /\ iv \in Seq(1..AdamsOrder + 1)
      /\ kord <= Len(last) + 1 /\ ns >= 1 /\ (ns > kord => depth > kord)
      /\ \A i \in 1..ns - 1 : i <= Len(last) => last[i] = h
  <2>1. last \in Seq(AdamsSizes) /\ AdamsSizes \subseteq Int
    BY AdamsNumbers DEF AdamsInv, AdamsOrders
  <2>2. last \in Seq(Int) /\ Len(last) \in Nat
    BY <2>1, ListOfNumbers
  <2> QED BY <1>1, <2>1, <2>2 DEF AdamsInv, AdamsOrders
<1>5. kord' \in 1..AdamsOrder /\ kord' - 1 <= kord /\ kord - 1 <= kord'
  <2>1. CASE phase1'
    <3>1. phase1' => kord # AdamsOrder
      BY <1>2, Zenon
    <3>2. kord' = kord + 1
      BY <1>2, <2>1 DEF Adams!NextOrder
    <3> QED BY <1>3, <2>1, <3>1, <3>2
  <2>2. CASE ~phase1' /\ lower
    <3>1. kord' = kord - 1
      BY <1>2, <2>2 DEF Adams!NextOrder
    <3> QED BY <1>2, <1>3, <2>2, <3>1
  <2>3. CASE ~phase1' /\ ~lower
    <3>1. kord' \in {k \in 1..AdamsOrder : k - kord \in {-1, 0, 1}} \/ kord' = kord
      BY <1>2, <2>3 DEF Adams!NextOrder
    <3>2. PICK k : k = kord'
      OBVIOUS
    <3>3. (k \in 1..AdamsOrder /\ k - kord \in {-1, 0, 1}) \/ k = kord
      BY <3>1, <3>2
    <3>4. k \in 1..AdamsOrder /\ k - 1 <= kord /\ kord - 1 <= k
      BY <1>3, <3>3
    <3> QED BY <3>2, <3>4
  <2> QED BY <2>1, <2>2, <2>3
<1>6. h' \in AdamsSizes
  <2>1. Adams!Min({Adams!Largest, 2 * h}) \in AdamsSizes
    BY <1>3, AdamsNumbers
  <2>2. h' \in {Adams!Min({Adams!Largest, 2 * h}), h} \cup AdamsSizes
    BY <1>2 DEF Adams!NextSize
  <2> QED BY <1>3, <2>1, <2>2
<1>9. PICK m \in Nat :
        /\ m >= 1 /\ m <= Len(last) + 1 /\ m <= AdamsOrder /\ kord <= m
        /\ last' \in Seq(AdamsSizes) /\ last' \in Seq(Int) /\ Len(last') = m
        /\ last'[1] = h /\ \A j \in 2..m : last'[j] = last[j - 1]
  BY <1>1, <1>2, AdamsRemembers
<1>8. m >= 1 /\ m <= Len(last) + 1 /\ m <= AdamsOrder /\ kord <= m
  BY <1>9
<1>15. PICK ko \in 1..AdamsOrder : ko = kord' /\ ko - 1 <= kord /\ kord - 1 <= ko
  BY <1>5
<1>21. (IF ns > kord /\ depth > kord THEN kord + 2 ELSE kord + 1) \in Int
  BY <1>3
<1>22. depth' = IF ns > kord /\ depth > kord THEN kord + 2 ELSE kord + 1
  BY <1>2
<1>16. PICK de \in Int : de = depth' /\ de = IF ns > kord /\ depth > kord THEN kord + 2 ELSE kord + 1
  BY <1>21, <1>22, Zenon
<1>18. ko \in Int /\ 1 <= ko /\ ko - 1 <= kord /\ kord - 1 <= ko
  BY <1>15
<1>19. de \in Int /\ de = IF ns > kord /\ depth > kord THEN kord + 2 ELSE kord + 1
  BY <1>16
<1>20. ns > kord => depth > kord
  BY <1>4
<1>17. de \in 1..AdamsOrder + 2 /\ de >= kord + 1 /\ ko <= de /\ (ns > kord => de >= kord + 2)
  BY <1>3, <1>18, <1>19, <1>20
<1>10. Adams!TypeOK'
  <2>1. /\ pc' \in {"idle", "judge", "retry"} /\ {start', phase1', crashed'} \subseteq BOOLEAN
        /\ h' \in AdamsSizes /\ hold' \in AdamsSizes \cup {0}
    <3>1. phase1' \in BOOLEAN
      BY <1>2, Zenon DEF AdamsInv, Adams!TypeOK
    <3>2. start' \in BOOLEAN
      BY <1>1 DEF AdamsInv, Adams!TypeOK
    <3> QED BY <1>1, <1>3, <1>6, <3>1, <3>2
  <2>2. kord' \in 1..AdamsOrder /\ depth' \in 1..AdamsOrder + 2 /\ kold' \in 0..AdamsOrder /\ ifail' \in 0..4
    BY <1>1, <1>3, <1>5, <1>16, <1>17
  <2>3. ns' \in 0..AdamsOrder + 1 /\ kprev' \in 0..AdamsOrder /\ kgi' \in 0..AdamsOrder /\ psi' \in [1..AdamsOrder -> Int]
    BY <1>1 DEF AdamsInv, Adams!TypeOK
  <2>4. /\ v' \in [1..AdamsOrder + 1 -> Adams!Indices] /\ w' \in [1..AdamsOrder + 1 -> Adams!Indices]
        /\ g' \in [1..AdamsOrder + 1 -> Adams!Indices] /\ gi' \in [1..AdamsOrder -> Adams!Indices]
    BY <1>1 DEF AdamsInv, Adams!TypeOK
  <2>5. Len(iv') <= AdamsOrder - 2 /\ \A i \in DOMAIN iv' : iv'[i] \in 1..AdamsOrder + 1
    BY <1>1 DEF AdamsInv, Adams!TypeOK
  <2> QED BY <2>1, <2>2, <2>3, <2>4, <2>5, Zenon DEF Adams!TypeOK, Adams!Indices
<1>11. AdamsOrders'
  <2>1. last' \in Seq(AdamsSizes) /\ iv' \in Seq(1..AdamsOrder + 1)
    BY <1>1, <1>4, <1>9
  <2>2. kold' <= Len(last') /\ kord' <= Len(last') + 1 /\ kord' <= kold' + 1 /\ kord' <= depth'
    <3>1. kord <= m /\ ko <= m + 1 /\ ko <= kord + 1 /\ ko <= de
      BY <1>3, <1>8, <1>17, <1>18
    <3> QED BY <1>1, <1>9, <1>15, <1>16, <3>1
  <2>3. pc' # "judge" /\ pc' # "retry" /\ ns' >= 1
    BY <1>1, <1>4
  <2>4. hold' \in AdamsSizes /\ \A i \in 1..ns' : i <= Len(last') => last'[i] = hold'
    <3> SUFFICES ASSUME NEW i \in 1..ns, i <= m PROVE last'[i] = h
      BY <1>1, <1>3, <1>9
    <3>1. CASE i = 1
      BY <1>9, <3>1
    <3>2. CASE i # 1
      <4>1. i \in 2..m /\ i - 1 \in 1..ns - 1 /\ i - 1 <= Len(last)
        BY <1>3, <1>4, <1>8, <3>2
      <4> QED BY <1>4, <1>9, <4>1
    <3> QED BY <3>1, <3>2
  <2>5. kold' - 1 <= kord' /\ kold' >= 1 /\ depth' >= kold' + 1
    <3>1. kord - 1 <= ko /\ kord >= 1 /\ de >= kord + 1
      BY <1>3, <1>17, <1>18
    <3> QED BY <1>1, <1>15, <1>16, <3>1
  <2>6. ns' > kold' => depth' >= kold' + 2
    BY <1>1, <1>16, <1>17
  <2> QED BY <2>1, <2>2, <2>3, <2>4, <2>5, <2>6, Zenon DEF AdamsOrders, Kept
<1>12. Done' = Done /\ Order' = Order
  BY <1>1 DEF Done, Order
<1>13. AdamsDistances'
  <2>1. pc' # "judge"
    BY <1>1
  <2>2. ASSUME NEW i \in 1..kord' - 1 PROVE psi'[i] = Adams!Way(i)'
    <3>1. i \in 1..kord /\ i \in 1..m /\ i - 1 \in Int
      <4>1. PICK k \in 1..AdamsOrder : k = kord'
        BY <1>5
      <4>2. k - 1 <= kord /\ i \in 1..k - 1
        BY <1>5, <4>1
      <4> QED BY <1>3, <1>8, <4>2
    <3>2. psi[i] = h + Adams!Way(i - 1)
      BY <1>1, <3>1 DEF AdamsInv, AdamsDistances
    <3>3. Adams!Way(i - 1) = WayTo(last, i - 1) /\ Adams!Way(i)' = WayTo(last', i)
      BY DEF Adams!Way, WayTo
    <3>4. WayTo(last', i) = h + WayTo(last, i - 1)
      <4>1. PICK list \in Seq(Int) : list = last'
        BY <1>9
      <4>2. /\ Len(list) = m /\ Len(list) <= Len(last) + 1 /\ (Len(list) >= 1 => list[1] = h)
            /\ \A j \in 2..Len(list) : list[j] = last[j - 1]
        BY <1>8, <1>9, <4>1
      <4>3. \A j \in 1..Len(list) : WayTo(list, j) = h + WayTo(last, j - 1)
        BY <1>3, <1>4, <4>2, WayShifts
      <4> QED BY <3>1, <4>1, <4>2, <4>3
    <3> QED BY <1>1, <3>2, <3>3, <3>4
  <2>3. Kept' => \A i \in 1..Done' : psi'[i] = i * hold'
    <3>1. \A i \in 1..Done : psi[i] = i * h
      BY <1>1 DEF AdamsInv, AdamsDistances
    <3> QED BY <1>1, <1>12, <3>1
  <2> QED BY <2>1, <2>2, <2>3 DEF AdamsDistances
<1>14. AdamsStaircase' /\ AdamsTaken'
  <2>1. AdamsStaircase /\ AdamsTaken
    BY <1>4 DEF AdamsInv
  <2>2. UNCHANGED <<ns, kprev, v, w, g, gi, kgi, iv>> /\ pc' # "judge"
    BY <1>1
  <2>3. AdamsStaircase'
    BY <1>12, <2>1, <2>2 DEF AdamsStaircase
  <2>4. AdamsTaken'
    BY <1>12, <2>1, <2>2 DEF AdamsTaken
  <2> QED BY <2>3, <2>4
<1> QED BY <1>10, <1>11, <1>13, <1>14 DEF AdamsInv

\* What the loop over the g(*) leaves in w, and the g(*) it reads off.
LEMMA RowsTaken ==
  ASSUME AdamsOrder \in Nat, kord \in 1..AdamsOrder, NEW n \in 1..kord,
         NEW first \in [1..AdamsOrder + 1 -> Adams!Indices], \A q \in 1..kord + 1 - n : first[q] = n
  PROVE  /\ Adams!Rows(first, n)[kord + 1] \in [1..AdamsOrder + 1 -> Adams!Indices]
         /\ \A q \in kord + 1 - n..AdamsOrder + 1 : Adams!Rows(first, n)[kord + 1][q] = first[q]
         /\ \A q \in 1..kord - n : Adams!Rows(first, n)[kord + 1][q] = -(kord + 1 - q)
         /\ \A i \in n + 1..kord + 1 : Adams!Rows(first, n)[i][1] = IF i = n + 1 THEN n ELSE -(i - 1)
<1>1. kord \in Int /\ n \in Int /\ 1 <= n /\ n <= kord /\ kord <= AdamsOrder
  OBVIOUS
<1>2. first \in [1..AdamsOrder + 1 -> Int]
  BY DEF Adams!Indices
<1>3. \A i \in n + 1..kord + 1 :
        Adams!Rows(first, n)[i] = [q \in 1..AdamsOrder + 1 |-> RowAt(first, n, i, q)]
  BY <1>2, RowsOf
<1>4. \A q \in 1..AdamsOrder + 1 :
        /\ q >= kord + 1 - n => RowAt(first, n, kord + 1, q) = first[q]
        /\ q <= kord - n => RowAt(first, n, kord + 1, q) = -(kord + 1 - q)
  BY <1>1 DEF RowAt
<1>5. \A i \in n + 1..kord + 1 : RowAt(first, n, i, 1) = IF i = n + 1 THEN n ELSE -(i - 1)
  <2>1. ASSUME NEW i \in n + 1..kord + 1
        PROVE  RowAt(first, n, i, 1) = IF i = n + 1 THEN n ELSE -(i - 1)
    <3>1. CASE kord = n
      <4>1. first[1] = n /\ i = n + 1
        BY <1>1, <3>1
      <4>2. RowAt(first, n, i, 1) = first[1]
        BY <1>1, <3>1 DEF RowAt
      <4> QED BY <4>1, <4>2
    <3>2. CASE kord # n
      <4>1. ~(1 > kord - n) /\ ~(1 > kord + 2 - i)
        BY <1>1, <3>2
      <4> QED BY <4>1, Zenon DEF RowAt
    <3> QED BY <3>1, <3>2
  <2> QED BY <2>1
<1>6. \A q \in 1..AdamsOrder + 1 : RowAt(first, n, kord + 1, q) \in Adams!Indices
  <2>1. ASSUME NEW q \in 1..AdamsOrder + 1 PROVE RowAt(first, n, kord + 1, q) \in Adams!Indices
    <3>1. CASE q >= kord + 1 - n
      BY <1>4, <3>1
    <3>2. CASE q <= kord - n
      <4>1. -(kord + 1 - q) \in Adams!Indices
        BY <1>1, <3>2 DEF Adams!Indices
      <4> QED BY <1>4, <3>2, <4>1
    <3> QED BY <1>1, <3>1, <3>2
  <2> QED BY <2>1
<1>7. Adams!Rows(first, n)[kord + 1] = [q \in 1..AdamsOrder + 1 |-> RowAt(first, n, kord + 1, q)]
  <2>1. kord + 1 \in n + 1..kord + 1
    BY <1>1
  <2> QED BY <1>3, <2>1
<1>8. \A q \in 1..AdamsOrder + 1 :
        Adams!Rows(first, n)[kord + 1][q] = RowAt(first, n, kord + 1, q)
  BY <1>7
<1>9. Adams!Rows(first, n)[kord + 1] \in [1..AdamsOrder + 1 -> Adams!Indices]
  BY <1>6, <1>7
<1>10. ASSUME NEW i \in n + 1..kord + 1
       PROVE  Adams!Rows(first, n)[i][1] = IF i = n + 1 THEN n ELSE -(i - 1)
  <2>1. 1 \in 1..AdamsOrder + 1
    BY <1>1
  <2>2. Adams!Rows(first, n)[i][1] = RowAt(first, n, i, 1)
    BY <1>3, <2>1
  <2> QED BY <1>5, <2>2
<1>11. \A q \in kord + 1 - n..AdamsOrder + 1 : q \in 1..AdamsOrder + 1 /\ q >= kord + 1 - n
  BY <1>1
<1>12. \A q \in 1..kord - n : q \in 1..AdamsOrder + 1 /\ q <= kord - n
  BY <1>1
<1>13. \A q \in kord + 1 - n..AdamsOrder + 1 : Adams!Rows(first, n)[kord + 1][q] = first[q]
  BY <1>4, <1>8, <1>11
<1>14. \A q \in 1..kord - n : Adams!Rows(first, n)[kord + 1][q] = -(kord + 1 - q)
  BY <1>4, <1>8, <1>12
<1> QED BY <1>9, <1>10, <1>13, <1>14

\* The three ways to the coefficients of a trial.
LEMMA PredictCases ==
  ASSUME MultistepAssumption, LengthsAssumption, AdamsInv, Adams!Predict
  PROVE  /\ pc # "judge" /\ pc' = "judge" /\ start' = FALSE /\ h' \in AdamsSizes
         /\ UNCHANGED <<kord, kold, phase1, hold, depth, last, crashed>>
         /\ ns' \in 1..AdamsOrder + 1 /\ ifail' \in 0..4
         /\ \/ ns' = 1 /\ Adams!Restarted(h')
            \/ /\ Kept /\ h' = hold /\ ns' = Done + 1 /\ Done >= 1 /\ Done \in Int
               /\ \/ kord < ns' /\ Adams!Keep
                  \/ kord >= ns' /\ Adams!Extended(ns', h')
<1>1. /\ pc \in {"idle", "retry"} /\ pc' = "judge" /\ start' = FALSE
      /\ ifail' = (IF pc = "idle" THEN 0 ELSE ifail)
      /\ h' \in (IF start THEN AdamsSizes ELSE {h})
      /\ UNCHANGED <<kord, kold, phase1, hold, depth, last, crashed>>
  BY DEF Adams!Predict
<1>2. /\ AdamsOrder \in Nat /\ kord \in 1..AdamsOrder /\ kold \in 0..AdamsOrder
      /\ ns \in 0..AdamsOrder + 1 /\ ifail \in 0..4 /\ h \in AdamsSizes
  BY AdamsNumbers DEF AdamsInv, Adams!TypeOK
<1>3. h' \in AdamsSizes /\ ifail' \in 0..4
  BY <1>1, <1>2
<1>4. PICK n : n = ns' /\ n = Adams!Counted(ns, h')
  BY DEF Adams!Predict
<1>5. \/ kord < n /\ Adams!Keep
      \/ ~(kord < n) /\ n <= 1 /\ Adams!Restarted(h')
      \/ ~(kord < n) /\ ~(n <= 1) /\ Adams!Extended(ns', h')
  BY <1>4 DEF Adams!Predict
<1>6. CASE ~(ns >= 1 /\ h' = hold)
  <2>1. n = 1
    BY <1>2, <1>4, <1>6 DEF Adams!Counted
  <2>2. ~(kord < n) /\ n \in 1..AdamsOrder + 1
    BY <1>2, <2>1
  <2> QED BY <1>1, <1>3, <1>4, <1>5, <2>1, <2>2
<1>7. CASE ns >= 1 /\ h' = hold
  <2>1. pc = "idle" /\ Kept
    <3>1. pc # "retry"
      BY <1>2, <1>7 DEF AdamsInv, AdamsOrders
    <3> QED BY <1>1, <1>7, <3>1 DEF Kept
  <2>2. Done = IF kold < ns THEN ns - 1 ELSE ns
    BY <2>1 DEF Done, Order
  <2>3. n = IF ns <= kold THEN ns + 1 ELSE ns
    BY <1>4, <1>7 DEF Adams!Counted
  <2>4. Done \in Int /\ n = Done + 1 /\ n \in 1..AdamsOrder + 1
    BY <1>2, <1>7, <2>2, <2>3
  <2>5. Done >= 1
    BY <1>7 DEF AdamsInv, AdamsStaircase
  <2>6. ~(n <= 1)
    BY <2>4, <2>5
  <2>7. ~(kord < n) => kord >= n
    BY <1>2, <2>4
  <2> QED BY <1>1, <1>3, <1>4, <1>5, <1>7, <2>1, <2>4, <2>5, <2>6, <2>7
<1> QED BY <1>6, <1>7

\* The trial is of an order the points and the columns of phi allow.
LEMMA PredictOrders ==
  ASSUME MultistepAssumption, LengthsAssumption, AdamsInv, Adams!Predict, iv' \in Seq(1..AdamsOrder + 1)
  PROVE  AdamsOrders'
<1>1. /\ pc' = "judge" /\ start' = FALSE /\ ns' \in 1..AdamsOrder + 1
      /\ UNCHANGED <<kord, kold, hold, depth, last, crashed>>
      /\ ns' = 1 \/ (Kept /\ h' = hold /\ ns' = Done + 1)
  BY PredictCases
<1>2. /\ last \in Seq(AdamsSizes) /\ kold <= Len(last) /\ kord <= Len(last) + 1
      /\ kord <= kold + 1 /\ kord <= depth
  BY DEF AdamsInv, AdamsOrders
<1>3. /\ kord \in Int /\ kold \in Int /\ depth \in Int /\ ns \in Int /\ AdamsOrder \in Nat /\ kord >= 1
  BY AdamsNumbers DEF AdamsInv, Adams!TypeOK
<1>4. PICK n \in 1..AdamsOrder + 1 : n = ns'
  BY <1>1
<1>5. /\ \A i \in 1..n - 1 : i <= Len(last) => last[i] = h'
      /\ n >= 2 => kold - 1 <= kord /\ kold >= 1 /\ depth >= kold + 1
      /\ n > kord => depth > kord
  <2>1. CASE n = 1
    <3>1. \A i \in 1..n - 1 : FALSE
      BY <2>1
    <3>2. ~(n >= 2) /\ ~(n > kord)
      BY <1>3, <2>1
    <3> QED BY <3>1, <3>2, Zenon
  <2>2. CASE n # 1
    <3>1. Kept /\ h' = hold /\ n = Done + 1
      BY <1>1, <1>4, <2>2
    <3>2. /\ \A i \in 1..ns : i <= Len(last) => last[i] = hold
          /\ kold - 1 <= kord /\ kold >= 1 /\ depth >= kold + 1
          /\ ns > kold => depth >= kold + 2
      BY <3>1 DEF AdamsInv, AdamsOrders
    <3>3. Done = IF kold < ns THEN ns - 1 ELSE ns
      BY <3>1 DEF Kept, Done, Order
    <3>4. n - 1 <= ns /\ (n > kold + 1 => ns > kold)
      BY <1>3, <3>1, <3>3
    <3>5. ASSUME n > kord PROVE depth > kord
      <4>1. CASE kord <= kold
        BY <1>3, <3>2, <4>1
      <4>2. CASE kord > kold
        BY <1>2, <1>3, <3>2, <3>4, <3>5, <4>2
      <4> QED BY <1>3, <4>1, <4>2
    <3>6. \A i \in 1..n - 1 : i \in 1..ns
      BY <1>3, <3>4
    <3> QED BY <3>1, <3>2, <3>5, <3>6
  <2> QED BY <2>1, <2>2
<1>6. /\ last' \in Seq(AdamsSizes) /\ kold' <= Len(last') /\ kord' <= Len(last') + 1
      /\ kord' <= kold' + 1 /\ kord' <= depth'
  BY <1>1, <1>2
<1>7. ns' >= 1 /\ ~start' /\ ~Kept' /\ pc' = "judge"
  BY <1>1, <1>4 DEF Kept
<1>8. \A i \in 1..ns' - 1 : i <= Len(last') => last'[i] = h'
  BY <1>1, <1>4, <1>5
<1>9. ns' >= 2 => kold' - 1 <= kord' /\ kold' >= 1 /\ depth' >= kold' + 1
  BY <1>1, <1>4, <1>5
<1>10. ns' > kord' => depth' > kord'
  BY <1>1, <1>4, <1>5
<1> QED BY <1>6, <1>7, <1>8, <1>9, <1>10, Zenon DEF AdamsOrders

\* The points before, where the last steps had one length.
LEMMA EqualWay ==
  ASSUME MultistepAssumption, LengthsAssumption, AdamsInv, Kept, NEW n \in Nat,
         n <= ns, n <= Len(last)
  PROVE  \A i \in 0..n : Adams!Way(i) = i * hold
<1>1. last \in Seq(Int) /\ Len(last) \in Nat /\ AdamsSizes \subseteq Int
  BY AdamsNumbers, ListOfNumbers DEF AdamsInv, AdamsOrders
<1>2. hold \in Int /\ \A i \in 1..ns : i <= Len(last) => last[i] = hold
  BY <1>1 DEF AdamsInv, AdamsOrders
<1>3. n \in 0..Len(last) /\ ns \in Int
  BY <1>1 DEF AdamsInv, Adams!TypeOK
<1>6. \A i \in 1..n : i \in 1..ns /\ i <= Len(last)
  BY <1>1, <1>3
<1>4. \A i \in 1..n : last[i] = hold
  BY <1>2, <1>6, Zenon
<1>5. \A i \in 0..n : WayTo(last, i) = i * hold
  BY <1>1, <1>2, <1>3, <1>4, WayOfEqual
<1> QED BY <1>5 DEF Adams!Way, WayTo

\* The distances are those from the new point.
LEMMA PredictDistances ==
  ASSUME MultistepAssumption, LengthsAssumption, AdamsInv, Adams!Predict
  PROVE  psi' \in [1..AdamsOrder -> Int] /\ AdamsDistances'
<1>1. /\ pc # "judge" /\ pc' = "judge" /\ h' \in AdamsSizes /\ kord' = kord /\ last' = last
      /\ \/ ns' = 1 /\ Adams!Restarted(h')
         \/ /\ Kept /\ h' = hold /\ ns' = Done + 1 /\ Done >= 1 /\ Done \in Int
            /\ \/ kord < ns' /\ Adams!Keep
               \/ kord >= ns' /\ Adams!Extended(ns', h')
  BY PredictCases
<1>2. /\ psi \in [1..AdamsOrder -> Int] /\ kord \in 1..AdamsOrder /\ AdamsOrder \in Nat
      /\ ns \in Int /\ kold \in Int
  BY AdamsNumbers DEF AdamsInv, Adams!TypeOK
<1>3. PICK c \in AdamsSizes : c = h'
  BY <1>1
<1>4. c \in Int
  BY AdamsNumbers
<1>5. kord - 1 <= Len(last) /\ Len(last) \in Nat /\ last \in Seq(Int)
  <2>1. last \in Seq(AdamsSizes) /\ kord <= Len(last) + 1
    BY DEF AdamsInv, AdamsOrders
  <2>2. Len(last) \in Nat /\ last \in Seq(Int)
    BY <2>1, AdamsNumbers, ListOfNumbers
  <2> QED BY <1>2, <2>1, <2>2
<1>6. \A i \in 1..kord - 1 : psi[i] = Adams!Way(i)
  BY <1>1 DEF AdamsInv, AdamsDistances
<1>7. ASSUME Kept, c = hold
      PROVE  /\ Done <= ns
             /\ \A i \in 1..kord : i <= Done + 1 => Adams!Way(i - 1) = (i - 1) * c
             /\ \A i \in 1..Done : psi[i] = i * c
  <2>1. Done = IF kold < ns THEN ns - 1 ELSE ns
    BY <1>7 DEF Kept, Done, Order
  <2>2. Done <= ns
    BY <1>2, <2>1
  <2>3. ASSUME NEW i \in 1..kord, i <= Done + 1 PROVE Adams!Way(i - 1) = (i - 1) * c
    <3>1. i - 1 \in Nat /\ i - 1 <= ns /\ i - 1 <= Len(last) /\ i - 1 \in 0..i - 1
      <4>1. PICK d \in Int : d = Done /\ d <= ns
        BY <1>2, <2>1, <2>2
      <4>2. i <= d + 1
        BY <2>3, <4>1
      <4>3. i \in Nat /\ i >= 1 /\ i <= kord
        BY <1>2
      <4>4. PICK l \in Nat : l = Len(last) /\ kord - 1 <= l
        BY <1>5
      <4>5. i - 1 \in Nat /\ i - 1 \in 0..i - 1
        BY <4>3
      <4>6. i - 1 <= ns
        BY <1>2, <4>1, <4>2, <4>3
      <4>7. i - 1 <= l
        BY <1>2, <4>3, <4>4
      <4> QED BY <4>4, <4>5, <4>6, <4>7, Zenon
    <3> QED BY <1>7, <3>1, EqualWay
  <2>4. \A i \in 1..Done : psi[i] = i * c
    BY <1>7 DEF AdamsInv, AdamsDistances
  <2> QED BY <2>2, <2>3, <2>4
<1>8. Adams!Way(0) = 0
  <2>1. WayTo(last, 0) = 0
    BY <1>5, WayGrows
  <2> QED BY <2>1 DEF Adams!Way, WayTo
<1>9. ASSUME NEW n \in 1..kord, psi' = Adams!NewPsi(n, c),
             n = 1 \/ (Kept /\ c = hold /\ n = Done + 1)
      PROVE  /\ psi' \in [1..AdamsOrder -> Int]
             /\ \A i \in 1..kord : psi'[i] = c + Adams!Way(i - 1)
             /\ \A i \in 1..n : psi'[i] = i * c
  <2>1. psi' = [i \in 1..AdamsOrder |->
                  IF i = n THEN n * c ELSE IF i \in n + 1..kord THEN psi[i - 1] + c ELSE psi[i]]
    BY <1>9 DEF Adams!NewPsi
  <2>2. psi' \in [1..AdamsOrder -> Int]
    <3>1. n * c \in Int /\ \A i \in n + 1..kord : i - 1 \in 1..AdamsOrder
      BY <1>2, <1>4
    <3>2. ASSUME NEW i \in 1..AdamsOrder
          PROVE (IF i = n THEN n * c ELSE IF i \in n + 1..kord THEN psi[i - 1] + c ELSE psi[i]) \in Int
      <4>1. psi[i] \in Int
        BY <1>2
      <4>2. i \in n + 1..kord => psi[i - 1] + c \in Int
        <5>1. i \in n + 1..kord => psi[i - 1] \in Int
          BY <1>2, <3>1
        <5>2. \A a \in Int : a + c \in Int
          BY <1>4
        <5> QED BY <5>1, <5>2, Zenon
      <4> QED BY <3>1, <4>1, <4>2, Zenon
    <3> QED BY <2>1, <3>2
  <2>3. ASSUME NEW i \in 1..n PROVE psi'[i] = i * c
    <3>1. i \in 1..AdamsOrder /\ ~(i \in n + 1..kord)
      BY <1>2
    <3>2. CASE i = n
      BY <2>1, <3>1, <3>2
    <3>3. CASE i # n
      <4>1. n # 1 /\ i \in 1..n - 1
        BY <3>3
      <4>3. Kept /\ c = hold /\ n = Done + 1
        BY <1>9, <4>1
      <4>4. i \in 1..Done
        <5>1. PICK d \in Int : d = Done
          BY <1>2, <4>3 DEF Kept, Done, Order
        <5> QED BY <4>1, <4>3, <5>1
      <4>2. psi[i] = i * c
        BY <1>7, <4>3, <4>4
      <4> QED BY <2>1, <3>1, <3>3, <4>2
    <3> QED BY <3>2, <3>3
  <2>4. ASSUME NEW i \in 1..kord PROVE psi'[i] = c + Adams!Way(i - 1)
    <3>1. CASE i <= n
      <4>1. i \in 1..n
        BY <3>1
      <4>2. Adams!Way(i - 1) = (i - 1) * c
        <5>1. CASE i = 1
          <6>1. i - 1 = 0 /\ (i - 1) * c = 0
            BY <1>4, <5>1
          <6> QED BY <1>8, <6>1
        <5>2. CASE i # 1
          <6>1. Kept /\ c = hold /\ i <= Done + 1
            BY <1>9, <3>1, <5>2
          <6> QED BY <1>7, <6>1
        <5> QED BY <5>1, <5>2
      <4>3. c + (i - 1) * c = i * c
        BY <1>4
      <4> QED BY <2>3, <4>1, <4>2, <4>3
    <3>2. CASE i > n
      <4>1. i \in 1..AdamsOrder /\ i # n /\ i \in n + 1..kord /\ i - 1 \in 1..kord - 1 /\ i - 1 \in 1..AdamsOrder
        BY <1>2, <3>2
      <4>2. psi'[i] = psi[i - 1] + c
        BY <2>1, <4>1
      <4>3. psi[i - 1] = Adams!Way(i - 1) /\ psi[i - 1] \in Int
        BY <1>2, <1>6, <4>1
      <4> QED BY <1>4, <4>2, <4>3
    <3> QED BY <3>1, <3>2
  <2> QED BY <2>2, <2>3, <2>4
<1>10. Done' = (IF kord < ns' THEN ns' - 1 ELSE ns') /\ ~Kept'
  BY <1>1 DEF Done, Order, Kept
<1>11. /\ psi' \in [1..AdamsOrder -> Int]
       /\ \A i \in 1..kord : psi'[i] = c + Adams!Way(i - 1)
       /\ \A i \in 1..Done' : psi'[i] = i * c
  <2>1. CASE ns' = 1 /\ Adams!Restarted(h')
    <3>1. psi' = Adams!NewPsi(1, c) /\ 1 \in 1..kord
      BY <1>2, <1>3, <2>1 DEF Adams!Restarted
    <3>2. Done' = 1
      BY <1>2, <1>10, <2>1
    <3> QED BY <1>9, <3>1, <3>2
  <2>2. CASE Kept /\ h' = hold /\ ns' = Done + 1 /\ kord < ns' /\ Adams!Keep
    <3>1. psi' = psi /\ c = hold
      BY <1>3, <2>2 DEF Adams!Keep
    <3>2. Done' = Done
      <4>1. PICK d \in Int : d = Done
        BY <1>2, <2>2 DEF Done, Order
      <4>2. Done' = (d + 1) - 1
        BY <1>10, <2>2, <4>1
      <4> QED BY <4>1, <4>2
    <3>3. ASSUME NEW i \in 1..kord PROVE psi[i] = c + Adams!Way(i - 1)
      <4>1. PICK d \in Int : d = Done
        BY <1>2, <2>2 DEF Done, Order
      <4>2. kord < d + 1
        BY <2>2, <4>1
      <4>3. i <= d + 1 /\ i \in 1..d
        BY <1>2, <4>1, <4>2
      <4>4. Adams!Way(i - 1) = (i - 1) * c /\ psi[i] = i * c
        BY <1>7, <2>2, <3>1, <4>1, <4>3
      <4>5. c + (i - 1) * c = i * c
        BY <1>4
      <4> QED BY <4>4, <4>5
    <3>4. \A i \in 1..Done : psi[i] = i * c
      BY <1>7, <2>2, <3>1
    <3> QED BY <1>2, <3>1, <3>2, <3>3, <3>4
  <2>3. CASE Kept /\ h' = hold /\ ns' = Done + 1 /\ Done >= 1 /\ Done \in Int /\ kord >= ns' /\ Adams!Extended(ns', h')
    <3>1. PICK n \in Int : n = ns' /\ n = Done + 1
      BY <2>3
    <3>2. psi' = Adams!NewPsi(ns', h')
      BY <2>3 DEF Adams!Extended
    <3>6. n \in Int /\ n >= 1 /\ n <= kord
      <4>1. PICK d \in Int : d = Done
        BY <2>3
      <4>2. d >= 1 /\ n = d + 1
        BY <2>3, <3>1, <4>1, Zenon
      <4>3. kord >= n
        BY <2>3, <3>1, Zenon
      <4>4. kord \in Int /\ n \in Int
        BY <1>2, <3>1
      <4> QED BY <4>2, <4>3, <4>4
    <3>3. n \in 1..kord
      BY <1>2, <3>6
    <3>4. psi' = Adams!NewPsi(n, c)
      BY <1>3, <3>1, <3>2
    <3>5. Done' = n
      <4>1. ~(kord < n)
        BY <1>2, <3>6
      <4>2. Done' = IF kord < n THEN n - 1 ELSE n
        BY <1>10, <3>1, Zenon
      <4> QED BY <4>1, <4>2, Zenon
    <3> QED BY <1>3, <1>9, <2>3, <3>1, <3>3, <3>4, <3>5
  <2> QED BY <1>1, <2>1, <2>2, <2>3
<1>12. \A i \in Int : Adams!Way(i)' = Adams!Way(i)
  BY <1>1 DEF Adams!Way
<1>13. \A i \in 1..kord' : psi'[i] = h' + Adams!Way(i - 1)'
  BY <1>1, <1>3, <1>11, <1>12
<1>14. \A i \in 1..Done' : psi'[i] = i * h'
  BY <1>3, <1>11
<1>15. AdamsDistances'
  BY <1>1, <1>10, <1>13, <1>14 DEF AdamsDistances
<1> QED BY <1>11, <1>15

\* The arrays of the coefficients.
AdamsArrays ==
  /\ kprev \in 0..AdamsOrder /\ kgi \in 0..AdamsOrder
  /\ v \in [1..AdamsOrder + 1 -> Adams!Indices] /\ w \in [1..AdamsOrder + 1 -> Adams!Indices]
  /\ g \in [1..AdamsOrder + 1 -> Adams!Indices] /\ gi \in [1..AdamsOrder -> Adams!Indices]
  /\ iv \in Seq(1..AdamsOrder + 1) /\ Len(iv) <= AdamsOrder - 2

\* What is good for every mesh stays.
LEMMA StaleOf ==
  ASSUME AdamsOrder \in Nat, NEW array \in [1..AdamsOrder + 1 -> Adams!Indices]
  PROVE  /\ Adams!Stale(array) \in [1..AdamsOrder + 1 -> Adams!Indices]
         /\ \A q \in 1..AdamsOrder + 1 : array[q] >= 0 => Adams!Stale(array)[q] = array[q]
<1>1. Adams!Stale(array) = [q \in 1..AdamsOrder + 1 |-> IF array[q] < 0 THEN 0 ELSE array[q]]
  BY DEF Adams!Stale
<1>2. ASSUME NEW q \in 1..AdamsOrder + 1
      PROVE  /\ (IF array[q] < 0 THEN 0 ELSE array[q]) \in Adams!Indices
             /\ array[q] >= 0 => (IF array[q] < 0 THEN 0 ELSE array[q]) = array[q]
  BY DEF Adams!Indices
<1> QED BY <1>1, <1>2

\* What the type invariant says of them.
LEMMA AdamsTyped ==
  ASSUME MultistepAssumption, LengthsAssumption, AdamsInv
  PROVE  /\ kord \in Int /\ 1 <= kord /\ kord <= AdamsOrder /\ kold \in Int /\ 0 <= kold /\ kold <= AdamsOrder
         /\ kprev \in Int /\ 0 <= kprev /\ kprev <= AdamsOrder /\ ns \in Int /\ kgi \in 0..AdamsOrder
         /\ v \in [1..AdamsOrder + 1 -> Adams!Indices] /\ w \in [1..AdamsOrder + 1 -> Adams!Indices]
         /\ g \in [1..AdamsOrder + 1 -> Adams!Indices] /\ gi \in [1..AdamsOrder -> Adams!Indices]
         /\ iv \in Seq(1..AdamsOrder + 1) /\ iv \in Seq(Int) /\ Len(iv) \in Nat /\ Len(iv) <= AdamsOrder - 2
<1>1. AdamsOrder \in Nat
  BY AdamsNumbers
<1>2. /\ kord \in 1..AdamsOrder /\ kold \in 0..AdamsOrder /\ kprev \in 0..AdamsOrder /\ ns \in 0..AdamsOrder + 1
      /\ kgi \in 0..AdamsOrder /\ Len(iv) <= AdamsOrder - 2
  BY DEF AdamsInv, Adams!TypeOK
<1>3. /\ v \in [1..AdamsOrder + 1 -> Adams!Indices] /\ w \in [1..AdamsOrder + 1 -> Adams!Indices]
      /\ g \in [1..AdamsOrder + 1 -> Adams!Indices] /\ gi \in [1..AdamsOrder -> Adams!Indices]
  BY Zenon DEF AdamsInv, Adams!TypeOK, Adams!Indices
<1>4. iv \in Seq(1..AdamsOrder + 1) /\ 1..AdamsOrder + 1 \subseteq Int
  BY DEF AdamsInv, AdamsOrders
<1>5. iv \in Seq(Int) /\ Len(iv) \in Nat
  BY <1>4, ListOfNumbers
<1>6. /\ kord \in Int /\ 1 <= kord /\ kord <= AdamsOrder /\ kold \in Int /\ 0 <= kold /\ kold <= AdamsOrder
      /\ kprev \in Int /\ 0 <= kprev /\ kprev <= AdamsOrder /\ ns \in Int
  BY <1>1, <1>2
<1> QED BY <1>2, <1>3, <1>4, <1>5, <1>6, Zenon

\* Coefficients that are kept serve the order they are used at.
LEMMA AdamsKeepsOn ==
  ASSUME MultistepAssumption, LengthsAssumption, AdamsInv, Adams!Predict,
         Kept, ns' = Done + 1, Done >= 1, Done \in Int, kord < ns', Adams!Keep
  PROVE  AdamsArrays' /\ AdamsStaircase' /\ AdamsTaken'
<1>1. /\ pc' = "judge" /\ kord' = kord /\ kold' = kold
      /\ w' = Adams!Stale(w) /\ g' = Adams!Stale(g)
      /\ UNCHANGED <<kprev, v, gi, kgi, iv>>
  BY PredictCases DEF Adams!Keep
<1>2. pc = "idle" /\ ns >= 1 /\ AdamsStaircase /\ AdamsTaken
  BY DEF Kept, AdamsInv
<1>3. /\ kord \in Int /\ 1 <= kord /\ kord <= AdamsOrder /\ kold \in Int /\ 0 <= kold /\ kold <= AdamsOrder
      /\ kprev \in Int /\ 0 <= kprev /\ kprev <= AdamsOrder /\ ns \in Int /\ AdamsOrder \in Nat
  BY AdamsTyped, AdamsNumbers
<1>14. /\ v \in [1..AdamsOrder + 1 -> Adams!Indices] /\ w \in [1..AdamsOrder + 1 -> Adams!Indices]
       /\ g \in [1..AdamsOrder + 1 -> Adams!Indices] /\ gi \in [1..AdamsOrder -> Adams!Indices]
       /\ kgi \in 0..AdamsOrder /\ kprev \in 0..AdamsOrder
  <2>1. kprev \in 0..AdamsOrder
    BY <1>3
  <2> QED BY <2>1, AdamsTyped, Zenon
<1>4. iv \in Seq(1..AdamsOrder + 1) /\ iv \in Seq(Int) /\ Len(iv) \in Nat /\ Len(iv) <= AdamsOrder - 2
  BY AdamsTyped
<1>5. PICK d \in Int : d = Done /\ d >= 1
  OBVIOUS
<1>6. PICK l \in Nat : l = Len(iv)
  BY <1>4
<1>7. Done' = d /\ Order' = kord
  <2>1. Order' = kord
    BY <1>1 DEF Order
  <2>2. Done' = ns' - 1
    BY <1>1, <2>1 DEF Done
  <2> QED BY <1>5, <2>1, <2>2
<1>8. kord < d + 1 /\ ns' = d + 1
  BY <1>5
<1>9. /\ kprev >= d /\ kprev + l <= AdamsOrder
      /\ l > 0 => iv[l] >= kprev + 3 - d /\ kprev >= 2
      /\ Stairs(v, kprev, iv, d)
  BY <1>2, <1>5, <1>6 DEF AdamsStaircase
<1>10. kprev <= d + 1
  <2>1. d = (IF kold < ns THEN ns - 1 ELSE ns) /\ Order = kold
    BY <1>2, <1>5 DEF Done, Order
  <2>2. IF kold >= ns THEN kprev = kold ELSE kprev <= ns
    BY <1>2, <2>1 DEF AdamsStaircase
  <2>3. kold - 1 <= kord
    BY DEF AdamsInv, AdamsOrders
  <2> QED BY <1>3, <1>8, <2>1, <2>2, <2>3
<1>11. AdamsArrays'
  <2>1. w' \in [1..AdamsOrder + 1 -> Adams!Indices] /\ g' \in [1..AdamsOrder + 1 -> Adams!Indices]
    BY <1>1, <1>3, <1>14, StaleOf
  <2> QED BY <1>1, <1>4, <1>14, <2>1, Zenon DEF AdamsArrays, Adams!Indices
<1>12. AdamsStaircase'
  <2>1. ~(Order' >= ns') /\ kprev' <= ns'
    BY <1>1, <1>3, <1>7, <1>8, <1>10
  <2>2. Stairs(v', kprev', iv', Done')
    BY <1>1, <1>7, <1>9
  <2>3. /\ Done' >= 1 /\ kprev' >= Done' /\ kprev' + Len(iv') <= AdamsOrder
        /\ Len(iv') > 0 => iv'[Len(iv')] >= kprev' + 3 - Done' /\ kprev' >= 2
    BY <1>1, <1>5, <1>6, <1>7, <1>9
  <2> QED BY <2>1, <2>2, <2>3 DEF AdamsStaircase
<1>13. AdamsTaken'
  <2>1. /\ \A q \in kprev + 1 - d..kprev + l : w[q] = v[q]
        /\ kgi = IF kprev > d THEN d ELSE kprev - 1
        /\ \A i \in 1..kgi : gi[i] = i
        /\ \A i \in 3..d + 1 : g[i] = i - 1
    BY <1>2, <1>5, <1>6 DEF AdamsTaken
  <2>2. ASSUME NEW q \in kprev + 1 - d..kprev + l PROVE w'[q] = v[q]
    <3>1. q \in 1..kprev + l /\ q \in 1..AdamsOrder + 1 /\ kprev \in Nat
      <4>1. kprev >= d /\ kprev + l <= AdamsOrder
        BY <1>9
      <4> QED BY <1>3, <4>1
    <3>2. v[q] \in Int /\ v[q] >= 1
      BY <1>4, <1>5, <1>6, <1>9, <3>1, StairsPositive
    <3>3. w[q] >= 0 /\ w[q] = v[q]
      BY <2>1, <3>2
    <3> QED BY <1>1, <1>3, <1>14, <3>1, <3>3, StaleOf
  <2>3. ASSUME NEW i \in 3..d + 1 PROVE g'[i] = i - 1
    <3>1. i \in 1..AdamsOrder + 1
      <4>1. kprev >= d
        BY <1>9
      <4> QED BY <1>3, <4>1
    <3>2. g[i] >= 0 /\ g[i] = i - 1
      BY <2>1
    <3> QED BY <1>1, <1>3, <1>14, <3>1, <3>2, StaleOf
  <2>4. ~(Order' >= ns') /\ \A i \in Done' + 2..kord' + 1 : FALSE
    BY <1>1, <1>3, <1>7, <1>8
  <2>5. /\ \A q \in kprev' + 1 - Done'..kprev' + Len(iv') : w'[q] = v'[q]
        /\ kgi' = IF kprev' > Done' THEN Done' ELSE kprev' - 1
        /\ \A i \in 1..kgi' : gi'[i] = i
        /\ \A i \in 3..Done' + 1 : g'[i] = i - 1
    BY <1>1, <1>6, <1>7, <2>1, <2>2, <2>3
  <2> QED BY <2>4, <2>5 DEF AdamsTaken
<1> QED BY <1>11, <1>12, <1>13

\* The first step of a length starts them anew.
LEMMA AdamsRestarts ==
  ASSUME MultistepAssumption, LengthsAssumption, AdamsInv, Adams!Predict, ns' = 1, Adams!Restarted(h')
  PROVE  AdamsArrays' /\ AdamsStaircase' /\ AdamsTaken'
<1>1. /\ AdamsOrder \in Nat /\ AdamsOrder >= 2 /\ kord \in 1..AdamsOrder
      /\ v \in [1..AdamsOrder + 1 -> Adams!Indices] /\ w \in [1..AdamsOrder + 1 -> Adams!Indices]
      /\ g \in [1..AdamsOrder + 1 -> Adams!Indices] /\ gi \in [1..AdamsOrder -> Adams!Indices]
  BY AdamsNumbers DEF AdamsInv, Adams!TypeOK
<1>2. 1 \in Adams!Indices /\ 1 \in 1..kord /\ kord \in Int /\ 1 <= kord /\ kord <= AdamsOrder
  BY <1>1 DEF Adams!Indices
<1> DEFINE first == [q \in 1..AdamsOrder + 1 |-> IF q <= kord THEN 1 ELSE Adams!Stale(w)[q]]
<1>3. /\ pc' = "judge" /\ kord' = kord
  BY PredictCases
<1>4. /\ v' = [q \in 1..AdamsOrder + 1 |-> IF q <= kord THEN 1 ELSE Adams!Stale(v)[q]] /\ iv' = <<>>
      /\ kgi' = (IF kord = 1 THEN 0 ELSE 1)
      /\ gi' = (IF kord = 1 THEN gi ELSE [gi EXCEPT ![1] = first[2]])
      /\ w' = Adams!Rows(first, 1)[kord + 1]
      /\ g' = [i \in 1..AdamsOrder + 1 |->
                 IF i \in 3..kord + 1 THEN Adams!Rows(first, 1)[i][1] ELSE Adams!Stale(g)[i]]
      /\ kprev' = kord
  BY DEF Adams!Restarted
<1>5. /\ Adams!Stale(v) \in [1..AdamsOrder + 1 -> Adams!Indices]
      /\ Adams!Stale(w) \in [1..AdamsOrder + 1 -> Adams!Indices]
      /\ Adams!Stale(g) \in [1..AdamsOrder + 1 -> Adams!Indices]
  BY <1>1, StaleOf
<1>6. first \in [1..AdamsOrder + 1 -> Adams!Indices] /\ \A q \in 1..kord : first[q] = 1
  BY <1>1, <1>2, <1>5
<1> HIDE DEF first
<1>7. /\ Adams!Rows(first, 1)[kord + 1] \in [1..AdamsOrder + 1 -> Adams!Indices]
      /\ \A q \in kord..AdamsOrder + 1 : Adams!Rows(first, 1)[kord + 1][q] = first[q]
      /\ \A q \in 1..kord - 1 : Adams!Rows(first, 1)[kord + 1][q] = -(kord + 1 - q)
      /\ \A i \in 2..kord + 1 : Adams!Rows(first, 1)[i][1] = IF i = 2 THEN 1 ELSE -(i - 1)
  <2>1. \A q \in 1..kord + 1 - 1 : first[q] = 1
    BY <1>2, <1>6
  <2>2. /\ Adams!Rows(first, 1)[kord + 1] \in [1..AdamsOrder + 1 -> Adams!Indices]
        /\ \A q \in kord + 1 - 1..AdamsOrder + 1 : Adams!Rows(first, 1)[kord + 1][q] = first[q]
        /\ \A q \in 1..kord - 1 : Adams!Rows(first, 1)[kord + 1][q] = -(kord + 1 - q)
        /\ \A i \in 1 + 1..kord + 1 : Adams!Rows(first, 1)[i][1] = IF i = 1 + 1 THEN 1 ELSE -(i - 1)
    BY <1>1, <1>2, <1>6, <2>1, RowsTaken
  <2> QED BY <1>2, <2>2
<1>8. Done' = 1 /\ Order' = kord
  BY <1>2, <1>3 DEF Done, Order
<1>9. v' \in [1..AdamsOrder + 1 -> Adams!Indices] /\ \A q \in 1..kord : v'[q] = 1
  <2>1. \A q \in 1..AdamsOrder + 1 : (IF q <= kord THEN 1 ELSE Adams!Stale(v)[q]) \in Adams!Indices
    BY <1>2, <1>5
  <2>2. \A q \in 1..kord : q \in 1..AdamsOrder + 1 /\ q <= kord
    BY <1>2
  <2>3. v' = [q \in 1..AdamsOrder + 1 |-> IF q <= kord THEN 1 ELSE Adams!Stale(v)[q]]
    BY <1>4
  <2>4. v' \in [1..AdamsOrder + 1 -> Adams!Indices]
    BY <2>1, <2>3
  <2>5. \A q \in 1..kord : v'[q] = 1
    BY <2>2, <2>3
  <2> QED BY <2>4, <2>5
<1>10. g' \in [1..AdamsOrder + 1 -> Adams!Indices] /\ \A i \in 3..kord + 1 : g'[i] = -(i - 1)
  <2>1. ASSUME NEW i \in 3..kord + 1
        PROVE  Adams!Rows(first, 1)[i][1] = -(i - 1) /\ -(i - 1) \in Adams!Indices
    <3>1. i \in 2..kord + 1 /\ i # 2
      BY <1>2
    <3>2. -(i - 1) \in Adams!Indices
      BY <1>1, <1>2 DEF Adams!Indices
    <3> QED BY <1>7, <3>1, <3>2
  <2>2. \A i \in 1..AdamsOrder + 1 :
          (IF i \in 3..kord + 1 THEN Adams!Rows(first, 1)[i][1] ELSE Adams!Stale(g)[i]) \in Adams!Indices
    BY <1>5, <2>1
  <2>3. \A i \in 3..kord + 1 : i \in 1..AdamsOrder + 1
    BY <1>2
  <2> QED BY <1>4, <2>1, <2>2, <2>3
<1>11. /\ gi' \in [1..AdamsOrder -> Adams!Indices] /\ kgi' \in 0..AdamsOrder
       /\ kgi' = (IF kord > 1 THEN 1 ELSE kord - 1) /\ \A i \in 1..kgi' : gi'[i] = i
  <2>1. CASE kord = 1
    BY <1>1, <1>4, <2>1
  <2>2. CASE kord # 1
    <3>1. kgi' = 1 /\ gi' = [gi EXCEPT ![1] = 1] /\ kord > 1
      <4>1. 2 \in 1..kord /\ kord > 1
        BY <1>2, <2>2
      <4>2. first[2] = 1
        BY <1>6, <4>1
      <4> QED BY <1>4, <2>2, <4>1, <4>2
    <3> QED BY <1>1, <1>2, <3>1
  <2> QED BY <2>1, <2>2
<1>12. iv' \in Seq(1..AdamsOrder + 1) /\ Len(iv') = 0
  BY <1>4
<1>13. AdamsArrays'
  <2>1. kprev' \in 0..AdamsOrder /\ Len(iv') <= AdamsOrder - 2
    BY <1>1, <1>2, <1>4, <1>12
  <2>2. w' \in [1..AdamsOrder + 1 -> Adams!Indices]
    BY <1>4, <1>7
  <2> QED BY <1>9, <1>10, <1>11, <1>12, <2>1, <2>2, Zenon DEF AdamsArrays, Adams!Indices
<1>14. AdamsStaircase'
  <2>1. PICK array : array = v' /\ \A q \in 1..kord : array[q] = 1
    BY <1>9
  <2>2. Stairs(array, kord, <<>>, 1)
    BY <1>2, <2>1 DEF Stairs
  <2>3. Stairs(v', kprev', iv', Done')
    BY <1>4, <1>8, <2>1, <2>2
  <2>4. /\ Done' >= 1 /\ kprev' >= Done' /\ kprev' + Len(iv') <= AdamsOrder /\ ~(Len(iv') > 0)
        /\ Order' >= ns' /\ kprev' = Order'
    BY <1>2, <1>4, <1>8, <1>12
  <2> QED BY <2>3, <2>4 DEF AdamsStaircase
<1>15. AdamsTaken'
  <2>1. \A q \in kprev' + 1 - Done'..kprev' + Len(iv') : w'[q] = v'[q]
    <3>1. w'[kord] = 1 /\ v'[kord] = 1
      <4>1. kord \in 1..kord /\ kord \in kord..AdamsOrder + 1
        BY <1>2
      <4>2. w'[kord] = first[kord] /\ first[kord] = 1 /\ v'[kord] = 1
        BY <1>4, <1>6, <1>7, <1>9, <4>1
      <4> QED BY <4>2
    <3>2. kprev' = kord /\ Done' = 1 /\ Len(iv') = 0
      BY <1>4, <1>8, <1>12
    <3>3. \A q \in kord + 1 - 1..kord + 0 : q = kord
      BY <1>2
    <3> QED BY <3>1, <3>2, <3>3
  <2>2. \A q \in 1..kprev' - Done' : w'[q] = -(kprev' + 1 - q)
    BY <1>2, <1>4, <1>7, <1>8
  <2>3. kgi' = IF kprev' > Done' THEN Done' ELSE kprev' - 1
    BY <1>2, <1>4, <1>8, <1>11
  <2>4. \A i \in 3..Done' + 1 : g'[i] = i - 1
    BY <1>8
  <2>5. \A i \in Done' + 2..kord' + 1 : g'[i] = -(i - 1)
    BY <1>3, <1>8, <1>10
  <2> QED BY <1>11, <2>1, <2>2, <2>3, <2>4, <2>5 DEF AdamsTaken
<1> QED BY <1>13, <1>14, <1>15

\* The order of the trial and the one the coefficients were last made for.
LEMMA OrdersMet ==
  ASSUME MultistepAssumption, LengthsAssumption, AdamsInv, Kept, NEW n \in Int, n = Done + 1, n <= kord
  PROVE  /\ kprev = kord - 1 \/ kprev = kord \/ kprev = kord + 1
         /\ kord < kold <=> kprev = kord + 1
         /\ n >= 2 /\ kprev >= n - 1
<1>1. kord \in Int /\ kold \in Int /\ kprev \in Int /\ ns \in Int
  BY AdamsTyped
<1>2. pc = "idle" /\ ns >= 1 /\ AdamsStaircase
  BY DEF Kept, AdamsInv
<1>3. PICK d \in Int : d = Done /\ d = IF kold < ns THEN ns - 1 ELSE ns
  BY <1>1, <1>2 DEF Done, Order
<1>4. d >= 1 /\ kprev >= d /\ IF kold >= ns THEN kprev = kold ELSE kprev <= ns
  BY <1>2, <1>3 DEF AdamsStaircase, Order
<1>5. kold - 1 <= kord /\ kord <= kold + 1
  BY DEF AdamsInv, AdamsOrders
<1>6. n = d + 1 /\ n <= kord
  BY <1>3
<1> QED BY <1>1, <1>3, <1>4, <1>5, <1>6

\* The top of the stack is where the last numbers of that order are.
LEMMA StairsTop ==
  ASSUME NEW array, NEW order \in Int, NEW stack \in Seq(Int), NEW done, Stairs(array, order, stack, done),
         NEW m \in Nat, m = Len(stack), m > 0
  PROVE  /\ stack[m] \in Int /\ stack[m] <= order + 1 /\ array[stack[m]] = order + 2 - stack[m]
         /\ \A i \in 1..m - 1 : stack[i] > stack[m]
<1>1. \A i \in 1..m : stack[i] \in Int
  BY ElementOfSeq
<1>2. \A i \in 1..m : stack[i] <= order + m + 1 - i
  BY DEF Stairs
<1>3. \A i \in 1..m - 1 : stack[i + 1] < stack[i]
  BY DEF Stairs
<1>4. \A i \in 1..m : \A q \in stack[i]..order + m :
        i = 1 \/ q < stack[i - 1] => array[q] = order + m - i + 2 - q
  BY DEF Stairs
<1>5. m \in 1..m /\ stack[m] <= order + 1 /\ stack[m] \in stack[m]..order + m
  BY <1>1, <1>2
<1>6. array[stack[m]] = order + 2 - stack[m]
  <2>1. m = 1 \/ stack[m] < stack[m - 1]
    <3> SUFFICES ASSUME m # 1 PROVE stack[m] < stack[m - 1]
      OBVIOUS
    <3>1. m - 1 \in 1..m - 1 /\ (m - 1) + 1 = m
      OBVIOUS
    <3>2. stack[(m - 1) + 1] < stack[m - 1]
      BY <1>3, <3>1
    <3> QED BY <3>1, <3>2
  <2>2. array[stack[m]] = order + m - m + 2 - stack[m]
    BY <1>4, <1>5, <2>1
  <2> QED BY <1>1, <1>5, <2>2
<1>7. ASSUME NEW i \in 1..m - 1 PROVE stack[i] > stack[m]
  <2>1. i \in 1..m /\ i + 1 \in 1..m
    OBVIOUS
  <2>2. stack[i + 1] >= stack[m]
    BY <1>1, <1>3, <2>1, StackAbove
  <2> QED BY <1>1, <1>3, <2>1, <2>2
<1> QED BY <1>1, <1>5, <1>6, <1>7

SlopeTo(array, k, n, top) == \A q \in k + 2 - n..top - 1 : array[q] = k - q
IsTop(top, stack) == Len(stack) > 0 => top = stack[Len(stack)]

\* Between the numbers of equal index and the top each is one less than the
\* number before.
LEMMA StairsSlope ==
  ASSUME NEW k \in Int, NEW n \in 2..k, NEW stack \in Seq(Int), NEW old,
         Stairs(old, k - 1, stack, n - 1), NEW top \in Int, top <= k, IsTop(top, stack)
  PROVE  SlopeTo(old, k, n, top)
<1>1. PICK m \in Nat : m = Len(stack)
  BY LenProperties
<1>2. \A q \in 1..k - 1 :
        m = 0 \/ q < stack[m] => old[q] = IF q <= (k - 1) + 1 - (n - 1) THEN n - 1 ELSE (k - 1) + 1 - q
  BY <1>1 DEF Stairs
<1>3. ASSUME NEW q \in k + 2 - n..top - 1 PROVE old[q] = k - q
  <2>1. q \in 1..k - 1 /\ ~(q <= (k - 1) + 1 - (n - 1)) /\ (k - 1) + 1 - q = k - q
    OBVIOUS
  <2>2. m = 0 \/ q < stack[m]
    BY <1>1 DEF IsTop
  <2> QED BY <1>2, <2>1, <2>2
<1> QED BY <1>3 DEF SlopeTo

TopAbove(stack, bound) == Len(stack) > 0 => stack[Len(stack)] >= bound

\* What is left of the stack, and the numbers of the climb.
PoppedOf(stack, m) == IF m = 0 THEN stack ELSE SubSeq(stack, 1, m - 1)
ClimbAt(array, k, n, top, m, q) ==
  IF q \in k + 2 - n..top - 1 THEN k + 1 - q ELSE IF m = 0 /\ q = k THEN 1 ELSE array[q]

\* Stairs of n - 1 equal numbers below what is left of the stack.
StandsAfter(array, k, n, stack, m) ==
  /\ Stairs(array, k, PoppedOf(stack, m), n - 1)
  /\ PoppedOf(stack, m) \in Seq(Int) /\ Len(PoppedOf(stack, m)) = IF m = 0 THEN 0 ELSE m - 1
  /\ TopAbove(PoppedOf(stack, m), k + 4 - n)

\* A raised order, with or without a stack.
LEMMA StairsClimbed ==
  ASSUME NEW k \in Int, NEW n \in 2..k, NEW stack \in Seq(Int), NEW old, NEW diag, NEW top \in Int,
         NEW m \in Nat, m = Len(stack), m = 0 => top = k, m > 0 => top = stack[m] /\ top >= k + 3 - n,
         Stairs(old, k - 1, stack, n - 1),
         \A q \in 1..k + m : diag[q] = ClimbAt(old, k, n, top, m, q)
  PROVE  StandsAfter(diag, k, n, stack, m)
<1>3. PICK popped : popped = PoppedOf(stack, m) /\ popped = IF m = 0 THEN stack ELSE SubSeq(stack, 1, m - 1)
  BY Zenon DEF PoppedOf
<1>4. \A q \in 1..k + m :
        diag[q] = IF q \in k + 2 - n..top - 1 THEN k + 1 - q ELSE IF m = 0 /\ q = k THEN 1 ELSE old[q]
  BY Zenon DEF ClimbAt
<1>1. CASE m = 0
  <2>1. stack = <<>> /\ popped = <<>>
    BY <1>1, <1>3, EmptySeq
  <2>2. Stairs(old, k - 1, <<>>, n - 1)
    BY <2>1
  <2>3. ASSUME NEW q \in 1..k PROVE diag[q] = IF q >= k + 2 - n THEN k + 1 - q ELSE old[q]
    <3>1. diag[q] = IF q \in k + 2 - n..k - 1 THEN k + 1 - q ELSE IF q = k THEN 1 ELSE old[q]
      BY <1>1, <1>4
    <3> QED BY <3>1
  <2>4. Stairs(diag, k, <<>>, n - 1)
    BY <2>2, <2>3, StairsRaised
  <2>5. Len(popped) = 0 /\ popped \in Seq(Int) /\ ~(Len(popped) > 0)
    BY <2>1
  <2> QED BY <1>1, <1>3, <2>1, <2>4, <2>5, Zenon DEF TopAbove, StandsAfter
<1>2. CASE m # 0
  <2>1. m > 0 /\ top = stack[m] /\ top >= k + 3 - n /\ popped = SubSeq(stack, 1, m - 1)
    BY <1>2, <1>3
  <2>2. ASSUME NEW q \in 1..k + m - 1
        PROVE  diag[q] = IF q \in k + 2 - n..top - 1 THEN k + 1 - q ELSE old[q]
    <3>1. q \in 1..k + m
      OBVIOUS
    <3> QED BY <1>2, <1>4, <3>1
  <2>3. Stairs(diag, k, popped, n - 1)
    <3>1. \A q \in 1..k + m - 1 : diag[q] = IF q \in k + 2 - n..top - 1 THEN k + 1 - q ELSE old[q]
      BY <2>2
    <3>2. Stairs(diag, k, SubSeq(stack, 1, m - 1), n - 1)
      BY <2>1, <3>1, StairsPopped
    <3> QED BY <2>1, <3>2
  <2>4. m - 1 \in Nat /\ m - 1 <= Len(stack) /\ 1 \in Int
    BY <2>1
  <2>5. popped \in Seq(Int) /\ Len(popped) = m - 1 /\ \A i \in 1..m - 1 : popped[i] = stack[i]
    BY <2>1, <2>4, SubSeqProperties
  <2>6. ASSUME m - 1 > 0 PROVE popped[m - 1] >= k + 4 - n
    <3>1. m - 1 \in 1..m - 1
      BY <2>6
    <3>2. k - 1 \in Int
      OBVIOUS
    <3>3. stack[m - 1] > stack[m]
      BY <2>1, <3>1, <3>2, StairsTop
    <3>4. stack[m - 1] \in Int /\ popped[m - 1] = stack[m - 1]
      BY <2>5, <3>1, ElementOfSeq
    <3>5. PICK b \in Int : b = stack[m - 1]
      BY <3>4
    <3>6. b > top /\ top >= k + 3 - n
      BY <2>1, <3>3, <3>5
    <3>7. b >= k + 4 - n
      BY <3>6
    <3> QED BY <3>4, <3>5, <3>7
  <2>7. TopAbove(popped, k + 4 - n)
    BY <2>5, <2>6 DEF TopAbove
  <2> QED BY <1>2, <1>3, <2>3, <2>5, <2>7, Zenon DEF StandsAfter
<1> QED BY <1>1, <1>2

\* The stack after an order increase.
Popped == PoppedOf(iv, Len(iv))

\* The order is one more than the coefficients were made for.
Raised == kprev = kord - 1

\* What the numbers on the diagonal are where the order was raised.
Climbed(n) ==
  /\ Adams!Diagonal(n) \in [1..AdamsOrder + 1 -> Adams!Indices]
  /\ Stairs(Adams!Diagonal(n), kord, Popped, n - 1)
  /\ Popped \in Seq(1..AdamsOrder + 1) /\ kord + Len(Popped) <= AdamsOrder
  /\ Len(Popped) > 0 => Popped[Len(Popped)] >= kord + 4 - n
  /\ \A q \in kord + 2 - n..kord + Len(Popped) :
       \/ q = kord /\ iv = <<>>
       \/ kord - q \in Adams!RaisedFrom..n - 2
       \/ Adams!Diagonal(n)[q] = v[q] /\ q <= kprev + Len(iv)
  /\ kord = n => IF n - 2 >= Adams!RaisedFrom THEN Adams!Diagonal(n)[2] = n - 1
                 ELSE iv = <<>> /\ n = 2 /\ Adams!Diagonal(n)[2] = 1

\* How far the climb goes, and what is below it.
ClimbEnds(k, n, stack, array, top) ==
  LET m == Len(stack)
  IN /\ top <= k
     /\ m = 0 => top = k
     /\ m > 0 => top = stack[m] /\ top >= k + 3 - n /\ array[top] = k + 1 - top
     /\ \A q \in k + 2 - n..top - 1 : array[q] = k - q

\* The climb ends at the top of the stack, or at v(k) when nothing is stacked.
LEMMA ClimbTo ==
  ASSUME NEW k \in Int, NEW n \in 2..k, NEW stack \in Seq(Int), NEW old, Stairs(old, k - 1, stack, n - 1),
         NEW m \in Nat, m = Len(stack), m > 0 => stack[m] >= k + 3 - n
  PROVE  \E top \in Int : ClimbEnds(k, n, stack, old, top)
<1>1. CASE m = 0
  <2>1. IsTop(k, stack) /\ k <= k
    BY <1>1 DEF IsTop
  <2>2. \A q \in k + 2 - n..k - 1 : old[q] = k - q
    <3>1. SlopeTo(old, k, n, k)
      BY <2>1, StairsSlope, Zenon
    <3> QED BY <3>1, Zenon DEF SlopeTo
  <2>3. ~(m > 0)
    BY <1>1
  <2>4. ClimbEnds(k, n, stack, old, k)
    BY <1>1, <2>2, <2>3 DEF ClimbEnds
  <2> QED BY <2>4
<1>2. CASE m > 0
  <2>1. k - 1 \in Int
    OBVIOUS
  <2>2. stack[m] \in Int /\ stack[m] <= (k - 1) + 1 /\ old[stack[m]] = (k - 1) + 2 - stack[m]
    BY <1>2, <2>1, StairsTop
  <2>3. PICK top \in Int : top = stack[m]
    BY <2>2
  <2>4. top <= k /\ top >= k + 3 - n /\ old[top] = k + 1 - top
    BY <1>2, <2>2, <2>3
  <2>5. \A q \in k + 2 - n..top - 1 : old[q] = k - q
    <3>1. top <= k /\ IsTop(top, stack)
      BY <2>3, <2>4 DEF IsTop
    <3>2. SlopeTo(old, k, n, top)
      BY <2>3, <3>1, StairsSlope, Zenon
    <3> QED BY <3>2, Zenon DEF SlopeTo
  <2>6. m # 0
    BY <1>2
  <2>7. ClimbEnds(k, n, stack, old, top)
    BY <2>3, <2>4, <2>5, <2>6, Zenon DEF ClimbEnds
  <2> QED BY <2>7
<1> QED BY <1>1, <1>2

\* A raised order: the diagonal climbs from where the last orders left v.
LEMMA DiagonalClimbed ==
  ASSUME AdamsInv, Kept, NEW n \in Int, n = Done + 1, n <= kord, Raised
  PROVE  Climbed(n)
<1>1. /\ kord \in Int /\ 1 <= kord /\ kord <= AdamsOrder /\ AdamsOrder \in Int /\ n >= 2
  <2>1. kord \in Int /\ 1 <= kord /\ kord <= AdamsOrder
    BY MultistepAssumption, LengthsAssumption, AdamsTyped
  <2>2. AdamsOrder \in Int
    BY MultistepAssumption, LengthsAssumption, AdamsNumbers
  <2>3. n >= 2
    BY MultistepAssumption, LengthsAssumption, OrdersMet
  <2> QED BY <2>1, <2>2, <2>3
<1>2. v \in [1..AdamsOrder + 1 -> Adams!Indices] /\ AdamsOrder \in Nat /\ iv \in Seq(1..AdamsOrder + 1)
  BY MultistepAssumption, LengthsAssumption, AdamsTyped, AdamsNumbers
<1>3. PICK stack : stack = iv /\ stack \in Seq(Int)
  BY MultistepAssumption, LengthsAssumption, AdamsTyped
<1>4. PICK m \in Nat : m = Len(stack)
  BY <1>3, LenProperties
<1>5. iv = <<>> <=> m = 0
  BY <1>3, <1>4, EmptySeq
<1>6. /\ Stairs(v, kord - 1, stack, n - 1) /\ (kord - 1) + m <= AdamsOrder
      /\ m > 0 => stack[m] >= kord + 3 - n
  <2>1. AdamsStaircase
    BY DEF Kept, AdamsInv
  <2>2. PICK d \in Int : d = Done /\ n = d + 1
    <3>1. ns \in Int /\ kold \in Int
      BY MultistepAssumption, LengthsAssumption, AdamsTyped
    <3> QED BY <3>1 DEF Done, Order, Kept
  <2>3. Stairs(v, kprev, stack, d) /\ kprev + m <= AdamsOrder /\ (m > 0 => stack[m] >= kprev + 3 - d)
    BY <1>3, <1>4, <2>1, <2>2 DEF AdamsStaircase
  <2>4. d = n - 1 /\ (kord - 1) + 3 - d = kord + 3 - n
    BY <1>1, <2>2
  <2>5. kprev = kord - 1
    BY DEF Raised
  <2> QED BY <2>3, <2>4, <2>5
<1>27. PICK top \in Int : ClimbEnds(kord, n, stack, v, top)
  <2>1. n \in 2..kord
    BY <1>1
  <2>2. kord \in Int
    BY <1>1
  <2>3. stack \in Seq(Int)
    BY <1>3
  <2>4. Stairs(v, kord - 1, stack, n - 1)
    BY <1>6
  <2>5. m > 0 => stack[m] >= kord + 3 - n
    BY <1>6
  <2> QED BY <1>4, <2>1, <2>2, <2>3, <2>4, <2>5, ClimbTo, Zenon
<1>7. /\ top <= kord
      /\ m = 0 => top = kord
      /\ m > 0 => top = stack[m] /\ top >= kord + 3 - n /\ v[top] = kord + 1 - top
      /\ \A q \in kord + 2 - n..top - 1 : v[q] = kord - q
  BY <1>4, <1>27, Zenon DEF ClimbEnds
<1>8. PICK r \in Int : r = Adams!RaisedFrom /\ r = kord + 1 - top
  <2>1. CASE m = 0
    <3>1. Adams!RaisedFrom = 1
      BY <1>5, <2>1 DEF Adams!RaisedFrom
    <3> QED BY <1>1, <1>7, <2>1, <3>1
  <2>2. CASE m > 0
    <3>1. Adams!RaisedFrom = kord + 1 - stack[m]
      BY <1>3, <1>4, <1>5, <2>2 DEF Adams!RaisedFrom
    <3> QED BY <1>1, <1>7, <2>2, <3>1
  <2> QED BY <2>1, <2>2
<1>9. r \in 1..n - 1 /\ kord + 1 - r = top /\ top \in 1..kord /\ (m > 0 => r <= n - 2) /\ (m = 0 => r = 1)
  BY <1>1, <1>7, <1>8
<1>25. PICK new : new = Begun
  OBVIOUS
<1>10. /\ new \in [1..AdamsOrder + 1 -> Adams!Indices] /\ new[top] = r
       /\ \A q \in 1..AdamsOrder + 1 : new[q] = IF m = 0 /\ q = kord THEN 1 ELSE v[q]
  <2>1. kord \in 1..AdamsOrder + 1 /\ 1 \in Adams!Indices
    BY <1>1 DEF Adams!Indices
  <2>2. CASE m = 0
    <3>1. new = [v EXCEPT ![kord] = 1]
      BY <1>5, <1>25, <2>2 DEF Begun
    <3>2. top = kord /\ r = 1
      BY <1>7, <1>9, <2>2
    <3> QED BY <1>2, <2>1, <2>2, <3>1, <3>2
  <2>3. CASE m > 0
    <3>1. new = v /\ m # 0
      BY <1>5, <1>25, <2>3 DEF Begun
    <3>2. v[top] = r
      BY <1>7, <1>8, <2>3
    <3> QED BY <1>2, <3>1, <3>2, Zenon
  <2> QED BY <2>2, <2>3
<1>11. \A j \in r..n - 2 : new[kord - j] = j
  <2>1. ASSUME NEW j \in r..n - 2 PROVE new[kord - j] = j
    <3>1. PICK q \in Int : q = kord - j
      BY <1>1
    <3>2. q \in kord + 2 - n..top - 1 /\ q # kord /\ q \in 1..AdamsOrder + 1 /\ kord - q = j
      BY <1>1, <1>7, <1>8, <1>9, <3>1
    <3>3. v[q] = kord - q
      BY <1>7, <3>2
    <3> QED BY <1>10, <3>1, <3>2, <3>3
  <2> QED BY <2>1
<1>13. Adams!Diagonal(n) =
         [i \in 1..AdamsOrder + 1 |-> IF kord - i \in r..n - 2 THEN kord + 1 - i ELSE new[i]]
  <2>1. n \in 2..kord /\ kord \in 1..AdamsOrder
    BY <1>1
  <2>2. Begun[kord + 1 - r] = r /\ \A j \in r..n - 2 : Begun[kord - j] = j
    BY <1>9, <1>10, <1>11, <1>25
  <2>3. Adams!Diagonal(n) =
          [i \in 1..AdamsOrder + 1 |-> IF kord - i \in r..n - 2 THEN kord + 1 - i ELSE Begun[i]]
    BY <1>2, <1>8, <1>9, <2>1, <2>2, DiagonalOf, Zenon
  <2> QED BY <1>25, <2>3, Zenon
<1>14. Adams!Diagonal(n) \in [1..AdamsOrder + 1 -> Adams!Indices]
  <2>1. ASSUME NEW i \in 1..AdamsOrder + 1
        PROVE  (IF kord - i \in r..n - 2 THEN kord + 1 - i ELSE new[i]) \in Adams!Indices
    <3>1. kord - i \in r..n - 2 => kord + 1 - i \in Adams!Indices
      BY <1>1, <1>9 DEF Adams!Indices
    <3> QED BY <1>10, <3>1
  <2> QED BY <1>13, <2>1
<1>15. PICK diag : diag = Adams!Diagonal(n)
  OBVIOUS
<1>16. ASSUME NEW q \in 1..AdamsOrder + 1
       PROVE  diag[q] = IF q \in kord + 2 - n..top - 1 THEN kord + 1 - q
                        ELSE IF m = 0 /\ q = kord THEN 1 ELSE v[q]
  <2>1. kord - q \in r..n - 2 <=> q \in kord + 2 - n..top - 1
    BY <1>1, <1>8
  <2>2. diag[q] = IF kord - q \in r..n - 2 THEN kord + 1 - q ELSE new[q]
    BY <1>13, <1>15
  <2>3. new[q] = IF m = 0 /\ q = kord THEN 1 ELSE v[q]
    BY <1>10
  <2> QED BY <2>1, <2>2, <2>3, Zenon
<1>17. Popped = PoppedOf(stack, m)
  BY <1>3, <1>4, Zenon DEF Popped
<1>18. PICK popped : popped = Popped /\ popped = PoppedOf(stack, m)
  BY <1>17, Zenon
<1>26. popped = IF m = 0 THEN stack ELSE SubSeq(stack, 1, m - 1)
  BY <1>18, Zenon DEF PoppedOf
<1>19. /\ Stairs(diag, kord, popped, n - 1) /\ popped \in Seq(Int) /\ Len(popped) = (IF m = 0 THEN 0 ELSE m - 1)
       /\ Len(popped) > 0 => popped[Len(popped)] >= kord + 4 - n
  <2>1. \A q \in 1..kord + m : diag[q] = ClimbAt(v, kord, n, top, m, q)
    <3>1. \A q \in 1..kord + m : q \in 1..AdamsOrder + 1
      BY <1>1, <1>6
    <3> QED BY <1>16, <3>1, Zenon DEF ClimbAt
  <2>2. n \in 2..kord
    BY <1>1
  <2>3. m > 0 => top = stack[m] /\ top >= kord + 3 - n
    BY <1>7
  <2>4. /\ Stairs(diag, kord, PoppedOf(stack, m), n - 1) /\ PoppedOf(stack, m) \in Seq(Int)
        /\ Len(PoppedOf(stack, m)) = (IF m = 0 THEN 0 ELSE m - 1)
        /\ TopAbove(PoppedOf(stack, m), kord + 4 - n)
    <3>5. StandsAfter(diag, kord, n, stack, m)
      <4>1. kord \in Int
        BY <1>1
      <4>2. stack \in Seq(Int)
        BY <1>3
      <4>3. Stairs(v, kord - 1, stack, n - 1)
        BY <1>6
      <4>4. m = 0 => top = kord
        BY <1>7
      <4> QED BY <1>4, <2>1, <2>2, <2>3, <4>1, <4>2, <4>3, <4>4, StairsClimbed, Zenon
    <3> QED BY <3>5, Zenon DEF StandsAfter
  <2> QED BY <1>18, <2>4, Zenon DEF TopAbove
<1>20. popped \in Seq(1..AdamsOrder + 1)
  <2>1. CASE m = 0
    BY <1>2, <1>3, <1>26, <2>1
  <2>2. CASE m # 0
    <3>1. \A i \in 1..Len(popped) : popped[i] \in 1..AdamsOrder + 1
      <4>1. m - 1 \in Nat /\ m - 1 <= m /\ 1 \in Int
        BY <2>2
      <4>4. m - 1 <= Len(stack) /\ popped = SubSeq(stack, 1, m - 1)
        BY <1>4, <1>26, <2>2, <4>1
      <4>2. Len(popped) = m - 1 /\ \A i \in 1..m - 1 : popped[i] = stack[i]
        BY <1>3, <4>1, <4>4, SubSeqProperties
      <4>3. \A i \in 1..m : stack[i] \in 1..AdamsOrder + 1
        BY <1>2, <1>3, <1>4, ElementOfSeq
      <4> QED BY <4>2, <4>3
    <3>2. Len(popped) \in Nat /\ popped \in [1..Len(popped) -> 1..AdamsOrder + 1]
      BY <1>19, <3>1, LenProperties
    <3> QED BY <3>2, ListOf
  <2> QED BY <2>1, <2>2
<1>21. kord + Len(popped) <= AdamsOrder
  BY <1>1, <1>6, <1>19
<1>22. ASSUME NEW q \in kord + 2 - n..kord + Len(popped)
       PROVE  \/ q = kord /\ m = 0
              \/ kord - q \in r..n - 2
              \/ diag[q] = v[q] /\ q <= (kord - 1) + m
  <2>4. PICK l \in Int : l = Len(popped) /\ l = IF m = 0 THEN 0 ELSE m - 1
    <3>1. (IF m = 0 THEN 0 ELSE m - 1) \in Int
      OBVIOUS
    <3> QED BY <1>19, <3>1, Zenon
  <2>1. q \in 1..AdamsOrder + 1
    BY <1>1, <1>21, <2>4
  <2>2. CASE q \in kord + 2 - n..top - 1
    BY <1>1, <1>8, <2>2
  <2>3. CASE ~(q \in kord + 2 - n..top - 1) /\ ~(m = 0 /\ q = kord)
    <3>1. diag[q] = v[q]
      BY <1>16, <2>1, <2>3
    <3>2. q <= (kord - 1) + m
      <4>1. l = IF m = 0 THEN 0 ELSE m - 1
        BY <2>4
      <4>2. q <= kord + l /\ q \in Int
        BY <1>1, <2>4
      <4>3. ~(m = 0 /\ q = kord)
        BY <2>3
      <4> QED BY <1>1, <4>1, <4>2, <4>3
    <3> QED BY <3>1, <3>2
  <2> QED BY <2>2, <2>3
<1>23. ASSUME kord = n PROVE IF n - 2 >= r THEN diag[2] = n - 1 ELSE m = 0 /\ n = 2 /\ diag[2] = 1
  <2>1. 2 \in 1..AdamsOrder + 1
    BY <1>1
  <2>2. diag[2] = IF 2 \in kord + 2 - n..top - 1 THEN kord + 1 - 2 ELSE IF m = 0 /\ 2 = kord THEN 1 ELSE v[2]
    BY <1>16, <2>1
  <2>3. CASE n - 2 >= r
    <3>1. 2 \in kord + 2 - n..top - 1 /\ kord + 1 - 2 = n - 1
      BY <1>1, <1>8, <1>23, <2>3
    <3> QED BY <2>2, <2>3, <3>1
  <2>4. CASE ~(n - 2 >= r)
    <3>1. m = 0 /\ n = 2 /\ 2 = kord /\ ~(2 \in kord + 2 - n..top - 1)
      BY <1>1, <1>7, <1>9, <1>23, <2>4
    <3> QED BY <2>2, <2>4, <3>1
  <2> QED BY <2>3, <2>4
<1>24. Len(iv) = m /\ kprev = kord - 1
  BY <1>3, <1>4 DEF Raised
<1> QED BY <1>5, <1>8, <1>14, <1>15, <1>18, <1>19, <1>20, <1>21, <1>22, <1>23, <1>24, Zenon DEF Climbed, Adams!Indices

\* The update of v from the numbers on the diagonal.
NextFrom(base, n) ==
  [q \in 1..AdamsOrder + 1 |->
     IF q <= kord + 1 - n THEN Adams!Mix(base[q], base[q + 1], n - 1, n) ELSE base[q]]

NextTaken(new, base, n) ==
  /\ new \in [1..AdamsOrder + 1 -> Adams!Indices]
  /\ \A q \in 1..AdamsOrder + 1 : new[q] = IF q <= kord + 1 - n THEN n ELSE base[q]

\* The update raises every number it reaches to the next index.
LEMMA NextOf ==
  ASSUME AdamsOrder \in Nat, kord \in 1..AdamsOrder, NEW n \in 2..kord,
         NEW base \in [1..AdamsOrder + 1 -> Adams!Indices], \A q \in 1..kord + 2 - n : base[q] = n - 1
  PROVE  NextTaken(NextFrom(base, n), base, n)
<1>1. n \in Adams!Indices
  BY DEF Adams!Indices
<1>2. ASSUME NEW q \in 1..AdamsOrder + 1
      PROVE  (IF q <= kord + 1 - n THEN Adams!Mix(base[q], base[q + 1], n - 1, n) ELSE base[q]) =
               IF q <= kord + 1 - n THEN n ELSE base[q]
  <2>1. CASE q <= kord + 1 - n
    <3>1. q \in 1..kord + 2 - n /\ q + 1 \in 1..kord + 2 - n
      BY <2>1
    <3>2. PICK j \in Nat : j = n - 1
      OBVIOUS
    <3>3. base[q] = j /\ base[q + 1] = j /\ j + 1 = n
      BY <3>1, <3>2
    <3>4. Adams!Mix(j, j, j, n) = n
      BY <3>3 DEF Adams!Mix, Adams!Abs
    <3> QED BY <2>1, <3>2, <3>3, <3>4
  <2> QED BY <2>1
<1>3. \A q \in 1..AdamsOrder + 1 : NextFrom(base, n)[q] = IF q <= kord + 1 - n THEN n ELSE base[q]
  BY <1>2 DEF NextFrom
<1>4. NextFrom(base, n) = [q \in 1..AdamsOrder + 1 |-> IF q <= kord + 1 - n THEN n ELSE base[q]]
  BY <1>2, Zenon DEF NextFrom
<1>5. NextFrom(base, n) \in [1..AdamsOrder + 1 -> Adams!Indices]
  BY <1>1, <1>4
<1> QED BY <1>3, <1>5, Zenon DEF NextTaken

\* The numbers the update starts from, and the stack after it.
Base(n) == IF kord > kprev THEN Adams!Diagonal(n) ELSE v
Left == IF kord > kprev /\ iv # <<>> THEN SubSeq(iv, 1, Len(iv) - 1) ELSE iv
Pushed(n) == IF kord < kold THEN Append(Left, kord + 1 - n + 2) ELSE Left

Extended(n) ==
  /\ NextTaken(NextFrom(Base(n), n), Base(n), n)
  /\ Stairs(NextFrom(Base(n), n), kord, Pushed(n), n)
  /\ Pushed(n) \in Seq(1..AdamsOrder + 1) /\ kord + Len(Pushed(n)) <= AdamsOrder
  /\ TopAbove(Pushed(n), kord + 3 - n)

\* The two updates of the stairs, for numbers that differ as far as here.
TakenTo(new, old, k, n, end) == \A q \in 1..end : new[q] = IF q <= k + 1 - n THEN n ELSE old[q]

\* The stairs with the stack left alone.
LEMMA StairsGoOn ==
  ASSUME NEW k \in Int, NEW n \in 2..k, NEW stack \in Seq(Int), NEW old, NEW new,
         Stairs(old, k, stack, n - 1), TopAbove(stack, k + 4 - n), TakenTo(new, old, k, n, k + Len(stack))
  PROVE  Stairs(new, k, stack, n)
<1>1. Len(stack) > 0 => stack[Len(stack)] >= k + 4 - n
  BY DEF TopAbove
<1>2. \A q \in 1..k + Len(stack) : new[q] = IF q <= k + 1 - n THEN n ELSE old[q]
  BY DEF TakenTo
<1> QED BY <1>1, <1>2, StairsExtended

\* The stairs with an order put on the stack.
LEMMA StairsGoDown ==
  ASSUME NEW k \in Int, NEW n \in 2..k, NEW stack \in Seq(Int), NEW old, NEW new, NEW mark \in Int,
         Stairs(old, k + 1, stack, n - 1), TopAbove(stack, k + 5 - n),
         TakenTo(new, old, k, n, k + 1 + Len(stack)), mark = k + 3 - n
  PROVE  Stairs(new, k, Append(stack, mark), n)
<1>1. Len(stack) > 0 => stack[Len(stack)] >= k + 5 - n
  BY DEF TopAbove
<1>2. \A q \in 1..k + 1 + Len(stack) : new[q] = IF q <= k + 1 - n THEN n ELSE old[q]
  BY DEF TakenTo
<1> QED BY <1>1, <1>2, StairsLowered

\* The order raised by one or kept.
LEMMA ExtendsOn ==
  ASSUME AdamsOrder \in Nat, kord \in 1..AdamsOrder, NEW n \in 2..kord,
         NEW base \in [1..AdamsOrder + 1 -> Adams!Indices], NEW stack \in Seq(Int),
         Stairs(base, kord, stack, n - 1), TopAbove(stack, kord + 4 - n), kord + Len(stack) <= AdamsOrder
  PROVE  /\ NextTaken(NextFrom(base, n), base, n)
         /\ Stairs(NextFrom(base, n), kord, stack, n)
         /\ TopAbove(stack, kord + 3 - n)
<1>1. PICK m \in Nat : m = Len(stack) /\ (m > 0 => stack[m] \in Int)
  BY LenProperties, ElementOfSeq
<1>2. m > 0 => stack[m] >= kord + 4 - n
  BY <1>1 DEF TopAbove
<1>3. \A q \in 1..kord + 2 - n : base[q] = n - 1
  <2>1. n - 1 \in Int /\ n - 1 >= 1 /\ kord \in Int
    OBVIOUS
  <2>2. Len(stack) > 0 => stack[Len(stack)] >= kord + 3 - (n - 1)
    BY <1>1, <1>2
  <2>3. \A q \in 1..kord + 1 - (n - 1) : base[q] = n - 1
    BY <2>1, <2>2, StairsBegin
  <2> QED BY <2>3
<1>4. NextTaken(NextFrom(base, n), base, n)
  BY <1>3, NextOf, Zenon
<1>5. PICK new : new = NextFrom(base, n)
  OBVIOUS
<1>6. \A q \in 1..kord + m : new[q] = IF q <= kord + 1 - n THEN n ELSE base[q]
  <2>1. \A q \in 1..kord + m : q \in 1..AdamsOrder + 1
    BY <1>1
  <2> QED BY <1>4, <1>5, <2>1, Zenon DEF NextTaken
<1>7. Stairs(new, kord, stack, n)
  <2>1. kord \in Int /\ n \in 2..kord
    OBVIOUS
  <2>2. TakenTo(new, base, kord, n, kord + Len(stack))
    BY <1>1, <1>6, Zenon DEF TakenTo
  <2> QED BY <2>1, <2>2, StairsGoOn, Zenon
<1>8. TopAbove(stack, kord + 3 - n)
  <2>1. m > 0 => stack[m] >= kord + 3 - n
    BY <1>1, <1>2
  <2> QED BY <1>1, <2>1 DEF TopAbove
<1> QED BY <1>4, <1>5, <1>7, <1>8

\* The order lowered by one.
LEMMA ExtendsDown ==
  ASSUME AdamsOrder \in Nat, kord \in 1..AdamsOrder, NEW n \in 2..kord,
         NEW base \in [1..AdamsOrder + 1 -> Adams!Indices], NEW stack \in Seq(Int),
         Stairs(base, kord + 1, stack, n - 1), TopAbove(stack, kord + 5 - n),
         kord + 1 + Len(stack) <= AdamsOrder
  PROVE  /\ NextTaken(NextFrom(base, n), base, n)
         /\ Stairs(NextFrom(base, n), kord, Append(stack, kord + 1 - n + 2), n)
         /\ Append(stack, kord + 1 - n + 2) \in Seq(Int)
         /\ Len(Append(stack, kord + 1 - n + 2)) = Len(stack) + 1
         /\ TopAbove(Append(stack, kord + 1 - n + 2), kord + 3 - n)
<1>1. PICK m \in Nat : m = Len(stack) /\ (m > 0 => stack[m] \in Int)
  BY LenProperties, ElementOfSeq
<1>2. m > 0 => stack[m] >= kord + 5 - n
  BY <1>1 DEF TopAbove
<1>3. \A q \in 1..kord + 2 - n : base[q] = n - 1
  <2>1. n - 1 \in Int /\ n - 1 >= 1 /\ kord + 1 \in Int
    OBVIOUS
  <2>2. Len(stack) > 0 => stack[Len(stack)] >= (kord + 1) + 3 - (n - 1)
    BY <1>1, <1>2
  <2>3. \A q \in 1..(kord + 1) + 1 - (n - 1) : base[q] = n - 1
    BY <2>1, <2>2, StairsBegin
  <2>4. \A q \in 1..kord + 2 - n : q \in 1..(kord + 1) + 1 - (n - 1)
    OBVIOUS
  <2> QED BY <2>3, <2>4
<1>4. NextTaken(NextFrom(base, n), base, n)
  BY <1>3, NextOf, Zenon
<1>5. PICK new : new = NextFrom(base, n)
  OBVIOUS
<1>6. \A q \in 1..kord + 1 + m : new[q] = IF q <= kord + 1 - n THEN n ELSE base[q]
  <2>1. \A q \in 1..kord + 1 + m : q \in 1..AdamsOrder + 1
    BY <1>1
  <2> QED BY <1>4, <1>5, <2>1, Zenon DEF NextTaken
<1>7. PICK mark \in Int : mark = kord + 1 - n + 2
  OBVIOUS
<1>8. Stairs(new, kord, Append(stack, mark), n)
  <2>1. kord \in Int /\ n \in 2..kord
    OBVIOUS
  <2>2. TakenTo(new, base, kord, n, kord + 1 + Len(stack))
    BY <1>1, <1>6, Zenon DEF TakenTo
  <2>3. mark = kord + 3 - n
    BY <1>7
  <2> QED BY <1>7, <2>1, <2>2, <2>3, StairsGoDown, Zenon
<1>9. /\ Append(stack, mark) \in Seq(Int) /\ Len(Append(stack, mark)) = m + 1
      /\ Append(stack, mark)[m + 1] = mark
  BY <1>1, AppendProperties
<1>10. TopAbove(Append(stack, mark), kord + 3 - n)
  <2>1. mark >= kord + 3 - n
    BY <1>7
  <2> QED BY <1>9, <2>1, Zenon DEF TopAbove
<1>11. kord + 1 - n + 2 = mark
  BY <1>7
<1> QED BY <1>1, <1>4, <1>5, <1>8, <1>9, <1>10, <1>11, Zenon

\* What is kept of the step before, for the number of steps now.
LEMMA StairsBefore ==
  ASSUME AdamsInv, Kept, NEW n \in Int, n = Done + 1
  PROVE  /\ Stairs(v, kprev, iv, n - 1) /\ kprev + Len(iv) <= AdamsOrder
         /\ TopAbove(iv, kprev + 4 - n)
<1>1. AdamsStaircase
  BY DEF Kept, AdamsInv
<1>2. kprev \in Int /\ ns \in Int /\ kold \in Int
  BY MultistepAssumption, LengthsAssumption, AdamsTyped
<1>3. PICK d \in Int : d = Done
  BY <1>2 DEF Done, Order, Kept
<1>4. d = n - 1 /\ kprev + 3 - d = kprev + 4 - n
  BY <1>2, <1>3
<1>5. Stairs(v, kprev, iv, d) /\ kprev + Len(iv) <= AdamsOrder
  BY <1>1, <1>3, Zenon DEF AdamsStaircase
<1>6. Len(iv) > 0 => iv[Len(iv)] >= kprev + 3 - d
  BY <1>1, <1>3, Zenon DEF AdamsStaircase
<1>7. TopAbove(iv, kprev + 4 - n)
  BY <1>4, <1>6, Zenon DEF TopAbove
<1> QED BY <1>4, <1>5, <1>7, Zenon

\* The numbers of a step whose order was raised before it.
LEMMA ExtendedRaised ==
  ASSUME AdamsInv, Kept, NEW n \in Int, n = Done + 1, n <= kord, Raised
  PROVE  Extended(n)
<1>1. kord \in Int /\ kord \in 1..AdamsOrder /\ AdamsOrder \in Nat /\ n \in 2..kord
  <2>1. kord \in Int /\ 1 <= kord /\ kord <= AdamsOrder /\ AdamsOrder \in Nat
    BY MultistepAssumption, LengthsAssumption, AdamsTyped, AdamsNumbers
  <2>2. n >= 2
    BY MultistepAssumption, LengthsAssumption, OrdersMet
  <2> QED BY <2>1, <2>2
<1>2. Climbed(n)
  BY DiagonalClimbed, Zenon
<1>3. PICK base, stack : base = Adams!Diagonal(n) /\ stack = Popped
  OBVIOUS
<1>4. /\ base \in [1..AdamsOrder + 1 -> Adams!Indices] /\ Stairs(base, kord, stack, n - 1)
      /\ stack \in Seq(1..AdamsOrder + 1) /\ kord + Len(stack) <= AdamsOrder
  BY <1>2, <1>3, Zenon DEF Climbed
<1>5. TopAbove(stack, kord + 4 - n)
  BY <1>2, <1>3, Zenon DEF Climbed, TopAbove
<1>6. stack \in Seq(Int)
  <2>1. 1..AdamsOrder + 1 \subseteq Int
    OBVIOUS
  <2> QED BY <1>4, <2>1, ListOfNumbers, Zenon
<1>7. /\ NextTaken(NextFrom(base, n), base, n)
      /\ Stairs(NextFrom(base, n), kord, stack, n)
      /\ TopAbove(stack, kord + 3 - n)
  BY <1>1, <1>4, <1>5, <1>6, ExtendsOn, Zenon
<1>8. kord > kprev /\ ~(kord < kold)
  <2>1. kprev \in Int /\ kold \in Int /\ kprev = kord - 1
    BY MultistepAssumption, LengthsAssumption, AdamsTyped DEF Raised
  <2>2. kord < kold <=> kprev = kord + 1
    BY MultistepAssumption, LengthsAssumption, OrdersMet
  <2> QED BY <1>1, <2>1, <2>2
<1>9. Base(n) = base
  BY <1>3, <1>8, Zenon DEF Base
<1>10. Pushed(n) = stack
  <2>1. Left = Popped
    <3>1. Len(iv) = 0 <=> iv = <<>>
      <4>1. iv \in Seq(Int)
        BY MultistepAssumption, LengthsAssumption, AdamsTyped
      <4> QED BY <4>1, EmptySeq
    <3> QED BY <1>8, <3>1, Zenon DEF Left, Popped, PoppedOf
  <2> QED BY <1>3, <1>8, <2>1, Zenon DEF Pushed
<1> QED BY <1>4, <1>7, <1>9, <1>10, Zenon DEF Extended

\* The numbers of a step of the order of the one before.
LEMMA ExtendedLevel ==
  ASSUME AdamsInv, Kept, NEW n \in Int, n = Done + 1, n <= kord, NEW k, k = kprev, k = kord
  PROVE  Extended(n)
<1>1. kord \in Int /\ kord \in 1..AdamsOrder /\ AdamsOrder \in Nat /\ n \in 2..kord
  <2>1. kord \in Int /\ 1 <= kord /\ kord <= AdamsOrder /\ AdamsOrder \in Nat
    BY MultistepAssumption, LengthsAssumption, AdamsTyped, AdamsNumbers
  <2>2. n >= 2
    BY MultistepAssumption, LengthsAssumption, OrdersMet
  <2> QED BY <2>1, <2>2
<1>2. kprev = kord
  OBVIOUS
<1>3. PICK base, stack : base = v /\ stack = iv
  OBVIOUS
<1>4. /\ base \in [1..AdamsOrder + 1 -> Adams!Indices]
      /\ stack \in Seq(1..AdamsOrder + 1) /\ stack \in Seq(Int)
  BY <1>3, MultistepAssumption, LengthsAssumption, AdamsTyped
<1>5. /\ Stairs(base, kord, stack, n - 1) /\ kord + Len(stack) <= AdamsOrder
      /\ TopAbove(stack, kord + 4 - n)
  BY <1>2, <1>3, StairsBefore
<1>7. /\ NextTaken(NextFrom(base, n), base, n)
      /\ Stairs(NextFrom(base, n), kord, stack, n)
      /\ TopAbove(stack, kord + 3 - n)
  BY <1>1, <1>4, <1>5, ExtendsOn, Zenon
<1>8. ~(kord > kprev) /\ ~(kord < kold)
  <2>1. kord < kold <=> kprev = kord + 1
    BY MultistepAssumption, LengthsAssumption, OrdersMet
  <2> QED BY <1>1, <1>2, <2>1
<1>9. Base(n) = base
  BY <1>3, <1>8, Zenon DEF Base
<1>10. Pushed(n) = stack
  BY <1>3, <1>8, Zenon DEF Pushed, Left
<1> QED BY <1>4, <1>5, <1>7, <1>9, <1>10, Zenon DEF Extended

\* The numbers of a step whose order was lowered before it.
LEMMA ExtendedLowered ==
  ASSUME AdamsInv, Kept, NEW n \in Int, n = Done + 1, n <= kord, NEW k, k = kprev, k = kord + 1
  PROVE  Extended(n)
<1>1. kord \in Int /\ kord \in 1..AdamsOrder /\ AdamsOrder \in Nat /\ n \in 2..kord
  <2>1. kord \in Int /\ 1 <= kord /\ kord <= AdamsOrder /\ AdamsOrder \in Nat
    BY MultistepAssumption, LengthsAssumption, AdamsTyped, AdamsNumbers
  <2>2. n >= 2
    BY MultistepAssumption, LengthsAssumption, OrdersMet
  <2> QED BY <2>1, <2>2
<1>2. kprev = kord + 1
  OBVIOUS
<1>3. PICK base, stack : base = v /\ stack = iv
  OBVIOUS
<1>4. /\ base \in [1..AdamsOrder + 1 -> Adams!Indices]
      /\ stack \in Seq(1..AdamsOrder + 1) /\ stack \in Seq(Int)
  BY <1>3, MultistepAssumption, LengthsAssumption, AdamsTyped
<1>5. Stairs(base, kord + 1, stack, n - 1) /\ kord + 1 + Len(stack) <= AdamsOrder
  BY <1>2, <1>3, StairsBefore
<1>6. TopAbove(stack, kord + 5 - n)
  <2>1. TopAbove(stack, kprev + 4 - n)
    BY <1>3, StairsBefore
  <2>2. kprev + 4 - n = kord + 5 - n
    BY <1>1, <1>2
  <2> QED BY <2>1, <2>2
<1>11. PICK mark \in 1..AdamsOrder + 1 : mark = kord + 1 - n + 2
  BY <1>1
<1>7. /\ NextTaken(NextFrom(base, n), base, n)
      /\ Stairs(NextFrom(base, n), kord, Append(stack, kord + 1 - n + 2), n)
      /\ Len(Append(stack, kord + 1 - n + 2)) = Len(stack) + 1
      /\ TopAbove(Append(stack, kord + 1 - n + 2), kord + 3 - n)
  BY <1>1, <1>4, <1>5, <1>6, ExtendsDown, Zenon
<1>8. ~(kord > kprev) /\ kord < kold
  <2>1. kord < kold <=> kprev = kord + 1
    BY MultistepAssumption, LengthsAssumption, OrdersMet
  <2> QED BY <1>1, <1>2, <2>1
<1>9. Base(n) = base
  BY <1>3, <1>8, Zenon DEF Base
<1>10. Pushed(n) = Append(stack, kord + 1 - n + 2)
  BY <1>3, <1>8, Zenon DEF Pushed, Left
<1>12. Append(stack, mark) \in Seq(1..AdamsOrder + 1)
  BY <1>4, <1>11, AppendProperties
<1>13. Pushed(n) \in Seq(1..AdamsOrder + 1)
  BY <1>10, <1>11, <1>12, Zenon
<1>14. kord + Len(Pushed(n)) <= AdamsOrder
  <2>1. PICK l \in Nat : l = Len(stack)
    BY <1>4, LenProperties
  <2>2. Len(Pushed(n)) = l + 1 /\ kord + 1 + l <= AdamsOrder
    BY <1>5, <1>7, <1>10, <2>1, Zenon
  <2> QED BY <1>1, <2>2
<1> QED BY <1>7, <1>9, <1>10, <1>13, <1>14, Zenon DEF Extended

\* The numbers of the next step of a mesh that is kept.
LEMMA ExtendedNumbers ==
  ASSUME AdamsInv, Kept, NEW n \in Int, n = Done + 1, n <= kord
  PROVE  Extended(n)
<1>1. kprev = kord - 1 \/ kprev = kord \/ kprev = kord + 1
  BY MultistepAssumption, LengthsAssumption, OrdersMet
<1>2. kprev = kord - 1 => Raised
  BY DEF Raised
<1> QED BY <1>1, <1>2, ExtendedRaised, ExtendedLevel, ExtendedLowered, Zenon

\* Where the numbers come from that the update leaves alone: the diagonal that
\* was rebuilt, or what there was of v.
MetAt(n, q) ==
  \/ kord > kprev /\ ((q = kord /\ iv = <<>>) \/ kord - q \in Adams!RaisedFrom..n - 2)
  \/ Base(n)[q] = v[q] /\ kprev + 2 - n <= q /\ q <= kprev + Len(iv)

BaseMet(n) ==
  /\ Base(n) \in [1..AdamsOrder + 1 -> Adams!Indices]
  /\ \A q \in kord + 3 - n..kord + Len(Pushed(n)) : MetAt(n, q)

\* What the update starts from after an order increase.
LEMMA RaisedParts ==
  ASSUME AdamsInv, Kept, NEW n \in Int, n = Done + 1, n <= kord, Raised
  PROVE  Base(n) = Adams!Diagonal(n) /\ Pushed(n) = Popped /\ kord > kprev
<1>1. kord \in Int
  BY MultistepAssumption, LengthsAssumption, AdamsTyped
<1>8. kord > kprev /\ ~(kord < kold)
  <2>1. kprev \in Int /\ kold \in Int /\ kprev = kord - 1
    BY MultistepAssumption, LengthsAssumption, AdamsTyped DEF Raised
  <2>2. kord < kold <=> kprev = kord + 1
    BY MultistepAssumption, LengthsAssumption, OrdersMet
  <2> QED BY <1>1, <2>1, <2>2
<1>9. Base(n) = Adams!Diagonal(n)
  BY <1>8, Zenon DEF Base
<1>10. Pushed(n) = Popped
  <2>1. Left = Popped
    <3>1. Len(iv) = 0 <=> iv = <<>>
      <4>1. iv \in Seq(Int)
        BY MultistepAssumption, LengthsAssumption, AdamsTyped
      <4> QED BY <4>1, EmptySeq
    <3> QED BY <1>8, <3>1, Zenon DEF Left, Popped, PoppedOf
  <2> QED BY <1>8, <2>1, Zenon DEF Pushed
<1> QED BY <1>8, <1>9, <1>10, Zenon

\* What the update starts from otherwise.
LEMMA LevelParts ==
  ASSUME AdamsInv, Kept, NEW n \in Int, n = Done + 1, n <= kord, ~Raised
  PROVE  /\ Base(n) = v /\ ~(kord > kprev) /\ Len(Pushed(n)) \in Int
         /\ kord + Len(Pushed(n)) = kprev + Len(iv) /\ kprev <= kord + 1
<1>1. kord \in Int /\ kprev \in Int /\ kold \in Int
  BY MultistepAssumption, LengthsAssumption, AdamsTyped
<1>2. kprev = kord - 1 \/ kprev = kord \/ kprev = kord + 1
  BY MultistepAssumption, LengthsAssumption, OrdersMet
<1>3. kprev # kord - 1
  BY DEF Raised
<1>4. kord < kold <=> kprev = kord + 1
  BY MultistepAssumption, LengthsAssumption, OrdersMet
<1>5. ~(kord > kprev) /\ kprev <= kord + 1
  BY <1>1, <1>2, <1>3
<1>6. Base(n) = v
  BY <1>5, Zenon DEF Base
<1>7. iv \in Seq(Int) /\ Len(iv) \in Nat
  BY MultistepAssumption, LengthsAssumption, AdamsTyped
<1>8. Left = iv
  BY <1>5, Zenon DEF Left
<1>9. Len(Pushed(n)) \in Int /\ kord + Len(Pushed(n)) = kprev + Len(iv)
  <2>1. CASE kord < kold
    <3>1. Pushed(n) = Append(iv, kord + 1 - n + 2) /\ kprev = kord + 1
      BY <1>4, <1>8, <2>1, Zenon DEF Pushed
    <3>2. PICK mark \in Int : mark = kord + 1 - n + 2
      BY <1>1
    <3>3. Len(Append(iv, mark)) = Len(iv) + 1
      BY <1>7, <3>2, AppendProperties
    <3>4. Len(Pushed(n)) = Len(iv) + 1
      BY <3>1, <3>2, <3>3, Zenon
    <3>5. PICK a, b : a = Len(Pushed(n)) /\ b \in Nat /\ b = Len(iv) /\ a = b + 1
      BY <1>7, <3>4, Zenon
    <3>6. a \in Int /\ kord + a = kprev + b
      BY <1>1, <3>1, <3>5
    <3> QED BY <3>5, <3>6, Zenon
  <2>2. CASE ~(kord < kold)
    <3>1. Pushed(n) = iv
      BY <1>8, <2>2, Zenon DEF Pushed
    <3>2. kprev = kord
      BY <1>2, <1>3, <1>4, <2>2
    <3>3. Len(iv) \in Int
      BY <1>7
    <3> QED BY <3>1, <3>2, <3>3, Zenon
  <2> QED BY <2>1, <2>2
<1> QED BY <1>5, <1>6, <1>9, Zenon

\* The numbers the update starts from.
LEMMA BaseOf ==
  ASSUME AdamsInv, Kept, NEW n \in Int, n = Done + 1, n <= kord
  PROVE  BaseMet(n)
<1>1. kord \in Int /\ kprev \in Int
  BY MultistepAssumption, LengthsAssumption, AdamsTyped
<1>2. CASE Raised
  <2>1. Climbed(n)
    BY <1>2, DiagonalClimbed, Zenon
  <2>2. Base(n) = Adams!Diagonal(n) /\ Pushed(n) = Popped /\ kord > kprev
    BY <1>2, RaisedParts, Zenon
  <2>3. Base(n) \in [1..AdamsOrder + 1 -> Adams!Indices]
    BY <2>1, <2>2, Zenon DEF Climbed
  <2>4. ASSUME NEW q \in kord + 3 - n..kord + Len(Pushed(n)) PROVE MetAt(n, q)
    <3>1. q \in kord + 2 - n..kord + Len(Popped)
      <4>1. q \in Int /\ kord + 3 - n <= q /\ q <= kord + Len(Pushed(n))
        OBVIOUS
      <4>2. q <= kord + Len(Popped)
        BY <2>2, <4>1, Zenon
      <4>3. kord + 2 - n <= q
        BY <1>1, <4>1
      <4> QED BY <4>1, <4>2, <4>3
    <3>2. \/ q = kord /\ iv = <<>>
          \/ kord - q \in Adams!RaisedFrom..n - 2
          \/ Base(n)[q] = v[q] /\ q <= kprev + Len(iv)
      BY <2>1, <2>2, <3>1, Zenon DEF Climbed
    <3>3. kprev + 2 - n <= q
      <4>1. kprev = kord - 1
        BY <1>2 DEF Raised
      <4>2. q \in Int /\ kord + 3 - n <= q
        OBVIOUS
      <4> QED BY <1>1, <4>1, <4>2
    <3> QED BY <2>2, <3>2, <3>3, Zenon DEF MetAt
  <2> QED BY <2>3, <2>4, Zenon DEF BaseMet
<1>3. CASE ~Raised
  <2>1. /\ Base(n) = v /\ Len(Pushed(n)) \in Int
        /\ kord + Len(Pushed(n)) = kprev + Len(iv) /\ kprev <= kord + 1
    BY <1>3, LevelParts, Zenon
  <2>2. Base(n) \in [1..AdamsOrder + 1 -> Adams!Indices]
    <3>1. v \in [1..AdamsOrder + 1 -> Adams!Indices]
      BY MultistepAssumption, LengthsAssumption, AdamsTyped
    <3> QED BY <2>1, <3>1, Zenon
  <2>3. ASSUME NEW q \in kord + 3 - n..kord + Len(Pushed(n)) PROVE MetAt(n, q)
    <3>1. q \in Int /\ kord + 3 - n <= q /\ q <= kord + Len(Pushed(n))
      OBVIOUS
    <3>2. q <= kprev + Len(iv)
      BY <2>1, <3>1, Zenon
    <3>3. kprev + 2 - n <= q
      BY <1>1, <2>1, <3>1
    <3> QED BY <2>1, <3>2, <3>3, Zenon DEF MetAt
  <2> QED BY <2>2, <2>3, Zenon DEF BaseMet
<1> QED BY <1>2, <1>3

\* What w still has of v.
LEMMA StaleRight ==
  ASSUME AdamsInv, Kept, NEW n \in Int, n = Done + 1,
         NEW q \in Int, kprev + 2 - n <= q, q <= kprev + Len(iv)
  PROVE  Adams!Stale(w)[q] = v[q]
<1>1. kprev \in Nat /\ AdamsOrder \in Nat /\ iv \in Seq(Int) /\ Len(iv) \in Nat
  <2>1. kprev \in Int /\ 0 <= kprev
    BY MultistepAssumption, LengthsAssumption, AdamsTyped
  <2>2. AdamsOrder \in Nat /\ iv \in Seq(Int) /\ Len(iv) \in Nat
    BY MultistepAssumption, LengthsAssumption, AdamsTyped, AdamsNumbers
  <2> QED BY <2>1, <2>2
<1>2. w \in [1..AdamsOrder + 1 -> Adams!Indices]
  BY MultistepAssumption, LengthsAssumption, AdamsTyped
<1>3. Stairs(v, kprev, iv, n - 1) /\ kprev + Len(iv) <= AdamsOrder
  BY StairsBefore
<1>4. AdamsStaircase /\ AdamsTaken
  BY DEF Kept, AdamsInv
<1>5. PICK d \in Int : d = Done /\ d = n - 1
  <2>1. ns \in Int /\ kold \in Int
    BY MultistepAssumption, LengthsAssumption, AdamsTyped
  <2>2. PICK d \in Int : d = Done
    BY <2>1 DEF Done, Order, Kept
  <2>3. d = n - 1
    BY <2>2
  <2> QED BY <2>2, <2>3
<1>6. d >= 1 /\ kprev >= d
  BY <1>4, <1>5, Zenon DEF AdamsStaircase
<1>7. q \in kprev + 1 - d..kprev + Len(iv) /\ q \in 1..kprev + Len(iv) /\ q \in 1..AdamsOrder + 1
  <2>1. PICK l \in Nat : l = Len(iv) /\ kprev + l <= AdamsOrder /\ q <= kprev + l
    BY <1>1, <1>3
  <2>2. q \in kprev + 1 - d..kprev + l /\ q \in 1..kprev + l /\ q \in 1..AdamsOrder + 1
    BY <1>1, <1>5, <1>6, <2>1
  <2> QED BY <2>1, <2>2, Zenon
<1>8. w[q] = v[q]
  <2>1. \A p \in kprev + 1 - d..kprev + Len(iv) : w[p] = v[p]
    BY <1>4, <1>5, Zenon DEF AdamsTaken
  <2> QED BY <1>7, <2>1
<1>9. v[q] \in Int /\ v[q] >= 1
  <2>1. n - 1 \in Int /\ n - 1 >= 1
    BY <1>5, <1>6
  <2> QED BY <1>1, <1>3, <1>7, <2>1, StairsPositive, Zenon
<1>10. w[q] >= 0
  BY <1>8, <1>9
<1> QED BY <1>1, <1>2, <1>7, <1>8, <1>10, StaleOf

\* The first row of w, from which the integrals g are read off.
FirstRow(n) ==
  [q \in 1..AdamsOrder + 1 |->
     IF q <= kord + 1 - n + 1 THEN NextFrom(Base(n), n)[q]
     ELSE IF kord > kprev /\ ((q = kord /\ iv = <<>>) \/ kord - q \in Adams!RaisedFrom..n - 2)
          THEN Base(n)[q]
     ELSE Adams!Stale(w)[q]]

FirstTaken(n) ==
  /\ FirstRow(n) \in [1..AdamsOrder + 1 -> Adams!Indices]
  /\ \A q \in 1..kord + 1 - n : FirstRow(n)[q] = n
  /\ \A q \in kord + 1 - n..kord + Len(Pushed(n)) : FirstRow(n)[q] = NextFrom(Base(n), n)[q]

\* It agrees with v wherever v has a number of this order.
LEMMA FirstOf ==
  ASSUME AdamsInv, Kept, NEW n \in Int, n = Done + 1, n <= kord
  PROVE  FirstTaken(n)
<1>1. kord \in Int /\ 1 <= kord /\ kord <= AdamsOrder /\ AdamsOrder \in Nat /\ n >= 2
  <2>1. kord \in Int /\ 1 <= kord /\ kord <= AdamsOrder /\ AdamsOrder \in Nat
    BY MultistepAssumption, LengthsAssumption, AdamsTyped, AdamsNumbers
  <2>2. n >= 2
    BY MultistepAssumption, LengthsAssumption, OrdersMet
  <2> QED BY <2>1, <2>2
<1>2. Extended(n) /\ BaseMet(n)
  BY ExtendedNumbers, BaseOf, Zenon
<1>3. PICK base, new, row : base = Base(n) /\ new = NextFrom(Base(n), n) /\ row = FirstRow(n)
  OBVIOUS
<1>4. /\ new \in [1..AdamsOrder + 1 -> Adams!Indices]
      /\ \A q \in 1..AdamsOrder + 1 : new[q] = IF q <= kord + 1 - n THEN n ELSE base[q]
  BY <1>2, <1>3, Zenon DEF Extended, NextTaken
<1>5. base \in [1..AdamsOrder + 1 -> Adams!Indices]
  BY <1>2, <1>3, Zenon DEF BaseMet
<1>6. Adams!Stale(w) \in [1..AdamsOrder + 1 -> Adams!Indices]
  <2>1. w \in [1..AdamsOrder + 1 -> Adams!Indices]
    BY MultistepAssumption, LengthsAssumption, AdamsTyped
  <2> QED BY <1>1, <2>1, StaleOf
<1>7. row = [q \in 1..AdamsOrder + 1 |->
               IF q <= kord + 1 - n + 1 THEN new[q]
               ELSE IF kord > kprev /\ ((q = kord /\ iv = <<>>) \/ kord - q \in Adams!RaisedFrom..n - 2)
                    THEN base[q]
               ELSE Adams!Stale(w)[q]]
  BY <1>3, Zenon DEF FirstRow
<1>8. row \in [1..AdamsOrder + 1 -> Adams!Indices]
  BY <1>4, <1>5, <1>6, <1>7, Zenon
<1>9. \A q \in 1..kord + 1 - n : row[q] = n
  <2>1. ASSUME NEW q \in 1..kord + 1 - n PROVE row[q] = n
    <3>1. q \in 1..AdamsOrder + 1 /\ q <= kord + 1 - n + 1 /\ q <= kord + 1 - n
      BY <1>1
    <3>2. row[q] = new[q]
      BY <1>7, <3>1, Zenon
    <3>3. new[q] = n
      BY <1>4, <3>1, Zenon
    <3> QED BY <3>2, <3>3
  <2> QED BY <2>1
<1>10. ASSUME NEW q \in kord + 1 - n..kord + Len(Pushed(n)) PROVE row[q] = new[q]
  <2>1. q \in Int /\ kord + 1 - n <= q /\ q <= kord + Len(Pushed(n)) /\ q <= AdamsOrder
    <3>1. kord + Len(Pushed(n)) <= AdamsOrder
      BY <1>2, Zenon DEF Extended
    <3>2. PICK l : l = kord + Len(Pushed(n))
      OBVIOUS
    <3>3. Len(Pushed(n)) \in Int
      <4>1. Pushed(n) \in Seq(1..AdamsOrder + 1)
        BY <1>2, Zenon DEF Extended
      <4> QED BY <4>1, LenProperties
    <3>4. q \in Int /\ kord + 1 - n <= q /\ q <= l /\ l \in Int /\ l <= AdamsOrder
      BY <1>1, <3>1, <3>2, <3>3
    <3>5. q <= AdamsOrder
      BY <1>1, <3>4
    <3> QED BY <3>2, <3>4, <3>5, Zenon
  <2>2. CASE q <= kord + 1 - n + 1
    <3>1. q \in 1..AdamsOrder + 1 \/ q < 1
      BY <1>1, <2>1
    <3>2. q \in 1..AdamsOrder + 1 => row[q] = new[q]
      BY <1>7, <2>2, Zenon
    <3>3. ~(q < 1)
      BY <1>1, <2>1
    <3> QED BY <3>1, <3>2, <3>3
  <2>3. CASE ~(q <= kord + 1 - n + 1)
    <3>1. q \in 1..AdamsOrder + 1 /\ ~(q <= kord + 1 - n) /\ kord + 3 - n <= q
      BY <1>1, <2>1, <2>3
    <3>2. new[q] = base[q]
      BY <1>4, <3>1, Zenon
    <3>3. q \in kord + 3 - n..kord + Len(Pushed(n))
      <4>1. PICK l : l = kord + Len(Pushed(n))
        OBVIOUS
      <4>2. q \in Int /\ q <= l /\ kord + 3 - n <= q /\ kord + 3 - n \in Int
        BY <1>1, <2>1, <3>1, <4>1
      <4>4. l \in Int
        <5>1. Pushed(n) \in Seq(1..AdamsOrder + 1)
          BY <1>2, Zenon DEF Extended
        <5>2. Len(Pushed(n)) \in Int
          BY <5>1, LenProperties
        <5> QED BY <1>1, <4>1, <5>2
      <4>3. q \in kord + 3 - n..l
        BY <4>2, <4>4
      <4> QED BY <4>1, <4>3
    <3>4. MetAt(n, q)
      BY <1>2, <3>3, Zenon DEF BaseMet
    <3>5. row[q] = IF kord > kprev /\ ((q = kord /\ iv = <<>>) \/ kord - q \in Adams!RaisedFrom..n - 2)
                   THEN base[q] ELSE Adams!Stale(w)[q]
      BY <1>7, <2>3, <3>1, Zenon
    <3>6. CASE kord > kprev /\ ((q = kord /\ iv = <<>>) \/ kord - q \in Adams!RaisedFrom..n - 2)
      BY <3>2, <3>5, <3>6, Zenon
    <3>7. CASE ~(kord > kprev /\ ((q = kord /\ iv = <<>>) \/ kord - q \in Adams!RaisedFrom..n - 2))
      <4>1. base[q] = v[q] /\ kprev + 2 - n <= q /\ q <= kprev + Len(iv)
        BY <1>3, <3>4, <3>7, Zenon DEF MetAt
      <4>2. Adams!Stale(w)[q] = v[q]
        BY <2>1, <4>1, StaleRight, Zenon
      <4> QED BY <3>2, <3>5, <3>7, <4>1, <4>2, Zenon
    <3> QED BY <3>6, <3>7
  <2> QED BY <2>2, <2>3
<1> QED BY <1>3, <1>8, <1>9, <1>10, Zenon DEF FirstTaken

\* The double integrals for the interpolant.
DiagonalGi(n) == kord > kprev /\ n - 2 >= Adams!RaisedFrom /\ kord - (n - 2) = 2
BeginsGi == kord > kprev /\ iv = <<>> /\ kord = 2
GiRaised(n) ==
  IF DiagonalGi(n) THEN [gi EXCEPT ![n - 1] = Base(n)[2]]
  ELSE IF BeginsGi THEN [gi EXCEPT ![1] = Base(n)[2]] ELSE gi
KgiRaised(n) == IF DiagonalGi(n) THEN n - 1 ELSE IF BeginsGi THEN 1 ELSE kgi
GiNext(n) ==
  IF kord + 1 - n = 1 THEN GiRaised(n) ELSE [GiRaised(n) EXCEPT ![n] = FirstRow(n)[2]]
KgiNext(n) == IF kord + 1 - n = 1 THEN KgiRaised(n) ELSE n

\* The step in these terms.
LEMMA ExtendedIs ==
  ASSUME NEW n, n = ns', Adams!Extended(ns', h')
  PROVE  /\ v' = NextFrom(Base(n), n) /\ w' = Adams!Rows(FirstRow(n), n)[kord + 1]
         /\ g' = [i \in 1..AdamsOrder + 1 |->
                    IF i \in n + 1..kord + 1 THEN Adams!Rows(FirstRow(n), n)[i][1] ELSE Adams!Stale(g)[i]]
         /\ kgi' = KgiNext(n) /\ gi' = GiNext(n) /\ iv' = Pushed(n) /\ kprev' = kord
<1>1. Adams!Extended(n, h')
  BY DEF Adams!Extended
<1>2. /\ v' = NextFrom(Base(n), n) /\ iv' = Pushed(n) /\ kprev' = kord
  BY <1>1, Zenon DEF Adams!Extended, NextFrom, Base, Pushed, Left
<1>3. w' = Adams!Rows(FirstRow(n), n)[kord + 1]
  BY <1>1, Zenon DEF Adams!Extended, FirstRow, NextFrom, Base
<1>4. g' = [i \in 1..AdamsOrder + 1 |->
              IF i \in n + 1..kord + 1 THEN Adams!Rows(FirstRow(n), n)[i][1] ELSE Adams!Stale(g)[i]]
  BY <1>1, Zenon DEF Adams!Extended, FirstRow, NextFrom, Base
<1>5. kgi' = KgiNext(n)
  BY <1>1, Zenon DEF Adams!Extended, KgiNext, KgiRaised, DiagonalGi, BeginsGi
<1>6. gi' = GiNext(n)
  BY <1>1, Zenon DEF Adams!Extended, GiNext, GiRaised, DiagonalGi, BeginsGi, FirstRow, NextFrom, Base
<1> QED BY <1>2, <1>3, <1>4, <1>5, <1>6

IntegralsMet(n) ==
  /\ GiNext(n) \in [1..AdamsOrder -> Adams!Indices]
  /\ KgiNext(n) = IF kord > n THEN n ELSE kord - 1
  /\ \A i \in 1..KgiNext(n) : GiNext(n)[i] = i

\* They go as far as the order before.
LEMMA IntegralsOf ==
  ASSUME AdamsInv, Kept, NEW n \in Int, n = Done + 1, n <= kord
  PROVE  IntegralsMet(n)
<1>1. kord \in Int /\ kord <= AdamsOrder /\ AdamsOrder \in Nat /\ n >= 2 /\ kprev \in Int
  <2>1. kord \in Int /\ kord <= AdamsOrder /\ AdamsOrder \in Nat /\ kprev \in Int
    BY MultistepAssumption, LengthsAssumption, AdamsTyped, AdamsNumbers
  <2>2. n >= 2
    BY MultistepAssumption, LengthsAssumption, OrdersMet
  <2> QED BY <2>1, <2>2
<1>2. gi \in [1..AdamsOrder -> Adams!Indices]
  BY MultistepAssumption, LengthsAssumption, AdamsTyped
<1>3. PICK d \in Int : d = Done /\ d = n - 1
  <2>1. ns \in Int /\ kold \in Int
    BY MultistepAssumption, LengthsAssumption, AdamsTyped
  <2>2. PICK d \in Int : d = Done
    BY <2>1 DEF Done, Order, Kept
  <2>3. d = n - 1
    BY <2>2
  <2> QED BY <2>2, <2>3
<1>4. AdamsTaken
  BY DEF Kept, AdamsInv
<1>5. kgi = (IF kprev > d THEN d ELSE kprev - 1) /\ \A i \in 1..kgi : gi[i] = i
  BY <1>3, <1>4, Zenon DEF AdamsTaken
<1>6. kprev = kord - 1 \/ kprev = kord \/ kprev = kord + 1
  BY MultistepAssumption, LengthsAssumption, OrdersMet
<1>7. FirstTaken(n) /\ BaseMet(n)
  BY FirstOf, BaseOf, Zenon
<1>8. CASE kord > n
  <2>1. ~DiagonalGi(n) /\ ~BeginsGi /\ kord + 1 - n # 1
    <3>1. kord - (n - 2) # 2 /\ kord # 2 /\ kord + 1 - n # 1
      BY <1>1, <1>8
    <3> QED BY <3>1, Zenon DEF DiagonalGi, BeginsGi
  <2>2. KgiNext(n) = n /\ GiNext(n) = [gi EXCEPT ![n] = FirstRow(n)[2]]
    BY <2>1, Zenon DEF KgiNext, GiNext, GiRaised
  <2>3. FirstRow(n)[2] = n /\ n \in Adams!Indices
    <3>1. 2 \in 1..kord + 1 - n /\ n \in -AdamsOrder..AdamsOrder
      BY <1>1, <1>8
    <3> QED BY <1>7, <3>1, Zenon DEF FirstTaken, Adams!Indices
  <2>4. n \in 1..AdamsOrder
    BY <1>1, <1>8
  <2>5. kgi = n - 1
    BY <1>1, <1>3, <1>5, <1>6, <1>8
  <2>6. PICK ints : ints = GiNext(n) /\ ints = [gi EXCEPT ![n] = n]
    BY <2>2, <2>3
  <2>7. ints \in [1..AdamsOrder -> Adams!Indices]
    BY <1>2, <2>3, <2>6
  <2>8. ASSUME NEW i \in 1..n PROVE ints[i] = i
    <3>1. i \in 1..AdamsOrder
      BY <1>1, <2>4
    <3>2. CASE i = n
      BY <1>2, <2>6, <3>1, <3>2
    <3>3. CASE i # n
      <4>1. i \in 1..n - 1
        BY <3>3
      <4>2. gi[i] = i
        BY <1>5, <2>5, <4>1
      <4> QED BY <1>2, <2>6, <3>1, <3>3, <4>2
    <3> QED BY <3>2, <3>3
  <2> QED BY <1>8, <2>2, <2>6, <2>7, <2>8, Zenon DEF IntegralsMet
<1>9. CASE ~(kord > n)
  <2>1. kord = n /\ kord + 1 - n = 1 /\ n - 1 \in 1..AdamsOrder /\ kord - 1 = n - 1
    BY <1>1, <1>9
  <2>2. KgiNext(n) = KgiRaised(n) /\ GiNext(n) = GiRaised(n)
    BY <2>1, Zenon DEF KgiNext, GiNext
  <2>3. CASE Raised
    <3>1. Climbed(n) /\ Base(n) = Adams!Diagonal(n) /\ kord > kprev
      BY <2>3, DiagonalClimbed, RaisedParts, Zenon
    <3>2. kgi = n - 2
      BY <1>1, <1>3, <1>5, <2>1, <2>3 DEF Raised
    <3>7. n - 1 \in Adams!Indices
      BY <1>1, <2>1 DEF Adams!Indices
    <3>3. CASE n - 2 >= Adams!RaisedFrom
      <4>1. Base(n)[2] = n - 1
        BY <2>1, <3>1, <3>3, Zenon DEF Climbed
      <4>2. kord - (n - 2) = 2
        BY <1>1, <2>1
      <4>3. DiagonalGi(n)
        BY <3>1, <3>3, <4>2, Zenon DEF DiagonalGi
      <4>4. PICK ints : ints = GiNext(n) /\ ints = [gi EXCEPT ![n - 1] = n - 1]
        BY <2>2, <4>1, <4>3, Zenon DEF GiRaised
      <4>5. KgiNext(n) = n - 1
        BY <2>2, <4>3, Zenon DEF KgiRaised
      <4>6. ints \in [1..AdamsOrder -> Adams!Indices]
        BY <1>2, <2>1, <3>7, <4>4
      <4>7. ASSUME NEW i \in 1..n - 1 PROVE ints[i] = i
        <5>1. i \in 1..AdamsOrder
          BY <1>1, <2>1
        <5>2. CASE i = n - 1
          BY <1>2, <4>4, <5>1, <5>2
        <5>3. CASE i # n - 1
          <6>1. i \in 1..n - 2
            BY <5>3
          <6>2. gi[i] = i
            BY <1>5, <3>2, <6>1
          <6> QED BY <1>2, <4>4, <5>1, <5>3, <6>2
        <5> QED BY <5>2, <5>3
      <4> QED BY <1>9, <2>1, <4>4, <4>5, <4>6, <4>7, Zenon DEF IntegralsMet
    <3>4. CASE ~(n - 2 >= Adams!RaisedFrom)
      <4>1. iv = <<>> /\ n = 2 /\ Base(n)[2] = 1
        BY <2>1, <3>1, <3>4, Zenon DEF Climbed
      <4>2. ~DiagonalGi(n)
        BY <3>4, Zenon DEF DiagonalGi
      <4>3. BeginsGi
        BY <2>1, <3>1, <4>1, Zenon DEF BeginsGi
      <4>4. PICK ints : ints = GiNext(n) /\ ints = [gi EXCEPT ![1] = 1]
        BY <2>2, <4>1, <4>2, <4>3, Zenon DEF GiRaised
      <4>5. KgiNext(n) = 1 /\ kord - 1 = 1
        <5>1. kord - 1 = 1
          BY <2>1, <4>1
        <5> QED BY <2>2, <4>2, <4>3, <5>1, Zenon DEF KgiRaised
      <4>6. 1 \in 1..AdamsOrder /\ 1 \in Adams!Indices
        <5>1. n - 1 = 1
          BY <4>1
        <5> QED BY <2>1, <3>7, <5>1
      <4>7. ints \in [1..AdamsOrder -> Adams!Indices]
        BY <1>2, <4>4, <4>6
      <4>8. ints[1] = 1 /\ \A i \in 1..1 : i = 1
        <5>1. ints[1] = 1
          BY <1>2, <4>4, <4>6, Zenon
        <5>2. \A i \in 1..1 : i = 1
          OBVIOUS
        <5> QED BY <5>1, <5>2
      <4> QED BY <1>9, <4>4, <4>5, <4>7, <4>8, Zenon DEF IntegralsMet
    <3> QED BY <3>3, <3>4
  <2>4. CASE ~Raised
    <3>1. ~(kord > kprev)
      BY <2>4, LevelParts, Zenon
    <3>2. KgiNext(n) = kgi /\ GiNext(n) = gi
      BY <2>2, <3>1, Zenon DEF KgiRaised, GiRaised, DiagonalGi, BeginsGi
    <3>3. kgi = kord - 1
      BY <1>1, <1>3, <1>5, <2>1, <3>1
    <3> QED BY <1>2, <1>5, <1>9, <3>2, <3>3, Zenon DEF IntegralsMet
  <2> QED BY <2>3, <2>4
<1> QED BY <1>8, <1>9

RowsMet(first, n) ==
  /\ Adams!Rows(first, n)[kord + 1] \in [1..AdamsOrder + 1 -> Adams!Indices]
  /\ \A q \in kord + 1 - n..AdamsOrder + 1 : Adams!Rows(first, n)[kord + 1][q] = first[q]
  /\ \A q \in 1..kord - n : Adams!Rows(first, n)[kord + 1][q] = -(kord + 1 - q)
  /\ \A i \in n + 1..kord + 1 : Adams!Rows(first, n)[i][1] = IF i = n + 1 THEN n ELSE -(i - 1)

\* The rows that are built on the first.
LEMMA RowsMetOf ==
  ASSUME AdamsOrder \in Nat, kord \in 1..AdamsOrder, NEW n \in 1..kord,
         NEW first \in [1..AdamsOrder + 1 -> Adams!Indices], \A q \in 1..kord + 1 - n : first[q] = n
  PROVE  RowsMet(first, n)
BY RowsTaken DEF RowsMet

\* One more step of the same length takes them further.
LEMMA AdamsExtends ==
  ASSUME MultistepAssumption, LengthsAssumption, AdamsInv, Adams!Predict,
         Kept, ns' = Done + 1, Done >= 1, Done \in Int, kord >= ns', Adams!Extended(ns', h')
  PROVE  AdamsArrays' /\ AdamsStaircase' /\ AdamsTaken'
<1>1. /\ kord \in Int /\ 1 <= kord /\ kord <= AdamsOrder /\ AdamsOrder \in Nat /\ AdamsOrder >= 2
  BY AdamsTyped, AdamsNumbers
<1>2. PICK n \in Int : n = ns' /\ n = Done + 1 /\ n >= 2 /\ n <= kord
  <2>1. PICK n \in Int : n = ns' /\ n = Done + 1 /\ n >= 2
    OBVIOUS
  <2>2. n <= kord
    BY <1>1, <2>1
  <2> QED BY <2>1, <2>2
<1>19. n \in Int /\ n >= 2 /\ n <= kord
  BY <1>2
<1>3. Extended(n) /\ FirstTaken(n) /\ IntegralsMet(n)
  BY <1>2, ExtendedNumbers, FirstOf, IntegralsOf, Zenon
<1>4. PICK new, stack, row, rows :
        /\ new = NextFrom(Base(n), n) /\ stack = Pushed(n) /\ row = FirstRow(n)
        /\ rows = Adams!Rows(FirstRow(n), n)
  OBVIOUS
<1>5. /\ v' = new /\ w' = rows[kord + 1] /\ kgi' = KgiNext(n) /\ gi' = GiNext(n) /\ iv' = stack
      /\ g' = [i \in 1..AdamsOrder + 1 |->
                 IF i \in n + 1..kord + 1 THEN rows[i][1] ELSE Adams!Stale(g)[i]]
      /\ kprev' = kord
  BY <1>2, <1>4, ExtendedIs, Zenon
<1>6. pc' = "judge" /\ kord' = kord
  BY PredictCases
<1>7. Done' = n /\ Order' = kord
  <2>1. Order' = kord
    BY <1>6 DEF Order
  <2>2. ~(kord < ns')
    BY <1>1, <1>2
  <2> QED BY <1>2, <2>1, <2>2, Zenon DEF Done
<1>8. /\ new \in [1..AdamsOrder + 1 -> Adams!Indices] /\ Stairs(new, kord, stack, n)
      /\ stack \in Seq(1..AdamsOrder + 1) /\ kord + Len(stack) <= AdamsOrder
      /\ TopAbove(stack, kord + 3 - n)
  BY <1>3, <1>4, Zenon DEF Extended, NextTaken
<1>9. PICK l \in Nat : l = Len(stack) /\ kord + l <= AdamsOrder
  BY <1>8, LenProperties
<1>10. /\ row \in [1..AdamsOrder + 1 -> Adams!Indices] /\ \A q \in 1..kord + 1 - n : row[q] = n
       /\ \A q \in kord + 1 - n..kord + Len(stack) : row[q] = new[q]
  BY <1>3, <1>4, Zenon DEF FirstTaken
<1>11. /\ rows[kord + 1] \in [1..AdamsOrder + 1 -> Adams!Indices]
       /\ \A q \in kord + 1 - n..AdamsOrder + 1 : rows[kord + 1][q] = row[q]
       /\ \A q \in 1..kord - n : rows[kord + 1][q] = -(kord + 1 - q)
       /\ \A i \in n + 1..kord + 1 : rows[i][1] = IF i = n + 1 THEN n ELSE -(i - 1)
  <2>1. kord \in 1..AdamsOrder /\ n \in 1..kord
    BY <1>1, <1>19
  <2>2. RowsMet(row, n)
    BY <1>1, <1>10, <2>1, RowsMetOf, Zenon
  <2> QED BY <1>4, <2>2, Zenon DEF RowsMet
<1>12. Adams!Stale(g) \in [1..AdamsOrder + 1 -> Adams!Indices]
       /\ \A i \in 1..AdamsOrder + 1 : g[i] >= 0 => Adams!Stale(g)[i] = g[i]
  <2>1. g \in [1..AdamsOrder + 1 -> Adams!Indices]
    BY AdamsTyped
  <2> QED BY <1>1, <2>1, StaleOf
<1>13. \A i \in n + 1..kord + 1 : rows[i][1] \in Adams!Indices
  <2>1. ASSUME NEW i \in n + 1..kord + 1 PROVE (IF i = n + 1 THEN n ELSE -(i - 1)) \in Adams!Indices
    BY <1>1, <1>2 DEF Adams!Indices
  <2> QED BY <1>11, <2>1, Zenon
<1>14. g' \in [1..AdamsOrder + 1 -> Adams!Indices]
  BY <1>5, <1>12, <1>13, Zenon
<1>15. /\ kgi' \in 0..AdamsOrder /\ gi' \in [1..AdamsOrder -> Adams!Indices]
       /\ kgi' = (IF kord > n THEN n ELSE kord - 1) /\ \A i \in 1..kgi' : gi'[i] = i
  <2>1. /\ gi' \in [1..AdamsOrder -> Adams!Indices]
        /\ kgi' = (IF kord > n THEN n ELSE kord - 1) /\ \A i \in 1..kgi' : gi'[i] = i
    BY <1>3, <1>5, Zenon DEF IntegralsMet
  <2>2. (IF kord > n THEN n ELSE kord - 1) \in 0..AdamsOrder
    BY <1>1, <1>2
  <2> QED BY <2>1, <2>2, Zenon
<1>16. AdamsArrays'
  <2>1. kprev' \in 0..AdamsOrder
    BY <1>1, <1>5
  <2>2. Len(iv') <= AdamsOrder - 2
    <3>1. l <= AdamsOrder - 2
      BY <1>1, <1>2, <1>9
    <3> QED BY <1>5, <1>9, <3>1
  <2>3. w' \in [1..AdamsOrder + 1 -> Adams!Indices]
    BY <1>5, <1>11
  <2>4. v' \in [1..AdamsOrder + 1 -> Adams!Indices] /\ iv' \in Seq(1..AdamsOrder + 1)
    BY <1>5, <1>8
  <2> QED BY <1>14, <1>15, <2>1, <2>2, <2>3, <2>4, Zenon DEF AdamsArrays, Adams!Indices
<1>17. AdamsStaircase'
  <2>1. Done' >= 1 /\ kprev' >= Done' /\ kprev' + Len(iv') <= AdamsOrder
    BY <1>2, <1>5, <1>7, <1>8
  <2>2. IF Order' >= ns' THEN kprev' = Order' ELSE kprev' <= ns'
    BY <1>1, <1>2, <1>5, <1>7
  <2>3. Len(iv') > 0 => iv'[Len(iv')] >= kprev' + 3 - Done' /\ kprev' >= 2
    <3>1. kprev' >= 2
      BY <1>1, <1>2, <1>5
    <3>2. Len(iv') > 0 => iv'[Len(iv')] >= kprev' + 3 - Done'
      BY <1>5, <1>7, <1>8, Zenon DEF TopAbove
    <3> QED BY <3>1, <3>2, Zenon
  <2>4. Stairs(v', kprev', iv', Done')
    BY <1>5, <1>7, <1>8, Zenon
  <2> QED BY <2>1, <2>2, <2>3, <2>4, Zenon DEF AdamsStaircase
<1>18. AdamsTaken'
  <2>1. ASSUME NEW q \in kord + 1 - n..kord + l PROVE w'[q] = v'[q]
    <3>1. q \in kord + 1 - n..AdamsOrder + 1
      <4>1. kord + l <= AdamsOrder
        BY <1>9
      <4> QED BY <1>1, <1>19, <4>1
    <3>2. row[q] = new[q]
      BY <1>9, <1>10, <2>1, Zenon
    <3>3. rows[kord + 1][q] = row[q]
      BY <1>11, <3>1
    <3> QED BY <1>5, <3>2, <3>3, Zenon
  <2>2. \A q \in kprev' + 1 - Done'..kprev' + Len(iv') : w'[q] = v'[q]
    BY <1>5, <1>7, <1>9, <2>1, Zenon
  <2>3. Order' >= ns' => \A q \in 1..kprev' - Done' : w'[q] = -(kprev' + 1 - q)
    BY <1>5, <1>7, <1>11, Zenon
  <2>4. kgi' = IF kprev' > Done' THEN Done' ELSE kprev' - 1
    BY <1>5, <1>7, <1>15, Zenon
  <2>5. ASSUME NEW i \in 3..n + 1 PROVE g'[i] = i - 1
    <3>1. i \in 1..AdamsOrder + 1
      BY <1>1, <1>2
    <3>2. CASE i = n + 1
      <4>1. i \in n + 1..kord + 1 /\ n = i - 1
        BY <1>1, <1>2, <3>2
      <4>2. rows[i][1] = n
        BY <1>11, <3>2, <4>1
      <4> QED BY <1>5, <3>1, <4>1, <4>2, Zenon
    <3>3. CASE i # n + 1
      <4>1. i \in 3..n /\ ~(i \in n + 1..kord + 1)
        BY <1>2, <3>3
      <4>2. g[i] = i - 1
        <5>1. AdamsTaken
          BY DEF Kept, AdamsInv
        <5>2. \A j \in 3..Done + 1 : g[j] = j - 1
          BY <5>1, Zenon DEF AdamsTaken
        <5> QED BY <1>2, <4>1, <5>2, Zenon
      <4>3. g[i] >= 0
        BY <4>1, <4>2
      <4> QED BY <1>5, <1>12, <3>1, <4>1, <4>2, <4>3, Zenon
    <3> QED BY <3>2, <3>3
  <2>6. \A i \in 3..Done' + 1 : g'[i] = i - 1
    BY <1>7, <2>5, Zenon
  <2>7. ASSUME NEW i \in n + 2..kord + 1 PROVE g'[i] = -(i - 1)
    <3>1. i \in 1..AdamsOrder + 1 /\ i \in n + 1..kord + 1 /\ i # n + 1
      BY <1>1, <1>2
    <3>2. rows[i][1] = -(i - 1)
      BY <1>11, <3>1, Zenon
    <3> QED BY <1>5, <3>1, <3>2, Zenon
  <2>8. \A i \in Done' + 2..kord' + 1 : g'[i] = -(i - 1)
    BY <1>6, <1>7, <2>7, Zenon
  <2>9. \A i \in 1..kgi' : gi'[i] = i
    BY <1>15
  <2> QED BY <2>2, <2>3, <2>4, <2>6, <2>8, <2>9, Zenon DEF AdamsTaken
<1> QED BY <1>16, <1>17, <1>18

\* A trial.
LEMMA AdamsPredicts ==
  ASSUME MultistepAssumption, LengthsAssumption, AdamsInv, Adams!Predict PROVE AdamsInv'
<1>1. /\ pc' = "judge" /\ start' = FALSE /\ h' \in AdamsSizes
      /\ UNCHANGED <<kord, kold, phase1, hold, depth, last, crashed>>
      /\ ns' \in 1..AdamsOrder + 1 /\ ifail' \in 0..4
  BY PredictCases
<1>2. AdamsArrays' /\ AdamsStaircase' /\ AdamsTaken'
  <2>1. CASE ns' = 1 /\ Adams!Restarted(h')
    BY <2>1, AdamsRestarts
  <2>2. CASE Kept /\ ns' = Done + 1 /\ Done >= 1 /\ Done \in Int /\ kord < ns' /\ Adams!Keep
    BY <2>2, AdamsKeepsOn
  <2>3. CASE Kept /\ ns' = Done + 1 /\ Done >= 1 /\ Done \in Int /\ kord >= ns' /\ Adams!Extended(ns', h')
    BY <2>3, AdamsExtends
  <2> QED BY <2>1, <2>2, <2>3, PredictCases
<1>3. psi' \in [1..AdamsOrder -> Int] /\ AdamsDistances'
  BY PredictDistances
<1>4. AdamsOrders'
  <2>1. iv' \in Seq(1..AdamsOrder + 1)
    BY <1>2, Zenon DEF AdamsArrays
  <2> QED BY <2>1, PredictOrders
<1>5. Adams!TypeOK'
  <2>1. /\ kord \in 1..AdamsOrder /\ kold \in 0..AdamsOrder /\ {start, phase1, crashed} \subseteq BOOLEAN
        /\ hold \in AdamsSizes \cup {0} /\ depth \in 1..AdamsOrder + 2
    BY Zenon DEF AdamsInv, Adams!TypeOK
  <2>2. /\ kord' \in 1..AdamsOrder /\ kold' \in 0..AdamsOrder /\ {start', phase1', crashed'} \subseteq BOOLEAN
        /\ hold' \in AdamsSizes \cup {0} /\ depth' \in 1..AdamsOrder + 2
    BY <1>1, <2>1
  <2>3. pc' \in {"idle", "judge", "retry"}
    BY <1>1
  <2>4. ns' \in 0..AdamsOrder + 1
    BY <1>1
  <2>5. \A i \in DOMAIN iv' : iv'[i] \in 1..AdamsOrder + 1
    <3>1. iv' \in Seq(1..AdamsOrder + 1)
      BY <1>2, Zenon DEF AdamsArrays
    <3>2. PICK list : list = iv' /\ list \in Seq(1..AdamsOrder + 1)
      BY <3>1
    <3>3. \A i \in DOMAIN list : list[i] \in 1..AdamsOrder + 1
      <4>1. DOMAIN list = 1..Len(list)
        BY <3>2, LenProperties
      <4>2. \A i \in 1..Len(list) : list[i] \in 1..AdamsOrder + 1
        BY <3>2, ElementOfSeq
      <4> QED BY <4>1, <4>2, Zenon
    <3> QED BY <3>2, <3>3
  <2>6. /\ kprev' \in 0..AdamsOrder /\ kgi' \in 0..AdamsOrder
        /\ v' \in [1..AdamsOrder + 1 -> Adams!Indices] /\ w' \in [1..AdamsOrder + 1 -> Adams!Indices]
        /\ g' \in [1..AdamsOrder + 1 -> Adams!Indices] /\ gi' \in [1..AdamsOrder -> Adams!Indices]
        /\ Len(iv') <= AdamsOrder - 2
    BY <1>2, Zenon DEF AdamsArrays, Adams!Indices
  <2> QED BY <1>1, <1>3, <2>2, <2>3, <2>4, <2>5, <2>6, Zenon DEF Adams!TypeOK, Adams!Indices
<1> QED BY <1>2, <1>3, <1>4, <1>5, Zenon DEF AdamsInv

\* Every step keeps the invariant.
LEMMA AdamsKeeps ==
  ASSUME MultistepAssumption, LengthsAssumption, AdamsInv, Adams!Next PROVE AdamsInv'
<1>1. CASE Adams!Clip
  BY <1>1, AdamsClips
<1>2. CASE Adams!Predict
  BY <1>2, AdamsPredicts
<1>3. CASE Adams!Reject
  BY <1>3, AdamsRejects
<1>4. ASSUME NEW lower \in BOOLEAN, Adams!Accept(lower) PROVE AdamsInv'
  BY <1>4, AdamsAccepts
<1> QED BY <1>1, <1>2, <1>3, <1>4 DEF Adams!Next

\* A trial is built on coefficients of its mesh.
LEMMA AdamsInvCoefficients ==
  ASSUME MultistepAssumption, LengthsAssumption, AdamsInv
  PROVE  Adams!CoefficientsOfMesh /\ Adams!EstimateInformed
<1> SUFFICES ASSUME pc = "judge" PROVE Adams!CoefficientsOfMesh /\ (kord + 1 <= ns => depth > kord)
  BY DEF Adams!CoefficientsOfMesh, Adams!EstimateInformed
<1>1. kord \in Int /\ ns \in Int
  BY AdamsTyped
<1>2. /\ ns >= 1 /\ kord <= Len(last) + 1 /\ kord <= depth /\ (ns > kord => depth > kord)
      /\ \A i \in 1..ns - 1 : i <= Len(last) => last[i] = h
  BY DEF AdamsInv, AdamsOrders
<1>3. \A i \in 1..kord : psi[i] = h + Adams!Way(i - 1)
  BY DEF AdamsInv, AdamsDistances
<1>4. PICK d \in Int : d = Done /\ d = IF kord < ns THEN ns - 1 ELSE ns
  BY <1>1 DEF Done, Order
<1>5. AdamsTaken
  BY <1>2 DEF AdamsInv
<1>6. \A i \in 3..d + 1 : g[i] = i - 1
  BY <1>4, <1>5, Zenon DEF AdamsTaken
<1>7. \A i \in d + 2..kord + 1 : g[i] = -(i - 1)
  BY <1>4, <1>5, Zenon DEF AdamsTaken
<1>8. ASSUME NEW i \in 3..kord + 1 PROVE g[i] = IF i <= ns + 1 THEN i - 1 ELSE -(i - 1)
  <2>1. CASE i \in 3..d + 1
    <3>1. i <= ns + 1
      BY <1>1, <1>4, <2>1
    <3> QED BY <1>6, <2>1, <3>1
  <2>2. CASE ~(i \in 3..d + 1)
    <3>1. i \in d + 2..kord + 1 /\ ~(i <= ns + 1)
      BY <1>1, <1>4, <2>2
    <3> QED BY <1>7, <3>1
  <2> QED BY <2>1, <2>2
<1>9. Adams!CoefficientsOfMesh
  BY <1>2, <1>3, <1>8, Zenon DEF Adams!CoefficientsOfMesh
<1>10. kord + 1 <= ns => depth > kord
  <2>1. kord + 1 <= ns => ns > kord
    BY <1>1
  <2> QED BY <1>2, <2>1, Zenon
<1> QED BY <1>9, <1>10

TopOf(array, order, stack, m) ==
  stack[m] \in Int /\ stack[m] <= order + 1 /\ array[stack[m]] = order + 2 - stack[m]

\* The number at the top of the stack.
LEMMA StairsTopOf ==
  ASSUME NEW array, NEW order \in Int, NEW stack \in Seq(Int), NEW done, Stairs(array, order, stack, done),
         NEW m \in Nat, m = Len(stack), m > 0
  PROVE  TopOf(array, order, stack, m)
BY StairsTop DEF TopOf

\* The interpolant finds the integral of the step.
LEMMA AdamsInvInterpolant ==
  ASSUME MultistepAssumption, LengthsAssumption, AdamsInv
  PROVE  Adams!InterpolantOfStep
<1> SUFFICES ASSUME pc = "idle", kold > 0, ~crashed PROVE Adams!Abs(Adams!Gdi) = kold
  BY DEF Adams!InterpolantOfStep
<1>1. /\ kold \in Int /\ kold <= AdamsOrder /\ kold >= 1 /\ kprev \in Int /\ ns \in Int /\ AdamsOrder \in Nat
      /\ kold \in 1..AdamsOrder
  <2>1. kold \in Int /\ kold <= AdamsOrder /\ kprev \in Int /\ ns \in Int
    BY AdamsTyped
  <2>2. AdamsOrder \in Nat
    BY AdamsNumbers
  <2> QED BY <2>1, <2>2
<1>2. kgi \in Int
  BY AdamsTyped
<1>3. ns >= 1
  BY <1>1 DEF AdamsInv, AdamsOrders
<1>4. AdamsStaircase /\ AdamsTaken
  BY <1>3 DEF AdamsInv
<1>5. PICK d \in Int : d = Done /\ d = IF kold < ns THEN ns - 1 ELSE ns
  BY <1>1 DEF Done, Order
<1>6. Order = kold
  BY DEF Order
<1>7. d >= 1 /\ kprev >= d /\ (IF kold >= ns THEN kprev = kold ELSE kprev <= ns)
  BY <1>4, <1>5, <1>6, Zenon DEF AdamsStaircase
<1>8. kgi = IF kprev > d THEN d ELSE kprev - 1
  BY <1>4, <1>5, Zenon DEF AdamsTaken
<1>9. Adams!Gdi = kold
  <2>1. CASE kold <= kgi
    <3>1. Adams!Gdi = gi[kold]
      BY <2>1, Zenon DEF Adams!Gdi
    <3>2. \A i \in 1..kgi : gi[i] = i
      BY <1>4, Zenon DEF AdamsTaken
    <3>3. kold \in 1..kgi
      BY <1>1, <1>2, <2>1
    <3> QED BY <3>1, <3>2, <3>3
  <2>2. CASE ~(kold <= kgi)
    <3>1. kprev = kold /\ d <= kold
      BY <1>1, <1>2, <1>5, <1>7, <1>8, <2>2
    <3>2. PICK stack : stack = iv /\ stack \in Seq(Int)
      BY AdamsTyped
    <3>3. PICK l \in Nat : l = Len(stack)
      BY <3>2, LenProperties
    <3>4. iv = <<>> <=> l = 0
      BY <3>2, <3>3, EmptySeq
    <3>5. \A q \in kold + 1 - d..kold + l : w[q] = v[q]
      <4>1. \A q \in kprev + 1 - d..kprev + l : w[q] = v[q]
        BY <1>4, <1>5, <3>2, <3>3, Zenon DEF AdamsTaken
      <4> QED BY <3>1, <4>1
    <3>6. \A q \in 1..kold - d : w[q] = -(kold + 1 - q)
      <4>1. CASE kold < ns
        <5>1. ~(1 <= kold - d)
          BY <1>1, <1>5, <3>1, <4>1
        <5> QED BY <1>1, <5>1
      <4>2. CASE ~(kold < ns)
        <5>1. kold >= ns
          BY <1>1, <4>2
        <5>2. \A q \in 1..kprev - d : w[q] = -(kprev + 1 - q)
          BY <1>4, <1>5, <1>6, <5>1, Zenon DEF AdamsTaken
        <5> QED BY <3>1, <5>2
      <4> QED BY <4>1, <4>2
    <3>7. Stairs(v, kold, stack, d)
      <4>1. Stairs(v, kprev, iv, d)
        BY <1>4, <1>5, Zenon DEF AdamsStaircase
      <4> QED BY <3>1, <3>2, <4>1, Zenon
    <3>8. \A q \in 1..kold : l = 0 \/ q < stack[l] => v[q] = IF q <= kold + 1 - d THEN d ELSE kold + 1 - q
      BY <3>3, <3>7 DEF Stairs
    <3>9. ASSUME NEW q \in 1..kold, l = 0 \/ q < stack[l]
          PROVE  w[q] = kold + 1 - q \/ w[q] = -(kold + 1 - q)
      <4>1. CASE q \in 1..kold - d
        BY <3>6, <4>1
      <4>2. CASE ~(q \in 1..kold - d)
        <5>1. q \in kold + 1 - d..kold + l /\ (q <= kold + 1 - d => d = kold + 1 - q)
          BY <1>1, <3>1, <4>2
        <5>2. w[q] = v[q] /\ v[q] = IF q <= kold + 1 - d THEN d ELSE kold + 1 - q
          BY <3>5, <3>8, <3>9, <5>1
        <5> QED BY <5>1, <5>2
      <4> QED BY <4>1, <4>2
    <3>10. CASE l = 0
      <4>1. iv = <<>> /\ 2 \in 2..kold + 1
        BY <1>1, <3>4, <3>10
      <4>2. \A q \in 2..kold + 2 - 2 : w[q] = kold + 1 - q \/ w[q] = -(kold + 1 - q)
        <5>1. \A q \in 2..kold + 2 - 2 : q \in 1..kold
          BY <1>1
        <5> QED BY <3>9, <3>10, <5>1
      <4>3. PICK m \in 2..kold + 1 : m = 2 /\ m - 1 = 1
        BY <4>1
      <4>4. m = IF iv = <<>> THEN 2 ELSE kold - iv[Len(iv)] + 3
        BY <4>1, <4>3, Zenon
      <4>5. (IF iv = <<>> THEN 1 ELSE w[iv[Len(iv)]]) = m - 1
        BY <4>1, <4>3, Zenon
      <4>6. \A q \in 2..kold + 2 - m : w[q] = kold + 1 - q \/ w[q] = -(kold + 1 - q)
        BY <4>2, <4>3, Zenon
      <4> QED BY <1>1, <2>2, <4>4, <4>5, <4>6, GdiOf, Zenon
    <3>11. CASE l # 0
      <4>1. l > 0
        BY <3>11
      <4>2. stack[l] \in Int /\ stack[l] <= kold + 1 /\ v[stack[l]] = kold + 2 - stack[l]
        <5>1. TopOf(v, kold, stack, l)
          BY <1>1, <3>2, <3>3, <3>7, <4>1, StairsTopOf, Zenon
        <5> QED BY <5>1, Zenon DEF TopOf
      <4>3. PICK top \in Int : top = stack[l]
        BY <4>2
      <4>4. top <= kold + 1 /\ v[top] = kold + 2 - top
        BY <4>2, <4>3
      <4>5. top >= kold + 3 - d
        <5>1. Len(iv) > 0 => iv[Len(iv)] >= kprev + 3 - d
          BY <1>4, <1>5, Zenon DEF AdamsStaircase
        <5> QED BY <3>1, <3>2, <3>3, <4>1, <4>3, <5>1, Zenon
      <4>6. top \in kold + 1 - d..kold + l /\ kold - top + 3 \in 2..kold + 1
        BY <1>1, <3>1, <4>1, <4>4, <4>5
      <4>7. w[top] = kold + 2 - top
        BY <3>5, <4>4, <4>6
      <4>8. PICK m \in 2..kold + 1 : m = kold - top + 3 /\ m - 1 = kold + 2 - top
        BY <1>1, <4>6
      <4>9. iv # <<>> /\ iv[Len(iv)] = top
        BY <3>2, <3>3, <3>4, <3>11, <4>3, Zenon
      <4>10. m = IF iv = <<>> THEN 2 ELSE kold - iv[Len(iv)] + 3
        BY <4>8, <4>9, Zenon
      <4>11. (IF iv = <<>> THEN 1 ELSE w[iv[Len(iv)]]) = m - 1
        BY <4>7, <4>8, <4>9, Zenon
      <4>12. ASSUME NEW q \in 2..kold + 2 - m PROVE w[q] = kold + 1 - q \/ w[q] = -(kold + 1 - q)
        <5>1. q \in 1..kold /\ q < top
          BY <1>1, <4>4, <4>8
        <5>2. q < stack[l]
          BY <4>3, <5>1
        <5> QED BY <3>9, <5>1, <5>2
      <4>13. \A q \in 2..kold + 2 - m : w[q] = kold + 1 - q \/ w[q] = -(kold + 1 - q)
        BY <4>12
      <4> QED BY <1>1, <2>2, <4>10, <4>11, <4>13, GdiOf, Zenon
    <3> QED BY <3>10, <3>11
  <2> QED BY <2>1, <2>2
<1> QED BY <1>1, <1>9 DEF Adams!Abs

\* What the four programs keep, each in its own steps.
MultistepInv ==
  /\ code = "adams" => AdamsInv
  /\ code = "nordsieck" => NordsieckInv
  /\ code = "ddeabm" => DdeabmInv
  /\ code = "vode" => VodeInv

\* A step of one of them leaves the others where they were.
LEMMA MultistepKeeps == ASSUME MultistepInv, [MultistepNext]_allVars PROVE MultistepInv'
<1> USE MultistepAssumption, LengthsAssumption
<1>1. code' = code
  BY DEF MultistepNext, BesideAdams, BesideNordsieck, BesideDdeabm, BesideVode, allVars
<1>2. ASSUME code = "adams" PROVE AdamsInv'
  <2>1. AdamsInv
    BY <1>2 DEF MultistepInv
  <2>2. CASE MultistepNext
    <3>1. Adams!Next
      BY <1>2, <2>2 DEF MultistepNext
    <3> QED BY <2>1, <3>1, AdamsKeeps, Zenon
  <2>3. CASE UNCHANGED allVars
    <3>1. UNCHANGED Adams!vars
      BY <2>3 DEF allVars, OfAdams, Adams!vars, Adams!coefficients
    <3> QED BY <2>1, <3>1, AdamsIdles, Zenon
  <2> QED BY <2>2, <2>3
<1>3. ASSUME code = "nordsieck" PROVE NordsieckInv'
  <2>1. NordsieckInv
    BY <1>3 DEF MultistepInv
  <2>2. CASE MultistepNext
    <3>1. Nordsieck!Next
      BY <1>3, <2>2 DEF MultistepNext
    <3> QED BY <2>1, <3>1, NordsieckKeeps, Zenon
  <2>3. CASE UNCHANGED allVars
    <3>1. UNCHANGED Nordsieck!vars
      BY <2>3 DEF allVars, OfNordsieck, Nordsieck!vars
    <3> QED BY <2>1, <3>1, NordsieckKeeps, Zenon
  <2> QED BY <2>2, <2>3
<1>4. ASSUME code = "ddeabm" PROVE DdeabmInv'
  <2>1. DdeabmInv
    BY <1>4 DEF MultistepInv
  <2>2. CASE MultistepNext
    BY <1>4, <2>1, <2>2, DdeabmKeeps DEF MultistepNext
  <2>3. CASE UNCHANGED allVars
    <3>1. UNCHANGED Ddeabm!vars
      BY <2>3 DEF allVars, OfDriver, OfDdeabm, Ddeabm!vars, Ddeabm!setup, Ddeabm!point
    <3> QED BY <2>1, <3>1, DdeabmIdles, Zenon
  <2> QED BY <2>2, <2>3
<1>5. ASSUME code = "vode" PROVE VodeInv'
  <2>1. VodeInv
    BY <1>5 DEF MultistepInv
  <2>2. CASE MultistepNext
    <3>1. Vode!Step \/ \E to \in Touts : Vode!Call(to)
      BY <1>5, <2>2 DEF MultistepNext
    <3> QED BY <2>1, <3>1, VodeReports
  <2>3. CASE UNCHANGED allVars
    BY <2>1, <2>3, VodeIdles DEF allVars, OfDriver, OfVode
  <2> QED BY <2>2, <2>3
<1> QED BY <1>1, <1>2, <1>3, <1>4, <1>5, Zenon DEF MultistepInv

\* The coefficients a trial of DDEABM or VODE is built on are of the steps really
\* accepted, an order is chosen on estimates that were formed for it, and after a
\* step of DDEABM the interpolant finds the integral of its order, whichever of
\* the three ways it takes: for every greatest order, set of lengths and sequence
\* of failures, cuts and changes of order.
THEOREM MultistepCorrect == MultistepSpec => []CoefficientsOfMesh
<1>1. MultistepInit => MultistepInv
  <2> SUFFICES ASSUME MultistepInit PROVE MultistepInv
    OBVIOUS
  <2>1. code = "adams" => AdamsInv
    <3>1. code = "adams" => Adams!Init
      BY DEF MultistepInit
    <3> QED BY <3>1, MultistepAssumption, LengthsAssumption, AdamsStarts
  <2>2. code = "nordsieck" => NordsieckInv
    BY MultistepAssumption, NordsieckStarts DEF MultistepInit
  <2>3. code = "ddeabm" => DdeabmInv
    BY MultistepAssumption, DdeabmStarts DEF MultistepInit
  <2>4. code = "vode" => VodeInv
    BY MultistepAssumption, VodeStarts DEF MultistepInit
  <2> QED BY <2>1, <2>2, <2>3, <2>4, Zenon DEF MultistepInv
<1>2. MultistepInv /\ [MultistepNext]_allVars => MultistepInv'
  BY MultistepKeeps
<1>3. MultistepInv => CoefficientsOfMesh
  <2> SUFFICES ASSUME MultistepInv PROVE CoefficientsOfMesh
    OBVIOUS
  <2>1. ASSUME code = "adams"
        PROVE  /\ Adams!TypeOK /\ Adams!CoefficientsOfMesh
               /\ Adams!EstimateInformed /\ Adams!InterpolantOfStep
    <3>1. AdamsInv
      BY <2>1 DEF MultistepInv
    <3>2. Adams!TypeOK
      BY <3>1, Zenon DEF AdamsInv
    <3> QED BY <3>1, <3>2, MultistepAssumption, LengthsAssumption, AdamsInvCoefficients, AdamsInvInterpolant, Zenon
  <2>2. ASSUME code = "nordsieck"
        PROVE  Nordsieck!TypeOK /\ Nordsieck!CoefficientsOfMesh /\ Nordsieck!OrderInformed
    BY <2>2, MultistepAssumption, NordsieckInvInformed DEF MultistepInv
  <2>3. code = "ddeabm" => Ddeabm!TypeOK
    BY Zenon DEF MultistepInv, DdeabmInv
  <2>4. code = "vode" => Vode!TypeOK
    BY Zenon DEF MultistepInv, VodeInv
  <2> QED BY <2>1, <2>2, <2>3, <2>4, Zenon DEF CoefficientsOfMesh, TypesOK
<1> QED BY <1>1, <1>2, <1>3, PTL DEF MultistepSpec
=============================================================================
