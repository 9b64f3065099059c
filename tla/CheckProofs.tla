---------------------------- MODULE CheckProofs -----------------------------
(***************************************************************************)
(* What the exit codes of the checks mean, for every set of sources,       *)
(* procedures, documents and headings and any number of rows, edits and    *)
(* revisions.  First check_derivative_kernel_inventory.py: it passes       *)
(* exactly when ownership is a bijection.  The script never counts claims; *)
(* it keeps the set of the names it has seen, and two sets that each row   *)
(* extends by its class.  The invariant KInv says when those sets stand for*)
(* the counts, and which flaws are still to be noticed.  Then              *)
(* check_documentation.py: the invariant DInv says that, unless a fault is *)
(* overlooked, the list of errors has a member as soon as a document shown *)
(* was out of order.                                                       *)
(*                                                                         *)
(* Both scanners read a source as the language means it, for every text of *)
(* any number of modules, nested to any depth, and every docs/api.md, as   *)
(* long as it keeps from the habits that they do not read.  The scanner of *)
(* the inventory keeps one number for the interfaces that are open, the    *)
(* audit another, which misses some of them, and both forget where they    *)
(* are: the invariants say what the numbers stand for, and that a source   *)
(* cannot be where the numbers would be wrong.                             *)
(***************************************************************************)
EXTENDS Documentation, SourceScan, LeastNumber, SequenceTheorems

\* what an entry is claimed by, and where it may come from
Counted ==
  /\ claims \in [Entries -> Nat]
  /\ \A e \in Entries : claims[e] = 0 <=> e \notin seen
  /\ defined \subseteq Files \X Symbols

\* as long as every row is filed under its class, the two sets that are
\* compared are the two halves of what the rows name
Split ==
  sound =>
    /\ source_entries = {e \in seen : e[1] # Generator}
    /\ wrapper_artifacts = {n \in Names : <<Generator, n>> \in seen}

\* a procedure is a kernel by its name, or by its name and place
Scanned ==
  discovered = {e \in defined : \/ e[2] \in Products
                                \/ e[1] \in Generated /\ e[1] \notin ValueOnly /\ e[2] \in Exported}

Twice == \E e \in Entries : claims[e] > 1

\* what the errors noted so far stand for; the claim of a kernel by the
\* generator is not noticed before the kernels are compared
Judged ==
  /\ step \in {"load", "scan"} =>
       /\ flawed => ~sound \/ Twice
       /\ ~flawed => ~Twice /\ (sound \/ \E e \in source_entries : e[1] = Generator)
  /\ step = "wrappers" =>
       (flawed <=> ~sound \/ Twice \/ source_entries # discovered)

KInv == KernelTypeOK /\ Counted /\ Split /\ Scanned /\ Judged /\ OwnedOnce

-----------------------------------------------------------------------------
(* What an entry is made of, and that a procedure of a file is an entry     *)
(* which is not the generator's.                                            *)
LEMMA Pairs ==
  /\ \A e \in Entries : e = <<e[1], e[2]>> /\ e[1] \in Files \cup {Generator} /\ e[2] \in Names
  /\ \A e \in Files \X Symbols : e \in Entries /\ e[1] \in Files /\ e[1] # Generator /\ e[2] \in Symbols
BY KernelAssumption DEF Entries, Names

(* What a row names: entries of its path, one per symbol.                   *)
LEMMA KeysOf ==
  ASSUME NEW row \in Row
  PROVE  /\ Keys(row) \subseteq Entries
         /\ \A e \in Keys(row) : e[1] = row.path /\ e[2] \in row.symbols
         /\ \A n \in row.symbols : <<row.path, n>> \in Keys(row)
         /\ row.path \in Files \cup {Generator} /\ row.symbols \subseteq Names
         /\ row.hybrid \in BOOLEAN /\ row.fit \in BOOLEAN
BY DEF Keys, Row, Entries, Names

(* Before the first row nothing is claimed, seen or flawed.                 *)
LEMMA Begins == InitKernels => KInv
<1> SUFFICES ASSUME InitKernels PROVE KInv
  OBVIOUS
<1> USE DEF InitKernels
<1>1. KernelTypeOK
  BY DEF KernelTypeOK
<1>2. Counted
  BY DEF Counted
<1>3. Split
  BY DEF Split
<1>4. Scanned
  BY DEF Scanned
<1>5. Judged
  BY DEF Judged, Twice
<1>6. OwnedOnce
  BY DEF OwnedOnce
<1> QED
  BY <1>1, <1>2, <1>3, <1>4, <1>5, <1>6 DEF KInv

(* One more row: the count of what it names rises by one, and the row is    *)
(* noticed now unless it claims a kernel for the generator.                 *)
LEMMA Row_Kept ==
  ASSUME KInv, NEW row \in Row, LoadRow(row)
  PROVE  KInv'
<1> USE DEF KInv, LoadRow, read, scanned
<1>k. /\ Keys(row) \subseteq Entries
      /\ \A e \in Keys(row) : e[1] = row.path /\ e[2] \in row.symbols
      /\ \A n \in row.symbols : <<row.path, n>> \in Keys(row)
      /\ row.path \in Files \cup {Generator} /\ row.symbols \subseteq Names
      /\ row.hybrid \in BOOLEAN /\ row.fit \in BOOLEAN
  BY KeysOf
<1>1. KernelTypeOK'
  BY <1>k DEF KernelTypeOK
<1>2. /\ Counted'
      /\ Twice \/ Repeated(row) <=> Twice'
  <2>1. \A e \in Entries : claims'[e] = claims[e] + (IF e \in Keys(row) THEN 1 ELSE 0)
    OBVIOUS
  <2>2. claims' \in [Entries -> Nat]
    BY DEF Counted
  <2>3. \A e \in Entries : claims'[e] = 0 <=> e \notin seen'
    BY <2>1, <1>k DEF Counted
  <2>4. Repeated(row) <=> \E e \in Keys(row) : claims[e] > 0
    BY <1>k DEF Counted, Repeated
  <2>5. Twice \/ Repeated(row) <=> Twice'
    BY <2>1, <2>4, <1>k DEF Counted, Twice
  <2> QED
    BY <2>2, <2>3, <2>5 DEF Counted
<1>3. Split'
  <2> SUFFICES ASSUME sound'
               PROVE  /\ source_entries' = {e \in seen' : e[1] # Generator}
                      /\ wrapper_artifacts' = {n \in Names : <<Generator, n>> \in seen'}
    BY DEF Split
  <2>1. Filed(row) /\ sound
    OBVIOUS
  <2>2. /\ source_entries = {e \in seen : e[1] # Generator}
        /\ wrapper_artifacts = {n \in Names : <<Generator, n>> \in seen}
    BY <2>1 DEF Split
  <2>3. CASE row.hybrid
    <3>1. row.path = Generator
      BY <2>1, <2>3 DEF Filed
    <3>2. \A n : <<Generator, n>> \in Keys(row) <=> n \in row.symbols
      BY <3>1 DEF Keys
    <3> QED
      BY <1>k, <2>2, <2>3, <3>1, <3>2
  <2>4. CASE ~row.hybrid
    <3>1. row.path # Generator \/ row.symbols = {}
      BY <2>1, <2>4 DEF Filed
    <3>2. \A e \in Keys(row) : e[1] # Generator
      BY <1>k, <3>1
    <3>3. \A n : <<Generator, n>> \notin Keys(row)
      BY <3>1 DEF Keys
    <3> QED
      BY <2>2, <2>4, <3>2, <3>3
  <2> QED
    BY <2>3, <2>4, <1>k
<1>4. Scanned'
  BY DEF Scanned
<1>5. Judged'
  <2>1. ASSUME flawed' PROVE ~sound' \/ Twice'
    <3>1. CASE flawed
      BY <3>1, <1>2 DEF Judged
    <3>2. CASE ~row.fit
      BY <3>2, <1>k DEF KernelTypeOK
    <3>3. CASE Repeated(row)
      BY <3>3, <1>2
    <3>4. CASE row.hybrid /\ row.path # Generator
      BY <3>4, <1>k DEF Filed, KernelTypeOK
    <3> QED
      BY <2>1, <3>1, <3>2, <3>3, <3>4
  <2>2. ASSUME ~flawed' PROVE ~Twice' /\ (sound' \/ \E e \in source_entries' : e[1] = Generator)
    <3>1. ~flawed /\ row.fit /\ ~Repeated(row) /\ ~(row.hybrid /\ row.path # Generator)
      BY <2>2, <1>k DEF KernelTypeOK
    <3>2. ~Twice /\ (sound \/ \E e \in source_entries : e[1] = Generator)
      BY <3>1 DEF Judged
    <3>3. ~Twice'
      BY <3>1, <3>2, <1>2
    <3>4. CASE ~sound
      BY <3>2, <3>3, <3>4
    <3>5. CASE sound /\ Filed(row)
      BY <3>1, <3>3, <3>5
    <3>6. CASE ~Filed(row)
      <4>1. row.path = Generator /\ row.symbols # {} /\ ~row.hybrid
        BY <3>1, <3>6 DEF Filed
      <4>2. PICK n \in row.symbols : TRUE
        BY <4>1
      <4> QED
        BY <4>1, <4>2, <1>k, <3>3
    <3> QED
      BY <3>3, <3>4, <3>5, <3>6
  <2> QED
    BY <2>1, <2>2 DEF Judged, KernelTypeOK
<1>6. OwnedOnce'
  BY DEF OwnedOnce, KernelTypeOK
<1> QED
  BY <1>1, <1>2, <1>3, <1>4, <1>5, <1>6

(* The rest of the reading changes neither the counts nor the two sets.     *)
LEMMA Read_Kept ==
  ASSUME KInv, LoadNothing \/ Loaded
  PROVE  KInv'
<1> USE DEF KInv, LoadNothing, Loaded, ruled, read, scanned
<1>1. UNCHANGED <<claims, seen, source_entries, wrapper_artifacts, defined, discovered, code>>
  OBVIOUS
<1>2. KernelTypeOK'
  BY DEF KernelTypeOK
<1>3. Counted' /\ (Twice' <=> Twice)
  BY <1>1 DEF Counted, Twice
<1>4. Split'
  BY <1>1 DEF Split
<1>5. Scanned'
  BY <1>1 DEF Scanned
<1>6. Judged'
  <2>1. CASE LoadNothing
    <3>1. rows = 0 /\ ~sound' /\ flawed' /\ step' = "scan"
      BY <2>1
    <3> QED
      BY <3>1 DEF Judged
  <2>2. CASE Loaded
    <3>1. UNCHANGED <<sound, flawed>> /\ step = "load" /\ step' = "scan"
      BY <2>2
    <3> QED
      BY <3>1, <1>1, <1>3 DEF Judged
  <2> QED
    BY <2>1, <2>2
<1>7. OwnedOnce'
  BY DEF OwnedOnce, KernelTypeOK
<1> QED
  BY <1>2, <1>3, <1>4, <1>5, <1>6, <1>7

(* A file is scanned: the kernels found in it are those that need an owner. *)
LEMMA Scan_Kept ==
  ASSUME KInv, NEW file \in todo, NEW symbols \in SUBSET Symbols, ScanFile(file, symbols)
  PROVE  KInv'
<1> USE DEF KInv, ScanFile, ruled, read
<1>0. file \in Files
  BY DEF KernelTypeOK
<1>1. \A e \in {file} \X symbols : e[1] = file /\ e[2] \in symbols /\ e \in Files \X Symbols
  BY <1>0
<1>2. KernelTypeOK'
  <2>1. discovered' \subseteq defined'
    BY DEF KernelTypeOK, Kernels
  <2>2. defined' \subseteq Entries
    BY <1>1, Pairs DEF KernelTypeOK
  <2> QED
    BY <2>1, <2>2 DEF KernelTypeOK
<1>3. Counted' /\ (Twice' <=> Twice)
  BY <1>1 DEF Counted, Twice
<1>4. Split'
  BY DEF Split
<1>5. Scanned'
  <2>1. \A e \in {file} \X Kernels(file, symbols) :
          /\ e \in {file} \X symbols
          /\ e[2] \in Products \/ (e[1] \in Generated /\ e[1] \notin ValueOnly /\ e[2] \in Exported)
    BY DEF Kernels
  <2>2. \A e \in {file} \X symbols :
          e[2] \in Products \/ (e[1] \in Generated /\ e[1] \notin ValueOnly /\ e[2] \in Exported)
            => e \in {file} \X Kernels(file, symbols)
    BY DEF Kernels
  <2> QED
    BY <2>1, <2>2 DEF Scanned
<1>6. Judged'
  BY <1>3 DEF Judged, KernelTypeOK
<1>7. OwnedOnce'
  BY DEF OwnedOnce, KernelTypeOK
<1> QED
  BY <1>2, <1>3, <1>4, <1>5, <1>6, <1>7

(* A kernel claimed for the generator, which no scan finds, is an error now. *)
LEMMA Compare_Kept ==
  ASSUME KInv, CompareKernels
  PROVE  KInv'
<1> USE DEF KInv, CompareKernels, ruled, read, scanned
<1>1. KernelTypeOK'
  BY DEF KernelTypeOK
<1>2. Counted' /\ (Twice' <=> Twice) /\ Split' /\ Scanned'
  BY DEF Counted, Twice, Split, Scanned
<1>3. flawed' <=> flawed \/ source_entries # discovered
  BY DEF KernelTypeOK
<1>4. \A e \in discovered : e[1] # Generator
  BY Pairs DEF KernelTypeOK, Counted
<1>5. flawed' <=> ~sound \/ Twice \/ source_entries # discovered
  BY <1>3, <1>4 DEF Judged
<1>6. Judged'
  BY <1>2, <1>5 DEF Judged
<1>7. OwnedOnce'
  BY DEF OwnedOnce, KernelTypeOK
<1> QED
  BY <1>1, <1>2, <1>6, <1>7

(* The end: one more comparison, after which no flaw is left unnoticed.     *)
LEMMA Verdict_Kept ==
  ASSUME KInv, NEW artifacts \in SUBSET Artifacts, CompareWrappers(artifacts)
  PROVE  KInv'
<1> USE DEF KInv, CompareWrappers, ruled, read, scanned
<1>1. KernelTypeOK'
  BY DEF KernelTypeOK
<1>2. Counted' /\ Split' /\ Scanned'
  BY DEF Counted, Split, Scanned
<1>3. Judged'
  BY DEF Judged
<1>4. code' = 0 <=> sound /\ ~Twice /\ source_entries = discovered /\ wrapper_artifacts = artifacts
  BY DEF Judged, KernelTypeOK
<1>d. Due' = discovered \cup ({Generator} \X artifacts)
  BY DEF Due, Scanned
<1>e. Due' \subseteq Entries
  BY <1>d, Pairs DEF KernelTypeOK, Entries, Names
<1>n. /\ \A e \in discovered : e[1] # Generator
      /\ \A e \in {Generator} \X artifacts : e[1] = Generator
  BY Pairs DEF KernelTypeOK, Counted
<1>5. ASSUME sound
      PROVE  source_entries = discovered /\ wrapper_artifacts = artifacts <=> seen = Due'
  <2>1. /\ source_entries = {e \in seen : e[1] # Generator}
        /\ wrapper_artifacts = {n \in Names : <<Generator, n>> \in seen}
    BY <1>5 DEF Split
  <2>2. seen \subseteq Entries
    BY DEF KernelTypeOK
  <2>3. ASSUME seen = Due' PROVE source_entries = discovered /\ wrapper_artifacts = artifacts
    <3>1. source_entries = discovered
      BY <2>1, <2>3, <1>d, <1>n
    <3>2. \A n \in Names : <<Generator, n>> \in Due' <=> n \in artifacts
      BY <1>d, <1>n
    <3> QED
      BY <2>1, <2>3, <3>1, <3>2 DEF Names
  <2>4. ASSUME source_entries = discovered, wrapper_artifacts = artifacts PROVE seen = Due'
    <3>1. ASSUME NEW e \in seen PROVE e \in Due'
      <4>1. CASE e[1] # Generator
        BY <2>1, <2>4, <4>1, <1>d
      <4>2. CASE e[1] = Generator
        <5>1. e = <<Generator, e[2]>> /\ e[2] \in Names
          BY <2>2, <4>2, Pairs
        <5>2. e[2] \in artifacts
          BY <5>1, <2>1, <2>4
        <5> QED
          BY <5>1, <5>2, <1>d
      <4> QED
        BY <4>1, <4>2
    <3>2. ASSUME NEW e \in Due' PROVE e \in seen
      <4>1. CASE e \in discovered
        BY <2>1, <2>4, <4>1
      <4>2. CASE e \in {Generator} \X artifacts
        <5>1. e = <<Generator, e[2]>> /\ e[2] \in wrapper_artifacts
          BY <2>4, <4>2
        <5> QED
          BY <5>1, <2>1
      <4> QED
        BY <4>1, <4>2, <1>d
    <3> QED
      BY <3>1, <3>2
  <2> QED
    BY <2>3, <2>4
<1>6. (\A e \in Entries : claims[e] = IF e \in Due' THEN 1 ELSE 0) <=> ~Twice /\ seen = Due'
  <2>1. \A e \in Entries : claims[e] \in Nat /\ (claims[e] = 0 <=> e \notin seen)
    BY DEF Counted
  <2>2. seen \subseteq Entries
    BY DEF KernelTypeOK
  <2>3. ASSUME \A e \in Entries : claims[e] = IF e \in Due' THEN 1 ELSE 0
        PROVE  ~Twice /\ seen = Due'
    <3>1. ~Twice
      BY <2>3 DEF Twice
    <3>2. \A e \in Entries : e \in seen <=> e \in Due'
      BY <2>1, <2>3
    <3> QED
      BY <3>1, <3>2, <2>2, <1>e
  <2>4. ASSUME ~Twice, seen = Due'
        PROVE  \A e \in Entries : claims[e] = IF e \in Due' THEN 1 ELSE 0
    BY <2>1, <2>4 DEF Twice
  <2> QED
    BY <2>3, <2>4
<1>7. OwnedOnce'
  BY <1>4, <1>5, <1>6 DEF OwnedOnce
<1> QED
  BY <1>1, <1>2, <1>3, <1>7

(* The wrapper generator is not understood: the check fails and, as the     *)
(* wrappers have no known owner, rightly so.                                *)
LEMMA Unread_Kept ==
  ASSUME KInv, WrappersUnread
  PROVE  KInv'
<1> USE DEF KInv, WrappersUnread, read, scanned
<1>1. KernelTypeOK'
  <2>1. code' = 1 /\ step' = "end"
    OBVIOUS
  <2>2. sound' \in BOOLEAN /\ flawed' \in BOOLEAN
    BY Zenon DEF KernelTypeOK
  <2>3. UNCHANGED <<source_entries, seen, discovered, defined, wrapper_artifacts, emitted, todo>>
    OBVIOUS
  <2> QED
    BY <2>1, <2>2, <2>3 DEF KernelTypeOK
<1>2. Counted' /\ Split' /\ Scanned' /\ Judged'
  BY DEF Counted, Split, Scanned, Judged
<1>3. OwnedOnce'
  BY DEF OwnedOnce
<1> QED
  BY <1>1, <1>2, <1>3

(* A step that changes nothing keeps the invariant.                         *)
LEMMA Stutter_Kept ==
  ASSUME KInv, UNCHANGED kernelVars
  PROVE  KInv'
BY DEF KInv, kernelVars, ruled, read, scanned, KernelTypeOK, Counted, Split, Scanned, Judged, Twice,
       OwnedOnce, Due

(* A step of the script keeps the invariant, and so does a step of others.  *)
LEMMA Kernels_Kept ==
  ASSUME KInv, [NextKernels]_kernelVars
  PROVE  KInv'
<1>1. ASSUME NEW row \in Row, LoadRow(row) PROVE KInv'
  BY <1>1, Row_Kept
<1>2. CASE LoadNothing \/ Loaded
  BY <1>2, Read_Kept
<1>3. ASSUME NEW file \in todo, NEW symbols \in SUBSET Symbols, ScanFile(file, symbols) PROVE KInv'
  BY <1>3, Scan_Kept
<1>4. CASE CompareKernels
  BY <1>4, Compare_Kept
<1>5. ASSUME NEW artifacts \in SUBSET Artifacts, CompareWrappers(artifacts) PROVE KInv'
  BY <1>5, Verdict_Kept
<1>6. CASE WrappersUnread
  BY <1>6, Unread_Kept
<1>7. CASE UNCHANGED kernelVars
  BY <1>7, Stutter_Kept
<1> QED
  BY <1>1, <1>2, <1>3, <1>4, <1>5, <1>6, <1>7 DEF NextKernels

(* At every point of a run of the inventory check the two compared sets     *)
(* stand for the counts of the claims, and each flaw is noted or still to   *)
(* be noticed by a comparison.                                              *)
THEOREM Inventoried == KernelSpec => []KInv
<1>1. KInv /\ [NextKernels]_kernelVars => KInv'
  BY Kernels_Kept
<1> QED
  BY <1>1, Begins, PTL DEF KernelSpec

(* The state of the script is well formed at every point of a run.          *)
THEOREM Typed == KernelSpec => []KernelTypeOK
<1>1. KInv => KernelTypeOK
  BY DEF KInv
<1> QED
  BY <1>1, Inventoried, PTL

(* The inventory check passes exactly when every kernel that is defined and *)
(* every wrapper that is emitted is claimed by one row and by no second     *)
(* one, and no row claims anything else: main of                            *)
(* check_derivative_kernel_inventory.py, for any number of rows and files.  *)
THEOREM Ownership == KernelSpec => []OwnedOnce
<1>1. KInv => OwnedOnce
  BY DEF KInv
<1> QED
  BY <1>1, Inventoried, PTL

-----------------------------------------------------------------------------
(* anchors gives each heading the anchor that the document has when it is   *)
(* rendered: by induction over the lines, counts holds how often a heading  *)
(* has come up.                                                             *)
LEMMA AnchorsRendered ==
  ASSUME NEW lines \in Seq(Headings)
  PROVE  Anchors(lines) = Rendered(lines)
<1> DEFINE n == Len(lines)
           State == [counts : [Headings -> Nat], result : SUBSET (Headings \X Nat)]
           first == [counts |-> [h \in Headings |-> 0], result |-> {}]
           body(at, i) == [counts |-> [at.counts EXCEPT ![lines[i]] = @ + 1],
                           result |-> at.result \cup {<<lines[i], at.counts[lines[i]]>>}]
           apply == [x \in State \X (1..n) |-> body(x[1], x[2])]
           whole(f) == [i \in 0..n |-> IF i = 0 THEN first ELSE body(f[i - 1], i)]
           loop == CHOOSE f : f = whole(f)
           before(i, h) == {k \in 1..i : lines[k] = h}
<1>1. n \in Nat /\ DOMAIN lines = 1..n /\ \A i \in 1..n : lines[i] \in Headings
  BY LenProperties, ElementOfSeq
<1>2. first \in State
  OBVIOUS
<1>3. \A at \in State, i \in 1..n : body(at, i) \in State
  BY <1>1
<1>4. apply \in [State \X (1..n) -> State]
  BY <1>3
<1>5. \E f : f = whole(f)
  <2>1. PICK f \in [0..n -> State] : f[0] = first /\ \A i \in 1..n : f[i] = apply[<<f[i - 1], i>>]
    <3>1. n \in Nat
      BY <1>1
    <3>2. apply \in Body(State, n)
      BY <1>4 DEF Body
    <3> HIDE DEF State, first, apply, n
    <3>3. PICK f : f \in Loop(State, first, n, apply)
      BY <3>1, <3>2, <1>2, LoopDefined
    <3> QED BY <3>3 DEF Loop
  <2>2. ASSUME NEW i \in 1..n PROVE f[i] = body(f[i - 1], i)
    <3>1. i - 1 \in 0..n
      BY <1>1
    <3>2. f[i - 1] \in State
      <4> HIDE DEF State, n
      <4> QED BY <3>1
    <3>3. <<f[i - 1], i>> \in State \X (1..n)
      BY <3>2
    <3>4. apply[<<f[i - 1], i>>] = body(f[i - 1], i)
      <4> HIDE DEF State, body, n
      <4> QED BY <3>3
    <3> HIDE DEF State, body, apply, n
    <3> QED BY <2>1, <3>4
  <2>3. f = whole(f)
    <3>1. ASSUME NEW i \in 0..n PROVE f[i] = whole(f)[i]
      <4>1. i = 0 \/ i \in 1..n
        BY <1>1
      <4> HIDE DEF State, first, apply, body, n
      <4> QED BY <1>1, <2>1, <2>2, <4>1
    <3> HIDE DEF State, first, apply, body, n
    <3> QED BY <3>1
  <2> QED BY <2>3
<1>6. loop = whole(loop)
  <2> HIDE DEF whole
  <2> QED BY <1>5
<1>7. Anchors(lines) = loop[n].result
  BY DEF Anchors
<1> HIDE DEF loop
<1>8. loop[0] = first /\ \A i \in 1..n : loop[i] = body(loop[i - 1], i)
  <2> HIDE DEF first, body
  <2> QED BY <1>1, <1>6
<1> DEFINE Counts(i) == [h \in Headings |-> Cardinality(before(i, h))]
           Result(i) == {<<lines[j], Cardinality(before(j - 1, lines[j]))>> : j \in 1..i}
           Good == {i \in 0..n : loop[i] = [counts |-> Counts(i), result |-> Result(i)]}
<1>9. \A i \in 0..n : i \in Good
  <2>1. 0 \in Good
    <3>1. \A h \in Headings : before(0, h) = {}
      OBVIOUS
    <3>2. Counts(0) = [h \in Headings |-> 0]
      BY <3>1, FS_EmptySet, Zenon
    <3>3. Result(0) = {}
      OBVIOUS
    <3>4. 0 \in 0..n
      BY <1>1
    <3> HIDE DEF Counts, Result, State, body, whole, n
    <3> QED BY <1>8, <3>2, <3>3, <3>4
  <2>2. ASSUME NEW i \in 1..n, i - 1 \in Good PROVE i \in Good
    <3>1. i \in 0..n /\ i - 1 \in 0..n /\ 1..i = (1..(i - 1)) \cup {i} /\ i \notin 1..(i - 1)
      BY <1>1
    <3>2. loop[i] = body([counts |-> Counts(i - 1), result |-> Result(i - 1)], i)
      <4> HIDE DEF Counts, Result, body
      <4> QED BY <1>8, <2>2
    <3>3. ASSUME NEW h \in Headings
          PROVE Cardinality(before(i, h)) = Cardinality(before(i - 1, h)) + (IF lines[i] = h THEN 1 ELSE 0)
      <4>1. IsFiniteSet(before(i - 1, h)) /\ i \notin before(i - 1, h)
        <5>1. IsFiniteSet(1..(i - 1))
          BY <3>1, FS_Interval, 1 \in Int, i - 1 \in Int, Zenon
        <5>2. before(i - 1, h) \subseteq 1..(i - 1)
          OBVIOUS
        <5> HIDE DEF before
        <5> QED BY <3>1, <5>1, <5>2, FS_Subset
      <4>2. Cardinality(before(i - 1, h)) \in Nat
        <5> HIDE DEF before
        <5> QED BY <4>1, FS_CardinalityType
      <4>3. CASE lines[i] = h
        <5>1. before(i, h) = before(i - 1, h) \cup {i}
          BY <3>1, <4>3
        <5>2. Cardinality(before(i - 1, h) \cup {i}) = Cardinality(before(i - 1, h)) + 1
          <6> HIDE DEF before
          <6> QED BY <4>1, FS_AddElement, Zenon
        <5> HIDE DEF before
        <5> QED BY <4>3, <5>1, <5>2
      <4>4. CASE lines[i] # h
        <5>1. before(i, h) = before(i - 1, h)
          BY <3>1, <4>4
        <5> HIDE DEF before
        <5> QED BY <4>2, <4>4, <5>1
      <4> QED BY <4>3, <4>4
    <3>4. \A h \in Headings : Cardinality(before(i - 1, h)) \in Nat
      <4> TAKE h \in Headings
      <4>1. IsFiniteSet(1..(i - 1))
        BY <3>1, FS_Interval, 1 \in Int, i - 1 \in Int, Zenon
      <4>2. before(i - 1, h) \subseteq 1..(i - 1)
        OBVIOUS
      <4> HIDE DEF before
      <4> QED BY <4>1, <4>2, FS_Subset, FS_CardinalityType
    <3> HIDE DEF before
    <3>5. [Counts(i - 1) EXCEPT ![lines[i]] = @ + 1] = Counts(i)
      BY <1>1, <3>3, <3>4
    <3>6. Result(i - 1) \cup {<<lines[i], Counts(i - 1)[lines[i]]>>} = Result(i)
      BY <1>1, <3>1
    <3>7. body([counts |-> Counts(i - 1), result |-> Result(i - 1)], i) = [counts |-> Counts(i), result |-> Result(i)]
      <4> HIDE DEF Counts, Result
      <4> QED BY <3>5, <3>6
    <3> HIDE DEF Counts, Result, body
    <3> QED BY <3>1, <3>2, <3>7
  <2> HIDE DEF Good
  <2> QED BY <1>1, <2>1, <2>2, UpTo
<1>10. loop[n].result = Result(n)
  <2>1. n \in 0..n
    BY <1>1
  <2>2. loop[n] = [counts |-> Counts(n), result |-> Result(n)]
    <3> HIDE DEF Counts, Result, State, body, whole, n
    <3> QED BY <1>9, <2>1
  <2> HIDE DEF Counts, Result, State, body, whole, n
  <2> QED BY <2>2
<1>11. Result(n) = Rendered(lines)
  BY <1>1 DEF Rendered
<1> QED BY <1>7, <1>10, <1>11

-----------------------------------------------------------------------------
Begun == {"maintain", "derivative_kernel_inventory"}
Revised == {"check_generated_cost", "check_report", "check_no_figures", "check_inventory"}

\* the files that the project changes between the checks
FilesTyped ==
  /\ lock \in [Locks -> 0..MaxRevision] /\ made \in [Sources -> 0..MaxRevision]
  /\ costed \subseteq Sources /\ exempt \subseteq Sources
  /\ \A s \in Sources : made[s] = 0 <=> s \in Foreign

\* a required document that is missing is noted with the links
Ran ==
  /\ exit \in {-1, 0, 1} /\ (exit # -1 <=> pc = "end")
  /\ missing \subseteq Required
  /\ errors \in BOOLEAN /\ faulty \in BOOLEAN
  /\ pc \in Begun => ~errors /\ ~faulty
  /\ pc \notin Begun \cup {"check_links"} /\ missing # {} => errors
  /\ exit = 0 => ~errors

\* a document out of order has been noted, and nothing else has
Told == ~Overlooked => IF exit = -1 THEN errors <=> faulty ELSE exit = 0 <=> ~faulty

\* what check_generated_revision looked at is in order
Checked == (pc \in Revised /\ ~errors) \/ exit = 0 => RevisionErrors = {}

DInv == KInv /\ FilesTyped /\ Ran /\ Told /\ Checked

-----------------------------------------------------------------------------
(* Before the checks run the project is in order.                           *)
LEMMA InOrder == InitDocuments => DInv
<1> SUFFICES ASSUME InitDocuments PROVE DInv
  OBVIOUS
<1>1. KInv
  BY Begins DEF InitDocuments
<1>2. FilesTyped
  BY GeneratedAssumption DEF InitDocuments, InitGenerated, FilesTyped, Locks
<1>3. /\ pc \in Begun /\ ~errors /\ ~faulty /\ exit = -1
      /\ missing \subseteq Required
  BY DEF InitDocuments, Begun
<1>4. errors \in BOOLEAN /\ faulty \in BOOLEAN
  BY Zenon DEF InitDocuments
<1>5. Ran
  BY <1>3, <1>4 DEF Ran, Begun
<1>6. Told /\ Checked
  BY <1>3 DEF Told, Checked, Begun, Revised
<1> QED
  BY <1>1, <1>2, <1>5, <1>6 DEF DInv

(* Whatever the project changes, the sources that fortad wrote, and no      *)
(* others, have no revision of fortsym.                                     *)
LEMMA Change_Kept ==
  ASSUME DInv, Change
  PROVE  DInv'
<1> USE DEF DInv, Change, At
<1>1. KInv'
  BY Kernels_Kept
<1>2. FilesTyped'
  <2>1. ASSUME NEW l \in Locks, Relock(l) PROVE FilesTyped'
    BY <2>1 DEF FilesTyped, Relock
  <2>2. ASSUME NEW anew \in SUBSET Sources, Regenerate(anew) PROVE FilesTyped'
    <3>1. \A s \in Sources : LockOf(s) \in Locks
      BY DEF LockOf, Locks
    <3>2. made' \in [Sources -> 0..MaxRevision] /\ \A s \in Sources : made'[s] = 0 <=> s \in Foreign
      BY <2>2, <3>1 DEF FilesTyped, Regenerate
    <3> QED BY <2>2, <3>2 DEF FilesTyped, Regenerate
  <2>3. ASSUME NEW s \in Sources, Garble(s) \/ Reclassify(s) PROVE FilesTyped'
    BY <2>3 DEF FilesTyped, Garble, Reclassify
  <2>4. CASE RemoveGenerator
    BY <2>4 DEF FilesTyped, RemoveGenerator
  <2> QED BY <2>1, <2>2, <2>3, <2>4 DEF Maintain
<1>3. /\ pc' = pc /\ pc = "maintain"
      /\ UNCHANGED <<missing, errors, faulty, exit>>
  OBVIOUS
<1>4. Ran'
  BY <1>3 DEF Ran
<1>5. ~errors' /\ ~faulty' /\ exit' = -1
  BY <1>3 DEF Ran, Begun
<1>6. Told' /\ Checked'
  BY <1>3, <1>5 DEF Told, Checked, Revised
<1> QED
  BY <1>1, <1>2, <1>4, <1>6

(* The checks begin on the files as they are then.                          *)
LEMMA Start_Kept ==
  ASSUME DInv, Start
  PROVE  DInv'
<1> USE DEF DInv, Start, Then
<1>1. KInv'
  BY Kernels_Kept
<1>2. FilesTyped'
  BY DEF FilesTyped, generatedVars
<1>3. /\ pc = "maintain" /\ pc' = "check_links"
      /\ UNCHANGED <<missing, errors, faulty, exit, generatedVars>>
  OBVIOUS
<1>4. ~errors /\ ~faulty /\ exit = -1 /\ errors \in BOOLEAN /\ faulty \in BOOLEAN /\ missing \subseteq Required
  BY <1>3 DEF Ran, Begun
<1>5. Ran'
  BY <1>3, <1>4 DEF Ran, Begun
<1>6. Told' /\ Checked'
  BY <1>3, <1>4 DEF Told, Checked, Revised
<1> QED
  BY <1>1, <1>2, <1>5, <1>6

(* A check that looks at one more document: it moves on or does not, and    *)
(* what it notes is a fault unless the fault is one that is overlooked.     *)
LEMMA Noted_Kept ==
  ASSUME DInv, NEW error, NEW fault, Noted(error, fault),
         pc \notin Begun \cup {"end"}, pc' \notin Begun \cup {"end"},
         pc = "check_links" /\ pc' # "check_links" /\ missing # {} => error,
         pc' = "check_links" => pc = "check_links",
         ~Overlooked => (error <=> fault),
         pc \notin Revised /\ pc' \in Revised => (error <=> RevisionErrors # {})
  PROVE  DInv'
<1> USE DEF DInv
<1>1. /\ errors' = (errors \/ error) /\ faulty' = (faulty \/ fault)
      /\ UNCHANGED <<missing, exit>>
      /\ UNCHANGED generatedVars /\ UNCHANGED kernelVars
  BY DEF Noted, Unread
<1>2. KInv'
  BY <1>1, Kernels_Kept
<1>3. FilesTyped' /\ (Overlooked' <=> Overlooked) /\ RevisionErrors' = RevisionErrors
  BY <1>1 DEF FilesTyped, generatedVars, Overlooked, Drifted, RevisionErrors, LocksRead,
              Expected, LockOf
<1>4. /\ errors' \in BOOLEAN /\ faulty' \in BOOLEAN
      /\ errors' <=> errors \/ error
      /\ faulty' <=> faulty \/ fault
  BY <1>1, Zenon
<1>5. exit = -1 /\ exit' = -1
  BY <1>1 DEF Ran
<1>6. pc' # "check_links" /\ missing # {} => errors'
  <2>1. pc # "check_links" /\ missing # {} => errors
    BY DEF Ran
  <2> QED BY <1>4, <2>1, Zenon
<1>7. Ran'
  <2>1. UNCHANGED <<missing, exit>>
    BY <1>1
  <2> QED BY <2>1, <1>4, <1>5, <1>6 DEF Ran
<1>8. Told'
  <2>1. ~Overlooked => (errors <=> faulty)
    BY <1>5 DEF Told
  <2>2. ~Overlooked => (errors' <=> faulty')
    BY <1>4, <2>1, Zenon
  <2> QED BY <1>3, <1>5, <2>2 DEF Told
<1>9. Checked'
  <2>1. pc \in Revised /\ ~errors => RevisionErrors = {}
    BY DEF Checked
  <2>2. pc' \in Revised /\ ~errors' => RevisionErrors = {}
    BY <1>4, <2>1, Zenon
  <2> QED BY <1>3, <1>5, <2>2 DEF Checked
<1> QED
  BY <1>2, <1>3, <1>7, <1>8, <1>9

(* check_links follows the fragments that the rendered document has.        *)
LEMMA Links ==
  ASSUME NEW v \in LinkVerdicts
  PROVE  v.error <=> v.fault
<1> DEFINE Dangles(link, lines) ==
             \/ link.to = "nowhere"
             \/ link.to = "document" /\ link.fragment \notin Rendered(lines) \cup {<<>>}
<1>1. PICK link \in Link, lines \in UNION {[1..n -> Headings] : n \in 0..MaxLength} :
        v = [error |-> LinkBroken(link, lines), fault |-> Dangles(link, lines)]
  BY DEF LinkVerdicts
<1>2. lines \in Seq(Headings)
  <2>1. PICK n \in 0..MaxLength : lines \in [1..n -> Headings]
    OBVIOUS
  <2>2. n \in Nat
    BY DocumentationAssumption
  <2> QED BY <2>1, <2>2, SeqDef
<1>3. Anchors(lines) = Rendered(lines)
  BY <1>2, AnchorsRendered
<1>4. LinkBroken(link, lines) <=> Dangles(link, lines)
  BY <1>3 DEF LinkBroken
<1>5. v.error = LinkBroken(link, lines) /\ v.fault = Dangles(link, lines)
  <2> HIDE DEF Dangles
  <2> QED BY <1>1, Zenon
<1> HIDE DEF Dangles
<1> QED
  BY <1>4, <1>5, Zenon

(* check_generated_revision notes what is not of the revision in its lock,  *)
(* sources without a revision that are not exempt included, up to what is   *)
(* overlooked.                                                              *)
LEMMA Revisions ==
  ASSUME FilesTyped, ~Overlooked
  PROVE  RevisionErrors # {} <=>
           Drifted # {} \/ lock["rk54"] = 0 \/ lock["fortsym"] = 0 \/ Misclassified # {}
<1> USE DEF FilesTyped, Overlooked, Drifted, Expected
<1>1. CASE ~LocksRead
  BY <1>1 DEF RevisionErrors, LocksRead
<1>2. CASE LocksRead
  <2>1. RevisionErrors = {s \in Sources \ (Cuda \cup exempt) : Expected(s) = 0 \/ made[s] # Expected(s)}
    BY <1>2 DEF RevisionErrors
  <2>2. ASSUME NEW s \in RevisionErrors PROVE Drifted # {} \/ Misclassified # {}
    <3>1. s \in Sources \ exempt /\ (lock[LockOf(s)] = 0 \/ made[s] # lock[LockOf(s)])
      BY <2>1
    <3>2. CASE s \in Foreign
      BY <3>1, <3>2 DEF Misclassified
    <3>3. CASE s \notin Foreign
      BY <3>1, <3>3
    <3> QED BY <3>2, <3>3
  <2>3. ASSUME NEW s \in Drifted PROVE s \in RevisionErrors
    BY <2>1
  <2>4. ASSUME NEW s \in Misclassified PROVE s \in RevisionErrors
    <3>1. s \in Foreign \ exempt /\ s \in Sources /\ s \notin Cuda /\ made[s] = 0
      BY GeneratedAssumption DEF Misclassified
    <3> QED BY <2>1, <3>1
  <2> QED BY <1>2, <2>2, <2>3, <2>4 DEF LocksRead
<1> QED
  BY <1>1, <1>2

(* check_generated_cost notes each source without a cost block whose        *)
(* generator is there, up to what is overlooked.                            *)
LEMMA Costs ==
  ASSUME ~Overlooked
  PROVE  CostErrors # {} <=> \E s \in Sources \ (Foreign \cup costed) : Regenerable(s)
BY DEF Overlooked, CostErrors, Regenerable

(* An exception ends the script; what is missing has been noted by then.    *)
LEMMA Raised_Kept ==
  ASSUME DInv, MapAbsent \/ TermsUnread
  PROVE  DInv'
<1> USE DEF DInv
<1>1. /\ Raise(TRUE) \/ Raise(FALSE)
      /\ pc \in {"check_docs_map", "check_terminology"}
      /\ Raise(TRUE) \/ missing # {}
  BY DEF MapAbsent, TermsUnread
<1>2. /\ pc' = "end" /\ exit' = 1
      /\ UNCHANGED <<missing, errors>>
      /\ UNCHANGED generatedVars /\ UNCHANGED kernelVars
  BY <1>1 DEF Raise
<1>3. KInv'
  BY <1>2, Kernels_Kept
<1>4. FilesTyped' /\ (Overlooked' <=> Overlooked)
  BY <1>2 DEF FilesTyped, generatedVars, Overlooked, Drifted, LockOf
<1>5. exit = -1 /\ (missing # {} => errors)
  BY <1>1 DEF Ran, Begun
<1>6. faulty' \in BOOLEAN /\ (Raise(TRUE) => faulty') /\ (faulty => faulty')
  BY <1>1, Zenon DEF Raise
<1>7. Ran'
  BY <1>2, <1>5, <1>6 DEF Ran, Begun
<1>8. ~Overlooked => faulty'
  BY <1>1, <1>5, <1>6 DEF Told
<1>9. Told' /\ Checked'
  BY <1>2, <1>4, <1>8 DEF Told, Checked, Revised
<1> QED
  BY <1>3, <1>4, <1>7, <1>9

(* The last check and the end of main: the exit code follows the errors.    *)
LEMMA Ended_Kept ==
  ASSUME DInv, CheckInventory
  PROVE  DInv'
<1> USE DEF DInv
<1>1. PICK owned \in BOOLEAN :
        /\ errors' = (errors \/ ~owned) /\ faulty' = (faulty \/ ~owned)
        /\ pc = "check_inventory" /\ pc' = "end" /\ exit' = (IF errors' THEN 1 ELSE 0)
        /\ UNCHANGED <<missing>>
        /\ UNCHANGED generatedVars /\ UNCHANGED kernelVars
  BY DEF CheckInventory, Then
<1>2. KInv'
  BY <1>1, Kernels_Kept
<1>3. FilesTyped' /\ (Overlooked' <=> Overlooked) /\ RevisionErrors' = RevisionErrors
  BY <1>1 DEF FilesTyped, generatedVars, Overlooked, Drifted, RevisionErrors, LocksRead,
              Expected, LockOf
<1>4. exit = -1 /\ errors \in BOOLEAN /\ faulty \in BOOLEAN
  BY <1>1 DEF Ran
<1>5. errors' \in BOOLEAN /\ faulty' \in BOOLEAN
  BY <1>1, Zenon
<1>6. Ran'
  BY <1>1, <1>4, <1>5 DEF Ran, Begun
<1>7. Told' /\ Checked'
  BY <1>1, <1>3, <1>4, <1>5 DEF Told, Checked, Revised
<1> QED
  BY <1>2, <1>3, <1>6, <1>7

(* The inventory run on its own leaves the other scripts where they were.   *)
LEMMA Alone_Kept ==
  ASSUME DInv, UNCHANGED docVars, UNCHANGED generatedVars, [NextKernels]_kernelVars
  PROVE  DInv'
<1>1. KInv'
  BY Kernels_Kept DEF DInv
<1>2. FilesTyped' /\ Ran' /\ Told' /\ Checked'
  BY DEF DInv, docVars, generatedVars, FilesTyped, Ran, Told, Checked, Overlooked, Drifted,
         RevisionErrors, LocksRead, Expected, LockOf
<1> QED
  BY <1>1, <1>2 DEF DInv

(* The checks of links, documents and names note what they were shown.      *)
LEMMA Texts_Kept ==
  ASSUME DInv, \/ CheckLink \/ LinksChecked \/ CheckDocsMap \/ CheckModule
               \/ CheckSymbol \/ ApiChecked \/ CheckTerms \/ TermsChecked
  PROVE  DInv'
<1> USE DEF At, Then, Begun, Revised
<1>1. CASE CheckLink
  <2>1. PICK v \in LinkVerdicts : Noted(v.error, v.fault)
    BY <1>1 DEF CheckLink
  <2>2. pc = "check_links" /\ pc' = pc
    BY <1>1 DEF CheckLink
  <2>3. v.error <=> v.fault
    BY Links
  <2> DEFINE e == v.error
             f == v.fault
  <2>4. Noted(e, f) /\ (e <=> f)
    BY <2>1, <2>3
  <2> HIDE DEF e, f
  <2> QED BY <2>2, <2>4, Noted_Kept
<1>2. CASE LinksChecked
  BY <1>2, Noted_Kept DEF LinksChecked
<1>3. CASE CheckDocsMap
  <2>1. PICK linked \in SUBSET (Documents \cup {"elsewhere"}) :
          Noted(Documents \ linked # {}, \E d \in Documents : d \notin linked)
    BY <1>3 DEF CheckDocsMap
  <2>2. Documents \ linked # {} <=> \E d \in Documents : d \notin linked
    OBVIOUS
  <2>3. pc = "check_docs_map" /\ pc' = "check_api"
    BY <1>3 DEF CheckDocsMap
  <2> QED BY <2>1, <2>2, <2>3, Noted_Kept
<1>4. CASE CheckModule \/ CheckSymbol
  <2>1. PICK e \in BOOLEAN : Noted(e, e)
    <3>1. CASE CheckModule
      BY <3>1 DEF CheckModule
    <3>2. CASE CheckSymbol
      BY <3>2 DEF CheckSymbol
    <3> QED BY <1>4, <3>1, <3>2
  <2>2. pc = "check_api" /\ pc' = pc
    BY <1>4 DEF CheckModule, CheckSymbol
  <2> QED BY <2>1, <2>2, Noted_Kept
<1>5. CASE ApiChecked
  BY <1>5, Noted_Kept DEF ApiChecked
<1>6. CASE CheckTerms
  <2>1. PICK d \in Required \cup Documents, legacy \in BOOLEAN :
          Noted(d # Roadmap /\ legacy, d # Roadmap /\ legacy)
    BY <1>6 DEF CheckTerms
  <2>2. pc = "check_terminology" /\ pc' = pc
    BY <1>6 DEF CheckTerms
  <2> QED BY <2>1, <2>2, Noted_Kept
<1>7. CASE TermsChecked
  BY <1>7, Noted_Kept DEF TermsChecked
<1> QED
  BY <1>1, <1>2, <1>3, <1>4, <1>5, <1>6, <1>7

(* The checks of the generated sources and of the report note what they     *)
(* were shown, and those of the sources all that was to be noted, unless it *)
(* is overlooked.                                                           *)
LEMMA Sources_Kept ==
  ASSUME DInv, CheckRevision \/ CheckCost \/ CheckReport \/ CheckFigures
  PROVE  DInv'
<1> USE DEF At, Then, Begun, Revised
<1>1. CASE CheckRevision
  <2>1. FilesTyped
    BY DEF DInv
  <2> QED BY <1>1, <2>1, Revisions, Noted_Kept DEF CheckRevision
<1>2. CASE CheckCost
  BY <1>2, Costs, Noted_Kept DEF CheckCost
<1>3. CASE CheckReport
  <2>1. PICK e \in ReportVerdicts : Noted(e, e)
    BY <1>3 DEF CheckReport
  <2>2. pc = "check_report" /\ pc' = "check_no_figures"
    BY <1>3 DEF CheckReport
  <2> QED BY <2>1, <2>2, Noted_Kept
<1>4. CASE CheckFigures
  <2>1. PICK e \in BOOLEAN : Noted(e, e)
    BY <1>4 DEF CheckFigures
  <2>2. pc = "check_no_figures" /\ pc' = "check_inventory"
    BY <1>4 DEF CheckFigures
  <2> QED BY <2>1, <2>2, Noted_Kept
<1> QED
  BY <1>1, <1>2, <1>3, <1>4

(* At every point of the checks the list of errors stands for the faults    *)
(* that they were shown.                                                    *)
THEOREM Invariant == DocumentationSpec => []DInv
<1>1. DInv /\ [NextDocuments]_documentationVars => DInv'
  <2> SUFFICES ASSUME DInv, [NextDocuments]_documentationVars PROVE DInv'
    OBVIOUS
  <2>1. CASE Change
    BY <2>1, Change_Kept
  <2>2. CASE Start
    BY <2>2, Start_Kept
  <2>3. CASE \/ CheckLink \/ LinksChecked \/ CheckDocsMap \/ CheckModule
             \/ CheckSymbol \/ ApiChecked \/ CheckTerms \/ TermsChecked
    BY <2>3, Texts_Kept
  <2>4. CASE CheckRevision \/ CheckCost \/ CheckReport \/ CheckFigures
    BY <2>4, Sources_Kept
  <2>5. CASE MapAbsent \/ TermsUnread
    BY <2>5, Raised_Kept
  <2>6. CASE CheckInventory
    BY <2>6, Ended_Kept
  <2>7. CASE Inventory
    BY <2>7, Alone_Kept DEF Inventory, docVars, At
  <2>8. CASE UNCHANGED documentationVars
    BY <2>8, Alone_Kept DEF documentationVars
  <2> QED
    BY <2>1, <2>2, <2>3, <2>4, <2>5, <2>6, <2>7, <2>8 DEF NextDocuments
<1> QED
  BY <1>1, InOrder, PTL DEF DocumentationSpec

(* Unless a fault is overlooked, check_documentation ends with exit code 0  *)
(* exactly when nothing that it was shown is out of order, whichever of the *)
(* checks returned early or raised, for any number of documents, links,     *)
(* sources and edits.                                                       *)
THEOREM ExitCode == DocumentationSpec => []ExitTellsDrift
<1>1. DInv => ExitTellsDrift
  <2> SUFFICES ASSUME DInv PROVE ExitTellsDrift
    OBVIOUS
  <2> USE DEF DInv
  <2>1. exit = 0 => ~errors /\ missing = {}
    BY DEF Ran, Begun
  <2>2. DocumentationTypeOK
    BY <2>1 DEF DocumentationTypeOK, KInv, FilesTyped, Ran
  <2> QED BY <2>2 DEF Told, ExitTellsDrift
<1> QED
  BY <1>1, Invariant, PTL

(* The inventory check keeps its promise in the project's test run too.     *)
THEOREM Owned == DocumentationSpec => []OwnedOnce
<1>1. DInv => OwnedOnce
  BY DEF DInv, KInv
<1> QED
  BY <1>1, Invariant, PTL

(* What check_documentation does tell of "generator-lock drift": when it    *)
(* ends with exit code 0 and the inventory tells fortad's sources from      *)
(* fortsym's, only CUDA sources may be of another revision than their lock. *)
THEOREM DriftIsCuda == DocumentationSpec => [](exit = 0 /\ exempt = Foreign => Drifted \subseteq Cuda)
<1>1. DInv => (exit = 0 /\ exempt = Foreign => Drifted \subseteq Cuda)
  <2> SUFFICES ASSUME DInv, exit = 0, exempt = Foreign, NEW s \in Drifted PROVE s \in Cuda
    OBVIOUS
  <2>1. RevisionErrors = {}
    BY DEF DInv, Checked
  <2>2. LocksRead
    BY <2>1 DEF RevisionErrors
  <2>3. s \in Sources \ exempt /\ made[s] # Expected(s)
    BY DEF Drifted, Expected
  <2> QED BY <2>1, <2>2, <2>3 DEF RevisionErrors
<1> QED
  BY <1>1, Invariant, PTL

-----------------------------------------------------------------------------
(* The source scanners.                                                    *)

(* parse_api_md names what api.md documents: by induction over the lines,   *)
(* in_code is the parity of the fences before a line.                       *)
LEMMA ApiRead ==
  ASSUME NEW lines \in Seq(ApiKinds)
  PROVE  ParseApi(lines) = Documented(lines)
<1> DEFINE n == Len(lines)
           State == [in_code : BOOLEAN, documented : SUBSET {"a"}]
           first == [in_code |-> FALSE, documented |-> {}]
           body(at, i) == IF lines[i] = "fence"
                          THEN [in_code |-> ~at.in_code, documented |-> at.documented]
                          ELSE IF lines[i] = "ticked" \/ (lines[i] = "signature") = at.in_code
                               THEN [in_code |-> at.in_code, documented |-> {"a"}]
                               ELSE at
           apply == [x \in State \X (1..n) |-> body(x[1], x[2])]
           whole(f) == [i \in 0..n |-> IF i = 0 THEN first ELSE body(f[i - 1], i)]
           loop == CHOOSE f : f = whole(f)
<1>1. n \in Nat /\ DOMAIN lines = 1..n /\ \A i \in 1..n : lines[i] \in ApiKinds
  BY LenProperties, ElementOfSeq
<1>2. first \in State
  OBVIOUS
<1>3. \A at \in State, i \in 1..n : body(at, i) \in State
  OBVIOUS
<1>4. apply \in [State \X (1..n) -> State]
  <2> HIDE DEF State, body, n
  <2> QED BY <1>3
<1>5. \E f : f = whole(f)
  <2>1. PICK f \in [0..n -> State] : f[0] = first /\ \A i \in 1..n : f[i] = apply[<<f[i - 1], i>>]
    <3>1. n \in Nat
      BY <1>1
    <3>2. apply \in Body(State, n)
      BY <1>4 DEF Body
    <3> HIDE DEF State, first, apply, n
    <3>3. PICK f : f \in Loop(State, first, n, apply)
      BY <3>1, <3>2, <1>2, LoopDefined
    <3> QED BY <3>3 DEF Loop
  <2>2. ASSUME NEW i \in 1..n PROVE f[i] = body(f[i - 1], i)
    <3>1. i - 1 \in 0..n
      BY <1>1
    <3>2. f[i - 1] \in State
      <4> HIDE DEF State, n
      <4> QED BY <3>1
    <3>3. <<f[i - 1], i>> \in State \X (1..n)
      BY <3>2
    <3>4. apply[<<f[i - 1], i>>] = body(f[i - 1], i)
      <4> HIDE DEF State, body, n
      <4> QED BY <3>3
    <3> HIDE DEF State, body, apply, n
    <3> QED BY <2>1, <3>4
  <2>3. f = whole(f)
    <3>1. ASSUME NEW i \in 0..n PROVE f[i] = whole(f)[i]
      <4>1. i = 0 \/ i \in 1..n
        BY <1>1
      <4> HIDE DEF State, first, apply, body, n
      <4> QED BY <1>1, <2>1, <2>2, <4>1
    <3> HIDE DEF State, first, apply, body, n
    <3> QED BY <3>1
  <2> QED BY <2>3
<1>6. loop = whole(loop)
  <2> HIDE DEF whole
  <2> QED BY <1>5
<1>7. ParseApi(lines) = loop[n].documented
  BY DEF ParseApi
<1> HIDE DEF loop
<1>8. loop[0] = first /\ \A i \in 1..n : loop[i] = body(loop[i - 1], i)
  <2> HIDE DEF first, body
  <2> QED BY <1>1, <1>6
<1> DEFINE Fences(i) == {k \in 1..i : lines[k] = "fence"}
           Odd(i) == Cardinality(Fences(i)) % 2 = 1
           InBlock(i) == Odd(i - 1)
           Tells(i) == \/ lines[i] = "ticked"
                       \/ lines[i] = "heading" /\ ~InBlock(i)
                       \/ lines[i] = "signature" /\ InBlock(i)
           Found(i) == {m \in {"a"} : \E j \in 1..i : Tells(j)}
           Good == {i \in 0..n : /\ loop[i] \in State
                                 /\ loop[i].in_code <=> Odd(i)
                                 /\ loop[i].documented = Found(i)}
<1>9. \A i \in 0..n : i \in Good
  <2>1. 0 \in Good
    <3>1. Fences(0) = {}
      OBVIOUS
    <3>2. ~Odd(0)
      <4>1. Cardinality(Fences(0)) = 0
        BY <3>1, FS_EmptySet, Zenon
      <4>2. 0 % 2 = 0
        OBVIOUS
      <4> HIDE DEF Fences
      <4> QED BY <4>1, <4>2
    <3>3. Found(0) = {}
      OBVIOUS
    <3>4. 0 \in 0..n
      BY <1>1
    <3>5. loop[0].in_code = FALSE /\ loop[0].documented = {}
      BY <1>8
    <3> HIDE DEF Found, Odd, State, first, body, n
    <3> QED BY <1>2, <1>8, <3>2, <3>3, <3>4, <3>5
  <2>2. ASSUME NEW i \in 1..n, i - 1 \in Good PROVE i \in Good
    <3>1. i \in 0..n /\ i \in Nat /\ i - 1 \in 0..n
      BY <1>1
    <3>2. loop[i] = body(loop[i - 1], i) /\ loop[i - 1] \in State
      <4> HIDE DEF body, State, Odd, Found
      <4> QED BY <1>8, <2>2
    <3>3. loop[i] \in State
      <4> HIDE DEF body, State
      <4> QED BY <1>3, <3>2
    <3>4. (loop[i - 1].in_code <=> Odd(i - 1)) /\ loop[i - 1].documented = Found(i - 1)
      <4> HIDE DEF body, State, Odd, Found
      <4> QED BY <2>2, <3>1
    <3>5. Odd(i) <=> IF lines[i] = "fence" THEN ~Odd(i - 1) ELSE Odd(i - 1)
      <4>1. IsFiniteSet(Fences(i - 1)) /\ i \notin Fences(i - 1)
        <5>1. IsFiniteSet(1..(i - 1))
          BY <3>1, FS_Interval, 1 \in Int, i - 1 \in Int, Zenon
        <5>2. Fences(i - 1) \subseteq 1..(i - 1) /\ i \notin 1..(i - 1)
          BY <3>1
        <5> HIDE DEF Fences
        <5> QED BY <5>1, <5>2, FS_Subset
      <4>2. Cardinality(Fences(i - 1)) \in Nat
        <5> HIDE DEF Fences
        <5> QED BY <4>1, FS_CardinalityType
      <4>3. CASE lines[i] = "fence"
        <5>1. Fences(i) = Fences(i - 1) \cup {i}
          BY <3>1, <4>3
        <5>2. Cardinality(Fences(i - 1) \cup {i}) = Cardinality(Fences(i - 1)) + 1
          <6> HIDE DEF Fences
          <6> QED BY <4>1, FS_AddElement, Zenon
        <5>3. \A c \in Nat : (c + 1) % 2 = 1 <=> ~(c % 2 = 1)
          OBVIOUS
        <5> HIDE DEF Fences
        <5> QED BY <4>2, <4>3, <5>1, <5>2, <5>3
      <4>4. CASE lines[i] # "fence"
        <5>1. Fences(i) = Fences(i - 1)
          BY <3>1, <4>4
        <5> HIDE DEF Fences
        <5> QED BY <4>4, <5>1
      <4> QED BY <4>3, <4>4
    <3>6. Found(i) = IF Tells(i) THEN {"a"} ELSE Found(i - 1)
      <4>1. 1..i = (1..(i - 1)) \cup {i}
        BY <3>1
      <4> HIDE DEF Tells
      <4> QED BY <4>1
    <3>7. lines[i] \in {"fence", "ticked", "heading", "signature"}
      BY <1>1 DEF ApiKinds
    <3>8. loop[i].in_code <=> Odd(i)
      <4>1. CASE lines[i] = "fence"
        <5>1. loop[i].in_code = ~loop[i - 1].in_code
          <6>1. loop[i] = [in_code |-> ~loop[i - 1].in_code, documented |-> loop[i - 1].documented]
            BY <3>2, <4>1, Zenon
          <6>2. \A x, y, z : z = [in_code |-> x, documented |-> y] => z.in_code = x
            OBVIOUS
          <6> HIDE DEF State, body
          <6> QED BY <6>1, <6>2, Zenon
        <5> HIDE DEF Odd, State, body
        <5> QED BY <3>4, <3>5, <4>1, <5>1, Zenon
      <4>2. CASE lines[i] # "fence"
        <5>1. loop[i].in_code = loop[i - 1].in_code
          BY <3>2, <4>2
        <5> HIDE DEF Odd, State, body
        <5> QED BY <3>4, <3>5, <4>2, <5>1, Zenon
      <4> QED BY <4>1, <4>2
    <3>9. loop[i].documented = Found(i)
      <4> HIDE DEF Odd, Found
      <4> QED BY <3>2, <3>4, <3>6, <3>7
    <3> HIDE DEF State, Odd, Found
    <3> QED BY <3>1, <3>3, <3>8, <3>9
  <2> HIDE DEF Good
  <2> QED BY <1>1, <2>1, <2>2, UpTo
<1>10. loop[n].documented = Found(n)
  <2>1. n \in 0..n
    BY <1>1
  <2> HIDE DEF Found, Odd, State, n
  <2> QED BY <1>9, <2>1
<1>11. Found(n) = Documented(lines)
  BY <1>1 DEF Documented
<1> QED BY <1>7, <1>10, <1>11

-----------------------------------------------------------------------------
Scopes == {"module", "type", "interface", "procedure", "contains"}

\* the interfaces among scopes, and how many they are
Interfaces(p) == {i \in DOMAIN p : p[i] = "interface"}
Open(p) == Cardinality(Interfaces(p))

\* modules are not nested
Nested(p) ==
  /\ p \in Seq(Scopes) /\ Len(p) <= MaxDepth
  /\ \A i \in DOMAIN p : p[i] \in {"module", "contains"} <=> i = 1

(* There are no more interfaces than scopes, and none is known by its       *)
(* absence.                                                                 *)
LEMMA Opened ==
  ASSUME NEW p, Nested(p)
  PROVE  /\ DOMAIN p = 1..Len(p) /\ Len(p) \in Nat
         /\ IsFiniteSet(Interfaces(p)) /\ Open(p) \in Nat /\ Open(p) <= Len(p)
         /\ Open(p) = 0 <=> \A i \in DOMAIN p : p[i] # "interface"
<1>1. Len(p) \in Nat /\ DOMAIN p = 1..Len(p)
  BY LenProperties DEF Nested
<1>2. IsFiniteSet(1..Len(p)) /\ Cardinality(1..Len(p)) = Len(p)
  <2>1. 1 \in Int /\ Len(p) \in Int
    BY <1>1
  <2>2. /\ IsFiniteSet(1..Len(p))
        /\ Cardinality(1..Len(p)) = IF 1 > Len(p) THEN 0 ELSE Len(p) - 1 + 1
    BY <2>1, FS_Interval, Zenon
  <2> QED BY <1>1, <2>2
<1>3. Interfaces(p) \subseteq 1..Len(p)
  BY <1>1 DEF Interfaces
<1>4. IsFiniteSet(Interfaces(p)) /\ Open(p) <= Len(p)
  BY <1>2, <1>3, FS_Subset DEF Open
<1>5. Open(p) \in Nat
  BY <1>4, FS_CardinalityType DEF Open
<1>6. Open(p) = 0 <=> Interfaces(p) = {}
  BY <1>4, FS_EmptySet DEF Open
<1>7. Interfaces(p) = {} <=> \A i \in DOMAIN p : p[i] # "interface"
  BY DEF Interfaces
<1> QED
  BY <1>1, <1>4, <1>5, <1>6, <1>7

(* A scope is entered.                                                      *)
LEMMA Entering ==
  ASSUME NEW p, Nested(p), p # <<>>, NEW s \in {"type", "interface", "procedure"}, Len(p) < MaxDepth
  PROVE  /\ Nested(Append(p, s)) /\ Append(p, s) # <<>>
         /\ Open(Append(p, s)) = Open(p) + (IF s = "interface" THEN 1 ELSE 0)
         /\ DOMAIN Append(p, s) = DOMAIN p \cup {Len(p) + 1} /\ Append(p, s)[Len(p) + 1] = s
         /\ \A i \in DOMAIN p : Append(p, s)[i] = p[i]
<1>1. p \in Seq(Scopes) /\ Len(p) \in Nat /\ DOMAIN p = 1..Len(p) /\ s \in Scopes /\ Len(p) # 0
  <2>1. p \in Seq(Scopes) /\ s \in Scopes
    BY DEF Nested, Scopes
  <2> QED BY <2>1, Opened, EmptySeq
<1> DEFINE q == Append(p, s)
<1>2. /\ q \in Seq(Scopes) /\ Len(q) = Len(p) + 1
      /\ \A i \in 1..Len(p) : q[i] = p[i]
      /\ q[Len(p) + 1] = s
  BY <1>1, AppendProperties
<1> HIDE DEF q
<1>3. DOMAIN q = DOMAIN p \cup {Len(p) + 1} /\ q # <<>>
  <2>1. DOMAIN q = 1..(Len(p) + 1)
    BY <1>1, <1>2, LenProperties
  <2> QED BY <1>1, <2>1
<1>4. Len(p) + 1 \notin DOMAIN p /\ Len(p) + 1 <= MaxDepth
  BY <1>1, ScanAssumption
<1>5. Nested(q)
  <2>1. \A i \in DOMAIN q : q[i] \in {"module", "contains"} <=> i = 1
    <3> SUFFICES ASSUME NEW i \in DOMAIN q PROVE q[i] \in {"module", "contains"} <=> i = 1
      OBVIOUS
    <3>1. CASE i \in DOMAIN p
      BY <1>1, <1>2, <3>1 DEF Nested
    <3>2. CASE i = Len(p) + 1
      BY <1>1, <1>2, <3>2
    <3> QED BY <1>3, <3>1, <3>2
  <2> QED BY <1>2, <1>4, <2>1 DEF Nested
<1>6. Open(q) = Open(p) + (IF s = "interface" THEN 1 ELSE 0)
  <2>1. IsFiniteSet(Interfaces(p)) /\ Open(p) \in Nat /\ Len(p) + 1 \notin Interfaces(p)
    BY <1>4, Opened DEF Interfaces
  <2>2. CASE s = "interface"
    <3>1. Interfaces(q) = Interfaces(p) \cup {Len(p) + 1}
      BY <1>1, <1>2, <1>3, <2>2 DEF Interfaces
    <3>2. Cardinality(Interfaces(p) \cup {Len(p) + 1}) = Cardinality(Interfaces(p)) + 1
      BY <2>1, FS_AddElement, Zenon
    <3> QED BY <2>2, <3>1, <3>2 DEF Open
  <2>3. CASE s # "interface"
    <3>1. Interfaces(q) = Interfaces(p)
      BY <1>1, <1>2, <1>3, <2>3 DEF Interfaces
    <3> QED BY <2>1, <2>3, <3>1 DEF Open
  <2> QED BY <2>2, <2>3
<1> QED
  BY <1>1, <1>2, <1>3, <1>5, <1>6 DEF q

(* A scope is left.                                                         *)
LEMMA Leaving ==
  ASSUME NEW p, Nested(p), p # <<>>, Last(p) \in {"type", "interface", "procedure"}
  PROVE  /\ Nested(Front(p)) /\ Front(p) # <<>>
         /\ Open(p) = Open(Front(p)) + (IF Last(p) = "interface" THEN 1 ELSE 0)
         /\ \A i \in DOMAIN Front(p) : i \in DOMAIN p /\ Front(p)[i] = p[i]
<1>1. p \in Seq(Scopes) /\ Len(p) \in Nat /\ DOMAIN p = 1..Len(p) /\ Len(p) # 0
  <2>1. p \in Seq(Scopes)
    BY DEF Nested
  <2> QED BY <2>1, Opened, EmptySeq
<1> DEFINE n == Len(p)
           q == Front(p)
<1>2. p[n] \in {"type", "interface", "procedure"} /\ Last(p) = p[n] /\ n \in 2..n
  <2>1. p[n] \in {"type", "interface", "procedure"} /\ Last(p) = p[n]
    BY DEF Last
  <2>2. n # 1
    BY <1>1, <2>1 DEF Nested
  <2> QED BY <1>1, <2>1, <2>2
<1>3. /\ q \in Seq(Scopes) /\ Len(q) = n - 1
      /\ \A i \in 1..(n - 1) : q[i] = p[i]
  <2>1. q = SubSeq(p, 1, n - 1)
    BY DEF Front
  <2>2. 1 \in 1..Len(p) /\ n - 1 \in 1..Len(p) /\ n - 1 \in Int /\ 1 \in Int
    BY <1>1, <1>2
  <2> HIDE DEF q
  <2> QED BY <1>1, <2>1, <2>2, SubSeqProperties
<1> HIDE DEF q
<1>4. DOMAIN q = 1..(n - 1) /\ q # <<>> /\ DOMAIN p = DOMAIN q \cup {n} /\ n \notin DOMAIN q
  <2>1. DOMAIN q = 1..(n - 1) /\ Len(q) # 0
    BY <1>1, <1>2, <1>3, LenProperties
  <2> QED BY <1>1, <1>2, <1>3, <2>1, EmptySeq
<1>5. Nested(q)
  <2>1. \A i \in DOMAIN q : q[i] \in {"module", "contains"} <=> i = 1
    BY <1>3, <1>4 DEF Nested
  <2>2. n - 1 <= MaxDepth
    BY <1>1, ScanAssumption DEF Nested
  <2> QED BY <1>3, <2>1, <2>2 DEF Nested
<1>6. Open(p) = Open(q) + (IF Last(p) = "interface" THEN 1 ELSE 0)
  <2>1. IsFiniteSet(Interfaces(q)) /\ Open(q) \in Nat /\ n \notin Interfaces(q)
    BY <1>4, <1>5, Opened DEF Interfaces
  <2>2. CASE p[n] = "interface"
    <3>1. Interfaces(p) = Interfaces(q) \cup {n}
      BY <1>3, <1>4, <2>2 DEF Interfaces
    <3>2. Cardinality(Interfaces(q) \cup {n}) = Cardinality(Interfaces(q)) + 1
      BY <2>1, FS_AddElement, Zenon
    <3> QED BY <1>2, <2>2, <3>1, <3>2 DEF Open
  <2>3. CASE p[n] # "interface"
    <3>1. Interfaces(p) = Interfaces(q)
      BY <1>3, <1>4, <2>3 DEF Interfaces
    <3> QED BY <1>2, <2>1, <2>3, <3>1 DEF Open
  <2> QED BY <2>2, <2>3
<1> QED
  BY <1>3, <1>4, <1>5, <1>6 DEF q

(* At the top of a module it is the only scope.                             *)
LEMMA AtTop ==
  ASSUME NEW p, Nested(p), p # <<>>, Last(p) \in {"module", "contains"}
  PROVE  Len(p) = 1 /\ Open(p) = 0
<1>1. p \in Seq(Scopes) /\ Len(p) \in Nat /\ DOMAIN p = 1..Len(p) /\ Len(p) # 0
  <2>1. p \in Seq(Scopes)
    BY DEF Nested
  <2> QED BY <2>1, Opened, EmptySeq
<1>2. p[Len(p)] \in {"module", "contains"}
  BY DEF Last
<1>3. Len(p) = 1
  BY <1>1, <1>2 DEF Nested
<1>4. \A i \in DOMAIN p : p[i] # "interface"
  BY <1>1, <1>2, <1>3
<1> QED
  BY <1>3, <1>4, Opened

(* A module begins, its procedures begin, or it ends.                       *)
LEMMA Flat ==
  /\ Nested(<<>>) /\ Open(<<>>) = 0
  /\ 0 < MaxDepth => /\ Nested(<<"module">>) /\ Open(<<"module">>) = 0
                     /\ Nested(<<"contains">>) /\ Open(<<"contains">>) = 0
<1>1. Nested(<<>>)
  BY ScanAssumption DEF Nested, Scopes
<1>2. Open(<<>>) = 0
  BY <1>1, Opened
<1>3. ASSUME NEW s \in {"module", "contains"}, 0 < MaxDepth
      PROVE  Nested(<<s>>) /\ Open(<<s>>) = 0
  <2>1. <<s>> \in Seq(Scopes) /\ Len(<<s>>) = 1 /\ DOMAIN <<s>> = {1} /\ <<s>>[1] = s
    BY DEF Scopes
  <2>2. Nested(<<s>>)
    BY <1>3, <2>1, ScanAssumption DEF Nested
  <2>3. \A i \in DOMAIN <<s>> : <<s>>[i] # "interface"
    BY <2>1
  <2> QED BY <2>2, <2>3, Opened
<1> QED
  BY <1>1, <1>2, <1>3

-----------------------------------------------------------------------------
(* The scanner of the inventory.                                            *)

\* a procedure that is defined, not declared in an interface
Outer(p, i) == p[i] = "procedure" /\ \A j \in 1..(i - 1) : p[j] # "interface"

\* as long as the text keeps from what the scanner does not read, depth is
\* the number of the interfaces that are open
DepthCounted == used \cap InventoryBlind = {} => depth = Open(place) /\ definitions = procs

\* the heading of a procedure that has not ended has been read
Headed == \A i \in DOMAIN place : Outer(place, i) => "defined" \in procs

SInv == Nested(place) /\ depth \in Nat /\ used \subseteq Habits /\ DepthCounted /\ Headed

(* Lines that the scanner passes over.                                      *)
LEMMA Quiet_Kept ==
  ASSUME SInv, UNCHANGED <<place, depth, definitions, procs>>, used \subseteq used', used' \subseteq Habits
  PROVE  SInv'
BY DEF SInv, DepthCounted, Headed

(* A scope other than that of a module is entered or left, and depth        *)
(* follows if the scope is that of an interface.                            *)
LEMMA Enter_Kept ==
  ASSUME SInv, place # <<>>, NEW s \in {"type", "interface"}, Enter(s),
         UNCHANGED <<procs, definitions, used>>,
         depth' = depth + (IF s = "interface" THEN 1 ELSE 0)
  PROVE  SInv'
<1> USE DEF SInv
<1>1. /\ Nested(place') /\ Open(place') = Open(place) + (IF s = "interface" THEN 1 ELSE 0)
      /\ DOMAIN place' = DOMAIN place \cup {Len(place) + 1} /\ place'[Len(place) + 1] = s
      /\ \A i \in DOMAIN place : place'[i] = place[i]
  BY Entering DEF Enter
<1>2. DOMAIN place = 1..Len(place) /\ Len(place) \in Nat
  BY Opened
<1>3. Headed'
  <2> SUFFICES ASSUME NEW i \in DOMAIN place', Outer(place', i) PROVE "defined" \in procs
    BY DEF Headed
  <2>1. i \in DOMAIN place
    BY <1>1 DEF Outer
  <2>2. Outer(place, i)
    BY <1>1, <1>2, <2>1 DEF Outer
  <2> QED BY <2>1, <2>2 DEF Headed
<1>4. depth' \in Nat
  OBVIOUS
<1>5. DepthCounted'
  BY <1>1 DEF DepthCounted
<1> QED
  BY <1>1, <1>3, <1>4, <1>5

(* A scope is left, and depth follows if the text keeps from the habits.    *)
LEMMA Leave_Kept ==
  ASSUME SInv, Inside \in {"type", "interface", "procedure"}, Leave, used \subseteq used', used' \subseteq Habits,
         UNCHANGED procs, depth' \in Nat,
         used' \cap InventoryBlind = {} /\ DepthCounted =>
           /\ depth' = depth - (IF Inside = "interface" THEN 1 ELSE 0)
           /\ definitions' = definitions
  PROVE  SInv'
<1> USE DEF SInv
<1>1. place # <<>> /\ Last(place) = Inside
  BY DEF Inside
<1>2. /\ Nested(place') /\ Open(place) = Open(place') + (IF Inside = "interface" THEN 1 ELSE 0)
      /\ \A i \in DOMAIN place' : i \in DOMAIN place /\ place'[i] = place[i]
  BY <1>1, Leaving DEF Leave
<1>3. DOMAIN place = 1..Len(place) /\ DOMAIN place' = 1..Len(place') /\ Open(place') \in Nat
      /\ Len(place) \in Nat /\ Len(place') \in Nat
  BY <1>2, Opened
<1>4. Headed'
  <2> SUFFICES ASSUME NEW i \in DOMAIN place', Outer(place', i) PROVE "defined" \in procs
    BY DEF Headed
  <2>1. i \in DOMAIN place
    BY <1>2
  <2>2. Outer(place, i)
    BY <1>2, <1>3, <2>1 DEF Outer
  <2> QED BY <2>1, <2>2 DEF Headed
<1>5. DepthCounted'
  BY <1>2, <1>3 DEF DepthCounted
<1> QED
  BY <1>2, <1>4, <1>5

(* A module begins or ends, or its procedures begin.                        *)
LEMMA Module_Kept ==
  ASSUME SInv, place = <<>> \/ Inside \in {"module", "contains"},
         place' = <<>> \/ (0 < MaxDepth /\ place' \in {<<"module">>, <<"contains">>}),
         UNCHANGED <<procs, depth, definitions>>,
         used \subseteq used', used' \subseteq used \/ used' \subseteq used \cup Habits
  PROVE  SInv'
<1> USE DEF SInv
<1>1. Open(place) = 0
  BY Flat, AtTop DEF Inside
<1>2. Nested(place') /\ Open(place') = 0
  BY Flat
<1>3. \A i \in DOMAIN place' : place'[i] # "procedure"
  OBVIOUS
<1>4. Headed' /\ DepthCounted'
  BY <1>1, <1>2, <1>3 DEF Headed, DepthCounted, Outer
<1> QED
  BY <1>2, <1>4

(* A procedure begins: it is defined if depth is zero.                      *)
LEMMA Begin_Kept ==
  ASSUME SInv, BeginProcedure
  PROVE  SInv'
<1> USE DEF SInv
<1>0. Inside \in {"contains", "interface"} /\ place # <<>> /\ Last(place) = Inside
  BY DEF BeginProcedure, Inside
<1>1. /\ Nested(place') /\ Open(place') = Open(place)
      /\ DOMAIN place' = DOMAIN place \cup {Len(place) + 1} /\ place'[Len(place) + 1] = "procedure"
      /\ \A i \in DOMAIN place : place'[i] = place[i]
  <2>1. Enter("procedure")
    BY DEF BeginProcedure
  <2>2. Open(place) \in Nat
    BY Opened
  <2> QED BY <1>0, <2>1, <2>2, Entering DEF Enter
<1>2. DOMAIN place = 1..Len(place) /\ Len(place) \in Nat /\ (Open(place) = 0 <=> ~InInterface)
  BY Opened DEF InInterface
<1>3. procs' = procs \cup (IF InInterface THEN {} ELSE {"defined"})
  BY DEF BeginProcedure, Truth, Symbol
<1>4. Headed'
  <2> SUFFICES ASSUME NEW i \in DOMAIN place', Outer(place', i) PROVE "defined" \in procs'
    BY DEF Headed
  <2>1. CASE i \in DOMAIN place
    <3>1. Outer(place, i)
      BY <1>1, <1>2, <2>1 DEF Outer
    <3> QED BY <1>3, <2>1, <3>1 DEF Headed
  <2>2. CASE i = Len(place) + 1
    <3>1. \A j \in DOMAIN place : place[j] # "interface"
      BY <1>1, <1>2, <2>2 DEF Outer
    <3> QED BY <1>3, <3>1 DEF InInterface
  <2> QED BY <1>1, <2>1, <2>2
<1>5. CASE Habit("split heading")
  <2>1. used' \cap InventoryBlind # {} /\ depth' = depth
    <3>1. InventoryRead(Line("procedure", "", {}, TRUE)) \/ InventoryRead(Line("procedure", Symbol, {}, FALSE))
      BY DEF BeginProcedure, Scan
    <3> QED BY <1>5, <3>1 DEF Habit, InventoryBlind, InventoryRead, Line, inventory
  <2>2. used' \subseteq Habits
    BY <1>5 DEF Habit
  <2> QED BY <1>1, <1>4, <2>1, <2>2 DEF DepthCounted
<1>6. CASE Ordinary /\ Scan(Line("procedure", Symbol, {}, FALSE))
  <2>1. InventoryRead(Line("procedure", Symbol, {}, FALSE)) /\ used' = used
    BY <1>6 DEF Scan, Ordinary
  <2>2. depth' = depth /\ definitions' = definitions \cup (IF depth = 0 THEN {Symbol} \ {""} ELSE {})
    BY <2>1 DEF InventoryRead, Line, NamesOf, inventory
  <2>3. DepthCounted'
    BY <1>1, <1>2, <1>3, <2>1, <2>2 DEF DepthCounted, Symbol
  <2> QED BY <1>1, <1>4, <2>1, <2>2, <2>3
<1> QED
  BY <1>5, <1>6 DEF BeginProcedure

(* A procedure ends: its name, which may be repeated, has been read if      *)
(* depth is zero, for no interface is open then.                            *)
LEMMA End_Kept ==
  ASSUME SInv, EndProcedure
  PROVE  SInv'
<1> USE DEF SInv
<1>1. /\ Inside = "procedure" /\ Leave /\ UNCHANGED used
      /\ procs' = procs
  BY DEF EndProcedure, Ordinary, Truth
<1>2. \/ InventoryRead(Line("end procedure", "", {}, FALSE))
      \/ InventoryRead(Line("end procedure", Symbol, {}, FALSE))
  BY DEF EndProcedure, Scan
<1>3. depth' = depth /\ definitions \subseteq definitions'
      /\ definitions' \subseteq definitions \cup (IF depth = 0 THEN {Symbol} ELSE {})
  BY <1>2 DEF InventoryRead, Line, NamesOf, inventory
<1>4. ASSUME used \cap InventoryBlind = {} PROVE definitions' = definitions
  <2>1. depth = Open(place) /\ definitions = procs
    BY <1>4 DEF DepthCounted
  <2>2. CASE depth = 0
    <3>1. place # <<>> /\ Last(place) = "procedure"
      BY <1>1 DEF Inside
    <3>2. Len(place) \in DOMAIN place /\ place[Len(place)] = "procedure" /\ DOMAIN place = 1..Len(place)
      <4>1. Len(place) # 0
        BY <3>1, EmptySeq DEF Nested
      <4>2. DOMAIN place = 1..Len(place) /\ Len(place) \in Nat
        BY Opened
      <4> QED BY <3>1, <4>1, <4>2 DEF Last
    <3>3. \A i \in DOMAIN place : place[i] # "interface"
      BY <2>1, <2>2, Opened
    <3>4. Outer(place, Len(place))
      <4>1. Len(place) \in Nat
        BY Opened
      <4> QED BY <3>2, <3>3, <4>1 DEF Outer
    <3>5. "defined" \in procs /\ Symbol = "defined"
      BY <3>2, <3>3, <3>4 DEF Headed, Symbol, InInterface
    <3> QED BY <1>3, <2>1, <3>5
  <2>3. CASE depth # 0
    BY <1>3, <2>3
  <2> QED BY <2>2, <2>3
<1>5. /\ depth' \in Nat /\ used \subseteq used' /\ used' \subseteq Habits
      /\ used' \cap InventoryBlind = {} /\ DepthCounted =>
           /\ depth' = depth - (IF Inside = "interface" THEN 1 ELSE 0)
           /\ definitions' = definitions
  BY <1>1, <1>3, <1>4
<1>6. Inside \in {"type", "interface", "procedure"} /\ Leave /\ UNCHANGED procs
  BY <1>1
<1> HIDE DEF SInv
<1> QED
  BY <1>5, <1>6, Leave_Kept

(* A type or an interface ends, with "end interface" or without the blank.  *)
LEMMA Close_Kept ==
  ASSUME SInv, EndType \/ EndInterface
  PROVE  SInv'
<1> USE DEF SInv
<1>1. CASE EndType
  <2>1. Inside = "type" /\ Leave /\ UNCHANGED used /\ procs' = procs
    BY <1>1 DEF EndType, Ordinary, Truth
  <2>2. depth' = depth /\ definitions' = definitions
    <3>1. InventoryRead(Plain("end type"))
      BY <1>1 DEF EndType, Scan
    <3> QED BY <3>1 DEF InventoryRead, Line, Plain, inventory
  <2> HIDE DEF SInv
  <2>3. depth' = depth - (IF Inside = "interface" THEN 1 ELSE 0) /\ depth' \in Nat
    BY <2>1, <2>2 DEF SInv
  <2>4. used \subseteq used' /\ used' \subseteq Habits
    BY <2>1 DEF SInv
  <2> QED BY <2>1, <2>2, <2>3, <2>4, Leave_Kept
<1>2. CASE EndInterface /\ Ordinary
  <2>1. Inside = "interface" /\ Leave /\ UNCHANGED used /\ procs' = procs
    BY <1>2 DEF EndInterface, Ordinary, Truth
  <2>2. InventoryRead(Plain("end interface"))
    BY <1>2 DEF EndInterface, Ordinary, Habit, Scan
  <2>3. depth' = (IF depth > 0 THEN depth - 1 ELSE 0) /\ definitions' = definitions
    BY <2>2 DEF InventoryRead, Line, Plain
  <2>4. Open(place) > 0
    <3>1. place # <<>> /\ Last(place) = "interface"
      BY <2>1 DEF Inside
    <3>2. Nested(Front(place)) /\ Open(place) = Open(Front(place)) + 1
      BY <3>1, Leaving
    <3>3. Open(Front(place)) \in Nat
      BY <3>2, Opened
    <3> QED BY <3>2, <3>3
  <2>5. depth' \in Nat
    BY <2>3
  <2>6. DepthCounted /\ used \cap InventoryBlind = {} => depth' = depth - 1
    BY <2>3, <2>4 DEF DepthCounted
  <2>7. used \subseteq used' /\ used' \subseteq Habits
    BY <2>1
  <2> HIDE DEF SInv
  <2> QED BY <2>1, <2>3, <2>5, <2>6, <2>7, Leave_Kept
<1>3. CASE EndInterface /\ Habit("closed up")
  <2>1. /\ Inside = "interface" /\ Leave /\ procs' = procs
        /\ used \subseteq used' /\ used' \subseteq Habits /\ "closed up" \in used'
    BY <1>3 DEF EndInterface, Habit, Truth
  <2>2. depth' \in Nat
    <3>1. InventoryRead(Plain("end interface")) \/ InventoryRead(Plain("endinterface"))
      BY <1>3 DEF EndInterface, Scan
    <3>2. CASE InventoryRead(Plain("end interface"))
      BY <3>2 DEF InventoryRead, Line, Plain
    <3>3. CASE InventoryRead(Plain("endinterface"))
      BY <3>3 DEF InventoryRead, Line, Plain, inventory
    <3> QED BY <3>1, <3>2, <3>3
  <2>3. used' \cap InventoryBlind # {}
    BY <2>1 DEF InventoryBlind
  <2> HIDE DEF SInv
  <2> QED BY <2>1, <2>2, <2>3, Leave_Kept
<1> QED
  BY <1>1, <1>2, <1>3 DEF EndInterface

(* What is within a module, or in a statement, is passed over.              *)
LEMMA Within_Kept ==
  ASSUME SInv, Private \/ PublicList \/ Constants \/ BoundProcedure \/ GoOn \/ Comment
  PROVE  SInv'
<1>1. /\ UNCHANGED place /\ UNCHANGED procs
      /\ used \subseteq used' /\ (used' \subseteq used \/ used' \subseteq used \cup Habits)
  BY DEF Private, PublicList, Constants, BoundProcedure, GoOn, Comment, Unmoved, Truth, Habit, Ordinary
<1>2. \E line : /\ line.kind \notin {"abstract interface", "interface", "end interface", "procedure", "end procedure"}
               /\ InventoryRead(line)
  <2>1. CASE Private
    BY <2>1 DEF Private, Scan, Line, Plain
  <2>2. CASE PublicList
    BY <2>2 DEF PublicList, Scan, Line, Plain
  <2>3. CASE Constants
    BY <2>3 DEF Constants, Scan, Line, Plain
  <2>4. CASE BoundProcedure
    BY <2>4 DEF BoundProcedure, Scan, Line, Plain
  <2>5. CASE GoOn
    BY <2>5 DEF GoOn, Scan, Line, Plain
  <2>6. CASE Comment
    BY <2>6 DEF Comment, Scan, Line, Plain
  <2> QED BY <2>1, <2>2, <2>3, <2>4, <2>5, <2>6
<1>3. UNCHANGED <<depth, definitions>>
  BY <1>2 DEF InventoryRead, inventory
<1> QED
  BY <1>1, <1>3, Quiet_Kept DEF SInv

(* Outside a module there is no scope.                                      *)
LEMMA File ==
  ASSUME SInv, Inside = "file"
  PROVE  place = <<>>
<1> SUFFICES ASSUME place # <<>> PROVE FALSE
  OBVIOUS
<1>1. Last(place) = "file" /\ Nested(place)
  BY DEF Inside, SInv
<1>2. Len(place) \in DOMAIN place /\ place \in Seq(Scopes)
  BY <1>1, Opened, EmptySeq DEF Nested
<1>3. Last(place) \in Scopes
  BY <1>2, ElementOfSeq, LenProperties DEF Last
<1> QED
  BY <1>1, <1>3 DEF Scopes

(* Every step of a text keeps what the scanner knows.                       *)
LEMMA Scanned_Kept ==
  ASSUME SInv, [Next]_vars
  PROVE  SInv'
<1>1. CASE Private \/ PublicList \/ Constants \/ BoundProcedure \/ GoOn \/ Comment
  BY <1>1, Within_Kept
<1>2. CASE BeginModule
  <2>1. /\ place = <<>> /\ place' = <<"module">> /\ 0 < MaxDepth /\ UNCHANGED procs
        /\ used \subseteq used' /\ (used' \subseteq used \/ used' \subseteq used \cup Habits)
    <3>1. place = <<>>
      BY <1>2, File DEF BeginModule
    <3>2. Append(<<>>, "module") = <<"module">> /\ Len(<<>>) = 0
      OBVIOUS
    <3>3. place' = Append(place, "module") /\ Len(place) < MaxDepth /\ UNCHANGED procs
      BY <1>2 DEF BeginModule, Enter
    <3>4. used \subseteq used' /\ (used' \subseteq used \/ used' \subseteq used \cup Habits)
      BY <1>2 DEF BeginModule, Habit, Ordinary
    <3> QED BY <3>1, <3>2, <3>3, <3>4
  <2>2. UNCHANGED <<depth, definitions>>
    BY <1>2 DEF BeginModule, Scan, InventoryRead, Line, inventory
  <2> QED BY <2>1, <2>2, Module_Kept
<1>3. CASE EndModule
  <2>1. UNCHANGED <<depth, definitions>>
    BY <1>3 DEF EndModule, Scan, InventoryRead, Line, Plain, inventory
  <2> QED BY <1>3, <2>1, Module_Kept DEF EndModule
<1>4. CASE BeginProcedures
  <2>1. UNCHANGED <<depth, definitions>>
    BY <1>4 DEF BeginProcedures, Scan, InventoryRead, Line, Plain, inventory
  <2>2. 0 < MaxDepth
    <3>1. place # <<>> /\ Last(place) = "module" /\ Nested(place)
      BY <1>4 DEF BeginProcedures, Inside, SInv
    <3> QED BY <3>1, AtTop, ScanAssumption DEF Nested
  <2> QED BY <1>4, <2>1, <2>2, Module_Kept DEF BeginProcedures, Truth, Ordinary
<1>5. CASE BeginType
  <2>1. place # <<>> /\ Enter("type") /\ UNCHANGED <<procs, used>>
    BY <1>5 DEF BeginType, Inside, Truth, Ordinary
  <2>2. UNCHANGED <<depth, definitions>>
    <3>1. InventoryRead(Line("public type", "t", {}, FALSE)) \/ InventoryRead(Plain("type"))
      BY <1>5 DEF BeginType, Scan
    <3> QED BY <3>1 DEF InventoryRead, Line, Plain, inventory
  <2>3. depth' = depth + (IF "type" = "interface" THEN 1 ELSE 0)
    BY <2>2 DEF SInv
  <2> QED BY <2>1, <2>2, <2>3, Enter_Kept
<1>6. CASE BeginInterface
  <2>1. place # <<>> /\ Enter("interface") /\ UNCHANGED <<procs, used>>
    BY <1>6 DEF BeginInterface, Inside, Truth, Ordinary
  <2>2. depth' = depth + 1 /\ UNCHANGED definitions
    <3>1. InventoryRead(Plain("interface")) \/ InventoryRead(Plain("abstract interface"))
      BY <1>6 DEF BeginInterface, Scan
    <3> QED BY <3>1 DEF InventoryRead, Line, Plain
  <2> QED BY <2>1, <2>2, Enter_Kept
<1>7. CASE EndType \/ EndInterface
  BY <1>7, Close_Kept
<1>8. CASE BeginProcedure
  BY <1>8, Begin_Kept
<1>9. CASE EndProcedure
  BY <1>9, End_Kept
<1>10. CASE UNCHANGED vars
  BY <1>10, Quiet_Kept DEF vars, text, truth, inventory, SInv
<1> QED
  BY <1>1, <1>2, <1>3, <1>4, <1>5, <1>6, <1>7, <1>8, <1>9, <1>10 DEF Next

(* At the start no scope is open.                                           *)
LEMMA NotRead == Init => SInv
<1> SUFFICES ASSUME Init PROVE SInv
  OBVIOUS
<1>1. /\ place = <<>> /\ depth = 0 /\ used = {} /\ definitions = {} /\ procs = {}
  BY DEF Init
<1>2. DOMAIN place = {}
  BY <1>1
<1> QED
  BY <1>1, <1>2, Flat DEF SInv, DepthCounted, Headed

(* At every point of a text depth counts the interfaces that are open.      *)
THEOREM ScanInvariant == Spec => []SInv
BY NotRead, Scanned_Kept, PTL DEF Spec

(* The inventory sees each procedure that is defined and none that is only  *)
(* declared, for texts of any length and interfaces nested to any depth.    *)
THEOREM Definitions == Spec => []InventoryReads
<1>1. SInv => InventoryReads
  BY DEF SInv, DepthCounted, InventoryReads
<1> QED
  BY <1>1, ScanInvariant, PTL

-----------------------------------------------------------------------------
(* audit_modules.py.                                                        *)

Kinds ==
  {"module", "end module", "private", "public", "public type", "type", "end type", "constants",
   "bound", "interface", "abstract interface", "end interface", "endinterface", "contains",
   "procedure", "end procedure", "names", "comment"}
NameSet == {"", "a", "b", "k", "l", "m", "t", "listed", "excused", "unlisted", "declared", "defined"}

Lines == [kind : Kinds, first : NameSet, rest : SUBSET NameSet, more : BOOLEAN]
Read == [listed : BOOLEAN, private : BOOLEAN, public : SUBSET NameSet]

\* the statements that may be unfinished: in the text, and as they are joined
Listing == Line("public", "a", {}, TRUE)
Heading == Line("procedure", "", {}, TRUE)
SpanHeadings == {Line("procedure", "declared", {}, TRUE), Line("procedure", "defined", {}, TRUE)}

Statements ==
  /\ stmt = {} \/ stmt = {Listing} \/ \E h \in SpanHeadings : stmt = {h}
  /\ stmt = {} => buf = {}
  /\ stmt # {} => place # <<>>
  /\ buf = {} \/ buf = {Listing} \/ buf = {Heading}

ClosedUp == "closed up"

\* an interface that is not abstract is not counted, but its end is; the
\* count is never more than that of the interfaces, but for an end that is
\* not recognised
Levels ==
  /\ inIface \in Nat
  /\ inIface <= Open(place) + 1
  /\ ClosedUp \notin used => inIface <= Open(place)

Reading ==
  /\ current = {} <=> place = <<>>
  /\ current # {} => \E m \in Read : current = {m}
  /\ place = <<>> => inIface = 0
  /\ {default, owed, leaks, undocumented, violations, warnings} \subseteq BOOLEAN
  /\ documented = told

\* as long as the text keeps from what the audit does not read, it knows the
\* names that are public, up to the line that is joined
Known ==
  used \cap AuditBlind = {} =>
    /\ violations = leaks /\ warnings = undocumented
    /\ stmt = {Listing} => buf = {Listing} /\ Inside = "module"
    /\ stmt \notin {{}, {Listing}} => buf = {Heading}
    /\ \A m \in current : /\ m.private = default /\ m.listed = owed
                          /\ names = m.public \cup (IF stmt = {Listing} THEN {"a"} ELSE {})

AInv == SInv /\ Statements /\ Levels /\ Reading /\ Known

\* a line in one piece, of at most one name
Whole(kind, first) == Line(kind, first, {}, FALSE)

(* What a line in one piece holds, and what it makes public.                *)
LEMMA Written ==
  ASSUME NEW kind \in Kinds, NEW first \in NameSet
  PROVE  /\ Whole(kind, first) \in Lines /\ Whole(kind, first).kind = kind
         /\ Whole(kind, first).more = FALSE
         /\ NamesOf(Whole(kind, first)) = {first} \ {""}
         /\ kind \in {"public", "public type"} => PublicNames(Whole(kind, first)) = {first} \ {""}
         /\ kind \in {"constants", "bound"} => PublicNames(Whole(kind, first)) = {first}
         /\ kind \notin {"public", "public type", "constants", "bound"} =>
              PublicNames(Whole(kind, first)) = {}
<1> DEFINE line == Whole(kind, first)
<1>1. line \in Lines
  BY DEF Whole, Line, Lines
<1>2. line.kind = kind /\ line.first = first /\ line.rest = {}
  BY DEF Whole, Line
<1>3. line.more = FALSE
  BY DEF Whole, Line
<1>4. NamesOf(line) = {first} \ {""}
  <2> HIDE DEF line
  <2> QED BY <1>2 DEF NamesOf
<1>5. /\ kind \in {"public", "public type"} => PublicNames(line) = {first} \ {""}
      /\ kind \in {"constants", "bound"} => PublicNames(line) = {first}
      /\ kind \notin {"public", "public type", "constants", "bound"} => PublicNames(line) = {}
  <2> HIDE DEF line
  <2> QED BY <1>2, <1>4 DEF PublicNames
<1> QED
  BY <1>1, <1>2, <1>3, <1>4, <1>5

(* A line of one word.                                                      *)
LEMMA Bare ==
  ASSUME NEW kind \in Kinds
  PROVE  /\ Plain(kind) = Whole(kind, "")
         /\ Plain(kind) \in Lines /\ Plain(kind).kind = kind /\ Plain(kind).more = FALSE
         /\ NamesOf(Plain(kind)) = {}
         /\ kind \notin {"constants", "bound"} => PublicNames(Plain(kind)) = {}
<1>1. "" \in NameSet
  BY DEF NameSet
<1>2. Plain(kind) = Whole(kind, "")
  BY DEF Plain, Whole
<1>3. Whole(kind, "") \in Lines
  BY <1>1, Written
<1>4. Whole(kind, "").kind = kind
  BY <1>1, Written
<1>5. Whole(kind, "").more = FALSE
  BY <1>1, Written
<1>6. NamesOf(Whole(kind, "")) = {""} \ {""}
  BY <1>1, Written
<1>7. kind \notin {"constants", "bound"} => PublicNames(Whole(kind, "")) = {""} \ {""}
  BY <1>1, Written
<1> QED
  BY <1>2, <1>3, <1>4, <1>5, <1>6, <1>7

(* The statements that name one thing and make it public.                   *)
LEMMA Published ==
  ASSUME NEW kind \in {"public", "public type", "constants"}, NEW name \in {"a", "t", "k"}
  PROVE  /\ Whole(kind, name) \in Lines /\ Whole(kind, name).more = FALSE
         /\ Whole(kind, name).kind = kind /\ PublicNames(Whole(kind, name)) = {name}
<1>1. kind \in Kinds /\ name \in NameSet /\ name # ""
  BY DEF Kinds, NameSet
<1>2. Whole(kind, name) \in Lines
  BY <1>1, Written
<1>3. Whole(kind, name).more = FALSE
  BY <1>1, Written
<1>4. Whole(kind, name).kind = kind
  BY <1>1, Written
<1>5. CASE kind = "constants"
  <2>1. PublicNames(Whole(kind, name)) = {name}
    BY <1>1, <1>5, Written
  <2> QED BY <1>2, <1>3, <1>4, <2>1
<1>6. CASE kind \in {"public", "public type"}
  <2>1. PublicNames(Whole(kind, name)) = {name} \ {""}
    BY <1>1, <1>6, Written
  <2> QED BY <1>1, <1>2, <1>3, <1>4, <2>1
<1> QED
  BY <1>5, <1>6

\* what a line makes of the count of interfaces, and how that of the text
\* has changed with it
Counts(kind, n) ==
  IF kind = "abstract interface" THEN n + 1
  ELSE IF kind = "end interface" THEN (IF n > 0 THEN n - 1 ELSE 0) ELSE n

NoLess == Open(place') >= Open(place)
OneLess == Open(place) = Open(place') + 1
OneMore == Open(place') = Open(place) + 1

Follows(kind) ==
  /\ kind = "abstract interface" => OneMore
  /\ kind = "end interface" => OneLess
  /\ kind \notin {"abstract interface", "end interface"} =>
       NoLess \/ (ClosedUp \in used' \ used /\ OneLess)

(* The bound on the count of interfaces is kept.                            *)
LEMMA Level_Kept ==
  ASSUME Levels, Open(place) \in Nat, Open(place') \in Nat, used \subseteq used',
         NEW kind, inIface' = Counts(kind, inIface), Follows(kind)
  PROVE  Levels'
<1>1. inIface \in Nat
  BY DEF Levels
<1>2. CASE kind = "abstract interface"
  <2>1. inIface' = inIface + 1 /\ OneMore
    BY <1>2 DEF Counts, Follows
  <2> QED BY <1>1, <2>1 DEF Levels, OneMore
<1>3. CASE kind = "end interface"
  <2>1. OneLess
    BY <1>3 DEF Follows
  <2>2. CASE inIface > 0
    <3>1. inIface' = inIface - 1
      BY <1>3, <2>2 DEF Counts
    <3> QED BY <1>1, <2>1, <2>2, <3>1 DEF Levels, OneLess
  <2>3. CASE ~(inIface > 0)
    <3>1. inIface' = 0
      BY <1>3, <2>3 DEF Counts
    <3> QED BY <1>1, <2>1, <3>1 DEF Levels, OneLess
  <2> QED BY <2>2, <2>3
<1>4. CASE kind \notin {"abstract interface", "end interface"}
  <2>1. inIface' = inIface
    BY <1>4 DEF Counts
  <2>2. CASE NoLess
    BY <1>1, <2>1, <2>2 DEF Levels, NoLess
  <2>3. CASE ClosedUp \in used' \ used /\ OneLess
    BY <1>1, <2>1, <2>3 DEF Levels, OneLess
  <2> QED BY <1>4, <2>2, <2>3 DEF Follows
<1> QED
  BY <1>2, <1>3, <1>4

(* Nothing is counted where no interface is open.                           *)
LEMMA Level_Zero ==
  ASSUME Levels, Open(place) = 0, ClosedUp \notin used
  PROVE  ~(inIface > 0)
BY DEF Levels

(* A logical line, other than the first and the last of a module, adds what *)
(* it makes public, or private by default, and counts abstract interfaces.  *)
LEMMA LineRead ==
  ASSUME NEW m \in Read, current = {m}, inIface \in Nat, NEW line \in Lines, AuditLine(line),
         line.kind \notin {"module", "end module"}
  PROVE  /\ UNCHANGED <<violations, warnings>>
         /\ inIface' = Counts(line.kind, inIface)
         /\ \E w \in Read :
              /\ current' = {w} /\ w.listed = m.listed
              /\ w.private = (IF line.kind = "private" THEN TRUE ELSE m.private)
              /\ w.public = (IF inIface > 0 THEN m.public ELSE m.public \cup PublicNames(line))
<1>1. ReadOn(m, line) /\ UNCHANGED <<violations, warnings>>
  BY DEF AuditLine
<1>2. PublicNames(line) \subseteq NameSet
  BY DEF PublicNames, NamesOf, Lines
<1>3. line.kind \in {"abstract interface", "end interface", "private"} => PublicNames(line) = {}
  BY DEF PublicNames
<1>4. CASE line.kind = "abstract interface"
  BY <1>1, <1>3, <1>4 DEF ReadOn, Read, Counts
<1>5. CASE line.kind = "end interface"
  BY <1>1, <1>3, <1>5 DEF ReadOn, Read, Counts
<1>6. CASE line.kind = "private"
  <2>1. current' = {[m EXCEPT !.private = TRUE]} /\ inIface' = inIface
    BY <1>1, <1>6 DEF ReadOn
  <2>2. PICK v \in BOOLEAN : v = TRUE
    OBVIOUS
  <2> DEFINE w == [m EXCEPT !.private = v]
  <2>3. /\ w \in Read /\ w.listed = m.listed /\ w.private = v /\ w.public = m.public
    BY DEF Read
  <2>4. current' = {w}
    BY <2>1, <2>2
  <2> HIDE DEF w
  <2> QED BY <1>1, <1>3, <1>6, <2>1, <2>2, <2>3, <2>4 DEF Counts
<1>7. CASE line.kind \notin {"abstract interface", "end interface", "private"}
  <2> DEFINE w == IF inIface > 0 THEN m ELSE [m EXCEPT !.public = @ \cup PublicNames(line)]
  <2>1. current' = {w} /\ inIface' = inIface
    BY <1>1, <1>7 DEF ReadOn
  <2>2. w = [listed |-> m.listed, private |-> m.private,
             public |-> IF inIface > 0 THEN m.public ELSE m.public \cup PublicNames(line)]
    BY DEF Read
  <2>3. /\ w \in Read /\ w.listed = m.listed /\ w.private = m.private
        /\ w.public = (IF inIface > 0 THEN m.public ELSE m.public \cup PublicNames(line))
    BY <1>2, <2>2 DEF Read
  <2> HIDE DEF w
  <2> QED BY <1>1, <1>7, <2>1, <2>3 DEF Counts
<1> QED
  BY <1>4, <1>5, <1>6, <1>7

\* a logical line is read, and the text means by it what it says
Means(line) ==
  /\ stmt' = {}
  /\ IF line.kind = "private" THEN default' = TRUE ELSE default' = default
  /\ \A m \in current : names' = m.public \cup PublicNames(line)
  /\ PublicNames(line) # {} => Inside = "module"

Says(line) ==
  /\ line \in Lines /\ line.kind \notin {"module", "end module"}
  /\ AuditLine(line) /\ Follows(line.kind)
  /\ used' \cap AuditBlind = {} => Means(line)

Goes == place # <<>> /\ place' # <<>> /\ used \subseteq used' /\ default' \in BOOLEAN
        /\ UNCHANGED <<told, owed, leaks, undocumented, documented>>

(* A logical line within a module.                                          *)
LEMMA Line_Kept ==
  ASSUME AInv, SInv', Statements', Goes, NEW line, Says(line)
  PROVE  AInv'
<1>0. SInv /\ Statements /\ Levels /\ Reading /\ Known
  BY DEF AInv
<1>1. PICK m \in Read : current = {m}
  BY <1>0 DEF Reading, Goes
<1>2. line \in Lines /\ line.kind \notin {"module", "end module"} /\ AuditLine(line)
  BY DEF Says
<1>3. inIface \in Nat /\ Open(place) \in Nat /\ Open(place') \in Nat
  BY <1>0, Opened DEF Levels, SInv
<1>4. UNCHANGED <<violations, warnings>> /\ inIface' = Counts(line.kind, inIface)
  BY <1>1, <1>2, <1>3, LineRead
<1>5. PICK w \in Read :
        /\ current' = {w} /\ w.listed = m.listed
        /\ w.private = (IF line.kind = "private" THEN TRUE ELSE m.private)
        /\ w.public = (IF inIface > 0 THEN m.public ELSE m.public \cup PublicNames(line))
  BY <1>1, <1>2, <1>3, LineRead
<1>7. Levels'
  BY <1>0, <1>3, <1>4, Level_Kept DEF Says, Goes
<1>8. Reading'
  BY <1>0, <1>4, <1>5 DEF Reading, Goes
<1>9. ASSUME used' \cap AuditBlind = {}
      PROVE  /\ violations' = leaks' /\ warnings' = undocumented' /\ stmt' = {}
             /\ w.private = default' /\ names' = w.public /\ w.listed = owed'
  <2>1. used \cap AuditBlind = {} /\ Means(line)
    BY <1>9 DEF Says, Goes
  <2>2. violations = leaks /\ warnings = undocumented /\ m.private = default /\ m.listed = owed
    BY <1>0, <1>1, <2>1 DEF Known
  <2>6. w.listed = owed'
    BY <1>5, <2>2 DEF Goes
  <2>3. w.private = default'
    BY <1>5, <2>1, <2>2 DEF Means
  <2>4. names' = m.public \cup PublicNames(line)
    BY <1>1, <2>1 DEF Means
  <2>5. names' = w.public
    <3>1. CASE PublicNames(line) = {}
      BY <1>5, <2>4, <3>1
    <3>2. CASE PublicNames(line) # {}
      <4>1. Open(place) = 0
        BY <1>0, <2>1, <3>2, AtTop DEF Inside, SInv, Means, Goes
      <4>2. ClosedUp \notin used
        BY <2>1 DEF AuditBlind, ClosedUp
      <4>3. ~(inIface > 0)
        BY <1>0, <4>1, <4>2, Level_Zero
      <4> QED BY <1>5, <2>4, <4>3
    <3> QED BY <3>1, <3>2
  <2> QED BY <1>4, <2>1, <2>2, <2>3, <2>5, <2>6 DEF Means, Goes
<1>10. Known'
  BY <1>5, <1>9 DEF Known, Listing
<1> QED
  BY <1>7, <1>8, <1>10 DEF AInv

(* What the text means by a line that does not speak of privacy.            *)
LEMMA Truths ==
  ASSUME Reading, NEW public, NEW d, Truth(FALSE, public, d)
  PROVE  default' = default /\ default' \in BOOLEAN /\ names' = names \cup public
<1>1. default = TRUE \/ default = FALSE
  BY DEF Reading
<1>2. default' = (default \/ FALSE)
  BY DEF Truth
<1>3. default' = default
  BY <1>1, <1>2, Zenon
<1> QED
  BY <1>1, <1>3 DEF Truth

(* Where no interface is left the counts follow, but for the lines that     *)
(* are counted.                                                             *)
LEMMA Still ==
  ASSUME NoLess, NEW kind, kind \notin {"abstract interface", "end interface"}
  PROVE  Follows(kind)
BY Zenon DEF Follows

(* A statement of one line: it need not be joined.                          *)
LEMMA Whole_Kept ==
  ASSUME AInv, SInv', stmt = {}, stmt' = {}, place # <<>>, place' # <<>>, used \subseteq used',
         UNCHANGED <<told, owed, leaks, undocumented>>, default' \in BOOLEAN,
         NEW line \in Lines, line.more = FALSE, line.kind \notin {"module", "end module"},
         AuditRead(line), Follows(line.kind),
         used' \cap AuditBlind = {} =>
           /\ IF line.kind = "private" THEN default' = TRUE ELSE default' = default
           /\ names' = names \cup PublicNames(line)
           /\ PublicNames(line) # {} => Inside = "module"
  PROVE  AInv'
<1>1. Statements /\ Known
  BY DEF AInv
<1>2. buf = {} /\ buf' = {} /\ AuditLine(line) /\ documented' = documented
  BY <1>1 DEF Statements, AuditRead, Joined
<1>3. Statements'
  BY <1>2 DEF Statements
<1>4. Goes
  BY <1>2 DEF Goes
<1>5. used' \cap AuditBlind = {} => Means(line)
  <2>1. used' \cap AuditBlind = {} => \A m \in current : names = m.public
    BY <1>1 DEF Known, Listing
  <2> QED BY <2>1 DEF Means
<1>6. Says(line)
  BY <1>2, <1>5 DEF Says
<1> QED
  BY <1>3, <1>4, <1>6, Line_Kept

(* Statements of one line in the specification part, or in a type.          *)
LEMMA Specification_Kept ==
  ASSUME AInv, SInv', Private \/ Constants \/ BoundProcedure \/ (PublicList /\ stmt' = {})
                      \/ (Comment /\ stmt = {} /\ place # <<>>)
  PROVE  AInv'
<1>0. SInv /\ Reading
  BY DEF AInv
<1> DEFINE Simple(line) ==
      /\ line \in Lines /\ line.more = FALSE
      /\ line.kind \notin {"module", "end module", "abstract interface", "end interface"}
      /\ AuditRead(line) /\ default' \in BOOLEAN
      /\ used' \cap AuditBlind = {} =>
           /\ IF line.kind = "private" THEN default' = TRUE ELSE default' = default
           /\ names' = names \cup PublicNames(line)
           /\ PublicNames(line) # {} => Inside = "module"
<1>1. /\ stmt = {} /\ stmt' = {} /\ place # <<>> /\ place' = place
      /\ UNCHANGED <<told, owed, leaks, undocumented>> /\ used \subseteq used'
  BY DEF Private, Constants, BoundProcedure, PublicList, Comment, Inside, Unmoved, NoVerdict, Scan, Ordinary, Habit
<1>2. ASSUME NEW line, Simple(line) PROVE AInv'
  <2>1. Open(place') = Open(place) /\ Open(place) \in Nat
    BY <1>0, <1>1, Opened DEF SInv
  <2>2. NoLess
    BY <2>1 DEF NoLess
  <2>3. Follows(line.kind)
    BY <1>2, <2>2, Still
  <2> QED BY <1>1, <1>2, <2>3, Whole_Kept
<1>3. CASE Private /\ Inside = "module"
  <2> DEFINE line == Plain("private")
  <2>1. default' = (default \/ TRUE) /\ names' = names \cup {}
    <3>1. Truth(Inside = "module", {}, {}) /\ Inside = "module"
      BY <1>3 DEF Private
    <3>2. Truth(TRUE, {}, {})
      BY <3>1, Zenon
    <3> QED BY <3>2 DEF Truth
  <2>2. default' = TRUE
    BY <2>1, Zenon
  <2>3. AuditRead(line)
    BY <1>3 DEF Private, Scan
  <2>4. line \in Lines /\ line.more = FALSE /\ line.kind = "private" /\ PublicNames(line) = {}
    BY Bare DEF Kinds
  <2> HIDE DEF line
  <2>5. Simple(line)
    BY <2>1, <2>2, <2>3, <2>4
  <2> QED BY <1>2, <2>5
<1>4. CASE Private /\ Inside # "module"
  <2> DEFINE line == Plain("private")
  <2>1. "private in type" \in used' /\ AuditRead(line)
    BY <1>4 DEF Private, Habit, Scan
  <2>2. default' \in BOOLEAN
    <3>1. Truth(Inside = "module", {}, {})
      BY <1>4 DEF Private
    <3> QED BY <3>1, Zenon DEF Truth
  <2>3. line \in Lines /\ line.more = FALSE /\ line.kind = "private"
    BY Bare DEF Kinds
  <2> HIDE DEF line
  <2>4. Simple(line)
    BY <2>1, <2>2, <2>3 DEF AuditBlind
  <2> QED BY <1>2, <2>4
<1>5. CASE Constants
  <2> DEFINE one == Whole("constants", "k")
             two == Line("constants", "k", {"l"}, FALSE)
  <2>1. CASE Truth(FALSE, {"k"}, {}) /\ AuditRead(one)
    <3>1. default' = default /\ default' \in BOOLEAN /\ names' = names \cup {"k"}
      BY <1>0, <2>1, Truths
    <3>2. Inside = "module"
      BY <1>5 DEF Constants
    <3>3. PublicNames(one) = {"k"}
      BY Published
    <3>4. one \in Lines /\ one.more = FALSE /\ one.kind = "constants"
      BY Published
    <3> HIDE DEF one
    <3>5. Simple(one)
      BY <2>1, <3>1, <3>2, <3>3, <3>4
    <3> QED BY <1>2, <3>5
  <2>2. CASE Truth(FALSE, {"k", "l"}, {}) /\ AuditRead(two) /\ "several constants" \in used'
    <3>1. default' \in BOOLEAN
      BY <1>0, <2>2, Truths
    <3>2. two \in Lines
      BY DEF Line, Lines, Kinds, NameSet
    <3>3. two.kind = "constants" /\ two.more = FALSE
      BY DEF Line
    <3> HIDE DEF two
    <3>4. Simple(two)
      BY <2>2, <3>1, <3>2, <3>3 DEF AuditBlind
    <3> QED BY <1>2, <3>4
  <2> QED BY <1>5, <2>1, <2>2 DEF Constants, Scan, Habit, Whole
<1>6. CASE BoundProcedure
  <2> DEFINE line == Whole("bound", "m")
  <2>1. Truth(FALSE, {}, {}) /\ AuditRead(line) /\ "bound procedure" \in used'
    BY <1>6 DEF BoundProcedure, Scan, Habit, Whole
  <2>2. default' \in BOOLEAN
    BY <1>0, <2>1, Truths
  <2>3. "bound" \in Kinds /\ "m" \in NameSet
    BY DEF Kinds, NameSet
  <2>4. line \in Lines /\ line.more = FALSE
    BY <2>3, Written
  <2>5. line.kind = "bound"
    BY <2>3, Written
  <2> HIDE DEF line
  <2>6. Simple(line)
    BY <2>1, <2>2, <2>4, <2>5 DEF AuditBlind
  <2> QED BY <1>2, <2>6
<1>7. CASE PublicList
  <2> DEFINE line == Whole("public", "a")
  <2>1. Truth(FALSE, {"a"}, {}) /\ AuditRead(line) /\ Inside = "module"
    <3>1. PICK more \in BOOLEAN : /\ Scan(Line("public", "a", {}, more))
                                 /\ stmt' = IF more THEN {Line("public", "a", {}, TRUE)} ELSE {}
      BY <1>7 DEF PublicList
    <3>2. more = FALSE
      BY <1>1, <3>1
    <3> QED BY <1>7, <3>1, <3>2 DEF PublicList, Scan, Whole
  <2>2. default' = default /\ default' \in BOOLEAN /\ names' = names \cup {"a"}
    BY <1>0, <2>1, Truths
  <2>3. PublicNames(line) = {"a"}
    BY Published
  <2>4. line \in Lines /\ line.more = FALSE /\ line.kind = "public"
    BY Published
  <2> HIDE DEF line
  <2>5. Simple(line)
    BY <2>1, <2>2, <2>3, <2>4
  <2> QED BY <1>2, <2>5
<1>8. CASE Comment
  <2> DEFINE line == Plain("comment")
  <2>1. Truth(FALSE, {}, {}) /\ AuditRead(line)
    BY <1>8 DEF Comment, Scan
  <2>2. default' = default /\ default' \in BOOLEAN /\ names' = names \cup {}
    BY <1>0, <2>1, Truths
  <2>3. line \in Lines /\ line.more = FALSE /\ line.kind = "comment" /\ PublicNames(line) = {}
    BY Bare DEF Kinds
  <2> HIDE DEF line
  <2>4. Simple(line)
    BY <2>1, <2>2, <2>3
  <2> QED BY <1>2, <2>4
<1> QED
  BY <1>3, <1>4, <1>5, <1>6, <1>7, <1>8

(* A statement of one line that does not speak of privacy.                  *)
LEMMA Quiet_Line_Kept ==
  ASSUME AInv, SInv', stmt = {}, stmt' = {}, place # <<>>, place' # <<>>, used \subseteq used',
         UNCHANGED <<told, owed, leaks, undocumented>>,
         NEW line \in Lines, line.more = FALSE, line.kind \notin {"module", "end module", "private"},
         AuditRead(line), Follows(line.kind),
         NEW public, NEW d, Truth(FALSE, public, d),
         public = PublicNames(line), public # {} => Inside = "module"
  PROVE  AInv'
<1>1. default' = default /\ default' \in BOOLEAN /\ names' = names \cup public
  BY Truths DEF AInv
<1> QED
  BY <1>1, Whole_Kept

(* A scope that is entered does not lower the number of open interfaces.    *)
LEMMA Entered ==
  ASSUME SInv, place # <<>>, NEW s \in {"type", "interface", "procedure"}, Enter(s)
  PROVE  place' # <<>> /\ NoLess /\ (s = "interface" => OneMore)
<1>1. place' # <<>> /\ Open(place') = Open(place) + (IF s = "interface" THEN 1 ELSE 0)
  BY Entering DEF Enter, SInv
<1>2. Open(place) \in Nat
  BY Opened DEF SInv
<1> QED
  BY <1>1, <1>2 DEF NoLess, OneMore

(* A scope that is left lowers it if it is an interface.                    *)
LEMMA Left ==
  ASSUME SInv, Inside \in {"type", "interface", "procedure"}, Leave
  PROVE  /\ place # <<>> /\ place' # <<>>
         /\ IF Inside = "interface" THEN OneLess ELSE NoLess
<1>1. place # <<>> /\ Last(place) = Inside
  BY DEF Inside
<1>2. /\ place' # <<>> /\ Nested(place')
      /\ Open(place) = Open(place') + (IF Inside = "interface" THEN 1 ELSE 0)
  BY <1>1, Leaving DEF Leave, SInv
<1>3. Open(place') \in Nat
  BY <1>2, Opened
<1> QED
  BY <1>1, <1>2, <1>3 DEF NoLess, OneLess

(* A type begins or ends.                                                   *)
LEMMA Type_Kept ==
  ASSUME AInv, SInv', BeginType \/ EndType
  PROVE  AInv'
<1>0. SInv /\ Statements
  BY DEF AInv
<1>1. stmt = {} /\ stmt' = {} /\ UNCHANGED <<told, owed, leaks, undocumented, used>>
  BY DEF BeginType, EndType, NoVerdict, Ordinary, Scan
<1>2. CASE BeginType
  <2>1. place # <<>> /\ Enter("type") /\ Inside = "module"
    BY <1>2 DEF BeginType, Inside
  <2>2. place' # <<>> /\ NoLess
    BY <1>0, <2>1, Entered
  <2>3. CASE Truth(FALSE, {"t"}, {}) /\ AuditRead(Whole("public type", "t"))
    <3> DEFINE line == Whole("public type", "t")
    <3>1. PublicNames(line) = {"t"}
      BY Published
    <3>2. line \in Lines /\ line.more = FALSE /\ line.kind = "public type"
      BY Published
    <3> HIDE DEF line
    <3>3. Follows(line.kind)
      BY <2>2, <3>2, Still
    <3> QED BY <1>1, <2>1, <2>2, <2>3, <3>1, <3>2, <3>3, Quiet_Line_Kept DEF line
  <2>4. CASE Truth(FALSE, {}, {}) /\ AuditRead(Plain("type"))
    <3> DEFINE line == Plain("type")
    <3>1. line \in Lines /\ line.more = FALSE /\ line.kind = "type" /\ PublicNames(line) = {}
      BY Bare DEF Kinds
    <3> HIDE DEF line
    <3>2. Follows(line.kind)
      BY <2>2, <3>1, Still
    <3> QED BY <1>1, <2>1, <2>2, <2>4, <3>1, <3>2, Quiet_Line_Kept DEF line
  <2> QED BY <1>2, <2>3, <2>4 DEF BeginType, Scan, Whole
<1>3. CASE EndType
  <2> DEFINE line == Plain("end type")
  <2>1. Inside = "type" /\ Leave /\ Truth(FALSE, {}, {}) /\ AuditRead(line)
    BY <1>3 DEF EndType, Scan
  <2>2. place # <<>> /\ place' # <<>> /\ NoLess
    BY <1>0, <2>1, Left
  <2>3. line \in Lines /\ line.more = FALSE /\ line.kind = "end type" /\ PublicNames(line) = {}
    BY Bare DEF Kinds
  <2> HIDE DEF line
  <2>4. Follows(line.kind)
    BY <2>2, <2>3, Still
  <2> QED BY <1>1, <2>1, <2>2, <2>3, <2>4, Quiet_Line_Kept
<1> QED
  BY <1>2, <1>3

(* An interface begins or ends.                                             *)
LEMMA Interface_Kept ==
  ASSUME AInv, SInv', BeginInterface \/ EndInterface
  PROVE  AInv'
<1>0. SInv /\ Statements
  BY DEF AInv
<1>1. /\ stmt = {} /\ stmt' = {} /\ UNCHANGED <<told, owed, leaks, undocumented>> /\ used \subseteq used'
      /\ Truth(FALSE, {}, {})
  BY DEF BeginInterface, EndInterface, NoVerdict, Ordinary, Habit, Scan
<1> DEFINE Quiet(kind) == kind \in Kinds \ {"module", "end module", "private", "constants", "bound"}
<1>2. ASSUME NEW kind, Quiet(kind), AuditRead(Plain(kind)), Follows(kind), place # <<>>, place' # <<>>
      PROVE  AInv'
  <2> DEFINE line == Plain(kind)
  <2>1. line \in Lines /\ line.more = FALSE /\ line.kind = kind /\ PublicNames(line) = {}
    BY <1>2, Bare
  <2> HIDE DEF line
  <2> QED BY <1>1, <1>2, <2>1, Quiet_Line_Kept DEF line
<1>3. CASE BeginInterface
  <2>1. place # <<>> /\ Enter("interface")
    BY <1>3 DEF BeginInterface, Inside
  <2>2. place' # <<>> /\ NoLess /\ OneMore
    BY <1>0, <2>1, Entered
  <2>3. PICK kind \in {"interface", "abstract interface"} : AuditRead(Plain(kind))
    BY <1>3 DEF BeginInterface, Scan
  <2>4. Quiet(kind)
    BY DEF Kinds
  <2>5. Follows(kind)
    BY <2>2 DEF Follows
  <2> QED BY <1>2, <2>1, <2>2, <2>3, <2>4, <2>5
<1>4. CASE EndInterface
  <2>1. Inside = "interface" /\ Leave
    BY <1>4 DEF EndInterface
  <2>2. place # <<>> /\ place' # <<>> /\ OneLess
    BY <1>0, <2>1, Left
  <2>3. CASE AuditRead(Plain("end interface"))
    <3>1. Quiet("end interface")
      BY DEF Kinds
    <3>2. Follows("end interface")
      BY <2>2 DEF Follows
    <3> QED BY <1>2, <2>2, <2>3, <3>1, <3>2
  <2>4. CASE Habit("closed up") /\ AuditRead(Plain("endinterface"))
    <3>1. Quiet("endinterface")
      BY DEF Kinds
    <3>2. ClosedUp \in used' \ used
      BY <2>4 DEF Habit, ClosedUp
    <3>3. Follows("endinterface")
      BY <2>2, <3>2 DEF Follows
    <3> QED BY <1>2, <2>2, <2>4, <3>1, <3>3
  <2> QED BY <1>4, <2>3, <2>4 DEF EndInterface, Scan
<1> QED
  BY <1>3, <1>4

(* The procedures of a module begin, and each of them begins or ends.       *)
LEMMA Procedure_Kept ==
  ASSUME AInv, SInv', BeginProcedures \/ (BeginProcedure /\ stmt' = {}) \/ EndProcedure
  PROVE  AInv'
<1>0. SInv /\ Statements
  BY DEF AInv
<1>1. /\ stmt = {} /\ stmt' = {} /\ UNCHANGED <<told, owed, leaks, undocumented>> /\ used \subseteq used'
      /\ \E d : Truth(FALSE, {}, d)
  BY DEF BeginProcedures, BeginProcedure, EndProcedure, NoVerdict, Ordinary, Habit, Scan
<1>2. ASSUME NEW kind \in {"contains", "procedure", "end procedure"}, NEW name \in NameSet,
             AuditRead(Whole(kind, name)), NoLess, place # <<>>, place' # <<>>
      PROVE  AInv'
  <2> DEFINE line == Whole(kind, name)
  <2>1. kind \in Kinds
    BY DEF Kinds
  <2>2. line \in Lines /\ line.more = FALSE
    BY <2>1, Written
  <2>3. line.kind = kind
    BY <2>1, Written
  <2>4. PublicNames(line) = {}
    BY <2>1, Written
  <2>5. Follows(kind)
    BY <1>2, Still
  <2> HIDE DEF line
  <2> QED BY <1>1, <1>2, <2>2, <2>3, <2>4, <2>5, Quiet_Line_Kept DEF line
<1>3. {"", "declared", "defined"} \subseteq NameSet /\ Symbol \in NameSet
  BY DEF NameSet, Symbol
<1>4. CASE BeginProcedures
  <2>1. place # <<>> /\ Last(place) = "module" /\ place' = <<"contains">>
    BY <1>4 DEF BeginProcedures, Inside
  <2>2. Nested(place) /\ Nested(place')
    BY <1>0 DEF SInv
  <2>3. Open(place) = 0 /\ Open(place') \in Nat
    BY <2>1, <2>2, AtTop, Opened
  <2>4. NoLess /\ place' # <<>>
    BY <2>1, <2>3 DEF NoLess
  <2>5. AuditRead(Plain("contains"))
    BY <1>4 DEF BeginProcedures, Scan
  <2>6. AuditRead(Whole("contains", ""))
    BY <2>5 DEF Plain, Whole
  <2> QED BY <1>2, <1>3, <2>1, <2>4, <2>6
<1>5. CASE BeginProcedure
  <2>1. place # <<>> /\ Enter("procedure")
    BY <1>5 DEF BeginProcedure, Inside
  <2>2. place' # <<>> /\ NoLess
    BY <1>0, <2>1, Entered
  <2>3. AuditRead(Whole("procedure", Symbol))
    BY <1>1, <1>5 DEF BeginProcedure, Scan, Whole
  <2> QED BY <1>2, <1>3, <2>1, <2>2, <2>3
<1>6. CASE EndProcedure
  <2>1. Inside = "procedure" /\ Leave
    BY <1>6 DEF EndProcedure
  <2>2. place # <<>> /\ place' # <<>> /\ NoLess
    BY <1>0, <2>1, Left
  <2>3. AuditRead(Whole("end procedure", "")) \/ AuditRead(Whole("end procedure", Symbol))
    BY <1>6 DEF EndProcedure, Scan, Whole
  <2> QED BY <1>2, <1>3, <2>2, <2>3
<1> QED
  BY <1>4, <1>5, <1>6

(* The statements that a line leaves unfinished.                            *)
LEMMA Unfinished ==
  /\ Listing.more /\ Listing.kind = "public" /\ Listing.first = "a" /\ Listing.rest = {}
  /\ Heading.more /\ Heading.kind = "procedure" /\ Heading.first = "" /\ Heading.rest = {}
  /\ Line("procedure", Symbol, {}, TRUE) \in SpanHeadings
  /\ \A h \in SpanHeadings : h.kind = "procedure" /\ h.first \in {"declared", "defined"} /\ h # Listing
<1>1. Listing.more /\ Listing.kind = "public" /\ Listing.first = "a" /\ Listing.rest = {}
  BY DEF Listing, Line
<1>2. Heading.more /\ Heading.kind = "procedure" /\ Heading.first = "" /\ Heading.rest = {}
  BY DEF Heading, Line
<1>3. Line("procedure", Symbol, {}, TRUE) \in SpanHeadings
  BY DEF SpanHeadings, Symbol
<1>4. ASSUME NEW h \in SpanHeadings
      PROVE  h.kind = "procedure" /\ h.first \in {"declared", "defined"} /\ h # Listing
  <2>1. h.kind = "procedure" /\ h.first \in {"declared", "defined"}
    BY DEF SpanHeadings, Line
  <2> QED BY <1>1, <2>1
<1> QED
  BY <1>1, <1>2, <1>3, <1>4

(* A statement is left unfinished.                                          *)
LEMMA Opening_Kept ==
  ASSUME AInv, SInv', PublicList \/ BeginProcedure, stmt' # {}
  PROVE  AInv'
<1>0. SInv /\ Statements /\ Levels /\ Reading /\ Known
  BY DEF AInv
<1>1. /\ stmt = {} /\ buf = {} /\ UNCHANGED <<told, owed, leaks, undocumented>> /\ used \subseteq used'
  BY <1>0 DEF PublicList, BeginProcedure, NoVerdict, Ordinary, Habit, Scan, Statements
<1>2. ASSUME NEW line, line.more, AuditRead(line)
      PROVE  buf' = {line} /\ UNCHANGED <<documented, current, inIface, violations, warnings>>
  BY <1>1, <1>2 DEF AuditRead, Joined
<1>3. CASE PublicList
  <2>1. AuditRead(Listing) /\ stmt' = {Listing}
    <3>1. PICK more \in BOOLEAN : /\ Scan(Line("public", "a", {}, more))
                                 /\ stmt' = IF more THEN {Line("public", "a", {}, TRUE)} ELSE {}
      BY <1>3 DEF PublicList
    <3>2. more = TRUE
      BY <3>1
    <3> QED BY <3>1, <3>2 DEF Scan, Listing
  <2>2. buf' = {Listing} /\ UNCHANGED <<documented, current, inIface, violations, warnings>>
    BY <1>2, <2>1, Unfinished
  <2>3. Truth(FALSE, {"a"}, {}) /\ Inside = "module" /\ place' = place /\ used' = used
    BY <1>3 DEF PublicList, Unmoved, Ordinary
  <2>4. default' = default /\ names' = names \cup {"a"}
    BY <1>0, <2>3, Truths
  <2>5. place # <<>> /\ Inside' = Inside
    BY <2>3 DEF Inside
  <2>6. Statements'
    BY <2>1, <2>2, <2>3, <2>5 DEF Statements
  <2>7. Levels' /\ Reading'
    BY <1>0, <1>1, <2>2, <2>3, <2>4 DEF Levels, Reading
  <2>8. Known'
    <3>1. used \cap AuditBlind = {} => \A m \in current : m.private = default /\ m.listed = owed /\ names = m.public
      BY <1>0, <1>1 DEF Known, Listing
    <3> QED BY <1>0, <1>1, <2>1, <2>2, <2>3, <2>4, <2>5, <3>1 DEF Known
  <2> QED BY <2>6, <2>7, <2>8 DEF AInv
<1>4. CASE BeginProcedure
  <2>1. AuditRead(Heading) /\ \E h \in SpanHeadings : stmt' = {h}
    <3>1. AuditRead(Heading) /\ stmt' = {Line("procedure", Symbol, {}, TRUE)}
      BY <1>1, <1>4 DEF BeginProcedure, Scan, Heading
    <3> QED BY <3>1, Unfinished
  <2>2. buf' = {Heading} /\ UNCHANGED <<documented, current, inIface, violations, warnings>>
    BY <1>2, <2>1, Unfinished
  <2>3. place # <<>> /\ Enter("procedure") /\ \E d : Truth(FALSE, {}, d)
    BY <1>4 DEF BeginProcedure, Inside
  <2>4. place' # <<>> /\ NoLess
    BY <1>0, <2>3, Entered
  <2>5. default' = default /\ names' = names
    <3>1. PICK d : Truth(FALSE, {}, d)
      BY <2>3
    <3>2. default' = default /\ names' = names \cup {}
      BY <1>0, <3>1, Truths
    <3> QED BY <3>2
  <2>6. stmt' # {Listing}
    BY <2>1, Unfinished
  <2>7. Statements'
    BY <2>1, <2>2, <2>4 DEF Statements
  <2>8. Levels'
    <3>1. Open(place) \in Nat /\ Open(place') \in Nat
      BY <1>0, Opened DEF SInv
    <3> QED BY <1>0, <1>1, <2>2, <2>4, <3>1 DEF Levels, NoLess
  <2>9. Reading'
    BY <1>0, <1>1, <2>2, <2>3, <2>4, <2>5 DEF Reading
  <2>10. Known'
    <3>1. used \cap AuditBlind = {} => \A m \in current : m.private = default /\ m.listed = owed /\ names = m.public
      BY <1>0, <1>1 DEF Known, Listing
    <3>2. used' \cap AuditBlind = {} => used \cap AuditBlind = {}
      BY <1>1
    <3> QED BY <1>0, <1>1, <2>2, <2>5, <2>6, <3>1, <3>2 DEF Known
  <2> QED BY <2>7, <2>8, <2>9, <2>10 DEF AInv
<1> QED
  BY <1>3, <1>4

(* A line is joined to what an ampersand left open.                         *)
LEMMA Join ==
  ASSUME Statements, NEW line \in Lines, line.kind \in {"names", "comment"}
  PROVE  /\ Joined(line) \in Lines
         /\ Joined(line).kind \in {"names", "comment", "public", "procedure"}
         /\ buf = {Listing} => PublicNames(Joined(line)) = {"a"} \cup NamesOf(line)
         /\ buf = {Heading} => PublicNames(Joined(line)) = {}
<1>1. CASE buf = {}
  <2>1. Joined(line) = line
    BY <1>1 DEF Joined
  <2> QED BY <1>1, <2>1
<1>2. ASSUME NEW b, buf = {b}, b = Listing \/ b = Heading
      PROVE  /\ Joined(line) \in Lines /\ Joined(line).kind = b.kind /\ Joined(line).first = b.first
             /\ Joined(line).rest = NamesOf(line)
  <2>1. Joined(line) = [b EXCEPT !.rest = @ \cup NamesOf(line), !.more = line.more]
    BY <1>2 DEF Joined
  <2>2. NamesOf(line) \subseteq NameSet /\ line.more \in BOOLEAN
    BY DEF NamesOf, Lines
  <2>3. b.kind \in Kinds /\ b.first \in NameSet /\ b.rest = {}
    BY <1>2, Unfinished DEF Kinds, NameSet
  <2>4. \E k, f, v : b = [kind |-> k, first |-> f, rest |-> {}, more |-> v]
    BY <1>2, Zenon DEF Listing, Heading, Line
  <2>5. PICK k, f, v : b = [kind |-> k, first |-> f, rest |-> {}, more |-> v]
    BY <2>4
  <2>6. Joined(line) = [kind |-> b.kind, first |-> b.first, rest |-> NamesOf(line), more |-> line.more]
    BY <2>1, <2>5
  <2> QED BY <2>2, <2>3, <2>6 DEF Lines
<1>3. CASE buf = {Listing}
  <2>1. /\ Joined(line) \in Lines /\ Joined(line).kind = "public" /\ Joined(line).first = "a"
        /\ Joined(line).rest = NamesOf(line)
    BY <1>2, <1>3, Unfinished
  <2>2. PublicNames(Joined(line)) = {"a"} \cup NamesOf(line)
    BY <2>1 DEF PublicNames, NamesOf
  <2>3. Listing # Heading
    BY Unfinished
  <2> QED BY <1>3, <2>1, <2>2, <2>3
<1>4. CASE buf = {Heading}
  <2>1. Joined(line) \in Lines /\ Joined(line).kind = "procedure"
    BY <1>2, <1>4, Unfinished
  <2>2. PublicNames(Joined(line)) = {}
    BY <2>1 DEF PublicNames
  <2>3. Listing # Heading
    BY Unfinished
  <2> QED BY <1>4, <2>1, <2>2, <2>3
<1> QED
  BY <1>1, <1>3, <1>4 DEF Statements

(* The rest of a statement, or a comment within it.                         *)
LEMMA Joining_Kept ==
  ASSUME AInv, SInv', GoOn \/ (Comment /\ stmt # {})
  PROVE  AInv'
<1>0. SInv /\ Statements /\ Levels /\ Reading /\ Known
  BY DEF AInv
<1>1. /\ UNCHANGED <<place, told, owed, leaks, undocumented>> /\ used \subseteq used' /\ stmt # {}
      /\ stmt' \in {{}, stmt}
  BY DEF GoOn, Comment, Unmoved, NoVerdict, Ordinary, Habit, Scan
<1>2. place # <<>> /\ NoLess
  <2>1. Open(place) \in Nat
    BY <1>0, Opened DEF SInv
  <2> QED BY <1>0, <1>1, <2>1 DEF Statements, NoLess
<1>3. ASSUME NEW line \in Lines, line.more = FALSE, line.kind \in {"names", "comment"}, AuditRead(line),
             default' \in BOOLEAN, used' \cap AuditBlind = {} => Means(Joined(line))
      PROVE  AInv'
  <2>1. /\ Joined(line) \in Lines
        /\ Joined(line).kind \in {"names", "comment", "public", "procedure"}
    BY <1>0, <1>3, Join
  <2>2. buf' = {} /\ AuditLine(Joined(line)) /\ documented' = documented
    BY <1>3 DEF AuditRead
  <2>3. Follows(Joined(line).kind)
    BY <1>2, <2>1, Still
  <2>4. Says(Joined(line))
    BY <1>3, <2>1, <2>2, <2>3 DEF Says
  <2>5. Goes
    BY <1>1, <1>2, <1>3, <2>2 DEF Goes
  <2>6. Statements'
    BY <1>0, <1>1, <1>2, <2>2 DEF Statements
  <2> QED BY <2>4, <2>5, <2>6, Line_Kept
<1>4. CASE GoOn
  <2>1. PICK s \in stmt :
          IF s.kind = "public"
          THEN AuditRead(Whole("names", "b")) /\ Truth(FALSE, {"b"}, {})
          ELSE AuditRead(Whole("names", s.first)) /\ Truth(FALSE, {}, {})
    BY <1>4 DEF GoOn, Scan, Whole
  <2>2. "names" \in Kinds /\ {"b", "declared", "defined"} \subseteq NameSet
    BY DEF Kinds, NameSet
  <2>3. used' = used /\ stmt' = {}
    BY <1>4 DEF GoOn, Ordinary
  <2>4. CASE stmt = {Listing}
    <3> DEFINE line == Whole("names", "b")
    <3>1. AuditRead(line) /\ Truth(FALSE, {"b"}, {})
      BY <2>1, <2>4, Unfinished
    <3>2. default' = default /\ default' \in BOOLEAN /\ names' = names \cup {"b"}
      BY <1>0, <3>1, Truths
    <3>3. line \in Lines
      BY <2>2, Written
    <3>0. line.more = FALSE
      BY DEF Whole, Line
    <3>4. line.kind = "names"
      BY <2>2, Written
    <3>5. NamesOf(line) = {"b"} \ {""}
      BY <2>2, Written
    <3> HIDE DEF line
    <3>6. used' \cap AuditBlind = {} => Means(Joined(line))
      <4> SUFFICES ASSUME used \cap AuditBlind = {} PROVE Means(Joined(line))
        BY <2>3
      <4>1. /\ buf = {Listing} /\ Inside = "module"
            /\ \A m \in current : names = m.public \cup {"a"}
        BY <1>0, <2>4 DEF Known
      <4>2. PublicNames(Joined(line)) = {"a"} \cup NamesOf(line) /\ Joined(line).kind # "private"
        BY <1>0, <3>3, <3>4, <4>1, Join
      <4>3. \A m \in current : names' = m.public \cup PublicNames(Joined(line))
        BY <3>2, <3>5, <4>1, <4>2
      <4> QED BY <2>3, <3>2, <4>1, <4>2, <4>3 DEF Means
    <3> QED BY <1>3, <3>1, <3>2, <3>3, <3>4, <3>6, <3>0
  <2>5. ASSUME NEW h \in SpanHeadings, stmt = {h} PROVE AInv'
    <3> DEFINE line == Whole("names", h.first)
    <3>1. AuditRead(line) /\ Truth(FALSE, {}, {})
      BY <2>1, <2>5, Unfinished
    <3>2. default' = default /\ default' \in BOOLEAN /\ names' = names \cup {}
      BY <1>0, <3>1, Truths
    <3>3. h.first \in NameSet /\ h # Listing
      BY <2>2, Unfinished
    <3>4. line \in Lines
      BY <2>2, <3>3, Written
    <3>0. line.more = FALSE
      BY DEF Whole, Line
    <3>5. line.kind = "names"
      BY <2>2, <3>3, Written
    <3> HIDE DEF line
    <3>6. used' \cap AuditBlind = {} => Means(Joined(line))
      <4> SUFFICES ASSUME used \cap AuditBlind = {} PROVE Means(Joined(line))
        BY <2>3
      <4>1. stmt \notin {{}, {Listing}}
        BY <2>5, <3>3
      <4>2. buf = {Heading} /\ \A m \in current : names = m.public
        BY <1>0, <4>1 DEF Known
      <4>3. PublicNames(Joined(line)) = {} /\ Joined(line).kind # "private"
        BY <1>0, <3>4, <3>5, <4>2, Join
      <4> QED BY <2>3, <3>2, <4>2, <4>3 DEF Means
    <3> QED BY <1>3, <3>1, <3>2, <3>4, <3>5, <3>6, <3>0
  <2> QED BY <1>0, <1>1, <2>4, <2>5 DEF Statements
<1>5. CASE Comment
  <2> DEFINE line == Plain("comment")
  <2>1. Truth(FALSE, {}, {}) /\ AuditRead(line) /\ "comment in statement" \in used'
    BY <1>1, <1>5 DEF Comment, Scan, Habit
  <2>2. default' \in BOOLEAN
    BY <1>0, <2>1, Truths
  <2>3. line \in Lines /\ line.more = FALSE /\ line.kind = "comment"
    BY Bare DEF Kinds
  <2>4. used' \cap AuditBlind # {}
    BY <2>1 DEF AuditBlind
  <2> HIDE DEF line
  <2> QED BY <1>3, <2>1, <2>2, <2>3, <2>4
<1> QED
  BY <1>4, <1>5

(* A module begins.                                                         *)
LEMMA Module_Begins ==
  ASSUME AInv, SInv', BeginModule
  PROVE  AInv'
<1>0. SInv /\ Statements /\ Levels /\ Reading /\ Known
  BY DEF AInv
<1>1. place = <<>> /\ stmt = {} /\ stmt' = {} /\ buf = {} /\ current = {}
  BY <1>0, File DEF BeginModule, Statements, Reading
<1>2. PICK n \in {"listed", "excused", "unlisted"} :
        /\ AuditRead(Whole("module", n)) /\ used \subseteq used'
        /\ IF n = "unlisted" THEN "unlisted module" \in used' ELSE owed' = (n = "listed")
        /\ owed' \in BOOLEAN
  <2>1. CASE Ordinary /\ owed' = TRUE /\ Scan(Line("module", "listed", {}, FALSE))
    BY <2>1 DEF Scan, Whole, Ordinary
  <2>2. CASE Ordinary /\ owed' = FALSE /\ Scan(Line("module", "excused", {}, FALSE))
    BY <2>2 DEF Scan, Whole, Ordinary
  <2>3. CASE Habit("unlisted module") /\ owed' = TRUE /\ Scan(Line("module", "unlisted", {}, FALSE))
    BY <2>3 DEF Scan, Whole, Habit
  <2> QED BY <2>1, <2>2, <2>3 DEF BeginModule
<1> DEFINE line == Whole("module", n)
<1>3. "module" \in Kinds /\ n \in NameSet
  BY DEF Kinds, NameSet
<1>4. line.more = FALSE
  BY <1>3, Written
<1>5. line.kind = "module"
  BY <1>3, Written
<1>f. line.first = n
  BY DEF Whole, Line
<1> HIDE DEF line
<1>6. buf' = {} /\ AuditLine(line) /\ documented' = documented
  BY <1>1, <1>2, <1>4 DEF AuditRead, Joined, line
<1> DEFINE w == [listed |-> line.first = "listed", private |-> FALSE, public |-> {}]
<1>7. current' = {w} /\ inIface' = 0 /\ UNCHANGED <<violations, warnings>>
  BY <1>1, <1>5, <1>6 DEF AuditLine
<1>8. w \in Read /\ w.private = FALSE /\ w.public = {} /\ w.listed = (n = "listed")
  BY <1>f DEF Read
<1>9. place' # <<>> /\ default' = FALSE /\ names' = {} /\ UNCHANGED <<told, leaks, undocumented>>
  <2>1. place' = Append(place, "module")
    BY DEF BeginModule, Enter
  <2>2. place' # <<>>
    BY <1>1, <2>1
  <2> QED BY <2>2 DEF BeginModule, Scan
<1> HIDE DEF w
<1>10. Statements'
  BY <1>1, <1>6 DEF Statements
<1>11. Levels'
  <2>1. Open(place') \in Nat
    BY Opened DEF SInv
  <2> QED BY <1>7, <2>1 DEF Levels
<1>12. Reading'
  BY <1>0, <1>2, <1>6, <1>7, <1>8, <1>9 DEF Reading
<1>13. Known'
  <2>1. ASSUME used' \cap AuditBlind = {} PROVE w.listed = owed' /\ used \cap AuditBlind = {}
    <3>1. "unlisted module" \notin used'
      BY <2>1 DEF AuditBlind
    <3> QED BY <1>2, <1>8, <2>1, <3>1
  <2> QED BY <1>0, <1>1, <1>7, <1>8, <1>9, <2>1 DEF Known, Listing
<1> QED
  BY <1>10, <1>11, <1>12, <1>13 DEF AInv

(* A module ends: the two checks of the audit say what the text means.      *)
LEMMA Module_Ends ==
  ASSUME AInv, SInv', EndModule
  PROVE  AInv'
<1>0. SInv /\ Statements /\ Levels /\ Reading /\ Known
  BY DEF AInv
<1>1. place # <<>> /\ place' = <<>> /\ stmt = {} /\ stmt' = {} /\ buf = {}
  BY <1>0 DEF EndModule, Inside, Statements
<1>2. PICK m \in Read : current = {m}
  BY <1>0, <1>1 DEF Reading
<1> DEFINE line == Plain("end module")
<1>3. AuditRead(line) /\ line.more = FALSE /\ line.kind = "end module"
  BY Bare DEF EndModule, Scan, Kinds
<1> HIDE DEF line
<1>4. buf' = {} /\ AuditLine(line) /\ documented' = documented
  BY <1>1, <1>3 DEF AuditRead, Joined
<1>5. current' = {} /\ inIface' = 0 /\ Audited(m)
  BY <1>2, <1>3, <1>4 DEF AuditLine
<1>6. /\ violations' = (violations \/ ~m.private)
      /\ warnings' = (warnings \/ (m.listed /\ ~(m.public \subseteq documented)))
  BY <1>5 DEF Audited
<1>7. /\ leaks' = (leaks \/ ~default)
      /\ undocumented' = (undocumented \/ (owed /\ ~(names \subseteq told)))
      /\ UNCHANGED <<told, owed, used, default>>
  BY <1>2 DEF EndModule, Scan
<1>8. Statements'
  BY <1>1, <1>4 DEF Statements
<1>9. Levels'
  <2>1. Open(place') \in Nat
    BY Opened DEF SInv
  <2> QED BY <1>5, <2>1 DEF Levels
<1>10. {violations', warnings', leaks', undocumented', default', owed'} \subseteq BOOLEAN
  <2>1. violations' \in BOOLEAN /\ warnings' \in BOOLEAN /\ leaks' \in BOOLEAN /\ undocumented' \in BOOLEAN
    BY <1>6, <1>7, Zenon
  <2>2. default' \in BOOLEAN /\ owed' \in BOOLEAN
    BY <1>0, <1>7 DEF Reading
  <2> QED BY <2>1, <2>2
<1>11. Reading'
  BY <1>0, <1>1, <1>4, <1>5, <1>7, <1>10 DEF Reading
<1>12. ASSUME used \cap AuditBlind = {} PROVE violations' = leaks' /\ warnings' = undocumented'
  <2>1. /\ violations = leaks /\ warnings = undocumented
        /\ m.private = default /\ m.listed = owed /\ names = m.public
    BY <1>0, <1>1, <1>2, <1>12 DEF Known, Listing
  <2>2. documented = told
    BY <1>0 DEF Reading
  <2> QED BY <1>6, <1>7, <2>1, <2>2, Zenon
<1>13. Known'
  BY <1>1, <1>5, <1>7, <1>12 DEF Known, Listing
<1> QED
  BY <1>8, <1>9, <1>11, <1>13 DEF AInv

(* A comment outside a module.                                              *)
LEMMA Outside_Kept ==
  ASSUME AInv, SInv', Comment, place = <<>>
  PROVE  AInv'
<1>0. SInv /\ Statements /\ Levels /\ Reading /\ Known
  BY DEF AInv
<1>1. stmt = {} /\ stmt' = {} /\ buf = {} /\ current = {} /\ inIface = 0
  BY <1>0 DEF Comment, Statements, Reading
<1>2. /\ UNCHANGED <<place, told, owed, leaks, undocumented, used>>
      /\ Truth(FALSE, {}, {}) /\ AuditRead(Plain("comment"))
  BY <1>1 DEF Comment, Unmoved, NoVerdict, Ordinary, Scan
<1>3. default' = default
  BY <1>0, <1>2, Truths
<1> DEFINE line == Plain("comment")
<1>4. AuditRead(line) /\ line.more = FALSE /\ line.kind = "comment"
  BY <1>2, Bare DEF Kinds
<1> HIDE DEF line
<1>5. buf' = {} /\ AuditLine(line) /\ documented' = documented
  BY <1>1, <1>4 DEF AuditRead, Joined
<1>6. current' = {} /\ inIface' = 0 /\ UNCHANGED <<violations, warnings>>
  BY <1>1, <1>4, <1>5 DEF AuditLine
<1> QED
  BY <1>0, <1>1, <1>2, <1>3, <1>5, <1>6 DEF AInv, Statements, Levels, Reading, Known, Listing

(* Every step of a text keeps what the audit knows.                         *)
LEMMA Audited_Kept ==
  ASSUME AInv, [Next]_vars
  PROVE  AInv'
<1>0. SInv'
  BY Scanned_Kept DEF AInv
<1>1. CASE UNCHANGED vars
  <2>1. /\ UNCHANGED <<place, stmt, default, names, leaks, undocumented, used, told, owed>>
        /\ UNCHANGED <<buf, current, inIface, documented, violations, warnings>>
    BY <1>1 DEF vars, text, truth, audit
  <2> QED BY <1>0, <2>1 DEF AInv, Statements, Levels, Reading, Known, Inside
<1>2. CASE Private \/ Constants \/ BoundProcedure
  BY <1>0, <1>2, Specification_Kept
<1>3. CASE PublicList
  BY <1>0, <1>3, Specification_Kept, Opening_Kept
<1>4. CASE GoOn
  BY <1>0, <1>4, Joining_Kept
<1>5. CASE Comment
  BY <1>0, <1>5, Specification_Kept, Joining_Kept, Outside_Kept
<1>6. CASE BeginType \/ EndType \/ BeginInterface \/ EndInterface
  BY <1>0, <1>6, Type_Kept, Interface_Kept
<1>7. CASE BeginProcedures \/ BeginProcedure \/ EndProcedure
  BY <1>0, <1>7, Procedure_Kept, Opening_Kept
<1>8. CASE BeginModule \/ EndModule
  BY <1>0, <1>8, Module_Begins, Module_Ends
<1> QED
  BY <1>1, <1>2, <1>3, <1>4, <1>5, <1>6, <1>7, <1>8 DEF Next

(* At the start the audit knows what api.md documents.                      *)
LEMMA Unaudited == Init => AInv
<1> SUFFICES ASSUME Init PROVE AInv
  OBVIOUS
<1>1. SInv
  BY NotRead
<1>2. documented = told
  <2>1. PICK lines \in UNION {[1..n -> ApiKinds] : n \in 0..ApiLines} :
          documented = ParseApi(lines) /\ told = Documented(lines)
    BY DEF Init
  <2>2. PICK n \in 0..ApiLines : lines \in [1..n -> ApiKinds]
    OBVIOUS
  <2>3. n \in Nat
    BY ScanAssumption
  <2>4. lines \in Seq(ApiKinds)
    BY <2>2, <2>3, SeqDef
  <2> QED BY <2>1, <2>4, ApiRead
<1>3. /\ place = <<>> /\ stmt = {} /\ default = FALSE /\ names = {} /\ leaks = FALSE
      /\ undocumented = FALSE /\ owed = FALSE /\ used = {} /\ buf = {} /\ current = {} /\ inIface = 0
      /\ violations = FALSE /\ warnings = FALSE
  BY DEF Init
<1>4. Open(place) = 0
  BY <1>3, Flat
<1>5. Statements
  BY <1>3 DEF Statements
<1>6. Levels
  BY <1>3, <1>4 DEF Levels
<1>7. Reading
  BY <1>2, <1>3 DEF Reading
<1>8. Known
  <2>1. violations = leaks /\ warnings = undocumented
    BY <1>3, Zenon
  <2> QED BY <1>3, <2>1 DEF Known, Listing
<1> QED
  BY <1>1, <1>5, <1>6, <1>7, <1>8 DEF AInv

(* At every point of a text that keeps from the six habits the audit knows *)
(* the default and the public names of the module it reads.                 *)
THEOREM Audit == Spec => []AInv
BY Unaudited, Audited_Kept, PTL DEF Spec

(* Not every scope is an interface: the module is not.                      *)
LEMMA Headroom ==
  ASSUME NEW p, Nested(p), p # <<>>
  PROVE  Open(p) + 1 <= Len(p)
<1>1. Len(p) \in Nat /\ DOMAIN p = 1..Len(p) /\ IsFiniteSet(Interfaces(p)) /\ p \in Seq(Scopes)
  BY Opened DEF Nested
<1>2. Len(p) # 0
  BY <1>1, EmptySeq
<1>3. 1 \in 1..Len(p) /\ p[1] # "interface"
  BY <1>1, <1>2 DEF Nested
<1>4. Interfaces(p) \cup {1} \subseteq 1..Len(p) /\ 1 \notin Interfaces(p)
  BY <1>1, <1>3 DEF Interfaces
<1>5. IsFiniteSet(1..Len(p)) /\ Cardinality(1..Len(p)) = Len(p)
  <2>1. 1 \in Int /\ Len(p) \in Int
    BY <1>1
  <2>2. /\ IsFiniteSet(1..Len(p))
        /\ Cardinality(1..Len(p)) = IF 1 > Len(p) THEN 0 ELSE Len(p) - 1 + 1
    BY <2>1, FS_Interval, Zenon
  <2> QED BY <1>1, <2>2
<1>6. Cardinality(Interfaces(p) \cup {1}) = Cardinality(Interfaces(p)) + 1
  BY <1>1, <1>4, FS_AddElement, Zenon
<1>7. Cardinality(Interfaces(p) \cup {1}) <= Cardinality(1..Len(p))
  BY <1>4, <1>5, FS_Subset
<1> QED
  BY <1>5, <1>6, <1>7 DEF Open

(* Between two modules the audit says what the sources mean: no violation   *)
(* is missed or made up, and none of the public names.                      *)
THEOREM Honest == Spec => []AuditHonest
<1>1. AInv => TypeOK
  <2> SUFFICES ASSUME AInv PROVE TypeOK
    OBVIOUS
  <2>1. SInv /\ Levels /\ Reading
    BY DEF AInv
  <2>2. /\ place \in Seq({"module", "type", "interface", "procedure", "contains"})
        /\ Len(place) <= MaxDepth /\ used \subseteq Habits /\ depth \in Nat /\ Len(place) \in Nat
    BY <2>1, Opened DEF SInv, Nested, Scopes
  <2>3. Len(place) > 0 => place[1] \in {"module", "contains"}
    <3>1. DOMAIN place = 1..Len(place) /\ Nested(place)
      BY <2>1, Opened DEF SInv
    <3> QED BY <2>2, <3>1 DEF Nested
  <2>4. inIface \in 0..MaxDepth
    <3>1. inIface \in Nat /\ inIface <= Open(place) + 1
      BY <2>1 DEF Levels
    <3>2. CASE place = <<>>
      BY <2>1, <3>2, ScanAssumption DEF Reading
    <3>3. CASE place # <<>>
      <4>1. Open(place) + 1 <= Len(place)
        BY <2>1, <3>3, Headroom DEF SInv
      <4>2. Open(place) \in Nat
        BY <2>1, Opened DEF SInv
      <4> QED BY <2>2, <3>1, <4>1, <4>2, ScanAssumption
    <3> QED BY <3>2, <3>3
  <2> QED BY <2>1, <2>2, <2>3, <2>4 DEF TypeOK, Reading
<1>2. AInv => AuditHonest
  BY <1>1 DEF AInv, Known, AuditHonest, Listing
<1> QED
  BY <1>2, Audit, PTL

=============================================================================
