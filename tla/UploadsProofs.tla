----------------------------- MODULE UploadsProofs -----------------------------
(***************************************************************************)
(* What MCUploads guarantees for every number of products, uploads,        *)
(* editors' requests, jobs, workers and loops, and for archives of every   *)
(* length: its type invariants, every safety invariant that the run        *)
(* Uploads checks, and that both queues implement QueueContract.           *)
(*                                                                         *)
(* The parts of MCUploads share no state, so the inductive invariant,      *)
(* UploadsInv, is one invariant per part, each of which any step of the    *)
(* others leaves alone:                                                    *)
(*   ScanInv    what is known of the entries that were read (Scanner);     *)
(*   RedisInv   an entry in a list has an attempt left (JobQueue), and     *)
(*   KeptInv    a job that is neither done nor dropped is somewhere;       *)
(*   ArrayInv   a job is in one place (MemoryQueue);                       *)
(*   IInv       rows hold what their locks protect (Publishing), StoreInv  *)
(*              and SureInv what the store holds for them, VersionInv what *)
(*              uploads say of their version;                              *)
(*   PageInv    what a page awaits is so when it is answered               *)
(*              (ProjectAdmin).                                            *)
(* SoloInv, for the refinement of the queue in Redis, holds only while its *)
(* one worker lives.                                                       *)
(***************************************************************************)
EXTENDS MCUploads, FiniteSetTheorems, SequenceTheorems, WellFoundedInduction, TLAPS

-------------------------------------------------------------------------------
(* Sums over sets.  What MapThenSumSet computes is not within reach of the  *)
(* induction theorems of the library, which take the predicate as an        *)
(* operator; a smallest set for which a claim fails serves as well.         *)

LEMMA SmallestSet ==
  ASSUME NEW S, IsFiniteSet(S), NEW C \in SUBSET SUBSET S, C # {}
  PROVE  \E T \in C : \A U \in C : ~(U \subseteq T /\ U # T)
<1>1. IsWellFoundedOn(StrictSubsetOrdering(S), FiniteSubsetsOf(S))
  BY FS_StrictSubsetOrderingWellFounded
<1>2. C \subseteq FiniteSubsetsOf(S)
  BY FS_Subset DEF FiniteSubsetsOf
<1>3. PICK T \in C : \A U \in C : ~(<<U, T>> \in StrictSubsetOrdering(S))
  BY <1>1, <1>2, WFMin
<1>4. \A U \in C : ~(U \subseteq T /\ U # T)
  BY <1>3 DEF StrictSubsetOrdering
<1> QED BY <1>4

\* The element with which the definition of the sum begins.
AnyOf(s) == CHOOSE x \in s : TRUE

\* g sums the sizes of f over every subset of T.
Sums(g, f, T) ==
    g = [s \in SUBSET T |-> IF s = {} THEN 0 ELSE f[AnyOf(s)].size + g[s \ {AnyOf(s)}]]

\* The sum as a recursive function over sets, which the provers can unfold.
TheSums(f, T) == CHOOSE g : Sums(g, f, T)

Sum(f, T) == TheSums(f, T)[T]

LEMMA SumIs ==
  ASSUME NEW f, NEW T
  PROVE  Scan!MapThenSumSet(LAMBDA i : f[i].size, T) = Sum(f, T)
BY DEF Scan!MapThenSumSet, Scan!MapThenFoldSet, Sum, TheSums, Sums, AnyOf

LEMMA AnyIn == ASSUME NEW T, T # {} PROVE AnyOf(T) \in T
BY DEF AnyOf

LEMMA SumsAgree ==
  ASSUME NEW f, NEW S, IsFiniteSet(S), NEW T \in SUBSET S, NEW g, NEW h,
         Sums(g, f, S), Sums(h, f, T)
  PROVE  \A U \in SUBSET T : g[U] = h[U]
<1> DEFINE C == {U \in SUBSET T : g[U] # h[U]}
<1> SUFFICES ASSUME C # {} PROVE FALSE
  OBVIOUS
<1>1. C \in SUBSET SUBSET S
  OBVIOUS
<1>2. PICK U \in C : \A V \in C : ~(V \subseteq U /\ V # U)
  <2> HIDE DEF C
  <2> QED BY <1>1, SmallestSet
<1>3. U \in SUBSET S /\ U \in SUBSET T
  OBVIOUS
<1>4. g[U] = IF U = {} THEN 0 ELSE f[AnyOf(U)].size + g[U \ {AnyOf(U)}]
  BY <1>3 DEF Sums
<1>5. h[U] = IF U = {} THEN 0 ELSE f[AnyOf(U)].size + h[U \ {AnyOf(U)}]
  BY <1>3 DEF Sums
<1>6. U # {} => g[U \ {AnyOf(U)}] = h[U \ {AnyOf(U)}]
  <2> SUFFICES ASSUME U # {} PROVE g[U \ {AnyOf(U)}] = h[U \ {AnyOf(U)}]
    OBVIOUS
  <2>1. AnyOf(U) \in U
    BY AnyIn
  <2>2. U \ {AnyOf(U)} \in SUBSET T /\ U \ {AnyOf(U)} \subseteq U /\ U \ {AnyOf(U)} # U
    BY <1>3, <2>1
  <2> QED BY <1>2, <2>2
<1> QED BY <1>4, <1>5, <1>6

LEMMA SumsExist ==
  ASSUME NEW f, NEW S, IsFiniteSet(S)
  PROVE  \A T \in SUBSET S : Sums(TheSums(f, T), f, T)
<1> DEFINE Has(T) == \E g : Sums(g, f, T)
<1>1. \A T : Has(T) => Sums(TheSums(f, T), f, T)
  BY DEF TheSums
<1> DEFINE C == {T \in SUBSET S : ~Has(T)}
<1> SUFFICES ASSUME C # {} PROVE FALSE
  BY <1>1
<1>2. PICK T \in C : \A V \in C : ~(V \subseteq T /\ V # T)
  <2>1. C \in SUBSET SUBSET S
    OBVIOUS
  <2> HIDE DEF C
  <2> QED BY <2>1, SmallestSet
<1>3. T \in SUBSET S /\ ~Has(T)
  OBVIOUS
<1>4. \A U \in SUBSET T : U # T => Sums(TheSums(f, U), f, U)
  <2> HIDE DEF Has
  <2> QED BY <1>1, <1>2, <1>3
<1> DEFINE G == [s \in SUBSET T |->
                   IF s = {} THEN 0 ELSE f[AnyOf(s)].size + Sum(f, s \ {AnyOf(s)})]
<1>5. ASSUME NEW U \in SUBSET T, U # T PROVE G[U] = Sum(f, U)
  <2>1. Sums(TheSums(f, U), f, U)
    BY <1>4, <1>5
  <2>2. Sum(f, U) = IF U = {} THEN 0
                    ELSE f[AnyOf(U)].size + TheSums(f, U)[U \ {AnyOf(U)}]
    BY <2>1 DEF Sums, Sum
  <2>3. G[U] = IF U = {} THEN 0 ELSE f[AnyOf(U)].size + Sum(f, U \ {AnyOf(U)})
    OBVIOUS
  <2>4. U # {} => TheSums(f, U)[U \ {AnyOf(U)}] = Sum(f, U \ {AnyOf(U)})
    <3> SUFFICES ASSUME U # {}
                 PROVE  TheSums(f, U)[U \ {AnyOf(U)}] = Sum(f, U \ {AnyOf(U)})
      OBVIOUS
    <3> DEFINE V == U \ {AnyOf(U)}
    <3>1. V \in SUBSET T /\ V \in SUBSET U /\ V # T
      BY AnyIn
    <3>2. Sums(TheSums(f, V), f, V)
      BY <1>4, <3>1
    <3>3. IsFiniteSet(U)
      BY <1>3, FS_Subset
    <3>4. TheSums(f, U)[V] = TheSums(f, V)[V]
      <4> HIDE DEF V
      <4> QED BY <2>1, <3>1, <3>2, <3>3, SumsAgree
    <3> QED BY <3>4 DEF Sum
  <2> HIDE DEF G
  <2> QED BY <2>2, <2>3, <2>4
<1>6. G = [s \in SUBSET T |-> IF s = {} THEN 0 ELSE f[AnyOf(s)].size + G[s \ {AnyOf(s)}]]
  <2>1. ASSUME NEW s \in SUBSET T, s # {} PROVE G[s \ {AnyOf(s)}] = Sum(f, s \ {AnyOf(s)})
    <3>1. AnyOf(s) \in s
      BY <2>1, AnyIn
    <3>2. s \ {AnyOf(s)} \in SUBSET T /\ s \ {AnyOf(s)} # T
      BY <3>1
    <3> HIDE DEF G
    <3> QED BY <1>5, <3>2
  <2>2. \A s \in SUBSET T :
            (IF s = {} THEN 0 ELSE f[AnyOf(s)].size + Sum(f, s \ {AnyOf(s)}))
          = (IF s = {} THEN 0 ELSE f[AnyOf(s)].size + G[s \ {AnyOf(s)}])
    <3> HIDE DEF G
    <3> QED BY <2>1
  <2> QED BY <2>2
<1>7. Sums(G, f, T)
  <2> HIDE DEF G
  <2> QED BY <1>6 DEF Sums
<1> HIDE DEF G
<1> QED BY <1>3, <1>7

LEMMA SumUnfolds ==
  ASSUME NEW f, NEW S, IsFiniteSet(S)
  PROVE  Sum(f, S) = IF S = {} THEN 0 ELSE f[AnyOf(S)].size + Sum(f, S \ {AnyOf(S)})
<1>1. Sums(TheSums(f, S), f, S)
  BY SumsExist
<1>2. Sum(f, S) = IF S = {} THEN 0 ELSE f[AnyOf(S)].size + TheSums(f, S)[S \ {AnyOf(S)}]
  BY <1>1 DEF Sums, Sum
<1>3. TheSums(f, S)[S \ {AnyOf(S)}] = Sum(f, S \ {AnyOf(S)})
  <2> DEFINE V == S \ {AnyOf(S)}
  <2>1. V \in SUBSET S
    OBVIOUS
  <2>2. Sums(TheSums(f, V), f, V)
    BY <2>1, SumsExist
  <2>3. TheSums(f, S)[V] = TheSums(f, V)[V]
    <3> HIDE DEF V
    <3> QED BY <1>1, <2>1, <2>2, SumsAgree
  <2> QED BY <2>3 DEF Sum
<1> QED BY <1>2, <1>3

LEMMA SumInNat ==
  ASSUME NEW f, NEW S, IsFiniteSet(S), \A x \in S : f[x].size \in Nat
  PROVE  \A T \in SUBSET S : Sum(f, T) \in Nat
<1> DEFINE C == {T \in SUBSET S : Sum(f, T) \notin Nat}
<1> SUFFICES ASSUME C # {} PROVE FALSE
  OBVIOUS
<1>1. PICK T \in C : \A V \in C : ~(V \subseteq T /\ V # T)
  <2>1. C \in SUBSET SUBSET S
    OBVIOUS
  <2> HIDE DEF C
  <2> QED BY <2>1, SmallestSet
<1>2. T \in SUBSET S /\ IsFiniteSet(T)
  BY FS_Subset
<1>3. Sum(f, T) = IF T = {} THEN 0 ELSE f[AnyOf(T)].size + Sum(f, T \ {AnyOf(T)})
  BY <1>2, SumUnfolds
<1>4. T # {} => AnyOf(T) \in T /\ Sum(f, T \ {AnyOf(T)}) \in Nat
  BY <1>1, <1>2, AnyIn
<1> QED BY <1>1, <1>2, <1>3, <1>4

LEMMA SumAddsOne ==
  ASSUME NEW f, NEW S, IsFiniteSet(S), \A x \in S : f[x].size \in Nat
  PROVE  \A T \in SUBSET S : \A x \in S \ T : Sum(f, T \cup {x}) = f[x].size + Sum(f, T)
<1> DEFINE C == {T \in SUBSET S : \E x \in S \ T : Sum(f, T \cup {x}) # f[x].size + Sum(f, T)}
<1> SUFFICES ASSUME C # {} PROVE FALSE
  OBVIOUS
<1>1. PICK T \in C : \A V \in C : ~(V \subseteq T /\ V # T)
  <2>1. C \in SUBSET SUBSET S
    OBVIOUS
  <2> HIDE DEF C
  <2> QED BY <2>1, SmallestSet
<1>2. PICK x \in S \ T : Sum(f, T \cup {x}) # f[x].size + Sum(f, T)
  BY <1>1
<1>3. T \in SUBSET S /\ IsFiniteSet(T) /\ IsFiniteSet(T \cup {x})
  BY FS_Subset, FS_AddElement
<1> DEFINE c == AnyOf(T \cup {x})
<1>4. c \in T \cup {x} /\ Sum(f, T \cup {x}) = f[c].size + Sum(f, (T \cup {x}) \ {c})
  BY <1>3, SumUnfolds, AnyIn
<1> HIDE DEF c
<1>5. c # x
  <2> SUFFICES ASSUME c = x PROVE FALSE
    OBVIOUS
  <2>1. (T \cup {x}) \ {x} = T
    BY <1>2
  <2> QED BY <1>2, <1>4, <2>1
<1> DEFINE V == T \ {c}
<1>6. /\ c \in T /\ V \in SUBSET S /\ V \subseteq T /\ V # T
      /\ (T \cup {x}) \ {c} = V \cup {x} /\ V \cup {c} = T
      /\ x \in S \ V /\ c \in S \ V
  BY <1>3, <1>4, <1>5, <1>2
<1>7. V \notin C
  <2> HIDE DEF C, V
  <2> QED BY <1>1, <1>6
<1>8. Sum(f, V \cup {x}) = f[x].size + Sum(f, V) /\ Sum(f, V \cup {c}) = f[c].size + Sum(f, V)
  <2> HIDE DEF V
  <2> QED BY <1>6, <1>7
<1>9. Sum(f, V) \in Nat /\ f[x].size \in Nat /\ f[c].size \in Nat
  <2> HIDE DEF V, C
  <2> QED BY <1>6, SumInNat
<1> HIDE DEF V, C
<1>10. Sum(f, T \cup {x}) = f[c].size + Sum(f, V \cup {x})
  BY <1>4, <1>6
<1>11. Sum(f, T) = f[c].size + Sum(f, V)
  BY <1>6, <1>8
<1>12. Sum(f, T \cup {x}) = f[x].size + Sum(f, T)
  BY <1>8, <1>9, <1>10, <1>11
<1> QED BY <1>2, <1>12

-------------------------------------------------------------------------------
(* The scan of a package (Scanner).  A finding is never taken back, so what *)
(* is known of the entries read so far is known of all of them when the     *)
(* archive ends without one.                                                *)

\* Findings after which no entry's stream is opened any more.
Refusals == {"too_many_entries", "uncompressed_size_limit", "encrypted_entry",
             "unsupported_compression"}

\* Entries whose stream was opened.
Opened == scanned \cup (IF phase = "streaming" THEN {entries} ELSE {})

\* The reader is only started for a ZIP file that is what it says.
StartInv ==
    /\ phase = "start" => entries = 0 /\ total = 0 /\ findings = {} /\ scanned = {} /\ ~ok
    /\ phase # "start" => Scan!Magic(file) \subseteq findings \/ phase = "settled"
    /\ phase \in {"reading", "streaming"} =>
          ~Scan!Unsupported(file) /\ file.ext = "zip" /\ file.magic = "zip"
    /\ ok /\ file.ext = "zip" => entries = Len(archive)

\* What the entries read so far have left in the findings.
FoundInv ==
    /\ total = Sum(archive, 1..entries)
    /\ "too_many_entries" \notin findings => entries <= MaxEntries
    /\ "uncompressed_size_limit" \notin findings => total <= MaxBytes
    /\ \A i \in 1..entries :
          /\ archive[i].name # "plain" => archive[i].name \in findings
          /\ archive[i].encrypted => "encrypted_entry" \in findings
          /\ ~archive[i].dir => i \in Opened \/ findings # {}
          /\ archive[i].secret /\ i \in scanned => "secret" \in findings

\* The streams that were opened, and their sizes.
OpenInv ==
    /\ phase = "streaming" => entries > 0
    /\ \A i \in Opened : i <= MaxEntries /\ archive[i].size <= MaxEntryBytes
    /\ Sum(archive, Opened) <= total
    /\ Sum(archive, Opened) <= MaxBytes

ScanInv == Scan!TypeOK /\ StartInv /\ FoundInv /\ OpenInv /\ Scan!HeaderAgrees

\* What an entry is, whatever its sizes.
Chars == [dir : BOOLEAN, size : Nat, packed : Nat, encrypted : BOOLEAN, method : Nat,
          name : {"plain", "slip", "symlink", "suspicious"}, secret : BOOLEAN]

LEMMA EntriesTyped == Entries \subseteq Chars
<1>1. Sound \in Chars
  BY DEF Sound, Chars
<1>2. \A e \in Chars :
        /\ [e EXCEPT !.dir = TRUE, !.size = 0, !.packed = 0] \in Chars
        /\ [e EXCEPT !.size = 3] \in Chars
        /\ [e EXCEPT !.size = 4, !.packed = 2] \in Chars
        /\ [e EXCEPT !.packed = 0] \in Chars
        /\ [e EXCEPT !.encrypted = TRUE] \in Chars
        /\ [e EXCEPT !.method = 9] \in Chars
        /\ [e EXCEPT !.name = "slip"] \in Chars
        /\ [e EXCEPT !.secret = TRUE] \in Chars
  BY DEF Chars
<1> QED BY <1>1, <1>2 DEF Entries

LEMMA ArchiveTyped ==
  ASSUME archive \in BoundedSeq(Entries, MaxLength)
  PROVE  archive \in Seq(Chars)
<1>1. PICK n \in 0..MaxLength : archive \in [1..n -> Entries]
  BY DEF BoundedSeq, SeqOf
<1>2. n \in Nat
  BY UploadsAssumption
<1>3. archive \in [1..n -> Chars]
  BY <1>1, EntriesTyped
<1> QED BY <1>2, <1>3, SeqDef

\* The entries a state speaks of.
LEMMA EntryTyped ==
  ASSUME Scan!TypeOK
  PROVE  /\ Len(archive) \in Nat /\ entries \in Nat /\ entries <= Len(archive)
         /\ \A i \in 1..Len(archive) : archive[i] \in Chars /\ archive[i].size \in Nat
         /\ Opened \subseteq 0..entries
         /\ (phase = "streaming" => entries > 0) => Opened \subseteq 1..entries
<1>1. archive \in Seq(Chars)
  BY ArchiveTyped DEF Scan!TypeOK
<1>2. Len(archive) \in Nat /\ \A i \in 1..Len(archive) : archive[i] \in Chars
  BY <1>1
<1>3. entries \in Nat /\ entries <= Len(archive)
  BY <1>2 DEF Scan!TypeOK
<1>4. \A i \in 1..Len(archive) : archive[i].size \in Nat
  BY <1>2 DEF Chars
<1>5. Opened \subseteq 0..entries
  BY <1>3 DEF Scan!TypeOK, Opened
<1>6. (phase = "streaming" => entries > 0) => Opened \subseteq 1..entries
  BY <1>3 DEF Scan!TypeOK, Opened
<1> QED BY <1>2, <1>3, <1>4, <1>5, <1>6

\* Sums over entries: they are numbers, and one more entry adds its size.
LEMMA SumOfEntries ==
  ASSUME Scan!TypeOK
  PROVE  /\ Sum(archive, {}) = 0
         /\ \A T \in SUBSET (1..Len(archive)) : Sum(archive, T) \in Nat
         /\ \A T \in SUBSET (1..Len(archive)) : \A x \in (1..Len(archive)) \ T :
               Sum(archive, T \cup {x}) = archive[x].size + Sum(archive, T)
<1>1. Len(archive) \in Nat /\ \A i \in 1..Len(archive) : archive[i].size \in Nat
  BY EntryTyped
<1>2. IsFiniteSet(1..Len(archive)) /\ IsFiniteSet({})
  BY <1>1, FS_Interval, FS_EmptySet
<1>3. Sum(archive, {}) = 0
  BY <1>2, SumUnfolds
<1>4. \A T \in SUBSET (1..Len(archive)) : Sum(archive, T) \in Nat
  BY <1>1, <1>2, SumInNat
<1>5. \A T \in SUBSET (1..Len(archive)) : \A x \in (1..Len(archive)) \ T :
        Sum(archive, T \cup {x}) = archive[x].size + Sum(archive, T)
  BY <1>1, <1>2, SumAddsOne
<1> QED BY <1>3, <1>4, <1>5

LEMMA ScanInit == Scan!Init => ScanInv
<1> SUFFICES ASSUME Scan!Init PROVE ScanInv
  OBVIOUS
<1>1. archive \in Seq(Chars)
  BY ArchiveTyped DEF Scan!Init
<1>2. Len(archive) \in Nat
  BY <1>1
<1>3. Scan!TypeOK
  <2>1. entries \in 0..Len(archive) /\ total \in Nat
    BY <1>2 DEF Scan!Init
  <2> QED BY <2>1 DEF Scan!Init, Scan!TypeOK
<1>4. Sum(archive, {}) = 0
  BY <1>3, SumOfEntries
<1>5. 1..entries = {} /\ Opened = {}
  BY DEF Scan!Init, Opened
<1>6. MaxEntries \in Nat /\ MaxBytes \in Nat
  BY UploadsAssumption DEF Scan!ScannerAssumption
<1>7. StartInv /\ Scan!HeaderAgrees
  BY DEF Scan!Init, StartInv, Scan!HeaderAgrees
<1>8. FoundInv
  BY <1>4, <1>5, <1>6 DEF Scan!Init, FoundInv
<1>9. OpenInv
  BY <1>4, <1>5, <1>6 DEF Scan!Init, OpenInv
<1> QED BY <1>3, <1>7, <1>8, <1>9 DEF ScanInv

\* Steps that open no stream and end none well.
LEMMA ClosedKeeps ==
  ASSUME ScanInv, UNCHANGED <<archive, entries, total, scanned>>,
         findings \subseteq findings', phase' # "streaming",
         phase = "streaming" => findings' # {}
  PROVE  FoundInv' /\ OpenInv'
<1>1. /\ Scan!TypeOK /\ FoundInv /\ OpenInv
      /\ entries \in Nat /\ Opened \subseteq 1..entries
      /\ \A i \in 1..Len(archive) : archive[i].size \in Nat
      /\ entries <= Len(archive) /\ Len(archive) \in Nat
  BY EntryTyped DEF ScanInv, OpenInv
<1>2. Opened' = scanned
  BY DEF Opened
<1>3. scanned \subseteq Opened /\ (phase # "streaming" => Opened = scanned)
      /\ (phase = "streaming" => Opened = scanned \cup {entries} /\ entries > 0)
  BY <1>1 DEF Opened, OpenInv
<1>4. Sum(archive, scanned) <= Sum(archive, Opened)
  <2>1. scanned \in SUBSET (1..Len(archive)) /\ Opened \in SUBSET (1..Len(archive))
    BY <1>1, <1>3
  <2>2. Sum(archive, scanned) \in Nat /\ Sum(archive, Opened) \in Nat
    BY <1>1, <2>1, SumOfEntries
  <2>3. CASE phase = "streaming" /\ entries \notin scanned
    <3>1. entries \in (1..Len(archive)) \ scanned /\ Opened = scanned \cup {entries}
      BY <1>1, <1>3, <2>3
    <3>2. Sum(archive, Opened) = archive[entries].size + Sum(archive, scanned)
      BY <1>1, <2>1, <3>1, SumOfEntries
    <3>3. archive[entries].size \in Nat
      BY <1>1, <3>1
    <3> QED BY <2>2, <3>2, <3>3
  <2>4. CASE ~(phase = "streaming" /\ entries \notin scanned)
    <3>1. Opened = scanned
      BY <1>3, <2>4
    <3> QED BY <2>2, <3>1
  <2> QED BY <2>3, <2>4
<1>5. MaxBytes \in Nat /\ total \in Nat
  BY <1>1, UploadsAssumption DEF Scan!ScannerAssumption, Scan!TypeOK
<1>6. Sum(archive, scanned) \in Nat /\ Sum(archive, Opened) \in Nat
  BY <1>1, <1>3, SumOfEntries
<1>7. Sum(archive, 1..entries)' = Sum(archive, 1..entries)
  OBVIOUS
<1>8. FoundInv'
  <2>1. \A i \in 1..entries : ~archive[i].dir => i \in scanned \/ findings' # {}
    BY <1>1, <1>3 DEF FoundInv
  <2> QED BY <1>1, <1>2, <1>7, <2>1 DEF FoundInv
<1>9. Sum(archive, Opened)' = Sum(archive, scanned)
  BY <1>2
<1>10. OpenInv'
  BY <1>1, <1>2, <1>3, <1>4, <1>5, <1>6, <1>9 DEF OpenInv
<1> QED BY <1>8, <1>10

\* The steps before the archive is read.
LEMMA HeaderKeeps ==
  ASSUME ScanInv,
         Scan!RejectFormat \/ Scan!ScanText \/ Scan!OpenArchive \/ Scan!BadZip
  PROVE  ScanInv'
<1> USE DEF Scan!RejectFormat, Scan!ScanText, Scan!OpenArchive, Scan!BadZip, Scan!Settle
<1>1. /\ phase = "start" /\ entries = 0 /\ total = 0 /\ findings = {} /\ scanned = {} /\ ~ok
      /\ UNCHANGED <<file, archive, entries, total, scanned>>
      /\ phase' \in {"reading", "settled"}
      /\ Scan!TypeOK
  BY DEF ScanInv, StartInv
<1>2. /\ file \in AllFiles
      /\ Scan!Magic(file) \subseteq Scan!FindingNames
      /\ Scan!Secrets(file.secret) \subseteq Scan!FindingNames
  BY <1>1 DEF Scan!Magic, Scan!Secrets, Scan!FindingNames, Scan!TypeOK
<1>3. findings' \subseteq Scan!FindingNames
  BY <1>1, <1>2 DEF Scan!FindingNames
<1>4. ok' \in BOOLEAN /\ (ok' => phase' = "settled" /\ findings' = {})
  <2>1. CASE Scan!OpenArchive
    BY <1>1, <2>1 DEF Scan!TypeOK
  <2>2. CASE ~Scan!OpenArchive
    <3>1. phase' = "settled" /\ ok' = (findings' = {})
      BY <2>2
    <3> QED BY <3>1
  <2> QED BY <2>1, <2>2
<1>5. Scan!TypeOK'
  BY <1>1, <1>3, <1>4 DEF Scan!TypeOK
<1>6. FoundInv' /\ OpenInv'
  BY <1>1, ClosedKeeps
<1>7. StartInv'
  <2>1. ok' => file.ext # "zip"
    BY <1>1
  <2>2. phase' = "reading" => /\ findings' = Scan!Magic(file)
                              /\ ~Scan!Unsupported(file) /\ file.ext = "zip"
                              /\ file.magic = "zip"
    BY <1>1
  <2>3. /\ Scan!Magic(file)' = Scan!Magic(file)
        /\ Scan!Unsupported(file)' = Scan!Unsupported(file)
    BY <1>1
  <2> QED BY <1>1, <2>1, <2>2, <2>3 DEF StartInv
<1>8. Scan!HeaderAgrees'
  <2>1. ok' => /\ ~Scan!Unsupported(file) /\ file.ext # "zip"
               /\ Scan!Magic(file) = {} /\ Scan!Secrets(file.secret) = {}
    BY <1>1
  <2>2. ok' => Scan!HeaderAgrees'
    BY <1>1, <1>2, <2>1
       DEF Scan!HeaderAgrees, Scan!Unsupported, Scan!Magic, Scan!Secrets, AllFiles
  <2> QED BY <2>2 DEF Scan!HeaderAgrees
<1> QED BY <1>5, <1>6, <1>7, <1>8 DEF ScanInv

\* The end of the archive, or of the reading of it.
LEMMA EndKeeps ==
  ASSUME ScanInv, Scan!ReadFails \/ Scan!End
  PROVE  ScanInv'
<1> USE DEF Scan!ReadFails, Scan!End, Scan!Settle
<1>1. /\ phase = "reading" /\ phase' = "settled"
      /\ UNCHANGED <<file, archive, entries, total, scanned>>
      /\ Scan!TypeOK /\ StartInv
      /\ findings \subseteq findings'
  BY DEF ScanInv
<1>2. findings' \subseteq Scan!FindingNames
  BY <1>1 DEF Scan!FindingNames, Scan!TypeOK
<1>3. ok' \in BOOLEAN /\ (ok' => phase' = "settled" /\ findings' = {})
  BY <1>1
<1>4. Scan!TypeOK'
  BY <1>1, <1>2, <1>3 DEF Scan!TypeOK
<1>5. FoundInv' /\ OpenInv'
  BY <1>1, ClosedKeeps
<1>6. ok' => entries = Len(archive) /\ Scan!Magic(file) = {}
  BY <1>1 DEF StartInv
<1>7. ~Scan!Unsupported(file) /\ file.ext = "zip" /\ file.magic = "zip" /\ file \in AllFiles
  BY <1>1 DEF StartInv, Scan!TypeOK
<1>8. StartInv'
  BY <1>1, <1>6 DEF StartInv
<1>9. Scan!HeaderAgrees'
  BY <1>1, <1>6, <1>7 DEF Scan!HeaderAgrees, Scan!Unsupported, Scan!Magic, AllFiles
<1> QED BY <1>4, <1>5, <1>8, <1>9 DEF ScanInv

LEMMA StreamKeeps ==
  ASSUME ScanInv, Scan!StreamFails \/ Scan!StreamEnds
  PROVE  ScanInv'
<1> USE DEF Scan!StreamFails, Scan!StreamEnds
<1>1. /\ phase = "streaming" /\ phase' = "reading"
      /\ UNCHANGED <<file, archive, entries, total, ok>>
      /\ Scan!TypeOK /\ StartInv /\ FoundInv /\ OpenInv
      /\ findings \subseteq findings'
      /\ entries > 0 /\ ~ok
  BY DEF ScanInv, OpenInv, Scan!TypeOK
<1>2. entries \in Nat /\ entries <= Len(archive) /\ Len(archive) \in Nat
  BY <1>1, EntryTyped
<1>3. findings' \subseteq Scan!FindingNames
  BY <1>1 DEF Scan!FindingNames, Scan!TypeOK, Scan!Secrets
<1>4. scanned' \subseteq 1..entries
  <2>1. entries \in 1..entries
    BY <1>1, <1>2
  <2> QED BY <1>1, <2>1 DEF Scan!TypeOK
<1>5. Scan!TypeOK'
  BY <1>1, <1>3, <1>4 DEF Scan!TypeOK
<1>6. StartInv' /\ Scan!HeaderAgrees'
  BY <1>1 DEF StartInv, Scan!HeaderAgrees
<1>7. CASE Scan!StreamFails
  <2>1. FoundInv' /\ OpenInv'
    BY <1>1, <1>7, ClosedKeeps
  <2> QED BY <1>5, <1>6, <2>1 DEF ScanInv
<1>8. CASE Scan!StreamEnds
  <2>1. Opened' = Opened /\ scanned' = scanned \cup {entries}
    BY <1>1, <1>8 DEF Opened
  <2>2. OpenInv'
    BY <1>1, <2>1 DEF OpenInv
  <2>3. archive[entries].secret => "secret" \in findings'
    BY <1>8 DEF Scan!Secrets
  <2>4. FoundInv'
    BY <1>1, <2>1, <2>3 DEF FoundInv
  <2> QED BY <1>5, <1>6, <2>2, <2>4 DEF ScanInv
<1> QED BY <1>7, <1>8

\* The next entry.  A stream is opened for it only while no limit is exceeded.
LEMMA EntryKeeps ==
  ASSUME ScanInv, Scan!Entry
  PROVE  ScanInv'
<1> DEFINE n == entries + 1
           e == archive[n]
           sum == total + e.size
           found == findings \cup Scan!Flaws(e, n, sum)
<1>1. /\ phase = "reading" /\ entries < Len(archive)
      /\ entries' = n /\ total' = sum /\ findings' = found
      /\ phase' = Scan!AfterEntry(e, found)
      /\ UNCHANGED <<file, archive, scanned, ok>>
  BY DEF Scan!Entry
<1>2. Scan!TypeOK /\ StartInv /\ FoundInv /\ OpenInv /\ Scan!HeaderAgrees /\ ~ok
  BY <1>1 DEF ScanInv, Scan!TypeOK
<1>3. /\ entries \in Nat /\ n \in 1..Len(archive) /\ n \in Nat /\ Len(archive) \in Nat
      /\ e \in Chars /\ e.size \in Nat
      /\ \A i \in 1..Len(archive) : archive[i] \in Chars /\ archive[i].size \in Nat
      /\ Opened \subseteq 1..entries
  <2>1. /\ entries \in Nat /\ Len(archive) \in Nat
        /\ \A i \in 1..Len(archive) : archive[i] \in Chars /\ archive[i].size \in Nat
        /\ Opened \subseteq 1..entries
    BY <1>2, EntryTyped DEF OpenInv
  <2>2. n \in 1..Len(archive) /\ n \in Nat
    BY <1>1, <2>1
  <2> HIDE DEF n
  <2> QED BY <2>1, <2>2
<1>4. total \in Nat /\ sum \in Nat
  <2>1. total \in Nat
    BY <1>2 DEF Scan!TypeOK
  <2> HIDE DEF e
  <2> QED BY <1>3, <2>1
<1>5. /\ MaxEntries \in Nat /\ MaxEntryBytes \in Nat /\ MaxBytes \in Nat
  BY UploadsAssumption DEF Scan!ScannerAssumption
<1>6. Opened = scanned /\ Opened' = scanned \cup (IF phase' = "streaming" THEN {n} ELSE {})
  BY <1>1 DEF Opened
<1>7. /\ n \notin scanned
      /\ scanned \in SUBSET (1..Len(archive)) /\ scanned \subseteq 1..entries
      /\ 1..n = (1..entries) \cup {n} /\ n \notin 1..entries
      /\ 1..entries \in SUBSET (1..Len(archive))
  <2>1. scanned \subseteq 1..entries
    BY <1>3, <1>6
  <2>2. entries \in Nat /\ Len(archive) \in Nat /\ entries < Len(archive)
    BY <1>1, <1>3
  <2> QED BY <2>1, <2>2
<1>8. /\ Sum(archive, 1..n) = e.size + Sum(archive, 1..entries)
      /\ Sum(archive, scanned \cup {n}) = e.size + Sum(archive, scanned)
      /\ Sum(archive, scanned) \in Nat
  <2> HIDE DEF n
  <2> QED BY <1>2, <1>3, <1>7, SumOfEntries
<1>9. /\ n > MaxEntries => "too_many_entries" \in found
      /\ e.size > MaxEntryBytes \/ sum > MaxBytes => "uncompressed_size_limit" \in found
      /\ e.encrypted => "encrypted_entry" \in found
      /\ e.name # "plain" => e.name \in found
      /\ findings \subseteq found
      /\ found \subseteq Scan!FindingNames
  <2>1. e.name # "plain" => e.name \in {"slip", "symlink", "suspicious"}
    BY <1>3 DEF Chars
  <2>2. findings \subseteq Scan!FindingNames
    BY <1>2 DEF Scan!TypeOK
  <2> HIDE DEF n, e, sum
  <2> QED BY <2>1, <2>2 DEF Scan!Flaws, Scan!FindingNames
<1>10. /\ phase' \in {"reading", "streaming"}
       /\ phase' = "streaming" => found \cap Refusals = {}
       /\ phase' = "reading" => e.dir \/ found \cap Refusals # {}
  <2> HIDE DEF e, found
  <2> QED BY <1>1 DEF Scan!AfterEntry, Scan!Skip, Refusals
<1>11. phase' = "streaming" => n <= MaxEntries /\ e.size <= MaxEntryBytes /\ sum <= MaxBytes
  <2> HIDE DEF n, e, sum, found
  <2> QED BY <1>3, <1>4, <1>5, <1>9, <1>10 DEF Refusals
<1> HIDE DEF n, e, sum, found
<1>12. Scan!TypeOK'
  <2>1. scanned \subseteq 1..n
    BY <1>7
  <2>2. n \in 0..Len(archive)
    BY <1>3
  <2> QED BY <1>1, <1>2, <1>4, <1>9, <1>10, <2>1, <2>2 DEF Scan!TypeOK
<1>13. StartInv'
  BY <1>1, <1>2, <1>9, <1>10 DEF StartInv
<1>14. OpenInv'
  <2>1. CASE phase' = "streaming"
    <3>1. Opened' = scanned \cup {n} /\ Sum(archive, Opened)' = e.size + Sum(archive, scanned)
      BY <1>1, <1>6, <1>8, <2>1
    <3>2. \A i \in Opened' : i <= MaxEntries /\ archive[i].size <= MaxEntryBytes
      BY <1>2, <1>6, <1>11, <2>1, <3>1 DEF OpenInv, e
    <3>3. Sum(archive, scanned) <= total
      BY <1>2, <1>6 DEF OpenInv
    <3>4. e.size + Sum(archive, scanned) <= sum
      BY <1>3, <1>4, <1>8, <3>3 DEF sum
    <3>5. e.size + Sum(archive, scanned) <= MaxBytes
      BY <1>3, <1>4, <1>5, <1>8, <1>11, <2>1, <3>4
    <3>6. n > 0
      BY <1>3
    <3> QED BY <1>1, <3>1, <3>2, <3>4, <3>5, <3>6 DEF OpenInv
  <2>2. CASE phase' = "reading"
    <3>1. Opened' = scanned /\ Sum(archive, Opened)' = Sum(archive, scanned)
      BY <1>1, <1>6, <2>2
    <3>2. Sum(archive, scanned) <= sum
      BY <1>2, <1>3, <1>4, <1>6, <1>8 DEF OpenInv, sum
    <3> QED BY <1>1, <1>2, <1>6, <2>2, <3>1, <3>2 DEF OpenInv
  <2> QED BY <1>10, <2>1, <2>2
<1>15. FoundInv'
  <2>1. sum = Sum(archive, 1..n)
    BY <1>2, <1>3, <1>4, <1>8 DEF FoundInv, sum
  <2>2. /\ "too_many_entries" \notin found => n <= MaxEntries
        /\ "uncompressed_size_limit" \notin found => sum <= MaxBytes
    BY <1>3, <1>4, <1>5, <1>9
  <2>3. ~e.dir => n \in Opened' \/ found # {}
    BY <1>6, <1>10
  <2>4. \A i \in 1..entries :
          /\ archive[i].name # "plain" => archive[i].name \in found
          /\ archive[i].encrypted => "encrypted_entry" \in found
          /\ ~archive[i].dir => i \in Opened' \/ found # {}
          /\ archive[i].secret /\ i \in scanned => "secret" \in found
    BY <1>2, <1>6, <1>9 DEF FoundInv
  <2>5. \A i \in 1..n :
          /\ archive[i].name # "plain" => archive[i].name \in found
          /\ archive[i].encrypted => "encrypted_entry" \in found
          /\ ~archive[i].dir => i \in Opened' \/ found # {}
          /\ archive[i].secret /\ i \in scanned => "secret" \in found
    BY <1>7, <1>9, <2>3, <2>4 DEF e
  <2> QED BY <1>1, <2>1, <2>2, <2>5 DEF FoundInv
<1>16. Scan!HeaderAgrees'
  BY <1>1, <1>2 DEF Scan!HeaderAgrees
<1> QED BY <1>12, <1>13, <1>14, <1>15, <1>16 DEF ScanInv

LEMMA ScanStays == ASSUME ScanInv, UNCHANGED scan PROVE ScanInv'
<1>1. Opened' = Opened
  BY DEF scan, Opened
<1>2. Scan!TypeOK'
  BY DEF ScanInv, Scan!TypeOK, scan
<1>3. StartInv' /\ Scan!HeaderAgrees'
  BY DEF ScanInv, StartInv, Scan!HeaderAgrees, scan
<1>4. FoundInv' /\ OpenInv'
  BY <1>1 DEF ScanInv, FoundInv, OpenInv, scan
<1> QED BY <1>2, <1>3, <1>4 DEF ScanInv

LEMMA ScanInductive == ScanInv /\ [Scan!Next]_scan => ScanInv'
BY HeaderKeeps, EndKeeps, StreamKeeps, EntryKeeps, ScanStays DEF Scan!Next

\* What the invariant says of an accepted archive, and of every archive.
LEMMA ScanGives ==
  ASSUME ScanInv
  PROVE  /\ Scan!TypeOK /\ Scan!HeaderAgrees
         /\ Scan!AcceptedIsScanned /\ Scan!BoundedInflation
<1>1. /\ Scan!TypeOK /\ Scan!HeaderAgrees /\ StartInv /\ FoundInv /\ OpenInv
      /\ Opened \subseteq 1..entries /\ entries \in Nat
  BY EntryTyped DEF ScanInv, OpenInv
<1>2. archive \in Seq(Chars) /\ Len(archive) \in Nat /\ DOMAIN archive = 1..Len(archive)
  BY <1>1, ArchiveTyped DEF Scan!TypeOK
<1>3. /\ Scan!MapThenSumSet(LAMBDA i : archive[i].size, DOMAIN archive)
            = Sum(archive, DOMAIN archive)
      /\ Scan!MapThenSumSet(LAMBDA i : archive[i].size, Opened) = Sum(archive, Opened)
  BY SumIs
<1>4. Scan!BoundedInflation
  <2>1. Opened \subseteq 1..MaxEntries
    <3>1. MaxEntries \in Nat
      BY UploadsAssumption DEF Scan!ScannerAssumption
    <3>2. \A i \in Opened : i \in Nat /\ i >= 1 /\ i <= MaxEntries
      BY <1>1 DEF OpenInv
    <3> QED BY <3>1, <3>2
  <2> QED BY <1>1, <1>3, <2>1 DEF Scan!BoundedInflation, OpenInv, Opened
<1>5. Scan!AcceptedIsScanned
  <2> SUFFICES ASSUME ok, file.ext = "zip"
               PROVE  /\ entries = Len(archive)
                      /\ Len(archive) <= MaxEntries
                      /\ Sum(archive, DOMAIN archive) <= MaxBytes
                      /\ \A i \in DOMAIN archive :
                           /\ archive[i].name = "plain"
                           /\ ~archive[i].encrypted
                           /\ ~archive[i].dir => i \in scanned /\ ~archive[i].secret
    BY <1>3 DEF Scan!AcceptedIsScanned
  <2>1. phase = "settled" /\ findings = {} /\ entries = Len(archive)
    BY <1>1 DEF Scan!TypeOK, StartInv
  <2>2. Opened = scanned
    BY <2>1 DEF Opened
  <2> QED BY <1>1, <1>2, <2>1, <2>2 DEF FoundInv
<1> QED BY <1>1, <1>4, <1>5

-------------------------------------------------------------------------------
(* The queue in Redis (JobQueue), for any numbers of jobs and workers, with *)
(* failing commands and dying workers.  An entry that is still to be run    *)
(* has an attempt left, and a worker holds at most one.                     *)

LEMMA BagGrows ==
  ASSUME NEW b, Redis!IsBag(b), NEW e \in Redis!Entry
  PROVE  Redis!IsBag(Redis!BagAdd(b, e)) /\ DOMAIN Redis!BagAdd(b, e) = DOMAIN b \cup {e}
<1>1. CASE e \in DOMAIN b
  <2>1. Redis!BagAdd(b, e) = [x \in DOMAIN b |-> IF x = e THEN b[x] + 1 ELSE b[x]]
    BY <1>1 DEF Redis!BagAdd
  <2>2. \A x \in DOMAIN b : b[x] \in Nat \ {0} /\ b[x] + 1 \in Nat \ {0}
    BY DEF Redis!IsBag
  <2> QED BY <1>1, <2>1, <2>2 DEF Redis!IsBag
<1>2. CASE e \notin DOMAIN b
  <2>1. Redis!BagAdd(b, e) = [x \in DOMAIN b \cup {e} |-> IF x = e THEN 1 ELSE b[x]]
    BY <1>2 DEF Redis!BagAdd
  <2>2. \A x \in DOMAIN b : b[x] \in Nat \ {0}
    BY DEF Redis!IsBag
  <2> QED BY <1>2, <2>1, <2>2 DEF Redis!IsBag
<1> QED BY <1>1, <1>2

LEMMA BagShrinks ==
  ASSUME NEW b, Redis!IsBag(b), NEW e
  PROVE  /\ Redis!IsBag(Redis!BagRemove(b, e))
         /\ DOMAIN Redis!BagRemove(b, e) \subseteq DOMAIN b
         /\ DOMAIN b \ {e} \subseteq DOMAIN Redis!BagRemove(b, e)
<1>1. CASE e \in DOMAIN b /\ b[e] = 1
  <2>1. Redis!BagRemove(b, e) = [x \in DOMAIN b \ {e} |-> b[x]]
    BY <1>1 DEF Redis!BagRemove
  <2> QED BY <2>1 DEF Redis!IsBag
<1>2. CASE e \in DOMAIN b /\ b[e] # 1
  <2>1. Redis!BagRemove(b, e) = [x \in DOMAIN b |-> IF x = e THEN b[x] - 1 ELSE b[x]]
    BY <1>2 DEF Redis!BagRemove
  <2>2. \A x \in DOMAIN b : b[x] \in Nat \ {0}
    BY DEF Redis!IsBag
  <2>3. b[e] - 1 \in Nat \ {0}
    BY <1>2, <2>2
  <2> QED BY <2>1, <2>2, <2>3 DEF Redis!IsBag
<1>3. CASE e \notin DOMAIN b
  BY <1>3 DEF Redis!BagRemove
<1> QED BY <1>1, <1>2, <1>3

\* Entries that may be run once more.
Fresh == {e \in Redis!Entry : e.attempts < MaxAttempts}

HandsInv ==
    \A w \in Workers :
        /\ wPc[w] \in {"idle", "scan", "down"} => held[w] = {}
        /\ held[w] = {} \/ \E e \in Fresh : held[w] = {e}
        /\ moving[w] = {} \/ \E e \in Fresh : moving[w] = {e}
        /\ todo[w] \subseteq Fresh

ListsInv ==
    /\ DOMAIN ready \subseteq Fresh
    /\ DOMAIN processing \subseteq Fresh
    /\ DOMAIN delayed \subseteq Fresh

AckInv == \A w \in Workers : wPc[w] = "ack" => \A e \in held[w] : e.job \in done

RedisTyped ==
    /\ submitted \in SUBSET Jobs /\ done \in SUBSET Jobs
    /\ Redis!IsBag(ready) /\ Redis!IsBag(processing) /\ Redis!IsBag(delayed)
    /\ Redis!IsBag(dead)
    /\ wPc \in [Workers -> {"idle", "run", "ack", "nack", "requeue", "scan",
                       "reput", "catch", "down"}]
    /\ held \in [Workers -> SUBSET Redis!Entry]
    /\ todo \in [Workers -> SUBSET Redis!Entry]
    /\ moving \in [Workers -> SUBSET Redis!Entry]
    /\ runs \in [Jobs -> Nat]
    /\ dropped \in SUBSET Jobs
    /\ faults \in 0..MaxFaults

\* Any number of workers may hold entries, each of them one.
RedisInv == RedisTyped /\ HandsInv /\ ListsInv /\ AckInv

\* An entry in a list, or in a process's memory only.
InSight(e) ==
    \/ e \in DOMAIN ready \/ e \in DOMAIN processing
    \/ e \in DOMAIN delayed \/ e \in DOMAIN dead
    \/ \E w \in Workers : e \in Redis!Between(w)

KeptInv ==
    \A j \in submitted \ (done \cup dropped) : \E e \in Redis!Entry : InSight(e) /\ e.job = j

LEMMA KeptIsKept == KeptInv => Redis!JobKept
<1> SUFFICES ASSUME KeptInv, NEW j \in submitted \ (done \cup dropped) PROVE Redis!Somewhere(j)
  BY DEF Redis!JobKept
<1>1. PICK e \in Redis!Entry : InSight(e) /\ e.job = j
  BY DEF KeptInv
<1> QED BY <1>1 DEF InSight, Redis!Somewhere, Redis!BagToSet

\* A step that moves one entry, perhaps changed, keeps every job in sight that
\* is not done by then, or dropped.
LEMMA KeptByMove ==
  ASSUME KeptInv, submitted' = submitted, done \subseteq done', dropped \subseteq dropped',
         NEW e \in Redis!Entry, NEW f \in Redis!Entry, f.job = e.job,
         InSight(f)' \/ e.job \in done' \/ e.job \in dropped',
         \A x \in Redis!Entry \ {e} : InSight(x) => InSight(x)' \/ x.job \in dropped'
  PROVE  KeptInv'
<1> SUFFICES ASSUME NEW j \in submitted \ (done' \cup dropped')
             PROVE  \E x \in Redis!Entry : InSight(x)' /\ x.job = j
  BY DEF KeptInv
<1>1. PICK x \in Redis!Entry : InSight(x) /\ x.job = j
  BY DEF KeptInv
<1>2. CASE x = e
  BY <1>1, <1>2
<1>3. CASE x # e
  BY <1>1, <1>3
<1> QED BY <1>2, <1>3

LEMMA RedisGivesTypes == RedisInv => Redis!TypeOK
BY DEF RedisInv, RedisTyped, Redis!TypeOK

LEMMA RedisInit == Redis!Init => RedisInv /\ KeptInv
<1> SUFFICES ASSUME Redis!Init PROVE RedisInv /\ KeptInv
  OBVIOUS
<1>1. Redis!IsBag(Redis!EmptyBag) /\ DOMAIN Redis!EmptyBag = {}
  BY DEF Redis!IsBag, Redis!EmptyBag, Redis!SetToBag
<1>2. 0 \in 0..MaxFaults
  BY UploadsAssumption DEF Redis!JobQueueAssumption
<1>3. RedisTyped
  BY <1>1, <1>2 DEF RedisTyped, Redis!Init
<1>4. HandsInv /\ ListsInv /\ AckInv
  BY <1>1 DEF HandsInv, ListsInv, AckInv, Redis!Init
<1>5. KeptInv
  BY DEF KeptInv, Redis!Init
<1> QED BY <1>3, <1>4, <1>5 DEF RedisInv

LEMMA RetriedTyped ==
  ASSUME NEW e \in Fresh
  PROVE  /\ e \in Redis!Entry /\ e.job \in Jobs
         /\ Redis!Retried(e) \in Redis!Entry
         /\ Redis!Retried(e).job = e.job
         /\ ~Redis!Exhausted(e) => Redis!Retried(e) \in Fresh
         /\ Redis!Unstamped(e) \in Fresh /\ Redis!Unstamped(e) \in Redis!Entry
         /\ Redis!Unstamped(e).job = e.job
<1>1. e \in Redis!Entry /\ e.attempts \in 0..MaxAttempts /\ e.attempts < MaxAttempts
  BY DEF Fresh, Redis!Entry
<1>2. MaxAttempts \in Nat
  BY UploadsAssumption DEF Redis!JobQueueAssumption
<1>3. e.attempts + 1 \in 0..MaxAttempts
  BY <1>1, <1>2
<1>4. ~Redis!Exhausted(e) => e.attempts + 1 < MaxAttempts
  BY <1>1, <1>2 DEF Redis!Exhausted
<1> QED BY <1>1, <1>3, <1>4 DEF Fresh, Redis!Entry, Redis!Retried, Redis!Unstamped

\* Lists that lose or gain one entry.
LEMMA ListShrinks ==
  ASSUME NEW b, Redis!IsBag(b), DOMAIN b \subseteq Fresh, NEW e,
         NEW c, c \in {b, Redis!BagRemove(b, e)}
  PROVE  /\ Redis!IsBag(c) /\ DOMAIN c \subseteq Fresh
         /\ DOMAIN c \subseteq DOMAIN b /\ DOMAIN b \ {e} \subseteq DOMAIN c
BY BagShrinks

LEMMA ListGrows ==
  ASSUME NEW b, Redis!IsBag(b), DOMAIN b \subseteq Fresh, NEW e \in Fresh
  PROVE  /\ Redis!IsBag(Redis!BagAdd(b, e)) /\ DOMAIN Redis!BagAdd(b, e) \subseteq Fresh
         /\ DOMAIN Redis!BagAdd(b, e) = DOMAIN b \cup {e}
<1>1. e \in Redis!Entry
  BY RetriedTyped
<1>2. Redis!IsBag(Redis!BagAdd(b, e)) /\ DOMAIN Redis!BagAdd(b, e) = DOMAIN b \cup {e}
  BY <1>1, BagGrows
<1> QED BY <1>2

\* What the entries a worker has in memory are.
LEMMA HeldIsOne ==
  ASSUME RedisInv, NEW w \in Workers, NEW e,
         e \in held[w] \/ e \in moving[w] \/ e \in todo[w]
  PROVE  /\ e \in Fresh /\ e \in Redis!Entry /\ e.job \in Jobs
         /\ e \in held[w] => held[w] = {e}
         /\ e \in moving[w] => moving[w] = {e}
<1>1. HandsInv
  BY DEF RedisInv
<1>2. e \in Fresh
  BY <1>1 DEF HandsInv
<1> QED BY <1>1, <1>2, RetriedTyped DEF HandsInv

LEMMA ListedIsFresh ==
  ASSUME RedisInv, NEW e, e \in DOMAIN ready \/ e \in DOMAIN processing \/ e \in DOMAIN delayed
  PROVE  e \in Fresh /\ e \in Redis!Entry /\ e.job \in Jobs
<1>1. e \in Fresh
  BY DEF RedisInv, ListsInv
<1> QED BY <1>1, RetriedTyped

\* The steps between the lists and one worker's hands.
LEMMA ClaimKeeps ==
  ASSUME RedisInv, NEW w \in Workers, Redis!Claim(w)
  PROVE  RedisInv' /\ (KeptInv => KeptInv')
<1>1. RedisTyped /\ HandsInv /\ ListsInv /\ AckInv
  BY DEF RedisInv
<1>2. PICK e \in DOMAIN ready :
        /\ ready' = Redis!BagRemove(ready, e)
        /\ processing' = Redis!BagAdd(processing, e)
        /\ held' = [held EXCEPT ![w] = {e}]
        /\ runs' = [runs EXCEPT ![e.job] = @ + 1]
  BY DEF Redis!Claim, Redis!BagToSet
<1>3. /\ wPc[w] = "idle" /\ wPc' = [wPc EXCEPT ![w] = "run"]
      /\ UNCHANGED <<submitted, delayed, dead, todo, moving, done, dropped, faults>>
  BY DEF Redis!Claim, Redis!mishaps
<1>4. e \in Fresh /\ e \in Redis!Entry /\ e.job \in Jobs
  BY ListedIsFresh
<1>5. /\ Redis!IsBag(ready') /\ DOMAIN ready' \subseteq Fresh
      /\ DOMAIN ready \ {e} \subseteq DOMAIN ready'
  BY <1>1, <1>2, ListShrinks DEF RedisTyped, ListsInv
<1>6. /\ Redis!IsBag(processing') /\ DOMAIN processing' \subseteq Fresh
      /\ DOMAIN processing' = DOMAIN processing \cup {e}
  BY <1>1, <1>2, <1>4, ListGrows DEF RedisTyped, ListsInv
<1>7. runs' \in [Jobs -> Nat]
  BY <1>1, <1>2, <1>4 DEF RedisTyped
<1>8. RedisTyped'
  BY <1>1, <1>2, <1>3, <1>4, <1>5, <1>6, <1>7 DEF RedisTyped
<1>9. ListsInv'
  BY <1>1, <1>3, <1>5, <1>6 DEF ListsInv
<1>10. HandsInv' /\ AckInv'
  BY <1>1, <1>2, <1>3, <1>4 DEF HandsInv, AckInv, RedisTyped
<1>11. ASSUME NEW x \in Redis!Entry \ {e}, InSight(x) PROVE InSight(x)'
  <2>1. \A v \in Workers : Redis!Between(v) \subseteq Redis!Between(v)'
    BY <1>1, <1>2, <1>3 DEF RedisTyped, Redis!Between
  <2> QED BY <1>3, <1>5, <1>6, <1>11, <2>1 DEF InSight
<1>12. KeptInv => KeptInv'
  BY <1>3, <1>4, <1>6, <1>11, KeptByMove DEF InSight
<1> QED BY <1>8, <1>9, <1>10, <1>12 DEF RedisInv

LEMMA ClaimUnansweredKeeps ==
  ASSUME RedisInv, NEW w \in Workers, Redis!ClaimUnanswered(w)
  PROVE  RedisInv' /\ (KeptInv => KeptInv')
<1>1. RedisTyped /\ HandsInv /\ ListsInv /\ AckInv
  BY DEF RedisInv
<1>2. PICK e \in DOMAIN ready :
        ready' = Redis!BagRemove(ready, e) /\ processing' = Redis!BagAdd(processing, e)
  BY DEF Redis!ClaimUnanswered, Redis!BagToSet
<1>3. UNCHANGED <<submitted, delayed, dead, wPc, held, todo, moving, done, runs, dropped, faults>>
  BY DEF Redis!ClaimUnanswered, Redis!loop, Redis!mishaps
<1>4. e \in Fresh /\ e \in Redis!Entry
  BY ListedIsFresh
<1>5. /\ Redis!IsBag(ready') /\ DOMAIN ready' \subseteq Fresh
      /\ DOMAIN ready \ {e} \subseteq DOMAIN ready'
  BY <1>1, <1>2, ListShrinks DEF RedisTyped, ListsInv
<1>6. /\ Redis!IsBag(processing') /\ DOMAIN processing' \subseteq Fresh
      /\ DOMAIN processing' = DOMAIN processing \cup {e}
  BY <1>1, <1>2, <1>4, ListGrows DEF RedisTyped, ListsInv
<1>7. RedisTyped' /\ ListsInv'
  BY <1>1, <1>3, <1>5, <1>6 DEF RedisTyped, ListsInv
<1>8. HandsInv' /\ AckInv'
  BY <1>1, <1>3 DEF HandsInv, AckInv
<1>9. ASSUME NEW x \in Redis!Entry \ {e}, InSight(x) PROVE InSight(x)'
  BY <1>3, <1>5, <1>6, <1>9 DEF InSight, Redis!Between
<1>10. KeptInv => KeptInv'
  BY <1>3, <1>4, <1>6, <1>9, KeptByMove DEF InSight
<1> QED BY <1>7, <1>8, <1>10 DEF RedisInv

LEMMA NoMoveKeepsJobs ==
  ASSUME KeptInv, done \subseteq done', dropped' = dropped, submitted' = submitted,
         UNCHANGED Redis!lists, \A w \in Workers : Redis!Between(w) \subseteq Redis!Between(w)'
  PROVE  KeptInv'
BY DEF KeptInv, InSight, Redis!lists

LEMMA HandlerKeeps ==
  ASSUME RedisInv, NEW w \in Workers, Redis!HandlerSucceeds(w) \/ Redis!HandlerFails(w)
  PROVE  RedisInv' /\ (KeptInv => KeptInv')
<1> USE DEF Redis!HandlerSucceeds, Redis!HandlerFails, Redis!mishaps
<1>1. RedisTyped /\ HandsInv /\ ListsInv /\ AckInv
  BY DEF RedisInv
<1>2. /\ wPc[w] = "run"
      /\ \E p \in {"ack", "nack"} : wPc' = [wPc EXCEPT ![w] = p]
      /\ done \subseteq done'
      /\ UNCHANGED <<submitted, Redis!lists, held, todo, moving, runs, dropped, faults>>
  OBVIOUS
<1>3. done' \in SUBSET Jobs
  <2>1. \A e \in held[w] : e.job \in Jobs
    BY <1>1 DEF RedisTyped, Redis!Entry
  <2> QED BY <1>1, <2>1 DEF RedisTyped
<1>4. wPc'[w] = "ack" => \A e \in held[w] : e.job \in done'
  BY <1>1 DEF RedisTyped
<1>5. RedisTyped'
  BY <1>1, <1>2, <1>3 DEF RedisTyped, Redis!lists
<1>6. HandsInv' /\ ListsInv' /\ AckInv'
  BY <1>1, <1>2, <1>4 DEF HandsInv, ListsInv, AckInv, RedisTyped, Redis!lists
<1>7. \A v \in Workers : Redis!Between(v) \subseteq Redis!Between(v)'
  BY <1>1, <1>2 DEF RedisTyped, Redis!Between
<1>8. KeptInv => KeptInv'
  BY <1>2, <1>7, NoMoveKeepsJobs
<1> QED BY <1>5, <1>6, <1>8 DEF RedisInv

LEMMA SettleKeeps ==
  ASSUME RedisInv, NEW w \in Workers, Redis!Ack(w) \/ Redis!AckFails(w) \/ Redis!Nack(w)
  PROVE  RedisInv' /\ (KeptInv => KeptInv')
<1> USE DEF Redis!Ack, Redis!AckFails, Redis!Nack, Redis!mishaps
<1>1. RedisTyped /\ HandsInv /\ ListsInv /\ AckInv
  BY DEF RedisInv
<1>2. PICK e \in held[w] : processing' \in {processing, Redis!BagRemove(processing, e)}
  OBVIOUS
<1>3. /\ \/ wPc[w] = "ack" /\ wPc' = [wPc EXCEPT ![w] = "idle"] /\ held' = [held EXCEPT ![w] = {}]
         \/ wPc[w] = "ack" /\ wPc' = [wPc EXCEPT ![w] = "nack"] /\ held' = held
         \/ wPc[w] = "nack" /\ wPc' = [wPc EXCEPT ![w] = "requeue"] /\ held' = held
      /\ UNCHANGED <<submitted, ready, delayed, dead, todo, moving, done, runs, dropped, faults>>
  OBVIOUS
<1>4. e \in Redis!Entry /\ held[w] = {e}
  BY HeldIsOne
<1>5. /\ Redis!IsBag(processing') /\ DOMAIN processing' \subseteq Fresh
      /\ DOMAIN processing \ {e} \subseteq DOMAIN processing'
  BY <1>1, <1>2, ListShrinks DEF RedisTyped, ListsInv
<1> HIDE DEF Redis!Ack, Redis!AckFails, Redis!Nack, Redis!mishaps
<1>6. RedisTyped'
  BY <1>1, <1>3, <1>5 DEF RedisTyped
<1>7. HandsInv' /\ ListsInv' /\ AckInv'
  BY <1>1, <1>3, <1>5 DEF HandsInv, ListsInv, AckInv, RedisTyped
<1>8. InSight(e)' \/ e.job \in done
  <2>1. CASE wPc[w] = "ack"
    BY <1>1, <2>1 DEF AckInv
  <2>2. CASE wPc'[w] = "requeue"
    <3>1. e \in Redis!Between(w)'
      BY <1>1, <1>3, <1>4, <2>2 DEF RedisTyped, Redis!Between
    <3> QED BY <3>1 DEF InSight
  <2> QED BY <1>1, <1>3, <2>1, <2>2 DEF RedisTyped
<1>9. \A v \in Workers : Redis!Between(v) \subseteq Redis!Between(v)'
  BY <1>1, <1>3 DEF RedisTyped, Redis!Between
<1>10. ASSUME NEW x \in Redis!Entry \ {e}, InSight(x) PROVE InSight(x)'
  BY <1>3, <1>5, <1>9, <1>10 DEF InSight
<1>11. KeptInv => KeptInv'
  BY <1>3, <1>4, <1>8, <1>10, KeptByMove
<1> QED BY <1>6, <1>7, <1>11 DEF RedisInv

LEMMA RequeueKeeps ==
  ASSUME RedisInv, NEW w \in Workers, Redis!Requeue(w)
  PROVE  RedisInv' /\ (KeptInv => KeptInv')
<1>1. RedisTyped /\ HandsInv /\ ListsInv /\ AckInv
  BY DEF RedisInv
<1>2. PICK e \in held[w] :
        IF Redis!Exhausted(e)
        THEN dead' = Redis!BagAdd(dead, Redis!Retried(e)) /\ UNCHANGED delayed
        ELSE delayed' = Redis!BagAdd(delayed, Redis!Retried(e)) /\ UNCHANGED dead
  BY DEF Redis!Requeue
<1>3. /\ wPc' = [wPc EXCEPT ![w] = "idle"]
      /\ held' = [held EXCEPT ![w] = {}]
      /\ UNCHANGED <<submitted, ready, processing, todo, moving, done, runs, dropped, faults>>
  BY DEF Redis!Requeue, Redis!mishaps
<1>4. e \in Fresh /\ e \in Redis!Entry /\ held[w] = {e}
  BY HeldIsOne
<1>5. /\ Redis!Retried(e) \in Redis!Entry /\ Redis!Retried(e).job = e.job
      /\ ~Redis!Exhausted(e) => Redis!Retried(e) \in Fresh
  BY <1>4, RetriedTyped
<1>6. /\ Redis!IsBag(dead') /\ DOMAIN dead \subseteq DOMAIN dead'
      /\ Redis!IsBag(delayed') /\ DOMAIN delayed' \subseteq Fresh
      /\ DOMAIN delayed \subseteq DOMAIN delayed'
      /\ Redis!Retried(e) \in DOMAIN dead' \cup DOMAIN delayed'
  <2>1. Redis!IsBag(dead) /\ Redis!IsBag(delayed) /\ DOMAIN delayed \subseteq Fresh
    BY <1>1 DEF RedisTyped, ListsInv
  <2>2. CASE Redis!Exhausted(e)
    <3>1. dead' = Redis!BagAdd(dead, Redis!Retried(e)) /\ delayed' = delayed
      BY <1>2, <2>2
    <3>2. Redis!IsBag(dead') /\ DOMAIN dead' = DOMAIN dead \cup {Redis!Retried(e)}
      BY <1>5, <2>1, <3>1, BagGrows
    <3> QED BY <2>1, <3>1, <3>2
  <2>3. CASE ~Redis!Exhausted(e)
    <3>1. /\ delayed' = Redis!BagAdd(delayed, Redis!Retried(e)) /\ dead' = dead
          /\ Redis!Retried(e) \in Fresh
      BY <1>2, <1>5, <2>3
    <3>2. /\ Redis!IsBag(delayed') /\ DOMAIN delayed' \subseteq Fresh
          /\ DOMAIN delayed' = DOMAIN delayed \cup {Redis!Retried(e)}
      BY <2>1, <3>1, ListGrows
    <3> QED BY <2>1, <3>1, <3>2
  <2> QED BY <2>2, <2>3
<1>7. RedisTyped'
  BY <1>1, <1>3, <1>6 DEF RedisTyped
<1>8. HandsInv' /\ ListsInv' /\ AckInv'
  BY <1>1, <1>3, <1>6 DEF HandsInv, ListsInv, AckInv, RedisTyped
<1>9. ASSUME NEW x \in Redis!Entry \ {e}, InSight(x) PROVE InSight(x)'
  <2>1. \A v \in Workers : Redis!Between(v) \ {e} \subseteq Redis!Between(v)'
    BY <1>1, <1>3, <1>4 DEF RedisTyped, Redis!Between
  <2> QED BY <1>3, <1>6, <1>9, <2>1 DEF InSight
<1>10. KeptInv => KeptInv'
  BY <1>3, <1>4, <1>5, <1>6, <1>9, KeptByMove DEF InSight
<1> QED BY <1>7, <1>8, <1>10 DEF RedisInv

LEMMA PromoteTakeKeeps ==
  ASSUME RedisInv, NEW w \in Workers, Redis!PromoteTake(w) \/ Redis!PromoteTakeUnanswered(w)
  PROVE  RedisInv' /\ (KeptInv => KeptInv')
<1> USE DEF Redis!PromoteTake, Redis!PromoteTakeUnanswered, Redis!loop, Redis!mishaps, Redis!BagToSet
<1>1. RedisTyped /\ HandsInv /\ ListsInv /\ AckInv
  BY DEF RedisInv
<1>2. PICK e \in DOMAIN delayed :
        /\ delayed' = Redis!BagRemove(delayed, e)
        /\ \/ moving' = [moving EXCEPT ![w] = {e}] /\ dropped' = dropped
           \/ moving' = moving /\ dropped' = dropped \cup {e.job}
  OBVIOUS
<1>3. /\ moving[w] = {}
      /\ UNCHANGED <<submitted, ready, processing, dead, wPc, held, todo, done, runs, faults>>
  OBVIOUS
<1>4. e \in Fresh /\ e \in Redis!Entry /\ e.job \in Jobs
  BY ListedIsFresh
<1>5. /\ Redis!IsBag(delayed') /\ DOMAIN delayed' \subseteq Fresh
      /\ DOMAIN delayed \ {e} \subseteq DOMAIN delayed'
  BY <1>1, <1>2, ListShrinks DEF RedisTyped, ListsInv
<1> HIDE DEF Redis!PromoteTake, Redis!PromoteTakeUnanswered, Redis!loop, Redis!mishaps, Redis!BagToSet
<1>6. RedisTyped'
  BY <1>1, <1>2, <1>3, <1>4, <1>5 DEF RedisTyped
<1>7. HandsInv' /\ ListsInv' /\ AckInv'
  BY <1>1, <1>2, <1>3, <1>4, <1>5 DEF HandsInv, ListsInv, AckInv, RedisTyped
<1>8. InSight(e)' \/ e.job \in dropped'
  <2>1. CASE moving' = [moving EXCEPT ![w] = {e}]
    BY <1>1, <2>1 DEF RedisTyped, InSight, Redis!Between
  <2> QED BY <1>2, <2>1
<1>9. ASSUME NEW x \in Redis!Entry \ {e}, InSight(x) PROVE InSight(x)'
  <2>1. \A v \in Workers : Redis!Between(v) \subseteq Redis!Between(v)'
    BY <1>1, <1>2, <1>3 DEF RedisTyped, Redis!Between
  <2> QED BY <1>3, <1>5, <1>9, <2>1 DEF InSight
<1>10. KeptInv => KeptInv'
  BY <1>2, <1>3, <1>4, <1>8, <1>9, KeptByMove
<1> QED BY <1>6, <1>7, <1>10 DEF RedisInv

LEMMA PromotePutKeeps ==
  ASSUME RedisInv, NEW w \in Workers, Redis!PromotePut(w)
  PROVE  RedisInv' /\ (KeptInv => KeptInv')
<1>1. RedisTyped /\ HandsInv /\ ListsInv /\ AckInv
  BY DEF RedisInv
<1>2. PICK e \in moving[w] : ready' = Redis!BagAdd(ready, e)
  BY DEF Redis!PromotePut
<1>3. /\ moving' = [moving EXCEPT ![w] = {}]
      /\ UNCHANGED <<submitted, processing, delayed, dead, wPc, held, todo, done, runs, dropped, faults>>
  BY DEF Redis!PromotePut, Redis!loop, Redis!mishaps
<1>4. e \in Fresh /\ e \in Redis!Entry /\ moving[w] = {e}
  BY HeldIsOne
<1>5. /\ Redis!IsBag(ready') /\ DOMAIN ready' \subseteq Fresh
      /\ DOMAIN ready' = DOMAIN ready \cup {e}
  BY <1>1, <1>2, <1>4, ListGrows DEF RedisTyped, ListsInv
<1>6. RedisTyped'
  BY <1>1, <1>3, <1>5 DEF RedisTyped
<1>7. HandsInv' /\ ListsInv' /\ AckInv'
  BY <1>1, <1>3, <1>5 DEF HandsInv, ListsInv, AckInv, RedisTyped
<1>8. ASSUME NEW x \in Redis!Entry \ {e}, InSight(x) PROVE InSight(x)'
  <2>1. \A v \in Workers : Redis!Between(v) \ {e} \subseteq Redis!Between(v)'
    BY <1>1, <1>3, <1>4 DEF RedisTyped, Redis!Between
  <2> QED BY <1>3, <1>5, <1>8, <2>1 DEF InSight
<1>9. KeptInv => KeptInv'
  BY <1>3, <1>4, <1>5, <1>8, KeptByMove DEF InSight
<1> QED BY <1>6, <1>7, <1>9 DEF RedisInv

LEMMA ScanForStaleKeeps ==
  ASSUME RedisInv, NEW w \in Workers, NEW old \in SUBSET Redis!Stale, Redis!RecoverScan(w, old)
  PROVE  RedisInv' /\ (KeptInv => KeptInv')
<1> USE DEF Redis!RecoverScan, Redis!mishaps
<1>1. RedisTyped /\ HandsInv /\ ListsInv /\ AckInv
  BY DEF RedisInv
<1>2. old \subseteq Fresh /\ old \subseteq Redis!Entry
  BY <1>1 DEF ListsInv, Redis!Stale, Redis!Stamped, Redis!BagToSet, Fresh
<1>3. RedisTyped'
  BY <1>1, <1>2 DEF RedisTyped, Redis!lists
<1>4. HandsInv' /\ ListsInv' /\ AckInv'
  BY <1>1, <1>2 DEF HandsInv, ListsInv, AckInv, RedisTyped, Redis!lists
<1>5. \A v \in Workers : Redis!Between(v) \subseteq Redis!Between(v)'
  BY <1>1 DEF RedisTyped, Redis!Between
<1>6. KeptInv => KeptInv'
  BY <1>5, NoMoveKeepsJobs
<1> QED BY <1>3, <1>4, <1>6 DEF RedisInv

LEMMA RecoverDropKeeps ==
  ASSUME RedisInv, NEW w \in Workers, Redis!RecoverDrop(w) \/ Redis!RecoverDropFails(w)
  PROVE  RedisInv' /\ (KeptInv => KeptInv')
<1> USE DEF Redis!RecoverDrop, Redis!RecoverDropFails, Redis!mishaps
<1>1. RedisTyped /\ HandsInv /\ ListsInv /\ AckInv
  BY DEF RedisInv
<1>2. PICK e \in todo[w] :
        /\ processing' \in {processing, Redis!BagRemove(processing, e)}
        /\ held' = [held EXCEPT ![w] = {e}]
        /\ todo' = [todo EXCEPT ![w] = @ \ {e}]
  OBVIOUS
<1>3. /\ wPc[w] = "scan"
      /\ \E p \in {"reput", "catch"} : wPc' = [wPc EXCEPT ![w] = p]
      /\ UNCHANGED <<submitted, ready, delayed, dead, moving, done, runs, dropped, faults>>
  OBVIOUS
<1> HIDE DEF Redis!RecoverDrop, Redis!RecoverDropFails, Redis!mishaps
<1>4. e \in Fresh /\ e \in Redis!Entry
  BY HeldIsOne
<1>5. /\ Redis!IsBag(processing') /\ DOMAIN processing' \subseteq Fresh
      /\ DOMAIN processing \ {e} \subseteq DOMAIN processing'
  BY <1>1, <1>2, ListShrinks DEF RedisTyped, ListsInv
<1>6. RedisTyped'
  BY <1>1, <1>2, <1>3, <1>4, <1>5 DEF RedisTyped
<1>7. HandsInv' /\ ListsInv' /\ AckInv'
  BY <1>1, <1>2, <1>3, <1>4, <1>5 DEF HandsInv, ListsInv, AckInv, RedisTyped
<1>8. e \in Redis!Between(w)' /\ \A v \in Workers : Redis!Between(v) \subseteq Redis!Between(v)'
  BY <1>1, <1>2, <1>3 DEF RedisTyped, HandsInv, Redis!Between
<1>9. ASSUME NEW x \in Redis!Entry \ {e}, InSight(x) PROVE InSight(x)'
  BY <1>3, <1>5, <1>8, <1>9 DEF InSight
<1>10. InSight(e)'
  BY <1>8 DEF InSight
<1>11. KeptInv => KeptInv'
  BY <1>3, <1>4, <1>9, <1>10, KeptByMove
<1> QED BY <1>6, <1>7, <1>11 DEF RedisInv

LEMMA RecoverPutKeeps ==
  ASSUME RedisInv, NEW w \in Workers, Redis!RecoverPut(w)
  PROVE  RedisInv' /\ (KeptInv => KeptInv')
<1>1. RedisTyped /\ HandsInv /\ ListsInv /\ AckInv
  BY DEF RedisInv
<1>2. PICK e \in held[w] : ready' = Redis!BagAdd(ready, Redis!Unstamped(e))
  BY DEF Redis!RecoverPut
<1>3. /\ held' = [held EXCEPT ![w] = {}]
      /\ \E p \in {"idle", "scan"} : wPc' = [wPc EXCEPT ![w] = p]
      /\ UNCHANGED <<submitted, processing, delayed, dead, todo, moving, done, runs, dropped, faults>>
  BY DEF Redis!RecoverPut, Redis!mishaps
<1>4. e \in Fresh /\ e \in Redis!Entry /\ held[w] = {e}
  BY HeldIsOne
<1>5. /\ Redis!Unstamped(e) \in Fresh /\ Redis!Unstamped(e) \in Redis!Entry
      /\ Redis!Unstamped(e).job = e.job
  BY <1>4, RetriedTyped
<1>6. /\ Redis!IsBag(ready') /\ DOMAIN ready' \subseteq Fresh
      /\ DOMAIN ready' = DOMAIN ready \cup {Redis!Unstamped(e)}
  BY <1>1, <1>2, <1>5, ListGrows DEF RedisTyped, ListsInv
<1>7. RedisTyped'
  BY <1>1, <1>3, <1>6 DEF RedisTyped
<1>8. HandsInv' /\ ListsInv' /\ AckInv'
  BY <1>1, <1>3, <1>6 DEF HandsInv, ListsInv, AckInv, RedisTyped
<1>9. ASSUME NEW x \in Redis!Entry \ {e}, InSight(x) PROVE InSight(x)'
  <2>1. \A v \in Workers : Redis!Between(v) \ {e} \subseteq Redis!Between(v)'
    BY <1>1, <1>3, <1>4 DEF RedisTyped, Redis!Between
  <2> QED BY <1>3, <1>6, <1>9, <2>1 DEF InSight
<1>10. KeptInv => KeptInv'
  BY <1>3, <1>4, <1>5, <1>6, <1>9, KeptByMove DEF InSight
<1> QED BY <1>7, <1>8, <1>10 DEF RedisInv

\* The put that failed leaves the job to the catch, which lets go of it.
LEMMA RecoverFailsKeeps ==
  ASSUME RedisInv, NEW w \in Workers, Redis!RecoverPutFails(w) \/ Redis!Catch(w)
  PROVE  RedisInv' /\ (KeptInv => KeptInv')
<1>1. RedisTyped /\ HandsInv /\ ListsInv /\ AckInv
  BY DEF RedisInv
<1>2. CASE Redis!RecoverPutFails(w)
  <2> USE <1>2 DEF Redis!RecoverPutFails, Redis!mishaps
  <2>1. RedisTyped'
    BY <1>1 DEF RedisTyped, Redis!lists
  <2>2. HandsInv' /\ ListsInv' /\ AckInv'
    BY <1>1 DEF HandsInv, ListsInv, AckInv, RedisTyped, Redis!lists
  <2>3. \A v \in Workers : Redis!Between(v) \subseteq Redis!Between(v)'
    BY <1>1 DEF RedisTyped, Redis!Between
  <2>4. KeptInv => KeptInv'
    BY <2>3, NoMoveKeepsJobs
  <2> QED BY <2>1, <2>2, <2>4 DEF RedisInv
<1>3. CASE Redis!Catch(w)
  <2>1. PICK e \in held[w] :
          processing' = Redis!BagRemove(processing, e) /\ dropped' = dropped \cup {e.job}
    BY <1>3 DEF Redis!Catch
  <2>2. /\ held' = [held EXCEPT ![w] = {}]
        /\ \E p \in {"idle", "scan"} : wPc' = [wPc EXCEPT ![w] = p]
        /\ UNCHANGED <<submitted, ready, delayed, dead, todo, moving, done, runs, faults>>
    BY <1>3 DEF Redis!Catch
  <2>3. e \in Redis!Entry /\ e.job \in Jobs /\ held[w] = {e}
    BY HeldIsOne
  <2>4. /\ Redis!IsBag(processing') /\ DOMAIN processing' \subseteq Fresh
        /\ DOMAIN processing \ {e} \subseteq DOMAIN processing'
    BY <1>1, <2>1, ListShrinks DEF RedisTyped, ListsInv
  <2>5. RedisTyped'
    BY <1>1, <2>1, <2>2, <2>3, <2>4 DEF RedisTyped
  <2>6. HandsInv' /\ ListsInv' /\ AckInv'
    BY <1>1, <2>2, <2>4 DEF HandsInv, ListsInv, AckInv, RedisTyped
  <2>7. ASSUME NEW x \in Redis!Entry \ {e}, InSight(x) PROVE InSight(x)'
    <3>1. \A v \in Workers : Redis!Between(v) \ {e} \subseteq Redis!Between(v)'
      BY <1>1, <2>2, <2>3 DEF RedisTyped, Redis!Between
    <3> QED BY <2>2, <2>4, <2>7, <3>1 DEF InSight
  <2>8. KeptInv => KeptInv'
    BY <2>1, <2>2, <2>3, <2>7, KeptByMove
  <2> QED BY <2>5, <2>6, <2>8 DEF RedisInv
<1> QED BY <1>2, <1>3

\* What is added a second time was in a list or in memory, and stays there.
LEMMA PutUnansweredKeeps ==
  ASSUME RedisInv, NEW w \in Workers, Redis!PutUnanswered(w)
  PROVE  RedisInv' /\ (KeptInv => KeptInv')
<1>1. RedisTyped /\ HandsInv /\ ListsInv /\ AckInv
  BY DEF RedisInv
<1>2. faults' \in 0..MaxFaults
  <2>1. MaxFaults \in Nat /\ faults \in 0..MaxFaults
    BY <1>1, UploadsAssumption DEF Redis!JobQueueAssumption, RedisTyped
  <2> QED BY <2>1 DEF Redis!PutUnanswered
<1>3. UNCHANGED <<submitted, processing, delayed, wPc, held, todo, moving, done, runs, dropped>>
  BY DEF Redis!PutUnanswered, Redis!loop
<1>4. \/ ready' = ready /\ \E e \in Redis!Entry : dead' = Redis!BagAdd(dead, e)
      \/ dead' = dead /\ \E e \in Fresh : ready' = Redis!BagAdd(ready, e)
  <2>1. \A e \in held[w] \cup moving[w] :
           e \in Fresh /\ Redis!Unstamped(e) \in Fresh /\ Redis!Retried(e) \in Redis!Entry
    BY HeldIsOne, RetriedTyped
  <2> QED BY <2>1 DEF Redis!PutUnanswered
<1>5. /\ Redis!IsBag(ready') /\ DOMAIN ready' \subseteq Fresh /\ DOMAIN ready \subseteq DOMAIN ready'
      /\ Redis!IsBag(dead') /\ DOMAIN dead \subseteq DOMAIN dead'
  <2>1. /\ Redis!IsBag(ready) /\ DOMAIN ready \subseteq Fresh
        /\ Redis!IsBag(dead)
    BY <1>1 DEF RedisTyped, ListsInv
  <2>2. CASE ready' = ready /\ \E e \in Redis!Entry : dead' = Redis!BagAdd(dead, e)
    BY <2>1, <2>2, BagGrows
  <2>3. CASE dead' = dead /\ \E e \in Fresh : ready' = Redis!BagAdd(ready, e)
    BY <2>1, <2>3, ListGrows
  <2> QED BY <1>4, <2>2, <2>3
<1>6. RedisTyped'
  BY <1>1, <1>2, <1>3, <1>5 DEF RedisTyped
<1>7. HandsInv' /\ ListsInv' /\ AckInv'
  BY <1>1, <1>3, <1>5 DEF HandsInv, ListsInv, AckInv
<1>8. \A x \in Redis!Entry : InSight(x) => InSight(x)'
  BY <1>3, <1>5 DEF InSight, Redis!Between
<1>9. KeptInv => KeptInv'
  BY <1>3, <1>8 DEF KeptInv
<1> QED BY <1>6, <1>7, <1>9 DEF RedisInv

\* What a process that dies had between two commands is dropped.
LEMMA DeathKeeps ==
  ASSUME RedisInv, NEW w \in Workers, Redis!Crash(w) \/ Redis!Restart(w)
  PROVE  RedisInv' /\ (KeptInv => KeptInv')
<1>1. RedisTyped /\ HandsInv /\ ListsInv /\ AckInv
  BY DEF RedisInv
<1>2. MaxFaults \in Nat
  BY UploadsAssumption DEF Redis!JobQueueAssumption
<1>3. CASE Redis!Crash(w)
  <2> USE <1>3 DEF Redis!Crash
  <2>1. faults' \in 0..MaxFaults
    BY <1>1, <1>2 DEF RedisTyped
  <2>2. dropped' \in SUBSET Jobs
    <3>1. \A e \in Redis!Between(w) : e.job \in Jobs
      BY HeldIsOne DEF Redis!Between
    <3> QED BY <1>1, <3>1 DEF RedisTyped
  <2>3. RedisTyped'
    BY <1>1, <2>1, <2>2 DEF RedisTyped, Redis!lists
  <2>4. HandsInv' /\ ListsInv' /\ AckInv'
    BY <1>1 DEF HandsInv, ListsInv, AckInv, RedisTyped, Redis!lists
  <2>5. ASSUME NEW x \in Redis!Entry, InSight(x) PROVE InSight(x)' \/ x.job \in dropped'
    <3>1. \A v \in Workers \ {w} : Redis!Between(v) \subseteq Redis!Between(v)'
      BY <1>1 DEF RedisTyped, Redis!Between
    <3>2. CASE x \in Redis!Between(w)
      BY <3>2
    <3>3. CASE x \notin Redis!Between(w)
      BY <2>5, <3>1, <3>3 DEF InSight, Redis!lists
    <3> QED BY <3>2, <3>3
  <2>6. submitted' = submitted /\ done' = done /\ dropped \subseteq dropped'
    OBVIOUS
  <2>7. KeptInv => KeptInv'
    BY <2>5, <2>6 DEF KeptInv
  <2> QED BY <2>3, <2>4, <2>7 DEF RedisInv
<1>4. CASE Redis!Restart(w)
  <2> USE <1>4 DEF Redis!Restart, Redis!mishaps
  <2>1. RedisTyped'
    BY <1>1 DEF RedisTyped, Redis!lists
  <2>2. HandsInv' /\ ListsInv' /\ AckInv'
    BY <1>1 DEF HandsInv, ListsInv, AckInv, RedisTyped, Redis!lists
  <2>3. \A v \in Workers : Redis!Between(v) \subseteq Redis!Between(v)'
    BY <1>1 DEF RedisTyped, Redis!Between
  <2>4. KeptInv => KeptInv'
    BY <2>3, NoMoveKeepsJobs
  <2> QED BY <2>1, <2>2, <2>4 DEF RedisInv
<1> QED BY <1>3, <1>4

LEMMA EnqueueKeeps ==
  ASSUME RedisInv, NEW j \in Jobs, Redis!Enqueue(j) \/ Redis!EnqueueUnanswered(j)
  PROVE  RedisInv' /\ (KeptInv => KeptInv')
<1> USE DEF Redis!Enqueue, Redis!EnqueueUnanswered, Redis!loop, Redis!mishaps
<1>1. RedisTyped /\ HandsInv /\ ListsInv /\ AckInv
  BY DEF RedisInv
<1>2. Redis!New(j) \in Fresh /\ Redis!New(j) \in Redis!Entry /\ Redis!New(j).job = j
  <2>1. 0 \in 0..MaxAttempts /\ 0 < MaxAttempts
    BY UploadsAssumption DEF Redis!JobQueueAssumption
  <2> QED BY <2>1 DEF Fresh, Redis!Entry, Redis!New
<1>3. /\ submitted' \in {submitted, submitted \cup {j}}
      /\ ready' = Redis!BagAdd(ready, Redis!New(j))
      /\ UNCHANGED <<processing, delayed, dead, wPc, held, todo, moving, done, runs, dropped>>
  OBVIOUS
<1>4. faults' \in 0..MaxFaults
  <2>1. MaxFaults \in Nat /\ faults \in 0..MaxFaults
    BY <1>1, UploadsAssumption DEF Redis!JobQueueAssumption, RedisTyped
  <2> QED BY <2>1
<1> HIDE DEF Redis!Enqueue, Redis!EnqueueUnanswered, Redis!loop, Redis!mishaps
<1>5. /\ Redis!IsBag(ready') /\ DOMAIN ready' \subseteq Fresh
      /\ DOMAIN ready' = DOMAIN ready \cup {Redis!New(j)}
  BY <1>1, <1>2, <1>3, ListGrows DEF RedisTyped, ListsInv
<1>6. RedisTyped'
  BY <1>1, <1>3, <1>4, <1>5 DEF RedisTyped
<1>7. HandsInv' /\ ListsInv' /\ AckInv'
  BY <1>1, <1>3, <1>5 DEF HandsInv, ListsInv, AckInv
<1>8. \A x \in Redis!Entry : InSight(x) => InSight(x)'
  BY <1>3, <1>5 DEF InSight, Redis!Between
<1>9. InSight(Redis!New(j))'
  BY <1>5 DEF InSight
<1>10. KeptInv => KeptInv'
  BY <1>2, <1>3, <1>8, <1>9 DEF KeptInv
<1> QED BY <1>6, <1>7, <1>10 DEF RedisInv

\* What a worker that lives does, whether or not its commands succeed.
LEMMA LiveKeeps ==
  ASSUME RedisInv, NEW w \in Workers, Redis!Lives(w) \/ Redis!Errs(w)
  PROVE  RedisInv' /\ (KeptInv => KeptInv')
<1>1. \/ Redis!Claim(w) \/ Redis!ClaimUnanswered(w)
      \/ Redis!HandlerSucceeds(w) \/ Redis!HandlerFails(w)
      \/ Redis!Ack(w) \/ Redis!AckFails(w) \/ Redis!Nack(w) \/ Redis!Requeue(w)
      \/ Redis!PromoteTake(w) \/ Redis!PromoteTakeUnanswered(w) \/ Redis!PromotePut(w)
      \/ Redis!RecoverDrop(w) \/ Redis!RecoverDropFails(w)
      \/ Redis!RecoverPut(w) \/ Redis!RecoverPutFails(w) \/ Redis!Catch(w)
      \/ \E old \in SUBSET Redis!Stale : Redis!RecoverScan(w, old)
  BY DEF Redis!Lives, Redis!Errs, Redis!Loop, Redis!Timer, Redis!PopTimesOut
<1> QED BY <1>1, ClaimKeeps, ClaimUnansweredKeeps, HandlerKeeps, SettleKeeps, RequeueKeeps,
           PromoteTakeKeeps, PromotePutKeeps, RecoverDropKeeps, RecoverPutKeeps,
           RecoverFailsKeeps, ScanForStaleKeeps

\* Every step keeps the invariant of the queue, and every job in sight that is
\* neither done nor dropped.
LEMMA RedisInductive ==
  ASSUME RedisInv, [Redis!Next]_redis
  PROVE  RedisInv' /\ (KeptInv => KeptInv')
<1>1. CASE \E j \in Jobs : Redis!Enqueue(j) \/ Redis!EnqueueUnanswered(j)
  BY <1>1, EnqueueKeeps
<1>2. CASE \E w \in Workers : Redis!Lives(w) \/ Redis!Errs(w)
  BY <1>2, LiveKeeps
<1>3. CASE \E w \in Workers : Redis!PutUnanswered(w)
  BY <1>3, PutUnansweredKeeps
<1>4. CASE \E w \in Workers : Redis!Crash(w) \/ Redis!Restart(w)
  BY <1>4, DeathKeeps
<1>5. CASE UNCHANGED redis
  <2>1. RedisTyped' /\ HandsInv' /\ ListsInv' /\ AckInv'
    BY <1>5 DEF RedisInv, RedisTyped, HandsInv, ListsInv, AckInv, redis
  <2>2. KeptInv => KeptInv'
    BY <1>5, NoMoveKeepsJobs DEF redis, Redis!lists, Redis!Between
  <2> QED BY <2>1, <2>2 DEF RedisInv
<1> QED BY <1>1, <1>2, <1>3, <1>4, <1>5 DEF Redis!Next


-------------------------------------------------------------------------------
(* The queue in memory (MemoryQueue), for any numbers of jobs and loops.  A *)
(* job that was accepted and has not ended is in one place: once in the     *)
(* array, or in the hands of one loop.                                      *)

\* The jobs in the array.
InArray == {memory[i] : i \in 1..Len(memory)}

LoopsInv ==
    /\ \A l \in Loops :
          \/ lPc[l] \in {"off", "loop"} /\ lJob[l] = {}
          \/ lPc[l] \in {"run", "backoff"} /\ \E j \in Jobs : lJob[l] = {j}
    /\ \A l, m \in Loops : l # m => lJob[l] \cap lJob[m] = {}

OnceInv ==
    /\ \A i, k \in 1..Len(memory) : i # k => memory[i] # memory[k]
    /\ \A l \in Loops : lJob[l] \cap InArray = {}

\* A job in either place has an attempt left; one in neither is new or ended.
LeftInv ==
    \A j \in Jobs :
        IF j \in InArray \/ \E l \in Loops : j \in lJob[l]
        THEN ended[j] = "no" /\ attempts[j] < MaxAttempts
        ELSE ended[j] = "no" => attempts[j] = 0

ArrayInv == Array!TypeOK /\ LoopsInv /\ OnceInv /\ LeftInv

LEMMA ArrayAppend ==
  ASSUME memory \in Seq(Jobs), NEW j \in Jobs, j \notin InArray,
         \A i, k \in 1..Len(memory) : i # k => memory[i] # memory[k],
         memory' = Append(memory, j)
  PROVE  /\ memory' \in Seq(Jobs)
         /\ InArray' = InArray \cup {j}
         /\ \A i, k \in 1..Len(memory') : i # k => memory'[i] # memory'[k]
<1>1. /\ memory' \in Seq(Jobs)
      /\ Len(memory) \in Nat
      /\ Len(memory') = Len(memory) + 1
      /\ \A i \in 1..Len(memory) : memory'[i] = memory[i]
      /\ memory'[Len(memory) + 1] = j
  OBVIOUS
<1>2. 1..Len(memory') = 1..Len(memory) \cup {Len(memory) + 1}
  BY <1>1
<1>3. InArray' = InArray \cup {j}
  BY <1>1, <1>2 DEF InArray
<1>4. \A i \in 1..Len(memory) : memory[i] # j
  BY DEF InArray
<1> QED BY <1>1, <1>2, <1>3, <1>4

LEMMA ArrayShift ==
  ASSUME memory \in Seq(Jobs), memory # << >>,
         \A i, k \in 1..Len(memory) : i # k => memory[i] # memory[k],
         memory' = Tail(memory)
  PROVE  /\ memory' \in Seq(Jobs)
         /\ Head(memory) \in InArray /\ Head(memory) \in Jobs
         /\ InArray' = InArray \ {Head(memory)}
         /\ \A i, k \in 1..Len(memory') : i # k => memory'[i] # memory'[k]
<1>1. /\ memory' \in Seq(Jobs)
      /\ Len(memory) \in Nat \ {0}
      /\ Len(memory') = Len(memory) - 1
      /\ \A i \in 1..Len(memory') : memory'[i] = memory[i + 1]
      /\ Head(memory) = memory[1] /\ Head(memory) \in Jobs
  OBVIOUS
<1>2. 1 \in 1..Len(memory) /\ \A i \in 1..Len(memory') : i + 1 \in 1..Len(memory)
  BY <1>1
<1>3. \A i \in 1..Len(memory) : i # 1 => i - 1 \in 1..Len(memory') /\ (i - 1) + 1 = i
  BY <1>1
<1>4. \A i \in 1..Len(memory') : memory'[i] \in InArray \ {Head(memory)}
  <2> SUFFICES ASSUME NEW i \in 1..Len(memory') PROVE memory'[i] \in InArray \ {Head(memory)}
    OBVIOUS
  <2>1. i + 1 \in 1..Len(memory) /\ i + 1 # 1 /\ memory'[i] = memory[i + 1]
    BY <1>1, <1>2
  <2> QED BY <1>1, <1>2, <2>1 DEF InArray
<1>5. ASSUME NEW j \in InArray \ {Head(memory)} PROVE j \in InArray'
  <2>1. PICK i \in 1..Len(memory) : j = memory[i]
    BY <1>5 DEF InArray
  <2>2. i # 1 /\ i - 1 \in 1..Len(memory') /\ (i - 1) + 1 = i
    BY <1>1, <1>3, <1>5, <2>1
  <2>3. memory'[i - 1] = j
    BY <1>1, <2>1, <2>2
  <2> QED BY <2>2, <2>3 DEF InArray
<1>6. InArray' = InArray \ {Head(memory)}
  <2>1. InArray' \subseteq InArray \ {Head(memory)}
    BY <1>4 DEF InArray
  <2> QED BY <1>5, <2>1
<1>7. ASSUME NEW i \in 1..Len(memory'), NEW k \in 1..Len(memory'), i # k
      PROVE  memory'[i] # memory'[k]
  <2>1. i + 1 \in 1..Len(memory) /\ k + 1 \in 1..Len(memory) /\ i + 1 # k + 1
    BY <1>2, <1>7
  <2> QED BY <1>1, <2>1
<1> QED BY <1>1, <1>2, <1>6, <1>7 DEF InArray

LEMMA ArrayInit == Array!Init => ArrayInv
<1> SUFFICES ASSUME Array!Init PROVE ArrayInv
  OBVIOUS
<1>1. MaxAttempts \in Nat \ {0} /\ MaxCloses \in Nat
  BY UploadsAssumption DEF Array!MemoryQueueAssumption
<1>2. InArray = {} /\ memory \in Seq(Jobs) /\ Len(memory) = 0
  BY DEF InArray, Array!Init
<1>3. Array!TypeOK
  <2>1. 0 \in 0..MaxAttempts /\ 0 \in 0..MaxCloses
    BY <1>1
  <2> QED BY <1>2, <2>1 DEF Array!TypeOK, Array!Init
<1>4. LoopsInv
  BY DEF LoopsInv, Array!Init
<1>5. OnceInv
  BY <1>2 DEF OnceInv, Array!Init
<1>6. LeftInv
  BY <1>2 DEF LeftInv, Array!Init
<1> QED BY <1>3, <1>4, <1>5, <1>6 DEF ArrayInv

\* The job a loop holds, and nobody else has.
LEMMA HeldAlone ==
  ASSUME ArrayInv, NEW l \in Loops, lPc[l] \in {"run", "backoff"}
  PROVE  \E j \in Jobs :
            /\ lJob[l] = {j} /\ j \notin InArray
            /\ \A m \in Loops : j \in lJob[m] => m = l
            /\ ended[j] = "no" /\ attempts[j] < MaxAttempts
BY DEF ArrayInv, LoopsInv, OnceInv, LeftInv

LEMMA ArrayEnqueueKeeps ==
  ASSUME ArrayInv, NEW j \in Jobs, Array!Enqueue(j)
  PROVE  ArrayInv'
<1>1. j \notin InArray /\ ended[j] = "no" /\ \A l \in Loops : j \notin lJob[l]
  <2>1. Array!Status(j) = "none" /\ ended[j] \in {"no", "done", "dead"}
    BY DEF Array!Enqueue, ArrayInv, Array!TypeOK
  <2>2. ended[j] = "no"
    BY <2>1 DEF Array!Status
  <2>3. /\ ~Array!HeldIn(j, "run") /\ ~Array!HeldIn(j, "backoff")
        /\ j \notin Array!ToSet(memory)
    BY <2>1, <2>2 DEF Array!Status
  <2>4. j \notin InArray
    BY <2>3 DEF Array!ToSet, InArray, ArrayInv, Array!TypeOK
  <2>5. \A l \in Loops : j \notin lJob[l]
    BY <2>3 DEF Array!HeldIn, ArrayInv, LoopsInv
  <2> QED BY <2>2, <2>4, <2>5
<1>2. /\ memory' = Append(memory, j)
      /\ UNCHANGED <<running, lPc, lJob, attempts, ended, closes>>
  BY DEF Array!Enqueue, Array!loops
<1>3. /\ memory' \in Seq(Jobs) /\ InArray' = InArray \cup {j}
      /\ \A i, k \in 1..Len(memory') : i # k => memory'[i] # memory'[k]
  BY <1>1, <1>2, ArrayAppend DEF ArrayInv, OnceInv, Array!TypeOK
<1>4. Array!TypeOK' /\ LoopsInv'
  BY <1>2, <1>3 DEF ArrayInv, Array!TypeOK, LoopsInv
<1>5. OnceInv'
  BY <1>1, <1>2, <1>3 DEF ArrayInv, OnceInv
<1>6. LeftInv'
  <2>1. attempts[j] = 0 /\ 0 < MaxAttempts
    BY <1>1, UploadsAssumption DEF ArrayInv, LeftInv, Array!MemoryQueueAssumption
  <2> QED BY <1>1, <1>2, <1>3, <2>1 DEF ArrayInv, LeftInv
<1> QED BY <1>4, <1>5, <1>6 DEF ArrayInv

LEMMA ArraySwitchKeeps ==
  ASSUME ArrayInv,
         \/ \E l \in Loops : Array!Start(l) \/ Array!Leave(l)
         \/ Array!Close
         \/ UNCHANGED array
  PROVE  ArrayInv'
<1>1. UNCHANGED <<memory, lJob, attempts, ended>>
  BY DEF Array!Start, Array!Leave, Array!Close, array, Array!loops
<1>2. /\ running' \in BOOLEAN /\ closes' \in 0..MaxCloses
      /\ lPc' \in [Loops -> {"off", "loop", "run", "backoff"}]
      /\ \A l \in Loops : \/ lPc'[l] = lPc[l]
                          \/ lPc[l] \in {"off", "loop"} /\ lPc'[l] \in {"off", "loop"}
  <2>1. MaxCloses \in Nat
    BY UploadsAssumption DEF Array!MemoryQueueAssumption
  <2>2. CASE \E l \in Loops : Array!Start(l) \/ Array!Leave(l)
    BY <2>2 DEF ArrayInv, Array!TypeOK, Array!Start, Array!Leave
  <2>3. CASE Array!Close
    <3>1. closes' \in 0..MaxCloses
      BY <2>1, <2>3 DEF ArrayInv, Array!TypeOK, Array!Close
    <3> QED BY <2>3, <3>1 DEF ArrayInv, Array!TypeOK, Array!Close, Array!loops
  <2>4. CASE UNCHANGED array
    BY <2>4 DEF ArrayInv, Array!TypeOK, array
  <2> QED BY <2>2, <2>3, <2>4
<1>3. InArray' = InArray
  BY <1>1 DEF InArray
<1>4. Array!TypeOK'
  BY <1>1, <1>2 DEF ArrayInv, Array!TypeOK
<1>5. LoopsInv'
  BY <1>1, <1>2 DEF ArrayInv, LoopsInv
<1>6. OnceInv' /\ LeftInv'
  BY <1>1, <1>3 DEF ArrayInv, OnceInv, LeftInv
<1> QED BY <1>4, <1>5, <1>6 DEF ArrayInv

LEMMA ArrayShiftKeeps ==
  ASSUME ArrayInv, NEW l \in Loops, Array!Shift(l)
  PROVE  ArrayInv'
<1> DEFINE j == Head(memory)
<1>1. /\ lPc[l] = "loop" /\ memory # << >> /\ memory' = Tail(memory)
      /\ lPc' = [lPc EXCEPT ![l] = "run"] /\ lJob' = [lJob EXCEPT ![l] = {j}]
      /\ UNCHANGED <<running, attempts, ended, closes>>
  BY DEF Array!Shift
<1>2. /\ memory' \in Seq(Jobs) /\ j \in InArray /\ j \in Jobs /\ InArray' = InArray \ {j}
      /\ \A i, k \in 1..Len(memory') : i # k => memory'[i] # memory'[k]
  BY <1>1, ArrayShift DEF ArrayInv, OnceInv, Array!TypeOK
<1> HIDE DEF j
<1>3. Array!TypeOK'
  BY <1>1, <1>2 DEF ArrayInv, Array!TypeOK
<1>4. lJob[l] = {} /\ \A m \in Loops : j \notin lJob[m]
  BY <1>1, <1>2 DEF ArrayInv, LoopsInv, OnceInv
<1>5. lJob' = [m \in Loops |-> IF m = l THEN {j} ELSE lJob[m]]
  BY <1>1 DEF ArrayInv, Array!TypeOK
<1>6. LoopsInv'
  <2>1. \A m \in Loops : m # l => lPc'[m] = lPc[m] /\ lJob'[m] = lJob[m]
    BY <1>1, <1>5 DEF ArrayInv, Array!TypeOK
  <2>2. lPc'[l] = "run" /\ lJob'[l] = {j}
    BY <1>1, <1>5 DEF ArrayInv, Array!TypeOK
  <2>3. \A m, n \in Loops : m # n => lJob'[m] \cap lJob'[n] = {}
    BY <1>4, <2>1, <2>2 DEF ArrayInv, LoopsInv
  <2> QED BY <1>2, <2>1, <2>2, <2>3 DEF ArrayInv, LoopsInv
<1>7. OnceInv'
  BY <1>2, <1>4, <1>5 DEF ArrayInv, OnceInv
<1>8. LeftInv'
  <2>1. ASSUME NEW x \in Jobs
        PROVE  (x \in InArray \/ \E m \in Loops : x \in lJob[m])
                 <=> (x \in InArray' \/ \E m \in Loops : x \in lJob'[m])
    BY <1>2, <1>4, <1>5
  <2> QED BY <1>1, <2>1 DEF ArrayInv, LeftInv
<1> QED BY <1>3, <1>6, <1>7, <1>8 DEF ArrayInv

LEMMA ArrayHandlerKeeps ==
  ASSUME ArrayInv, NEW l \in Loops, Array!HandlerSucceeds(l) \/ Array!HandlerFails(l)
  PROVE  ArrayInv'
<1>1. lPc[l] = "run"
  BY DEF Array!HandlerSucceeds, Array!HandlerFails
<1>2. PICK j \in Jobs :
        /\ lJob[l] = {j} /\ j \notin InArray
        /\ \A m \in Loops : j \in lJob[m] => m = l
        /\ ended[j] = "no" /\ attempts[j] < MaxAttempts
  BY <1>1, HeldAlone
<1>3. MaxAttempts \in Nat /\ attempts[j] \in 0..MaxAttempts
  BY UploadsAssumption DEF ArrayInv, Array!TypeOK, Array!MemoryQueueAssumption
<1>4. UNCHANGED <<memory, running, closes>> /\ InArray' = InArray
  BY DEF Array!HandlerSucceeds, Array!HandlerFails, InArray
<1>5. CASE lJob' = [lJob EXCEPT ![l] = {}]
  <2>1. /\ lPc' = [lPc EXCEPT ![l] = "loop"]
        /\ \E e \in {"done", "dead"} : ended' = [ended EXCEPT ![j] = e]
        /\ \E n \in {attempts[j], attempts[j] + 1} : attempts' = [attempts EXCEPT ![j] = n]
    <3>1. CASE Array!HandlerSucceeds(l)
      <4>1. ended' = [ended EXCEPT ![j] = "done"]
        BY <1>2, <3>1 DEF Array!HandlerSucceeds, ArrayInv, Array!TypeOK
      <4>2. attempts' = [attempts EXCEPT ![j] = attempts[j]]
        BY <3>1 DEF Array!HandlerSucceeds, ArrayInv, Array!TypeOK
      <4>3. lPc' = [lPc EXCEPT ![l] = "loop"]
        BY <3>1 DEF Array!HandlerSucceeds
      <4> QED BY <4>1, <4>2, <4>3
    <3>2. CASE Array!HandlerFails(l)
      <4>1. /\ attempts' = [attempts EXCEPT ![j] = @ + 1]
            /\ IF Array!Retries(attempts'[j])
               THEN UNCHANGED lJob
               ELSE lPc' = [lPc EXCEPT ![l] = "loop"] /\ ended' = [ended EXCEPT ![j] = "dead"]
        BY <1>2, <3>2 DEF Array!HandlerFails
      <4>2. lJob' # lJob
        BY <1>2, <1>5 DEF ArrayInv, Array!TypeOK
      <4> QED BY <4>1, <4>2
    <3> QED BY <3>1, <3>2
  <2>2. attempts' \in [Jobs -> 0..MaxAttempts]
    <3>1. attempts[j] + 1 \in 0..MaxAttempts
      BY <1>2, <1>3
    <3> QED BY <1>3, <2>1, <3>1 DEF ArrayInv, Array!TypeOK
  <2>3. Array!TypeOK'
    BY <1>4, <1>5, <2>1, <2>2 DEF ArrayInv, Array!TypeOK
  <2>4. LoopsInv' /\ OnceInv'
    BY <1>4, <1>5, <2>1 DEF ArrayInv, Array!TypeOK, LoopsInv, OnceInv
  <2>5. LeftInv'
    <3> SUFFICES ASSUME NEW x \in Jobs
                 PROVE  IF x \in InArray' \/ \E m \in Loops : x \in lJob'[m]
                        THEN ended'[x] = "no" /\ attempts'[x] < MaxAttempts
                        ELSE ended'[x] = "no" => attempts'[x] = 0
      BY DEF LeftInv
    <3>1. lJob' = [m \in Loops |-> IF m = l THEN {} ELSE lJob[m]]
      BY <1>5 DEF ArrayInv, Array!TypeOK
    <3>2. CASE x = j
      <4>1. x \notin InArray' /\ \A m \in Loops : x \notin lJob'[m]
        BY <1>2, <1>4, <3>1, <3>2
      <4>2. ended'[x] # "no"
        BY <2>1, <3>2 DEF ArrayInv, Array!TypeOK
      <4> QED BY <4>1, <4>2
    <3>3. CASE x # j
      <4>1. x \in InArray' \/ (\E m \in Loops : x \in lJob'[m])
              <=> x \in InArray \/ (\E m \in Loops : x \in lJob[m])
        BY <1>2, <1>4, <3>1, <3>3
      <4>2. ended'[x] = ended[x] /\ attempts'[x] = attempts[x]
        BY <2>1, <3>3 DEF ArrayInv, Array!TypeOK
      <4> QED BY <4>1, <4>2 DEF ArrayInv, LeftInv
    <3> QED BY <3>2, <3>3
  <2> QED BY <2>3, <2>4, <2>5 DEF ArrayInv
<1>6. CASE lJob' # [lJob EXCEPT ![l] = {}]
  <2>1. /\ attempts' = [attempts EXCEPT ![j] = @ + 1] /\ Array!Retries(attempts'[j])
        /\ lPc' = [lPc EXCEPT ![l] = "backoff"]
        /\ UNCHANGED <<lJob, ended>>
    BY <1>2, <1>6 DEF Array!HandlerSucceeds, Array!HandlerFails
  <2>2. attempts'[j] = attempts[j] + 1 /\ attempts[j] + 1 < MaxAttempts
    BY <2>1 DEF ArrayInv, Array!TypeOK, Array!Retries
  <2>3. attempts' \in [Jobs -> 0..MaxAttempts]
    <3>1. attempts[j] + 1 \in 0..MaxAttempts
      BY <1>3, <2>2
    <3> QED BY <2>1, <3>1 DEF ArrayInv, Array!TypeOK
  <2>4. Array!TypeOK'
    BY <1>4, <2>1, <2>3 DEF ArrayInv, Array!TypeOK
  <2>5. LoopsInv' /\ OnceInv'
    BY <1>2, <1>4, <2>1 DEF ArrayInv, Array!TypeOK, LoopsInv, OnceInv
  <2>6. LeftInv'
    <3>1. \A x \in Jobs \ {j} : attempts'[x] = attempts[x]
      BY <2>1 DEF ArrayInv, Array!TypeOK
    <3> QED BY <1>2, <1>4, <2>1, <2>2, <3>1 DEF ArrayInv, LeftInv
  <2> QED BY <2>4, <2>5, <2>6 DEF ArrayInv
<1> QED BY <1>5, <1>6

LEMMA ArrayPutBackKeeps ==
  ASSUME ArrayInv, NEW l \in Loops, Array!PutBack(l)
  PROVE  ArrayInv'
<1>1. lPc[l] = "backoff"
  BY DEF Array!PutBack
<1>2. PICK j \in Jobs :
        /\ lJob[l] = {j} /\ j \notin InArray
        /\ \A m \in Loops : j \in lJob[m] => m = l
        /\ ended[j] = "no" /\ attempts[j] < MaxAttempts
  BY <1>1, HeldAlone
<1>3. /\ memory' = Append(memory, j)
      /\ lPc' = [lPc EXCEPT ![l] = "loop"] /\ lJob' = [lJob EXCEPT ![l] = {}]
      /\ UNCHANGED <<running, attempts, ended, closes>>
  BY <1>2 DEF Array!PutBack
<1>4. /\ memory' \in Seq(Jobs) /\ InArray' = InArray \cup {j}
      /\ \A i, k \in 1..Len(memory') : i # k => memory'[i] # memory'[k]
  BY <1>2, <1>3, ArrayAppend DEF ArrayInv, OnceInv, Array!TypeOK
<1>5. lJob' = [m \in Loops |-> IF m = l THEN {} ELSE lJob[m]]
  BY <1>3 DEF ArrayInv, Array!TypeOK
<1>6. Array!TypeOK' /\ LoopsInv'
  BY <1>3, <1>4, <1>5 DEF ArrayInv, Array!TypeOK, LoopsInv
<1>7. OnceInv'
  BY <1>2, <1>4, <1>5 DEF ArrayInv, OnceInv
<1>8. LeftInv'
  <2>1. ASSUME NEW x \in Jobs
        PROVE  (x \in InArray \/ \E m \in Loops : x \in lJob[m])
                 <=> (x \in InArray' \/ \E m \in Loops : x \in lJob'[m])
    BY <1>2, <1>4, <1>5
  <2> QED BY <1>3, <2>1 DEF ArrayInv, LeftInv
<1> QED BY <1>6, <1>7, <1>8 DEF ArrayInv

LEMMA ArrayInductive == ArrayInv /\ [Array!Next]_array => ArrayInv'
<1> SUFFICES ASSUME ArrayInv, [Array!Next]_array PROVE ArrayInv'
  OBVIOUS
<1>1. CASE \E j \in Jobs : Array!Enqueue(j)
  BY <1>1, ArrayEnqueueKeeps
<1>2. CASE \/ \E l \in Loops : Array!Start(l) \/ Array!Leave(l)
           \/ Array!Close
           \/ UNCHANGED array
  BY <1>2, ArraySwitchKeeps
<1>3. CASE \E l \in Loops : Array!Shift(l)
  BY <1>3, ArrayShiftKeeps
<1>4. CASE \E l \in Loops : Array!HandlerSucceeds(l) \/ Array!HandlerFails(l)
  BY <1>4, ArrayHandlerKeeps
<1>5. CASE \E l \in Loops : Array!PutBack(l)
  BY <1>5, ArrayPutBackKeeps
<1> QED BY <1>1, <1>2, <1>3, <1>4, <1>5 DEF Array!Next, Array!Loop

-------------------------------------------------------------------------------
(* The queue in memory does what QueueContract promises: its steps are      *)
(* steps of the contract, or leave every job where it is.                   *)

\* Where a job is seen, whatever happens to the others.
LEMMA OthersUnmoved ==
  ASSUME NEW x \in Jobs,
         ended'[x] = ended[x], attempts'[x] = attempts[x],
         x \in Array!ToSet(memory') <=> x \in Array!ToSet(memory),
         \A l \in Loops : /\ x \in lJob'[l] <=> x \in lJob[l]
                          /\ x \in lJob[l] => lPc'[l] = lPc[l]
  PROVE  Array!Status(x)' = Array!Status(x) /\ Array!Tries(x)' = Array!Tries(x)
<1>1. ASSUME NEW pc PROVE Array!HeldIn(x, pc)' <=> Array!HeldIn(x, pc)
  BY DEF Array!HeldIn
<1>2. Array!HeldIn(x, "run")' <=> Array!HeldIn(x, "run")
  BY <1>1
<1>3. Array!HeldIn(x, "backoff")' <=> Array!HeldIn(x, "backoff")
  BY <1>1
<1>4. Array!Status(x)' = Array!Status(x)
  BY <1>2, <1>3 DEF Array!Status
<1> QED BY <1>4 DEF Array!Tries

LEMMA ArrayIsSet == ASSUME memory \in Seq(Jobs) PROVE Array!ToSet(memory) = InArray
BY DEF Array!ToSet, InArray

LEMMA ArrayContractInit == Array!Init => Array!Contract!Init
<1> SUFFICES ASSUME Array!Init PROVE Array!Contract!Init
  OBVIOUS
<1>1. ASSUME NEW j \in Jobs PROVE Array!Status(j) = "none" /\ Array!Tries(j) = 0
  <2>1. Array!ToSet(memory) = {}
    BY DEF Array!Init, Array!ToSet
  <2>2. Array!Status(j) = "none"
    BY <2>1 DEF Array!Init, Array!Status, Array!HeldIn
  <2> QED BY <2>2 DEF Array!Init, Array!Tries
<1> QED BY <1>1 DEF Array!Contract!Init

\* One job moves on and the others stay: a step of the contract.
LEMMA ArrayMoves ==
  ASSUME NEW j \in Jobs, NEW s, NEW n,
         Array!Status(j)' = s, Array!Tries(j)' = n,
         \A x \in Jobs \ {j} :
            Array!Status(x)' = Array!Status(x) /\ Array!Tries(x)' = Array!Tries(x)
  PROVE  /\ [x \in Jobs |-> Array!Status(x)]' =
              [[x \in Jobs |-> Array!Status(x)] EXCEPT ![j] = s]
         /\ [x \in Jobs |-> Array!Tries(x)]' =
              [[x \in Jobs |-> Array!Tries(x)] EXCEPT ![j] = n]
OBVIOUS

LEMMA ArrayEnqueueAccepts ==
  ASSUME ArrayInv, NEW j \in Jobs, Array!Enqueue(j)
  PROVE  Array!Contract!Accept(j)
<1>1. /\ Array!Status(j) = "none"
      /\ memory' = Append(memory, j) /\ memory \in Seq(Jobs)
      /\ UNCHANGED <<lPc, lJob, attempts, ended>>
  BY DEF Array!Enqueue, Array!loops, ArrayInv, Array!TypeOK
<1>2. Array!ToSet(memory') = Array!ToSet(memory) \cup {j}
  <2>1. /\ DOMAIN memory = 1..Len(memory) /\ Len(memory) \in Nat
        /\ DOMAIN memory' = 1..(Len(memory) + 1)
        /\ \A i \in 1..Len(memory) : memory'[i] = memory[i]
        /\ memory'[Len(memory) + 1] = j
    BY <1>1
  <2>2. 1..(Len(memory) + 1) = 1..Len(memory) \cup {Len(memory) + 1}
    BY <2>1
  <2> QED BY <2>1, <2>2 DEF Array!ToSet
<1>3. \A x \in Jobs \ {j} :
        Array!Status(x)' = Array!Status(x) /\ Array!Tries(x)' = Array!Tries(x)
  BY <1>1, <1>2, OthersUnmoved
<1>4. Array!Status(j)' = "waiting"
  <2>1. ended[j] = "no" /\ ~Array!HeldIn(j, "run")
    BY <1>1 DEF Array!Status, ArrayInv, Array!TypeOK
  <2>2. ~Array!HeldIn(j, "run")'
    BY <1>1, <2>1 DEF Array!HeldIn
  <2> QED BY <1>1, <1>2, <2>1, <2>2 DEF Array!Status
<1>5. Array!Tries(j)' = Array!Tries(j)
  BY <1>1, <1>4 DEF Array!Tries
<1> QED BY <1>1, <1>3, <1>4, <1>5, ArrayMoves
        DEF Array!Contract!Accept, Array!Contract!Become

LEMMA ArrayShiftBegins ==
  ASSUME ArrayInv, ArrayInv', NEW l \in Loops, Array!Shift(l)
  PROVE  \E j \in Jobs : Array!Contract!Begin(j)
<1>0. PICK j : j = Head(memory)
  OBVIOUS
<1>1. /\ lPc[l] = "loop" /\ memory # << >> /\ memory' = Tail(memory)
      /\ lPc' = [lPc EXCEPT ![l] = "run"] /\ lJob' = [lJob EXCEPT ![l] = {j}]
      /\ UNCHANGED <<attempts, ended>>
  BY <1>0 DEF Array!Shift
<1>2. j \in InArray /\ j \in Jobs /\ InArray' = InArray \ {j}
  BY <1>0, <1>1, ArrayShift DEF ArrayInv, OnceInv, Array!TypeOK
<1>3. Array!ToSet(memory) = InArray /\ Array!ToSet(memory') = InArray \ {j}
  <2>1. Array!ToSet(memory) = InArray
    BY ArrayIsSet DEF ArrayInv, Array!TypeOK
  <2>2. Array!ToSet(memory') = InArray'
    BY DEF ArrayInv, Array!TypeOK, Array!ToSet, InArray
  <2> QED BY <1>2, <2>1, <2>2
<1>4. lJob[l] = {} /\ (\A m \in Loops : j \notin lJob[m]) /\ ended[j] = "no"
  BY <1>1, <1>2 DEF ArrayInv, LoopsInv, OnceInv, LeftInv
<1>5. /\ lJob' = [m \in Loops |-> IF m = l THEN {j} ELSE lJob[m]]
      /\ lPc' = [m \in Loops |-> IF m = l THEN "run" ELSE lPc[m]]
  BY <1>1 DEF ArrayInv, Array!TypeOK
<1>6. \A x \in Jobs \ {j} :
        Array!Status(x)' = Array!Status(x) /\ Array!Tries(x)' = Array!Tries(x)
  BY <1>1, <1>3, <1>4, <1>5, OthersUnmoved
<1>7. Array!Status(j) = "waiting"
  <2>1. ~Array!HeldIn(j, "run")
    BY <1>4 DEF Array!HeldIn
  <2> QED BY <1>2, <1>3, <1>4, <2>1 DEF Array!Status
<1>8. Array!Status(j)' = "running"
  <2>1. Array!HeldIn(j, "run")'
    BY <1>5 DEF Array!HeldIn
  <2> QED BY <1>1, <1>4, <2>1 DEF Array!Status
<1>9. Array!Tries(j)' = Array!Tries(j) + 1
  <2>1. attempts[j] \in Nat
    BY <1>2 DEF ArrayInv, Array!TypeOK
  <2> QED BY <1>1, <1>7, <1>8, <2>1 DEF Array!Tries
<1> QED BY <1>2, <1>6, <1>7, <1>8, <1>9, ArrayMoves
        DEF Array!Contract!Begin, Array!Contract!Become

LEMMA ArrayHandlerEnds ==
  ASSUME ArrayInv, NEW l \in Loops, Array!HandlerSucceeds(l) \/ Array!HandlerFails(l)
  PROVE  \E j \in Jobs : Array!Contract!Succeed(j) \/ Array!Contract!Fail(j)
<1>1. lPc[l] = "run" /\ UNCHANGED memory
  BY DEF Array!HandlerSucceeds, Array!HandlerFails
<1>2. PICK j \in Jobs :
        /\ lJob[l] = {j} /\ j \notin InArray
        /\ \A m \in Loops : j \in lJob[m] => m = l
        /\ ended[j] = "no" /\ attempts[j] < MaxAttempts
  BY <1>1, HeldAlone
<1>3. Array!Status(j) = "running" /\ Array!Tries(j) = attempts[j] + 1 /\ attempts[j] \in Nat
  <2>1. Array!HeldIn(j, "run")
    BY <1>1, <1>2 DEF Array!HeldIn
  <2>2. Array!Status(j) = "running"
    BY <1>2, <2>1 DEF Array!Status
  <2> QED BY <2>2 DEF Array!Tries, ArrayInv, Array!TypeOK
<1>4. \A x \in Jobs \ {j} : \A m \in Loops :
        (x \in lJob'[m] <=> x \in lJob[m]) /\ (x \in lJob[m] => lPc'[m] = lPc[m])
  BY <1>2 DEF Array!HandlerSucceeds, Array!HandlerFails, ArrayInv, Array!TypeOK
<1>5. CASE Array!HandlerSucceeds(l)
  <2>1. UNCHANGED attempts /\ ended' = [ended EXCEPT ![j] = "done"]
    BY <1>2, <1>5 DEF Array!HandlerSucceeds, ArrayInv, Array!TypeOK
  <2>2. \A x \in Jobs \ {j} :
          Array!Status(x)' = Array!Status(x) /\ Array!Tries(x)' = Array!Tries(x)
    BY <1>1, <1>4, <2>1, OthersUnmoved
  <2>3. Array!Status(j)' = "done"
    BY <2>1 DEF Array!Status, ArrayInv, Array!TypeOK
  <2>4. Array!Tries(j)' = Array!Tries(j)
    BY <1>3, <2>1, <2>3 DEF Array!Tries
  <2> QED BY <1>3, <2>2, <2>3, <2>4, ArrayMoves
          DEF Array!Contract!Succeed, Array!Contract!Become
<1>6. CASE Array!HandlerFails(l)
  <2>1. /\ attempts' = [attempts EXCEPT ![j] = @ + 1]
        /\ IF Array!Retries(attempts'[j])
           THEN /\ lPc' = [lPc EXCEPT ![l] = "backoff"]
                /\ UNCHANGED <<lJob, ended>>
           ELSE ended' = [ended EXCEPT ![j] = "dead"]
    BY <1>2, <1>6 DEF Array!HandlerFails
  <2>2. attempts'[j] = attempts[j] + 1
    BY <2>1 DEF ArrayInv, Array!TypeOK
  <2>3. \A x \in Jobs \ {j} : ended'[x] = ended[x] /\ attempts'[x] = attempts[x]
    BY <2>1 DEF ArrayInv, Array!TypeOK
  <2>4. \A x \in Jobs \ {j} :
          Array!Status(x)' = Array!Status(x) /\ Array!Tries(x)' = Array!Tries(x)
    BY <1>1, <1>4, <2>3, OthersUnmoved
  <2>5. Array!Status(j)' = IF attempts[j] + 1 < MaxAttempts THEN "waiting" ELSE "dead"
    <3>1. CASE Array!Retries(attempts'[j])
      <4>1. /\ UNCHANGED <<lJob, ended>> /\ attempts[j] + 1 < MaxAttempts
            /\ lPc' = [lPc EXCEPT ![l] = "backoff"]
        BY <2>1, <2>2, <3>1 DEF Array!Retries
      <4>2. Array!HeldIn(j, "backoff")'
        BY <1>2, <4>1 DEF Array!HeldIn, ArrayInv, Array!TypeOK
      <4>3. ~Array!HeldIn(j, "run")'
        BY <1>2, <4>1 DEF Array!HeldIn, ArrayInv, Array!TypeOK
      <4> QED BY <1>2, <4>1, <4>2, <4>3 DEF Array!Status
    <3>2. CASE ~Array!Retries(attempts'[j])
      <4>1. ended'[j] = "dead" /\ ~(attempts[j] + 1 < MaxAttempts)
        BY <2>1, <2>2, <3>2 DEF Array!Retries, ArrayInv, Array!TypeOK
      <4> QED BY <4>1 DEF Array!Status
    <3> QED BY <3>1, <3>2
  <2>6. Array!Tries(j)' = Array!Tries(j)
    <3>1. Array!Status(j)' \notin {"running", "done"}
      BY <2>5
    <3> QED BY <1>3, <2>2, <3>1 DEF Array!Tries
  <2> QED BY <1>3, <2>4, <2>5, <2>6, ArrayMoves
          DEF Array!Contract!Fail, Array!Contract!Become
<1> QED BY <1>5, <1>6

LEMMA ArrayStutters ==
  ASSUME ArrayInv, ArrayInv',
         \/ \E l \in Loops : Array!Start(l) \/ Array!Leave(l) \/ Array!PutBack(l)
         \/ Array!Close
         \/ UNCHANGED array
  PROVE  UNCHANGED Array!Contract!vars
<1>1. ASSUME NEW x \in Jobs
      PROVE  Array!Status(x)' = Array!Status(x) /\ Array!Tries(x)' = Array!Tries(x)
  <2>1. CASE \/ \E l \in Loops : Array!Start(l) \/ Array!Leave(l)
             \/ Array!Close
             \/ UNCHANGED array
    <3>1. UNCHANGED <<memory, lJob, attempts, ended>>
      BY <2>1 DEF Array!Start, Array!Leave, Array!Close, array, Array!loops
    <3>2. \A m \in Loops : x \in lJob[m] => lPc'[m] = lPc[m]
      BY <2>1 DEF Array!Start, Array!Leave, Array!Close, array, Array!loops,
                  ArrayInv, Array!TypeOK, LoopsInv
    <3> QED BY <3>1, <3>2, OthersUnmoved
  <2>2. ASSUME NEW l \in Loops, Array!PutBack(l)
        PROVE  Array!Status(x)' = Array!Status(x) /\ Array!Tries(x)' = Array!Tries(x)
    <3>1. lPc[l] = "backoff" /\ UNCHANGED <<attempts, ended>>
      BY <2>2 DEF Array!PutBack
    <3>2. PICK j \in Jobs :
            /\ lJob[l] = {j} /\ j \notin InArray
            /\ \A m \in Loops : j \in lJob[m] => m = l
            /\ ended[j] = "no" /\ attempts[j] < MaxAttempts
      BY <3>1, HeldAlone
    <3>3. /\ memory' = Append(memory, j)
          /\ lJob' = [m \in Loops |-> IF m = l THEN {} ELSE lJob[m]]
          /\ lPc' = [m \in Loops |-> IF m = l THEN "loop" ELSE lPc[m]]
      BY <2>2, <3>2 DEF Array!PutBack, ArrayInv, Array!TypeOK
    <3>4. InArray' = InArray \cup {j}
      BY <3>2, <3>3, ArrayAppend DEF ArrayInv, OnceInv, Array!TypeOK
    <3>5. Array!ToSet(memory) = InArray /\ Array!ToSet(memory') = InArray \cup {j}
      <4>1. Array!ToSet(memory) = InArray
        BY ArrayIsSet DEF ArrayInv, Array!TypeOK
      <4>2. Array!ToSet(memory') = InArray'
        BY DEF ArrayInv, Array!TypeOK, Array!ToSet, InArray
      <4> QED BY <3>4, <4>1, <4>2
    <3>6. CASE x # j
      <4>1. \A m \in Loops : /\ x \in lJob'[m] <=> x \in lJob[m]
                             /\ x \in lJob[m] => lPc'[m] = lPc[m]
        BY <3>2, <3>3, <3>6
      <4> QED BY <3>1, <3>5, <3>6, <4>1, OthersUnmoved
    <3>7. CASE x = j
      <4>1. ~Array!HeldIn(j, "run") /\ Array!HeldIn(j, "backoff")
        BY <3>1, <3>2 DEF Array!HeldIn
      <4>2. ~Array!HeldIn(j, "run")'
        BY <3>2, <3>3 DEF Array!HeldIn
      <4>3. Array!Status(j) = "waiting" /\ Array!Status(j)' = "waiting"
        BY <3>1, <3>2, <3>5, <4>1, <4>2 DEF Array!Status
      <4> QED BY <3>1, <3>7, <4>3 DEF Array!Tries
    <3> QED BY <3>6, <3>7
  <2> QED BY <2>1, <2>2
<1> QED BY <1>1 DEF Array!Contract!vars

LEMMA ArrayStepKeepsContract ==
  ArrayInv /\ ArrayInv' /\ [Array!Next]_array
    => [Array!Contract!Next]_Array!Contract!vars
<1> SUFFICES ASSUME ArrayInv, ArrayInv', [Array!Next]_array
             PROVE  [Array!Contract!Next]_Array!Contract!vars
  OBVIOUS
<1>1. CASE \E j \in Jobs : Array!Enqueue(j)
  <2>1. \E j \in Jobs : Array!Contract!Accept(j)
    BY <1>1, ArrayEnqueueAccepts
  <2> QED BY <2>1 DEF Array!Contract!Next
<1>2. CASE \E l \in Loops : Array!Shift(l)
  <2>1. \E j \in Jobs : Array!Contract!Begin(j)
    BY <1>2, ArrayShiftBegins
  <2> QED BY <2>1 DEF Array!Contract!Next
<1>3. CASE \E l \in Loops : Array!HandlerSucceeds(l) \/ Array!HandlerFails(l)
  <2>1. \E j \in Jobs : Array!Contract!Succeed(j) \/ Array!Contract!Fail(j)
    BY <1>3, ArrayHandlerEnds
  <2> QED BY <2>1 DEF Array!Contract!Next
<1>4. CASE \/ \E l \in Loops : Array!Start(l) \/ Array!Leave(l) \/ Array!PutBack(l)
           \/ Array!Close
           \/ UNCHANGED array
  BY <1>4, ArrayStutters
<1> QED BY <1>1, <1>2, <1>3, <1>4 DEF Array!Next, Array!Loop

-------------------------------------------------------------------------------
(* The queue in Redis implements the contract while its one worker lives: a *)
(* job is then in one place at a time, and processing holds what the worker *)
(* has in its hands, so that nothing is recovered from it.                  *)

\* Where an entry may be, and the entries there.
Places == {"ready", "delayed", "moving", "held", "dead"}

In(p) ==
    IF p = "ready" THEN DOMAIN ready
    ELSE IF p = "delayed" THEN DOMAIN delayed
    ELSE IF p = "moving" THEN moving[LoneWorker]
    ELSE IF p = "held" THEN held[LoneWorker]
    ELSE DOMAIN dead

\* A job is in one place, as one entry.
OnePlace ==
    \A p, q \in Places : \A e \in In(p), f \in In(q) : e.job = f.job => e = f /\ p = q

\* Entries are counted once, so that what is taken is gone.
SingleInv == \A b \in {ready, processing, delayed} : \A e \in DOMAIN b : b[e] = 1

\* While the worker works on its entry, processing holds it and nothing else.
Working == {"run", "ack", "nack"}
Busy    == {"run", "nack", "requeue"}

AloneInv ==
    /\ \A v \in Workers \ {LoneWorker} : held[v] = {}
    /\ wPc[LoneWorker] \in Working \cup {"idle", "requeue"}
    /\ DOMAIN processing = IF wPc[LoneWorker] \in Working THEN held[LoneWorker] ELSE {}
    /\ wPc[LoneWorker] = "idle" => held[LoneWorker] = {}

\* The attempts an entry counts are the runs of its job that have failed.
CountInv ==
    /\ done \subseteq submitted
    /\ \A j \in Jobs \ submitted : runs[j] = 0
    /\ \A p \in Places : \A e \in In(p) :
          /\ e.job \in submitted
          /\ p # "held" => e.job \notin done
          /\ p \in {"ready", "delayed", "moving"} => runs[e.job] = e.attempts
          /\ p = "held" => runs[e.job] = e.attempts + 1
    /\ wPc[LoneWorker] # "ack" => \A e \in held[LoneWorker] : e.job \notin done

SoloInv == OnePlace /\ SingleInv /\ AloneInv /\ CountInv

LEMMA SoloInit == Redis!Init => SoloInv
<1> SUFFICES ASSUME Redis!Init PROVE SoloInv
  OBVIOUS
<1>1. DOMAIN Redis!EmptyBag = {}
  BY DEF Redis!EmptyBag, Redis!SetToBag
<1>2. LoneWorker \in Workers
  BY UploadsAssumption
<1>3. \A p \in Places : In(p) = {}
  BY <1>1, <1>2 DEF In, Redis!Init
<1>4. OnePlace /\ SingleInv
  BY <1>1, <1>3 DEF OnePlace, SingleInv, Redis!Init
<1>5. AloneInv
  BY <1>1, <1>2 DEF AloneInv, Working, Redis!Init
<1>6. CountInv
  BY <1>2, <1>3 DEF CountInv, Redis!Init
<1> QED BY <1>4, <1>5, <1>6 DEF SoloInv

\* What is taken from a list is no longer in it.
LEMMA SingleTaken ==
  ASSUME NEW b, Redis!IsBag(b), \A x \in DOMAIN b : b[x] = 1, NEW e \in DOMAIN b
  PROVE  /\ DOMAIN Redis!BagRemove(b, e) = DOMAIN b \ {e}
         /\ \A x \in DOMAIN Redis!BagRemove(b, e) : Redis!BagRemove(b, e)[x] = 1
BY DEF Redis!BagRemove

LEMMA SingleAdded ==
  ASSUME NEW b, \A x \in DOMAIN b : b[x] = 1, NEW e, e \notin DOMAIN b
  PROVE  /\ DOMAIN Redis!BagAdd(b, e) = DOMAIN b \cup {e}
         /\ \A x \in DOMAIN Redis!BagAdd(b, e) : Redis!BagAdd(b, e)[x] = 1
BY DEF Redis!BagAdd

\* An entry that moves, perhaps changed, leaves its job in one place.
LEMMA OnePlaceByMove ==
  ASSUME OnePlace, NEW p \in Places, NEW q \in Places, p # q,
         NEW e \in In(p), NEW f, f.job = e.job,
         In(p)' = In(p) \ {e}, In(q)' = In(q) \cup {f},
         \A r \in Places \ {p, q} : In(r)' = In(r)
  PROVE  OnePlace'
<1> SUFFICES ASSUME NEW r \in Places, NEW s \in Places,
                    NEW x \in In(r)', NEW y \in In(s)', x.job = y.job
             PROVE  x = y /\ r = s
  BY DEF OnePlace
<1>1. (x = f /\ r = q) \/ (x # e /\ x \in In(r))
  <2>1. CASE r = p
    BY <2>1
  <2>2. CASE r = q
    <3>1. x \in In(q) => x # e
      BY DEF OnePlace
    <3>2. x \in In(q)'
      BY <2>2
    <3>3. x \in In(q) \/ x = f
      BY <3>2
    <3> QED BY <2>2, <3>1, <3>3
  <2>3. CASE r \notin {p, q}
    <3>1. x \in In(r)
      BY <2>3
    <3>2. x # e
      BY <2>3, <3>1 DEF OnePlace
    <3> QED BY <3>1, <3>2
  <2> QED BY <2>1, <2>2, <2>3
<1>2. (y = f /\ s = q) \/ (y # e /\ y \in In(s))
  <2>1. CASE s = p
    BY <2>1
  <2>2. CASE s = q
    <3>1. y \in In(q) => y # e
      BY DEF OnePlace
    <3>2. y \in In(q)'
      BY <2>2
    <3>3. y \in In(q) \/ y = f
      BY <3>2
    <3> QED BY <2>2, <3>1, <3>3
  <2>3. CASE s \notin {p, q}
    <3>1. y \in In(s)
      BY <2>3
    <3>2. y # e
      BY <2>3, <3>1 DEF OnePlace
    <3> QED BY <3>1, <3>2
  <2> QED BY <2>1, <2>2, <2>3
<1>3. \A z : \A t \in Places : z \in In(t) /\ z.job = e.job => z = e
  BY DEF OnePlace
<1> QED BY <1>1, <1>2, <1>3 DEF OnePlace

\* Where a job is seen, whatever happens to the others.
LEMMA OthersStay ==
  ASSUME NEW x \in Jobs,
         x \in submitted' <=> x \in submitted, x \in done' <=> x \in done,
         (\E e \in DOMAIN dead' : e.job = x) <=> (\E e \in DOMAIN dead : e.job = x),
         Redis!HeldIn(x, Busy)' <=> Redis!HeldIn(x, Busy)
  PROVE  Redis!Status(x)' = Redis!Status(x)
BY DEF Redis!Status, Redis!BagToSet, Busy

\* Who is running, when one worker lives.
LEMMA SoloHeld ==
  ASSUME AloneInv, NEW x \in Jobs
  PROVE  Redis!HeldIn(x, Busy) <=>
            wPc[LoneWorker] \in Busy /\ \E e \in held[LoneWorker] : e.job = x
BY UploadsAssumption DEF AloneInv, Redis!HeldIn

LEMMA SoloHeldAfter ==
  ASSUME AloneInv', NEW x \in Jobs
  PROVE  Redis!HeldIn(x, Busy)' <=>
            wPc'[LoneWorker] \in Busy /\ \E e \in held'[LoneWorker] : e.job = x
BY UploadsAssumption DEF AloneInv, Redis!HeldIn

\* One job moves on and the others stay: a step of the contract.
LEMMA DurableMoves ==
  ASSUME part = "single", part' = part, NEW j \in Jobs, NEW s,
         Redis!Status(j)' = s,
         \A x \in Jobs \ {j} : Redis!Status(x)' = Redis!Status(x) /\ runs'[x] = runs[x]
  PROVE  /\ [x \in Jobs |-> IF part = "single" THEN Redis!Status(x) ELSE "none"]' =
              [[x \in Jobs |-> IF part = "single" THEN Redis!Status(x) ELSE "none"]
                 EXCEPT ![j] = s]
         /\ [x \in Jobs |-> IF part = "single" THEN runs[x] ELSE 0]' =
              [[x \in Jobs |-> IF part = "single" THEN runs[x] ELSE 0]
                 EXCEPT ![j] = runs'[j]]
OBVIOUS

LEMMA DurableRests ==
  ASSUME part' = part,
         part = "single" => \A x \in Jobs : Redis!Status(x)' = Redis!Status(x) /\ runs'[x] = runs[x]
  PROVE  UNCHANGED Durable!vars
BY DEF Durable!vars

LEMMA SoloEnqueues ==
  ASSUME RedisInv, SoloInv, part = "single", part' = part,
         NEW j \in Jobs, Redis!Enqueue(j)
  PROVE  SoloInv' /\ Durable!Accept(j)
<1>0. LoneWorker \in Workers /\ Redis!IsBag(ready)
  BY UploadsAssumption DEF RedisInv, RedisTyped
<1>1. PICK e : e = Redis!New(j)
  OBVIOUS
<1>2. /\ j \notin submitted /\ submitted' = submitted \cup {j}
      /\ ready' = Redis!BagAdd(ready, e)
      /\ UNCHANGED <<processing, delayed, dead, wPc, held, todo, moving, done, runs>>
  BY <1>1 DEF Redis!Enqueue, Redis!loop
<1>3. e.job = j /\ e.attempts = 0
  BY <1>1 DEF Redis!New
<1>4. /\ j \notin done
      /\ \A p \in Places : \A f \in In(p) : f.job # j
  BY <1>2 DEF SoloInv, CountInv
<1>5. DOMAIN ready' = DOMAIN ready \cup {e} /\ \A x \in DOMAIN ready' : ready'[x] = 1
  <2>1. e \notin DOMAIN ready
    BY <1>3, <1>4 DEF In, Places
  <2>2. \A x \in DOMAIN ready : ready[x] = 1
    BY DEF SoloInv, SingleInv
  <2>3. /\ DOMAIN Redis!BagAdd(ready, e) = DOMAIN ready \cup {e}
        /\ \A x \in DOMAIN Redis!BagAdd(ready, e) : Redis!BagAdd(ready, e)[x] = 1
    BY <2>1, <2>2, SingleAdded
  <2> QED BY <1>2, <2>3
<1>6. In("ready")' = In("ready") \cup {e} /\ \A p \in Places \ {"ready"} : In(p)' = In(p)
  BY <1>2, <1>5 DEF In
<1>7. \A p \in Places : \A f \in In(p)' : f \in In(p) \/ (f = e /\ p = "ready")
  BY <1>6
<1>8. OnePlace'
  BY <1>3, <1>4, <1>7 DEF SoloInv, OnePlace
<1>9. SingleInv' /\ AloneInv'
  BY <1>2, <1>5 DEF SoloInv, SingleInv, AloneInv
<1>10. runs[j] = 0
  BY <1>2 DEF SoloInv, CountInv
<1>11. CountInv'
  BY <1>2, <1>3, <1>4, <1>7, <1>10 DEF SoloInv, CountInv
<1>12. ASSUME NEW x \in Jobs PROVE Redis!HeldIn(x, Busy)' <=> Redis!HeldIn(x, Busy)
  BY <1>2 DEF Redis!HeldIn
<1>13. \A x \in Jobs \ {j} : Redis!Status(x)' = Redis!Status(x) /\ runs'[x] = runs[x]
  BY <1>2, <1>12, OthersStay
<1>14. Redis!Status(j) = "none" /\ Redis!Status(j)' = "waiting"
  <2>1. Redis!Status(j) = "none"
    BY <1>2 DEF Redis!Status
  <2>2. ~\E f \in DOMAIN dead : f.job = j
    BY <1>4 DEF In, Places
  <2>3. ~Redis!HeldIn(j, Busy)
    BY <1>4, SoloHeld DEF SoloInv, In, Places
  <2>4. ~Redis!HeldIn(j, Busy)'
    BY <1>12, <2>3
  <2> QED BY <1>2, <1>4, <2>1, <2>2, <2>4 DEF Redis!Status, Redis!BagToSet, Busy
<1>15. Durable!Accept(j)
  BY <1>2, <1>13, <1>14, DurableMoves DEF Durable!Accept, Durable!Become
<1> QED BY <1>8, <1>9, <1>11, <1>15 DEF SoloInv

LEMMA SoloClaims ==
  ASSUME RedisInv, SoloInv, part = "single", part' = part, Redis!Claim(LoneWorker)
  PROVE  SoloInv' /\ \E j \in Jobs : Durable!Begin(j)
<1>0. LoneWorker \in Workers /\ RedisTyped /\ ListsInv
  BY UploadsAssumption DEF RedisInv
<1>1. PICK e \in DOMAIN ready :
        /\ ready' = Redis!BagRemove(ready, e)
        /\ processing' = Redis!BagAdd(processing, e)
        /\ held' = [held EXCEPT ![LoneWorker] = {e}]
        /\ runs' = [runs EXCEPT ![e.job] = @ + 1]
  BY DEF Redis!Claim, Redis!BagToSet
<1>2. /\ wPc[LoneWorker] = "idle" /\ wPc' = [wPc EXCEPT ![LoneWorker] = "run"]
      /\ UNCHANGED <<submitted, delayed, dead, moving, done>>
  BY DEF Redis!Claim
<1>3. /\ held[LoneWorker] = {} /\ DOMAIN processing = {}
      /\ \A x \in DOMAIN ready : ready[x] = 1
  BY <1>2 DEF SoloInv, AloneInv, SingleInv, Working
<1>4. /\ DOMAIN ready' = DOMAIN ready \ {e}
      /\ \A x \in DOMAIN ready' : ready'[x] = 1
  <2>1. Redis!IsBag(ready)
    BY <1>0 DEF RedisTyped
  <2>2. /\ DOMAIN Redis!BagRemove(ready, e) = DOMAIN ready \ {e}
        /\ \A x \in DOMAIN Redis!BagRemove(ready, e) : Redis!BagRemove(ready, e)[x] = 1
    BY <1>3, <2>1, SingleTaken
  <2> QED BY <1>1, <2>2
<1>5. DOMAIN processing' = {e} /\ \A x \in DOMAIN processing' : processing'[x] = 1
  <2>1. /\ DOMAIN Redis!BagAdd(processing, e) = DOMAIN processing \cup {e}
        /\ \A x \in DOMAIN Redis!BagAdd(processing, e) : Redis!BagAdd(processing, e)[x] = 1
    BY <1>3, SingleAdded
  <2> QED BY <1>1, <1>3, <2>1
<1>6. /\ e \in Redis!Entry /\ e.job \in Jobs /\ e.attempts \in Nat
      /\ runs[e.job] \in Nat
  <2>1. e \in Fresh
    BY <1>0 DEF ListsInv
  <2>2. e \in Redis!Entry /\ e.job \in Jobs
    BY <2>1, RetriedTyped
  <2>3. MaxAttempts \in Nat
    BY UploadsAssumption DEF Redis!JobQueueAssumption
  <2> QED BY <1>0, <2>2, <2>3 DEF Redis!Entry, RedisTyped
<1>7. held' = [v \in Workers |-> IF v = LoneWorker THEN {e} ELSE held[v]]
  BY <1>0, <1>1 DEF RedisTyped
<1>8. /\ In("ready")' = In("ready") \ {e} /\ In("held")' = In("held") \cup {e}
      /\ e \in In("ready")
      /\ \A r \in Places \ {"ready", "held"} : In(r)' = In(r)
  BY <1>0, <1>2, <1>3, <1>4, <1>7 DEF In
<1>9. OnePlace'
  BY <1>8, OnePlaceByMove DEF SoloInv, Places
<1>10. SingleInv'
  BY <1>2, <1>4, <1>5 DEF SoloInv, SingleInv
<1>11. AloneInv'
  BY <1>0, <1>2, <1>5, <1>7 DEF SoloInv, AloneInv, RedisTyped, Working
<1>12. /\ e.job \in submitted /\ e.job \notin done /\ runs[e.job] = e.attempts
       /\ \A r \in Places : \A x \in In(r) : x.job = e.job => x = e /\ r = "ready"
  BY <1>8 DEF SoloInv, CountInv, OnePlace, Places
<1>13. runs'[e.job] = e.attempts + 1 /\ \A j \in Jobs \ {e.job} : runs'[j] = runs[j]
  BY <1>0, <1>1, <1>6, <1>12 DEF RedisTyped
<1>14. CountInv'
  <2>1. ASSUME NEW r \in Places, NEW x \in In(r)'
        PROVE  /\ x.job \in submitted /\ x.job \notin done
               /\ r \in {"ready", "delayed", "moving"} => runs'[x.job] = x.attempts
               /\ r = "held" => runs'[x.job] = x.attempts + 1
    <3>1. CASE r = "held"
      <4>1. x = e
        BY <1>7, <1>0, <3>1, <2>1 DEF In
      <4> QED BY <1>12, <1>13, <3>1, <4>1
    <3>2. CASE r # "held"
      <4>1. x \in In(r) /\ x # e
        <5>1. CASE r = "ready"
          BY <1>8, <2>1, <5>1
        <5>2. CASE r # "ready"
          <6>1. x \in In(r)
            BY <1>8, <2>1, <3>2, <5>2
          <6> QED BY <1>12, <5>2, <6>1
        <5> QED BY <5>1, <5>2
      <4>2. x.job # e.job
        BY <1>12, <4>1
      <4>3. /\ x.job \in submitted /\ x.job \notin done
            /\ r \in {"ready", "delayed", "moving"} => runs[x.job] = x.attempts
        BY <3>2, <4>1 DEF SoloInv, CountInv
      <4>4. x.job \in Jobs
        BY <1>0, <4>3 DEF RedisTyped
      <4> QED BY <1>13, <3>2, <4>2, <4>3, <4>4
    <3> QED BY <3>1, <3>2
  <2>2. \A j \in Jobs \ submitted : runs'[j] = 0
    BY <1>12, <1>13 DEF SoloInv, CountInv
  <2>3. \A x \in held'[LoneWorker] : x.job \notin done
    BY <1>0, <1>7, <1>12
  <2> QED BY <1>2, <2>1, <2>2, <2>3 DEF SoloInv, CountInv
<1>15. ASSUME NEW x \in Jobs
       PROVE  /\ ~Redis!HeldIn(x, Busy)
              /\ Redis!HeldIn(x, Busy)' <=> x = e.job
  <2>1. ~Redis!HeldIn(x, Busy)
    BY <1>3, SoloHeld DEF SoloInv
  <2>2. held'[LoneWorker] = {e} /\ wPc'[LoneWorker] \in Busy
    BY <1>0, <1>2, <1>7 DEF RedisTyped, Busy
  <2> QED BY <1>11, <2>1, <2>2, SoloHeldAfter
<1>16. \A x \in Jobs \ {e.job} : Redis!Status(x)' = Redis!Status(x) /\ runs'[x] = runs[x]
  BY <1>2, <1>13, <1>15, OthersStay
<1>17. Redis!Status(e.job) = "waiting" /\ Redis!Status(e.job)' = "running"
  <2>1. ~\E x \in DOMAIN dead : x.job = e.job
    BY <1>12 DEF In, Places
  <2>2. Redis!Status(e.job) = "waiting"
    BY <1>6, <1>12, <1>15, <2>1 DEF Redis!Status, Redis!BagToSet, Busy
  <2>3. Redis!HeldIn(e.job, Busy)'
    BY <1>6, <1>15
  <2> QED BY <1>2, <1>12, <2>1, <2>2, <2>3 DEF Redis!Status, Redis!BagToSet, Busy
<1>18. Durable!Begin(e.job)
  <2>1. runs'[e.job] = runs[e.job] + 1
    BY <1>12, <1>13
  <2> QED BY <1>6, <1>16, <1>17, <2>1, DurableMoves DEF Durable!Begin, Durable!Become
<1> QED BY <1>6, <1>9, <1>10, <1>11, <1>14, <1>18 DEF SoloInv

LEMMA SoloHandles ==
  ASSUME RedisInv, SoloInv, part = "single", part' = part,
         Redis!HandlerSucceeds(LoneWorker) \/ Redis!HandlerFails(LoneWorker)
  PROVE  SoloInv' /\ [Durable!Next]_Durable!vars
<1>0. LoneWorker \in Workers /\ RedisTyped
  BY UploadsAssumption DEF RedisInv
<1>1. /\ wPc[LoneWorker] = "run"
      /\ UNCHANGED <<submitted, ready, processing, delayed, dead, held, moving, runs>>
  BY DEF Redis!HandlerSucceeds, Redis!HandlerFails, Redis!lists
<1>2. \/ wPc' = [wPc EXCEPT ![LoneWorker] = "nack"] /\ done' = done
      \/ /\ wPc' = [wPc EXCEPT ![LoneWorker] = "ack"]
         /\ done' = done \cup {e.job : e \in held[LoneWorker]}
  BY DEF Redis!HandlerSucceeds, Redis!HandlerFails
<1>3. \A r \in Places : In(r)' = In(r)
  BY <1>1 DEF In
<1>4. OnePlace' /\ SingleInv'
  BY <1>1, <1>3 DEF SoloInv, OnePlace, SingleInv
<1>5. wPc'[LoneWorker] \in {"ack", "nack"}
  BY <1>0, <1>2 DEF RedisTyped
<1>6. AloneInv'
  BY <1>1, <1>5 DEF SoloInv, AloneInv, Working
<1>7. \A x \in held[LoneWorker] : x.job \in submitted /\ x \in In("held")
  BY DEF SoloInv, CountInv, In, Places
<1>8. \A r \in Places : \A x \in In(r) : r # "held" => x.job \notin done'
  <2>1. ASSUME NEW r \in Places, NEW x \in In(r), r # "held", NEW e \in held[LoneWorker]
        PROVE  x.job # e.job
    BY <1>7, <2>1 DEF SoloInv, OnePlace, Places
  <2> QED BY <1>2, <2>1 DEF SoloInv, CountInv
<1>9. CountInv'
  <2>1. done' \subseteq submitted
    BY <1>2, <1>7 DEF SoloInv, CountInv
  <2>2. wPc'[LoneWorker] # "ack" => \A x \in held[LoneWorker] : x.job \notin done'
    BY <1>0, <1>1, <1>2 DEF SoloInv, CountInv, RedisTyped
  <2> QED BY <1>1, <1>3, <1>8, <2>1, <2>2 DEF SoloInv, CountInv
<1>10. ASSUME NEW x \in Jobs
       PROVE  /\ Redis!HeldIn(x, Busy) <=> \E e \in held[LoneWorker] : e.job = x
              /\ Redis!HeldIn(x, Busy)' <=>
                    wPc'[LoneWorker] = "nack" /\ \E e \in held[LoneWorker] : e.job = x
  BY <1>1, <1>5, <1>6, SoloHeld, SoloHeldAfter DEF SoloInv, Busy
<1>11. CASE wPc' = [wPc EXCEPT ![LoneWorker] = "nack"] /\ done' = done
  <2>1. wPc'[LoneWorker] = "nack"
    BY <1>0, <1>11 DEF RedisTyped
  <2>2. \A x \in Jobs : Redis!Status(x)' = Redis!Status(x)
    BY <1>1, <1>10, <1>11, <2>1, OthersStay
  <2>3. UNCHANGED Durable!vars
    BY <1>1, <2>2, DurableRests
  <2> QED BY <1>4, <1>6, <1>9, <2>3 DEF SoloInv
<1>12. CASE /\ wPc' = [wPc EXCEPT ![LoneWorker] = "ack"]
            /\ done' = done \cup {e.job : e \in held[LoneWorker]}
  <2>1. wPc'[LoneWorker] = "ack"
    BY <1>0, <1>12 DEF RedisTyped
  <2>2. CASE held[LoneWorker] = {}
    <3>1. \A x \in Jobs : Redis!Status(x)' = Redis!Status(x)
      BY <1>1, <1>10, <1>12, <2>2, OthersStay
    <3>2. UNCHANGED Durable!vars
      BY <1>1, <3>1, DurableRests
    <3> QED BY <1>4, <1>6, <1>9, <3>2 DEF SoloInv
  <2>3. CASE held[LoneWorker] # {}
    <3>1. PICK e \in Fresh : held[LoneWorker] = {e}
      BY <1>0, <2>3 DEF RedisInv, HandsInv
    <3>2. e.job \in Jobs /\ done' = done \cup {e.job}
      BY <1>12, <3>1, RetriedTyped
    <3>3. /\ e.job \in submitted /\ e.job \notin done
          /\ ~\E x \in DOMAIN dead : x.job = e.job
      <4>1. e.job \in submitted /\ e.job \notin done /\ e \in In("held")
        BY <1>1, <1>7, <3>1 DEF SoloInv, CountInv
      <4>2. \A x \in DOMAIN dead : x.job # e.job
        BY <4>1 DEF SoloInv, OnePlace, In, Places
      <4> QED BY <4>1, <4>2
    <3>4. \A x \in Jobs \ {e.job} :
            Redis!Status(x)' = Redis!Status(x) /\ runs'[x] = runs[x]
      <4>1. ASSUME NEW x \in Jobs \ {e.job}
            PROVE  Redis!HeldIn(x, Busy)' <=> Redis!HeldIn(x, Busy)
        BY <1>10, <3>1
      <4> QED BY <1>1, <3>2, <4>1, OthersStay
    <3>5. Redis!Status(e.job) = "running"
      BY <1>10, <3>1, <3>2, <3>3 DEF Redis!Status, Redis!BagToSet, Busy
    <3>6. Redis!Status(e.job)' = "done"
      BY <1>1, <3>2, <3>3 DEF Redis!Status
    <3>7. Durable!Succeed(e.job)
      BY <1>1, <3>2, <3>4, <3>5, <3>6, DurableMoves DEF Durable!Succeed, Durable!Become
    <3> QED BY <1>4, <1>6, <1>9, <3>2, <3>7 DEF SoloInv, Durable!Next
  <2> QED BY <2>2, <2>3
<1> QED BY <1>2, <1>11, <1>12

LEMMA SoloSettles ==
  ASSUME RedisInv, SoloInv, part = "single", part' = part,
         Redis!Ack(LoneWorker) \/ Redis!Nack(LoneWorker)
  PROVE  SoloInv' /\ UNCHANGED Durable!vars
<1>0. LoneWorker \in Workers /\ RedisTyped /\ HandsInv /\ AckInv
  BY UploadsAssumption DEF RedisInv
<1>1. PICK e \in held[LoneWorker] : processing' = Redis!BagRemove(processing, e)
  BY DEF Redis!Ack, Redis!Nack
<1>2. /\ UNCHANGED <<submitted, ready, delayed, dead, moving, done, runs>>
      /\ \/ /\ wPc[LoneWorker] = "ack" /\ wPc' = [wPc EXCEPT ![LoneWorker] = "idle"]
            /\ held' = [held EXCEPT ![LoneWorker] = {}]
         \/ /\ wPc[LoneWorker] = "nack" /\ wPc' = [wPc EXCEPT ![LoneWorker] = "requeue"]
            /\ held' = held
  BY DEF Redis!Ack, Redis!Nack
<1>3. held[LoneWorker] = {e} /\ DOMAIN processing = {e}
  BY <1>0, <1>2 DEF HandsInv, SoloInv, AloneInv, Working
<1>4. DOMAIN processing' = {} /\ \A x \in DOMAIN processing' : processing'[x] = 1
  <2>1. Redis!IsBag(processing) /\ \A x \in DOMAIN processing : processing[x] = 1
    BY <1>0 DEF RedisTyped, SoloInv, SingleInv
  <2>2. DOMAIN Redis!BagRemove(processing, e) = DOMAIN processing \ {e}
    BY <1>3, <2>1, SingleTaken
  <2> QED BY <1>1, <1>3, <2>2
<1>5. \A r \in Places : In(r)' = In(r) \/ (r = "held" /\ In(r)' = {})
  BY <1>0, <1>2 DEF In, RedisTyped
<1>6. OnePlace' /\ SingleInv'
  BY <1>2, <1>4, <1>5 DEF SoloInv, OnePlace, SingleInv
<1>7. AloneInv'
  BY <1>0, <1>2, <1>4 DEF SoloInv, AloneInv, Working, RedisTyped
<1>8. CountInv'
  <2>1. wPc[LoneWorker] = "nack" => \A x \in held'[LoneWorker] : x.job \notin done
    BY <1>2 DEF SoloInv, CountInv
  <2>2. wPc[LoneWorker] = "ack" => held'[LoneWorker] = {}
    BY <1>0, <1>2 DEF RedisTyped
  <2>3. \A x \in held'[LoneWorker] : x.job \notin done
    BY <1>2, <2>1, <2>2
  <2>4. \A r \in Places : \A x \in In(r)' : x \in In(r)
    BY <1>5
  <2> QED BY <1>2, <2>3, <2>4 DEF SoloInv, CountInv
<1>9. ASSUME NEW x \in Jobs PROVE Redis!Status(x)' = Redis!Status(x)
  <2>1. CASE x \in done
    BY <1>2, <2>1 DEF Redis!Status
  <2>2. CASE x \notin done
    <3>1. wPc[LoneWorker] = "ack" => ~\E y \in held[LoneWorker] : y.job = x
      BY <1>0, <2>2 DEF AckInv
    <3>2. wPc[LoneWorker] = "ack" => held'[LoneWorker] = {}
      BY <1>0, <1>2 DEF RedisTyped
    <3>3. wPc[LoneWorker] = "nack" =>
             wPc'[LoneWorker] = "requeue" /\ held'[LoneWorker] = held[LoneWorker]
      BY <1>0, <1>2 DEF RedisTyped
    <3>4. Redis!HeldIn(x, Busy)' <=> Redis!HeldIn(x, Busy)
      <4>1. Redis!HeldIn(x, Busy) <=>
              wPc[LoneWorker] \in Busy /\ \E y \in held[LoneWorker] : y.job = x
        BY SoloHeld DEF SoloInv
      <4>2. Redis!HeldIn(x, Busy)' <=>
              wPc'[LoneWorker] \in Busy /\ \E y \in held'[LoneWorker] : y.job = x
        BY <1>7, SoloHeldAfter
      <4>3. CASE wPc[LoneWorker] = "ack"
        BY <3>1, <3>2, <4>1, <4>2, <4>3 DEF Busy
      <4>4. CASE wPc[LoneWorker] = "nack"
        BY <3>3, <4>1, <4>2, <4>4 DEF Busy
      <4> QED BY <1>2, <4>3, <4>4
    <3> QED BY <1>2, <3>4, OthersStay
  <2> QED BY <2>1, <2>2
<1> QED BY <1>2, <1>6, <1>7, <1>8, <1>9, DurableRests DEF SoloInv

LEMMA SoloRequeues ==
  ASSUME RedisInv, SoloInv, part = "single", part' = part, Redis!Requeue(LoneWorker)
  PROVE  SoloInv' /\ \E j \in Jobs : Durable!Fail(j)
<1>0. LoneWorker \in Workers /\ RedisTyped /\ HandsInv
  BY UploadsAssumption DEF RedisInv
<1>1. PICK e \in held[LoneWorker] :
        IF Redis!Exhausted(e)
        THEN dead' = Redis!BagAdd(dead, Redis!Retried(e)) /\ UNCHANGED delayed
        ELSE delayed' = Redis!BagAdd(delayed, Redis!Retried(e)) /\ UNCHANGED dead
  BY DEF Redis!Requeue
<1>2. /\ wPc[LoneWorker] = "requeue" /\ wPc' = [wPc EXCEPT ![LoneWorker] = "idle"]
      /\ held' = [held EXCEPT ![LoneWorker] = {}]
      /\ UNCHANGED <<submitted, ready, processing, moving, done, runs>>
  BY DEF Redis!Requeue
<1>3. held[LoneWorker] = {e} /\ e \in Fresh
  BY <1>0, <1>2 DEF HandsInv
<1>4. PICK f \in Redis!Entry : f = Redis!Retried(e) /\ f.job = e.job
  BY <1>3, RetriedTyped
<1>5. /\ e.job \in Jobs /\ e.attempts \in Nat /\ MaxAttempts \in Nat
      /\ f.attempts = e.attempts + 1
      /\ Redis!Exhausted(e) <=> ~(e.attempts + 1 < MaxAttempts)
  <2>1. MaxAttempts \in Nat
    BY UploadsAssumption DEF Redis!JobQueueAssumption
  <2>2. e \in Redis!Entry
    BY <1>3 DEF Fresh
  <2> QED BY <1>4, <2>1, <2>2 DEF Redis!Entry, Redis!Retried, Redis!Exhausted
<1>6. /\ e \in In("held") /\ e.job \in submitted /\ e.job \notin done
      /\ runs[e.job] = e.attempts + 1
  <2>1. e \in In("held")
    BY <1>3 DEF In
  <2> QED BY <1>2, <1>3, <2>1 DEF SoloInv, CountInv, Places
<1>7. \A r \in Places : \A x \in In(r) : x.job = e.job => x = e /\ r = "held"
  BY <1>6 DEF SoloInv, OnePlace, Places
<1>8. held' = [v \in Workers |-> IF v = LoneWorker THEN {} ELSE held[v]]
  BY <1>0, <1>2 DEF RedisTyped
<1>9. AloneInv'
  BY <1>0, <1>2, <1>8 DEF SoloInv, AloneInv, RedisTyped, Working
<1>10. ASSUME NEW x \in Jobs
       PROVE  /\ Redis!HeldIn(x, Busy) <=> x = e.job
              /\ ~Redis!HeldIn(x, Busy)'
  <2>1. wPc[LoneWorker] \in Busy /\ held'[LoneWorker] = {}
    BY <1>0, <1>2, <1>8 DEF Busy
  <2> QED BY <1>3, <1>9, <2>1, SoloHeld, SoloHeldAfter DEF SoloInv
<1>11. \A x \in DOMAIN dead : x.job # e.job
  BY <1>7 DEF In, Places
<1>12. Redis!Status(e.job) = "running"
  BY <1>5, <1>6, <1>10, <1>11 DEF Redis!Status, Redis!BagToSet, Busy
<1>13. PICK q \in {"delayed", "dead"} :
         /\ q = "dead" <=> Redis!Exhausted(e)
         /\ In(q)' = In(q) \cup {f}
         /\ \A r \in Places \ {q, "held"} : In(r)' = In(r)
  <2>1. CASE Redis!Exhausted(e)
    <3>1. dead' = Redis!BagAdd(dead, f) /\ UNCHANGED delayed /\ Redis!IsBag(dead)
      BY <1>0, <1>1, <1>4, <2>1 DEF RedisTyped
    <3>2. DOMAIN dead' = DOMAIN dead \cup {f}
      BY <3>1, BagGrows
    <3>3. /\ In("dead")' = In("dead") \cup {f}
          /\ \A r \in Places \ {"dead", "held"} : In(r)' = In(r)
      BY <1>2, <3>1, <3>2 DEF In, Places
    <3> QED BY <2>1, <3>3
  <2>2. CASE ~Redis!Exhausted(e)
    <3>1. delayed' = Redis!BagAdd(delayed, f) /\ UNCHANGED dead /\ Redis!IsBag(delayed)
      BY <1>0, <1>1, <1>4, <2>2 DEF RedisTyped
    <3>2. DOMAIN delayed' = DOMAIN delayed \cup {f}
      BY <3>1, BagGrows
    <3>3. /\ In("delayed")' = In("delayed") \cup {f}
          /\ \A r \in Places \ {"delayed", "held"} : In(r)' = In(r)
      BY <1>2, <3>1, <3>2 DEF In, Places
    <3> QED BY <2>2, <3>3
  <2> QED BY <2>1, <2>2
<1>14. In("held")' = In("held") \ {e}
  BY <1>0, <1>3, <1>8 DEF In
<1>15. OnePlace'
  <2>1. q \in Places /\ "held" \in Places /\ q # "held"
    BY DEF Places
  <2> QED BY <1>4, <1>6, <1>13, <1>14, <2>1, OnePlaceByMove DEF SoloInv
<1>16. SingleInv'
  <2>1. CASE Redis!Exhausted(e)
    BY <1>1, <1>2, <2>1 DEF SoloInv, SingleInv
  <2>2. CASE ~Redis!Exhausted(e)
    <3>1. f \notin DOMAIN delayed
      BY <1>4, <1>7 DEF In, Places
    <3>2. \A x \in DOMAIN delayed : delayed[x] = 1
      BY DEF SoloInv, SingleInv
    <3>3. \A x \in DOMAIN Redis!BagAdd(delayed, f) : Redis!BagAdd(delayed, f)[x] = 1
      BY <3>1, <3>2, SingleAdded
    <3> QED BY <1>1, <1>2, <1>4, <2>2, <3>3 DEF SoloInv, SingleInv
  <2> QED BY <2>1, <2>2
<1>17. CountInv'
  <2>1. ASSUME NEW r \in Places, NEW x \in In(r)'
        PROVE  /\ r # "held"
               /\ x.job \in submitted /\ x.job \notin done
               /\ r \in {"ready", "delayed", "moving"} => runs[x.job] = x.attempts
    <3>1. r # "held"
      BY <1>0, <1>8, <2>1 DEF In
    <3>2. x \in In(r) \/ x = f
      BY <1>13, <2>1, <3>1
    <3>3. CASE x \in In(r)
      BY <3>1, <3>3 DEF SoloInv, CountInv
    <3>4. CASE x = f
      BY <1>4, <1>5, <1>6, <3>1, <3>4
    <3> QED BY <3>2, <3>1, <3>3, <3>4
  <2>2. held'[LoneWorker] = {}
    BY <1>0, <1>8
  <2> QED BY <1>2, <2>1, <2>2 DEF SoloInv, CountInv
<1>18. \A x \in Jobs \ {e.job} : Redis!Status(x)' = Redis!Status(x) /\ runs'[x] = runs[x]
  <2>1. ASSUME NEW x \in Jobs \ {e.job}
        PROVE  (\E y \in DOMAIN dead' : y.job = x) <=> (\E y \in DOMAIN dead : y.job = x)
    <3>1. DOMAIN dead' = DOMAIN dead \/ DOMAIN dead' = DOMAIN dead \cup {f}
      <4>1. In("dead")' = In("dead") \/ In("dead")' = In("dead") \cup {f}
        BY <1>13 DEF Places
      <4> QED BY <4>1 DEF In
    <3> QED BY <1>4, <2>1, <3>1
  <2>2. ASSUME NEW x \in Jobs \ {e.job}
        PROVE  Redis!HeldIn(x, Busy)' <=> Redis!HeldIn(x, Busy)
    BY <1>10
  <2> QED BY <1>2, <2>1, <2>2, OthersStay
<1>19. Redis!Status(e.job)' = IF runs[e.job] < MaxAttempts THEN "waiting" ELSE "dead"
  <2>1. ~Redis!HeldIn(e.job, Busy)'
    BY <1>5, <1>10
  <2>2. Redis!Status(e.job)' =
          IF \E x \in DOMAIN dead' : x.job = e.job THEN "dead" ELSE "waiting"
    BY <1>2, <1>6, <2>1 DEF Redis!Status, Redis!BagToSet, Busy
  <2>3. (\E x \in DOMAIN dead' : x.job = e.job) <=> Redis!Exhausted(e)
    <3>1. CASE Redis!Exhausted(e)
      <4>1. f \in In("dead")'
        BY <1>13, <3>1
      <4> QED BY <1>4, <3>1, <4>1 DEF In
    <3>2. CASE ~Redis!Exhausted(e)
      BY <1>1, <1>11, <3>2
    <3> QED BY <3>1, <3>2
  <2> QED BY <1>5, <1>6, <2>2, <2>3
<1>20. Durable!Fail(e.job)
  BY <1>2, <1>5, <1>12, <1>18, <1>19, DurableMoves DEF Durable!Fail, Durable!Become
<1> QED BY <1>5, <1>9, <1>15, <1>16, <1>17, <1>20 DEF SoloInv

\* The timer moves an entry between places where its job waits.
LEMMA SoloMovesWaiting ==
  ASSUME RedisInv, SoloInv, part = "single", part' = part,
         NEW p \in {"ready", "delayed", "moving"}, NEW q \in {"ready", "delayed", "moving"},
         p # q, NEW e \in In(p),
         In(p)' = In(p) \ {e}, In(q)' = In(q) \cup {e},
         \A r \in Places \ {p, q} : In(r)' = In(r),
         SingleInv',
         UNCHANGED <<submitted, processing, dead, wPc, held, done, runs>>
  PROVE  SoloInv' /\ UNCHANGED Durable!vars
<1>1. p \in Places /\ q \in Places
  BY DEF Places
<1>2. OnePlace'
  BY <1>1, OnePlaceByMove DEF SoloInv
<1>3. AloneInv'
  BY DEF SoloInv, AloneInv
<1>4. CountInv'
  <2>1. ASSUME NEW r \in Places, NEW x \in In(r)'
        PROVE  /\ x.job \in submitted
               /\ r # "held" => x.job \notin done
               /\ r \in {"ready", "delayed", "moving"} => runs[x.job] = x.attempts
               /\ r = "held" => runs[x.job] = x.attempts + 1
    <3>1. x \in In(r) \/ (x = e /\ r = q)
      <4>1. CASE r = q
        <5>1. x \in In(q)'
          BY <2>1, <4>1
        <5> QED BY <4>1, <5>1
      <4>2. CASE r = p
        <5>1. x \in In(p)'
          BY <2>1, <4>2
        <5> QED BY <4>2, <5>1
      <4>3. CASE r \notin {p, q}
        BY <2>1, <4>3
      <4> QED BY <4>1, <4>2, <4>3
    <3>2. CASE x \in In(r)
      BY <3>2 DEF SoloInv, CountInv
    <3>3. CASE x = e /\ r = q
      <4>1. e.job \in submitted /\ e.job \notin done /\ runs[e.job] = e.attempts
        BY <1>1 DEF SoloInv, CountInv
      <4> QED BY <3>3, <4>1
    <3> QED BY <3>1, <3>2, <3>3
  <2> QED BY <2>1 DEF SoloInv, CountInv
<1>5. ASSUME NEW x \in Jobs PROVE Redis!Status(x)' = Redis!Status(x)
  <2>1. Redis!HeldIn(x, Busy)' <=> Redis!HeldIn(x, Busy)
    BY DEF Redis!HeldIn
  <2> QED BY <2>1, OthersStay
<1> QED BY <1>2, <1>3, <1>4, <1>5, DurableRests DEF SoloInv

LEMMA SoloPromotes ==
  ASSUME RedisInv, SoloInv, part = "single", part' = part, Redis!Timer(LoneWorker)
  PROVE  SoloInv' /\ UNCHANGED Durable!vars
<1>0. LoneWorker \in Workers /\ RedisTyped /\ HandsInv
  BY UploadsAssumption DEF RedisInv
<1>1. CASE Redis!PromoteTake(LoneWorker)
  <2>1. PICK e \in DOMAIN delayed :
          /\ delayed' = Redis!BagRemove(delayed, e)
          /\ moving' = [moving EXCEPT ![LoneWorker] = {e}]
    BY <1>1 DEF Redis!PromoteTake, Redis!BagToSet
  <2>2. /\ moving[LoneWorker] = {}
        /\ UNCHANGED <<submitted, ready, processing, dead, wPc, held, done, runs>>
    BY <1>1 DEF Redis!PromoteTake, Redis!loop
  <2>3. /\ DOMAIN delayed' = DOMAIN delayed \ {e}
        /\ \A x \in DOMAIN delayed' : delayed'[x] = 1
    <3>1. Redis!IsBag(delayed) /\ \A x \in DOMAIN delayed : delayed[x] = 1
      BY <1>0 DEF RedisTyped, SoloInv, SingleInv
    <3>2. /\ DOMAIN Redis!BagRemove(delayed, e) = DOMAIN delayed \ {e}
          /\ \A x \in DOMAIN Redis!BagRemove(delayed, e) : Redis!BagRemove(delayed, e)[x] = 1
      BY <3>1, SingleTaken
    <3> QED BY <2>1, <3>2
  <2>4. moving'[LoneWorker] = {e}
    BY <1>0, <2>1 DEF RedisTyped
  <2>5. SingleInv'
    BY <2>2, <2>3 DEF SoloInv, SingleInv
  <2>6. /\ e \in In("delayed")
        /\ In("delayed")' = In("delayed") \ {e} /\ In("moving")' = In("moving") \cup {e}
        /\ \A r \in Places \ {"delayed", "moving"} : In(r)' = In(r)
    BY <2>2, <2>3, <2>4 DEF In
  <2> QED BY <2>2, <2>5, <2>6, SoloMovesWaiting
<1>2. CASE Redis!PromotePut(LoneWorker)
  <2>1. PICK e \in moving[LoneWorker] : ready' = Redis!BagAdd(ready, e)
    BY <1>2 DEF Redis!PromotePut
  <2>2. /\ moving' = [moving EXCEPT ![LoneWorker] = {}]
        /\ UNCHANGED <<submitted, processing, delayed, dead, wPc, held, done, runs>>
    BY <1>2 DEF Redis!PromotePut, Redis!loop
  <2>3. moving[LoneWorker] = {e} /\ moving'[LoneWorker] = {}
    BY <1>0, <2>2 DEF HandsInv, RedisTyped
  <2>4. e \notin DOMAIN ready
    <3>1. e \in In("moving") /\ e \notin In("ready")
      BY <2>3 DEF SoloInv, OnePlace, In, Places
    <3> QED BY <3>1 DEF In
  <2>5. DOMAIN ready' = DOMAIN ready \cup {e} /\ \A x \in DOMAIN ready' : ready'[x] = 1
    <3>1. \A x \in DOMAIN ready : ready[x] = 1
      BY DEF SoloInv, SingleInv
    <3>2. /\ DOMAIN Redis!BagAdd(ready, e) = DOMAIN ready \cup {e}
          /\ \A x \in DOMAIN Redis!BagAdd(ready, e) : Redis!BagAdd(ready, e)[x] = 1
      BY <2>4, <3>1, SingleAdded
    <3> QED BY <2>1, <3>2
  <2>6. SingleInv'
    BY <2>2, <2>5 DEF SoloInv, SingleInv
  <2>7. /\ e \in In("moving")
        /\ In("moving")' = In("moving") \ {e} /\ In("ready")' = In("ready") \cup {e}
        /\ \A r \in Places \ {"moving", "ready"} : In(r)' = In(r)
    BY <2>2, <2>3, <2>5 DEF In
  <2> QED BY <2>2, <2>6, <2>7, SoloMovesWaiting
<1> QED BY <1>1, <1>2 DEF Redis!Timer

LEMMA SoloKeeps ==
  ASSUME RedisInv, SoloInv, part = "single", part' = part,
         (\E j \in Jobs : Redis!Enqueue(j)) \/ Redis!Lives(LoneWorker)
  PROVE  SoloInv' /\ [Durable!Next]_Durable!vars
<1>1. CASE \E j \in Jobs : Redis!Enqueue(j)
  <2>1. SoloInv' /\ \E j \in Jobs : Durable!Accept(j)
    BY <1>1, SoloEnqueues
  <2> QED BY <2>1 DEF Durable!Next
<1>2. CASE Redis!Claim(LoneWorker)
  <2>1. SoloInv' /\ \E j \in Jobs : Durable!Begin(j)
    BY <1>2, SoloClaims
  <2> QED BY <2>1 DEF Durable!Next
<1>3. CASE Redis!HandlerSucceeds(LoneWorker) \/ Redis!HandlerFails(LoneWorker)
  BY <1>3, SoloHandles
<1>4. CASE Redis!Ack(LoneWorker) \/ Redis!Nack(LoneWorker)
  BY <1>4, SoloSettles
<1>5. CASE Redis!Requeue(LoneWorker)
  <2>1. SoloInv' /\ \E j \in Jobs : Durable!Fail(j)
    BY <1>5, SoloRequeues
  <2> QED BY <2>1 DEF Durable!Next
<1>6. CASE Redis!Timer(LoneWorker)
  BY <1>6, SoloPromotes
<1>7. /\ ~Redis!RecoverDrop(LoneWorker) /\ ~Redis!RecoverPut(LoneWorker)
      /\ ~Redis!Catch(LoneWorker)
  BY DEF SoloInv, AloneInv, Working, Redis!RecoverDrop, Redis!RecoverPut, Redis!Catch
<1>8. ASSUME NEW old \in SUBSET Redis!Stale PROVE ~Redis!PopTimesOut(LoneWorker, old)
  BY DEF SoloInv, AloneInv, Working, Redis!PopTimesOut, Redis!RecoverScan, Redis!Stale,
         Redis!Stamped, Redis!BagToSet
<1> QED BY <1>1, <1>2, <1>3, <1>4, <1>5, <1>6, <1>7, <1>8
        DEF Redis!Lives, Redis!Loop

LEMMA SoloRests ==
  ASSUME SoloInv, UNCHANGED <<part, redis>>
  PROVE  SoloInv' /\ UNCHANGED Durable!vars
<1> USE DEF redis
<1>1. \A r \in Places : In(r)' = In(r)
  BY DEF In
<1>2. OnePlace' /\ CountInv'
  BY <1>1 DEF SoloInv, OnePlace, CountInv
<1>3. SingleInv' /\ AloneInv'
  BY DEF SoloInv, SingleInv, AloneInv
<1>4. ASSUME NEW x \in Jobs PROVE Redis!Status(x)' = Redis!Status(x)
  <2>1. Redis!HeldIn(x, Busy)' <=> Redis!HeldIn(x, Busy)
    BY DEF Redis!HeldIn
  <2> QED BY <2>1, OthersStay
<1> QED BY <1>2, <1>3, <1>4, DurableRests DEF SoloInv

LEMMA SoloContractInit == MCInit => Durable!Init
<1> SUFFICES ASSUME MCInit PROVE Durable!Init
  OBVIOUS
<1>1. Redis!Init
  BY DEF MCInit
<1>2. \A j \in Jobs : Redis!Status(j) = "none" /\ runs[j] = 0
  BY <1>1 DEF Redis!Init, Redis!Status
<1> QED BY <1>2 DEF Durable!Init

-------------------------------------------------------------------------------
(* Publishing, for every number of products, uploads and publish requests.  *)
(* The inductive invariant IInv adds to the properties what the row locks   *)
(* give: a transaction that has updated a row finds it unchanged, and       *)
(* alone, until it commits.                                                 *)

\* Before its insert an upload has no row, and only clean files are approved.
RowInv ==
    \A a \in Assets :
        /\ uPc[a] \in {"none", "put", "insert"} => asset[a] = "none"
        /\ asset[a] \in {"approved", "published"} => upload[a].clean

\* Transactions hold the rows they have updated.
LockInv ==
    /\ \A x \in Publishers : tPc[x] \in {"project", "commit"} =>
          /\ asset[tAsset[x]] = "approved"
          /\ \A y \in Publishers :
                tPc[y] \in {"project", "commit"} /\ tAsset[y] = tAsset[x] => x = y
    /\ \A x \in Publishers : tPc[x] = "commit" =>
          /\ product[ProductOf(tAsset[x])] = "draft"
          /\ \A y \in Publishers :
                tPc[y] = "commit" /\ ProductOf(tAsset[y]) = ProductOf(tAsset[x]) => x = y

IInv ==
    /\ TypeOK
    /\ RowInv
    /\ LockInv
    /\ PublishedTogether
    /\ OnePublication

LEMMA InitIInv == Init => IInv
  BY PublishingAssumption
  DEF Init, IInv, TypeOK, RowInv, LockInv, PublishedTogether, OnePublication,
      PublishedFor, Upload

\* Steps that touch neither a row of product_assets nor one of products.
LEMMA QuietKeeps ==
    ASSUME IInv, TypeOK', RowInv', LockInv', UNCHANGED <<product, asset, upload>>
    PROVE  IInv'
  BY DEF IInv, PublishedTogether, OnePublication, PublishedFor, ProductOf

LEMMA UploadKeeps ==
    ASSUME IInv, NEW a \in Assets, UploadStep(a)
    PROVE  IInv'
  <1> USE DEF IInv, TypeOK, RowInv, LockInv
  <1>1. CASE UploadStart(a)
    <2>1. TypeOK' /\ RowInv' /\ LockInv' /\ UNCHANGED <<product, asset, upload>>
      BY <1>1 DEF UploadStart, txs, ProductOf
    <2> QED BY <2>1, QuietKeeps
  <1>2. CASE Put(a) \/ PutFails(a)
    <2>1. files' \in SUBSET Assets
      BY <1>2 DEF Put, PutFails
    <2>2. RowInv' /\ LockInv' /\ UNCHANGED <<product, asset, upload>>
      BY <1>2 DEF Put, PutFails, txs, ProductOf
    <2>3. TypeOK'
      BY <1>2, <2>1 DEF Put, PutFails, txs
    <2> QED BY <2>2, <2>3, QuietKeeps
  <1>3. CASE Insert(a) \/ InsertFails(a)
    <2>1. /\ uPc[a] = "insert" /\ asset[a] = "none"
          /\ uPc' \in {[uPc EXCEPT ![a] = "done"], [uPc EXCEPT ![a] = "undo"]}
          /\ asset' = asset \/ asset' = [asset EXCEPT ![a] = Verdict(a)]
          /\ UNCHANGED <<product, version, upload, files, txs>>
      BY <1>3 DEF Insert, InsertFails
    <2>2. CASE asset' = asset
      <3>1. TypeOK' /\ RowInv' /\ LockInv'
        BY <2>1, <2>2 DEF txs, ProductOf
      <3> QED BY <2>1, <2>2, <3>1, QuietKeeps
    <2>3. CASE asset' = [asset EXCEPT ![a] = Verdict(a)]
      <3>1. Verdict(a) \in {"approved", "rejected"}
            /\ (Verdict(a) = "approved" => upload[a].clean)
        BY DEF Verdict
      <3>2. TypeOK' /\ RowInv'
        BY <2>1, <2>3, <3>1 DEF txs
      <3>3. LockInv'
        BY <2>1, <2>3, <3>1 DEF txs, ProductOf
      <3>4. \A p \in Products : PublishedFor(p)' = PublishedFor(p)
        BY <2>1, <2>3, <3>1 DEF PublishedFor, ProductOf
      <3>5. PublishedTogether' /\ OnePublication'
        BY <2>1, <3>4 DEF PublishedTogether, OnePublication
      <3> QED BY <3>2, <3>3, <3>5
    <2> QED BY <2>1, <2>2, <2>3
  <1>4. CASE Undo(a) \/ UndoFails(a) \/ Crash(a)
    <2>1. /\ uPc' = [uPc EXCEPT ![a] = "failed"]
          /\ files' = files \ {a} \/ files' = files
          /\ UNCHANGED <<product, version, upload, asset, txs>>
      BY <1>4 DEF Undo, UndoFails, Crash
    <2>2. TypeOK' /\ RowInv' /\ LockInv'
      BY <2>1 DEF txs, ProductOf
    <2> QED BY <2>1, <2>2, QuietKeeps
  <1> QED BY <1>1, <1>2, <1>3, <1>4 DEF UploadStep

LEMMA CreateKeeps ==
    ASSUME IInv, NEW p \in Products, CreateProduct(p)
    PROVE  IInv'
  <1> USE DEF IInv, TypeOK, RowInv, LockInv
  <1>1. TypeOK' /\ RowInv'
    BY DEF CreateProduct, uploads, txs
  <1>2. LockInv'
    BY DEF CreateProduct, uploads, txs, ProductOf, Upload
  <1>3. \A q \in Products : PublishedFor(q)' = PublishedFor(q)
    BY DEF CreateProduct, uploads, PublishedFor, ProductOf
  <1>4. PublishedTogether' /\ OnePublication'
    BY <1>3 DEF CreateProduct, PublishedTogether, OnePublication
  <1> QED BY <1>1, <1>2, <1>4

LEMMA CommitKeeps ==
    ASSUME IInv, NEW x \in Publishers, Commit(x)
    PROVE  IInv'
  <1>0. PICK a \in Assets, p \in Products : a = tAsset[x] /\ p = ProductOf(a)
    BY DEF IInv, TypeOK, ProductOf, Upload
  <1>1. /\ asset[a] = "approved" /\ product[p] = "draft"
        /\ upload[a].clean /\ uPc[a] \notin {"none", "put", "insert"}
        /\ PublishedFor(p) = {}
    BY <1>0 DEF IInv, TypeOK, RowInv, LockInv, Commit, PublishedTogether
  <1>2. /\ asset' = [asset EXCEPT ![a] = "published"]
        /\ product' = [product EXCEPT ![p] = "published"]
        /\ tPc' = [tPc EXCEPT ![x] = "idle"]
        /\ UNCHANGED <<version, upload, uPc, files, tAsset>>
    BY <1>0 DEF Commit, Step, uploads
  <1>3. TypeOK'
    BY <1>1, <1>2 DEF IInv, TypeOK
  <1>4. RowInv'
    BY <1>1, <1>2 DEF IInv, TypeOK, RowInv
  <1>5. LockInv'
    BY <1>0, <1>1, <1>2 DEF IInv, TypeOK, LockInv, Commit, ProductOf, Upload
  <1>6. /\ PublishedFor(p)' = {a}
        /\ \A q \in Products \ {p} : PublishedFor(q)' = PublishedFor(q)
    <2>1. \A b \in Assets : ProductOf(b)' = ProductOf(b)
      BY <1>2 DEF ProductOf
    <2>2. \A b \in Assets : asset'[b] = IF b = a THEN "published" ELSE asset[b]
      BY <1>2 DEF IInv, TypeOK
    <2>3. \A b \in Assets : b \in PublishedFor(p)' <=> b = a
      BY <1>0, <1>1, <2>1, <2>2 DEF PublishedFor
    <2>4. PublishedFor(p)' \subseteq Assets
      BY DEF PublishedFor
    <2>5. ASSUME NEW q \in Products \ {p} PROVE PublishedFor(q)' = PublishedFor(q)
      BY <1>0, <1>1, <2>1, <2>2 DEF PublishedFor
    <2> QED BY <1>1, <2>3, <2>4, <2>5
  <1>7. PublishedTogether'
    BY <1>1, <1>2, <1>6 DEF IInv, TypeOK, PublishedTogether
  <1>8. OnePublication'
    BY <1>6 DEF IInv, OnePublication
  <1> QED BY <1>3, <1>4, <1>5, <1>7, <1>8 DEF IInv

LEMMA PublishKeeps ==
    ASSUME IInv, NEW x \in Publishers, PublishStep(x)
    PROVE  IInv'
  <1> USE DEF IInv, TypeOK, RowInv, LockInv, Step, uploads
  <1>1. CASE \E a \in Assets : PublishRead(x, a)
    <2>1. TypeOK' /\ RowInv' /\ LockInv' /\ UNCHANGED <<product, asset, upload>>
      BY <1>1 DEF PublishRead, ProductOf
    <2> QED BY <2>1, QuietKeeps
  <1>2. CASE PublishAsset(x)
    <2>1. TypeOK' /\ RowInv' /\ UNCHANGED <<product, asset, upload>>
      BY <1>2 DEF PublishAsset
    <2>2. LockInv'
      BY <1>2 DEF PublishAsset, AssetLocked, ProductOf
    <2> QED BY <2>1, <2>2, QuietKeeps
  <1>3. CASE PublishProject(x)
    <2>1. TypeOK' /\ RowInv' /\ UNCHANGED <<product, asset, upload>>
      BY <1>3 DEF PublishProject
    <2>2. LockInv'
      BY <1>3 DEF PublishProject, ProductLocked, StillDraft, ProductOf
    <2> QED BY <2>1, <2>2, QuietKeeps
  <1>4. CASE Commit(x)
    BY <1>4, CommitKeeps
  <1>5. CASE Rollback(x)
    <2>1. TypeOK' /\ RowInv' /\ LockInv' /\ UNCHANGED <<product, asset, upload>>
      BY <1>5 DEF Rollback, ProductOf
    <2> QED BY <2>1, QuietKeeps
  <1> QED BY <1>1, <1>2, <1>3, <1>4, <1>5 DEF PublishStep

LEMMA IInvInductive == IInv /\ [Next]_vars => IInv'
  <1> SUFFICES ASSUME IInv, [Next]_vars PROVE IInv'
    OBVIOUS
  <1>1. CASE \E p \in Products : CreateProduct(p)
    BY <1>1, CreateKeeps
  <1>2. CASE \E a \in Assets : UploadStep(a)
    BY <1>2, UploadKeeps
  <1>3. CASE \E x \in Publishers : PublishStep(x)
    BY <1>3, PublishKeeps
  <1>4. CASE UNCHANGED vars
    <2>1. TypeOK' /\ RowInv' /\ LockInv' /\ UNCHANGED <<product, asset, upload>>
      BY <1>4 DEF vars, uploads, txs, IInv, TypeOK, RowInv, LockInv, ProductOf
    <2> QED BY <2>1, QuietKeeps
  <1> QED BY <1>1, <1>2, <1>3, <1>4 DEF Next

LEMMA IInvAlways == Spec => []IInv
  BY InitIInv, IInvInductive, PTL DEF Spec

\* Type correctness of the tables, handlers and transactions.
THEOREM TypeCorrect == Spec => []TypeOK
  <1>1. IInv => TypeOK
    BY DEF IInv
  <1> QED BY <1>1, IInvAlways, PTL

\* A product is on sale exactly when one of its files is: the publish
\* transaction never leaves one without the other.
THEOREM PublicationIsAtomic == Spec => []PublishedTogether
  <1>1. IInv => PublishedTogether
    BY DEF IInv
  <1> QED BY <1>1, IInvAlways, PTL

\* However many publish requests race, a product has one file on sale.
THEOREM PublicationIsUnique == Spec => []OnePublication
  <1>1. IInv => OnePublication
    BY DEF IInv
  <1> QED BY <1>1, IInvAlways, PTL

\* No file that failed the scan is ever on sale.
THEOREM RejectedStaysOffSale == Spec => []PublishedIsClean
  <1>1. IInv => PublishedIsClean
    BY DEF IInv, RowInv, PublishedIsClean, PublishedFor
  <1> QED BY <1>1, IInvAlways, PTL

-------------------------------------------------------------------------------
\* From the put to the end of an upload its file is in the store; only its own
\* compensation takes it away.
StoreInv ==
    \A a \in Assets :
        /\ uPc[a] \in {"insert", "undo", "done"} => a \in files
        /\ uPc[a] = "done" => asset[a] # "none"

LEMMA StoreInductive == IInv /\ StoreInv /\ [Next]_vars => StoreInv'
  <1> SUFFICES ASSUME IInv, StoreInv, [Next]_vars PROVE StoreInv'
    OBVIOUS
  <1> USE DEF IInv, TypeOK, StoreInv
  <1>1. CASE \E p \in Products : CreateProduct(p)
    BY <1>1 DEF CreateProduct, uploads
  <1>2. ASSUME NEW a \in Assets, UploadStep(a) PROVE StoreInv'
    <2>1. CASE UploadStart(a)
      BY <2>1 DEF UploadStart
    <2>2. CASE Put(a) \/ PutFails(a)
      <3>1. /\ files \subseteq files'
            /\ uPc'[a] = "insert" => a \in files'
            /\ uPc' \in {[uPc EXCEPT ![a] = "insert"], [uPc EXCEPT ![a] = "failed"]}
            /\ asset' = asset
        BY <2>2 DEF Put, PutFails
      <3> QED BY <3>1
    <2>3. CASE Insert(a)
      BY <2>3 DEF Insert, Verdict
    <2>4. CASE InsertFails(a)
      <3>1. \A b \in Assets \ {a} : asset'[b] = asset[b]
        BY <2>4 DEF InsertFails
      <3> QED BY <2>4, <3>1 DEF InsertFails
    <2>5. CASE Undo(a)
      BY <2>5 DEF Undo
    <2>6. CASE UndoFails(a) \/ Crash(a)
      BY <2>6 DEF UndoFails, Crash
    <2> QED BY <1>2, <2>1, <2>2, <2>3, <2>4, <2>5, <2>6 DEF UploadStep
  <1>3. ASSUME NEW x \in Publishers, PublishStep(x) PROVE StoreInv'
    <2>1. CASE Commit(x)
      BY <2>1 DEF Commit, uploads
    <2>2. CASE ~Commit(x)
      <3>1. UNCHANGED <<asset, uploads>>
        BY <1>3, <2>2 DEF PublishStep, PublishRead, PublishAsset, PublishProject, Rollback
      <3> QED BY <3>1 DEF uploads
    <2> QED BY <2>1, <2>2
  <1>4. CASE UNCHANGED vars
    BY <1>4 DEF vars, uploads
  <1> QED BY <1>1, <1>2, <1>3, <1>4 DEF Next

\* What an upload was answered for stays: no crash, failed put, failed
\* compensation or lost answer of another upload, and no publication, takes
\* its row or its file away.
THEOREM AnsweredUploadsAreKept == Spec => []RowHasFile
  <1>1. Init => StoreInv
    BY DEF Init, StoreInv
  <1>2. StoreInv => RowHasFile
    BY DEF StoreInv, RowHasFile
  <1> QED BY <1>1, <1>2, StoreInductive, IInvAlways, PTL DEF Spec

-------------------------------------------------------------------------------
\* The version an upload was started with is the draft's.
VersionInv ==
    \A a \in Assets :
        uPc[a] # "none" => upload[a].version = version[ProductOf(a)]

LEMMA VersionInductive ==
    ASSUME VersionKept
    PROVE  VersionInv /\ TypeOK /\ [Next]_vars => VersionInv'
  <1> SUFFICES ASSUME VersionInv, TypeOK, [Next]_vars PROVE VersionInv'
    OBVIOUS
  <1>1. UNCHANGED <<version, upload>>
    BY DEF Next, CreateProduct, UploadStep, UploadStart, Put, PutFails, Insert,
           InsertFails, Undo, UndoFails, Crash, PublishStep, PublishRead, PublishAsset,
           PublishProject, Commit, Rollback, vars, uploads
  <1>2. ASSUME NEW a \in Assets, uPc'[a] # "none", uPc[a] = "none"
        PROVE  upload[a].version = version[ProductOf(a)]
    BY <1>2 DEF TypeOK, Next, CreateProduct, UploadStep, UploadStart, Put, PutFails,
           Insert, InsertFails, Undo, UndoFails, Crash, PublishStep, PublishRead,
           PublishAsset, PublishProject, Commit, Rollback, vars, uploads
  <1> QED BY <1>1, <1>2 DEF VersionInv, ProductOf

-------------------------------------------------------------------------------
\* Unless a committed insert is reported as an error, only an upload that is
\* answered with success has a row.
SureInv == \A a \in Assets : asset[a] # "none" => uPc[a] = "done"

\* What a step must not do to break it.
GivesDoubt == \E a \in Assets : asset[a] = "none" /\ asset'[a] # "none" /\ uPc'[a] # "done"

LEMMA SureKeeps ==
  ASSUME IInv, SureInv, [Next]_vars, ~GivesDoubt
  PROVE  SureInv'
<1>1. \A a \in Assets : uPc[a] = "done" => uPc'[a] = "done"
  BY DEF IInv, TypeOK, Next, CreateProduct, UploadStep, UploadStart, Put, PutFails,
         Insert, InsertFails, Undo, UndoFails, Crash, PublishStep, PublishRead,
         PublishAsset, PublishProject, Commit, Rollback, vars, uploads
<1> QED BY <1>1 DEF SureInv, GivesDoubt

\* A commit finds the row it publishes.
LEMMA CommitGivesNoDoubt ==
  ASSUME IInv, NEW x \in Publishers, Commit(x)
  PROVE  ~GivesDoubt
BY DEF IInv, TypeOK, LockInv, Commit, GivesDoubt

LEMMA SureUnlessAmbiguous ==
  ASSUME "ambiguous" \notin Faults, IInv, [Next]_vars
  PROVE  ~GivesDoubt
<1>1. ASSUME NEW a \in Assets, UploadStep(a) PROVE ~GivesDoubt
  <2>1. CASE Insert(a)
    BY <2>1 DEF IInv, TypeOK, Insert, Verdict, GivesDoubt
  <2>2. CASE ~Insert(a)
    BY <1>1, <2>2 DEF UploadStep, UploadStart, Put, PutFails, InsertFails, Undo, UndoFails,
                      Crash, GivesDoubt
  <2> QED BY <2>1, <2>2
<1>2. ASSUME NEW x \in Publishers, PublishStep(x) PROVE ~GivesDoubt
  <2>1. CASE Commit(x)
    BY <2>1, CommitGivesNoDoubt
  <2>2. CASE ~Commit(x)
    BY <1>2, <2>2 DEF PublishStep, PublishRead, PublishAsset, PublishProject, Rollback, GivesDoubt
  <2> QED BY <2>1, <2>2
<1>3. ASSUME NEW p \in Products, CreateProduct(p) PROVE ~GivesDoubt
  BY <1>3 DEF CreateProduct, GivesDoubt
<1>4. CASE UNCHANGED vars
  BY <1>4 DEF vars, GivesDoubt
<1> QED BY <1>1, <1>2, <1>3, <1>4 DEF Next

LEMMA SureIsStored ==
  ASSUME StoreInv, SureInv
  PROVE  SoldIsStored
BY DEF StoreInv, SureInv, SoldIsStored, PublishedFor

\* Whatever fails and whoever publishes at the same time, a product on sale has
\* one file, which passed the scan; unless the upload that wrote its row was
\* answered with an error, the file is in the store (upload, publish).
THEOREM SoldProductsAreSound == Spec => []SoldIsSound
  <1>1. IInv /\ StoreInv => SoldIsSound
    <2> SUFFICES ASSUME IInv, StoreInv, NEW p \in Products, product[p] = "published"
                 PROVE  \E a \in Assets :
                           PublishedFor(p) = {a} /\ upload[a].clean /\ (a \in files \/ InDoubt(a))
      BY DEF SoldIsSound
    <2>1. PICK a \in PublishedFor(p) : TRUE
      BY DEF IInv, PublishedTogether
    <2>2. a \in Assets /\ PublishedFor(p) = {a}
      BY <2>1 DEF IInv, OnePublication, PublishedFor
    <2>3. asset[a] = "published"
      BY <2>1 DEF PublishedFor
    <2>4. upload[a].clean /\ uPc[a] \in {"undo", "done", "failed"}
      BY <2>2, <2>3 DEF IInv, TypeOK, RowInv
    <2> QED BY <2>2, <2>4 DEF StoreInv, InDoubt
  <1>2. Init => StoreInv
    BY DEF Init, StoreInv
  <1> QED BY <1>1, <1>2, StoreInductive, IInvAlways, PTL DEF Spec

\* When the database reports no committed insert as failed, what is on sale is in
\* the store, although puts, compensations and processes fail (upload, publish).
THEOREM SureRowsAreStored ==
    ASSUME "ambiguous" \notin Faults
    PROVE  Spec => []SoldIsStored
  <1>1. Init => StoreInv /\ SureInv
    BY DEF Init, StoreInv, SureInv
  <1>2. StoreInv /\ SureInv => SoldIsStored
    BY SureIsStored
  <1>3. IInv /\ SureInv /\ [Next]_vars => SureInv'
    BY SureKeeps, SureUnlessAmbiguous
  <1> QED BY <1>1, <1>2, <1>3, StoreInductive, IInvAlways, PTL DEF Spec

-------------------------------------------------------------------------------
\* Without faults a step is still a step of Publishing, and a failed upload
\* takes its file with it.
LEMMA CalmUploadKeeps ==
  ASSUME IInv, FilesAccounted, NEW a \in Assets, Calm!UploadStep(a)
  PROVE  UploadStep(a) /\ FilesAccounted' /\ ~GivesDoubt
<1> USE DEF IInv, TypeOK, FilesAccounted
<1>1. CASE Calm!UploadStart(a)
  <2>1. UploadStart(a)
    BY <1>1 DEF Calm!UploadStart, UploadStart, Calm!txs, txs, Calm!ProductOf, ProductOf
  <2> QED BY <2>1 DEF UploadStart, UploadStep, GivesDoubt
<1>2. CASE Calm!Put(a) \/ Calm!PutFails(a)
  <2>1. Put(a) \/ (PutFails(a) /\ files' = files)
    BY <1>2 DEF Calm!Put, Put, Calm!PutFails, PutFails, Calm!txs, txs
  <2> QED BY <2>1 DEF Put, PutFails, UploadStep, GivesDoubt
<1>3. CASE Calm!Insert(a) \/ Calm!InsertFails(a)
  <2>1. Insert(a) \/ (InsertFails(a) /\ asset' = asset)
    BY <1>3 DEF Calm!Insert, Insert, Calm!InsertFails, InsertFails, Calm!txs, txs,
                Calm!Verdict, Verdict
  <2>2. Verdict(a) # "none"
    BY DEF Verdict
  <2> QED BY <2>1, <2>2 DEF Insert, InsertFails, UploadStep, GivesDoubt
<1>4. CASE Calm!Undo(a)
  <2>1. Undo(a)
    BY <1>4 DEF Calm!Undo, Undo, Calm!txs, txs
  <2> QED BY <2>1 DEF Undo, UploadStep, GivesDoubt
<1> QED BY <1>1, <1>2, <1>3, <1>4 DEF Calm!UploadStep, Calm!UndoFails, Calm!Crash

LEMMA CalmPublishKeeps ==
  ASSUME IInv, FilesAccounted, NEW x \in Publishers, Calm!PublishStep(x)
  PROVE  PublishStep(x) /\ FilesAccounted' /\ ~GivesDoubt
<1> USE DEF Calm!Step, Step, Calm!uploads, uploads, Calm!ProductOf, ProductOf
<1>1. CASE Calm!Commit(x)
  <2>1. Commit(x)
    BY <1>1 DEF Calm!Commit, Commit
  <2>2. FilesAccounted'
    BY <2>1 DEF Commit, IInv, TypeOK, FilesAccounted
  <2>3. ~GivesDoubt
    BY <2>1, CommitGivesNoDoubt
  <2> QED BY <2>1, <2>2, <2>3 DEF PublishStep
<1>2. CASE \E a \in Assets : Calm!PublishRead(x, a)
  <2>1. \E a \in Assets : PublishRead(x, a)
    BY <1>2 DEF Calm!PublishRead, PublishRead, Calm!Publishable, Publishable
  <2> QED BY <2>1 DEF PublishRead, PublishStep, FilesAccounted, GivesDoubt
<1>3. CASE Calm!PublishAsset(x)
  <2>1. PublishAsset(x)
    BY <1>3 DEF Calm!PublishAsset, PublishAsset, Calm!AssetLocked, AssetLocked
  <2> QED BY <2>1 DEF PublishAsset, PublishStep, FilesAccounted, GivesDoubt
<1>4. CASE Calm!PublishProject(x)
  <2>1. PublishProject(x)
    BY <1>4 DEF Calm!PublishProject, PublishProject, Calm!ProductLocked, ProductLocked,
                Calm!StillDraft, StillDraft
  <2> QED BY <2>1 DEF PublishProject, PublishStep, FilesAccounted, GivesDoubt
<1>5. CASE Calm!Rollback(x)
  <2>1. Rollback(x)
    BY <1>5 DEF Calm!Rollback, Rollback
  <2> QED BY <2>1 DEF Rollback, PublishStep, FilesAccounted, GivesDoubt
<1> QED BY <1>1, <1>2, <1>3, <1>4, <1>5 DEF Calm!PublishStep

LEMMA CalmKeeps ==
  ASSUME IInv, FilesAccounted, Calm!Next
  PROVE  Next /\ FilesAccounted' /\ (SureInv => SureInv')
<1>1. ASSUME NEW p \in Products, Calm!CreateProduct(p)
      PROVE  Next /\ FilesAccounted' /\ ~GivesDoubt
  <2>1. CreateProduct(p)
    BY <1>1 DEF Calm!CreateProduct, CreateProduct, Calm!uploads, uploads, Calm!txs, txs
  <2>2. FilesAccounted' /\ ~GivesDoubt
    BY <2>1 DEF CreateProduct, uploads, FilesAccounted, GivesDoubt
  <2> QED BY <2>1, <2>2 DEF Next
<1>2. ASSUME NEW a \in Assets, Calm!UploadStep(a)
      PROVE  Next /\ FilesAccounted' /\ ~GivesDoubt
  BY <1>2, CalmUploadKeeps DEF Next
<1>3. ASSUME NEW x \in Publishers, Calm!PublishStep(x)
      PROVE  Next /\ FilesAccounted' /\ ~GivesDoubt
  BY <1>3, CalmPublishKeeps DEF Next
<1>4. Next /\ FilesAccounted' /\ ~GivesDoubt
  BY <1>1, <1>2, <1>3 DEF Calm!Next
<1> QED BY <1>4, SureKeeps

-------------------------------------------------------------------------------
(* The page of an editor (ProjectAdmin), whatever answers it loses and      *)
(* however often it is reloaded.  A request to publish is of a product with *)
(* a plan, and what the page awaits is of the project it shows.             *)

PageTyped ==
    /\ planned \subseteq {p \in Products : product[p] # "none"}
    /\ call \in [Publishers -> {"none", "open", "ok", "error"}]
    /\ \A x \in Publishers : call[x] = "open" <=> tPc[x] # "idle"
    /\ projectId \in Products \cup {Nothing} /\ made \in Products \cup {Nothing}
    /\ assetId \in Assets \cup {Nothing} /\ told \in Assets \cup {Nothing}
    /\ form \in Versions
    /\ creating \in {"idle", "sent", "served", "refused"} /\ slugFree \in BOOLEAN
    /\ planning \in {"idle", "sent", "stored"}
    /\ plans \in {"unknown", "empty", "some"}
    /\ waits \in SUBSET (Assets \cup Publishers)
    /\ reloads \in 0..MaxReloads

\* A project is made before anything is done with it, and only once per page.
DraftInv ==
    /\ creating # "idle" => projectId = Nothing
    /\ creating = "served" => made \in Products /\ product[made] # "none"
    /\ projectId # Nothing => product[projectId] # "none"
    /\ projectId = Nothing =>
          plans = "unknown" /\ planning = "idle" /\ assetId = Nothing /\ told = Nothing
            /\ waits = {}
    /\ plans = "some" => projectId \in planned

\* What the page awaits and shows is of its project.
ShownInv ==
    /\ Admin!ShownIsSound
    /\ \A a \in Assets : a \in waits => upload[a].product = projectId

\* Requests to publish: only of products with a plan, and answered truly.
CallInv ==
    \A x \in Publishers :
        /\ call[x] = "open" => upload[tAsset[x]].product \in planned
        /\ call[x] = "ok" => asset[tAsset[x]] = "published"
        /\ x \in waits /\ call[x] \in {"open", "ok"} => upload[tAsset[x]].product = projectId

PageInv ==
    /\ PageTyped
    /\ DraftInv
    /\ ShownInv
    /\ CallInv
    /\ Admin!SoldWithPlan
    /\ Admin!ToldIsPublished

LEMMA PageInit == Admin!Init => PageInv
<1> SUFFICES ASSUME Admin!Init PROVE PageInv
  OBVIOUS
<1>1. 0 \in 0..MaxReloads
  BY UploadsAssumption DEF Admin!AdminAssumption
<1>2. \A p \in Products : product[p] = "none"
  BY DEF Admin!Init, Admin!P!Init
<1>3. \A x \in Publishers : tPc[x] = "idle"
  BY DEF Admin!Init, Admin!P!Init
<1>4. PageTyped
  BY <1>1, <1>2, <1>3 DEF PageTyped, Admin!Init
<1>5. DraftInv /\ ShownInv /\ CallInv
  BY DEF DraftInv, ShownInv, CallInv, Admin!ShownIsSound, Admin!Init
<1>6. Admin!SoldWithPlan /\ Admin!ToldIsPublished
  BY <1>2 DEF Admin!SoldWithPlan, Admin!ToldIsPublished, Admin!Init
<1> QED BY <1>4, <1>5, <1>6 DEF PageInv

\* The requests the page sends are served by steps of Publishing.
LEMMA PageUploadServes ==
  ASSUME NEW a \in Assets
  PROVE  /\ Admin!P!UploadStart(a) => UploadStart(a)
         /\ Admin!P!UploadStep(a) => UploadStep(a)
<1> USE DEF Admin!P!txs, txs, Admin!P!ProductOf, ProductOf, Admin!P!Verdict, Verdict
<1>1. Admin!P!UploadStart(a) => UploadStart(a)
  BY DEF Admin!P!UploadStart, UploadStart
<1>2. Admin!P!Put(a) => Put(a)
  BY DEF Admin!P!Put, Put
<1>3. Admin!P!PutFails(a) => PutFails(a)
  BY DEF Admin!P!PutFails, PutFails
<1>4. Admin!P!Insert(a) => Insert(a)
  BY DEF Admin!P!Insert, Insert
<1>5. Admin!P!InsertFails(a) => InsertFails(a)
  BY DEF Admin!P!InsertFails, InsertFails
<1>6. Admin!P!Undo(a) => Undo(a)
  BY DEF Admin!P!Undo, Undo
<1>7. ~Admin!P!UndoFails(a) /\ ~Admin!P!Crash(a)
  BY DEF Admin!P!UndoFails, Admin!P!Crash
<1> QED BY <1>1, <1>2, <1>3, <1>4, <1>5, <1>6, <1>7 DEF Admin!P!UploadStep, UploadStep

LEMMA PagePublishServes ==
  ASSUME NEW x \in Publishers
  PROVE  /\ \A a \in Assets : Admin!P!PublishRead(x, a) => PublishRead(x, a)
         /\ Admin!P!PublishAsset(x) => PublishAsset(x)
         /\ Admin!P!PublishProject(x) => PublishProject(x)
         /\ Admin!P!Commit(x) => Commit(x)
         /\ Admin!P!Rollback(x) => Rollback(x)
<1> USE DEF Admin!P!uploads, uploads, Admin!P!ProductOf, ProductOf, Admin!P!Step, Step
<1>1. \A a \in Assets : Admin!P!PublishRead(x, a) => PublishRead(x, a)
  BY DEF Admin!P!PublishRead, PublishRead, Admin!P!Publishable, Publishable
<1>2. Admin!P!PublishAsset(x) => PublishAsset(x)
  BY DEF Admin!P!PublishAsset, PublishAsset, Admin!P!AssetLocked, AssetLocked
<1>3. Admin!P!PublishProject(x) => PublishProject(x)
  BY DEF Admin!P!PublishProject, PublishProject, Admin!P!ProductLocked, ProductLocked,
         Admin!P!StillDraft, StillDraft
<1>4. Admin!P!Commit(x) => Commit(x)
  BY DEF Admin!P!Commit, Commit
<1>5. Admin!P!Rollback(x) => Rollback(x)
  BY DEF Admin!P!Rollback, Rollback
<1> QED BY <1>1, <1>2, <1>3, <1>4, <1>5

\* The form, and the page that is loaded anew.
LEMMA PageFormKeeps ==
  ASSUME PageInv, Admin!EditVersion \/ Admin!EditSlug \/ Admin!Reload
  PROVE  PageInv' /\ UNCHANGED vars
<1> USE DEF Admin!server, Admin!draft, Admin!plan, Admin!file
<1>1. UNCHANGED <<product, version, upload, uPc, asset, files, tPc, tAsset, planned, call>>
  BY DEF Admin!EditVersion, Admin!EditSlug, Admin!Reload
<1>2. UNCHANGED vars
  BY <1>1 DEF vars, uploads, txs
<1>3. CASE Admin!EditVersion \/ Admin!EditSlug
  <2>1. /\ UNCHANGED <<projectId, creating, made, planning, plans, assetId, waits, told,
                       reloads>>
        /\ form' \in Versions /\ slugFree' \in BOOLEAN
    BY <1>3 DEF Admin!EditVersion, Admin!EditSlug, PageInv, PageTyped
  <2>2. PageTyped'
    BY <1>1, <2>1 DEF PageInv, PageTyped
  <2>3. DraftInv' /\ ShownInv' /\ CallInv'
    BY <1>1, <2>1 DEF PageInv, DraftInv, ShownInv, CallInv, Admin!ShownIsSound
  <2>4. Admin!SoldWithPlan' /\ Admin!ToldIsPublished'
    BY <1>1, <2>1 DEF PageInv, Admin!SoldWithPlan, Admin!ToldIsPublished
  <2> QED BY <1>2, <2>2, <2>3, <2>4 DEF PageInv
<1>4. CASE Admin!Reload
  <2>1. /\ projectId' = Nothing /\ assetId' = Nothing /\ told' = Nothing
        /\ creating' = "idle" /\ made' = Nothing
        /\ planning' = "idle" /\ plans' = "unknown"
        /\ waits' = {}
        /\ UNCHANGED <<form, slugFree>>
    BY <1>4 DEF Admin!Reload
  <2>2. reloads' \in 0..MaxReloads
    BY <1>4, UploadsAssumption DEF Admin!Reload, PageInv, PageTyped, Admin!AdminAssumption
  <2>3. PageTyped'
    BY <1>1, <2>1, <2>2 DEF PageInv, PageTyped
  <2>4. DraftInv' /\ ShownInv' /\ CallInv'
    BY <1>1, <2>1 DEF PageInv, DraftInv, ShownInv, CallInv, Admin!ShownIsSound
  <2>5. Admin!SoldWithPlan' /\ Admin!ToldIsPublished'
    BY <1>1, <2>1 DEF PageInv, Admin!SoldWithPlan, Admin!ToldIsPublished
  <2> QED BY <1>2, <2>3, <2>4, <2>5 DEF PageInv
<1> QED BY <1>3, <1>4

LEMMA PageCreateKeeps ==
  ASSUME IInv, PageInv,
         \/ Admin!Create \/ Admin!CreateServed
         \/ Admin!CreateRefused \/ Admin!CreateAnswered
  PROVE  PageInv' /\ [Next]_vars
<1> USE DEF Admin!server, Admin!draft, Admin!plan, Admin!file
<1>0. Nothing \notin Products
  BY UploadsAssumption DEF Admin!AdminAssumption
<1>1. UNCHANGED <<version, upload, uPc, asset, files, tPc, tAsset, planned, planning, plans,
                  assetId, call, waits, form, reloads>>
  BY DEF Admin!Create, Admin!CreateServed, Admin!CreateRefused, Admin!CreateAnswered,
         Admin!P!CreateProduct, Admin!P!uploads, Admin!P!txs
<1>2. CASE Admin!CreateServed
  <2>1. PICK p \in Products : Admin!P!CreateProduct(p) /\ made' = p
    BY <1>2 DEF Admin!CreateServed
  <2>2. creating = "sent" /\ creating' = "served" /\ UNCHANGED <<projectId, told>>
    BY <1>2 DEF Admin!CreateServed
  <2>3. CreateProduct(p)
    BY <2>1 DEF Admin!P!CreateProduct, CreateProduct, Admin!P!uploads, uploads,
                Admin!P!txs, txs
  <2>4. product' = [product EXCEPT ![p] = "draft"] /\ product[p] = "none"
    BY <2>3 DEF CreateProduct
  <2>5. \A q \in Products : /\ product[q] # "none" => product'[q] = product[q]
                            /\ product'[q] = "published" => product[q] = "published"
    BY <2>4 DEF IInv, TypeOK
  <2>6. PageTyped'
    <3>1. slugFree' \in BOOLEAN
      BY <1>2 DEF Admin!CreateServed
    <3>2. planned' \subseteq {q \in Products : product'[q] # "none"}
      BY <1>1, <2>5 DEF PageInv, PageTyped
    <3> QED BY <1>1, <2>1, <2>2, <3>1, <3>2 DEF PageInv, PageTyped
  <2>7. DraftInv'
    BY <1>0, <1>1, <2>1, <2>2, <2>4, <2>5 DEF PageInv, DraftInv, PageTyped, IInv, TypeOK
  <2>8. ShownInv' /\ CallInv'
    BY <1>1, <2>2 DEF PageInv, ShownInv, CallInv, Admin!ShownIsSound
  <2>9. Admin!SoldWithPlan'
    BY <1>1, <2>5 DEF PageInv, Admin!SoldWithPlan
  <2>10. Admin!ToldIsPublished'
    BY <2>2 DEF PageInv, DraftInv, Admin!ToldIsPublished
  <2>11. Next
    BY <2>3 DEF Next
  <2> QED BY <2>6, <2>7, <2>8, <2>9, <2>10, <2>11 DEF PageInv
<1>3. CASE Admin!Create \/ Admin!CreateRefused \/ Admin!CreateAnswered
  <2>1. /\ UNCHANGED product
        /\ \/ UNCHANGED projectId
           \/ creating = "served" /\ projectId' = made
        /\ creating' \in {"idle", "sent", "refused"}
        /\ creating' # "idle" => projectId = Nothing /\ UNCHANGED projectId
        /\ made' \in {made, Nothing}
        /\ told' \in {told, Nothing}
        /\ slugFree' = slugFree
    BY <1>3 DEF Admin!Create, Admin!CreateRefused, Admin!CreateAnswered, PageInv, DraftInv
  <2>2. PageTyped'
    BY <1>1, <2>1 DEF PageInv, PageTyped
  <2>3. DraftInv'
    BY <1>0, <1>1, <2>1 DEF PageInv, DraftInv
  <2>4. projectId' = projectId \/ (waits = {} /\ assetId = Nothing /\ told = Nothing)
    BY <2>1 DEF PageInv, DraftInv
  <2>5. ShownInv'
    BY <1>1, <2>4 DEF PageInv, ShownInv, Admin!ShownIsSound
  <2>6. CallInv'
    BY <1>1, <2>4 DEF PageInv, CallInv
  <2>7. Admin!SoldWithPlan'
    BY <1>1, <2>1 DEF PageInv, Admin!SoldWithPlan
  <2>8. Admin!ToldIsPublished'
    BY <1>1, <2>1, <2>4 DEF PageInv, Admin!ToldIsPublished
  <2>9. UNCHANGED vars
    BY <1>1, <2>1 DEF vars, uploads, txs
  <2> QED BY <2>2, <2>3, <2>5, <2>6, <2>7, <2>8, <2>9 DEF PageInv
<1> QED BY <1>2, <1>3

LEMMA PagePlanKeeps ==
  ASSUME PageInv,
         \/ Admin!SavePlan \/ Admin!PlanStored
         \/ Admin!PlanAnswered \/ Admin!FetchPlans
  PROVE  PageInv' /\ UNCHANGED vars
<1> USE DEF Admin!server, Admin!draft, Admin!plan, Admin!file
<1>1. UNCHANGED <<product, version, upload, uPc, asset, files, tPc, tAsset, projectId,
                  creating, made, slugFree, assetId, call, waits, form, reloads>>
  BY DEF Admin!SavePlan, Admin!PlanStored, Admin!PlanAnswered, Admin!FetchPlans
<1>2. projectId # Nothing
  BY DEF Admin!SavePlan, Admin!PlanStored, Admin!PlanAnswered, Admin!FetchPlans,
         PageInv, DraftInv
<1>3. /\ planned' \in {planned, planned \cup {projectId}}
      /\ told' \in {told, Nothing}
      /\ planning' \in {"idle", "sent", "stored"}
      /\ plans' \in {"unknown", "empty", "some"}
      /\ plans' = "some" => projectId \in planned'
  BY DEF Admin!SavePlan, Admin!PlanStored, Admin!PlanAnswered, Admin!FetchPlans,
         PageInv, PageTyped, DraftInv
<1>4. PageTyped'
  BY <1>1, <1>2, <1>3 DEF PageInv, PageTyped, DraftInv
<1>5. DraftInv'
  BY <1>1, <1>2, <1>3 DEF PageInv, DraftInv
<1>6. ShownInv' /\ CallInv'
  BY <1>1, <1>3 DEF PageInv, ShownInv, CallInv, Admin!ShownIsSound
<1>7. Admin!SoldWithPlan' /\ Admin!ToldIsPublished'
  BY <1>1, <1>3 DEF PageInv, Admin!SoldWithPlan, Admin!ToldIsPublished
<1>8. UNCHANGED vars
  BY <1>1 DEF vars, uploads, txs
<1> QED BY <1>4, <1>5, <1>6, <1>7, <1>8 DEF PageInv

LEMMA PageUploadKeeps ==
  ASSUME IInv, PageInv, NEW a \in Assets,
         Admin!Upload(a) \/ Admin!UploadServed(a) \/ Admin!UploadAnswered(a)
  PROVE  PageInv' /\ [Next]_vars
<1> USE DEF Admin!server, Admin!draft, Admin!plan, Admin!file
<1>0. Nothing \notin Assets /\ Assets \cap Publishers = {}
  BY UploadsAssumption DEF Admin!AdminAssumption
<1>1. UNCHANGED <<planned, planning, plans, projectId, creating, made, slugFree, call, form,
                  reloads>>
  BY DEF Admin!Upload, Admin!UploadServed, Admin!UploadAnswered
<1>2. CASE Admin!Upload(a) \/ Admin!UploadServed(a)
  <2>1. UploadStep(a)
    <3>1. Admin!P!UploadStart(a) \/ Admin!P!UploadStep(a)
      BY <1>2 DEF Admin!Upload, Admin!UploadServed
    <3> QED BY <3>1, PageUploadServes DEF UploadStep
  <2>2. UNCHANGED <<product, upload, tPc, tAsset>>
    BY <2>1 DEF UploadStep, UploadStart, Put, PutFails, Insert, InsertFails, Undo, UndoFails,
                Crash, txs
  <2>3. \A b \in Assets : asset[b] = "published" => asset'[b] = "published"
    <3>1. CASE Insert(a) \/ InsertFails(a)
      <4>1. uPc[a] = "insert" /\ asset' \in {asset, [asset EXCEPT ![a] = Verdict(a)]}
        BY <3>1 DEF Insert, InsertFails
      <4>2. asset[a] = "none"
        BY <4>1 DEF IInv, RowInv
      <4> QED BY <4>1, <4>2 DEF IInv, TypeOK
    <3>2. CASE ~(Insert(a) \/ InsertFails(a))
      BY <2>1, <3>2 DEF UploadStep, UploadStart, Put, PutFails, Undo, UndoFails, Crash
    <3> QED BY <3>1, <3>2
  <2>4. /\ UNCHANGED <<assetId, told>>
        /\ \/ UNCHANGED waits
           \/ waits' = waits \cup {a} /\ upload[a].product = projectId /\ projectId # Nothing
    BY <1>2 DEF Admin!Upload, Admin!UploadServed
  <2>5. PageTyped'
    <3>1. waits' \in SUBSET (Assets \cup Publishers)
      BY <2>4 DEF PageInv, PageTyped
    <3> QED BY <1>1, <2>2, <2>4, <3>1 DEF PageInv, PageTyped
  <2>6. DraftInv'
    BY <1>1, <2>2, <2>4 DEF PageInv, DraftInv
  <2>7. ShownInv'
    BY <1>1, <2>2, <2>4 DEF PageInv, ShownInv, Admin!ShownIsSound
  <2>8. CallInv'
    <3>1. \A x \in Publishers : tAsset[x] \in Assets /\ (x \in waits' => x \in waits)
      BY <1>0, <2>4 DEF IInv, TypeOK
    <3> QED BY <1>1, <2>2, <2>3, <3>1 DEF PageInv, CallInv
  <2>9. Admin!SoldWithPlan'
    BY <1>1, <2>2 DEF PageInv, Admin!SoldWithPlan
  <2>10. Admin!ToldIsPublished'
    BY <1>1, <2>2, <2>3, <2>4 DEF PageInv, PageTyped, Admin!ToldIsPublished
  <2>11. Next
    BY <2>1 DEF Next
  <2> QED BY <2>5, <2>6, <2>7, <2>8, <2>9, <2>10, <2>11 DEF PageInv
<1>3. CASE Admin!UploadAnswered(a)
  <2>1. /\ a \in waits
        /\ \/ assetId' = assetId
           \/ assetId' = a /\ upload[a].clean
        /\ waits' = waits \ {a}
        /\ told' = Nothing
        /\ UNCHANGED <<product, version, upload, uPc, asset, files, tPc, tAsset>>
    BY <1>3 DEF Admin!UploadAnswered, Admin!Shown
  <2>2. upload[a].product = projectId /\ projectId # Nothing
    BY <2>1 DEF PageInv, ShownInv, DraftInv
  <2>3. PageTyped'
    BY <1>1, <2>1 DEF PageInv, PageTyped
  <2>4. DraftInv'
    BY <1>1, <2>1, <2>2 DEF PageInv, DraftInv
  <2>5. ShownInv'
    BY <1>1, <2>1, <2>2 DEF PageInv, ShownInv, Admin!ShownIsSound
  <2>6. CallInv'
    BY <1>1, <2>1 DEF PageInv, CallInv
  <2>7. Admin!SoldWithPlan' /\ Admin!ToldIsPublished'
    BY <1>1, <2>1 DEF PageInv, Admin!SoldWithPlan, Admin!ToldIsPublished
  <2>8. UNCHANGED vars
    BY <2>1 DEF vars, uploads, txs
  <2> QED BY <2>3, <2>4, <2>5, <2>6, <2>7, <2>8 DEF PageInv
<1> QED BY <1>2, <1>3

LEMMA PagePublishKeeps ==
  ASSUME IInv, PageInv, NEW x \in Publishers, Admin!Publish(x)
  PROVE  PageInv' /\ [Next]_vars
<1> USE DEF Admin!server, Admin!draft, Admin!plan, Admin!file
<1>0. Nothing \notin Assets /\ Assets \cap Publishers = {}
  BY UploadsAssumption DEF Admin!AdminAssumption
<1>1. UNCHANGED <<planned, planning, plans, projectId, creating, made, slugFree, form,
                  reloads, assetId, told>>
  BY DEF Admin!Publish
<1>2. /\ assetId \in Assets /\ upload[assetId].product = projectId
      /\ projectId \in planned /\ projectId # Nothing
  BY DEF Admin!Publish, Admin!MayPublish, PageInv, PageTyped, DraftInv, ShownInv,
         Admin!ShownIsSound
<1>3. waits' = waits \cup {x} /\ call[x] = "none"
  BY DEF Admin!Publish
<1>4. \/ PublishRead(x, assetId) /\ call' = [call EXCEPT ![x] = "open"]
      \/ UNCHANGED vars /\ call' = [call EXCEPT ![x] = "error"]
  <2>1. Admin!P!PublishRead(x, assetId) => PublishRead(x, assetId)
    BY <1>2, PagePublishServes
  <2> QED BY <2>1 DEF Admin!Publish, vars, uploads, txs
<1>5. /\ UNCHANGED <<product, version, upload, uPc, asset, files>>
      /\ \/ /\ call' = [call EXCEPT ![x] = "open"]
            /\ tPc' = [tPc EXCEPT ![x] = "asset"] /\ tAsset' = [tAsset EXCEPT ![x] = assetId]
         \/ call' = [call EXCEPT ![x] = "error"] /\ UNCHANGED <<tPc, tAsset>>
  BY <1>4 DEF PublishRead, Step, uploads, txs, vars
<1>6. PageTyped'
  <2>1. call' \in [Publishers -> {"none", "open", "ok", "error"}]
    BY <1>5 DEF PageInv, PageTyped
  <2>2. \A y \in Publishers : call'[y] = "open" <=> tPc'[y] # "idle"
    <3>1. \A y \in Publishers \ {x} : call'[y] = call[y] /\ tPc'[y] = tPc[y]
      BY <1>5 DEF PageInv, PageTyped, IInv, TypeOK
    <3>2. call'[x] = "open" <=> tPc'[x] # "idle"
      BY <1>3, <1>5 DEF PageInv, PageTyped, IInv, TypeOK
    <3> QED BY <3>1, <3>2 DEF PageInv, PageTyped
  <2>3. waits' \in SUBSET (Assets \cup Publishers)
    BY <1>3 DEF PageInv, PageTyped
  <2> QED BY <1>1, <1>5, <2>1, <2>2, <2>3 DEF PageInv, PageTyped
<1>7. DraftInv'
  BY <1>1, <1>2, <1>5 DEF PageInv, DraftInv
<1>8. ShownInv'
  BY <1>0, <1>1, <1>3, <1>5 DEF PageInv, ShownInv, Admin!ShownIsSound
<1>9. CallInv'
  <2> SUFFICES ASSUME NEW y \in Publishers
               PROVE  /\ call'[y] = "open" => upload'[tAsset'[y]].product \in planned'
                      /\ call'[y] = "ok" => asset'[tAsset'[y]] = "published"
                      /\ y \in waits' /\ call'[y] \in {"open", "ok"}
                           => upload'[tAsset'[y]].product = projectId'
    BY DEF CallInv
  <2>1. CASE y = x
    <3>1. \/ call'[x] = "open" /\ tAsset'[x] = assetId
          \/ call'[x] = "error"
      BY <1>5 DEF PageInv, PageTyped, IInv, TypeOK
    <3> QED BY <1>1, <1>2, <1>5, <2>1, <3>1
  <2>2. CASE y # x
    <3>1. call'[y] = call[y] /\ tAsset'[y] = tAsset[y] /\ (y \in waits' <=> y \in waits)
      BY <1>3, <1>5, <2>2 DEF PageInv, PageTyped, IInv, TypeOK
    <3> QED BY <1>1, <1>5, <3>1 DEF PageInv, CallInv
  <2> QED BY <2>1, <2>2
<1>10. Admin!SoldWithPlan' /\ Admin!ToldIsPublished'
  BY <1>1, <1>5 DEF PageInv, Admin!SoldWithPlan, Admin!ToldIsPublished
<1>11. [Next]_vars
  BY <1>2, <1>4 DEF Next, PublishStep
<1> QED BY <1>6, <1>7, <1>8, <1>9, <1>10, <1>11 DEF PageInv

LEMMA PageServedKeeps ==
  ASSUME IInv, PageInv, NEW x \in Publishers, Admin!PublishServed(x)
  PROVE  PageInv' /\ [Next]_vars
<1> USE DEF Admin!server, Admin!draft, Admin!plan, Admin!file
<1>1. /\ UNCHANGED <<planned, planning, plans, projectId, creating, made, slugFree, form,
                     reloads, assetId, waits, told>>
      /\ call[x] = "open"
  BY DEF Admin!PublishServed
<1>2. \/ /\ PublishAsset(x) \/ PublishProject(x) \/ Rollback(x)
         /\ call' = IF tPc'[x] = "idle" THEN [call EXCEPT ![x] = "error"] ELSE call
      \/ Commit(x) /\ call' = [call EXCEPT ![x] = "ok"]
  BY PagePublishServes DEF Admin!PublishServed
<1>3. [Next]_vars
  BY <1>2 DEF Next, PublishStep
<1>4. /\ tAsset[x] \in Assets /\ upload[tAsset[x]].product \in planned
      /\ upload[tAsset[x]].product \in Products
  BY <1>1 DEF PageInv, CallInv, PageTyped, IInv, TypeOK
<1>5. UNCHANGED <<upload, tAsset>>
  BY <1>2 DEF PublishAsset, PublishProject, Rollback, Commit, uploads
<1>6. /\ \E s \in {"idle", "project", "commit"} : tPc' = [tPc EXCEPT ![x] = s]
      /\ \/ tPc'[x] = "idle" /\ call' = [call EXCEPT ![x] = "error"]
         \/ tPc'[x] # "idle" /\ call' = call
         \/ tPc'[x] = "idle" /\ call' = [call EXCEPT ![x] = "ok"]
              /\ asset'[tAsset[x]] = "published"
  <2>1. CASE /\ PublishAsset(x) \/ PublishProject(x) \/ Rollback(x)
             /\ call' = IF tPc'[x] = "idle" THEN [call EXCEPT ![x] = "error"] ELSE call
    <3>1. \E s \in {"idle", "project", "commit"} : tPc' = [tPc EXCEPT ![x] = s]
      BY <2>1 DEF PublishAsset, PublishProject, Rollback, Step
    <3> QED BY <2>1, <3>1
  <2>2. CASE Commit(x) /\ call' = [call EXCEPT ![x] = "ok"]
    BY <1>4, <2>2 DEF Commit, Step, IInv, TypeOK
  <2> QED BY <1>2, <2>1, <2>2
<1>7. /\ \A p \in Products : product[p] # "none" => product'[p] # "none"
      /\ \A p \in Products : product'[p] = "published" => product[p] = "published" \/ p \in planned
      /\ \A p \in Products : product[p] = "published" => product'[p] = "published"
      /\ \A a \in Assets : asset[a] = "published" => asset'[a] = "published"
  <2>1. CASE Commit(x)
    BY <1>4, <2>1 DEF Commit, ProductOf, IInv, TypeOK
  <2>2. CASE ~Commit(x)
    BY <1>2, <2>2 DEF PublishAsset, PublishProject, Rollback
  <2> QED BY <2>1, <2>2
<1>8. PageTyped'
  <2>1. call' \in [Publishers -> {"none", "open", "ok", "error"}]
    BY <1>6 DEF PageInv, PageTyped
  <2>2. \A y \in Publishers : call'[y] = "open" <=> tPc'[y] # "idle"
    <3>1. \A y \in Publishers \ {x} : call'[y] = call[y] /\ tPc'[y] = tPc[y]
      BY <1>6 DEF PageInv, PageTyped, IInv, TypeOK
    <3>2. call'[x] = "open" <=> tPc'[x] # "idle"
      BY <1>1, <1>6 DEF PageInv, PageTyped
    <3> QED BY <3>1, <3>2 DEF PageInv, PageTyped
  <2>3. planned' \subseteq {p \in Products : product'[p] # "none"}
    BY <1>1, <1>7 DEF PageInv, PageTyped
  <2> QED BY <1>1, <2>1, <2>2, <2>3 DEF PageInv, PageTyped
<1>9. DraftInv'
  BY <1>1, <1>7 DEF PageInv, PageTyped, DraftInv
<1>10. ShownInv'
  BY <1>1, <1>5 DEF PageInv, ShownInv, Admin!ShownIsSound
<1>11. CallInv'
  <2> SUFFICES ASSUME NEW y \in Publishers
               PROVE  /\ call'[y] = "open" => upload[tAsset[y]].product \in planned
                      /\ call'[y] = "ok" => asset'[tAsset[y]] = "published"
                      /\ y \in waits /\ call'[y] \in {"open", "ok"}
                           => upload[tAsset[y]].product = projectId
    BY <1>1, <1>5 DEF CallInv
  <2>1. CASE y = x
    BY <1>1, <1>6, <2>1 DEF PageInv, PageTyped, CallInv
  <2>2. CASE y # x
    <3>1. call'[y] = call[y] /\ tAsset[y] \in Assets
      BY <1>6, <2>2 DEF PageInv, PageTyped, IInv, TypeOK
    <3> QED BY <1>7, <3>1 DEF PageInv, CallInv
  <2> QED BY <2>1, <2>2
<1>12. Admin!SoldWithPlan'
  BY <1>1, <1>7 DEF PageInv, Admin!SoldWithPlan
<1>13. Admin!ToldIsPublished'
  <2>1. told # Nothing => projectId # Nothing /\ projectId \in Products /\ told \in Assets
    BY DEF PageInv, PageTyped, DraftInv
  <2> QED BY <1>1, <1>5, <1>7, <2>1 DEF PageInv, Admin!ToldIsPublished
<1> QED BY <1>3, <1>8, <1>9, <1>10, <1>11, <1>12, <1>13 DEF PageInv

LEMMA PageAnsweredKeeps ==
  ASSUME IInv, PageInv, NEW x \in Publishers, Admin!PublishAnswered(x)
  PROVE  PageInv' /\ UNCHANGED vars
<1> USE DEF Admin!server, Admin!draft, Admin!plan, Admin!file
<1>0. Nothing \notin Assets /\ Assets \cap Publishers = {}
  BY UploadsAssumption DEF Admin!AdminAssumption
<1>1. UNCHANGED <<product, version, upload, uPc, asset, files, tPc, tAsset, planned,
                  planning, plans, projectId, creating, made, slugFree, form, reloads, assetId>>
  BY DEF Admin!PublishAnswered
<1>2. /\ call[x] \in {"ok", "error"} /\ call' = [call EXCEPT ![x] = "none"]
      /\ waits' = waits \ {x}
      /\ \/ call[x] = "ok" /\ x \in waits /\ told' = tAsset[x]
         \/ told' \in {told, Nothing}
  BY DEF Admin!PublishAnswered
<1>3. tAsset[x] \in Assets /\ upload[tAsset[x]].product \in Products
  BY DEF IInv, TypeOK, Upload
<1>4. PageTyped'
  <2>1. call' \in [Publishers -> {"none", "open", "ok", "error"}]
    BY <1>2 DEF PageInv, PageTyped
  <2>2. \A y \in Publishers : call'[y] = "open" <=> tPc'[y] # "idle"
    BY <1>1, <1>2 DEF PageInv, PageTyped
  <2>3. told' \in Assets \cup {Nothing} /\ waits' \in SUBSET (Assets \cup Publishers)
    BY <1>2, <1>3 DEF PageInv, PageTyped
  <2> QED BY <1>1, <2>1, <2>2, <2>3 DEF PageInv, PageTyped
<1>5. DraftInv'
  BY <1>1, <1>2 DEF PageInv, DraftInv
<1>6. ShownInv'
  BY <1>1, <1>2 DEF PageInv, ShownInv, Admin!ShownIsSound
<1>7. CallInv'
  BY <1>1, <1>2 DEF PageInv, PageTyped, CallInv
<1>8. Admin!SoldWithPlan'
  BY <1>1 DEF PageInv, Admin!SoldWithPlan
<1>9. Admin!ToldIsPublished'
  <2>1. CASE told' \in {told, Nothing}
    BY <1>1, <2>1 DEF PageInv, Admin!ToldIsPublished
  <2>2. CASE call[x] = "ok" /\ x \in waits /\ told' = tAsset[x]
    <3>1. /\ asset[tAsset[x]] = "published" /\ upload[tAsset[x]].product = projectId
      BY <2>2 DEF PageInv, CallInv
    <3>2. upload[tAsset[x]].clean
      BY <1>3, <3>1 DEF IInv, RowInv
    <3>3. product[projectId] = "published"
      BY <1>3, <3>1 DEF IInv, PublishedTogether, PublishedFor, ProductOf
    <3> QED BY <1>1, <2>2, <3>1, <3>2, <3>3 DEF Admin!ToldIsPublished
  <2> QED BY <1>2, <2>1, <2>2
<1>10. UNCHANGED vars
  BY <1>1 DEF vars, uploads, txs
<1> QED BY <1>4, <1>5, <1>6, <1>7, <1>8, <1>9, <1>10 DEF PageInv

\* Every step of the page is a step of Publishing, or none of its.
LEMMA PageInductive ==
  ASSUME IInv, PageInv, Admin!Next
  PROVE  PageInv' /\ [Next]_vars
<1>1. CASE Admin!EditVersion \/ Admin!EditSlug \/ Admin!Reload
  BY <1>1, PageFormKeeps
<1>2. CASE \/ Admin!Create \/ Admin!CreateServed
           \/ Admin!CreateRefused \/ Admin!CreateAnswered
  BY <1>2, PageCreateKeeps
<1>3. CASE \/ Admin!SavePlan \/ Admin!PlanStored
           \/ Admin!PlanAnswered \/ Admin!FetchPlans
  BY <1>3, PagePlanKeeps
<1>4. CASE \E a \in Assets :
              Admin!Upload(a) \/ Admin!UploadServed(a) \/ Admin!UploadAnswered(a)
  BY <1>4, PageUploadKeeps
<1>5. CASE \E x \in Publishers : Admin!Publish(x)
  BY <1>5, PagePublishKeeps
<1>6. CASE \E x \in Publishers : Admin!PublishServed(x)
  BY <1>6, PageServedKeeps
<1>7. CASE \E x \in Publishers : Admin!PublishAnswered(x)
  BY <1>7, PageAnsweredKeeps
<1> QED BY <1>1, <1>2, <1>3, <1>4, <1>5, <1>6, <1>7 DEF Admin!Next

\* No insert is reported as failed that was committed.
LEMMA PageIsSure ==
  ASSUME IInv, PageInv, SureInv, Admin!Next
  PROVE  SureInv'
<1>1. ASSUME NEW a \in Assets, Admin!UploadServed(a) PROVE ~GivesDoubt
  <2>1. Admin!P!UploadStep(a)
    BY <1>1 DEF Admin!UploadServed
  <2>2. CASE Admin!P!Insert(a)
    BY <2>2 DEF IInv, TypeOK, Admin!P!Insert, GivesDoubt
  <2>3. CASE ~Admin!P!Insert(a)
    BY <2>1, <2>3 DEF Admin!P!UploadStep, Admin!P!UploadStart, Admin!P!Put, Admin!P!PutFails,
         Admin!P!InsertFails, Admin!P!Undo, Admin!P!UndoFails, Admin!P!Crash, GivesDoubt
  <2> QED BY <2>2, <2>3
<1>2. ASSUME NEW x \in Publishers, Admin!PublishServed(x) PROVE ~GivesDoubt
  <2>1. CASE Admin!P!Commit(x)
    BY <2>1, PagePublishServes, CommitGivesNoDoubt
  <2>2. CASE ~Admin!P!Commit(x)
    BY <1>2, <2>2 DEF Admin!PublishServed, Admin!P!PublishAsset, Admin!P!PublishProject,
         Admin!P!Rollback, GivesDoubt
  <2> QED BY <2>1, <2>2
<1>3. CASE /\ \A a \in Assets : ~Admin!UploadServed(a)
           /\ \A x \in Publishers : ~Admin!PublishServed(x)
  <2>1. asset' = asset
    BY <1>3 DEF Admin!Next, Admin!EditVersion, Admin!EditSlug, Admin!Reload, Admin!Create,
         Admin!CreateServed, Admin!CreateRefused, Admin!CreateAnswered, Admin!SavePlan,
         Admin!PlanStored, Admin!PlanAnswered, Admin!FetchPlans, Admin!Upload,
         Admin!P!UploadStart, Admin!UploadAnswered, Admin!Publish, Admin!P!PublishRead,
         Admin!PublishAnswered, Admin!P!CreateProduct, Admin!server
  <2>2. ~GivesDoubt
    BY <2>1 DEF GivesDoubt
  <2> QED BY <2>2, PageInductive, SureKeeps
<1> QED BY <1>1, <1>2, <1>3, PageInductive, SureKeeps

\* What an editor is told is so.
LEMMA PageGives ==
  ASSUME IInv, PageInv
  PROVE  /\ Admin!TypeOK /\ Admin!SoldWithPlan
         /\ Admin!ShownIsSound /\ Admin!ToldIsPublished
         /\ StoreInv /\ SureInv /\ VersionInv => Admin!ToldIsAvailable
<1>1. Admin!P!TypeOK
  BY DEF IInv, TypeOK, Admin!P!TypeOK, Upload, Admin!P!Upload
<1>2. Admin!TypeOK
  BY <1>1 DEF PageInv, PageTyped, Admin!TypeOK
<1>3. ASSUME StoreInv, SureInv, VersionInv, told # Nothing
      PROVE  Admin!P!Deliverable(projectId)
  <2>1. /\ told \in Assets /\ asset[told] = "published"
        /\ upload[told].product = projectId
    BY <1>3 DEF PageInv, PageTyped, Admin!ToldIsPublished
  <2>2. uPc[told] = "done" /\ told \in files
    BY <1>3, <2>1 DEF SureInv, StoreInv
  <2>3. upload[told].version = version[projectId]
    BY <1>3, <2>1, <2>2 DEF VersionInv, ProductOf
  <2> QED BY <2>1, <2>2, <2>3 DEF Admin!P!Deliverable, Admin!P!PublishedFor, Admin!P!ProductOf
<1> QED BY <1>2, <1>3 DEF PageInv, ShownInv, Admin!ToldIsAvailable

-------------------------------------------------------------------------------
(* The parts together.  A step is of one of them and leaves the others as   *)
(* they are.                                                                *)

UploadsInv ==
    /\ IInv
    /\ StoreInv
    /\ VersionKept => VersionInv
    /\ part = "calm" => FilesAccounted /\ SureInv
    /\ part = "admin" => PageInv /\ SureInv
    /\ ScanInv
    /\ RedisInv /\ KeptInv
    /\ ArrayInv

LEMMA UploadsInit == MCInit => UploadsInv
<1> SUFFICES ASSUME MCInit PROVE UploadsInv
  OBVIOUS
<1>1. Init /\ Admin!Init /\ Scan!Init /\ Redis!Init /\ Array!Init
  BY DEF MCInit
<1>2. IInv /\ PageInv /\ ScanInv /\ RedisInv /\ KeptInv /\ ArrayInv
  BY <1>1, InitIInv, PageInit, ScanInit, RedisInit, ArrayInit
<1>3. StoreInv /\ SureInv /\ VersionInv /\ FilesAccounted
  BY <1>1 DEF Init, StoreInv, SureInv, VersionInv, FilesAccounted
<1> QED BY <1>2, <1>3 DEF UploadsInv

\* What holds in every part.
LEMMA PartsKeep ==
  ASSUME UploadsInv, [Next]_vars, [Scan!Next]_scan, [Redis!Next]_redis,
         [Array!Next]_array
  PROVE  /\ IInv' /\ StoreInv' /\ (VersionKept => VersionInv')
         /\ ScanInv' /\ RedisInv' /\ KeptInv' /\ ArrayInv'
<1>1. IInv' /\ StoreInv'
  BY IInvInductive, StoreInductive DEF UploadsInv
<1>2. VersionKept => VersionInv'
  BY VersionInductive DEF UploadsInv, IInv
<1>3. ScanInv' /\ RedisInv' /\ KeptInv' /\ ArrayInv'
  BY ScanInductive, RedisInductive, ArrayInductive DEF UploadsInv
<1> QED BY <1>1, <1>2, <1>3

LEMMA PageRests ==
  ASSUME PageInv, UNCHANGED <<page, publishing>>
  PROVE  PageInv'
<1> USE DEF page, publishing, vars, uploads, txs
<1>1. PageTyped'
  BY DEF PageInv, PageTyped
<1>2. DraftInv' /\ ShownInv' /\ CallInv'
  BY DEF PageInv, DraftInv, ShownInv, CallInv, Admin!ShownIsSound
<1>3. Admin!SoldWithPlan' /\ Admin!ToldIsPublished'
  BY DEF PageInv, Admin!SoldWithPlan, Admin!ToldIsPublished
<1> QED BY <1>1, <1>2, <1>3 DEF PageInv

LEMMA FilesRest ==
  ASSUME UNCHANGED publishing
  PROVE  (FilesAccounted => FilesAccounted') /\ (SureInv => SureInv')
BY DEF FilesAccounted, SureInv, publishing, vars, uploads

LEMMA UploadsInductive == UploadsInv /\ [MCNext]_all => UploadsInv'
<1> SUFFICES ASSUME UploadsInv, [MCNext]_all PROVE UploadsInv'
  OBVIOUS
<1>1. CASE PublishingNext
  <2>1. part' = part /\ UNCHANGED <<page, scan, redis, array>> /\ part \in {"faults", "calm"}
    BY <1>1 DEF PublishingNext
  <2>2. /\ [Next]_vars
        /\ part = "calm" => FilesAccounted' /\ SureInv'
    <3>1. CASE part = "faults"
      BY <1>1, <3>1 DEF PublishingNext
    <3>2. CASE part = "calm"
      <4>1. Calm!Next /\ IInv /\ FilesAccounted /\ SureInv
        BY <1>1, <3>2 DEF PublishingNext, UploadsInv
      <4> QED BY <4>1, CalmKeeps
    <3> QED BY <2>1, <3>1, <3>2
  <2> QED BY <2>1, <2>2, PartsKeep DEF UploadsInv
<1>2. CASE PageNext
  <2>1. part' = part /\ part = "admin" /\ Admin!Next /\ UNCHANGED <<scan, redis, array>>
    BY <1>2 DEF PageNext
  <2>2. PageInv' /\ SureInv' /\ [Next]_vars
    BY <2>1, PageInductive, PageIsSure DEF UploadsInv
  <2> QED BY <2>1, <2>2, PartsKeep DEF UploadsInv
<1>3. CASE ScanNext \/ RedisNext \/ ArrayNext \/ UNCHANGED all
  <2>1. /\ part' = part /\ UNCHANGED <<publishing, page>>
        /\ [Scan!Next]_scan /\ [Redis!Next]_redis /\ [Array!Next]_array
    <3>1. RedisNext => Redis!Next
      BY UploadsAssumption DEF RedisNext, Redis!Next
    <3> QED BY <1>3, <3>1 DEF ScanNext, RedisNext, ArrayNext, all
  <2>2. [Next]_vars
    BY <2>1 DEF publishing
  <2>3. /\ part = "calm" => FilesAccounted' /\ SureInv'
        /\ part = "admin" => PageInv' /\ SureInv'
    BY <2>1, FilesRest, PageRests DEF UploadsInv
  <2> QED BY <2>1, <2>2, <2>3, PartsKeep DEF UploadsInv
<1> QED BY <1>1, <1>2, <1>3 DEF MCNext

LEMMA UploadsAlways == MCSpec => []UploadsInv
BY UploadsInit, UploadsInductive, PTL DEF MCSpec

\* An accepted file is what its name, type and first bytes say, an accepted
\* archive had every entry read within the limits, and without faults of the
\* store a refused upload leaves no file (scanAsset, scanZip, upload).
THEOREM UploadsAreSound == MCSpec => []UploadIsSound
<1>1. UploadsInv => UploadIsSound
  <2> SUFFICES ASSUME UploadsInv PROVE UploadIsSound
    OBVIOUS
  <2>1. TypeOK /\ ScanInv /\ NothingLeftOver
    BY SureIsStored DEF UploadsInv, IInv, NothingLeftOver
  <2> QED BY <2>1, ScanGives
          DEF UploadIsSound, HeaderAgrees, AcceptedIsScanned, BoundedInflation
<1> QED BY <1>1, UploadsAlways, PTL

\* A product sold through the page has a plan, and what the page shows and says
\* of a file is so, whatever answers are lost or late (ProjectAdminPage).
THEOREM AdminsAreToldTheTruth == MCSpec => []AdminIsSound
<1>1. UploadsInv => AdminIsSound
  BY PageGives DEF UploadsInv, AdminIsSound
<1> QED BY <1>1, UploadsAlways, PTL

\* However workers die and commands fail or lose their answers, a job that was
\* accepted and is not done is in a list or in the memory of a process between
\* two commands; it disappears only when that process dies there, or a command
\* fails there (redisWorker, recoverStale, promoteDelayed).
THEOREM QueuesKeepJobs == MCSpec => []QueueIsSound
<1>1. UploadsInv => QueueIsSound
  BY RedisGivesTypes, KeptIsKept DEF UploadsInv, QueueIsSound, ArrayInv
<1> QED BY <1>1, UploadsAlways, PTL

\* The queue in memory implements the contract: an attempt at a time, and none
\* after one that succeeded or after the last (memoryWorker).
THEOREM ArrayKeepsContract == MCSpec => Array!Contract!Spec
<1>1. MCInit => Array!Contract!Init
  BY ArrayContractInit DEF MCInit
<1>2. UploadsInv /\ UploadsInv' /\ [MCNext]_all
        => [Array!Contract!Next]_Array!Contract!vars
  <2>1. [MCNext]_all => [Array!Next]_array
    BY DEF MCNext, PublishingNext, PageNext, ScanNext, RedisNext, ArrayNext, all
  <2> QED BY <2>1, ArrayStepKeepsContract DEF UploadsInv
<1> QED BY <1>1, <1>2, UploadsAlways, PTL DEF MCSpec, Array!Contract!Spec

LEMMA SoloInductive ==
  ASSUME UploadsInv, part = "single" => SoloInv, [MCNext]_all
  PROVE  (part = "single" => SoloInv)' /\ [Durable!Next]_Durable!vars
<1>1. part' = part
  BY DEF MCNext, PublishingNext, PageNext, ScanNext, RedisNext, ArrayNext, all
<1>2. CASE part # "single"
  BY <1>1, <1>2, DurableRests
<1>3. CASE part = "single" /\ RedisNext
  <2>1. (\E j \in Jobs : Redis!Enqueue(j)) \/ Redis!Lives(LoneWorker)
    BY <1>3 DEF RedisNext
  <2> QED BY <1>1, <1>3, <2>1, SoloKeeps DEF UploadsInv
<1>4. CASE part = "single" /\ ~RedisNext
  <2>1. UNCHANGED redis
    BY <1>4 DEF MCNext, PublishingNext, PageNext, ScanNext, ArrayNext, all
  <2> QED BY <1>1, <1>4, <2>1, SoloRests
<1> QED BY <1>2, <1>3, <1>4

\* While its one worker lives the queue in Redis implements the contract too:
\* an attempt at a time, at most MaxAttempts, and none after one that succeeded
\* (redisWorker, promoteDelayed).
THEOREM LoneWorkerKeepsContract == MCSpec => Durable!Spec
<1> DEFINE Inv == UploadsInv /\ (part = "single" => SoloInv)
<1>1. MCInit => Inv /\ Durable!Init
  <2>1. MCInit => UploadsInv /\ Durable!Init
    BY UploadsInit, SoloContractInit
  <2>2. MCInit => SoloInv
    BY SoloInit DEF MCInit
  <2> QED BY <2>1, <2>2
<1>2. Inv /\ [MCNext]_all => Inv' /\ [Durable!Next]_Durable!vars
  BY UploadsInductive, SoloInductive
<1> HIDE DEF Inv
<1> QED BY <1>1, <1>2, PTL DEF MCSpec, Durable!Spec

\* A page that editors use makes the server do nothing that requests sent by
\* others could not: what holds of Publishing holds of it (ProjectAdminPage).
THEOREM PagesOnlyPublish == MCSpec => Spec
<1>1. MCInit => Init
  BY DEF MCInit
<1>2. UploadsInv /\ [MCNext]_all => [Next]_vars
  <2> SUFFICES ASSUME UploadsInv, [MCNext]_all PROVE [Next]_vars
    OBVIOUS
  <2>1. CASE PublishingNext
    BY <2>1, CalmKeeps DEF PublishingNext, UploadsInv
  <2>2. CASE PageNext
    BY <2>2, PageInductive DEF PageNext, UploadsInv
  <2>3. CASE ~PublishingNext /\ ~PageNext
    BY <2>3 DEF MCNext, ScanNext, RedisNext, ArrayNext, all, publishing
  <2> QED BY <2>1, <2>2, <2>3
<1> QED BY <1>1, <1>2, UploadsAlways, PTL DEF MCSpec, Spec

===============================================================================
