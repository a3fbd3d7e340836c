---------------------------- MODULE LogScanProofs ----------------------------
(***************************************************************************)
(* Theorems about LogScan, for every log, filter, limit, rotation depth    *)
(* and number of rotations.  What the scan keeps and what the logger keeps *)
(* change in steps of their own; the invariants that relate the two come   *)
(* last.                                                                   *)
(***************************************************************************)
EXTENDS LogScan, SequenceTheorems, FiniteSetTheorems, TLAPS

Paths == [index : Nat, infix : BOOLEAN]

(* The candidates of the operation, of which the scan has left `candidates'. *)
AllCandidates == EnumerateCandidates(opts.include_rotations, opts.depth, opts.extension)

Visited == Len(AllCandidates) - Len(candidates)

Remaining ==
    /\ Len(candidates) <= Len(AllCandidates)
    /\ \A k \in 1..Len(candidates) : candidates[k] = AllCandidates[Visited + k]

----------------------------------------------------------------------------
(* What is assumed of the constants, by piece.                              *)
LEMMA ConstantFacts ==
    /\ MaxFiles \in Nat /\ MaxFiles > 0
    /\ MaxDepth \in Nat /\ MaxRotations \in Nat
    /\ NanosPerSecond \in Nat /\ NanosPerSecond > 0
    /\ NanosPerMilli \in Nat /\ NanosPerMilli > 0
    /\ Int64Half \in Nat /\ Int64Half > 0
    /\ \A n \in Limits : n \in Nat /\ n < 2 * Int64Half
    /\ \A c \in ChunkSizes : c \in Nat /\ c > 0
    /\ Len(Log) \in Nat /\ Len(Log) > MaxFiles
    /\ Lines = 1..Len(Log)
<1>1. Log \in Seq([format : STRING, seconds : Int, nanos : 0..(NanosPerSecond - 1),
                   level : STRING, text : SUBSET STRING, size : Nat])
  BY LogScanAssumption
<1>2. Len(Log) \in Nat /\ Lines = 1..Len(Log)
  BY <1>1 DEF Lines
<1>3. NanosPerSecond \in Nat /\ NanosPerSecond > 0 /\ NanosPerMilli \in 1..NanosPerSecond
  BY LogScanAssumption
<1>4. Int64Half \in Nat /\ Int64Half > 0 /\ Limits \subseteq 0..(2 * Int64Half - 1)
  BY LogScanAssumption
<1>5. NanosPerMilli \in Nat /\ NanosPerMilli > 0
  BY <1>3
<1>6. \A n \in Limits : n \in Nat /\ n < 2 * Int64Half
  BY <1>4
<1> QED
  BY <1>2, <1>3, <1>4, <1>5, <1>6, LogScanAssumption

(* What is assumed of a line.                                               *)
LEMMA LineFacts ==
    ASSUME NEW l \in Lines
    PROVE  /\ Log[l].seconds \in Int
           /\ Log[l].nanos \in 0..(NanosPerSecond - 1)
           /\ Log[l].size \in Nat
<1> DEFINE R == [format : STRING, seconds : Int, nanos : 0..(NanosPerSecond - 1),
                 level : STRING, text : SUBSET STRING, size : Nat]
<1>1. Log \in Seq(R)
  BY LogScanAssumption
<1>2. Log[l] \in R
  <2> HIDE DEF R
  <2> QED
    BY <1>1 DEF Lines
<1> QED
  BY <1>2

(* The rotated files in the order of the scan.                              *)
LEMMA RotationsAre ==
    ASSUME NEW d \in Nat
    PROVE  /\ Depth(d) \in Nat /\ Depth(d) > 0
           /\ Rotations(d, FALSE) = [k \in 1..Depth(d) |-> Suffix(k)]
           /\ Rotations(d, TRUE) =
                [k \in 1..(2 * Depth(d)) |->
                    IF (k - 1) % 2 = 0 THEN Suffix(1 + ((k - 1) \div 2))
                                       ELSE Infix(1 + ((k - 1) \div 2))]
<1>1. Depth(d) \in Nat /\ Depth(d) > 0
  BY DEF Depth
<1>2. Len(NamesOf(1, FALSE)) = 1 /\ Len(NamesOf(1, TRUE)) = 2
  BY DEF NamesOf
<1>3. \A i : NamesOf(i, FALSE)[1] = Suffix(i)
  BY DEF NamesOf
<1>4. \A i : NamesOf(i, TRUE)[1] = Suffix(i) /\ NamesOf(i, TRUE)[2] = Infix(i)
  BY DEF NamesOf
<1>5. Rotations(d, FALSE) = [k \in 1..Depth(d) |-> Suffix(k)]
  <2>1. Rotations(d, FALSE) =
          [k \in 1..(1 * Depth(d)) |-> NamesOf(1 + ((k - 1) \div 1), FALSE)[1 + ((k - 1) % 1)]]
    BY <1>2 DEF Rotations
  <2>2. 1 * Depth(d) = Depth(d)
    BY <1>1
  <2>3. ASSUME NEW k \in 1..Depth(d)
        PROVE  NamesOf(1 + ((k - 1) \div 1), FALSE)[1 + ((k - 1) % 1)] = Suffix(k)
    <3>1. 1 + ((k - 1) \div 1) = k /\ 1 + ((k - 1) % 1) = 1
      BY <1>1
    <3> QED
      BY <1>3, <3>1
  <2> QED
    BY <2>1, <2>2, <2>3
<1>6. Rotations(d, TRUE) =
        [k \in 1..(2 * Depth(d)) |->
            IF (k - 1) % 2 = 0 THEN Suffix(1 + ((k - 1) \div 2))
                               ELSE Infix(1 + ((k - 1) \div 2))]
  <2>1. Rotations(d, TRUE) =
          [k \in 1..(2 * Depth(d)) |-> NamesOf(1 + ((k - 1) \div 2), TRUE)[1 + ((k - 1) % 2)]]
    BY <1>2 DEF Rotations
  <2>2. ASSUME NEW k \in 1..(2 * Depth(d))
        PROVE  NamesOf(1 + ((k - 1) \div 2), TRUE)[1 + ((k - 1) % 2)] =
                 IF (k - 1) % 2 = 0 THEN Suffix(1 + ((k - 1) \div 2))
                                    ELSE Infix(1 + ((k - 1) \div 2))
    <3>1. (k - 1) % 2 = 0 \/ (k - 1) % 2 = 1
      BY <1>1
    <3>2. CASE (k - 1) % 2 = 0
      <4>1. 1 + ((k - 1) % 2) = 1
        BY <3>2
      <4> QED
        BY <1>4, <3>2, <4>1
    <3>3. CASE (k - 1) % 2 = 1
      <4>1. 1 + ((k - 1) % 2) = 2
        BY <3>3
      <4> QED
        BY <1>4, <3>3, <4>1
    <3> QED
      BY <3>1, <3>2, <3>3
  <2> QED
    BY <2>1, <2>2
<1> QED
  BY <1>1, <1>5, <1>6

(* The name of rotation i under which the logger keeps it.                  *)
Proper(path, extension) == path.index = 0 \/ path.infix = extension

(* A list of candidates that never goes back to a newer file nor leaves one *)
(* out, and where each file has one proper name.                            *)
OrderedCandidates(C, e) ==
    /\ C \in Seq(Paths) /\ Len(C) \in Nat
    /\ \A j, k \in 1..Len(C) : j <= k => C[j].index <= C[k].index
    /\ \A j, k \in 1..Len(C) :
          C[j].index = C[k].index /\ Proper(C[j], e) /\ Proper(C[k], e) => j = k
    /\ \A k \in 1..Len(C) :
          \E j \in 1..Len(C) : C[j].index = C[k].index /\ Proper(C[j], e)
    /\ \A k \in 1..Len(C) :
          C[k].index > 0 => \E j \in 1..Len(C) : C[j].index = C[k].index - 1

(* EnumerateCandidates makes such a list.                                   *)
LEMMA CandidatesAre ==
    ASSUME NEW r \in BOOLEAN, NEW d \in Nat, NEW e \in BOOLEAN
    PROVE  OrderedCandidates(EnumerateCandidates(r, d, e), e)
<1> DEFINE C == EnumerateCandidates(r, d, e)
           D == Depth(d)
           R == IF r THEN Rotations(d, e) ELSE <<>>
           n == IF r THEN (IF e THEN 2 * D ELSE D) ELSE 0
           Index(k) == IF k = 1 THEN 0 ELSE IF e THEN 1 + ((k - 2) \div 2) ELSE k - 1
           Form(k) == IF e /\ k # 1 /\ (k - 2) % 2 = 1 THEN TRUE ELSE FALSE
<1>1. D \in Nat /\ n \in Nat
  <2>1. D \in Nat
    BY RotationsAre
  <2> HIDE DEF D
  <2> QED
    BY <2>1
<1>2. /\ \A i \in Nat : Suffix(i) \in Paths /\ Suffix(i).index = i /\ Suffix(i).infix = FALSE
      /\ \A i \in Nat : Infix(i) \in Paths /\ Infix(i).index = i /\ Infix(i).infix = TRUE
  BY DEF Paths, Suffix, Infix
<1>3. ASSUME r
      PROVE  /\ R \in Seq(Paths) /\ Len(R) = n
             /\ \A k \in 1..n : R[k].index = Index(k + 1) /\ R[k].infix = Form(k + 1)
  <2>1. CASE e
    <3>1. R = [k \in 1..n |-> IF (k - 1) % 2 = 0 THEN Suffix(1 + ((k - 1) \div 2))
                                               ELSE Infix(1 + ((k - 1) \div 2))]
      BY <1>3, <2>1, RotationsAre
    <3>2. ASSUME NEW k \in 1..n
          PROVE  /\ R[k] \in Paths
                 /\ R[k].index = 1 + ((k - 1) \div 2)
                 /\ R[k].infix = IF (k - 1) % 2 = 1 THEN TRUE ELSE FALSE
      <4>1. 1 + ((k - 1) \div 2) \in Nat /\ ((k - 1) % 2 = 0 \/ (k - 1) % 2 = 1)
        BY <1>1
      <4> HIDE DEF n, R
      <4>2. CASE (k - 1) % 2 = 0
        <5>1. R[k] = Suffix(1 + ((k - 1) \div 2)) /\ (k - 1) % 2 # 1
          BY <3>1, <4>2
        <5> QED
          BY <1>2, <4>1, <5>1, Zenon
      <4>3. CASE (k - 1) % 2 = 1
        <5>1. R[k] = Infix(1 + ((k - 1) \div 2))
          BY <3>1, <4>3
        <5> QED
          BY <1>2, <4>1, <4>3, <5>1
      <4> QED
        BY <4>1, <4>2, <4>3
    <3>3. R \in [1..n -> Paths]
      BY <3>1, <3>2
    <3>4. R \in Seq(Paths) /\ Len(R) = n
      <4> HIDE DEF R, n
      <4> QED
        BY <1>1, <3>3
    <3>5. ASSUME NEW k \in 1..n
          PROVE  (k + 1) - 2 = k - 1 /\ k + 1 # 1
      BY <1>1
    <3> QED
      BY <2>1, <3>2, <3>4, <3>5
  <2>2. CASE ~e
    <3>1. R = [k \in 1..n |-> Suffix(k)]
      BY <1>3, <2>2, RotationsAre
    <3>2. ASSUME NEW k \in 1..n
          PROVE  R[k] \in Paths /\ R[k].index = k /\ R[k].infix = FALSE
      <4>1. k \in Nat
        BY <1>1
      <4> HIDE DEF n, R
      <4> QED
        BY <1>2, <3>1, <4>1
    <3>3. R \in [1..n -> Paths]
      BY <3>1, <3>2
    <3>4. R \in Seq(Paths) /\ Len(R) = n
      <4> HIDE DEF R, n
      <4> QED
        BY <1>1, <3>3
    <3>5. ASSUME NEW k \in 1..n
          PROVE  (k + 1) - 1 = k /\ k + 1 # 1
      BY <1>1
    <3> QED
      BY <2>2, <3>2, <3>4, <3>5
  <2> QED
    BY <2>1, <2>2
<1>4. /\ R \in Seq(Paths) /\ Len(R) = n
      /\ \A k \in 1..n : R[k].index = Index(k + 1) /\ R[k].infix = Form(k + 1)
  <2>1. CASE ~r
    BY <2>1
  <2> QED
    BY <1>3, <2>1
<1>5. C = <<Suffix(0)>> \o R
  BY DEF EnumerateCandidates
<1> HIDE DEF R, C
<1>6. C \in Seq(Paths) /\ Len(C) = n + 1
  <2>1. <<Suffix(0)>> \in Seq(Paths) /\ Len(<<Suffix(0)>>) = 1
    BY <1>2
  <2> HIDE DEF n
  <2>2. C \in Seq(Paths) /\ Len(C) = Len(<<Suffix(0)>>) + Len(R)
    BY <1>4, <1>5, <2>1, ConcatProperties
  <2> QED
    BY <1>1, <1>4, <2>1, <2>2
<1>7. ASSUME NEW k \in 1..Len(C)
      PROVE  C[k].index = Index(k) /\ C[k].infix = Form(k)
  <2>1. <<Suffix(0)>> \in Seq(Paths) /\ Len(<<Suffix(0)>>) = 1 /\ <<Suffix(0)>>[1] = Suffix(0)
    BY <1>2
  <2>2. CASE k = 1
    <3>1. C[k] = Suffix(0)
      BY <1>4, <1>5, <2>1, <2>2, ConcatProperties
    <3>2. Index(k) = 0 /\ Form(k) = FALSE
      BY <2>2
    <3> HIDE DEF Index, Form
    <3>3. 0 \in Nat
      OBVIOUS
    <3> QED
      BY <1>2, <3>1, <3>2, <3>3, Zenon
  <2>3. CASE k # 1
    <3>1. k - 1 \in 1..n /\ (k - 1) + 1 = k /\ ~(k <= 1)
      BY <1>1, <1>6, <2>3
    <3>2. C[k] = R[k - 1]
      BY <1>4, <1>5, <1>6, <2>1, <3>1, ConcatProperties
    <3> HIDE DEF Index, Form, n
    <3> QED
      BY <1>4, <3>1, <3>2
  <2> QED
    BY <2>2, <2>3
<1>8. \A k \in 1..Len(C) : k \in Nat /\ k > 0 /\ Index(k) \in Nat
  BY <1>1, <1>6
<1>9. ASSUME NEW j \in 1..Len(C), NEW k \in 1..Len(C), j <= k
      PROVE  Index(j) <= Index(k)
  BY <1>8, <1>9
<1>10. ASSUME NEW j \in 1..Len(C), NEW k \in 1..Len(C), Index(j) = Index(k),
              Index(j) = 0 \/ Form(j) = e, Index(k) = 0 \/ Form(k) = e
       PROVE  j = k
  <2>1. CASE e = FALSE
    BY <1>8, <1>10, <2>1
  <2>2. CASE e = TRUE
    <3>1. ASSUME NEW i \in 1..Len(C), Index(i) = 0 \/ Form(i) = e
          PROVE  i = 1 \/ (i > 1 /\ i = 2 * ((i - 2) \div 2) + 3)
      <4>1. i \in Nat /\ i > 0
        BY <1>8
      <4>2. i # 1 => (i - 2) % 2 = 1
        BY <2>2, <3>1, <4>1
      <4> QED
        BY <4>1, <4>2
    <3>2. j = 1 \/ (j > 1 /\ j = 2 * ((j - 2) \div 2) + 3)
      BY <1>10, <3>1
    <3>3. k = 1 \/ (k > 1 /\ k = 2 * ((k - 2) \div 2) + 3)
      BY <1>10, <3>1
    <3>4. \A i \in 1..Len(C) : i > 1 => Index(i) = 1 + ((i - 2) \div 2) /\ Index(i) > 0
      BY <1>8, <2>2
    <3>5. Index(1) = 0
      OBVIOUS
    <3> QED
      BY <1>8, <1>10, <3>2, <3>3, <3>4, <3>5
  <2> QED
    BY <2>1, <2>2
<1>11. ASSUME NEW k \in 1..Len(C)
       PROVE  \E j \in 1..Len(C) : Index(j) = Index(k) /\ (Index(j) = 0 \/ Form(j) = e)
  <2>1. CASE k = 1 \/ Form(k) = e
    BY <2>1
  <2>2. CASE k # 1 /\ Form(k) # e
    <3>a. e = TRUE
      BY <2>2
    <3>b. (k - 2) % 2 = 0
      <4>1. (k - 2) % 2 # 1
        BY <2>2, <3>a
      <4> QED
        BY <1>8, <4>1
    <3>c. n # 0
      BY <1>1, <1>6, <1>8, <2>2
    <3>1. e /\ r /\ (k - 2) % 2 = 0
      BY <3>a, <3>b, <3>c
    <3>2. /\ k + 1 \in 1..Len(C) /\ k + 1 # 1
          /\ ((k + 1) - 2) % 2 = 1 /\ ((k + 1) - 2) \div 2 = (k - 2) \div 2
      BY <1>1, <1>6, <1>8, <2>2, <3>1
    <3> QED
      BY <2>2, <3>1, <3>2
  <2> QED
    BY <2>1, <2>2
<1>12. ASSUME NEW k \in 1..Len(C), Index(k) > 0
       PROVE  \E j \in 1..Len(C) : Index(j) = Index(k) - 1
  <2>1. k \in Nat /\ k > 1
    BY <1>8, <1>12
  <2>2. CASE e = FALSE
    <3>1. k - 1 \in 1..Len(C) /\ Index(k - 1) = Index(k) - 1
      BY <1>1, <1>6, <2>1, <2>2
    <3> QED
      BY <3>1
  <2>3. CASE e = TRUE /\ k <= 3
    <3>1. 1 \in 1..Len(C) /\ Index(1) = Index(k) - 1
      BY <1>1, <1>6, <2>1, <2>3
    <3> QED
      BY <3>1
  <2>4. CASE e = TRUE /\ k > 3
    <3>1. k - 2 \in 1..Len(C) /\ Index(k - 2) = Index(k) - 1
      BY <1>1, <1>6, <2>1, <2>4
    <3> QED
      BY <3>1
  <2>5. (e = TRUE \/ e = FALSE) /\ (k <= 3 \/ k > 3)
    BY <2>1
  <2> HIDE DEF Index, Form, n
  <2> QED
    BY <2>2, <2>3, <2>4, <2>5, Zenon
<1> HIDE DEF Index, Form, n
<1>a. /\ C \in Seq(Paths) /\ Len(C) \in Nat
      /\ \A j, k \in 1..Len(C) : j <= k => C[j].index <= C[k].index
  BY <1>1, <1>6, <1>7, <1>9
<1>b. \A j, k \in 1..Len(C) :
         C[j].index = C[k].index /\ Proper(C[j], e) /\ Proper(C[k], e) => j = k
  BY <1>7, <1>10 DEF Proper
<1>c. \A k \in 1..Len(C) :
         \E j \in 1..Len(C) : C[j].index = C[k].index /\ Proper(C[j], e)
  <2> SUFFICES ASSUME NEW k \in 1..Len(C)
               PROVE  \E j \in 1..Len(C) : C[j].index = C[k].index /\ Proper(C[j], e)
    OBVIOUS
  <2>1. PICK j \in 1..Len(C) : Index(j) = Index(k) /\ (Index(j) = 0 \/ Form(j) = e)
    BY <1>11
  <2>2. C[j].index = Index(j) /\ C[j].infix = Form(j) /\ C[k].index = Index(k)
    BY <1>7
  <2>3. C[j].index = C[k].index /\ Proper(C[j], e)
    BY <2>1, <2>2, Zenon DEF Proper
  <2> QED
    BY <2>3
<1>d. \A k \in 1..Len(C) :
         C[k].index > 0 => \E j \in 1..Len(C) : C[j].index = C[k].index - 1
  BY <1>7, <1>12
<1>13. OrderedCandidates(C, e)
  BY <1>a, <1>b, <1>c, <1>d DEF OrderedCandidates
<1> QED
  BY <1>13 DEF C

----------------------------------------------------------------------------
(* Types, in two halves, and what each stage of the operation has done.     *)

LogType ==
    /\ slot \in [Slots -> Files \cup {NoFile}]
    /\ content \in [Files -> Seq(Lines)]
    /\ torn \in BOOLEAN
    /\ rotating \in Slots
    /\ rotations \in 0..MaxRotations

ScanType ==
    /\ opts \in Options
    /\ at_start \subseteq Lines
    /\ pc \in PCs
    /\ candidates \in Seq(Paths)
    /\ in \in [file : Files \cup {NoFile}, read : Nat]
    /\ out \in Seq([line : Lines, size : Nat])
    /\ total_size \in Nat
    /\ temp_exists \in BOOLEAN
    /\ temp_size \in 0..total_size
    /\ remove_failed \in BOOLEAN
    /\ close_failed \in BOOLEAN
    /\ chunks \in Seq([offset : 0..temp_size, size : Nat])
    /\ offset \in 0..temp_size
    /\ status \in Statuses
    /\ status = "none" <=> pc \notin {"failed", "stream_failed", "done"}

ReadInFile == pc = "read" => in.file \in Files /\ in.read <= Len(content[in.file])

Phases ==
    /\ pc \notin {"chunk", "stream_failed", "streamed", "eof", "done"} =>
          chunks = <<>> /\ offset = 0
    /\ pc = "begin" => out = <<>> /\ at_start = {} /\ ~temp_exists
    /\ pc = "open" => candidates # <<>>
    /\ ScanEnded => candidates = <<>>
    /\ pc \in {"next", "open", "read", "stream", "chunk", "streamed"} => temp_exists
    /\ pc = "eof" /\ ~opts.cleanup => temp_exists
    /\ pc \in {"failed", "stream_failed"} => status # "OK"
    /\ ScanEnded => (~close_failed => temp_size = total_size)

(* The steps to the end of StreamLogFilter: where they lead, and what they  *)
(* do with the temporary file.                                              *)
Fails(from, site, sts) ==
    /\ pc \in from
    /\ pc' = site
    /\ status' \in sts
    /\ UNCHANGED tempVars

Ends ==
    /\ UNCHANGED <<at_start, candidates, in, outVars, streamVars>>
    /\ \/ Fails({"begin"}, "done", Refusals)
       \/ Fails({"begin", "read"}, "failed", {"INTERNAL", "RESOURCE_EXHAUSTED"})
       \/ Fails({"next"}, "done", {"thrown"})
       \/ Fails({"stream", "chunk"}, "stream_failed", {"INTERNAL", "consumer"})
       \/ pc = "chunk" /\ Got <= 0 /\ pc' = "streamed" /\ UNCHANGED <<status, tempVars>>
       \/ pc \in {"failed", "stream_failed"} /\ pc' = "done" /\ UNCHANGED status /\ CleanUp
       \/ pc = "streamed" /\ pc' = "eof" /\ UNCHANGED status /\ CleanUp
       \/ pc = "eof" /\ pc' = "done" /\ status' = "OK" /\ CleanUp

(* The steps of the scan.                                                   *)
LEMMA ScanCases ==
    ASSUME Scan
    PROVE  /\ UNCHANGED <<logVars, opts>>
           /\ \/ Ends
              \/ Begin \/ Visit \/ Open \/ Skip \/ WriteLine \/ EndOfFile \/ Close
              \/ Reopen \/ Chunk
<1>1. ASSUME NEW st \in Refusals, Refuse(st)
      PROVE  Ends /\ UNCHANGED <<logVars, opts>>
  BY <1>1 DEF Refuse, Ends, Fails
<1>2. ASSUME CreateFails \/ ExistsThrows \/ LimitReached \/ WriteFails \/ ReopenFails
               \/ ConsumerFails
      PROVE  Ends /\ UNCHANGED <<logVars, opts>>
  BY <1>2 DEF CreateFails, ExistsThrows, LimitReached, WriteFails, HasLine, ReopenFails,
              ConsumerFails, FailAt, Ends, Fails
<1>3. ASSUME Streamed
      PROVE  Ends /\ UNCHANGED <<logVars, opts>>
  BY <1>3 DEF Streamed, Ends
<1>4. ASSUME FilterFailed \/ StreamFailed \/ StreamSucceeded \/ FillEof
      PROVE  Ends /\ UNCHANGED <<logVars, opts>>
  BY <1>4 DEF FilterFailed, StreamFailed, StreamSucceeded, FillEof, Return, Ends
<1>5. ASSUME Begin \/ Visit \/ Open \/ Skip \/ WriteLine \/ EndOfFile \/ Close
               \/ Reopen \/ Chunk
      PROVE  UNCHANGED <<logVars, opts>>
  BY <1>5 DEF Begin, Visit, Open, Skip, WriteLine, EndOfFile, Close, Reopen, Chunk
<1> QED
  BY <1>1, <1>2, <1>3, <1>4, <1>5 DEF Scan

(* The steps of the logger leave the scan alone.                            *)
LEMMA LoggerCases ==
    ASSUME Logger
    PROVE  UNCHANGED scanVars
  BY DEF Logger, WriteLog, FlushLog, BeginRotation, NothingToRename, RemoveTarget,
         Rename, NewBase

(* What the options are.                                                    *)
LEMMA OptionFacts ==
    ASSUME opts \in Options
    PROVE  /\ opts.include_rotations \in BOOLEAN
           /\ opts.depth \in Nat
           /\ opts.extension \in BOOLEAN
           /\ opts.cleanup \in BOOLEAN
           /\ opts.limit \in Nat /\ opts.limit < 2 * Int64Half
           /\ opts.chunk_size \in Nat /\ opts.chunk_size > 0
           /\ opts.spec \in Specs
<1>1. /\ opts.include_rotations \in BOOLEAN /\ opts.extension \in BOOLEAN
      /\ opts.cleanup \in BOOLEAN /\ opts.depth \in 0..MaxDepth
      /\ opts.limit \in Limits /\ opts.chunk_size \in ChunkSizes /\ opts.spec \in Specs
  BY DEF Options
<1>2. opts.depth \in Nat
  BY <1>1, ConstantFacts
<1>3. /\ opts.limit \in Nat /\ opts.limit < 2 * Int64Half
      /\ opts.chunk_size \in Nat /\ opts.chunk_size > 0
  BY <1>1, ConstantFacts
<1> QED
  BY <1>1, <1>2, <1>3

(* What the pieces of a line are.                                           *)
LEMMA PieceFacts ==
    ASSUME NEW l \in Lines, NEW whole \in BOOLEAN, NEW piece \in Pieces(l, whole)
    PROVE  /\ piece.line = l /\ piece.size \in Nat /\ piece.size <= Log[l].size
           /\ piece.text \subseteq Log[l].text
           /\ whole => piece.text = Log[l].text
<1>1. Log[l].size \in Nat
  BY LineFacts
<1>2. CASE whole
  BY <1>1, <1>2 DEF Pieces
<1>3. CASE ~whole
  BY <1>1, <1>3 DEF Pieces
<1> QED
  BY <1>2, <1>3

(* The line that getline reads next.                                        *)
LEMMA NextLineFacts ==
    ASSUME LogType, ScanType, ReadInFile, HasLine
    PROVE  /\ in.file \in Files
           /\ content[in.file] \in Seq(Lines)
           /\ in.read \in Nat /\ Len(content[in.file]) \in Nat
           /\ in.read + 1 \in 1..Len(content[in.file])
           /\ NextLine \in Lines
           /\ NextIsWhole \in BOOLEAN
<1>1. in.file \in Files /\ in.read \in Nat
  BY DEF ScanType, ReadInFile, HasLine
<1>2. content[in.file] \in Seq(Lines) /\ Len(content[in.file]) \in Nat
  BY <1>1 DEF LogType
<1>3. in.read + 1 \in 1..Len(content[in.file])
  BY <1>1, <1>2 DEF HasLine
<1>4. NextLine \in Lines
  BY <1>2, <1>3 DEF NextLine
<1> QED
  BY <1>1, <1>2, <1>3, <1>4 DEF NextIsWhole

(* The candidates of the operation are in order.                            *)
LEMMA AllCandidatesOrdered ==
    ASSUME opts \in Options
    PROVE  OrderedCandidates(AllCandidates, opts.extension)
<1>1. /\ opts.include_rotations \in BOOLEAN /\ opts.depth \in Nat
      /\ opts.extension \in BOOLEAN
  BY OptionFacts
<1> QED
  BY <1>1, CandidatesAre DEF AllCandidates

(* Lines in reach are lines of the log.                                     *)
LEMMA ReachIsLogged ==
    ASSUME LogType
    PROVE  LinesInReach \subseteq Lines
<1> SUFFICES ASSUME NEW l \in LinesInReach
             PROVE  l \in Lines
  OBVIOUS
<1>1. PICK i \in Slots : slot[i] # NoFile /\ l \in ToSet(content[slot[i]])
  BY DEF LinesInReach
<1>2. slot[i] \in Files
  BY <1>1 DEF LogType
<1>3. content[slot[i]] \in Seq(Lines)
  BY <1>2 DEF LogType
<1> QED
  BY <1>1, <1>3 DEF ToSet

(* The logger's state keeps its type.                                       *)
LEMMA LogTypeStep ==
    ASSUME LogType, Logger
    PROVE  LogType'
<1> USE DEF LogType
<1>a. /\ MaxFiles \in Nat /\ MaxFiles > 0 /\ MaxRotations \in Nat
      /\ 0 \in Slots /\ MaxFiles \in Slots /\ Slots \subseteq Nat
  BY ConstantFacts DEF Slots
<1>1. CASE WriteLog
  <2>1. slot[0] \in Files /\ NextWritten \in Lines
    BY <1>1, <1>a DEF WriteLog, LoggerIdle
  <2>2. Append(content[slot[0]], NextWritten) \in Seq(Lines)
    BY <2>1
  <2>3. content' \in [Files -> Seq(Lines)]
    BY <1>1, <2>1, <2>2 DEF WriteLog
  <2> QED
    BY <1>1, <2>3 DEF WriteLog
<1>2. CASE FlushLog
  BY <1>2 DEF FlushLog
<1>3. CASE BeginRotation
  <2>1. rotations' \in 0..MaxRotations
    BY <1>3, <1>a DEF BeginRotation
  <2> QED
    BY <1>3, <1>a, <2>1 DEF BeginRotation
<1>4. CASE NothingToRename
  BY <1>4, <1>a DEF NothingToRename, Slots
<1>5. CASE RemoveTarget
  BY <1>5 DEF RemoveTarget
<1>6. CASE Rename
  <2>1. rotating \in Slots /\ rotating - 1 \in Slots
    BY <1>6, <1>a DEF Rename, Slots
  <2>2. slot[rotating - 1] \in Files
    BY <1>6, <2>1 DEF Rename
  <2> QED
    BY <1>6, <2>1, <2>2 DEF Rename
<1>7. CASE NewBase
  <2>1. MaxFiles + 1 + rotations \in Files
    BY <1>a DEF Files
  <2> QED
    BY <1>7, <1>a, <2>1 DEF NewBase
<1> QED
  BY <1>1, <1>2, <1>3, <1>4, <1>5, <1>6, <1>7 DEF Logger

(* The operation's state keeps its type.                                    *)
LEMMA ScanTypeStep ==
    ASSUME LogType, ScanType, ReadInFile, Phases, Scan
    PROVE  ScanType'
<1> USE DEF ScanType, outVars, tempVars, streamVars
<1>a. UNCHANGED opts
  BY ScanCases
<1>1. CASE Ends
  <2>1. UNCHANGED <<at_start, candidates, in, out, total_size, temp_size, close_failed, chunks,
                    offset>>
    BY <1>1 DEF Ends
  <2>2. /\ pc' \in PCs /\ status' \in Statuses
        /\ status' = "none" <=> pc' \notin {"failed", "stream_failed", "done"}
    BY <1>1 DEF Ends, Fails, PCs, Statuses, Refusals
  <2>3. temp_exists' \in BOOLEAN /\ remove_failed' \in BOOLEAN
    BY <1>1 DEF Ends, Fails, CleanUp
  <2> QED
    BY <1>a, <2>1, <2>2, <2>3
<1>2. CASE Begin
  <2>1. candidates' \in Seq(Paths)
    BY <1>2, AllCandidatesOrdered DEF Begin, AllCandidates, OrderedCandidates
  <2>2. at_start' \subseteq Lines
    BY <1>2, ReachIsLogged DEF Begin
  <2> QED
    BY <1>2, <2>1, <2>2 DEF Begin, PCs
<1>3. CASE Visit
  <2>1. Tail(candidates) \in Seq(Paths)
    BY <1>3 DEF Visit
  <2> QED
    BY <1>3, <2>1 DEF Visit, PCs
<1>4. CASE Open
  <2>1. Tail(candidates) \in Seq(Paths)
    BY <1>4 DEF Open, Phases
  <2>2. FileAt(Head(candidates)) \in Files \cup {NoFile}
    BY DEF FileAt, LogType
  <2>3. in' \in [file : Files \cup {NoFile}, read : Nat] /\ pc' \in {"next", "read"}
    BY <1>4, <2>2 DEF Open
  <2> QED
    BY <1>4, <2>1, <2>3 DEF Open, PCs
<1>5. ASSUME GetLine, pc = "read"
      PROVE  /\ in' \in [file : Files \cup {NoFile}, read : Nat]
             /\ pc' \in {"next", "read"}
  <2>1. CASE NextIsWhole
    <3>1. in \in [file : Files \cup {NoFile}, read : Nat]
      OBVIOUS
    <3>2. in' = [in EXCEPT !.read = @ + 1] /\ pc' = pc
      BY <1>5, <2>1 DEF GetLine
    <3>3. [in EXCEPT !.read = @ + 1] \in [file : Files \cup {NoFile}, read : Nat]
      <4> HIDE DEF ScanType
      <4> QED
        BY <3>1
    <3> QED
      BY <1>5, <3>2, <3>3
  <2>2. CASE ~NextIsWhole
    BY <1>5, <2>2 DEF GetLine, Closed
  <2> QED
    BY <2>1, <2>2
<1>6. CASE Skip
  BY <1>5, <1>6 DEF Skip, HasLine, PCs
<1>7. CASE WriteLine
  <2>1. NextLine \in Lines /\ NextIsWhole \in BOOLEAN
    BY <1>7, NextLineFacts DEF WriteLine
  <2>2. PICK piece \in Pieces(NextLine, NextIsWhole) :
           /\ out' = Append(out, [line |-> piece.line, size |-> piece.size])
           /\ total_size' = total_size + piece.size
    BY <1>7 DEF WriteLine
  <2>3. piece.line \in Lines /\ piece.size \in Nat
    BY <2>1, PieceFacts
  <2>4. out' \in Seq([line : Lines, size : Nat])
    BY <2>2, <2>3
  <2>5. total_size' \in Nat /\ temp_size \in 0..total_size'
    BY <2>2, <2>3
  <2> QED
    BY <1>5, <1>7, <2>4, <2>5 DEF WriteLine, HasLine, PCs
<1>8. CASE EndOfFile
  BY <1>8 DEF EndOfFile, Closed, PCs
<1>9. CASE Close
  <2>1. chunks = <<>> /\ offset = 0
    BY <1>9 DEF Close, Phases
  <2>2. temp_size' \in 0..total_size /\ close_failed' \in BOOLEAN
    BY <1>9 DEF Close
  <2>3. chunks' \in Seq([offset : 0..temp_size', size : Nat]) /\ offset' \in 0..temp_size'
    BY <1>9, <2>1, <2>2 DEF Close
  <2> QED
    BY <1>9, <2>2, <2>3 DEF Close, PCs
<1>10. CASE Reopen
  BY <1>10 DEF Reopen, PCs
<1>11. CASE Chunk
  <2>1. Got \in Nat /\ offset + Got <= temp_size
    BY <1>11, OptionFacts DEF Chunk, Got
  <2>2. offset' \in 0..temp_size
    BY <1>11, <2>1 DEF Chunk, OffsetAfter
  <2>3. chunks' \in Seq([offset : 0..temp_size, size : Nat])
    BY <1>11, <2>1 DEF Chunk
  <2> QED
    BY <1>11, <2>2, <2>3 DEF Chunk
<1> QED
  BY <1>1, <1>2, <1>3, <1>4, <1>6, <1>7, <1>8, <1>9, <1>10, <1>11, ScanCases

(* The read position stays within the open file, which only grows.          *)
LEMMA ReadInFileStep ==
    ASSUME LogType, ScanType, ReadInFile, Next
    PROVE  ReadInFile'
<1>1. CASE Scan
  <2>a. UNCHANGED content
    BY <1>1, ScanCases DEF logVars
  <2>1. CASE Ends
    BY <2>1 DEF Ends, Fails, ReadInFile
  <2>2. CASE Begin \/ Visit \/ EndOfFile \/ Close \/ Reopen \/ Chunk
    BY <2>2, <2>a DEF Begin, Visit, EndOfFile, Close, Reopen, Chunk, ReadInFile
  <2>3. CASE Open
    <3>1. FileAt(Head(candidates)) \in Files \cup {NoFile}
      BY DEF FileAt, LogType
    <3>2. \A f \in Files : Len(content[f]) \in Nat
      BY DEF LogType
    <3> QED
      BY <2>3, <2>a, <3>1, <3>2 DEF Open, ReadInFile
  <2>4. CASE Skip \/ WriteLine
    <3>1. HasLine /\ GetLine
      BY <2>4 DEF Skip, WriteLine
    <3>2. in.file \in Files /\ in.read + 1 <= Len(content[in.file])
      BY <3>1, NextLineFacts
    <3> QED
      BY <2>a, <3>1, <3>2 DEF GetLine, HasLine, ReadInFile, ScanType
  <2> QED
    BY <1>1, <2>1, <2>2, <2>3, <2>4, ScanCases
<1>2. CASE Logger
  <2>1. UNCHANGED <<pc, in>>
    BY <1>2, LoggerCases DEF scanVars
  <2>2. CASE content' = content
    BY <2>1, <2>2 DEF ReadInFile
  <2>3. CASE WriteLog
    <3>1. 0 \in Slots
      BY ConstantFacts DEF Slots
    <3>2. slot[0] \in Files
      BY <2>3, <3>1 DEF WriteLog, LoggerIdle, LogType
    <3>3. ASSUME NEW f \in Files
          PROVE  Len(content[f]) \in Nat /\ Len(content'[f]) \in Nat /\ Len(content[f]) <= Len(content'[f])
      <4>1. content[f] \in Seq(Lines)
        BY DEF LogType
      <4>2. content'[f] = content[f] \/ content'[f] = Append(content[f], NextWritten)
        BY <2>3, <3>2 DEF WriteLog, LogType
      <4>3. NextWritten \in Lines
        BY <2>3 DEF WriteLog
      <4>4. Len(Append(content[f], NextWritten)) = Len(content[f]) + 1
        BY <4>1, <4>3, AppendProperties
      <4> QED
        BY <4>1, <4>2, <4>4
    <3> QED
      BY <2>1, <3>3 DEF ReadInFile, ScanType
  <2> QED
    BY <1>2, <2>2, <2>3 DEF Logger, FlushLog, BeginRotation, NothingToRename, RemoveTarget,
                            Rename, NewBase
<1> QED
  BY <1>1, <1>2 DEF Next

(* Each stage leaves what the next one relies on.                           *)
LEMMA PhasesStep ==
    ASSUME LogType, ScanType, Phases, Scan
    PROVE  Phases'
<1> USE DEF Phases, ScanEnded, outVars, tempVars, streamVars
<1>o. opts' = opts
  BY ScanCases
<1>1. CASE Ends
  <2>1. UNCHANGED <<candidates, temp_size, total_size, close_failed, chunks, offset>>
    BY <1>1 DEF Ends
  <2>2. /\ pc' \in {"failed", "stream_failed", "streamed", "eof", "done"}
        /\ pc' = "failed" => pc \in {"begin", "read"}
        /\ ScanEnded' => ScanEnded
        /\ pc' \in {"failed", "stream_failed"} => status' # "OK"
    BY <1>1 DEF Ends, Fails, ScanType, Refusals
  <2>3. /\ pc' = "streamed" => temp_exists'
        /\ pc' = "eof" /\ ~opts.cleanup => temp_exists'
    BY <1>1 DEF Ends, Fails, CleanUp
  <2> QED
    BY <1>o, <2>1, <2>2, <2>3
<1>2. CASE Begin
  BY <1>2 DEF Begin, ScanType
<1>3. CASE Visit
  BY <1>3 DEF Visit, ScanType
<1>4. CASE Open
  BY <1>4 DEF Open, ScanType
<1>5. CASE Skip
  BY <1>5 DEF Skip, HasLine, GetLine, ScanType
<1>6. CASE WriteLine
  BY <1>6 DEF WriteLine, HasLine, GetLine, ScanType
<1>7. CASE EndOfFile
  BY <1>7 DEF EndOfFile, ScanType
<1>8. CASE Close
  <2>1. ~close_failed' => temp_size' = total_size
    BY <1>8 DEF Close
  <2> QED
    BY <1>8, <2>1 DEF Close, ScanType
<1>9. CASE Reopen
  BY <1>9 DEF Reopen, ScanType
<1>10. CASE Chunk
  BY <1>10 DEF Chunk, ScanType
<1> QED
  BY <1>1, <1>2, <1>3, <1>4, <1>5, <1>6, <1>7, <1>8, <1>9, <1>10, ScanCases

(* The candidates left are the last ones of the list.                       *)
LEMMA RemainingStep ==
    ASSUME ScanType, Phases, Remaining, Scan
    PROVE  Remaining'
<1>a. UNCHANGED AllCandidates
  BY ScanCases DEF AllCandidates
<1>b. AllCandidates \in Seq(Paths) /\ Len(AllCandidates) \in Nat
  BY AllCandidatesOrdered DEF ScanType, OrderedCandidates
<1>1. CASE candidates' = candidates
  BY <1>1, <1>a DEF Remaining, Visited
<1>2. CASE Begin
  <2>1. candidates' = AllCandidates
    BY <1>2 DEF Begin, AllCandidates
  <2> QED
    BY <1>a, <1>b, <2>1 DEF Remaining, Visited
<1>3. ASSUME candidates # <<>>, candidates' = Tail(candidates)
      PROVE  Remaining'
  <2>1. candidates \in Seq(Paths)
    BY DEF ScanType
  <2>2. /\ Len(candidates) \in Nat /\ Len(candidates) > 0
        /\ Len(candidates') = Len(candidates) - 1
        /\ \A k \in 1..Len(candidates') : candidates'[k] = candidates[k + 1]
    BY <1>3, <2>1
  <2>3. Visited' = Visited + 1
    BY <1>a, <1>b, <2>2 DEF Visited
  <2>4. Visited \in Int
    BY <1>b, <2>2 DEF Visited
  <2>5. ASSUME NEW k \in 1..Len(candidates')
        PROVE  candidates'[k] = AllCandidates[Visited' + k]
    <3>1. k + 1 \in 1..Len(candidates) /\ Visited + (k + 1) = Visited' + k
      BY <2>2, <2>3, <2>4
    <3> QED
      BY <2>2, <3>1 DEF Remaining
  <2> QED
    BY <1>a, <1>b, <2>2, <2>5 DEF Remaining
<1>4. Ends => candidates' = candidates
  BY DEF Ends
<1>5. Skip \/ WriteLine \/ EndOfFile \/ Close \/ Reopen \/ Chunk => candidates' = candidates
  BY DEF Skip, WriteLine, EndOfFile, Close, Reopen, Chunk
<1>6. Visit => candidates' = candidates \/ (candidates # <<>> /\ candidates' = Tail(candidates))
  BY DEF Visit
<1>7. Open => candidates # <<>> /\ candidates' = Tail(candidates)
  BY DEF Open, Phases
<1> QED
  BY <1>1, <1>2, <1>3, <1>4, <1>5, <1>6, <1>7, ScanCases

(* The chunks delivered so far reach from 0 to the offset of StreamFile.    *)
ChunkChain ==
    /\ \A k \in DOMAIN chunks : chunks[k].offset = EndOfChunk(k - 1)
    /\ EndOfChunk(Len(chunks)) = offset
    /\ pc \in {"streamed", "eof"} \/ status = "OK" => offset = temp_size

(* The chunks follow each other, up to the offset of StreamFile.            *)
LEMMA ChunkChainStep ==
    ASSUME ScanType, Phases, ChunkChain, Scan
    PROVE  ChunkChain'
<1>1. ASSUME UNCHANGED <<chunks, offset>>, status' # "OK", pc' \notin {"streamed", "eof"}
      PROVE  ChunkChain'
  BY <1>1 DEF ChunkChain, EndOfChunk
<1>2. CASE Ends
  <2>1. UNCHANGED <<chunks, offset, temp_size>>
    BY <1>2 DEF Ends, outVars, streamVars
  <2>2. ASSUME pc' \in {"streamed", "eof"} \/ status' = "OK"
        PROVE  Got <= 0 \/ pc \in {"streamed", "eof"} \/ status = "OK"
    BY <1>2, <2>2 DEF Ends, Fails, Refusals
  <2>3. Got <= 0 => offset = temp_size
    BY OptionFacts DEF Got, ScanType
  <2> QED
    BY <2>1, <2>2, <2>3 DEF ChunkChain, EndOfChunk
<1>3. CASE Chunk
  <2> DEFINE c == [offset |-> offset, size |-> Got]
             S == [offset : 0..temp_size, size : Nat]
  <2>a. chunks \in Seq(S)
    BY DEF ScanType
  <2>b. PICK n \in Nat : n = Len(chunks)
    BY <2>a
  <2>1. chunks \in Seq(S) /\ n \in Nat /\ n = Len(chunks)
    BY <2>a, <2>b
  <2>2. Got \in Nat /\ c \in S
    BY <1>3, OptionFacts DEF Chunk, Got, ScanType
  <2>3. chunks' = Append(chunks, c) /\ offset' = offset + Got /\ status' = status /\ pc = "chunk"
        /\ pc' = pc
    BY <1>3 DEF Chunk, OffsetAfter
  <2> HIDE DEF S, c
  <2>4. /\ Len(chunks') = n + 1 /\ DOMAIN chunks' = 1..(n + 1)
        /\ \A k \in 1..n : chunks'[k] = chunks[k]
        /\ chunks'[n + 1] = c
    BY <2>1, <2>2, <2>3
  <2>5. \A k \in 0..n : EndOfChunk(k)' = EndOfChunk(k)
    <3>1. ASSUME NEW k \in 0..n
          PROVE  (IF k = 0 THEN 0 ELSE chunks'[k].offset + chunks'[k].size)
                   = IF k = 0 THEN 0 ELSE chunks[k].offset + chunks[k].size
      BY <2>1, <2>4
    <3> QED
      BY <3>1 DEF EndOfChunk
  <2>6. c.offset = offset /\ c.size = Got
    BY DEF c
  <2>7. chunks'[n + 1].offset = EndOfChunk(n)'
    <3>1. EndOfChunk(n)' = EndOfChunk(n) /\ EndOfChunk(n) = offset
      BY <2>1, <2>5 DEF ChunkChain
    <3> QED
      BY <2>4, <2>6, <3>1
  <2>8. ASSUME NEW k \in 1..n
        PROVE  chunks'[k].offset = EndOfChunk(k - 1)'
    <3>1. k \in DOMAIN chunks /\ k - 1 \in 0..n
      BY <2>1
    <3>2. chunks[k].offset = EndOfChunk(k - 1) /\ chunks'[k] = chunks[k]
      BY <2>4, <3>1 DEF ChunkChain
    <3>3. EndOfChunk(k - 1)' = EndOfChunk(k - 1)
      BY <2>5, <3>1
    <3> QED
      BY <3>2, <3>3
  <2>9. n + 1 # 0 /\ (n + 1) - 1 = n
    BY <2>1
  <2>10. \A k \in DOMAIN chunks' : chunks'[k].offset = EndOfChunk(k - 1)'
    <3> SUFFICES ASSUME NEW k \in 1..(n + 1)
                 PROVE  chunks'[k].offset = EndOfChunk(k - 1)'
      BY <2>4
    <3>1. CASE k = n + 1
      BY <2>7, <2>9, <3>1
    <3>2. CASE k # n + 1
      <4>1. k \in 1..n
        BY <2>1, <3>2
      <4> QED
        BY <2>8, <4>1
    <3> QED
      BY <3>1, <3>2
  <2>11. EndOfChunk(Len(chunks))' = offset'
    <3>1. EndOfChunk(Len(chunks))' = chunks'[n + 1].offset + chunks'[n + 1].size
      BY <2>4, <2>9 DEF EndOfChunk
    <3> QED
      BY <2>3, <2>4, <2>6, <3>1
  <2>12. status' # "OK" /\ pc' = "chunk"
    BY <2>3 DEF ScanType
  <2> QED
    BY <2>10, <2>11, <2>12 DEF ChunkChain
<1>4. CASE Reopen
  BY <1>1, <1>4 DEF Reopen, Phases, ScanType
<1>5. CASE Begin \/ Visit \/ Open \/ Skip \/ WriteLine \/ EndOfFile \/ Close
  <2>1. /\ UNCHANGED <<chunks, offset, status>>
        /\ pc \notin {"failed", "stream_failed", "done"} /\ pc' \notin {"streamed", "eof"}
    BY <1>5 DEF Begin, Visit, Open, Skip, WriteLine, HasLine, GetLine, EndOfFile, Close, streamVars
  <2> QED
    BY <1>1, <2>1 DEF ScanType
<1> QED
  BY <1>2, <1>3, <1>4, <1>5, ScanCases

(* The output does not exceed the limit.                                    *)
WithinLimit == opts.limit # 0 => total_size <= opts.limit

(* A limit does not grow when it is made an int64, and one that fits stays. *)
LEMMA LimitFacts ==
    ASSUME opts \in Options
    PROVE  /\ ToInt64(opts.limit) \in Int /\ ToInt64(opts.limit) <= opts.limit
           /\ opts.limit < Int64Half => ToInt64(opts.limit) = opts.limit
<1>1. opts.limit \in Nat /\ Int64Half \in Nat
  BY OptionFacts, ConstantFacts
<1> QED
  BY <1>1 DEF ToInt64

(* The output never exceeds the limit of the operation.                     *)
LEMMA WithinLimitStep ==
    ASSUME LogType, ScanType, ReadInFile, WithinLimit, Scan
    PROVE  WithinLimit'
<1>a. UNCHANGED opts
  BY ScanCases
<1>1. CASE total_size' = total_size
  BY <1>1, <1>a DEF WithinLimit
<1>2. CASE WriteLine
  <2>1. PICK piece \in Pieces(NextLine, NextIsWhole) :
           enforce_limit(piece.size) /\ total_size' = total_size + piece.size
    BY <1>2 DEF WriteLine
  <2>2. piece.size \in Nat
    BY <1>2, NextLineFacts, PieceFacts DEF WriteLine
  <2>3. opts.limit # 0 => total_size + piece.size <= ToInt64(opts.limit)
    BY <2>1 DEF enforce_limit
  <2>4. /\ opts \in Options /\ total_size \in Nat
        /\ ToInt64(opts.limit) \in Int /\ ToInt64(opts.limit) <= opts.limit
    BY LimitFacts DEF ScanType
  <2>5. opts.limit \in Nat
    BY <2>4, OptionFacts
  <2> QED
    BY <1>a, <2>1, <2>2, <2>3, <2>4, <2>5 DEF WithinLimit
<1>3. Ends => total_size' = total_size
  BY DEF Ends, outVars
<1>4. Begin \/ Visit \/ Open \/ Skip \/ EndOfFile \/ Close \/ Reopen \/ Chunk
        => total_size' = total_size
  BY DEF Begin, Visit, Open, Skip, EndOfFile, Close, Reopen, Chunk, outVars
<1> QED
  BY <1>1, <1>2, <1>3, <1>4, ScanCases

(* The temporary file goes on every way out, if it is to go.                *)
LEMMA TempFileFateStep ==
    ASSUME ScanType, Phases, TempFileFate, Scan
    PROVE  TempFileFate'
<1>a. UNCHANGED opts
  BY ScanCases
<1>b. opts.cleanup \in BOOLEAN
  BY OptionFacts DEF ScanType
<1>1. CASE Ends
  <2>1. CASE Fails({"begin"}, "done", Refusals)
    BY <1>a, <2>1 DEF Fails, Refusals, Phases, TempFileFate, tempVars
  <2>2. CASE Fails({"next"}, "done", {"thrown"})
    BY <2>2 DEF Fails, TempFileFate
  <2>3. CASE pc \in {"failed", "stream_failed"} /\ UNCHANGED status /\ CleanUp
    <3>1. pc = "done" \/ status' # "OK" \/ temp_exists' \/ opts.cleanup
      BY <2>3 DEF Statuses, ScanType, Phases
    <3> QED
      BY <1>a, <1>b, <2>3, <3>1 DEF CleanUp, TempFileFate
  <2>4. CASE pc = "eof" /\ status' = "OK" /\ CleanUp
    BY <1>a, <1>b, <2>4 DEF CleanUp, TempFileFate, Phases, tempVars
  <2>5. CASE pc' # "done"
    BY <2>5 DEF TempFileFate
  <2> QED
    BY <1>1, <2>1, <2>2, <2>3, <2>4, <2>5 DEF Ends, Fails
<1>2. CASE Begin \/ Visit \/ Open \/ Skip \/ WriteLine \/ EndOfFile \/ Close
             \/ Reopen \/ Chunk
  <2>1. pc' # "done"
    BY <1>2 DEF Begin, Visit, Open, Skip, WriteLine, HasLine, GetLine, EndOfFile, Close,
                Reopen, Chunk
  <2> QED
    BY <2>1 DEF TempFileFate
<1> QED
  BY <1>1, <1>2, ScanCases

----------------------------------------------------------------------------
(* The invariant of the operation by itself.  Types alone are not           *)
(* inductive: the read position needs its file to only grow, the offset     *)
(* needs Phases (the temporary file has its size before StreamFile starts), *)
(* and the chunks need to reach exactly to the offset.                      *)
ScanInv ==
    /\ LogType /\ ScanType /\ ReadInFile
    /\ Phases /\ Remaining /\ ChunkChain /\ WithinLimit /\ TempFileFate

(* It holds at first.                                                       *)
LEMMA ScanInit ==
    ASSUME Init
    PROVE  ScanInv
<1>a. MaxFiles \in Nat /\ MaxRotations \in Nat /\ Len(Log) > MaxFiles /\ Lines = 1..Len(Log)
      /\ Len(Log) \in Nat /\ MaxFiles > 0
  BY ConstantFacts
<1>b. opts \in Options
  BY DEF Init
<1>1. LogType
  <2>1. PICK n \in Slots :
           /\ slot = [i \in Slots |-> IF i <= n THEN i + 1 ELSE NoFile]
           /\ content = [f \in Files |-> IF f <= n + 1 THEN <<n + 2 - f>> ELSE <<>>]
    BY DEF Init
  <2>2. \A i \in Slots : i <= n => i + 1 \in Files
    BY <1>a DEF Slots, Files
  <2>3. slot \in [Slots -> Files \cup {NoFile}]
    BY <2>1, <2>2
  <2>4. ASSUME NEW f \in Files
        PROVE  (IF f <= n + 1 THEN <<n + 2 - f>> ELSE <<>>) \in Seq(Lines)
    <3>1. f <= n + 1 => n + 2 - f \in Lines
      BY <1>a DEF Slots, Files
    <3> QED
      BY <3>1
  <2>5. content \in [Files -> Seq(Lines)]
    BY <2>1, <2>4
  <2>6. torn = FALSE /\ rotating = 0 /\ rotations = 0 /\ 0 \in Slots /\ 0 \in 0..MaxRotations
    BY <1>a DEF Init, Slots
  <2>7. torn \in BOOLEAN /\ rotating \in Slots /\ rotations \in 0..MaxRotations
    BY <2>6
  <2> QED
    BY <2>3, <2>5, <2>7 DEF LogType
<1>2. ScanType
  <2>1. /\ at_start = {} /\ candidates = <<>> /\ out = <<>> /\ chunks = <<>>
        /\ total_size = 0 /\ temp_size = 0 /\ offset = 0
        /\ temp_exists = FALSE /\ remove_failed = FALSE
        /\ close_failed = FALSE /\ pc = "begin" /\ status = "none"
        /\ in = [file |-> NoFile, read |-> 0]
    BY DEF Init
  <2>2. total_size \in Nat /\ temp_size \in 0..total_size /\ offset \in 0..temp_size
    BY <2>1
  <2>3. /\ candidates \in Seq(Paths) /\ out \in Seq([line : Lines, size : Nat])
        /\ chunks \in Seq([offset : 0..temp_size, size : Nat])
        /\ in \in [file : Files \cup {NoFile}, read : Nat]
    BY <2>1
  <2>4. /\ pc \in PCs /\ status \in Statuses
        /\ status = "none" <=> pc \notin {"failed", "stream_failed", "done"}
        /\ temp_exists \in BOOLEAN /\ remove_failed \in BOOLEAN
        /\ close_failed \in BOOLEAN /\ at_start \subseteq Lines
    BY <2>1 DEF PCs, Statuses
  <2> QED
    BY <1>b, <2>2, <2>3, <2>4 DEF ScanType
<1>3. ReadInFile /\ Phases /\ TempFileFate
  BY DEF Init, ReadInFile, Phases, ScanEnded, TempFileFate
<1>4. Remaining
  <2>1. Len(AllCandidates) \in Nat
    BY <1>b, AllCandidatesOrdered DEF OrderedCandidates
  <2>2. Len(candidates) = 0
    BY DEF Init
  <2> QED
    BY <2>1, <2>2 DEF Remaining
<1>5. ChunkChain
  <2>1. chunks = <<>> /\ offset = 0 /\ status = "none" /\ pc = "begin"
    BY DEF Init
  <2> QED
    BY <2>1 DEF ChunkChain, EndOfChunk
<1>6. WithinLimit
  BY <1>b, OptionFacts DEF Init, WithinLimit
<1> QED
  BY <1>1, <1>2, <1>3, <1>4, <1>5, <1>6 DEF ScanInv

(* It is kept by every step.                                                *)
LEMMA ScanInvStep ==
    ASSUME ScanInv, [Next]_vars
    PROVE  ScanInv'
<1> USE DEF ScanInv
<1>1. CASE Scan
  <2>1. LogType'
    BY <1>1, ScanCases DEF LogType, logVars
  <2>2. ReadInFile'
    BY <1>1, ReadInFileStep DEF Next
  <2> QED
    BY <1>1, <2>1, <2>2, ScanTypeStep, PhasesStep, RemainingStep, ChunkChainStep,
       WithinLimitStep, TempFileFateStep
<1>2. CASE Logger
  <2>1. UNCHANGED scanVars
    BY <1>2, LoggerCases
  <2>2. ReadInFile'
    BY <1>2, ReadInFileStep DEF Next
  <2>3. ScanType' /\ Phases' /\ TempFileFate' /\ WithinLimit'
    BY <2>1 DEF scanVars, outVars, tempVars, streamVars, ScanType, Phases, ScanEnded,
               TempFileFate, WithinLimit
  <2>4. Remaining' /\ ChunkChain'
    BY <2>1 DEF scanVars, outVars, streamVars, Remaining, Visited, AllCandidates, ChunkChain,
               EndOfChunk
  <2> QED
    BY <1>2, <2>2, <2>3, <2>4, LogTypeStep
<1>3. CASE UNCHANGED vars
  <2>1. UNCHANGED <<logVars, scanVars>>
    BY <1>3 DEF vars, scanVars
  <2>2. LogType' /\ ReadInFile' /\ ScanType' /\ Phases' /\ TempFileFate' /\ WithinLimit'
    BY <2>1 DEF logVars, scanVars, outVars, tempVars, streamVars, LogType, ReadInFile,
               ScanType, Phases, ScanEnded, TempFileFate, WithinLimit
  <2>3. Remaining' /\ ChunkChain'
    BY <2>1 DEF scanVars, outVars, streamVars, Remaining, Visited, AllCandidates, ChunkChain,
               EndOfChunk
  <2> QED
    BY <2>2, <2>3
<1> QED
  BY <1>1, <1>2, <1>3 DEF Next

(* ScanInv is an invariant.                                                 *)
THEOREM ScanInvariance == Spec => []ScanInv
<1>1. Init => ScanInv
  BY ScanInit
<1>2. ScanInv /\ [Next]_vars => ScanInv'
  BY ScanInvStep
<1> QED
  BY <1>1, <1>2, PTL DEF Spec

(* The variables of StreamLogFilter keep their types: the read position     *)
(* stays within the open file while the logger writes to it, and the offset *)
(* of StreamFile within the temporary file.                                 *)
THEOREM TypeCorrect == Spec => []TypeOK
<1>1. ScanInv => TypeOK
  BY DEF ScanInv, LogType, ScanType, ReadInFile, Paths, TypeOK
<1> QED
  BY <1>1, ScanInvariance, PTL

(* On every way out of StreamLogFilter, through each of the four places     *)
(* that remove the temporary file, it is gone if it is to go, unless        *)
(* fs::remove has failed; only an exception of fs::exists leaves it behind. *)
THEOREM TempFileIsCleaned == Spec => []TempFileFate
<1>1. ScanInv => TempFileFate
  BY DEF ScanInv
<1> QED
  BY <1>1, ScanInvariance, PTL

(* The chunks of StreamFile leave no gap and do not overlap for any file    *)
(* and chunk size, and on success add up to the size that the EOF states,   *)
(* unless out.close() failed unnoticed.                                     *)
THEOREM ChunksCoverFile == Spec => []ChunksMatchEof
<1>1. ScanInv => ChunksMatchEof
  BY DEF ScanInv, ScanType, Phases, ScanEnded, ChunkChain, ChunksMatchEof
<1> QED
  BY <1>1, ScanInvariance, PTL

----------------------------------------------------------------------------
(* Which lines are selected.  TimestampLess compares two fields, the order  *)
(* it stands for is that of one number.                                     *)
LEMMA LaterSecond ==
    ASSUME NEW s \in Int, NEW t \in Int, NEW N \in Nat, s < t
    PROVE  s * N + N <= t * N
<1> DEFINE d == t - (s + 1)
<1>1. d \in Nat /\ t = (s + 1) + d
  OBVIOUS
<1> HIDE DEF d
<1>2. s * N \in Int /\ d * N \in Int /\ d * N >= 0
  BY <1>1
<1>3. ((s + 1) + d) * N = s * N + N + d * N
  BY <1>1
<1>4. t * N = s * N + N + d * N
  BY <1>1, <1>3
<1> QED
  BY <1>2, <1>4

(* TimestampLess is the order of TimeOf on normalised timestamps.           *)
LEMMA TimeOrder ==
    ASSUME NEW a, NEW b,
           a.seconds \in Int, b.seconds \in Int,
           a.nanos \in 0..(NanosPerSecond - 1), b.nanos \in 0..(NanosPerSecond - 1)
    PROVE  ~TimestampLess(a, b) <=> TimeOf(b) <= TimeOf(a)
<1> DEFINE N == NanosPerSecond
           s == a.seconds * N
           t == b.seconds * N
<1>1. N \in Nat
  BY ConstantFacts
<1>2. s \in Int /\ t \in Int
  BY <1>1
<1>3. a.seconds < b.seconds => s + N <= t
  BY <1>1, LaterSecond
<1>4. b.seconds < a.seconds => t + N <= s
  BY <1>1, LaterSecond
<1>5. a.seconds = b.seconds => s = t
  OBVIOUS
<1>6. TimeOf(a) = s + a.nanos /\ TimeOf(b) = t + b.nanos
  BY DEF TimeOf
<1>7. a.nanos \in Int /\ b.nanos \in Int /\ a.nanos >= 0 /\ b.nanos >= 0 /\ a.nanos < N /\ b.nanos < N
  BY <1>1
<1> HIDE DEF s, t, N
<1> QED
  BY <1>1, <1>2, <1>3, <1>4, <1>5, <1>6, <1>7 DEF TimestampLess

(* The time that is read from a line is the time at which it was logged,    *)
(* short of what is below the millisecond.                                  *)
LEMMA ParsedTime ==
    ASSUME NEW l \in Lines
    PROVE  /\ ParsedLine(l).ts.seconds \in Int
           /\ ParsedLine(l).ts.nanos \in 0..(NanosPerSecond - 1)
           /\ TimeOf(ParsedLine(l).ts) \in Int /\ WallTime(l) \in Int
           /\ TimeOf(ParsedLine(l).ts) <= WallTime(l)
           /\ WallTime(l) <= TimeOf(ParsedLine(l).ts) + NanosPerMilli - 1
<1> DEFINE s == Log[l].seconds
           n == Log[l].nanos
           z == ZoneOffset
           N == NanosPerSecond
           m == NanosPerMilli
           r == n % m
<1>1. /\ s \in Int /\ n \in Nat /\ n <= N - 1 /\ z \in Int
      /\ N \in Nat /\ N > 0 /\ m \in Nat /\ m > 0
  <2>1. s \in Int /\ n \in 0..(N - 1)
    BY LineFacts
  <2>2. N \in Nat /\ N > 0 /\ m \in Nat /\ m > 0
    BY ConstantFacts
  <2>3. z \in Int
    BY LogScanAssumption
  <2> HIDE DEF s, n, z, N, m
  <2> QED
    BY <2>1, <2>2, <2>3
<1>2. ParsedLine(l).ts.seconds = s + z /\ ParsedLine(l).ts.nanos = n - r
  BY DEF ParsedLine
<1> HIDE DEF s, n, z, N, m
<1>3. r \in 0..(m - 1) /\ r <= n
  BY <1>1
<1> HIDE DEF r
<1>4. (s + z) * N = s * N + z * N /\ s * N \in Int /\ z * N \in Int
  BY <1>1
<1>5. TimeOf(ParsedLine(l).ts) = (s + z) * N + (n - r)
  BY <1>2 DEF TimeOf, N
<1>6. WallTime(l) = s * N + n + z * N
  BY DEF WallTime, TimeOf, s, n, z, N
<1>7. /\ ParsedLine(l).ts.seconds \in Int
      /\ ParsedLine(l).ts.nanos \in 0..(N - 1)
  BY <1>1, <1>2, <1>3
<1>8. /\ TimeOf(ParsedLine(l).ts) \in Int /\ WallTime(l) \in Int
      /\ TimeOf(ParsedLine(l).ts) <= WallTime(l)
      /\ WallTime(l) <= TimeOf(ParsedLine(l).ts) + m - 1
  BY <1>1, <1>3, <1>4, <1>5, <1>6
<1> QED
  BY <1>7, <1>8 DEF N, m

(* A line passes the filters, whole or in part, only if it is admitted, and *)
(* a wanted line that is whole passes them.                                 *)
LEMMA SelectedMeans ==
    ASSUME opts \in Options,
           NEW l \in Lines, NEW whole \in BOOLEAN, NEW piece \in Pieces(l, whole)
    PROVE  /\ Selected(piece) => Admitted(l)
           /\ Wanted(l) /\ whole => Selected(piece)
<1> DEFINE p == TimeOf(ParsedLine(l).ts)
           w == WallTime(l)
           m == NanosPerMilli
<1>1. /\ piece.line = l
      /\ piece.text \subseteq Log[l].text
      /\ whole => piece.text = Log[l].text
  BY PieceFacts
<1>2. /\ ParsedLine(l).ts.seconds \in Int
      /\ ParsedLine(l).ts.nanos \in 0..(NanosPerSecond - 1)
      /\ p \in Int /\ w \in Int /\ p <= w /\ w <= p + m - 1
      /\ m \in Nat /\ NanosPerSecond \in Nat
  BY ParsedTime, ConstantFacts
<1>4. /\ opts.spec.start \subseteq Timestamps /\ opts.spec.end \subseteq Timestamps
  <2>1. opts.spec \in Specs
    BY OptionFacts
  <2>2. opts.spec \in [start : SUBSET Timestamps, end : SUBSET Timestamps,
                       level_in : SUBSET STRING, grep_contains : SUBSET STRING]
    BY <2>1, LogScanAssumption
  <2> QED
    BY <2>2
<1>5. ASSUME NEW t \in Timestamps
      PROVE  /\ t.seconds \in Int /\ t.nanos \in 0..(NanosPerSecond - 1)
             /\ TimeOf(t) \in Int
  BY <1>2 DEF Timestamps, TimeOf
<1>6. ASSUME NEW start \in opts.spec.start
      PROVE  /\ ~TimestampLess(ParsedLine(l).ts, start) => TimeOf(start) <= w
             /\ TimeOf(start) + m - 1 <= w => ~TimestampLess(ParsedLine(l).ts, start)
  <2>1. ~TimestampLess(ParsedLine(l).ts, start) <=> TimeOf(start) <= p
    BY <1>2, <1>4, <1>5, TimeOrder
  <2>2. TimeOf(start) \in Int
    BY <1>4, <1>5
  <2> HIDE DEF p, w, m
  <2> QED
    BY <1>2, <2>1, <2>2
<1>7. ASSUME NEW end \in opts.spec.end
      PROVE  /\ ~TimestampLess(end, ParsedLine(l).ts) => w < TimeOf(end) + m
             /\ w <= TimeOf(end) => ~TimestampLess(end, ParsedLine(l).ts)
  <2>1. ~TimestampLess(end, ParsedLine(l).ts) <=> p <= TimeOf(end)
    BY <1>2, <1>4, <1>5, TimeOrder
  <2>2. TimeOf(end) \in Int
    BY <1>4, <1>5
  <2> HIDE DEF p, w, m
  <2> QED
    BY <1>2, <2>1, <2>2
<1>9. InLevelFilter(ParsedLine(l), opts.spec.level_in) <=>
        (opts.spec.level_in # {} =>
           \E level \in opts.spec.level_in : ToLower(level) = ToLower(Log[l].level))
  <2>1. ParsedLine(l).level_lower = ToLower(Log[l].level)
    BY DEF ParsedLine
  <2> QED
    BY <2>1 DEF InLevelFilter
<1>10. ASSUME Selected(piece)
       PROVE  Admitted(l)
  BY <1>1, <1>6, <1>7, <1>9, <1>10 DEF Selected, InRange, ContainsFilter, Admitted, Matches
<1>11. ASSUME Wanted(l), whole
       PROVE  Selected(piece)
  BY <1>1, <1>6, <1>7, <1>9, <1>11 DEF Selected, InRange, ContainsFilter, Wanted, Matches
<1> QED
  BY <1>10, <1>11

(* WriteLine writes the line that getline has read.                         *)
LEMMA WrittenLine ==
    ASSUME LogType, ScanType, ReadInFile, WriteLine
    PROVE  /\ NextLine \in Lines
           /\ out \in Seq([line : Lines, size : Nat]) /\ Len(out) \in Nat
           /\ Len(out') = Len(out) + 1 /\ DOMAIN out' = 1..(Len(out) + 1)
           /\ \A k \in 1..Len(out) : out'[k] = out[k]
           /\ out'[Len(out) + 1].line = NextLine
           /\ \E piece \in Pieces(NextLine, NextIsWhole) : Selected(piece)
<1>1. NextLine \in Lines /\ NextIsWhole \in BOOLEAN
  BY NextLineFacts DEF WriteLine
<1>2. PICK piece \in Pieces(NextLine, NextIsWhole) :
         Selected(piece) /\ out' = Append(out, [line |-> piece.line, size |-> piece.size])
  BY DEF WriteLine
<1>3. piece.line = NextLine /\ piece.size \in Nat
  BY <1>1, PieceFacts
<1>4. out \in Seq([line : Lines, size : Nat]) /\ Len(out) \in Nat
  BY DEF ScanType
<1>5. [line |-> piece.line, size |-> piece.size] \in [line : Lines, size : Nat]
  BY <1>1, <1>3
<1>6. /\ Len(out') = Len(out) + 1
      /\ \A k \in 1..Len(out) : out'[k] = out[k]
      /\ out'[Len(out) + 1] = [line |-> piece.line, size |-> piece.size]
      /\ out' \in Seq([line : Lines, size : Nat])
  BY <1>2, <1>4, <1>5, AppendProperties
<1> QED
  BY <1>1, <1>2, <1>3, <1>4, <1>6

(* Only WriteLine writes.                                                   *)
LEMMA OnlyWriteLineWrites ==
    ASSUME [Next]_vars, ~WriteLine
    PROVE  out' = out
<1>1. Ends => out' = out
  BY DEF Ends, outVars
<1>2. Begin \/ Visit \/ Open \/ Skip \/ EndOfFile \/ Close \/ Reopen \/ Chunk => out' = out
  BY DEF Begin, Visit, Open, Skip, EndOfFile, Close, Reopen, Chunk, outVars
<1>3. Logger => out' = out
  BY LoggerCases DEF scanVars, outVars
<1>4. UNCHANGED vars => out' = out
  BY DEF vars, outVars
<1> QED
  BY <1>1, <1>2, <1>3, <1>4, ScanCases DEF Next

(* The options of an operation do not change.                               *)
LEMMA OptionsStay ==
    ASSUME [Next]_vars
    PROVE  opts' = opts
  BY ScanCases, LoggerCases DEF Next, scanVars, vars

(* In every time zone an operation writes no line that the window, read as  *)
(* wall-clock time and to the millisecond, excludes, nor one that another   *)
(* filter does, for every log and every specification, also when the line   *)
(* is read before the logger has flushed it to its end.                     *)
THEOREM OutputIsAsAsked == Spec => []OutputAsAsked
<1>1. Init => OutputAsAsked
  BY DEF Init, OutputAsAsked
<1>2. ScanInv /\ OutputAsAsked /\ [Next]_vars => OutputAsAsked'
  <2> SUFFICES ASSUME ScanInv, OutputAsAsked, [Next]_vars
               PROVE  OutputAsAsked'
    OBVIOUS
  <2>1. opts' = opts /\ opts \in Options
    BY OptionsStay DEF ScanInv, ScanType
  <2>2. CASE ~WriteLine
    <3>1. out' = out
      BY <2>2, OnlyWriteLineWrites
    <3> QED
      BY <2>1, <3>1 DEF OutputAsAsked, Admitted, Matches
  <2>3. CASE WriteLine
    <3>1. /\ NextLine \in Lines
          /\ Len(out) \in Nat /\ DOMAIN out' = 1..(Len(out) + 1)
          /\ DOMAIN out = 1..Len(out)
          /\ \A k \in 1..Len(out) : out'[k] = out[k]
          /\ out'[Len(out) + 1].line = NextLine
      BY <2>3, WrittenLine DEF ScanInv
    <3>2. Admitted(NextLine)
      <4>1. PICK piece \in Pieces(NextLine, NextIsWhole) : Selected(piece)
        BY <2>3, WrittenLine DEF ScanInv
      <4>2. NextIsWhole \in BOOLEAN
        BY DEF NextIsWhole
      <4> QED
        BY <2>1, <3>1, <4>1, <4>2, SelectedMeans
    <3>3. ASSUME NEW k \in DOMAIN out'
          PROVE  Admitted(out'[k].line)
      BY <3>1, <3>2 DEF OutputAsAsked
    <3> QED
      BY <2>1, <3>3 DEF OutputAsAsked, Admitted, Matches
  <2> QED
    BY <2>2, <2>3
<1> QED
  BY <1>1, <1>2, ScanInvariance, PTL DEF Spec

----------------------------------------------------------------------------
(* The log: its lines are numbered as they are written, each is in one file *)
(* at one place, and a file has one name at most, also between the removal  *)
(* and the renaming of a rotation.                                          *)

Written == UNION {ToSet(content[f]) : f \in Files}

Numbered == \E n \in Nat : Written = 1..n

OnePlace ==
    \A f, g \in Files : \A i \in DOMAIN content[f], j \in DOMAIN content[g] :
        content[f][i] = content[g][j] => f = g /\ i = j

OneName == \A i, j \in Slots : slot[i] = slot[j] /\ slot[i] # NoFile => i = j

(* The files of rotations to come.                                          *)
Unused(f) ==
    \/ f > MaxFiles + 1 + rotations
    \/ f = MaxFiles + 1 + rotations /\ (rotating > 0 \/ slot[0] = NoFile)

Fresh == \A f \in Files : Unused(f) => content[f] = <<>> /\ \A i \in Slots : slot[i] # f

Torn == torn => LoggerIdle /\ content[slot[0]] # <<>>

Steady == rotations = 0 => LoggerIdle

LogInv == Numbered /\ OnePlace /\ OneName /\ Fresh /\ Torn /\ Steady

(* The sets that the names and files are numbered by.                       *)
LEMMA NameFacts ==
    /\ MaxFiles \in Nat /\ MaxFiles > 0 /\ MaxRotations \in Nat
    /\ Slots = 0..MaxFiles /\ 0 \in Slots /\ MaxFiles \in Slots
    /\ Files \subseteq Nat /\ NoFile \notin Files /\ NoFile = 0
    /\ \A i \in Slots : i \in Nat /\ (i > 0 => i - 1 \in Slots)
  BY ConstantFacts DEF Slots, Files, NoFile

(* A written line is in one of the files.                                   *)
LEMMA WrittenIs ==
    ASSUME NEW l
    PROVE  l \in Written <=> \E f \in Files : \E i \in DOMAIN content[f] : content[f][i] = l
  BY DEF Written, ToSet

(* What WriteLog adds to the log: a line that is nowhere yet, at the end of *)
(* the base file.                                                           *)
LEMMA WriteLogFacts ==
    ASSUME LogType, Numbered, WriteLog
    PROVE  /\ slot[0] \in Files
           /\ NextWritten \in Lines /\ NextWritten \notin Written
           /\ \E n \in Nat : Written = 1..n /\ NextWritten = n + 1
           /\ \A f \in Files : content[f] \in Seq(Lines) /\ Len(content[f]) \in Nat
           /\ \A f \in Files : f # slot[0] => content'[f] = content[f]
           /\ Len(content'[slot[0]]) = Len(content[slot[0]]) + 1
           /\ DOMAIN content'[slot[0]] = 1..(Len(content[slot[0]]) + 1)
           /\ \A i \in 1..Len(content[slot[0]]) : content'[slot[0]][i] = content[slot[0]][i]
           /\ content'[slot[0]][Len(content[slot[0]]) + 1] = NextWritten
<1>1. slot[0] \in Files
  BY NameFacts DEF WriteLog, LoggerIdle, LogType
<1>2. PICK n \in Nat : Written = 1..n
  BY DEF Numbered
<1>3. Cardinality(1..n) = n
  <2>1. 1 \in Int /\ n \in Int
    OBVIOUS
  <2>2. Cardinality(1..n) = IF 1 > n THEN 0 ELSE n - 1 + 1
    BY <2>1, FS_Interval
  <2> QED
    BY <2>2
<1>4. NextWritten = n + 1
  <2>1. NextWritten = 1 + Cardinality(Written)
    BY DEF NextWritten, Written
  <2> QED
    BY <1>2, <1>3, <2>1
<1>5. \A f \in Files : content[f] \in Seq(Lines) /\ Len(content[f]) \in Nat
  BY DEF LogType
<1>6. NextWritten \in Lines
  BY DEF WriteLog
<1>7. /\ content'[slot[0]] = Append(content[slot[0]], NextWritten)
      /\ \A f \in Files : f # slot[0] => content'[f] = content[f]
  BY <1>1 DEF WriteLog, LogType
<1>8. /\ Len(content'[slot[0]]) = Len(content[slot[0]]) + 1
      /\ content'[slot[0]] \in Seq(Lines)
      /\ \A i \in 1..Len(content[slot[0]]) : content'[slot[0]][i] = content[slot[0]][i]
      /\ content'[slot[0]][Len(content[slot[0]]) + 1] = NextWritten
  BY <1>1, <1>5, <1>6, <1>7, AppendProperties
<1>9. NextWritten \notin Written
  BY <1>2, <1>4
<1> QED
  BY <1>1, <1>2, <1>4, <1>5, <1>6, <1>7, <1>8, <1>9

(* The log as it is found.                                                  *)
LEMMA LogInit ==
    ASSUME Init
    PROVE  LogInv
<1>1. PICK n \in Slots :
         /\ slot = [i \in Slots |-> IF i <= n THEN i + 1 ELSE NoFile]
         /\ content = [f \in Files |-> IF f <= n + 1 THEN <<n + 2 - f>> ELSE <<>>]
  BY DEF Init
<1>2. n \in Nat /\ n <= MaxFiles /\ rotations = 0 /\ rotating = 0 /\ torn = FALSE
  BY NameFacts DEF Init
<1>3. Files = 1..(MaxFiles + 1 + MaxRotations)
  BY DEF Files
<1>4. ASSUME NEW f \in Files
      PROVE  /\ f <= n + 1 => DOMAIN content[f] = {1} /\ content[f][1] = n + 2 - f
             /\ ~(f <= n + 1) => DOMAIN content[f] = {} /\ content[f] = <<>>
  <2>1. f <= n + 1 => content[f] = <<n + 2 - f>>
    BY <1>1
  <2>2. ~(f <= n + 1) => content[f] = <<>>
    BY <1>1
  <2>3. \A x : DOMAIN <<x>> = {1} /\ <<x>>[1] = x
    OBVIOUS
  <2> QED
    BY <2>1, <2>2, <2>3
<1>5. Numbered
  <2>1. ASSUME NEW l
        PROVE  l \in Written <=> l \in 1..(n + 1)
    <3>1. ASSUME l \in Written
          PROVE  l \in 1..(n + 1)
      <4>1. PICK f \in Files : \E i \in DOMAIN content[f] : content[f][i] = l
        BY <3>1, WrittenIs
      <4>2. f <= n + 1 /\ l = n + 2 - f
        BY <1>4, <4>1
      <4> QED
        BY <1>2, <1>3, <4>2, NameFacts
    <3>2. ASSUME l \in 1..(n + 1)
          PROVE  l \in Written
      <4>1. n + 2 - l \in Files /\ n + 2 - l <= n + 1 /\ n + 2 - (n + 2 - l) = l
        BY <1>2, <1>3, <3>2, NameFacts
      <4>2. 1 \in DOMAIN content[n + 2 - l] /\ content[n + 2 - l][1] = l
        BY <1>4, <4>1
      <4> QED
        BY <4>1, <4>2, WrittenIs
    <3> QED
      BY <3>1, <3>2
  <2>2. Written = 1..(n + 1)
    BY <2>1
  <2> QED
    BY <1>2, <2>2 DEF Numbered
<1>6. OnePlace
  <2> SUFFICES ASSUME NEW f \in Files, NEW g \in Files,
                      NEW i \in DOMAIN content[f], NEW j \in DOMAIN content[g],
                      content[f][i] = content[g][j]
               PROVE  f = g /\ i = j
    BY DEF OnePlace
  <2>1. /\ f <= n + 1 /\ i = 1 /\ content[f][i] = n + 2 - f
        /\ g <= n + 1 /\ j = 1 /\ content[g][j] = n + 2 - g
    BY <1>4
  <2> QED
    BY <1>2, <2>1, NameFacts
<1>7. \A i \in Slots : slot[i] = IF i <= n THEN i + 1 ELSE NoFile
  BY <1>1
<1>8. OneName
  BY <1>2, <1>7, NameFacts DEF OneName
<1>9. slot[0] = 1
  BY <1>2, <1>7, NameFacts
<1>10. Fresh
  <2> SUFFICES ASSUME NEW f \in Files, Unused(f)
               PROVE  content[f] = <<>> /\ \A i \in Slots : slot[i] # f
    BY DEF Fresh
  <2>1. f > MaxFiles + 1 /\ f \in Nat
    BY <1>2, <1>9, NameFacts DEF Unused
  <2>2. ~(f <= n + 1)
    BY <1>2, <2>1, NameFacts
  <2> QED
    BY <1>2, <1>4, <1>7, <2>1, <2>2, NameFacts
<1>11. LoggerIdle /\ Torn /\ Steady
  BY <1>2, <1>9, NameFacts DEF LoggerIdle, Torn, Steady
<1> QED
  BY <1>5, <1>6, <1>8, <1>10, <1>11 DEF LogInv

(* The log keeps its shape while it is written to ...                       *)
LEMMA LogInvWrite ==
    ASSUME LogType, LogInv, WriteLog
    PROVE  LogInv'
<1> USE DEF LogInv
<1> DEFINE b == slot[0]
           m == Len(content[b])
<1>1. /\ b \in Files /\ NextWritten \notin Written
      /\ \A f \in Files : Len(content[f]) \in Nat /\ DOMAIN content[f] = 1..Len(content[f])
      /\ \A f \in Files : f # b => content'[f] = content[f]
      /\ DOMAIN content'[b] = 1..(m + 1)
      /\ \A i \in 1..m : content'[b][i] = content[b][i]
      /\ content'[b][m + 1] = NextWritten
      /\ Len(content'[b]) = m + 1
  BY WriteLogFacts
<1>2. UNCHANGED <<slot, rotating, rotations>> /\ LoggerIdle
  BY DEF WriteLog
<1>3. m \in Nat
  BY <1>1
<1>4. PICK n \in Nat : Written = 1..n /\ NextWritten = n + 1
  BY WriteLogFacts
<1>5. PICK w : w = NextWritten
  OBVIOUS
<1>6. PICK base \in Files : base = slot[0] /\ base = slot'[0]
  BY <1>1, <1>2
<1>7. PICK len \in Nat : len = Len(content[base])
  BY <1>1
<1>8. /\ \A f \in Files : f # base => content'[f] = content[f]
      /\ DOMAIN content'[base] = 1..(len + 1) /\ DOMAIN content[base] = 1..len
      /\ \A i \in 1..len : content'[base][i] = content[base][i]
      /\ content'[base][len + 1] = w
      /\ Len(content'[base]) = len + 1
  BY <1>1, <1>5, <1>6, <1>7
<1>9. \A f \in Files : \A i \in DOMAIN content[f] : content[f][i] \in Written /\ content[f][i] # w
  BY <1>1, <1>5, WrittenIs
<1> HIDE DEF b, m
<1>10. Numbered'
  <2>1. ASSUME NEW l
        PROVE  l \in Written' <=> l \in Written \/ l = w
    <3>1. l \in Written' <=> \E f \in Files : \E i \in DOMAIN content'[f] : content'[f][i] = l
      BY DEF Written, ToSet
    <3>2. ASSUME NEW f \in Files, NEW i \in DOMAIN content'[f], content'[f][i] = l
          PROVE  l \in Written \/ l = w
      <4>1. CASE f # base
        BY <1>8, <1>9, <3>2, <4>1
      <4>2. CASE f = base /\ i = len + 1
        BY <1>8, <3>2, <4>2
      <4>3. CASE f = base /\ i # len + 1
        <5>1. i \in DOMAIN content[base] /\ content'[base][i] = content[base][i]
          BY <1>8, <4>3
        <5> QED
          BY <1>9, <3>2, <4>3, <5>1
      <4> QED
        BY <4>1, <4>2, <4>3
    <3>3. ASSUME l \in Written
          PROVE  \E f \in Files : \E i \in DOMAIN content'[f] : content'[f][i] = l
      <4>1. PICK f \in Files : \E i \in DOMAIN content[f] : content[f][i] = l
        BY <3>3, WrittenIs
      <4>2. PICK i \in DOMAIN content[f] : content[f][i] = l
        BY <4>1
      <4>3. i \in DOMAIN content'[f] /\ content'[f][i] = l
        BY <1>8, <4>2
      <4> QED
        BY <4>3
    <3>4. len + 1 \in DOMAIN content'[base]
      BY <1>8
    <3> QED
      BY <1>8, <3>1, <3>2, <3>3, <3>4
  <2>2. Written' = 1..(n + 1)
    <3>1. \A l : l \in 1..(n + 1) <=> l \in 1..n \/ l = n + 1
      OBVIOUS
    <3>2. \A l : l \in Written' <=> l \in 1..(n + 1)
      BY <1>4, <1>5, <2>1, <3>1
    <3> QED
      BY <3>2, Zenon
  <2> QED
    BY <2>2 DEF Numbered
<1>11. OnePlace'
  <2> SUFFICES ASSUME NEW f \in Files, NEW g \in Files,
                      NEW i \in DOMAIN content'[f], NEW j \in DOMAIN content'[g],
                      content'[f][i] = content'[g][j]
               PROVE  f = g /\ i = j
    BY DEF OnePlace
  <2>1. ASSUME NEW h \in Files, NEW k \in DOMAIN content'[h]
        PROVE  \/ h = base /\ k = len + 1 /\ content'[h][k] = w
               \/ k \in DOMAIN content[h] /\ content'[h][k] = content[h][k] /\ content[h][k] # w
    BY <1>8, <1>9
  <2>2. \/ f = base /\ i = len + 1 /\ content'[f][i] = w
        \/ i \in DOMAIN content[f] /\ content'[f][i] = content[f][i] /\ content[f][i] # w
    BY <2>1
  <2>3. \/ g = base /\ j = len + 1 /\ content'[g][j] = w
        \/ j \in DOMAIN content[g] /\ content'[g][j] = content[g][j] /\ content[g][j] # w
    BY <2>1
  <2> QED
    BY <2>2, <2>3 DEF OnePlace
<1>12. OneName'
  BY <1>2 DEF OneName
<1>13. Fresh'
  <2> SUFFICES ASSUME NEW f \in Files, Unused(f)
               PROVE  content'[f] = <<>> /\ \A i \in Slots : slot[i] # f
    BY <1>2 DEF Fresh, Unused
  <2>1. content[f] = <<>> /\ \A i \in Slots : slot[i] # f
    BY DEF Fresh
  <2> QED
    BY <1>6, <1>8, <2>1, NameFacts
<1>14. Torn' /\ Steady'
  <2>1. LoggerIdle'
    BY <1>2 DEF LoggerIdle
  <2>2. content'[base] # <<>>
    BY <1>8
  <2> QED
    BY <1>6, <2>1, <2>2 DEF Torn, Steady
<1> QED
  BY <1>10, <1>11, <1>12, <1>13, <1>14

(* ... and while it is rotated.                                             *)
LEMMA LogInvRotate ==
    ASSUME LogType, LogInv, Logger, ~WriteLog
    PROVE  LogInv' /\ UNCHANGED content
<1> USE DEF LogInv
<1>a. /\ slot \in [Slots -> Files \cup {NoFile}] /\ rotating \in Slots /\ rotations \in Nat
      /\ rotating \in Nat
  BY NameFacts DEF LogType
<1>1. UNCHANGED content
  BY DEF Logger, FlushLog, BeginRotation, NothingToRename, RemoveTarget, Rename, NewBase
<1>2. Numbered' /\ OnePlace'
  BY <1>1 DEF Numbered, Written, OnePlace
<1>3. CASE FlushLog
  BY <1>1, <1>2, <1>3 DEF FlushLog, OneName, Fresh, Unused, Torn, Steady, LoggerIdle
<1>4. CASE BeginRotation
  <2>1. rotations' = rotations + 1 /\ slot' = slot /\ ~torn' /\ rotating' = MaxFiles
    BY <1>4 DEF BeginRotation
  <2>2. ASSUME NEW f \in Files
        PROVE  Unused(f)' => Unused(f)
    BY <1>a, <2>1, NameFacts DEF Unused
  <2> QED
    BY <1>1, <1>2, <1>a, <2>1, <2>2 DEF OneName, Fresh, Torn, Steady
<1>5. CASE NothingToRename \/ RemoveTarget \/ Rename
  <2>1. rotating > 0 /\ UNCHANGED <<torn, rotations>>
    BY <1>5 DEF NothingToRename, RemoveTarget, Rename
  <2>2. ~torn /\ rotations # 0
    BY <2>1, <1>a DEF Torn, Steady, LoggerIdle
  <2>3. Torn' /\ Steady'
    BY <2>1, <2>2 DEF Torn, Steady
  <2>4. rotating - 1 \in Slots /\ rotating - 1 # rotating
    BY <1>a, <2>1, NameFacts
  <2>5. OneName'
    <3>1. CASE NothingToRename
      BY <3>1 DEF NothingToRename, OneName
    <3>2. CASE RemoveTarget
      <4>1. \A i \in Slots : slot'[i] = IF i = rotating THEN NoFile ELSE slot[i]
        BY <1>a, <3>2 DEF RemoveTarget
      <4> QED
        BY <4>1 DEF OneName
    <3>3. CASE Rename
      <4>1. \A i \in Slots : slot'[i] = IF i = rotating - 1 THEN NoFile
                                        ELSE IF i = rotating THEN slot[rotating - 1]
                                        ELSE slot[i]
        BY <1>a, <2>4, <3>3 DEF Rename
      <4> QED
        BY <1>a, <2>4, <4>1 DEF OneName
    <3> QED
      BY <1>5, <3>1, <3>2, <3>3
  <2>6. ASSUME NEW i \in Slots, slot'[i] # NoFile
        PROVE  \E j \in Slots : slot'[i] = slot[j]
    <3>1. slot' = slot \/ slot' = [slot EXCEPT ![rotating] = NoFile] \/
          slot' = [slot EXCEPT ![rotating] = slot[rotating - 1], ![rotating - 1] = NoFile]
      BY <1>5 DEF NothingToRename, RemoveTarget, Rename
    <3> QED
      BY <1>a, <2>4, <2>6, <3>1
  <2>7. Fresh'
    <3> SUFFICES ASSUME NEW f \in Files, Unused(f)'
                 PROVE  content[f] = <<>> /\ \A i \in Slots : slot'[i] # f
      BY <1>1 DEF Fresh
    <3>1. Unused(f)
      BY <1>a, <2>1 DEF Unused
    <3>2. content[f] = <<>> /\ \A i \in Slots : slot[i] # f
      BY <3>1 DEF Fresh
    <3> QED
      BY <2>6, <3>2, NameFacts
  <2> QED
    BY <1>1, <1>2, <2>3, <2>5, <2>7
<1>6. CASE NewBase
  <2>1. /\ rotating = 0 /\ slot[0] = NoFile /\ UNCHANGED <<torn, rotating, rotations>>
        /\ \A i \in Slots : slot'[i] = IF i = 0 THEN MaxFiles + 1 + rotations ELSE slot[i]
    BY <1>6, <1>a, NameFacts DEF NewBase
  <2>2. ~torn /\ rotations # 0
    BY <2>1 DEF Torn, Steady, LoggerIdle
  <2>3. Torn' /\ Steady'
    BY <2>1, <2>2 DEF Torn, Steady
  <2>4. MaxFiles + 1 + rotations \in Files /\ MaxFiles + 1 + rotations # NoFile
    BY NameFacts DEF LogType, Files
  <2>5. Unused(MaxFiles + 1 + rotations)
    BY <2>1 DEF Unused
  <2>6. \A i \in Slots : slot[i] # MaxFiles + 1 + rotations
    BY <2>4, <2>5 DEF Fresh
  <2>7. OneName'
    BY <2>1, <2>6 DEF OneName
  <2>8. Fresh'
    <3> SUFFICES ASSUME NEW f \in Files, Unused(f)'
                 PROVE  content[f] = <<>> /\ \A i \in Slots : slot'[i] # f
      BY <1>1 DEF Fresh
    <3>1. Unused(f) /\ f # MaxFiles + 1 + rotations
      BY <1>a, <2>1, <2>4, NameFacts DEF Unused
    <3>2. content[f] = <<>> /\ \A i \in Slots : slot[i] # f
      BY <3>1 DEF Fresh
    <3> QED
      BY <2>1, <3>1, <3>2
  <2> QED
    BY <1>1, <1>2, <2>3, <2>7, <2>8
<1> QED
  BY <1>3, <1>4, <1>5, <1>6 DEF Logger

(* LogInv is an invariant: however the steps of a rotation fall between     *)
(* those of a scan, no line is lost from a file that has a name, or doubled.*)
THEOREM LogInvariance == Spec => []LogInv
<1>1. Init => LogInv
  BY LogInit
<1>2. ScanInv /\ LogInv /\ [Next]_vars => LogInv'
  <2> SUFFICES ASSUME ScanInv, LogInv, [Next]_vars
               PROVE  LogInv'
    OBVIOUS
  <2>1. CASE UNCHANGED logVars
    BY <2>1 DEF logVars, LogInv, Numbered, Written, OnePlace, OneName, Fresh, Unused, Torn,
               Steady, LoggerIdle
  <2>2. CASE Logger
    BY <2>2, LogInvWrite, LogInvRotate DEF ScanInv
  <2>3. Scan \/ UNCHANGED vars => UNCHANGED logVars
    BY ScanCases DEF vars
  <2> QED
    BY <2>1, <2>2, <2>3 DEF Next
<1> QED
  BY <1>1, <1>2, ScanInvariance, PTL DEF Spec

----------------------------------------------------------------------------
(* Without a rotation no line is written twice: what is in the output is    *)
(* behind the scan, in a file visited or above the read position.           *)

CandidateFile(j) == FileAt(AllCandidates[j])

AlreadyRead(l) ==
    \E j \in 1..Visited :
        /\ CandidateFile(j) # NoFile
        /\ \E i \in DOMAIN content[CandidateFile(j)] :
              /\ content[CandidateFile(j)][i] = l
              /\ pc = "read" /\ CandidateFile(j) = in.file => i <= in.read

ReadsLastVisited == pc = "read" => Visited > 0 /\ in.file = CandidateFile(Visited)

OutputRead == \A k \in DOMAIN out : AlreadyRead(out[k].line)

NoRepeat == \A j, k \in DOMAIN out : out[j].line = out[k].line => j = k

Once == rotations = 0 => ReadsLastVisited /\ OutputRead /\ NoRepeat

(* The place of the scan in its list of candidates.                         *)
LEMMA VisitedFacts ==
    ASSUME ScanInv
    PROVE  /\ Len(AllCandidates) \in Nat /\ Len(candidates) \in Nat
           /\ Visited \in Nat /\ Visited <= Len(AllCandidates)
           /\ Visited + Len(candidates) = Len(AllCandidates)
<1>1. Len(AllCandidates) \in Nat
  BY AllCandidatesOrdered DEF ScanInv, ScanType, OrderedCandidates
<1>2. Len(candidates) \in Nat
  BY DEF ScanInv, ScanType
<1> QED
  BY <1>1, <1>2 DEF ScanInv, Remaining, Visited

(* A candidate stands for a file of the log or for none.                    *)
LEMMA FileAtIs ==
    ASSUME LogType, NEW path
    PROVE  /\ FileAt(path) \in Files \cup {NoFile}
           /\ FileAt(path) # NoFile =>
                /\ path.index \in Slots /\ Proper(path, opts.extension)
                /\ FileAt(path) = slot[path.index]
  BY DEF LogType, FileAt, Proper

(* No file is visited under two candidates while the names stay.            *)
LEMMA CandidatesDiffer ==
    ASSUME LogType, OneName, opts \in Options,
           NEW j \in 1..Len(AllCandidates), NEW k \in 1..Len(AllCandidates),
           CandidateFile(j) = CandidateFile(k), CandidateFile(j) # NoFile
    PROVE  j = k
<1>1. OrderedCandidates(AllCandidates, opts.extension)
  BY AllCandidatesOrdered
<1>2. /\ AllCandidates[j].index \in Slots /\ Proper(AllCandidates[j], opts.extension)
      /\ CandidateFile(j) = slot[AllCandidates[j].index]
  BY FileAtIs DEF CandidateFile
<1>3. /\ AllCandidates[k].index \in Slots /\ Proper(AllCandidates[k], opts.extension)
      /\ CandidateFile(k) = slot[AllCandidates[k].index]
  BY FileAtIs DEF CandidateFile
<1>4. AllCandidates[j].index = AllCandidates[k].index
  BY <1>2, <1>3 DEF OneName
<1> QED
  BY <1>1, <1>2, <1>3, <1>4 DEF OrderedCandidates

(* Files only grow, at their end.                                           *)
LEMMA ContentGrows ==
    ASSUME LogType, LogInv, [Next]_vars, NEW f \in Files, NEW i \in DOMAIN content[f]
    PROVE  i \in DOMAIN content'[f] /\ content'[f][i] = content[f][i]
<1>1. CASE UNCHANGED content
  BY <1>1
<1>2. CASE WriteLog
  <2>1. /\ \A g \in Files : g # slot[0] => content'[g] = content[g]
        /\ slot[0] \in Files /\ Len(content[slot[0]]) \in Nat
        /\ DOMAIN content[slot[0]] = 1..Len(content[slot[0]])
        /\ DOMAIN content'[slot[0]] = 1..(Len(content[slot[0]]) + 1)
        /\ \A k \in 1..Len(content[slot[0]]) : content'[slot[0]][k] = content[slot[0]][k]
    BY <1>2, WriteLogFacts DEF LogInv
  <2> QED
    BY <2>1
<1>3. Logger /\ ~WriteLog => UNCHANGED content
  BY LogInvRotate
<1>4. Scan \/ UNCHANGED vars => UNCHANGED content
  BY ScanCases DEF vars, logVars
<1> QED
  BY <1>1, <1>2, <1>3, <1>4 DEF Next

(* Before the first rotation the names stay.                                *)
LEMMA NamesStay ==
    ASSUME LogType, LogInv, [Next]_vars, rotations' = 0
    PROVE  /\ rotations = 0 /\ slot' = slot /\ opts' = opts
           /\ AllCandidates' = AllCandidates
           /\ \A j : CandidateFile(j)' = CandidateFile(j)
<1>1. opts' = opts
  BY OptionsStay
<1>2. rotations = 0 /\ slot' = slot
  <2>1. CASE UNCHANGED logVars
    BY <2>1 DEF logVars
  <2>2. CASE Logger
    <3>1. rotations \in Nat /\ ~BeginRotation
      BY NameFacts DEF LogType, BeginRotation
    <3>2. rotations = 0
      BY <2>2, <3>1 DEF Logger, WriteLog, FlushLog, NothingToRename, RemoveTarget, Rename, NewBase
    <3>3. rotating = 0 /\ slot[0] # NoFile
      BY <3>2 DEF LogInv, Steady, LoggerIdle
    <3> QED
      BY <2>2, <3>1, <3>2, <3>3
         DEF Logger, WriteLog, FlushLog, NothingToRename, RemoveTarget, Rename, NewBase
  <2>3. Scan \/ UNCHANGED vars => UNCHANGED logVars
    BY ScanCases DEF vars
  <2> QED
    BY <2>1, <2>2, <2>3 DEF Next
<1> QED
  BY <1>1, <1>2 DEF AllCandidates, CandidateFile, FileAt

(* A line behind the scan stays behind it, as long as the scan goes on in   *)
(* the file that it reads or to one that it has not visited.                *)
LEMMA StaysRead ==
    ASSUME ScanInv, LogInv, [Next]_vars, rotations' = 0,
           NEW l, AlreadyRead(l),
           Visited' \in Nat, Visited' >= Visited,
           pc' = "read" =>
              \/ pc = "read" /\ in'.file = in.file /\ in.read <= in'.read /\ in'.read \in Nat
              \/ \A j \in 1..Visited : CandidateFile(j) = in'.file => CandidateFile(j) = NoFile
    PROVE  AlreadyRead(l)'
<1> USE DEF ScanInv
<1>1. PICK j \in 1..Visited : \E i \in DOMAIN content[CandidateFile(j)] :
         /\ CandidateFile(j) # NoFile
         /\ content[CandidateFile(j)][i] = l
         /\ pc = "read" /\ CandidateFile(j) = in.file => i <= in.read
  BY DEF AlreadyRead
<1>2. PICK i \in DOMAIN content[CandidateFile(j)] :
         /\ CandidateFile(j) # NoFile
         /\ content[CandidateFile(j)][i] = l
         /\ pc = "read" /\ CandidateFile(j) = in.file => i <= in.read
  BY <1>1
<1>3. CandidateFile(j)' = CandidateFile(j)
  BY NamesStay
<1>4. CandidateFile(j) \in Files
  BY <1>2, FileAtIs DEF CandidateFile
<1>5. i \in DOMAIN content'[CandidateFile(j)] /\ content'[CandidateFile(j)][i] = l
  BY <1>2, <1>4, ContentGrows
<1>6. j \in 1..Visited'
  BY VisitedFacts
<1>7. i \in Nat /\ in.read \in Nat
  <2>1. content[CandidateFile(j)] \in Seq(Lines)
    BY <1>4 DEF LogType
  <2> QED
    BY <1>2, <2>1 DEF ScanType
<1>8. ASSUME pc' = "read", CandidateFile(j) = in'.file
      PROVE  i <= in'.read
  BY <1>2, <1>7, <1>8
<1>9. \E k \in 1..Visited' : \E h \in DOMAIN content'[CandidateFile(k)'] :
        /\ CandidateFile(k)' # NoFile
        /\ content'[CandidateFile(k)'][h] = l
        /\ pc' = "read" /\ CandidateFile(k)' = in'.file => h <= in'.read
  BY <1>2, <1>3, <1>5, <1>6, <1>8
<1> QED
  BY <1>9 DEF AlreadyRead

(* Where a step takes the scan: on in its file or out of it, past a         *)
(* candidate that has no file, into the file of the next one, or to the     *)
(* first.                                                                   *)
GoesOn ==
    /\ candidates' = candidates
    /\ pc' = "read" => /\ pc = "read" /\ in'.file = in.file
                       /\ in'.read \in Nat /\ in.read <= in'.read

Passes ==
    /\ candidates # <<>> /\ candidates' = Tail(candidates)
    /\ FileAt(Head(candidates)) = NoFile
    /\ pc # "read" /\ pc' # "read"

Enters ==
    /\ candidates # <<>> /\ candidates' = Tail(candidates)
    /\ FileAt(Head(candidates)) # NoFile
    /\ pc # "read" /\ pc' = "read"
    /\ in' = [file |-> FileAt(Head(candidates)), read |-> 0]

(* Every step is one of these.                                              *)
LEMMA Moves ==
    ASSUME ScanInv, [Next]_vars
    PROVE  GoesOn \/ Passes \/ Enters \/ Begin
<1>a. in \in [file : Files \cup {NoFile}, read : Nat]
  BY DEF ScanInv, ScanType
<1>1. Ends => GoesOn
  BY DEF Ends, Fails, GoesOn
<1>2. Visit => GoesOn \/ Passes
  BY DEF Visit, GoesOn, Passes
<1>3. Open => Passes \/ Enters
  <2> SUFFICES ASSUME Open
               PROVE  Passes \/ Enters
    OBVIOUS
  <2>1. candidates # <<>> /\ pc # "read"
    BY DEF Open, ScanInv, Phases
  <2> QED
    BY <2>1 DEF Open, Passes, Enters
<1>4. Skip \/ WriteLine => GoesOn
  <2> SUFFICES ASSUME Skip \/ WriteLine
               PROVE  GoesOn
    OBVIOUS
  <2>1. pc = "read" /\ candidates' = candidates /\ GetLine
    BY DEF Skip, WriteLine, HasLine
  <2>2. CASE NextIsWhole
    <3>1. in' = [in EXCEPT !.read = @ + 1]
      BY <2>1, <2>2 DEF GetLine
    <3>2. in'.file = in.file /\ in'.read = in.read + 1 /\ in.read \in Nat
      BY <1>a, <3>1
    <3> QED
      BY <2>1, <3>2 DEF GoesOn
  <2>3. CASE ~NextIsWhole
    BY <2>1, <2>3 DEF GetLine, GoesOn
  <2> QED
    BY <2>2, <2>3
<1>5. EndOfFile \/ Close \/ Reopen \/ Chunk => GoesOn
  BY DEF EndOfFile, Close, Reopen, Chunk, GoesOn
<1>6. Logger \/ UNCHANGED vars => GoesOn
  <2> SUFFICES ASSUME Logger \/ UNCHANGED vars
               PROVE  GoesOn
    OBVIOUS
  <2>1. UNCHANGED <<pc, candidates, in>>
    BY LoggerCases DEF scanVars, vars
  <2>2. in.read \in Nat
    BY <1>a
  <2> QED
    BY <2>1, <2>2 DEF GoesOn
<1> QED
  BY <1>1, <1>2, <1>3, <1>4, <1>5, <1>6, ScanCases DEF Next

(* The candidate at the head is the one after those visited.                *)
LEMMA HeadIsNext ==
    ASSUME ScanInv, [Next]_vars, candidates # <<>>
    PROVE  /\ Head(candidates) = AllCandidates[Visited + 1]
           /\ Visited + 1 \in 1..Len(AllCandidates)
           /\ candidates' = Tail(candidates) => Visited' = Visited + 1
<1>1. candidates \in Seq(Paths)
  BY DEF ScanInv, ScanType
<1>2. Len(candidates) > 0 /\ Head(candidates) = candidates[1]
  BY <1>1
<1>3. candidates' = Tail(candidates) => Len(candidates') = Len(candidates) - 1
  BY <1>1
<1>4. candidates[1] = AllCandidates[Visited + 1] /\ Visited + 1 \in 1..Len(AllCandidates)
  BY <1>2, VisitedFacts DEF ScanInv, Remaining
<1>5. AllCandidates' = AllCandidates
  BY OptionsStay DEF AllCandidates
<1>6. Visited' = Len(AllCandidates) - Len(candidates')
  BY <1>5 DEF Visited
<1>7. Visited = Len(AllCandidates) - Len(candidates)
  BY DEF Visited
<1> QED
  BY <1>2, <1>3, <1>4, <1>6, <1>7, VisitedFacts

(* Once is kept.                                                            *)
LEMMA OnceStep ==
    ASSUME ScanInv, ScanInv', LogInv, Once, [Next]_vars
    PROVE  Once'
<1> SUFFICES ASSUME rotations' = 0
             PROVE  ReadsLastVisited' /\ OutputRead' /\ NoRepeat'
  BY DEF Once
<1>1. /\ rotations = 0 /\ AllCandidates' = AllCandidates
      /\ \A j : CandidateFile(j)' = CandidateFile(j)
  BY NamesStay DEF ScanInv
<1>2. ReadsLastVisited /\ OutputRead /\ NoRepeat
  BY <1>1 DEF Once
<1>3. /\ Visited \in Nat /\ Visited <= Len(AllCandidates) /\ Len(AllCandidates) \in Nat
  BY VisitedFacts
<1>4. PICK v \in Nat : v = Visited'
  <2>1. ScanInv' => (Visited \in Nat)'
    BY VisitedFacts, PTL
  <2> QED
    BY <2>1
<1>5. LogType /\ ScanType /\ ReadInFile /\ OneName /\ OnePlace /\ opts \in Options
  BY DEF ScanInv, ScanType, LogInv
<1>6. /\ candidates' = candidates => v = Visited
      /\ candidates # <<>> /\ candidates' = Tail(candidates) => v = Visited + 1
  BY <1>1, <1>4, HeadIsNext DEF Visited
<1>7. ASSUME pc' = "read" => v > 0 /\ in'.file = CandidateFile(v)
      PROVE  ReadsLastVisited'
  <2>1. (CandidateFile(Visited))' = CandidateFile(v)'
    BY <1>4 DEF CandidateFile, FileAt
  <2>2. (CandidateFile(Visited))' = CandidateFile(v)
    BY <1>1, <2>1
  <2> QED
    BY <1>4, <1>7, <2>2 DEF ReadsLastVisited
<1>8. ASSUME \A k \in DOMAIN out' : \E l : l = out'[k].line /\ AlreadyRead(l)'
      PROVE  OutputRead'
  <2> SUFFICES ASSUME NEW k \in DOMAIN out'
               PROVE  (AlreadyRead(out[k].line))'
    BY DEF OutputRead
  <2>1. PICK l : l = out'[k].line /\ AlreadyRead(l)'
    BY <1>8
  <2> QED
    BY <2>1 DEF AlreadyRead
<1>9. ASSUME NEW l, AlreadyRead(l), GoesOn \/ Passes \/ Enters
      PROVE  AlreadyRead(l)'
  <2>1. Visited' \in Nat /\ Visited' >= Visited
    BY <1>3, <1>4, <1>6, <1>9 DEF GoesOn, Passes, Enters
  <2>2. CASE GoesOn \/ Passes
    BY <1>9, <2>1, <2>2, StaysRead DEF GoesOn, Passes
  <2>3. CASE Enters
    <3>1. in'.file = CandidateFile(Visited + 1) /\ Visited + 1 \in 1..Len(AllCandidates)
      BY <2>3, HeadIsNext DEF Enters, CandidateFile
    <3>2. ASSUME NEW j \in 1..Visited, CandidateFile(j) = in'.file
          PROVE  CandidateFile(j) = NoFile
      <4>1. j \in 1..Len(AllCandidates) /\ j # Visited + 1
        BY <1>3
      <4> QED
        BY <1>5, <3>1, <3>2, <4>1, CandidatesDiffer
    <3> QED
      BY <1>9, <2>1, <3>2, StaysRead
  <2> QED
    BY <1>9, <2>2, <2>3
<1>10. ReadsLastVisited'
  <2>1. CASE GoesOn
    BY <1>2, <1>6, <1>7, <2>1 DEF GoesOn, ReadsLastVisited
  <2>2. CASE Passes \/ Begin
    BY <1>7, <2>2 DEF Passes, Begin
  <2>3. CASE Enters
    <3>1. in'.file = CandidateFile(Visited + 1)
      BY <2>3, HeadIsNext DEF Enters, CandidateFile
    <3>2. v = Visited + 1 /\ v > 0
      BY <1>3, <1>6, <2>3 DEF Enters
    <3> QED
      BY <1>7, <3>1, <3>2
  <2> QED
    BY <2>1, <2>2, <2>3, Moves
<1>11. CASE Begin
  <2>1. DOMAIN out' = {}
    <3>1. out = <<>> /\ out' = out
      BY <1>11 DEF Begin, ScanInv, Phases, outVars
    <3> QED
      BY <3>1
  <2> QED
    BY <1>10, <2>1 DEF OutputRead, NoRepeat
<1>12. CASE ~WriteLine /\ ~Begin
  <2>1. out' = out
    BY <1>12, OnlyWriteLineWrites
  <2>2. \A k \in DOMAIN out' : \E l : l = out'[k].line /\ AlreadyRead(l)'
    BY <1>2, <1>9, <1>12, <2>1, Moves DEF OutputRead
  <2>3. NoRepeat'
    BY <1>2, <2>1 DEF NoRepeat
  <2> QED
    BY <1>8, <1>10, <2>2, <2>3
<1>13. CASE WriteLine
  <2>1. PICK n \in Nat : n = Len(out)
    BY <1>5, WrittenLine, <1>13
  <2>2. /\ DOMAIN out = 1..n /\ DOMAIN out' = 1..(n + 1)
        /\ \A k \in 1..n : out'[k] = out[k]
        /\ out'[n + 1].line = NextLine
    BY <1>5, <1>13, <2>1, WrittenLine
  <2>3. PICK f \in Files, r \in Nat : f = in.file /\ r = in.read /\ r + 1 \in DOMAIN content[f]
    BY <1>5, <1>13, NextLineFacts DEF WriteLine
  <2>4. /\ pc = "read" /\ f = CandidateFile(Visited) /\ Visited \in 1..Visited
        /\ content[f][r + 1] = NextLine /\ GetLine /\ candidates' = candidates
        /\ content' = content
    <3>1. UNCHANGED logVars
      BY <1>13 DEF WriteLine
    <3> QED
      BY <1>2, <1>3, <1>13, <2>3, <3>1 DEF WriteLine, HasLine, ReadsLastVisited, NextLine, logVars
  <2>5. PICK new : new = NextLine
    OBVIOUS
  <2>6. AlreadyRead(new)'
    <3>1. PICK u \in 1..v : u = Visited /\ CandidateFile(u)' = f
      <4>1. Visited = v
        BY <1>6, <2>4
      <4>2. CandidateFile(v)' = f
        BY <1>1, <2>4, <4>1
      <4> QED
        BY <1>4, <2>4, <4>1, <4>2
    <3>2. in \in [file : Files \cup {NoFile}, read : Nat]
      BY <1>5 DEF ScanType
    <3>3. pc' = "read" => in'.read = r + 1
      BY <2>3, <2>4, <3>2 DEF GetLine
    <3>4. r + 1 \in DOMAIN content'[f] /\ content'[f][r + 1] = new /\ f # NoFile /\ r + 1 <= r + 1
      BY <2>3, <2>4, <2>5, NameFacts
    <3>5. \E j \in 1..Visited' : \E i \in DOMAIN content'[CandidateFile(j)'] :
            /\ CandidateFile(j)' # NoFile
            /\ content'[CandidateFile(j)'][i] = new
            /\ pc' = "read" /\ CandidateFile(j)' = in'.file => i <= in'.read
      BY <1>4, <3>1, <3>3, <3>4
    <3> QED
      BY <3>5 DEF AlreadyRead
  <2>7. ASSUME NEW l, AlreadyRead(l)
        PROVE  l # new
    <3>1. PICK j \in 1..Visited : \E i \in DOMAIN content[CandidateFile(j)] :
             /\ CandidateFile(j) # NoFile
             /\ content[CandidateFile(j)][i] = l
             /\ pc = "read" /\ CandidateFile(j) = in.file => i <= in.read
      BY <2>7 DEF AlreadyRead
    <3>2. CandidateFile(j) \in Files
      BY <1>5, <3>1, FileAtIs DEF CandidateFile
    <3>3. l = new => FALSE
      BY <2>3, <2>4, <2>5, <3>1, <3>2, <1>5 DEF OnePlace
    <3> QED
      BY <3>3
  <2>8. \A k \in 1..n : AlreadyRead(out[k].line)
    BY <1>2, <2>2 DEF OutputRead
  <2>9. NoRepeat'
    <3>1. \A k \in 1..n : out[k].line # out'[n + 1].line
      BY <2>2, <2>5, <2>7, <2>8
    <3>2. \A k \in 1..(n + 1) : k \in 1..n \/ k = n + 1
      OBVIOUS
    <3> QED
      BY <1>2, <2>2, <3>1, <3>2 DEF NoRepeat
  <2>10. \A k \in DOMAIN out' : \E l : l = out'[k].line /\ AlreadyRead(l)'
    <3> SUFFICES ASSUME NEW k \in 1..(n + 1)
                 PROVE  \E l : l = out'[k].line /\ AlreadyRead(l)'
      BY <2>2
    <3>1. CASE k = n + 1
      BY <2>2, <2>5, <2>6, <3>1
    <3>2. CASE k # n + 1
      <4>1. k \in 1..n /\ out'[k] = out[k]
        BY <2>2, <3>2
      <4>2. PICK l : l = out[k].line
        OBVIOUS
      <4>3. AlreadyRead(l)
        BY <2>8, <4>1, <4>2
      <4>4. ~Begin
        BY <2>4 DEF Begin
      <4>5. AlreadyRead(l)'
        BY <1>9, <4>3, <4>4, Moves
      <4> QED
        BY <4>1, <4>2, <4>5
    <3> QED
      BY <3>1, <3>2
  <2> QED
    BY <1>8, <1>10, <2>9, <2>10
<1> QED
  BY <1>11, <1>12, <1>13

(* A line is in the output twice only if the log was rotated during the     *)
(* scan, for every log, depth and form of the names: without a rotation     *)
(* EnumerateCandidates leads to each file once, and getline goes over each  *)
(* line once, also over one that the logger is still writing.               *)
THEOREM NoRepeatWithoutRotation == Spec => []RepeatsNeedRotation
<1>1. Init => Once
  BY DEF Init, Once, ReadsLastVisited, OutputRead, NoRepeat
<1>2. ScanInv /\ ScanInv' /\ LogInv /\ Once /\ [Next]_vars => Once'
  BY OnceStep
<1>3. Once => RepeatsNeedRotation
  BY DEF Once, NoRepeat, RepeatsNeedRotation
<1> QED
  BY <1>1, <1>2, <1>3, ScanInvariance, LogInvariance, PTL DEF Spec

----------------------------------------------------------------------------
(* A line in reach at the start is not missed while it is in reach: it is   *)
(* written, or the scan is still to come to it.  A file moves to older      *)
(* names only, and so do the candidates.                                    *)

InOutput(l) == \E k \in DOMAIN out : out[k].line = l

StillToRead(l) ==
    /\ pc = "read"
    /\ \E i \in DOMAIN content[in.file] : in.read < i /\ content[in.file][i] = l

Ahead(l) ==
    \E k \in DOMAIN candidates :
        /\ FileAt(candidates[k]) # NoFile
        /\ l \in ToSet(content[FileAt(candidates[k])])

(* What was in reach at the start was whole by then.                        *)
Started ==
    /\ at_start \subseteq Written
    /\ torn => Last(content[slot[0]]) \notin at_start

Accounted(l) == Wanted(l) => InOutput(l) \/ StillToRead(l) \/ Ahead(l)

NotMissed ==
    pc # "begin" /\ status \in {"none", "OK"} =>
        \A l \in at_start \cap LinesInReach : Accounted(l)

(* A line in reach has a candidate that leads to it.                        *)
LEMMA ReachedBy ==
    ASSUME LogType, opts \in Options, NEW l
    PROVE  l \in LinesInReach <=>
             \E k \in 1..Len(AllCandidates) :
                 CandidateFile(k) # NoFile /\ l \in ToSet(content[CandidateFile(k)])
<1>1. OrderedCandidates(AllCandidates, opts.extension)
  BY AllCandidatesOrdered
<1>2. DOMAIN AllCandidates = 1..Len(AllCandidates)
  BY <1>1 DEF OrderedCandidates
<1>3. Reach = {path.index : path \in ToSet(AllCandidates)}
  BY DEF Reach, AllCandidates
<1>4. \A i : i \in Reach <=> \E k \in 1..Len(AllCandidates) : AllCandidates[k].index = i
  BY <1>2, <1>3 DEF ToSet
<1>5. ASSUME l \in LinesInReach
      PROVE  \E k \in 1..Len(AllCandidates) :
                 CandidateFile(k) # NoFile /\ l \in ToSet(content[CandidateFile(k)])
  <2>1. PICK i \in Reach \cap Slots : slot[i] # NoFile /\ l \in ToSet(content[slot[i]])
    BY <1>5 DEF LinesInReach
  <2>2. PICK k \in 1..Len(AllCandidates) :
           AllCandidates[k].index = i /\ Proper(AllCandidates[k], opts.extension)
    BY <1>1, <1>4, <2>1 DEF OrderedCandidates
  <2>3. CandidateFile(k) = slot[i]
    BY <2>1, <2>2 DEF CandidateFile, FileAt, Proper
  <2> QED
    BY <2>1, <2>3
<1>6. ASSUME NEW k \in 1..Len(AllCandidates),
             CandidateFile(k) # NoFile, l \in ToSet(content[CandidateFile(k)])
      PROVE  l \in LinesInReach
  <2>1. AllCandidates[k].index \in Slots /\ CandidateFile(k) = slot[AllCandidates[k].index]
    BY <1>6, FileAtIs DEF CandidateFile
  <2>2. AllCandidates[k].index \in Reach
    BY <1>4
  <2> QED
    BY <1>6, <2>1, <2>2 DEF LinesInReach
<1> QED
  BY <1>5, <1>6

(* Ahead in terms of the places of the list.                                *)
LEMMA AheadIs ==
    ASSUME ScanInv, NEW l
    PROVE  Ahead(l) <=>
             \E k \in 1..Len(AllCandidates) :
                 /\ k > Visited /\ CandidateFile(k) # NoFile
                 /\ l \in ToSet(content[CandidateFile(k)])
<1>1. DOMAIN candidates = 1..Len(candidates)
  BY DEF ScanInv, ScanType
<1>2. \A k \in 1..Len(candidates) : candidates[k] = AllCandidates[Visited + k]
  BY DEF ScanInv, Remaining
<1>3. ASSUME Ahead(l)
      PROVE  \E k \in 1..Len(AllCandidates) :
                 /\ k > Visited /\ CandidateFile(k) # NoFile
                 /\ l \in ToSet(content[CandidateFile(k)])
  <2>1. PICK k \in 1..Len(candidates) :
           FileAt(candidates[k]) # NoFile /\ l \in ToSet(content[FileAt(candidates[k])])
    BY <1>1, <1>3 DEF Ahead
  <2>2. Visited + k \in 1..Len(AllCandidates) /\ Visited + k > Visited
    BY VisitedFacts
  <2>3. FileAt(candidates[k]) = CandidateFile(Visited + k)
    BY <1>2 DEF CandidateFile
  <2> QED
    BY <2>1, <2>2, <2>3
<1>4. ASSUME NEW k \in 1..Len(AllCandidates), k > Visited, CandidateFile(k) # NoFile,
             l \in ToSet(content[CandidateFile(k)])
      PROVE  Ahead(l)
  <2>1. k - Visited \in 1..Len(candidates) /\ Visited + (k - Visited) = k
    BY <1>4, VisitedFacts
  <2>2. FileAt(candidates[k - Visited]) = CandidateFile(k)
    BY <1>2, <2>1 DEF CandidateFile
  <2> QED
    BY <1>1, <1>4, <2>1, <2>2 DEF Ahead
<1> QED
  BY <1>3, <1>4

(* A line is in one file.                                                   *)
LEMMA InOneFile ==
    ASSUME LogInv, NEW l, NEW f \in Files, NEW g \in Files,
           l \in ToSet(content[f]), l \in ToSet(content[g])
    PROVE  f = g
  BY DEF LogInv, OnePlace, ToSet

(* What is in the log at the start stays in it, whole.                      *)
LEMMA StartedStep ==
    ASSUME ScanInv, LogInv, Started, [Next]_vars
    PROVE  Started'
<1>a. LogType
  BY DEF ScanInv
<1>1. CASE Begin
  <2>1. LinesInReach \subseteq Written
    <3> SUFFICES ASSUME NEW l \in LinesInReach
                 PROVE  l \in Written
      OBVIOUS
    <3>1. PICK i \in Slots : slot[i] # NoFile /\ l \in ToSet(content[slot[i]])
      BY DEF LinesInReach
    <3>2. slot[i] \in Files
      BY <1>a, <3>1 DEF LogType
    <3> QED
      BY <3>1, <3>2 DEF Written
  <2>2. UNCHANGED <<slot, content, torn>>
    BY <1>1 DEF Begin, logVars
  <2>3. at_start' = LinesInReach \ (IF torn THEN {Last(content[slot[0]])} ELSE {})
    BY <1>1 DEF Begin
  <2> QED
    BY <2>1, <2>2, <2>3 DEF Started, Written
<1>2. ASSUME UNCHANGED <<at_start, slot, content, torn>>
      PROVE  Started'
  BY <1>2 DEF Started, Written
<1>3. ASSUME ~Begin
      PROVE  UNCHANGED at_start
  <2>1. Ends => UNCHANGED at_start
    BY DEF Ends
  <2>2. Visit \/ Open \/ Skip \/ WriteLine \/ EndOfFile \/ Close \/ Reopen \/ Chunk
          => UNCHANGED at_start
    BY DEF Visit, Open, Skip, WriteLine, EndOfFile, Close, Reopen, Chunk
  <2>3. Logger \/ UNCHANGED vars => UNCHANGED at_start
    BY LoggerCases DEF scanVars, vars
  <2> QED
    BY <1>3, <2>1, <2>2, <2>3, ScanCases DEF Next
<1>4. (Scan \/ UNCHANGED vars) => UNCHANGED <<slot, content, torn>>
  BY ScanCases DEF vars, logVars
<1>5. CASE WriteLog
  <2>1. /\ slot[0] \in Files /\ NextWritten \notin Written /\ slot' = slot
        /\ Len(content[slot[0]]) \in Nat
        /\ Len(content'[slot[0]]) = Len(content[slot[0]]) + 1
        /\ content'[slot[0]][Len(content[slot[0]]) + 1] = NextWritten
    BY <1>5, <1>a, WriteLogFacts DEF LogInv, WriteLog
  <2>2. Last(content[slot[0]])' = NextWritten
    BY <2>1 DEF Last
  <2>3. at_start' = at_start
    BY <1>5, LoggerCases DEF Logger, scanVars
  <2>4. Written \subseteq Written'
    <3> SUFFICES ASSUME NEW l \in Written
                 PROVE  l \in Written'
      OBVIOUS
    <3>1. PICK f \in Files : \E i \in DOMAIN content[f] : content[f][i] = l
      BY WrittenIs
    <3>2. \E i \in DOMAIN content'[f] : content'[f][i] = l
      BY <1>a, <3>1, ContentGrows
    <3> QED
      BY <3>2 DEF Written, ToSet
  <2> QED
    BY <2>1, <2>2, <2>3, <2>4 DEF Started
<1>6. CASE Logger /\ ~WriteLog
  <2>1. at_start' = at_start /\ content' = content
    BY <1>6, <1>a, LoggerCases, LogInvRotate DEF scanVars
  <2>2. torn' => torn /\ slot' = slot
    <3>1. torn => rotating = 0 /\ slot[0] # NoFile
      BY DEF LogInv, Torn, LoggerIdle
    <3>2. rotating \in Nat
      BY <1>a, NameFacts DEF LogType
    <3>3. FlushLog \/ BeginRotation => ~torn'
      BY DEF FlushLog, BeginRotation
    <3>4. NothingToRename \/ RemoveTarget \/ Rename \/ NewBase => ~torn /\ torn' = torn
      BY <3>1, <3>2 DEF NothingToRename, RemoveTarget, Rename, NewBase
    <3> QED
      BY <1>6, <3>3, <3>4 DEF Logger
  <2> QED
    BY <2>1, <2>2 DEF Started, Written
<1> QED
  BY <1>1, <1>2, <1>3, <1>4, <1>5, <1>6 DEF Next

(* A rotation moves a file to a later candidate only.                       *)
LEMMA FileMovesOn ==
    ASSUME ScanInv, LogInv, Logger, NEW f \in Files, content[f] # <<>>,
           NEW m \in 1..Len(AllCandidates), CandidateFile(m)' = f
    PROVE  \E k \in 1..Len(AllCandidates) : k <= m /\ CandidateFile(k) = f
<1>a. LogType /\ opts \in Options
  BY DEF ScanInv, ScanType
<1>b. OrderedCandidates(AllCandidates, opts.extension) /\ Len(AllCandidates) \in Nat
  BY <1>a, AllCandidatesOrdered DEF OrderedCandidates
<1>c. opts' = opts
  BY LoggerCases DEF scanVars
<1>1. PICK c \in Slots : c = AllCandidates[m].index /\ slot'[c] = f
  <2>1. CandidateFile(m)' =
          IF /\ AllCandidates[m].index \in Slots
             /\ AllCandidates[m].index = 0 \/ AllCandidates[m].infix = opts.extension
          THEN slot'[AllCandidates[m].index] ELSE NoFile
    BY <1>c DEF CandidateFile, FileAt, AllCandidates
  <2> QED
    BY <2>1, NameFacts
<1>2. Proper(AllCandidates[m], opts.extension)
  <2>1. CandidateFile(m)' =
          IF /\ AllCandidates[m].index \in Slots
             /\ AllCandidates[m].index = 0 \/ AllCandidates[m].infix = opts.extension
          THEN slot'[AllCandidates[m].index] ELSE NoFile
    BY <1>c DEF CandidateFile, FileAt, AllCandidates
  <2> QED
    BY <2>1, NameFacts DEF Proper
<1>3. CASE slot[c] = f
  <2>1. CandidateFile(m) = f /\ m <= m
    BY <1>1, <1>2, <1>3, <1>b DEF CandidateFile, FileAt, Proper
  <2> QED
    BY <2>1
<1>4. CASE slot[c] # f
  <2>1. slot \in [Slots -> Files \cup {NoFile}] /\ rotating \in Slots
    BY <1>a DEF LogType
  <2>2. ~NewBase
    <3>1. ASSUME NewBase
          PROVE  FALSE
      <4>1. c = 0 /\ f = MaxFiles + 1 + rotations /\ slot[0] = NoFile
        BY <1>1, <1>4, <2>1, <3>1, NameFacts DEF NewBase
      <4>2. Unused(f)
        BY <4>1 DEF Unused
      <4> QED
        BY <4>2 DEF LogInv, Fresh
    <3> QED
      BY <3>1
  <2>3. ~RemoveTarget
    <3>1. ASSUME RemoveTarget
          PROVE  slot'[c] = slot[c] \/ slot'[c] = NoFile
      BY <2>1, <3>1 DEF RemoveTarget
    <3> QED
      BY <1>1, <1>4, <3>1, NameFacts
  <2>4. slot' # slot
    BY <1>1, <1>4
  <2>5. Rename
    BY <2>2, <2>3, <2>4 DEF Logger, WriteLog, FlushLog, BeginRotation, NothingToRename
  <2>6. rotating > 0 /\ rotating - 1 \in Slots /\ rotating - 1 # rotating /\ rotating \in Nat
    BY <2>1, <2>5, NameFacts DEF Rename
  <2>7. slot'[c] = IF c = rotating - 1 THEN NoFile
                   ELSE IF c = rotating THEN slot[rotating - 1] ELSE slot[c]
    BY <2>1, <2>5, <2>6 DEF Rename
  <2>8. c = rotating /\ slot[c - 1] = f
    BY <1>1, <1>4, <2>7, NameFacts
  <2>9. PICK j \in 1..Len(AllCandidates) : AllCandidates[j].index = c - 1
    <3>1. AllCandidates[m].index > 0 /\ AllCandidates[m].index - 1 = c - 1
      BY <1>1, <2>6, <2>8
    <3>2. \E j \in 1..Len(AllCandidates) : AllCandidates[j].index = AllCandidates[m].index - 1
      BY <1>b, <3>1 DEF OrderedCandidates
    <3> QED
      BY <3>1, <3>2
  <2>10. PICK k \in 1..Len(AllCandidates) :
            AllCandidates[k].index = c - 1 /\ Proper(AllCandidates[k], opts.extension)
    BY <1>b, <2>9 DEF OrderedCandidates
  <2>11. k <= m
    <3>1. ~(AllCandidates[k].index >= AllCandidates[m].index)
      BY <1>1, <2>6, <2>8, <2>10
    <3>2. m <= k => AllCandidates[m].index <= AllCandidates[k].index
      BY <1>b DEF OrderedCandidates
    <3> QED
      BY <1>1, <1>b, <2>6, <2>8, <2>10, <3>1, <3>2
  <2>12. CandidateFile(k) = f
    BY <2>6, <2>8, <2>10 DEF CandidateFile, FileAt, Proper
  <2> QED
    BY <2>11, <2>12
<1> QED
  BY <1>3, <1>4

(* What it is to be in reach, and ahead.                                    *)
ReachMeans ==
    \A l : l \in LinesInReach =>
        \E k \in 1..Len(AllCandidates) :
            CandidateFile(k) \in Files /\ l \in ToSet(content[CandidateFile(k)])

AheadMeans ==
    \A l : Ahead(l) <=>
        \E k \in 1..Len(AllCandidates) :
            /\ k > Visited /\ CandidateFile(k) # NoFile
            /\ l \in ToSet(content[CandidateFile(k)])

OneFile ==
    \A l : \A f, g \in Files : l \in ToSet(content[f]) /\ l \in ToSet(content[g]) => f = g

(* These facts hold in every state, hence also in the one after a step.     *)
LEMMA ReachFacts ==
    ASSUME ScanInv, LogInv
    PROVE  ReachMeans /\ AheadMeans /\ OneFile
<1>1. LogType /\ opts \in Options
  BY DEF ScanInv, ScanType
<1>2. \A k : CandidateFile(k) \in Files \cup {NoFile}
  BY <1>1, FileAtIs DEF CandidateFile
<1>3. ReachMeans
  BY <1>1, <1>2, ReachedBy DEF ReachMeans
<1>4. AheadMeans
  BY AheadIs DEF AheadMeans
<1>5. OneFile
  BY InOneFile DEF OneFile
<1> QED
  BY <1>3, <1>4, <1>5

(* A step of the logger leaves every line accounted for.                    *)
LEMMA LoggerKeepsAccount ==
    ASSUME ScanInv, ScanInv', LogInv, LogInv', Started, Logger,
           NEW l \in at_start, l \in LinesInReach'
    PROVE  l \in LinesInReach /\ (Accounted(l) => Accounted(l)')
<1>a. LogType /\ OneName /\ opts \in Options
  BY DEF ScanInv, ScanType, LogInv
<1>b. UNCHANGED <<opts, pc, candidates, in, out>>
  BY LoggerCases DEF scanVars, outVars
<1>c. AllCandidates' = AllCandidates /\ Visited' = Visited
  BY <1>b DEF AllCandidates, Visited
<1>d. ReachMeans' /\ AheadMeans' /\ OneFile'
  BY ReachFacts, PTL
<1>e. AheadMeans /\ OneFile
  BY ReachFacts
<1>1. PICK f \in Files : \E i \in DOMAIN content[f] : content[f][i] = l
  BY WrittenIs DEF Started
<1>2. l \in ToSet(content[f]) /\ content[f] # <<>>
  BY <1>1 DEF ToSet
<1>3. l \in ToSet(content'[f])
  <2>1. \E i \in DOMAIN content'[f] : content'[f][i] = l
    BY <1>1, <1>a, ContentGrows DEF Next
  <2> QED
    BY <2>1 DEF ToSet
<1>4. PICK m \in 1..Len(AllCandidates) : CandidateFile(m)' = f
  <2>1. PICK m \in 1..Len(AllCandidates) :
           CandidateFile(m)' \in Files /\ l \in ToSet(content'[CandidateFile(m)'])
    BY <1>c, <1>d DEF ReachMeans
  <2> QED
    BY <1>3, <1>d, <2>1 DEF OneFile
<1>5. PICK k \in 1..Len(AllCandidates) : k <= m /\ CandidateFile(k) = f
  BY <1>2, <1>4, FileMovesOn
<1>6. l \in LinesInReach
  BY <1>2, <1>5, <1>a, ReachedBy, NameFacts
<1>7. ASSUME Ahead(l)
      PROVE  Ahead(l)'
  <2>1. PICK j \in 1..Len(AllCandidates) :
           j > Visited /\ CandidateFile(j) # NoFile /\ l \in ToSet(content[CandidateFile(j)])
    BY <1>7, <1>e DEF AheadMeans
  <2>2. CandidateFile(j) \in Files
    BY <1>a, <2>1, FileAtIs DEF CandidateFile
  <2>3. CandidateFile(j) = f
    BY <1>2, <1>e, <2>1, <2>2 DEF OneFile
  <2>4. j = k
    BY <1>5, <1>a, <2>1, <2>3, CandidatesDiffer
  <2>5. m > Visited
    BY <1>5, <2>1, <2>4, VisitedFacts
  <2> QED
    BY <1>3, <1>4, <1>c, <1>d, <2>5, NameFacts DEF AheadMeans
<1>8. ASSUME StillToRead(l)
      PROVE  StillToRead(l)'
  <2>1. pc = "read" /\ in.file \in Files
    BY <1>8 DEF StillToRead, ScanInv, ReadInFile
  <2>2. PICK i \in DOMAIN content[in.file] : in.read < i /\ content[in.file][i] = l
    BY <1>8 DEF StillToRead
  <2>3. i \in DOMAIN content'[in.file] /\ content'[in.file][i] = l
    BY <1>a, <2>1, <2>2, ContentGrows DEF Next
  <2> QED
    BY <1>b, <2>1, <2>2, <2>3 DEF StillToRead
<1>9. InOutput(l) => InOutput(l)'
  BY <1>b DEF InOutput
<1>10. Wanted(l)' <=> Wanted(l)
  BY <1>b DEF Wanted, Matches
<1> QED
  BY <1>6, <1>7, <1>8, <1>9, <1>10 DEF Accounted

(* A step of the scan leaves a line that is in reach accounted for, if it   *)
(* does not end the scan with an error.                                     *)
LEMMA ScanKeepsAccount ==
    ASSUME ScanInv, ScanInv', LogInv, LogInv', Started, Scan, ~Begin,
           status' \in {"none", "OK"},
           NEW l \in at_start, l \in LinesInReach, Accounted(l)
    PROVE  Accounted(l)'
<1>a. LogType /\ ScanType /\ ReadInFile /\ Phases /\ opts \in Options
  BY DEF ScanInv, ScanType
<1>b. UNCHANGED <<opts, slot, content, torn>>
  BY ScanCases DEF logVars
<1>c. AllCandidates' = AllCandidates /\ \A k : CandidateFile(k)' = CandidateFile(k)
  BY <1>b DEF AllCandidates, CandidateFile, FileAt
<1>d. AheadMeans' /\ AheadMeans
  BY ReachFacts, PTL
<1>e. Wanted(l)' <=> Wanted(l)
  BY <1>b DEF Wanted, Matches
<1>f. Visited \in Nat /\ (candidates' = candidates => Visited' = Visited)
  BY <1>c, VisitedFacts DEF Visited
<1> SUFFICES ASSUME Wanted(l)
             PROVE  InOutput(l)' \/ StillToRead(l)' \/ Ahead(l)'
  BY <1>e DEF Accounted
<1>1. CASE InOutput(l)
  <2>1. CASE WriteLine
    BY <1>1, <1>a, <2>1, WrittenLine DEF InOutput
  <2>2. CASE ~WriteLine
    BY <1>1, <2>2, OnlyWriteLineWrites DEF InOutput, Next
  <2> QED
    BY <2>1, <2>2
<1>2. CASE Ahead(l)
  <2>1. PICK k \in 1..Len(AllCandidates) :
           k > Visited /\ CandidateFile(k) # NoFile /\ l \in ToSet(content[CandidateFile(k)])
    BY <1>2, <1>d DEF AheadMeans
  <2>2. k > Visited' => Ahead(l)'
    BY <1>b, <1>c, <1>d, <2>1 DEF AheadMeans
  <2>3. CASE GoesOn
    BY <1>f, <2>1, <2>2, <2>3 DEF GoesOn
  <2>4. CASE Passes \/ Enters
    <3>1. FileAt(Head(candidates)) = CandidateFile(Visited + 1) /\ Visited' = Visited + 1
      BY <2>4, HeadIsNext DEF Passes, Enters, CandidateFile, Next
    <3>2. CASE k # Visited + 1
      BY <1>f, <2>1, <2>2, <3>1, <3>2
    <3>3. CASE k = Visited + 1
      <4>1. pc' = "read" /\ in'.file = CandidateFile(k) /\ in'.read = 0
        BY <2>1, <2>4, <3>1, <3>3 DEF Passes, Enters
      <4>2. CandidateFile(k) \in Files
        BY <1>a, <2>1, FileAtIs DEF CandidateFile
      <4>3. PICK i \in DOMAIN content[CandidateFile(k)] : content[CandidateFile(k)][i] = l
        BY <2>1 DEF ToSet
      <4>4. i > 0
        BY <1>a, <4>2, <4>3 DEF LogType
      <4> QED
        BY <1>b, <4>1, <4>3, <4>4 DEF StillToRead
    <3> QED
      BY <3>2, <3>3
  <2> QED
    BY <2>3, <2>4, Moves DEF Next
<1>3. CASE StillToRead(l)
  <2>1. pc = "read" /\ in.file \in Files /\ in.read \in Nat
    BY <1>3, <1>a DEF StillToRead, ReadInFile, ScanType
  <2>2. PICK i \in DOMAIN content[in.file] : in.read < i /\ content[in.file][i] = l
    BY <1>3 DEF StillToRead
  <2>3. content[in.file] \in Seq(Lines) /\ i \in 1..Len(content[in.file])
    BY <1>a, <2>1, <2>2 DEF LogType
  <2>4. HasLine
    BY <2>1, <2>2, <2>3 DEF HasLine
  <2>5. Skip \/ WriteLine
    <3>1. ~Ends
      <4>1. ~(pc = "read" /\ Fails({"begin", "read"}, "failed",
                                   {"INTERNAL", "RESOURCE_EXHAUSTED"}))
        BY DEF Fails
      <4> QED
        BY <2>1, <4>1 DEF Ends, Fails
    <3>2. ~EndOfFile
      BY <2>1, <2>2, <2>3 DEF EndOfFile
    <3>3. ~(Visit \/ Open \/ Close \/ Reopen \/ Chunk)
      BY <2>1 DEF Visit, Open, Close, Reopen, Chunk
    <3> QED
      BY <3>1, <3>2, <3>3, ScanCases
  <2>6. GetLine
    BY <2>5 DEF Skip, WriteLine
  <2>7. NextIsWhole
    <3>1. ASSUME ~NextIsWhole
          PROVE  FALSE
      <4>1. torn /\ in.file = slot[0] /\ in.read + 1 = Len(content[in.file])
        BY <3>1 DEF NextIsWhole
      <4>2. i = Len(content[slot[0]])
        BY <2>1, <2>2, <2>3, <4>1
      <4>3. l = Last(content[slot[0]])
        BY <2>2, <4>1, <4>2 DEF Last
      <4> QED
        BY <4>1, <4>3 DEF Started
    <3> QED
      BY <3>1
  <2>8. in' = [in EXCEPT !.read = @ + 1] /\ pc' = "read"
    BY <2>1, <2>6, <2>7 DEF GetLine
  <2>9. in'.file = in.file /\ in'.read = in.read + 1
    BY <1>a, <2>8 DEF ScanType
  <2>10. CASE i # in.read + 1
    <3>1. in'.read < i
      BY <2>1, <2>2, <2>3, <2>9, <2>10
    <3> QED
      BY <1>b, <2>2, <2>8, <2>9, <3>1 DEF StillToRead
  <2>11. CASE i = in.read + 1
    <3>1. NextLine = l /\ l \in Lines
      BY <1>a, <2>2, <2>3, <2>11 DEF NextLine
    <3>2. ~Skip
      <4>1. \A piece \in Pieces(l, TRUE) : Selected(piece)
        BY <1>a, <3>1, SelectedMeans
      <4> QED
        BY <2>7, <3>1, <4>1 DEF Skip
    <3>3. WriteLine
      BY <2>5, <3>2
    <3>4. out'[Len(out) + 1].line = l /\ Len(out) + 1 \in DOMAIN out'
      BY <1>a, <3>1, <3>3, WrittenLine
    <3> QED
      BY <3>4 DEF InOutput
  <2> QED
    BY <2>10, <2>11
<1> QED
  BY <1>1, <1>2, <1>3 DEF Accounted

(* NotMissed is kept.                                                       *)
LEMMA NotMissedStep ==
    ASSUME ScanInv, ScanInv', LogInv, LogInv', Started, NotMissed, [Next]_vars
    PROVE  NotMissed'
<1> SUFFICES ASSUME pc' # "begin", status' \in {"none", "OK"},
                    NEW l \in at_start', l \in LinesInReach'
             PROVE  Accounted(l)'
  BY DEF NotMissed
<1>a. ScanType /\ LogType /\ opts \in Options
  BY DEF ScanInv, ScanType
<1>1. CASE Begin
  <2>1. UNCHANGED <<opts, slot, content>> /\ candidates' = AllCandidates
    BY <1>1 DEF Begin, logVars, AllCandidates
  <2>2. ReachMeans' /\ AheadMeans'
    BY ReachFacts, PTL
  <2>3. AllCandidates' = AllCandidates /\ Len(AllCandidates) \in Nat
    BY <2>1, VisitedFacts DEF AllCandidates
  <2>4. Visited' = 0
    BY <2>1, <2>3 DEF Visited
  <2>5. PICK k \in 1..Len(AllCandidates) :
           CandidateFile(k)' \in Files /\ l \in ToSet(content'[CandidateFile(k)'])
    BY <2>2, <2>3 DEF ReachMeans
  <2>6. Ahead(l)'
    BY <2>2, <2>3, <2>4, <2>5, NameFacts DEF AheadMeans
  <2> QED
    BY <2>6 DEF Accounted
<1>2. CASE Scan /\ ~Begin
  <2>1. UNCHANGED <<at_start, LinesInReach>>
    <3>1. Ends => UNCHANGED at_start
      BY DEF Ends
    <3>2. Visit \/ Open \/ Skip \/ WriteLine \/ EndOfFile \/ Close \/ Reopen \/ Chunk
            => UNCHANGED at_start
      BY DEF Visit, Open, Skip, WriteLine, EndOfFile, Close, Reopen, Chunk
    <3>3. UNCHANGED LinesInReach
      BY <1>2, ScanCases DEF logVars, LinesInReach, Reach
    <3> QED
      BY <1>2, <3>1, <3>2, <3>3, ScanCases
  <2>2. pc # "begin" /\ status \in {"none", "OK"}
    <3>1. Ends => pc # "begin" /\ status \in {"none", "OK"}
      BY <1>a DEF Ends, Fails, Refusals, ScanType
    <3>2. Visit \/ Open \/ Skip \/ WriteLine \/ EndOfFile \/ Close \/ Reopen \/ Chunk
            => pc # "begin" /\ status' = status
      BY DEF Visit, Open, Skip, WriteLine, HasLine, EndOfFile, Close, Reopen, Chunk
    <3> QED
      BY <1>2, <3>1, <3>2, ScanCases
  <2>3. Accounted(l)
    BY <2>1, <2>2 DEF NotMissed
  <2> QED
    BY <1>2, <2>1, <2>3, ScanKeepsAccount
<1>3. CASE Logger
  <2>1. UNCHANGED <<at_start, pc, status>>
    BY <1>3, LoggerCases DEF scanVars
  <2>2. l \in LinesInReach /\ (Accounted(l) => Accounted(l)')
    BY <1>3, <2>1, LoggerKeepsAccount
  <2> QED
    BY <2>1, <2>2 DEF NotMissed
<1>4. CASE UNCHANGED vars
  <2>1. UNCHANGED <<slot, content, opts, at_start, pc, candidates, in, out, status>>
    BY <1>4 DEF vars, logVars, outVars
  <2>2. Accounted(l)
    BY <2>1 DEF NotMissed, LinesInReach, Reach
  <2> QED
    BY <2>1, <2>2 DEF Accounted, InOutput, StillToRead, Ahead, Wanted, Matches, FileAt
<1> QED
  BY <1>1, <1>2, <1>3, <1>4 DEF Next

(* In every time zone a scan that ends has written every line asked for, by *)
(* the clock on the wall, that was in reach when it began and still is, for *)
(* every log, filter and depth and however the steps of any number of       *)
(* rotations fall between those of FilterLogsToTemp.                        *)
THEOREM NoLineIsMissed == Spec => []NothingMissed
<1>1. Init => Started /\ NotMissed
  BY DEF Init, Started, NotMissed
<1>2. ScanInv /\ LogInv /\ Started /\ [Next]_vars => Started'
  BY StartedStep
<1>3. /\ ScanInv /\ ScanInv' /\ LogInv /\ LogInv' /\ Started /\ NotMissed
      /\ [Next]_vars
      => NotMissed'
  BY NotMissedStep
<1>4. ScanInv /\ NotMissed => NothingMissed
  <2> SUFFICES ASSUME ScanInv, NotMissed, ScanEnded,
                      NEW l \in at_start \cap LinesInReach, Wanted(l)
               PROVE  \E k \in DOMAIN out : out[k].line = l
    BY DEF NothingMissed
  <2>1. /\ pc \in {"stream", "chunk", "streamed", "eof", "done"}
        /\ status \in {"none", "OK"} /\ candidates = <<>>
    <3>1. status = "OK" => pc = "done"
      BY DEF ScanInv, ScanType, Phases
    <3> QED
      BY <3>1 DEF ScanInv, ScanType, Phases, ScanEnded
  <2>2. ~StillToRead(l)
    BY <2>1 DEF StillToRead
  <2>3. ~Ahead(l)
    BY <2>1 DEF Ahead
  <2>4. Accounted(l)
    BY <2>1 DEF NotMissed
  <2> QED
    BY <2>2, <2>3, <2>4 DEF Accounted, InOutput
<1> QED
  BY <1>1, <1>2, <1>3, <1>4, ScanInvariance, LogInvariance, PTL DEF Spec

----------------------------------------------------------------------------
(* The limit.                                                               *)

(* An operation that has failed at its limit stays at the line that would   *)
(* have gone beyond it.                                                     *)
StopsAtLimit ==
    status = "RESOURCE_EXHAUSTED" =>
        /\ in.file \in Files /\ in.read \in Nat
        /\ in.read + 1 \in DOMAIN content[in.file]
        /\ opts.limit < Int64Half => total_size + Log[NextLine].size > opts.limit

(* It is kept by every step.                                                *)
LEMMA StopsAtLimitStep ==
    ASSUME ScanInv, LogInv, StopsAtLimit, [Next]_vars
    PROVE  StopsAtLimit'
<1> SUFFICES ASSUME status' = "RESOURCE_EXHAUSTED"
             PROVE  StopsAtLimit'
  BY DEF StopsAtLimit
<1>a. LogType /\ ScanType /\ ReadInFile /\ opts' = opts /\ opts \in Options
  BY OptionsStay DEF ScanInv, ScanType
<1>1. CASE LimitReached
  <2>1. /\ HasLine /\ UNCHANGED <<content, in, total_size>>
        /\ \E piece \in Pieces(NextLine, NextIsWhole) : ~enforce_limit(piece.size)
    BY <1>1 DEF LimitReached, FailAt, logVars, outVars
  <2>2. /\ in.file \in Files /\ in.read \in Nat
        /\ in.read + 1 \in DOMAIN content[in.file]
        /\ NextLine \in Lines /\ NextIsWhole \in BOOLEAN
    BY <1>a, <2>1, NextLineFacts
  <2>3. PICK piece \in Pieces(NextLine, NextIsWhole) : ~enforce_limit(piece.size)
    BY <2>1
  <2>4. piece.size \in Nat /\ piece.size <= Log[NextLine].size /\ Log[NextLine].size \in Nat
    BY <2>2, LineFacts, PieceFacts
  <2>5. /\ ToInt64(opts.limit) \in Int /\ opts.limit \in Nat /\ total_size \in Nat
        /\ opts.limit < Int64Half => ToInt64(opts.limit) = opts.limit
    BY <1>a, LimitFacts, OptionFacts DEF ScanType
  <2>6. ~(total_size + piece.size <= ToInt64(opts.limit))
    BY <2>3 DEF enforce_limit
  <2>7. opts.limit < Int64Half => total_size + Log[NextLine].size > opts.limit
    BY <2>4, <2>5, <2>6
  <2>8. NextLine' = NextLine
    BY <2>1 DEF NextLine
  <2> QED
    BY <1>a, <2>1, <2>2, <2>7, <2>8 DEF StopsAtLimit
<1>2. CASE status = "RESOURCE_EXHAUSTED" /\ UNCHANGED <<in, total_size>>
  <2>1. /\ in.file \in Files /\ in.read \in Nat
        /\ in.read + 1 \in DOMAIN content[in.file]
        /\ opts.limit < Int64Half => total_size + Log[NextLine].size > opts.limit
    BY <1>2 DEF StopsAtLimit
  <2>2. /\ in.read + 1 \in DOMAIN content'[in.file]
        /\ content'[in.file][in.read + 1] = content[in.file][in.read + 1]
    BY <1>a, <2>1, ContentGrows
  <2>3. NextLine' = NextLine
    BY <1>2, <2>2 DEF NextLine
  <2> QED
    BY <1>2, <1>a, <2>1, <2>2, <2>3 DEF StopsAtLimit
<1>3. CASE Scan
  <2>1. ASSUME ~LimitReached
        PROVE  status' = status
    <3>1. ASSUME NEW st \in Refusals, Refuse(st)
          PROVE  FALSE
      BY <3>1 DEF Refuse, Refusals
    <3> QED
      BY <1>3, <2>1, <3>1
         DEF Scan, CreateFails, Begin, Visit, ExistsThrows, Open, Skip, WriteLine, WriteFails,
             EndOfFile, Close, Reopen, ReopenFails, Chunk, ConsumerFails, Streamed,
             FilterFailed, StreamFailed, StreamSucceeded, FillEof, FailAt
  <2>2. ASSUME status = "RESOURCE_EXHAUSTED"
        PROVE  UNCHANGED <<in, total_size>>
    <3>1. pc \in {"failed", "stream_failed", "done"}
      BY <1>a, <2>2 DEF ScanType
    <3>2. Ends
      BY <1>3, <3>1, ScanCases DEF Begin, Visit, Open, Skip, WriteLine, HasLine, EndOfFile,
                                   Close, Reopen, Chunk
    <3> QED
      BY <3>2 DEF Ends, outVars
  <2> QED
    BY <1>1, <1>2, <2>1, <2>2
<1>4. CASE Logger \/ UNCHANGED vars
  <2>1. UNCHANGED <<status, in, total_size>>
    BY <1>4, LoggerCases DEF scanVars, vars, outVars
  <2> QED
    BY <1>2, <2>1
<1> QED
  BY <1>3, <1>4 DEF Next

(* No chunk goes beyond max_output_bytes, for every limit of a uint64, and  *)
(* an operation fails at a limit of an int64 only at a line that would go   *)
(* beyond it, however the logger writes to the file meanwhile.              *)
THEOREM LimitHolds == Spec => []LimitIsHard
<1>1. Init => StopsAtLimit
  BY DEF Init, StopsAtLimit
<1>2. ScanInv /\ LogInv /\ StopsAtLimit /\ [Next]_vars => StopsAtLimit'
  BY StopsAtLimitStep
<1>3. ScanInv /\ StopsAtLimit => LimitIsHard
  <2> SUFFICES ASSUME ScanInv, StopsAtLimit, opts.limit # 0
               PROVE  /\ EndOfChunk(Len(chunks)) <= opts.limit
                      /\ opts.limit < Int64Half => ExhaustedMeansExceeded
    BY DEF LimitIsHard
  <2>1. /\ EndOfChunk(Len(chunks)) = offset /\ offset \in 0..temp_size
        /\ temp_size \in 0..total_size /\ total_size \in Nat /\ total_size <= opts.limit
        /\ opts \in Options
    BY DEF ScanInv, ChunkChain, ScanType, WithinLimit
  <2>2. opts.limit \in Nat
    BY <2>1, OptionFacts
  <2>3. EndOfChunk(Len(chunks)) <= opts.limit
    BY <2>1, <2>2
  <2> QED
    BY <2>3 DEF StopsAtLimit, ExhaustedMeansExceeded
<1> QED
  BY <1>1, <1>2, <1>3, ScanInvariance, LogInvariance, PTL DEF Spec
=============================================================================
