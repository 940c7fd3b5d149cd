--------------------------- MODULE SegmentationProofs --------------------------
(***************************************************************************)
(* Proofs about Segmentation, for any number of requests, workers, jobs,   *)
(* messages and faults.                                                    *)
(***************************************************************************)
EXTENDS Segmentation, SequenceLemmas, FiniteSetTheorems

(***************************************************************************)
(* Segments and commit plans: whatever cuts the review stages settle on,   *)
(* the segments tile the claimed range, and the finalized ones tile it up  *)
(* to where the next segment starts.                                       *)
(***************************************************************************)
(* Every nonempty bounded set of naturals has a largest member. *)
LEMMA LargestNat ==
  ASSUME NEW n \in Nat, NEW T \in SUBSET (0 .. n), T # {}
  PROVE  \E x \in T : \A y \in T : y <= x
<1> DEFINE D == {n - x : x \in T}
<1>1. D \in SUBSET Nat /\ D # {}
  <2>1. \A x \in T : n - x \in Nat
    OBVIOUS
  <2>2. D # {}
    OBVIOUS
  <2> QED BY <2>1, <2>2
<1>2. PICK d \in D : \A e \in D : d <= e
  <2> HIDE DEF D
  <2> QED BY <1>1, SmallestNat
<1>3. PICK x \in T : d = n - x
  OBVIOUS
<1>4. ASSUME NEW y \in T PROVE y <= x
  <2>1. d <= n - y
    BY <1>2
  <2> QED BY <2>1, <1>3
<1> QED BY <1>4

(* The segments of a claimed range tile it (batch_segmentation's contract). *)
LEMMA SegmentsTile ==
  ASSUME NEW lo \in Nat, NEW hi \in Nat, lo <= hi,
         NEW cuts \in SUBSET ((lo + 1) .. hi)
  PROVE  /\ SegmentsOf(lo, hi, cuts) \subseteq Segment
         /\ Tiles(SegmentsOf(lo, hi, cuts), lo, hi + 1)
<1> DEFINE segs == SegmentsOf(lo, hi, cuts)
<1>0. \A c \in cuts : c \in Nat /\ lo < c /\ c <= hi
  OBVIOUS
<1>1. ASSUME NEW s \in segs
      PROVE  /\ s \in [start : {lo} \cup cuts, end : {hi} \cup {c - 1 : c \in cuts}]
             /\ s.start \in Nat /\ s.end \in Nat
             /\ lo <= s.start /\ s.start <= s.end /\ s.end <= hi
             /\ \A c \in cuts : c <= s.start \/ s.end < c
  <2>1. /\ s \in [start : {lo} \cup cuts, end : {hi} \cup {c - 1 : c \in cuts}]
        /\ s.start <= s.end
        /\ \A c \in cuts : c <= s.start \/ s.end < c
    BY DEF SegmentsOf
  <2>2. s.start \in {lo} \cup cuts /\ s.end \in {hi} \cup {c - 1 : c \in cuts}
    BY <2>1
  <2>3. s.start \in Nat /\ lo <= s.start
    <3>1. s.start = lo \/ s.start \in cuts
      BY <2>2
    <3>2. ASSUME NEW c \in cuts PROVE c \in Nat /\ lo <= c
      BY <1>0
    <3>3. lo \in Nat /\ lo <= lo
      OBVIOUS
    <3> QED BY <3>1, <3>2, <3>3
  <2>4. s.end = hi \/ \E c \in cuts : s.end = c - 1
    BY <2>2
  <2>5. s.end \in Nat /\ s.end <= hi
    BY <2>4, <1>0
  <2> QED BY <2>1, <2>3, <2>5
<1>2. segs \subseteq Segment
  BY <1>1 DEF Segment
<1>3. ASSUME NEW n \in lo .. hi
      PROVE  \E s \in segs : s.start <= n /\ n <= s.end
  <2> DEFINE Below == {x \in {lo} \cup cuts : x <= n}
             Above == {x \in {hi + 1} \cup cuts : n < x}
  <2>1. Below \in SUBSET (0 .. n) /\ lo \in Below /\ n \in Nat
    <3>1. n \in Nat /\ lo <= n
      OBVIOUS
    <3>2. \A x \in Below : x \in 0 .. n
      BY <1>0, <3>1
    <3> QED BY <3>1, <3>2
  <2>2. PICK a \in Below : \A x \in Below : x <= a
    <3> HIDE DEF Below
    <3> QED BY <2>1, LargestNat
  <2>3. Above \in SUBSET Nat /\ hi + 1 \in Above
    <3>1. n < hi + 1 /\ hi + 1 \in Nat
      OBVIOUS
    <3>2. \A x \in Above : x \in Nat
      BY <1>0, <3>1
    <3> QED BY <3>1, <3>2
  <2>4. PICK b \in Above : \A x \in Above : b <= x
    <3> HIDE DEF Above
    <3> QED BY <2>3, SmallestNat
  <2> DEFINE s == [start |-> a, end |-> b - 1]
  <2>5. s.end \in {hi} \cup {c - 1 : c \in cuts}
    BY <2>4
  <2>6. s.start \in {lo} \cup cuts /\ s.start <= n /\ n <= s.end /\ s.start <= s.end
    BY <2>2, <2>4
  <2>7. \A c \in cuts : c <= s.start \/ s.end < c
    BY <2>2, <2>4
  <2>8. s \in segs
    BY <2>5, <2>6, <2>7 DEF SegmentsOf
  <2> QED BY <2>6, <2>8
<1>4. ASSUME NEW s \in segs, NEW t \in segs, s # t
      PROVE  s.end < t.start \/ t.end < s.start
  <2>1. CASE s.start < t.start
    BY <2>1, <1>1
  <2>2. CASE t.start < s.start
    BY <2>2, <1>1
  <2>3. CASE s.start = t.start
    <3>1. s.end # t.end
      BY <2>3, <1>1, <1>4
    <3>2. CASE s.end < t.end
      <4>1. s.end + 1 \in cuts
        BY <3>2, <1>1
      <4> QED BY <4>1, <2>3, <3>2, <1>1
    <3>3. CASE t.end < s.end
      <4>1. t.end + 1 \in cuts
        BY <3>3, <1>1
      <4> QED BY <4>1, <2>3, <3>3, <1>1
    <3> QED BY <3>1, <3>2, <3>3, <1>1
  <2> QED BY <2>1, <2>2, <2>3, <1>1
<1>5. \A s \in segs : lo <= s.start /\ s.start <= s.end /\ s.end < hi + 1
  BY <1>1
<1>6. \A n \in lo .. ((hi + 1) - 1) : \E s \in segs : s.start <= n /\ n <= s.end
  BY <1>3
<1>7. \A s, t \in segs : s # t => s.end < t.start \/ t.end < s.start
  BY <1>4
<1> QED
  <2> HIDE DEF segs
  <2> QED BY <1>2, <1>5, <1>6, <1>7 DEF Tiles, segs

(* LastSegment picks the segment that ends the claimed range. *)
LEMMA LastSegmentEndsTheRange ==
  ASSUME NEW lo \in Nat, NEW hi \in Nat, lo <= hi,
         NEW segs, segs \subseteq Segment, Tiles(segs, lo, hi + 1)
  PROVE  /\ LastSegment(segs) \in segs
         /\ LastSegment(segs).end = hi
         /\ \A t \in segs : t # LastSegment(segs) => t.end < LastSegment(segs).start
<1>1. \A s \in segs : s.start \in Nat /\ s.end \in Nat
  BY DEF Segment
<1>2. \A s \in segs : s.start <= s.end /\ s.end <= hi
  BY <1>1 DEF Tiles
<1>3. PICK z \in segs : z.start <= hi /\ hi <= z.end
  <2>1. hi \in lo .. ((hi + 1) - 1)
    OBVIOUS
  <2> QED BY <2>1 DEF Tiles
<1>4. \A s, t \in segs : s # t => s.end < t.start \/ t.end < s.start
  BY DEF Tiles
<1>5. \A t \in segs : t # z => t.end < z.start
  BY <1>1, <1>2, <1>3, <1>4
<1>6. \A t \in segs : t.start <= z.start
  BY <1>1, <1>2, <1>5
<1>7. LastSegment(segs) \in segs /\ \A t \in segs : t.start <= LastSegment(segs).start
  BY <1>6 DEF LastSegment
<1>8. LastSegment(segs) = z
  BY <1>7, <1>1, <1>2, <1>5
<1> QED BY <1>8, <1>5, <1>3, <1>1, <1>2

(* The plan's finalized segments tile the claim up to the next start. *)
LEMMA PlanTiles ==
  ASSUME NEW lo \in Nat, NEW hi \in Nat, lo <= hi,
         NEW cuts \in SUBSET ((lo + 1) .. hi),
         NEW eofIdentified \in BOOLEAN
  PROVE  LET segs == SegmentsOf(lo, hi, cuts)
             finalized == FinalizedSegments(segs, eofIdentified)
             next == NextSegmentStart(segs, eofIdentified, hi)
         IN  /\ finalized \subseteq Segment
             /\ next \in lo .. (hi + 1)
             /\ eofIdentified \/ next <= hi
             /\ Tiles(finalized, lo, next)
<1> DEFINE segs == SegmentsOf(lo, hi, cuts)
           last == LastSegment(segs)
<1>1. segs \subseteq Segment /\ Tiles(segs, lo, hi + 1)
  BY SegmentsTile
<1>2. CASE eofIdentified
  BY <1>1, <1>2 DEF FinalizedSegments, NextSegmentStart
<1>3. CASE ~ eofIdentified
  <2> HIDE DEF segs
  <2>1. /\ last \in segs
        /\ last.end = hi
        /\ \A t \in segs : t # last => t.end < last.start
    BY <1>1, LastSegmentEndsTheRange
  <2>2. last.start \in lo .. hi
    BY <2>1, <1>1 DEF Tiles, Segment
  <2>3. Tiles(segs \ {last}, lo, last.start)
    <3>1. \A s \in segs \ {last} : lo <= s.start /\ s.start <= s.end /\ s.end < last.start
      BY <1>1, <2>1 DEF Tiles
    <3>2. ASSUME NEW n \in lo .. (last.start - 1)
          PROVE  \E s \in segs \ {last} : s.start <= n /\ n <= s.end
      <4>1. n \in lo .. ((hi + 1) - 1) /\ ~ (last.start <= n)
        BY <2>2
      <4>2. PICK s \in segs : s.start <= n /\ n <= s.end
        BY <4>1, <1>1 DEF Tiles
      <4> QED BY <4>1, <4>2
    <3>3. \A s, t \in segs \ {last} : s # t => s.end < t.start \/ t.end < s.start
      BY <1>1 DEF Tiles
    <3> QED BY <3>1, <3>2, <3>3 DEF Tiles
  <2>4. /\ FinalizedSegments(segs, eofIdentified) = segs \ {last}
        /\ NextSegmentStart(segs, eofIdentified, hi) = last.start
    BY <1>3 DEF FinalizedSegments, NextSegmentStart
  <2>5. last.start \in lo .. (hi + 1) /\ last.start <= hi
    BY <2>2
  <2> QED BY <1>1, <2>3, <2>4, <2>5 DEF segs
<1> QED BY <1>2, <1>3

(* Two tilings side by side are one tiling. *)
LEMMA TilesExtend ==
  ASSUME NEW a \in Nat, NEW b \in Nat, NEW c \in Nat, a <= b, b <= c,
         NEW S, S \subseteq Segment, NEW T, T \subseteq Segment,
         Tiles(S, a, b), Tiles(T, b, c)
  PROVE  Tiles(S \cup T, a, c)
<1>1. \A s \in S \cup T : s.start \in Nat /\ s.end \in Nat
  BY DEF Segment
<1>2. \A s \in S : a <= s.start /\ s.start <= s.end /\ s.end < b
  BY DEF Tiles
<1>3. \A t \in T : b <= t.start /\ t.start <= t.end /\ t.end < c
  BY DEF Tiles
<1>4. \A s \in S \cup T : a <= s.start /\ s.start <= s.end /\ s.end < c
  BY <1>1, <1>2, <1>3
<1>5. ASSUME NEW n \in a .. (c - 1)
      PROVE  \E s \in S \cup T : s.start <= n /\ n <= s.end
  <2>1. CASE n < b
    BY <2>1 DEF Tiles
  <2>2. CASE b <= n
    BY <2>2 DEF Tiles
  <2> QED BY <2>1, <2>2
<1>6. \A s, t \in S \cup T : s # t => s.end < t.start \/ t.end < s.start
  <2> SUFFICES ASSUME NEW s \in S \cup T, NEW t \in S \cup T, s # t
               PROVE  s.end < t.start \/ t.end < s.start
    OBVIOUS
  <2>1. CASE s \in S /\ t \in S
    BY <2>1 DEF Tiles
  <2>2. CASE s \in T /\ t \in T
    BY <2>2 DEF Tiles
  <2>3. CASE s \in S /\ t \in T
    BY <2>3, <1>1, <1>2, <1>3
  <2>4. CASE s \in T /\ t \in S
    BY <2>4, <1>1, <1>2, <1>3
  <2> QED BY <2>1, <2>2, <2>3, <2>4
<1> QED BY <1>4, <1>5, <1>6 DEF Tiles

(* A tiling of a nonempty range is not empty, of an empty one it is. *)
LEMMA TilesEmpty ==
  ASSUME NEW a \in Nat, NEW b \in Nat, a <= b,
         NEW S, S \subseteq Segment, Tiles(S, a, b)
  PROVE  S = {} <=> a = b
<1>1. \A s \in S : s.start \in Nat /\ s.end \in Nat
                   /\ a <= s.start /\ s.start <= s.end /\ s.end < b
  BY DEF Tiles, Segment
<1>2. a < b => \E s \in S : s.start <= a
  BY DEF Tiles
<1> QED BY <1>1, <1>2
--------------------------------------------------------------------------------
(***************************************************************************)
(* Safety and refinement.                                                  *)
(***************************************************************************)
(* A worker that is not idle executes the job of some claim. *)
WorkersHaveClaims == \A w \in Workers : pc[w] # "idle" => run[w].claim \in Claim

(* The cursor stays inside the log: at most one behind the last message. *)
CursorInLog == nextStart <= lastSeq + 1

(* The inductive invariant behind the safety of commits. *)
IInv ==
  /\ TypeOK
  /\ WorkersHaveClaims
  /\ LeaseCoversPending
  /\ CursorInLog
  /\ FinalizedPrefixTiled

--------------------------------------------------------------------------------
LEMMA ResumeType ==
  ASSUME NEW r \in Reasons, NEW o \in {"enqueued", "nothing", "failed"}
  PROVE  Resume(r, o) \in Labels
BY DEF Resume, Reasons, Labels

LEMMA IdleTypes ==
  /\ IdleRun \in Run
  /\ FreeJob \in Job
  /\ NoClaim \notin Claim
BY SegmentationAssumption DEF IdleRun, Run, FreeJob, Job, NoClaim, Claim, Segment

(* A lease, and the claim of a job that holds it, is a range of messages. *)
LEMMA LeaseType ==
  ASSUME TypeOK, active # NoClaim
  PROVE  active \in Claim /\ active.start \in Nat /\ active.end \in Nat
BY DEF TypeOK, Claim, Segment

LEMMA InitIInv == Init => IInv
<1> SUFFICES ASSUME Init PROVE IInv
  OBVIOUS
<1>1. TypeOK
  BY IdleTypes DEF Init, TypeOK, Labels, Reasons
<1>2. WorkersHaveClaims
  BY DEF Init, WorkersHaveClaims, Procs
<1>3. LeaseCoversPending /\ CursorInLog
  BY DEF Init, LeaseCoversPending, CursorInLog
<1>4. FinalizedPrefixTiled
  BY DEF Init, FinalizedPrefixTiled, Tiles
<1> QED BY <1>1, <1>2, <1>3, <1>4 DEF IInv

(* What a commit that is accepted writes. *)
LEMMA CommitEffect ==
  ASSUME IInv, NEW w \in Workers, pc[w] = "segment",
         NEW cuts \in SUBSET ((run[w].claim.start + 1) .. run[w].claim.end),
         HoldsLease(w)
  PROVE  LET segs == SegmentsOf(run[w].claim.start, run[w].claim.end, cuts)
             finalized == FinalizedSegments(segs, run[w].eof)
             next == NextSegmentStart(segs, run[w].eof, run[w].claim.end)
         IN  /\ active \in Claim /\ active = run[w].claim
             /\ active.start = nextStart
             /\ active.start \in Nat /\ active.end \in Nat
             /\ active.end <= lastSeq /\ lastSeq \in Nat
             /\ finalized \subseteq Segment
             /\ next \in Nat /\ nextStart <= next /\ next <= active.end + 1
             /\ run[w].eof => next = active.end + 1
             /\ ~ run[w].eof => next <= active.end
             /\ Tiles(finalized, nextStart, next)
<1>1. run[w].claim \in Claim
  BY DEF IInv, WorkersHaveClaims
<1>2. active = run[w].claim /\ active # NoClaim
  BY <1>1, IdleTypes DEF HoldsLease
<1>3. /\ active \in Claim /\ active.start \in Nat /\ active.end \in Nat
      /\ active.start = nextStart /\ active.start <= active.end /\ active.end <= lastSeq
  BY <1>2, LeaseType DEF IInv, LeaseCoversPending
<1>4. lastSeq \in Nat
  BY <1>3 DEF IInv, TypeOK
<1>5. run[w].eof \in BOOLEAN
  BY DEF IInv, TypeOK, Run
<1> DEFINE segs == SegmentsOf(active.start, active.end, cuts)
           finalized == FinalizedSegments(segs, run[w].eof)
           next == NextSegmentStart(segs, run[w].eof, active.end)
<1>6. /\ finalized \subseteq Segment
      /\ next \in active.start .. (active.end + 1)
      /\ run[w].eof \/ next <= active.end
      /\ Tiles(finalized, active.start, next)
  <2>1. cuts \in SUBSET ((active.start + 1) .. active.end)
    BY <1>2
  <2> QED BY <2>1, <1>3, <1>5, PlanTiles
<1>7. run[w].eof => next = active.end + 1
  BY DEF NextSegmentStart
<1>8. next \in Nat /\ nextStart <= next /\ next <= active.end + 1
  <2> HIDE DEF next
  <2> QED BY <1>6, <1>3
<1> QED BY <1>2, <1>3, <1>4, <1>6, <1>7, <1>8

--------------------------------------------------------------------------------
(***************************************************************************)
(* Types: one lemma per action that writes more than a label.              *)
(***************************************************************************)
Typed == TypeOK /\ WorkersHaveClaims

LEMMA IngestTyped ==
  ASSUME Typed, NEW c \in Clients, NEW n \in Nat, NEW isEof \in BOOLEAN,
         NEW newGaps \in SUBSET Nat, Ingest(c, n, isEof, newGaps)
  PROVE  Typed'
<1>1. lastSeq' \in Nat \cup {-1}
  BY DEF Typed, TypeOK, Ingest
<1>2. gaps' \in SUBSET Nat /\ eof' \in BOOLEAN
  BY DEF Typed, TypeOK, Ingest
<1>3. pc' \in [Procs -> Labels] /\ \A w \in Workers : pc'[w] = pc[w]
  BY SegmentationAssumption DEF Typed, TypeOK, Ingest, Goto, Labels, Procs
<1>4. TypeOK'
  BY <1>1, <1>2, <1>3 DEF Typed, TypeOK, Ingest
<1>5. WorkersHaveClaims'
  BY <1>3 DEF Typed, WorkersHaveClaims, Ingest
<1> QED BY <1>4, <1>5 DEF Typed

LEMMA AppendMessageTyped ==
  ASSUME Typed, NEW c \in Clients, AppendMessage(c) \/ ImportBatch(c)
  PROVE  Typed'
<1>1. ASSUME NEW n \in Nat, NEW newGaps \in PossibleGaps(n)
      PROVE  newGaps \in SUBSET Nat
  <2>1. lastSeq + 1 \in Nat /\ lastSeq + n \in Int
    BY DEF Typed, TypeOK
  <2> QED BY <2>1, <1>1 DEF PossibleGaps
<1>2. CASE AppendMessage(c)
  BY <1>1, <1>2, IngestTyped DEF AppendMessage
<1>3. CASE ImportBatch(c)
  <2>1. PICK n \in 1 .. MaxBatch : \E newGaps \in PossibleGaps(n) : Ingest(c, n, TRUE, newGaps)
    BY <1>3 DEF ImportBatch
  <2>2. n \in Nat
    BY SegmentationAssumption
  <2> QED BY <1>1, <2>1, <2>2, IngestTyped
<1> QED BY <1>2, <1>3

(* A step that only moves one request or worker on to another label. *)
LEMMA GotoTyped ==
  ASSUME Typed, NEW p \in Procs, NEW label \in Labels, Goto(p, label),
         p \in Workers => pc[p] # "idle",
         UNCHANGED run
  PROVE  pc' \in [Procs -> Labels] /\ WorkersHaveClaims'
BY DEF Typed, TypeOK, WorkersHaveClaims, Goto, Procs

LEMMA ImportEmptyBatchTyped ==
  ASSUME Typed, NEW c \in Clients, ImportEmptyBatch(c)
  PROVE  Typed'
<1>1. c \in Procs /\ c \notin Workers /\ "recover" \in Labels
  BY SegmentationAssumption DEF Procs, Labels
<1>2. pc' \in [Procs -> Labels] /\ WorkersHaveClaims'
  BY <1>1, GotoTyped DEF ImportEmptyBatch
<1> QED BY <1>2 DEF Typed, TypeOK, ImportEmptyBatch, conversation

LEMMA RecoverStaleLeaseTyped ==
  ASSUME TypeOK, RecoverStaleLease
  PROVE  nextStart' \in Nat /\ active' \in Claim \cup {NoClaim} /\ expired' \in BOOLEAN
<1>1. CASE StaleLease
  BY <1>1, LeaseType DEF StaleLease, RecoverStaleLease, Release
<1>2. CASE ~ StaleLease
  BY <1>2 DEF RecoverStaleLease, TypeOK
<1> QED BY <1>1, <1>2

LEMMA RecoverTyped ==
  ASSUME Typed, NEW p \in Procs, Recover(p)
  PROVE  Typed'
<1>1. nextStart' \in Nat /\ active' \in Claim \cup {NoClaim} /\ expired' \in BOOLEAN
  BY RecoverStaleLeaseTyped DEF Typed, Recover
<1>2. pc' \in [Procs -> Labels] /\ WorkersHaveClaims'
  BY GotoTyped DEF Recover, Labels
<1> QED BY <1>1, <1>2 DEF Typed, TypeOK, Recover

LEMMA TryClaimTyped ==
  ASSUME Typed, NEW p \in Procs, TryClaim(p)
  PROVE  Typed'
<1>1. CASE ClaimReady
  <2>1. [start |-> nextStart, end |-> lastSeq] \in Claim
    BY <1>1 DEF ClaimReady, Typed, TypeOK, Claim, Segment
  <2>2. active' \in Claim \cup {NoClaim} /\ expired' \in BOOLEAN
        /\ held' \in [Procs -> Claim \cup {NoClaim}]
    BY <1>1, <2>1 DEF TryClaim, Typed, TypeOK
  <2>3. pc' \in [Procs -> Labels] /\ WorkersHaveClaims'
    BY <1>1, GotoTyped DEF TryClaim, Labels
  <2> QED BY <2>2, <2>3 DEF Typed, TypeOK, TryClaim
<1>2. CASE ~ ClaimReady
  <2>1. Resume(why[p], "nothing") \in Labels
    BY ResumeType DEF Typed, TypeOK
  <2>2. pc' \in [Procs -> Labels] /\ WorkersHaveClaims'
    BY <1>2, <2>1, GotoTyped DEF TryClaim
  <2> QED BY <1>2, <2>2 DEF Typed, TypeOK, TryClaim
<1> QED BY <1>1, <1>2

LEMMA PushJobTyped ==
  ASSUME Typed, NEW p \in Procs, PushJob(p)
  PROVE  Typed'
<1>1. Resume(why[p], "enqueued") \in Labels
  BY ResumeType DEF Typed, TypeOK
<1>2. pc' \in [Procs -> Labels] /\ WorkersHaveClaims'
  BY <1>1, GotoTyped DEF PushJob
<1>3. held[p] \in Claim \cup {NoClaim}
  BY DEF Typed, TypeOK
<1>4. jobs' \in [JobIds -> Job]
  <2>1. [claim |-> held[p], owner |-> NoWorker] \in Job
    BY <1>3 DEF Job
  <2> QED BY <2>1 DEF Typed, TypeOK, PushJob
<1>5. held' \in [Procs -> Claim \cup {NoClaim}]
  BY DEF Typed, TypeOK, PushJob
<1> QED BY <1>2, <1>4, <1>5 DEF Typed, TypeOK, PushJob, conversation

LEMMA TryClaimFailsTyped ==
  ASSUME Typed, NEW p \in Procs, TryClaimFails(p)
  PROVE  Typed'
<1>1. Resume(why[p], "failed") \in Labels
  BY ResumeType DEF Typed, TypeOK
<1>2. pc' \in [Procs -> Labels] /\ WorkersHaveClaims'
  BY <1>1, GotoTyped DEF TryClaimFails
<1>3. held' \in [Procs -> Claim \cup {NoClaim}] /\ faults' \in Nat
  BY DEF Typed, TypeOK, TryClaimFails, Fault
<1> QED BY <1>2, <1>3 DEF Typed, TypeOK, TryClaimFails, conversation

LEMMA RequestCrashesTyped ==
  ASSUME Typed, NEW c \in Clients, RequestCrashes(c)
  PROVE  Typed'
<1>1. c \in Procs /\ "idle" \in Labels
  BY DEF Procs, Labels
<1>2. pc' \in [Procs -> Labels] /\ WorkersHaveClaims'
  BY <1>1, SegmentationAssumption, GotoTyped DEF RequestCrashes
<1>3. held' \in [Procs -> Claim \cup {NoClaim}]
  BY <1>1 DEF Typed, TypeOK, RequestCrashes
<1>4. faults' \in Nat
  BY DEF Typed, TypeOK, RequestCrashes, Fault
<1> QED BY <1>2, <1>3, <1>4 DEF Typed, TypeOK, RequestCrashes, conversation

LEMMA FetchTyped ==
  ASSUME Typed, NEW w \in Workers, Fetch(w)
  PROVE  Typed'
<1>1. PICK j \in JobIds :
        /\ jobs[j].claim # NoClaim
        /\ jobs' = [jobs EXCEPT ![j].owner = w]
        /\ run' = [run EXCEPT ![w] = [IdleRun EXCEPT !.job = j, !.claim = jobs[j].claim]]
  BY DEF Fetch
<1>2. jobs[j] \in Job
  BY DEF Typed, TypeOK
<1>3. jobs[j].claim \in Claim
  BY <1>1, <1>2 DEF Job
<1>4. jobs' \in [JobIds -> Job]
  <2>1. [jobs[j] EXCEPT !.owner = w] \in Job
    BY <1>2 DEF Job
  <2> QED BY <1>1, <2>1 DEF Typed, TypeOK
<1> DEFINE r == [IdleRun EXCEPT !.job = j, !.claim = jobs[j].claim]
<1>5. r \in Run /\ r.claim = jobs[j].claim
  BY <1>3, IdleTypes DEF Run, IdleRun
<1>6. run' \in [Workers -> Run] /\ run'[w].claim \in Claim
      /\ \A v \in Workers : v # w => run'[v] = run[v]
  <2> HIDE DEF r
  <2> QED BY <1>1, <1>3, <1>5 DEF Typed, TypeOK, r
<1>7. pc' \in [Procs -> Labels] /\ \A v \in Workers : v # w => pc'[v] = pc[v]
  BY DEF Typed, TypeOK, Fetch, Goto, Procs, Labels
<1>8. WorkersHaveClaims'
  BY <1>6, <1>7 DEF Typed, WorkersHaveClaims
<1> QED BY <1>4, <1>6, <1>7, <1>8 DEF Typed, TypeOK, Fetch, conversation

LEMMA ValidateTyped ==
  ASSUME Typed, NEW w \in Workers, Validate(w)
  PROVE  Typed'
<1>1. run[w] \in Run /\ run[w].claim \in Claim /\ pc[w] = "validate"
  BY DEF Typed, TypeOK, WorkersHaveClaims, Validate
<1>2. CASE HoldsLease(w)
  <2>1. run' = [run EXCEPT ![w].eof = eof]
    BY <1>2 DEF Validate
  <2>2. run' \in [Workers -> Run] /\ \A v \in Workers : run'[v].claim = run[v].claim
    BY <2>1, <1>1 DEF Typed, TypeOK, Run
  <2>3. pc' \in [Procs -> Labels] /\ \A v \in Workers : v # w => pc'[v] = pc[v]
    BY <1>2 DEF Typed, TypeOK, Validate, Goto, Procs, Labels
  <2>4. WorkersHaveClaims'
    BY <1>1, <2>2, <2>3 DEF Typed, WorkersHaveClaims
  <2> QED BY <1>2, <2>2, <2>3, <2>4 DEF Typed, TypeOK, Validate, conversation
<1>3. CASE ~ HoldsLease(w)
  <2>1. pc' \in [Procs -> Labels] /\ WorkersHaveClaims'
    BY <1>1, <1>3, GotoTyped DEF Validate, Procs, Labels
  <2>2. why' \in [Procs -> Reasons]
    BY <1>3 DEF Typed, TypeOK, Validate, Reasons
  <2> QED BY <1>3, <2>1, <2>2 DEF Typed, TypeOK, Validate, conversation
<1> QED BY <1>2, <1>3

LEMMA FollowUpTyped ==
  ASSUME Typed, NEW w \in Workers, FollowUp(w), pc[w] # "idle", UNCHANGED run
  PROVE  pc' \in [Procs -> Labels] /\ WorkersHaveClaims' /\ why' \in [Procs -> Reasons]
<1>1. pc' \in [Procs -> Labels] /\ WorkersHaveClaims'
  BY GotoTyped DEF FollowUp, Procs, Labels
<1>2. why' \in [Procs -> Reasons]
  BY DEF FollowUp, Typed, TypeOK, Reasons
<1> QED BY <1>1, <1>2

LEMMA EnqueueEpisodesTyped ==
  ASSUME Typed, NEW w \in Workers, EnqueueEpisodes(w)
  PROVE  Typed'
<1>1. run[w].spans \in SUBSET Segment
  BY DEF Typed, TypeOK, Run
<1>2. episodeJobs' \in SUBSET Segment
  BY <1>1 DEF Typed, TypeOK, EnqueueEpisodes, EpisodesToCreate
<1>3. pc' \in [Procs -> Labels] /\ WorkersHaveClaims' /\ why' \in [Procs -> Reasons]
  <2>1. CASE run[w].spans = {}
    BY <2>1, FollowUpTyped DEF EnqueueEpisodes
  <2>2. CASE run[w].spans # {}
    <3>1. pc' \in [Procs -> Labels] /\ WorkersHaveClaims'
      BY <2>2, GotoTyped DEF EnqueueEpisodes, Procs, Labels
    <3> QED BY <2>2, <3>1 DEF EnqueueEpisodes, Typed, TypeOK
  <2> QED BY <2>1, <2>2
<1> QED BY <1>2, <1>3 DEF Typed, TypeOK, EnqueueEpisodes

LEMMA EnqueueReviewsTyped ==
  ASSUME Typed, NEW w \in Workers, EnqueueReviews(w)
  PROVE  Typed'
<1>1. pc' \in [Procs -> Labels] /\ WorkersHaveClaims' /\ why' \in [Procs -> Reasons]
  BY FollowUpTyped DEF EnqueueReviews
<1> QED BY <1>1 DEF Typed, TypeOK, EnqueueReviews, conversation

LEMMA FailsTyped ==
  ASSUME Typed, NEW w \in Workers, LoadFails(w) \/ ProcessingFails(w) \/ AbortFails(w)
  PROVE  Typed'
<1>1. pc' \in [Procs -> Labels] /\ WorkersHaveClaims'
  BY GotoTyped DEF LoadFails, ProcessingFails, AbortFails, Procs, Labels
<1>2. faults' \in Nat
  BY DEF Typed, TypeOK, LoadFails, ProcessingFails, AbortFails, Fault
<1> QED
  BY <1>1, <1>2 DEF Typed, TypeOK, LoadFails, ProcessingFails, AbortFails, conversation

LEMMA AbortTyped ==
  ASSUME Typed, NEW w \in Workers, Abort(w)
  PROVE  Typed'
<1>1. run[w].claim \in Claim
  BY DEF Typed, WorkersHaveClaims, Abort
<1>2. nextStart' \in Nat /\ active' \in Claim \cup {NoClaim} /\ expired' \in BOOLEAN
  BY <1>1 DEF Typed, TypeOK, Abort, Release, Claim, Segment
<1>3. pc' \in [Procs -> Labels] /\ WorkersHaveClaims'
  BY GotoTyped DEF Abort, Procs, Labels
<1>4. why' \in [Procs -> Reasons]
  BY DEF Typed, TypeOK, Abort, Reasons
<1> QED BY <1>2, <1>3, <1>4 DEF Typed, TypeOK, Abort

LEMMA StopTyped ==
  ASSUME Typed, NEW w \in Workers, Stop(w)
  PROVE  /\ pc' \in [Procs -> Labels] /\ why' \in [Procs -> Reasons]
         /\ held' \in [Procs -> Claim \cup {NoClaim}] /\ run' \in [Workers -> Run]
         /\ WorkersHaveClaims'
<1>1. pc' \in [Procs -> Labels] /\ pc'[w] = "idle"
      /\ \A v \in Workers : v # w => pc'[v] = pc[v]
  BY DEF Typed, TypeOK, Stop, Goto, Procs, Labels
<1>2. run' \in [Workers -> Run] /\ \A v \in Workers : v # w => run'[v] = run[v]
  BY IdleTypes DEF Typed, TypeOK, Stop
<1>3. why' \in [Procs -> Reasons] /\ held' \in [Procs -> Claim \cup {NoClaim}]
  BY DEF Typed, TypeOK, Stop, Reasons
<1>4. WorkersHaveClaims'
  BY <1>1, <1>2 DEF Typed, WorkersHaveClaims
<1> QED BY <1>1, <1>2, <1>3, <1>4

LEMMA JobDoneTyped ==
  ASSUME Typed, NEW w \in Workers, Ack(w) \/ Retry(w) \/ GiveUp(w)
  PROVE  Typed'
<1>1. jobs' \in [JobIds -> Job]
  <2>1. \A j \in JobIds : jobs[j] \in Job /\ [jobs[j] EXCEPT !.owner = NoWorker] \in Job
    BY DEF Typed, TypeOK, Job
  <2> QED BY <2>1, IdleTypes DEF Ack, Retry, GiveUp
<1>2. Stop(w)
  BY DEF Ack, Retry, GiveUp
<1>3. UNCHANGED <<conversation, faults>>
  BY DEF Ack, Retry, GiveUp
<1> QED BY <1>1, <1>2, <1>3, StopTyped DEF Typed, TypeOK, conversation

LEMMA WorkerCrashesTyped ==
  ASSUME Typed, NEW w \in Workers, WorkerCrashes(w)
  PROVE  Typed'
<1>1. faults' \in Nat
  BY DEF Typed, TypeOK, WorkerCrashes, Fault
<1> QED BY <1>1, StopTyped DEF Typed, TypeOK, WorkerCrashes, conversation

LEMMA ReenqueueTyped ==
  ASSUME Typed, NEW j \in JobIds, ReenqueueOrphan(j) \/ ReenqueueStalled(j)
  PROVE  Typed'
<1>1. jobs' \in [JobIds -> Job]
  <2>1. [jobs[j] EXCEPT !.owner = NoWorker] \in Job
    BY DEF Typed, TypeOK, Job
  <2> QED BY <2>1 DEF Typed, TypeOK, ReenqueueOrphan, ReenqueueStalled
<1>2. faults' \in Nat
  BY DEF Typed, TypeOK, ReenqueueOrphan, ReenqueueStalled, Fault
<1>3. UNCHANGED <<conversation, control>>
  BY DEF ReenqueueOrphan, ReenqueueStalled
<1> QED BY <1>1, <1>2, <1>3 DEF Typed, TypeOK, WorkersHaveClaims, conversation, control

LEMMA StatusPollTyped ==
  ASSUME Typed, StatusPoll
  PROVE  Typed'
<1>1. nextStart' \in Nat /\ active' \in Claim \cup {NoClaim} /\ expired' \in BOOLEAN
  BY RecoverStaleLeaseTyped DEF Typed, StatusPoll
<1> QED BY <1>1 DEF Typed, TypeOK, WorkersHaveClaims, StatusPoll, control

LEMMA LeaseExpiresTyped ==
  ASSUME Typed, LeaseExpires
  PROVE  Typed'
<1>1. faults' \in Nat
  BY DEF Typed, TypeOK, LeaseExpires, Fault
<1> QED BY <1>1 DEF Typed, TypeOK, WorkersHaveClaims, LeaseExpires, control
--------------------------------------------------------------------------------
(***************************************************************************)
(* What a step can do to the cursor, the lease and the spans.              *)
(***************************************************************************)
Unmoved == UNCHANGED <<lastSeq, nextStart, active, spans>>

Grows ==
  /\ lastSeq' \in Nat /\ lastSeq' > lastSeq
  /\ UNCHANGED <<nextStart, active, spans>>

Takes ==
  /\ active = NoClaim /\ nextStart <= lastSeq
  /\ active' = [start |-> nextStart, end |-> lastSeq]
  /\ UNCHANGED <<lastSeq, nextStart, spans>>

GivesBack ==
  /\ active # NoClaim /\ active' = NoClaim
  /\ nextStart' = active.start
  /\ UNCHANGED <<lastSeq, spans>>

Finalizes ==
  /\ active # NoClaim /\ active' = NoClaim
  /\ nextStart' \in Nat /\ nextStart <= nextStart' /\ nextStart' <= active.end + 1
  /\ \E finalized \in SUBSET Segment :
       /\ spans' = spans \cup finalized
       /\ Tiles(finalized, nextStart, nextStart')
  /\ UNCHANGED lastSeq

Moves == Unmoved \/ Grows \/ Takes \/ GivesBack \/ Finalizes

(* A commit either writes a plan for the range it holds or nothing. *)
LEMMA CommitMoves ==
  ASSUME IInv, NEW w \in Workers, Commit(w)
  PROVE  (Unmoved \/ Finalizes) /\ Typed'
<1>1. /\ run[w] \in Run /\ run[w].claim \in Claim /\ pc[w] = "segment"
      /\ w \in Procs /\ TypeOK /\ WorkersHaveClaims /\ Typed
  BY DEF IInv, Typed, TypeOK, WorkersHaveClaims, Commit, Procs
<1>2. PICK cuts \in SUBSET ((run[w].claim.start + 1) .. run[w].claim.end) :
        LET segs == SegmentsOf(run[w].claim.start, run[w].claim.end, cuts)
            finalized == FinalizedSegments(segs, run[w].eof)
            next == NextSegmentStart(segs, run[w].eof, run[w].claim.end)
        IN IF CommitAccepted(w, finalized, next)
             THEN /\ spans' = spans \cup finalized
                  /\ eof' = FALSE
                  /\ nextStart' = next
                  /\ Release
                  /\ examined' = run[w].claim.end
                  /\ run' = [run EXCEPT ![w].spans = finalized, ![w].next = next]
                  /\ Goto(w, "enqueue")
             ELSE /\ Goto(w, "abort")
                  /\ UNCHANGED <<spans, eof, nextStart, active, expired, examined, run>>
  BY DEF Commit
<1> DEFINE segs == SegmentsOf(run[w].claim.start, run[w].claim.end, cuts)
           finalized == FinalizedSegments(segs, run[w].eof)
           next == NextSegmentStart(segs, run[w].eof, run[w].claim.end)
<1>3. UNCHANGED <<gaps, lastSeq, episodeJobs, jobs, why, held, faults>>
  BY DEF Commit
<1>4. CASE CommitAccepted(w, finalized, next)
  <2>1. /\ spans' = spans \cup finalized
        /\ eof' = FALSE
        /\ nextStart' = next
        /\ Release
        /\ examined' = run[w].claim.end
        /\ run' = [run EXCEPT ![w].spans = finalized, ![w].next = next]
        /\ Goto(w, "enqueue")
    BY <1>2, <1>4
  <2>2. HoldsLease(w)
    BY <1>4 DEF CommitAccepted
  <2>3. /\ active \in Claim /\ active = run[w].claim
        /\ active.end \in Nat
        /\ finalized \subseteq Segment
        /\ next \in Nat /\ nextStart <= next /\ next <= active.end + 1
        /\ Tiles(finalized, nextStart, next)
    BY <1>1, <2>2, CommitEffect
  <2> HIDE DEF finalized, next
  <2>4. Finalizes
    BY <1>3, <2>1, <2>3, IdleTypes DEF Finalizes, Release
  <2>5. /\ run' \in [Workers -> Run] /\ \A v \in Workers : run'[v].claim = run[v].claim
    BY <1>1, <2>1, <2>3 DEF TypeOK, Run
  <2>6. pc' \in [Procs -> Labels] /\ \A v \in Workers : v # w => pc'[v] = pc[v]
    BY <1>1, <2>1 DEF TypeOK, Goto, Labels
  <2>7. WorkersHaveClaims'
    BY <1>1, <2>5, <2>6 DEF WorkersHaveClaims
  <2>8. /\ spans' \in SUBSET Segment /\ eof' \in BOOLEAN /\ nextStart' \in Nat
        /\ active' \in Claim \cup {NoClaim} /\ expired' \in BOOLEAN
        /\ examined' \in Nat \cup {-1}
    BY <1>1, <2>1, <2>3 DEF TypeOK, Release
  <2>9. TypeOK'
    BY <1>1, <1>3, <2>5, <2>6, <2>8 DEF TypeOK
  <2> QED BY <2>4, <2>7, <2>9 DEF Typed
<1>5. CASE ~ CommitAccepted(w, finalized, next)
  <2>1. /\ Goto(w, "abort")
        /\ UNCHANGED <<spans, eof, nextStart, active, expired, examined, run>>
    BY <1>2, <1>5
  <2>2. pc' \in [Procs -> Labels] /\ WorkersHaveClaims'
    BY <1>1, <2>1, GotoTyped DEF Labels
  <2>3. TypeOK'
    BY <1>1, <1>3, <2>1, <2>2 DEF TypeOK
  <2> QED BY <1>3, <2>1, <2>2, <2>3 DEF Unmoved, Typed
<1> QED BY <1>4, <1>5

(* Appending writes at least one message. *)
LEMMA IngestGrows ==
  ASSUME TypeOK, NEW c \in Clients, AppendMessage(c) \/ ImportBatch(c)
  PROVE  Grows
<1>1. ASSUME NEW n \in Nat, n >= 1, NEW isEof, NEW newGaps, Ingest(c, n, isEof, newGaps)
      PROVE  Grows
  <2>1. lastSeq' = lastSeq + n /\ lastSeq \in Nat \cup {-1}
    BY <1>1 DEF Ingest, TypeOK
  <2>2. lastSeq' \in Nat /\ lastSeq' > lastSeq
    BY <1>1, <2>1
  <2> QED BY <1>1, <2>2 DEF Ingest, Grows
<1>2. CASE AppendMessage(c)
  <2>1. PICK newGaps \in PossibleGaps(1) : Ingest(c, 1, FALSE, newGaps)
    BY <1>2 DEF AppendMessage
  <2>2. 1 \in Nat /\ 1 >= 1
    OBVIOUS
  <2> QED BY <1>1, <2>1, <2>2, Zenon
<1>3. CASE ImportBatch(c)
  <2>1. PICK n \in 1 .. MaxBatch : \E newGaps \in PossibleGaps(n) : Ingest(c, n, TRUE, newGaps)
    BY <1>3 DEF ImportBatch
  <2>2. n \in Nat /\ n >= 1
    BY SegmentationAssumption
  <2> QED BY <1>1, <2>1, <2>2
<1> QED BY <1>2, <1>3

LEMMA RecoverMoves ==
  ASSUME RecoverStaleLease, UNCHANGED <<lastSeq, spans>>
  PROVE  Unmoved \/ GivesBack
BY DEF RecoverStaleLease, StaleLease, Release, Unmoved, GivesBack

LEMMA StepMoves ==
  ASSUME IInv, [Next]_vars
  PROVE  Moves /\ Typed'
<1>1. TypeOK /\ WorkersHaveClaims /\ Typed
  BY DEF IInv, Typed
<1>2. ASSUME NEW c \in Clients, AppendMessage(c) \/ ImportBatch(c)
      PROVE  Moves /\ Typed'
  BY <1>1, <1>2, IngestGrows, AppendMessageTyped DEF Moves
<1>3. ASSUME NEW c \in Clients, ImportEmptyBatch(c) \/ RequestCrashes(c)
      PROVE  Moves /\ Typed'
  <2>1. Unmoved
    BY <1>3 DEF ImportEmptyBatch, RequestCrashes, Unmoved, conversation
  <2> QED BY <1>1, <1>3, <2>1, ImportEmptyBatchTyped, RequestCrashesTyped DEF Moves
<1>4. ASSUME NEW p \in Procs, Recover(p)
      PROVE  Moves /\ Typed'
  <2>1. Unmoved \/ GivesBack
    BY <1>4, RecoverMoves DEF Recover
  <2> QED BY <1>1, <1>4, <2>1, RecoverTyped DEF Moves
<1>5. ASSUME NEW p \in Procs, TryClaim(p)
      PROVE  Moves /\ Typed'
  <2>1. Unmoved \/ Takes
    BY <1>5 DEF TryClaim, ClaimReady, Unmoved, Takes
  <2> QED BY <1>1, <1>5, <2>1, TryClaimTyped DEF Moves
<1>6. ASSUME NEW p \in Procs, PushJob(p) \/ TryClaimFails(p)
      PROVE  Moves /\ Typed'
  <2>1. Unmoved
    BY <1>6 DEF PushJob, TryClaimFails, Unmoved, conversation
  <2> QED BY <1>1, <1>6, <2>1, PushJobTyped, TryClaimFailsTyped DEF Moves
<1>7. ASSUME NEW w \in Workers, Commit(w)
      PROVE  Moves /\ Typed'
  BY <1>7, CommitMoves DEF Moves
<1>8. ASSUME NEW w \in Workers, Abort(w)
      PROVE  Moves /\ Typed'
  <2>1. run[w].claim \in Claim
    BY <1>1, <1>8 DEF WorkersHaveClaims, Abort
  <2>2. Unmoved \/ GivesBack
    BY <1>8, <2>1, IdleTypes DEF Abort, HoldsLease, Release, Unmoved, GivesBack
  <2> QED BY <1>1, <1>8, <2>2, AbortTyped DEF Moves
<1>9. ASSUME NEW w \in Workers, Fetch(w) \/ Validate(w)
      PROVE  Moves /\ Typed'
  <2>1. Unmoved
    BY <1>9 DEF Fetch, Validate, Unmoved, conversation
  <2> QED BY <1>1, <1>9, <2>1, FetchTyped, ValidateTyped DEF Moves
<1>10. ASSUME NEW w \in Workers, EnqueueEpisodes(w) \/ EnqueueReviews(w)
       PROVE  Moves /\ Typed'
  <2>1. Unmoved
    BY <1>10 DEF EnqueueEpisodes, EnqueueReviews, Unmoved, conversation
  <2> QED BY <1>1, <1>10, <2>1, EnqueueEpisodesTyped, EnqueueReviewsTyped DEF Moves
<1>11. ASSUME NEW w \in Workers, LoadFails(w) \/ ProcessingFails(w) \/ AbortFails(w)
       PROVE  Moves /\ Typed'
  <2>1. Unmoved
    BY <1>11 DEF LoadFails, ProcessingFails, AbortFails, Unmoved, conversation
  <2> QED BY <1>1, <1>11, <2>1, FailsTyped DEF Moves
<1>12. ASSUME NEW w \in Workers, Ack(w) \/ Retry(w) \/ GiveUp(w) \/ WorkerCrashes(w)
       PROVE  Moves /\ Typed'
  <2>1. Unmoved
    BY <1>12 DEF Ack, Retry, GiveUp, WorkerCrashes, Unmoved, conversation
  <2> QED BY <1>1, <1>12, <2>1, JobDoneTyped, WorkerCrashesTyped DEF Moves
<1>13. ASSUME NEW j \in JobIds, ReenqueueOrphan(j) \/ ReenqueueStalled(j)
       PROVE  Moves /\ Typed'
  <2>1. Unmoved
    BY <1>13 DEF ReenqueueOrphan, ReenqueueStalled, Unmoved, conversation
  <2> QED BY <1>1, <1>13, <2>1, ReenqueueTyped DEF Moves
<1>14. ASSUME StatusPoll
       PROVE  Moves /\ Typed'
  <2>1. Unmoved \/ GivesBack
    BY <1>14, RecoverMoves DEF StatusPoll
  <2> QED BY <1>1, <1>14, <2>1, StatusPollTyped DEF Moves
<1>15. ASSUME LeaseExpires
       PROVE  Moves /\ Typed'
  <2>1. Unmoved
    BY <1>15 DEF LeaseExpires, Unmoved
  <2> QED BY <1>1, <1>15, <2>1, LeaseExpiresTyped DEF Moves
<1>16. ASSUME UNCHANGED vars
       PROVE  Moves /\ Typed'
  <2>1. Unmoved
    BY <1>16 DEF vars, Unmoved, conversation
  <2>2. Typed'
    BY <1>1, <1>16 DEF vars, Typed, TypeOK, WorkersHaveClaims, conversation, control
  <2> QED BY <2>1, <2>2 DEF Moves
<1>17. \A p \in Clients \cup Workers : p \in Procs
  BY DEF Procs
<1> QED
  BY <1>2, <1>3, <1>4, <1>5, <1>6, <1>7, <1>8, <1>9, <1>10, <1>11, <1>12, <1>13, <1>14,
     <1>15, <1>16, <1>17 DEF Next, ClientStep, WorkerStep

(* IInv is inductive. *)
LEMMA StepIInv == IInv /\ [Next]_vars => IInv'
<1> SUFFICES ASSUME IInv, [Next]_vars PROVE IInv'
  OBVIOUS
<1>1. Moves /\ Typed' /\ Typed
  BY StepMoves DEF IInv, Typed
<1>2. TypeOK /\ LeaseCoversPending /\ CursorInLog /\ FinalizedPrefixTiled
  BY DEF IInv
<1>3. /\ nextStart \in Nat /\ lastSeq \in Nat \cup {-1} /\ spans \subseteq Segment
      /\ active # NoClaim => active.start \in Nat /\ active.end \in Nat
  BY <1>2, LeaseType DEF TypeOK
<1>4. LeaseCoversPending'
  BY <1>1, <1>2, <1>3 DEF Moves, Unmoved, Grows, Takes, GivesBack, Finalizes,
                          LeaseCoversPending
<1>5. CursorInLog'
  BY <1>1, <1>2, <1>3 DEF Moves, Unmoved, Grows, Takes, GivesBack, Finalizes,
                          LeaseCoversPending, CursorInLog
<1>6. FinalizedPrefixTiled'
  <2>1. CASE Finalizes
    <3>1. PICK finalized \in SUBSET Segment :
                 /\ spans' = spans \cup finalized
                 /\ Tiles(finalized, nextStart, nextStart')
      BY <2>1 DEF Finalizes
    <3>2. nextStart' \in Nat /\ nextStart <= nextStart'
      BY <2>1 DEF Finalizes
    <3>3. Tiles(spans \cup finalized, 0, nextStart')
      BY <1>2, <1>3, <3>1, <3>2, TilesExtend DEF FinalizedPrefixTiled
    <3> QED BY <3>1, <3>3 DEF FinalizedPrefixTiled
  <2>2. CASE ~ Finalizes
    <3>1. nextStart' = nextStart /\ spans' = spans
      BY <1>1, <1>2, <2>2 DEF Moves, Unmoved, Grows, Takes, GivesBack, LeaseCoversPending
    <3> QED BY <1>2, <3>1 DEF FinalizedPrefixTiled
  <2> QED BY <2>1, <2>2
<1> QED BY <1>1, <1>4, <1>5, <1>6 DEF IInv, Typed
--------------------------------------------------------------------------------
(* IInv holds in every state the pipeline can reach. *)
THEOREM IInvHolds == Spec => []IInv
BY InitIInv, StepIInv, PTL DEF Spec

(* Every variable keeps its type: cursors never turn negative, a lease is a
   range of sequence numbers or absent, a job row holds a claim or is free. *)
THEOREM TypeCorrect == Spec => []TypeOK
<1>1. IInv => TypeOK
  BY DEF IInv
<1> QED BY <1>1, IInvHolds, PTL

(* The finalized spans cut the messages before next_segment_start_seq into
   episodes without a gap or an overlap, however many workers, duplicates of
   jobs, expired leases and late commits there are (commit_segmentation_job). *)
THEOREM SpansTileThePrefix == Spec => []FinalizedPrefixTiled
<1>1. IInv => FinalizedPrefixTiled
  BY DEF IInv
<1> QED BY <1>1, IInvHolds, PTL

(* A lease covers existing messages from the cursor on that are not finalized
   yet (claim_segmentation_job_if_ready). *)
THEOREM LeasesCoverPendingMessages == Spec => []LeaseCoversPending
<1>1. IInv => LeaseCoversPending
  BY DEF IInv
<1> QED BY <1>1, IInvHolds, PTL
--------------------------------------------------------------------------------
(* Every step of the pipeline is a step of the log or changes nothing of it. *)
LEMMA StepRefinesLog ==
  ASSUME IInv, [Next]_vars
  PROVE  [Log!Next]_(Log!logVars)
<1>1. Moves
  BY StepMoves
<1>2. /\ nextStart \in Nat /\ lastSeq \in Nat \cup {-1} /\ spans \subseteq Segment
      /\ Tiles(spans, 0, nextStart) /\ LeaseCoversPending
      /\ active # NoClaim => active.end \in Nat
  BY LeaseType DEF IInv, TypeOK, FinalizedPrefixTiled
<1>3. CASE Unmoved \/ Takes
  BY <1>3 DEF Unmoved, Takes, Log!logVars
<1>4. CASE GivesBack
  BY <1>2, <1>4 DEF GivesBack, LeaseCoversPending, Log!logVars
<1>5. CASE Grows
  BY <1>5 DEF Grows, Log!Next, Log!Append
<1>6. CASE Finalizes
  <2>1. PICK finalized \in SUBSET Segment :
          /\ spans' = spans \cup finalized
          /\ Tiles(finalized, nextStart, nextStart')
    BY <1>6 DEF Finalizes
  <2>2. nextStart' \in Nat /\ nextStart <= nextStart' /\ nextStart' <= lastSeq + 1
        /\ lastSeq' = lastSeq
    BY <1>2, <1>6 DEF Finalizes, LeaseCoversPending
  <2>3. CASE nextStart' = nextStart
    <3>1. finalized = {}
      BY <1>2, <2>1, <2>3, TilesEmpty
    <3> QED BY <2>1, <2>2, <2>3, <3>1 DEF Log!logVars
  <2>4. CASE nextStart' # nextStart
    <3>1. \A s \in spans : s.end < nextStart
      BY <1>2 DEF Tiles
    <3>2. \A s \in finalized : nextStart <= s.start /\ s.start <= s.end
      BY <2>1 DEF Tiles
    <3>3. \A s \in finalized : s \notin spans
      BY <1>2, <3>1, <3>2 DEF Segment
    <3>4. spans' \ spans = finalized
      BY <2>1, <3>3
    <3>5. nextStart' \in (nextStart + 1) .. (lastSeq + 1)
      BY <1>2, <2>2, <2>4
    <3>6. Log!Tiles(spans' \ spans, nextStart, nextStart')
      BY <2>1, <3>4 DEF Tiles, Log!Tiles
    <3> QED BY <2>1, <2>2, <3>5, <3>6 DEF Log!Next, Log!Finalize
  <2> QED BY <2>3, <2>4
<1> QED BY <1>1, <1>3, <1>4, <1>5, <1>6 DEF Moves

(* With leases, job queue, failures and duplicates hidden, the pipeline is the
   append-only log of ConversationLog: messages are only appended, and spans are
   only added, each time tiling exactly the messages the cursor moves over. *)
THEOREM PipelineRefinesLog == Spec => RefinesLog
<1>1. Init => Log!Init
  BY DEF Init, Log!Init
<1>2. IInv /\ [Next]_vars => [Log!Next]_(Log!logVars)
  BY StepRefinesLog
<1> QED BY <1>1, <1>2, IInvHolds, PTL DEF Spec, RefinesLog, Log!Spec
--------------------------------------------------------------------------------
(* A lease that has not outlived its time to live is ended by a worker whose job
   holds it and that is committing or aborting, never by a request, a status
   query or a worker that comes late with the job of an earlier lease. *)
THEOREM LeaseKept == Spec => LeaseEndsByItsHolder
<1> DEFINE Ends == /\ active' = NoClaim
                   /\ \/ expired
                      \/ \E w \in Workers : HoldsLease(w) /\ pc[w] \in {"segment", "abort"}
<1>1. [Next]_vars => [active # NoClaim /\ active' # active => Ends]_vars
  <2> SUFFICES ASSUME Next, active # NoClaim, active' # active
               PROVE  Ends
    BY DEF vars, conversation
  <2>1. ASSUME RecoverStaleLease
        PROVE  Ends
    BY <2>1 DEF RecoverStaleLease, StaleLease, Release
  <2>2. ASSUME NEW w \in Workers, Commit(w)
        PROVE  Ends
    <3>1. pc[w] = "segment"
      BY <2>2 DEF Commit
    <3>2. HoldsLease(w) /\ Release
      BY <2>2 DEF Commit, CommitAccepted
    <3> QED BY <3>1, <3>2 DEF Release
  <2>3. ASSUME NEW w \in Workers, Abort(w)
        PROVE  Ends
    BY <2>3 DEF Abort, Release
  <2>4. ASSUME NEW p, Recover(p) \/ StatusPoll
        PROVE  Ends
    BY <2>1, <2>4 DEF Recover, StatusPoll
  <2>5. \A p : ~ (TryClaim(p) \/ PushJob(p) \/ TryClaimFails(p))
    BY DEF TryClaim, ClaimReady, PushJob, TryClaimFails, conversation
  <2>6. \A c : ~ (AppendMessage(c) \/ ImportBatch(c) \/ ImportEmptyBatch(c)
                   \/ RequestCrashes(c))
    BY DEF AppendMessage, ImportBatch, Ingest, ImportEmptyBatch, RequestCrashes, conversation
  <2>7. \A w : ~ (Fetch(w) \/ Validate(w) \/ EnqueueEpisodes(w) \/ EnqueueReviews(w)
                   \/ LoadFails(w) \/ ProcessingFails(w) \/ AbortFails(w))
    BY DEF Fetch, Validate, EnqueueEpisodes, EnqueueReviews, LoadFails, ProcessingFails,
           AbortFails, conversation
  <2>8. \A w : ~ (Ack(w) \/ Retry(w) \/ GiveUp(w) \/ WorkerCrashes(w))
    BY DEF Ack, Retry, GiveUp, WorkerCrashes, conversation
  <2>9. \A j : ~ (ReenqueueOrphan(j) \/ ReenqueueStalled(j)) /\ ~ LeaseExpires
    BY DEF ReenqueueOrphan, ReenqueueStalled, LeaseExpires, conversation
  <2> QED
    BY <2>2, <2>3, <2>4, <2>5, <2>6, <2>7, <2>8, <2>9 DEF Next, ClientStep, WorkerStep
<1> QED BY <1>1, PTL DEF Spec, LeaseEndsByItsHolder

--------------------------------------------------------------------------------
(***************************************************************************)
(* The tail of a conversation stays open unless its end is marked, although*)
(* the worker decides on a copy of eof_identified that it read, unlocked,  *)
(* before the LLM calls.                                                   *)
(*                                                                         *)
(* TailInv says why the old copy does no harm: while a worker segments, its*)
(* copy can only differ from the row when the log has grown beyond the     *)
(* claim, or when a commit has moved the cursor away from it.              *)
(***************************************************************************)

TailInv == \A w \in Workers : pc[w] = "segment" =>
  LET claim == run[w].claim IN
  /\ claim.start <= nextStart
  /\ claim.end <= lastSeq
  /\ active # NoClaim => claim.end <= active.end
  /\ ~ run[w].eof /\ eof => claim.end < lastSeq
  /\ run[w].eof /\ claim.end = lastSeq /\ claim.start = nextStart => eof

(***************************************************************************)
(* What a step does to the end mark, and to a worker that segments after it*)
(***************************************************************************)
CommitsFor(v) ==
  /\ pc[v] = "segment" /\ active = run[v].claim /\ active # NoClaim
  /\ active' = NoClaim /\ eof' = FALSE
  /\ nextStart' \in Nat /\ nextStart <= nextStart'
  /\ run[v].eof => nextStart' = active.end + 1
  /\ ~ run[v].eof => nextStart' <= active.end
  /\ UNCHANGED lastSeq

MarksEnd ==
  \/ (Unmoved \/ Takes \/ GivesBack) /\ UNCHANGED eof
  \/ Grows /\ (eof => eof')
  \/ \E v \in Workers : CommitsFor(v)

KeepsSegmenting(w) == pc'[w] = "segment" => pc[w] = "segment" /\ run'[w] = run[w]

StartsSegmenting(w) ==
  /\ Unmoved /\ UNCHANGED eof
  /\ pc[w] = "validate" /\ HoldsLease(w)
  /\ run'[w].claim = run[w].claim /\ run'[w].eof = eof

(* Where a step leads request or worker p, if it moves a label at all. *)
LEMMA GotoKeeps ==
  ASSUME TypeOK, NEW p \in Procs, NEW label, label # "segment", Goto(p, label),
         UNCHANGED run
  PROVE  \A w \in Workers : KeepsSegmenting(w)
BY DEF TypeOK, Goto, KeepsSegmenting

LEMMA ResumeElsewhere ==
  ASSUME NEW r \in Reasons, NEW o \in {"enqueued", "nothing", "failed"}
  PROVE  Resume(r, o) # "segment"
BY DEF Resume, Reasons

LEMMA StopKeeps ==
  ASSUME TypeOK, NEW v \in Workers, Stop(v)
  PROVE  \A w \in Workers : KeepsSegmenting(w)
BY DEF TypeOK, Stop, Goto, KeepsSegmenting, Procs

(* An accepted commit decides on the worker's copy of the end mark. *)
LEMMA CommitMarksEnd ==
  ASSUME IInv, NEW v \in Workers, Commit(v)
  PROVE  MarksEnd /\ \A w \in Workers : KeepsSegmenting(w)
<1>1. /\ run[v].claim \in Claim /\ pc[v] = "segment" /\ TypeOK /\ v \in Procs
  BY DEF IInv, TypeOK, WorkersHaveClaims, Commit, Procs
<1>2. PICK cuts \in SUBSET ((run[v].claim.start + 1) .. run[v].claim.end) :
        LET segs == SegmentsOf(run[v].claim.start, run[v].claim.end, cuts)
            finalized == FinalizedSegments(segs, run[v].eof)
            next == NextSegmentStart(segs, run[v].eof, run[v].claim.end)
        IN IF CommitAccepted(v, finalized, next)
             THEN /\ spans' = spans \cup finalized
                  /\ eof' = FALSE
                  /\ nextStart' = next
                  /\ Release
                  /\ examined' = run[v].claim.end
                  /\ run' = [run EXCEPT ![v].spans = finalized, ![v].next = next]
                  /\ Goto(v, "enqueue")
             ELSE /\ Goto(v, "abort")
                  /\ UNCHANGED <<spans, eof, nextStart, active, expired, examined, run>>
  BY DEF Commit
<1> DEFINE segs == SegmentsOf(run[v].claim.start, run[v].claim.end, cuts)
           finalized == FinalizedSegments(segs, run[v].eof)
           next == NextSegmentStart(segs, run[v].eof, run[v].claim.end)
<1>3. UNCHANGED lastSeq
  BY DEF Commit
<1>4. CASE CommitAccepted(v, finalized, next)
  <2>1. /\ eof' = FALSE
        /\ nextStart' = next
        /\ active' = NoClaim
        /\ run' = [run EXCEPT ![v].spans = finalized, ![v].next = next]
        /\ Goto(v, "enqueue")
    BY <1>2, <1>4 DEF Release
  <2>2. HoldsLease(v)
    BY <1>4 DEF CommitAccepted
  <2>3. /\ active = run[v].claim /\ active # NoClaim
        /\ next \in Nat /\ nextStart <= next
        /\ run[v].eof => next = active.end + 1
        /\ ~ run[v].eof => next <= active.end
    BY <1>1, <2>2, CommitEffect, IdleTypes
  <2> HIDE DEF finalized, next
  <2>4. CommitsFor(v)
    BY <1>1, <1>3, <2>1, <2>3 DEF CommitsFor
  <2>5. \A w \in Workers : w # v => run'[w] = run[w] /\ pc'[w] = pc[w]
    BY <1>1, <2>1 DEF TypeOK, Goto
  <2>6. pc'[v] = "enqueue"
    BY <1>1, <2>1 DEF TypeOK, Goto
  <2> QED BY <2>4, <2>5, <2>6 DEF MarksEnd, KeepsSegmenting
<1>5. CASE ~ CommitAccepted(v, finalized, next)
  <2>1. Goto(v, "abort") /\ Unmoved /\ UNCHANGED <<eof, run>>
    BY <1>2, <1>3, <1>5 DEF Unmoved
  <2> QED BY <1>1, <2>1, GotoKeeps DEF MarksEnd
<1> QED BY <1>4, <1>5

LEMMA RequestStepMarksEnd ==
  ASSUME IInv, NEW p \in Procs,
         Recover(p) \/ TryClaim(p) \/ PushJob(p) \/ TryClaimFails(p)
  PROVE  MarksEnd /\ \A w \in Workers : KeepsSegmenting(w)
<1>1. TypeOK /\ why[p] \in Reasons
  BY DEF IInv, TypeOK
<1>2. CASE Recover(p)
  <2>1. Unmoved \/ GivesBack
    BY <1>2, RecoverMoves DEF Recover
  <2>2. UNCHANGED <<eof, run>> /\ Goto(p, "claim")
    BY <1>2 DEF Recover
  <2> QED BY <1>1, <2>1, <2>2, GotoKeeps DEF MarksEnd
<1>3. CASE TryClaim(p)
  <2>1. UNCHANGED <<eof, run>> /\ (Unmoved \/ Takes)
    BY <1>3 DEF TryClaim, ClaimReady, Unmoved, Takes
  <2>2. \A w \in Workers : KeepsSegmenting(w)
    <3>1. CASE ClaimReady
      BY <1>1, <1>3, <2>1, <3>1, GotoKeeps DEF TryClaim
    <3>2. CASE ~ ClaimReady
      BY <1>1, <1>3, <2>1, <3>2, GotoKeeps, ResumeElsewhere DEF TryClaim
    <3> QED BY <3>1, <3>2
  <2> QED BY <2>1, <2>2 DEF MarksEnd
<1>4. CASE PushJob(p)
  <2>1. Unmoved /\ UNCHANGED <<eof, run>> /\ Goto(p, Resume(why[p], "enqueued"))
    BY <1>4 DEF PushJob, Unmoved, conversation
  <2> QED BY <1>1, <2>1, GotoKeeps, ResumeElsewhere DEF MarksEnd
<1>5. CASE TryClaimFails(p)
  <2>1. Unmoved /\ UNCHANGED <<eof, run>> /\ Goto(p, Resume(why[p], "failed"))
    BY <1>5 DEF TryClaimFails, Unmoved, conversation
  <2> QED BY <1>1, <2>1, GotoKeeps, ResumeElsewhere DEF MarksEnd
<1> QED BY <1>2, <1>3, <1>4, <1>5

LEMMA ClientStepMarksEnd ==
  ASSUME IInv, NEW c \in Clients,
         AppendMessage(c) \/ ImportBatch(c) \/ ImportEmptyBatch(c) \/ RequestCrashes(c)
  PROVE  MarksEnd /\ \A w \in Workers : KeepsSegmenting(w)
<1>1. TypeOK /\ c \in Procs
  BY DEF IInv, Procs
<1>2. CASE AppendMessage(c) \/ ImportBatch(c)
  <2>1. PICK n, isEof, newGaps : Ingest(c, n, isEof, newGaps)
    BY <1>2 DEF AppendMessage, ImportBatch
  <2>2. Grows
    BY <1>1, <1>2, IngestGrows
  <2>3. (eof => eof') /\ Goto(c, "recover") /\ UNCHANGED run
    BY <2>1 DEF Ingest
  <2> QED BY <1>1, <2>2, <2>3, GotoKeeps DEF MarksEnd
<1>3. CASE ImportEmptyBatch(c)
  <2>1. Unmoved /\ UNCHANGED <<eof, run>> /\ Goto(c, "recover")
    BY <1>3 DEF ImportEmptyBatch, Unmoved, conversation
  <2> QED BY <1>1, <2>1, GotoKeeps DEF MarksEnd
<1>4. CASE RequestCrashes(c)
  <2>1. Unmoved /\ UNCHANGED <<eof, run>> /\ Goto(c, "idle")
    BY <1>4 DEF RequestCrashes, Unmoved, conversation
  <2> QED BY <1>1, <2>1, GotoKeeps DEF MarksEnd
<1> QED BY <1>2, <1>3, <1>4

LEMMA JobStepMarksEnd ==
  ASSUME IInv, NEW v \in Workers,
         \/ Fetch(v) \/ EnqueueEpisodes(v) \/ EnqueueReviews(v) \/ LoadFails(v)
         \/ ProcessingFails(v) \/ Abort(v) \/ AbortFails(v) \/ Ack(v) \/ Retry(v)
         \/ GiveUp(v) \/ WorkerCrashes(v)
  PROVE  MarksEnd /\ \A w \in Workers : KeepsSegmenting(w)
<1>1. TypeOK /\ v \in Procs
  BY DEF IInv, Procs
<1>2. CASE Fetch(v)
  <2>1. Unmoved /\ UNCHANGED eof
    BY <1>2 DEF Fetch, Unmoved, conversation
  <2>2. \A w \in Workers : w # v => run'[w] = run[w]
    <3>1. PICK j \in JobIds :
            run' = [run EXCEPT ![v] = [IdleRun EXCEPT !.job = j, !.claim = jobs[j].claim]]
      BY <1>2 DEF Fetch
    <3> DEFINE r == [IdleRun EXCEPT !.job = j, !.claim = jobs[j].claim]
    <3> HIDE DEF r
    <3>2. run' = [run EXCEPT ![v] = r]
      BY <3>1 DEF r
    <3> QED BY <1>1, <3>2 DEF TypeOK
  <2>3. \A w \in Workers : w # v => run'[w] = run[w] /\ pc'[w] = pc[w]
    BY <1>1, <1>2, <2>2 DEF Fetch, TypeOK, Goto, Procs
  <2>4. pc'[v] = "validate"
    BY <1>1, <1>2 DEF Fetch, TypeOK, Goto
  <2> QED BY <2>1, <2>3, <2>4 DEF MarksEnd, KeepsSegmenting
<1>3. CASE EnqueueEpisodes(v) \/ EnqueueReviews(v)
  <2>1. Unmoved /\ UNCHANGED <<eof, run>>
    BY <1>3 DEF EnqueueEpisodes, EnqueueReviews, Unmoved, conversation
  <2>2. Goto(v, "reviews") \/ Goto(v, "recover") \/ Goto(v, "ok")
    BY <1>3 DEF EnqueueEpisodes, EnqueueReviews, FollowUp
  <2> QED BY <1>1, <2>1, <2>2, GotoKeeps DEF MarksEnd
<1>4. CASE LoadFails(v) \/ ProcessingFails(v) \/ AbortFails(v)
  <2>1. Unmoved /\ UNCHANGED <<eof, run>>
    BY <1>4 DEF LoadFails, ProcessingFails, AbortFails, Unmoved, conversation
  <2>2. Goto(v, "err") \/ Goto(v, "abort")
    BY <1>4 DEF LoadFails, ProcessingFails, AbortFails
  <2> QED BY <1>1, <2>1, <2>2, GotoKeeps DEF MarksEnd
<1>5. CASE Abort(v)
  <2>1. run[v].claim \in Claim
    BY <1>5 DEF IInv, WorkersHaveClaims, Abort
  <2>2. (Unmoved \/ GivesBack) /\ UNCHANGED <<eof, run>> /\ Goto(v, "recover")
    BY <1>5, <2>1, IdleTypes DEF Abort, HoldsLease, Release, Unmoved, GivesBack
  <2> QED BY <1>1, <2>2, GotoKeeps DEF MarksEnd
<1>6. CASE Ack(v) \/ Retry(v) \/ GiveUp(v) \/ WorkerCrashes(v)
  <2>1. Stop(v) /\ Unmoved /\ UNCHANGED eof
    BY <1>6 DEF Ack, Retry, GiveUp, WorkerCrashes, Unmoved, conversation
  <2> QED BY <1>1, <2>1, StopKeeps DEF MarksEnd
<1> QED BY <1>2, <1>3, <1>4, <1>5, <1>6

LEMMA ValidateMarksEnd ==
  ASSUME IInv, NEW v \in Workers, Validate(v)
  PROVE  MarksEnd /\ \A w \in Workers : KeepsSegmenting(w) \/ StartsSegmenting(w)
<1>1. TypeOK /\ v \in Procs
  BY DEF IInv, Procs
<1>2. Unmoved /\ UNCHANGED eof
  BY DEF Validate, Unmoved, conversation
<1>3. CASE HoldsLease(v)
  <2>1. run' = [run EXCEPT ![v].eof = eof] /\ Goto(v, "segment")
    BY <1>3 DEF Validate
  <2>2. \A w \in Workers : w # v => run'[w] = run[w] /\ pc'[w] = pc[w]
    BY <1>1, <2>1 DEF TypeOK, Goto
  <2>3. run[v] \in Run
    BY <1>1 DEF TypeOK
  <2>4. run'[v].claim = run[v].claim /\ run'[v].eof = eof
    BY <1>1, <2>1, <2>3 DEF TypeOK, Run
  <2>5. pc[v] = "validate"
    BY DEF Validate
  <2>6. StartsSegmenting(v)
    BY <1>2, <1>3, <2>4, <2>5 DEF StartsSegmenting
  <2> QED BY <1>2, <2>2, <2>6 DEF MarksEnd, KeepsSegmenting
<1>4. CASE ~ HoldsLease(v)
  <2>1. Goto(v, "recover") /\ UNCHANGED run
    BY <1>4 DEF Validate
  <2> QED BY <1>1, <1>2, <2>1, GotoKeeps DEF MarksEnd
<1> QED BY <1>3, <1>4

LEMMA StepMarksEnd ==
  ASSUME IInv, [Next]_vars
  PROVE  MarksEnd /\ \A w \in Workers : KeepsSegmenting(w) \/ StartsSegmenting(w)
<1>1. ASSUME \/ \E j \in JobIds : ReenqueueOrphan(j) \/ ReenqueueStalled(j)
             \/ LeaseExpires \/ UNCHANGED vars
      PROVE  MarksEnd /\ \A w \in Workers : KeepsSegmenting(w)
  <2>1. Unmoved /\ UNCHANGED <<eof, pc, run>>
    BY <1>1 DEF ReenqueueOrphan, ReenqueueStalled, LeaseExpires, vars, Unmoved,
                conversation, control
  <2> QED BY <2>1 DEF MarksEnd, KeepsSegmenting
<1>2. ASSUME StatusPoll
      PROVE  MarksEnd /\ \A w \in Workers : KeepsSegmenting(w)
  <2>1. Unmoved \/ GivesBack
    BY <1>2, RecoverMoves DEF StatusPoll
  <2>2. UNCHANGED <<eof, pc, run>>
    BY <1>2 DEF StatusPoll, control
  <2> QED BY <2>1, <2>2 DEF MarksEnd, KeepsSegmenting
<1>3. \A p \in Clients \cup Workers : p \in Procs
  BY DEF Procs
<1> QED
  BY <1>1, <1>2, <1>3, CommitMarksEnd, RequestStepMarksEnd, ClientStepMarksEnd,
     JobStepMarksEnd, ValidateMarksEnd DEF Next, ClientStep, WorkerStep
--------------------------------------------------------------------------------
LEMMA InitTailInv == Init => TailInv
BY DEF Init, TailInv, Procs

LEMMA StepTailInv == IInv /\ TailInv /\ [Next]_vars => TailInv'
<1> SUFFICES ASSUME IInv, TailInv, [Next]_vars,
                    NEW w \in Workers, pc'[w] = "segment"
             PROVE  /\ run'[w].claim.start <= nextStart'
                    /\ run'[w].claim.end <= lastSeq'
                    /\ active' # NoClaim => run'[w].claim.end <= active'.end
                    /\ ~ run'[w].eof /\ eof' => run'[w].claim.end < lastSeq'
                    /\ /\ run'[w].eof
                       /\ run'[w].claim.end = lastSeq'
                       /\ run'[w].claim.start = nextStart'
                       => eof'
  BY DEF TailInv
<1>1. /\ MarksEnd
      /\ KeepsSegmenting(w) \/ StartsSegmenting(w)
  BY StepMarksEnd
<1>2. /\ TypeOK /\ WorkersHaveClaims /\ LeaseCoversPending
      /\ nextStart \in Nat /\ lastSeq \in Nat \cup {-1} /\ eof \in BOOLEAN
      /\ active # NoClaim => active \in Claim /\ active.start \in Nat /\ active.end \in Nat
      /\ active # NoClaim => active.start = nextStart /\ active.end <= lastSeq
      /\ NoClaim \notin Claim
  BY LeaseType, IdleTypes DEF IInv, TypeOK, LeaseCoversPending
<1>3. CASE StartsSegmenting(w)
  <2>1. /\ run'[w].claim = active /\ run'[w].eof = eof
        /\ UNCHANGED <<lastSeq, nextStart, active, eof>>
    BY <1>3 DEF StartsSegmenting, HoldsLease, Unmoved
  <2>3. active # NoClaim
    BY <1>2, <1>3 DEF StartsSegmenting, HoldsLease, WorkersHaveClaims
  <2> QED BY <1>2, <2>1, <2>3
<1>4. CASE KeepsSegmenting(w)
  <2> DEFINE claim == run[w].claim
  <2>1. pc[w] = "segment" /\ run'[w] = run[w]
    BY <1>4 DEF KeepsSegmenting
  <2>2. /\ claim.start <= nextStart /\ claim.end <= lastSeq
        /\ active # NoClaim => claim.end <= active.end
        /\ ~ run[w].eof /\ eof => claim.end < lastSeq
        /\ run[w].eof /\ claim.end = lastSeq /\ claim.start = nextStart => eof
    BY <2>1 DEF TailInv
  <2>3. claim.start \in Nat /\ claim.end \in Nat
    BY <1>2, <2>1 DEF WorkersHaveClaims, Claim, Segment
  <2> HIDE DEF claim
  <2>4. CASE (Unmoved \/ Takes \/ GivesBack) /\ UNCHANGED eof
    <3>1. nextStart' = nextStart /\ lastSeq' = lastSeq
      BY <1>2, <2>4 DEF Unmoved, Takes, GivesBack
    <3>2. active' # NoClaim => claim.end <= active'.end
      BY <2>2, <2>4 DEF Unmoved, Takes, GivesBack
    <3> QED BY <2>1, <2>2, <2>4, <3>1, <3>2 DEF claim
  <2>5. CASE Grows /\ (eof => eof')
    <3>1. /\ lastSeq' \in Nat /\ lastSeq < lastSeq'
          /\ nextStart' = nextStart /\ active' = active
      BY <1>2, <2>5 DEF Grows
    <3>2. claim.end < lastSeq'
      BY <1>2, <2>2, <2>3, <3>1
    <3> QED BY <2>1, <2>2, <2>3, <3>1, <3>2 DEF claim
  <2>6. CASE \E v \in Workers : CommitsFor(v)
    <3>1. PICK v \in Workers : CommitsFor(v)
      BY <2>6
    <3>2. /\ active' = NoClaim /\ eof' = FALSE /\ lastSeq' = lastSeq
          /\ nextStart' \in Nat /\ nextStart <= nextStart'
          /\ active # NoClaim /\ run[v].claim = active
          /\ run[v].eof => nextStart' = active.end + 1
          /\ pc[v] = "segment"
      BY <3>1 DEF CommitsFor
    <3>3. claim.start <= nextStart'
      BY <1>2, <2>2, <2>3, <3>2
    <3>4. ASSUME run[w].eof, claim.end = lastSeq, claim.start = nextStart'
          PROVE  FALSE
      <4>1. nextStart' = nextStart
        BY <1>2, <2>2, <2>3, <3>2, <3>4
      <4>2. eof /\ active.end = lastSeq
        BY <1>2, <2>2, <3>2, <3>4, <4>1
      <4>3. ~ run[v].eof
        BY <1>2, <3>2, <4>1, <4>2 DEF LeaseCoversPending
      <4>4. run[v].claim.end < lastSeq
        BY <3>1, <3>2, <4>2, <4>3 DEF TailInv
      <4> QED BY <1>2, <3>2, <4>2, <4>4
    <3> QED BY <2>1, <2>2, <3>2, <3>3, <3>4 DEF claim
  <2> QED BY <1>1, <2>4, <2>5, <2>6 DEF MarksEnd
<1> QED BY <1>1, <1>3, <1>4

(* A commit may only finalize the newest message while the row still marks the
   end, although it decides on a copy of the mark (build_commit_plan): whatever
   worker committed or claimed in between, the tail is never closed by mistake. *)
THEOREM OpenTail == Spec => TailStaysOpen
<1>1. IInv /\ TailInv /\ [Next]_vars
        => [nextStart' # nextStart /\ nextStart' > lastSeq => eof]_vars
  <2> SUFFICES ASSUME IInv, TailInv, [Next]_vars, nextStart' # nextStart, nextStart' > lastSeq
               PROVE  eof
    OBVIOUS
  <2>1. MarksEnd
    BY StepMarksEnd
  <2>2. /\ nextStart \in Nat /\ lastSeq \in Nat \cup {-1} /\ LeaseCoversPending
        /\ active # NoClaim => active.start \in Nat /\ active.end \in Nat
    BY LeaseType DEF IInv, TypeOK
  <2>3. PICK v \in Workers : CommitsFor(v)
    BY <2>1, <2>2 DEF MarksEnd, Unmoved, Takes, GivesBack, Grows, LeaseCoversPending
  <2>4. /\ active.start = nextStart /\ active.end <= lastSeq
        /\ active.start \in Nat /\ active.end \in Nat
        /\ nextStart' \in Nat
        /\ active = run[v].claim /\ pc[v] = "segment"
        /\ run[v].eof => nextStart' = active.end + 1
        /\ ~ run[v].eof => nextStart' <= active.end
    BY <2>2, <2>3 DEF CommitsFor, LeaseCoversPending
  <2>5. run[v].eof
    BY <2>2, <2>4
  <2>6. run[v].claim.end = lastSeq /\ run[v].claim.start = nextStart
    BY <2>2, <2>4, <2>5
  <2> QED BY <2>4, <2>5, <2>6 DEF TailInv
<1>2. Spec => []TailInv
  BY InitTailInv, StepTailInv, IInvHolds, PTL DEF Spec
<1> QED BY <1>1, <1>2, IInvHolds, PTL DEF Spec, TailStaysOpen
--------------------------------------------------------------------------------
(***************************************************************************)
(* As long as nothing fails, a lease has exactly one carrier.  Expiry,     *)
(* duplicates and late commits are for failures only.                      *)
(***************************************************************************)
(* A worker holds the job it executes, for the claim it remembers, and a job
   that is held is executed. *)
JobsOwned ==
  /\ \A w \in Workers :
       IF pc[w] = "idle"
         THEN run[w].job = NoJob
         ELSE /\ run[w].job \in JobIds
              /\ jobs[run[w].job].owner = w
              /\ jobs[run[w].job].claim = run[w].claim
  /\ \A j \in JobIds : jobs[j].owner \in Workers => run[jobs[j].owner].job = j

(* No job is found stale and no commit is refused: a worker claims only after
   a commit of its own. *)
NothingAborts ==
  \A w \in Workers :
    /\ pc[w] \notin {"abort", "err"}
    /\ pc[w] \in {"recover", "claim", "push"} => why[w] = "follow_up"

(* The jobs that are queued or on their way to a commit, and the pushes. *)
Acts(j) ==
  /\ jobs[j].claim # NoClaim
  /\ jobs[j].owner = NoWorker \/ pc[jobs[j].owner] \in {"validate", "segment"}

Pushes(p) == pc[p] = "push"

(* Whatever acts, acts for the lease; for a lease one job or one push does. *)
OneActs ==
  /\ \A j \in JobIds : Acts(j) => active # NoClaim /\ jobs[j].claim = active
  /\ \A p \in Procs : Pushes(p) => active # NoClaim /\ held[p] = active
  /\ \A j, k \in JobIds : Acts(j) /\ Acts(k) => j = k
  /\ \A p, q \in Procs : Pushes(p) /\ Pushes(q) => p = q
  /\ \A j \in JobIds, p \in Procs : ~ (Acts(j) /\ Pushes(p))
  /\ active # NoClaim => (\E j \in JobIds : Acts(j)) \/ (\E p \in Procs : Pushes(p))

Calm == ~ expired /\ JobsOwned /\ NothingAborts /\ OneActs

(* The inductive invariant: without a fault the pipeline is calm. *)
CInv == IInv /\ (faults = 0 => Calm)
--------------------------------------------------------------------------------
(* Neither NoWorker nor NoJob is taken for a real one. *)
LEMMA Nobody ==
  /\ \A w \in Workers : w # NoWorker /\ w \in Procs
  /\ \A c \in Clients : c \notin Workers /\ c \in Procs
  /\ \A j \in JobIds : j # NoJob
BY SegmentationAssumption DEF Procs

LEMMA OwnerType ==
  ASSUME TypeOK, NEW j \in JobIds, jobs[j].owner # NoWorker
  PROVE  jobs[j].owner \in Workers
BY DEF TypeOK, Job

LEMMA InitCInv == Init => CInv
<1> SUFFICES ASSUME Init PROVE CInv
  OBVIOUS
<1>1. \A p \in Procs : pc[p] = "idle"
  BY DEF Init
<1>2. \A j \in JobIds : jobs[j] = FreeJob
  BY DEF Init
<1>3. JobsOwned
  BY <1>1, <1>2, Nobody DEF Init, JobsOwned, IdleRun, FreeJob
<1>4. NothingAborts
  BY <1>1, Nobody DEF NothingAborts
<1>5. OneActs
  BY <1>1, <1>2 DEF OneActs, Acts, Pushes, FreeJob, Init
<1> QED BY <1>3, <1>4, <1>5, InitIInv DEF CInv, Calm, Init
--------------------------------------------------------------------------------
(***************************************************************************)
(* Most steps leave alone what acts for the lease.                         *)
(***************************************************************************)
SameActors ==
  /\ active' = active
  /\ \A j \in JobIds : Acts(j)' = Acts(j) /\ (Acts(j) => jobs'[j].claim = jobs[j].claim)
  /\ \A p \in Procs : Pushes(p)' = Pushes(p) /\ (Pushes(p) => held'[p] = held[p])

LEMMA SameActorsKeep ==
  ASSUME OneActs, SameActors
  PROVE  OneActs'
<1>1. /\ \A j \in JobIds : Acts(j)' = Acts(j) /\ (Acts(j) => jobs'[j].claim = jobs[j].claim)
      /\ \A p \in Procs : Pushes(p)' = Pushes(p) /\ (Pushes(p) => held'[p] = held[p])
      /\ active' = active
  BY DEF SameActors
<1>2. /\ \A j \in JobIds : Acts(j)' => active' # NoClaim /\ jobs'[j].claim = active'
      /\ \A p \in Procs : Pushes(p)' => active' # NoClaim /\ held'[p] = active'
  BY <1>1 DEF OneActs
<1>3. /\ \A j, k \in JobIds : Acts(j)' /\ Acts(k)' => j = k
      /\ \A p, q \in Procs : Pushes(p)' /\ Pushes(q)' => p = q
      /\ \A j \in JobIds, p \in Procs : ~ (Acts(j)' /\ Pushes(p)')
  BY <1>1 DEF OneActs
<1>4. active' # NoClaim => (\E j \in JobIds : Acts(j)') \/ (\E p \in Procs : Pushes(p)')
  BY <1>1 DEF OneActs
<1> QED BY <1>2, <1>3, <1>4 DEF OneActs

(* A request or worker that is not about to push and not on its way to a commit
   goes on to a label that is neither. *)
Aside == {"idle", "recover", "claim", "enqueue", "reviews", "ok", "err", "abort"}

LEMMA AsideSame ==
  ASSUME TypeOK, NEW p \in Procs, NEW label \in Aside, pc[p] \in Aside,
         Goto(p, label), UNCHANGED <<active, jobs, held>>
  PROVE  SameActors
<1>1. /\ pc'[p] = label
      /\ \A q \in Procs : q # p => pc'[q] = pc[q]
  BY DEF Goto, TypeOK
<1>2. \A q \in Procs : Pushes(q)' = Pushes(q)
  BY <1>1 DEF Pushes, Aside
<1>3. \A j \in JobIds : Acts(j)' = Acts(j)
  <2> SUFFICES ASSUME NEW j \in JobIds PROVE Acts(j)' = Acts(j)
    OBVIOUS
  <2>1. CASE jobs[j].owner = NoWorker
    BY <2>1 DEF Acts
  <2>2. CASE jobs[j].owner # NoWorker
    <3>1. jobs[j].owner \in Procs
      BY <2>2, OwnerType, Nobody
    <3> QED BY <1>1, <3>1 DEF Acts, Aside
  <2> QED BY <2>1, <2>2
<1> QED BY <1>2, <1>3 DEF SameActors

(* A worker that stays at its job keeps what it owns. *)
LEMMA AsideOwned ==
  ASSUME TypeOK, JobsOwned, NEW p \in Procs, NEW label \in Labels, Goto(p, label),
         p \in Workers => pc[p] # "idle" /\ label # "idle",
         UNCHANGED jobs,
         \A w \in Workers : run'[w].job = run[w].job /\ run'[w].claim = run[w].claim
  PROVE  JobsOwned'
<1>1. \A w \in Workers : (pc'[w] = "idle") = (pc[w] = "idle")
  BY Nobody DEF Goto, TypeOK
<1>2. \A w \in Workers :
        IF pc'[w] = "idle"
          THEN run'[w].job = NoJob
          ELSE /\ run'[w].job \in JobIds
               /\ jobs'[run'[w].job].owner = w
               /\ jobs'[run'[w].job].claim = run'[w].claim
  BY <1>1 DEF JobsOwned
<1>3. \A j \in JobIds : jobs'[j].owner \in Workers => run'[jobs'[j].owner].job = j
  BY DEF JobsOwned
<1> QED BY <1>2, <1>3 DEF JobsOwned

(* What a step that claims nothing, commits nothing and stops nothing keeps. *)
LEMMA MovesOn ==
  ASSUME TypeOK, Calm, NEW p \in Procs, NEW label \in Aside, pc[p] \in Aside,
         Goto(p, label), UNCHANGED <<active, expired, jobs, held>>,
         p \in Workers => pc[p] # "idle" /\ label \notin {"idle", "err", "abort"},
         p \in Workers /\ label \in {"recover", "claim"} => why'[p] = "follow_up",
         \A w \in Workers : w # p => why'[w] = why[w],
         \A w \in Workers : run'[w].job = run[w].job /\ run'[w].claim = run[w].claim
  PROVE  Calm'
<1>1. OneActs'
  BY AsideSame, SameActorsKeep DEF Calm
<1>2. JobsOwned'
  <2>1. label \in Labels
    BY DEF Aside, Labels
  <2> QED BY <2>1, AsideOwned DEF Calm
<1>3. NothingAborts'
  BY Nobody DEF Goto, TypeOK, Calm, NothingAborts, Aside
<1> QED BY <1>1, <1>2, <1>3 DEF Calm

(* Requests append messages beside the lease. *)
LEMMA AppendCalm ==
  ASSUME TypeOK, Calm, NEW c \in Clients,
         AppendMessage(c) \/ ImportBatch(c) \/ ImportEmptyBatch(c)
  PROVE  Calm'
<1>1. /\ pc[c] = "idle" /\ Goto(c, "recover")
      /\ UNCHANGED <<active, expired, jobs, held, why, run>>
  BY DEF AppendMessage, ImportBatch, Ingest, ImportEmptyBatch, conversation
<1> QED BY <1>1, Nobody, MovesOn DEF Aside

(* There is no stale lease to recover. *)
LEMMA RecoverCalm ==
  ASSUME TypeOK, Calm, NEW p \in Procs, Recover(p)
  PROVE  Calm'
<1>1. /\ pc[p] = "recover" /\ Goto(p, "claim")
      /\ UNCHANGED <<active, expired, jobs, held, why, run>>
  BY DEF Recover, RecoverStaleLease, StaleLease, Calm
<1>2. p \in Workers => why'[p] = "follow_up"
  BY <1>1 DEF Calm, NothingAborts
<1> QED BY <1>1, <1>2, MovesOn DEF Aside

LEMMA StatusPollCalm ==
  ASSUME Calm, StatusPoll
  PROVE  Calm'
<1>1. UNCHANGED <<active, expired, jobs, control>>
  BY DEF StatusPoll, RecoverStaleLease, StaleLease, Calm
<1> QED
  BY <1>1 DEF Calm, JobsOwned, NothingAborts, OneActs, Acts, Pushes, control

(* After the commit the worker moves on to its follow-up or ends well. *)
LEMMA FollowUpCalm ==
  ASSUME TypeOK, Calm, NEW w \in Workers, pc[w] \in {"enqueue", "reviews"}, FollowUp(w),
         UNCHANGED <<active, expired, jobs, held, run>>
  PROVE  Calm'
<1>1. CASE run[w].next > run[w].claim.start
  <2>1. Goto(w, "recover") /\ why' = [why EXCEPT ![w] = "follow_up"]
    BY <1>1 DEF FollowUp
  <2>2. why'[w] = "follow_up" /\ \A v \in Workers : v # w => why'[v] = why[v]
    BY <2>1, Nobody DEF TypeOK
  <2> QED BY <2>1, <2>2, Nobody, MovesOn DEF Aside
<1>2. CASE ~ (run[w].next > run[w].claim.start)
  <2>1. Goto(w, "ok") /\ UNCHANGED why
    BY <1>2 DEF FollowUp
  <2> QED BY <2>1, Nobody, MovesOn DEF Aside
<1> QED BY <1>1, <1>2

LEMMA EnqueueCalm ==
  ASSUME TypeOK, Calm, NEW w \in Workers, EnqueueEpisodes(w) \/ EnqueueReviews(w)
  PROVE  Calm'
<1>1. /\ pc[w] \in {"enqueue", "reviews"}
      /\ UNCHANGED <<active, expired, jobs, held, run>>
  BY DEF EnqueueEpisodes, EnqueueReviews, conversation
<1>2. CASE FollowUp(w)
  BY <1>1, <1>2, FollowUpCalm
<1>3. CASE ~ FollowUp(w)
  <2>1. Goto(w, "reviews") /\ UNCHANGED why
    BY <1>3 DEF EnqueueEpisodes, EnqueueReviews
  <2> QED BY <1>1, <2>1, Nobody, MovesOn DEF Aside
<1> QED BY <1>2, <1>3

(* A claim is made when nothing acts for a lease, and is pushed by its maker. *)
LEMMA TryClaimCalm ==
  ASSUME TypeOK, Calm, NEW p \in Procs, TryClaim(p)
  PROVE  Calm'
<1>1. /\ pc[p] = "claim"
      /\ UNCHANGED <<jobs, why, run>>
      /\ p \in Workers => why[p] = "follow_up"
  BY DEF TryClaim, Calm, NothingAborts
<1>2. CASE ~ ClaimReady
  <2>1. /\ Goto(p, Resume(why[p], "nothing"))
        /\ UNCHANGED <<active, expired, held>>
    BY <1>2 DEF TryClaim
  <2>2. CASE p \in Workers
    <3>1. Goto(p, "ok")
      BY <1>1, <2>1, <2>2 DEF Resume
    <3> QED BY <1>1, <2>1, <3>1, MovesOn DEF Aside
  <2>3. CASE p \notin Workers
    <3>1. Resume(why[p], "nothing") \in {"idle", "ok", "err", "abort"}
      BY DEF Resume, TypeOK, Reasons
    <3> QED BY <1>1, <2>1, <2>3, <3>1, MovesOn DEF Aside
  <2> QED BY <2>2, <2>3
<1>3. CASE ClaimReady
  <2>1. /\ active = NoClaim
        /\ active' = [start |-> nextStart, end |-> lastSeq]
        /\ expired' = FALSE
        /\ held' = [held EXCEPT ![p] = [start |-> nextStart, end |-> lastSeq]]
        /\ Goto(p, "push")
    BY <1>3 DEF TryClaim, ClaimReady
  <2>2. active' # NoClaim
    BY <2>1 DEF TypeOK, NoClaim
  <2>3. held'[p] = active' /\ \A q \in Procs : q # p => pc'[q] = pc[q]
    BY <2>1 DEF TypeOK, Goto
  <2>4. pc'[p] = "push"
    BY <2>1 DEF TypeOK, Goto
  <2>5. \A j \in JobIds : ~ Acts(j)
    BY <2>1 DEF Calm, OneActs
  <2>6. \A q \in Procs : pc[q] # "push"
    BY <2>1 DEF Calm, OneActs, Pushes
  <2>7. \A j \in JobIds : ~ Acts(j)'
    <3> SUFFICES ASSUME NEW j \in JobIds PROVE ~ Acts(j)'
      OBVIOUS
    <3>1. CASE jobs[j].owner = NoWorker
      BY <1>1, <2>5, <3>1 DEF Acts
    <3>2. CASE jobs[j].owner # NoWorker
      <4>1. jobs[j].owner \in Procs
        BY <3>2, OwnerType, Nobody
      <4> QED BY <1>1, <2>3, <2>4, <2>5, <3>2, <4>1 DEF Acts
    <3> QED BY <3>1, <3>2
  <2>8. \A q \in Procs : Pushes(q)' = (q = p)
    BY <2>3, <2>4, <2>6 DEF Pushes
  <2>9. OneActs'
    BY <2>2, <2>3, <2>7, <2>8 DEF OneActs
  <2>10. JobsOwned'
    BY <1>1, <2>1, AsideOwned DEF Labels, Calm
  <2>11. NothingAborts'
    BY <1>1, <2>3, <2>4, Nobody DEF NothingAborts, Calm
  <2> QED BY <2>1, <2>9, <2>10, <2>11 DEF Calm
<1> QED BY <1>2, <1>3
--------------------------------------------------------------------------------
(***************************************************************************)
(* The steps that hand the lease on: from the push to the queue, from the  *)
(* queue to a worker, and from the worker back by its commit.              *)
(***************************************************************************)
LEMMA PushJobCalm ==
  ASSUME TypeOK, Calm, NEW p \in Procs, PushJob(p)
  PROVE  Calm'
<1>1. PICK j \in JobIds :
        /\ jobs[j] = FreeJob
        /\ jobs' = [jobs EXCEPT ![j] = [claim |-> held[p], owner |-> NoWorker]]
  BY DEF PushJob
<1>2. /\ pc[p] = "push"
      /\ Goto(p, Resume(why[p], "enqueued"))
      /\ UNCHANGED <<active, expired, why, run>>
  BY DEF PushJob, conversation
<1>3. active # NoClaim /\ held[p] = active
  BY <1>2 DEF Calm, OneActs, Pushes
<1>4. /\ jobs'[j].claim = active /\ jobs'[j].owner = NoWorker
      /\ \A k \in JobIds : k # j => jobs'[k] = jobs[k]
  BY <1>1, <1>3 DEF TypeOK
<1>5. /\ \A q \in Procs : q # p => pc'[q] = pc[q]
      /\ pc'[p] = Resume(why[p], "enqueued")
  BY <1>2 DEF Goto, TypeOK
<1>6. pc'[p] \in {"idle", "ok"} /\ (p \in Workers => pc'[p] = "ok")
  <2>1. p \in Workers => why[p] = "follow_up"
    BY <1>2 DEF Calm, NothingAborts
  <2> QED BY <1>5, <2>1 DEF Resume, TypeOK, Reasons
<1>7. \A k \in JobIds : ~ Acts(k)
  BY <1>2 DEF Calm, OneActs, Pushes
<1>8. Acts(j)' /\ \A k \in JobIds : k # j => ~ Acts(k)'
  <2>1. Acts(j)'
    BY <1>2, <1>3, <1>4 DEF Acts
  <2>2. ASSUME NEW k \in JobIds, k # j
        PROVE  ~ Acts(k)'
    <3>1. jobs'[k] = jobs[k]
      BY <1>4, <2>2
    <3>2. CASE jobs[k].owner = NoWorker
      BY <1>7, <3>1, <3>2 DEF Acts
    <3>3. CASE jobs[k].owner # NoWorker
      <4>1. jobs[k].owner \in Procs
        BY <3>3, OwnerType, Nobody
      <4> QED BY <1>5, <1>6, <1>7, <3>1, <3>3, <4>1 DEF Acts
    <3> QED BY <3>2, <3>3
  <2> QED BY <2>1, <2>2
<1>9. \A q \in Procs : ~ Pushes(q)'
  BY <1>2, <1>5, <1>6 DEF Pushes, Calm, OneActs
<1>10. OneActs'
  BY <1>2, <1>3, <1>4, <1>8, <1>9 DEF OneActs
<1>11. JobsOwned'
  <2>1. \A w \in Workers : (pc'[w] = "idle") = (pc[w] = "idle")
    BY <1>2, <1>5, <1>6, Nobody
  <2>2. \A w \in Workers : pc[w] # "idle" => run[w].job # j
    BY <1>1, Nobody DEF Calm, JobsOwned, FreeJob
  <2>3. \A w \in Workers :
          IF pc'[w] = "idle"
            THEN run'[w].job = NoJob
            ELSE /\ run'[w].job \in JobIds
                 /\ jobs'[run'[w].job].owner = w
                 /\ jobs'[run'[w].job].claim = run'[w].claim
    BY <1>2, <1>4, <2>1, <2>2 DEF Calm, JobsOwned
  <2>4. \A k \in JobIds : jobs'[k].owner \in Workers => run'[jobs'[k].owner].job = k
    BY <1>2, <1>4, Nobody DEF Calm, JobsOwned
  <2> QED BY <2>3, <2>4 DEF JobsOwned
<1>12. NothingAborts'
  BY <1>2, <1>5, <1>6, Nobody DEF Calm, NothingAborts
<1> QED BY <1>2, <1>10, <1>11, <1>12 DEF Calm

LEMMA FetchCalm ==
  ASSUME TypeOK, Calm, NEW w \in Workers, Fetch(w)
  PROVE  Calm'
<1>1. PICK j \in JobIds :
        /\ jobs[j].claim # NoClaim
        /\ jobs[j].owner = NoWorker
        /\ jobs' = [jobs EXCEPT ![j].owner = w]
        /\ run' = [run EXCEPT ![w] = [IdleRun EXCEPT !.job = j, !.claim = jobs[j].claim]]
  BY DEF Fetch
<1>2. /\ pc[w] = "idle" /\ Goto(w, "validate")
      /\ UNCHANGED <<active, expired, why, held>>
  BY DEF Fetch, conversation
<1>3. /\ jobs'[j].claim = jobs[j].claim /\ jobs'[j].owner = w
      /\ \A k \in JobIds : k # j => jobs'[k] = jobs[k]
  BY <1>1 DEF TypeOK, Job
<1>4. /\ run'[w].job = j /\ run'[w].claim = jobs[j].claim
      /\ \A v \in Workers : v # w => run'[v] = run[v]
  BY <1>1 DEF TypeOK, Run, IdleRun
<1>5. pc'[w] = "validate" /\ \A p \in Procs : p # w => pc'[p] = pc[p]
  BY <1>2, Nobody DEF TypeOK, Goto
<1>6. \A k \in JobIds : jobs[k].owner # w
  BY <1>2, Nobody DEF Calm, JobsOwned
<1>7. \A v \in Workers : pc[v] # "idle" => run[v].job # j
  BY <1>1, Nobody DEF Calm, JobsOwned
<1>8. SameActors
  <2>1. Acts(j)' = Acts(j)
    BY <1>1, <1>3, <1>5 DEF Acts
  <2>2. ASSUME NEW k \in JobIds, k # j
        PROVE  Acts(k)' = Acts(k)
    <3>1. jobs'[k] = jobs[k]
      BY <1>3, <2>2
    <3>2. CASE jobs[k].owner = NoWorker
      BY <3>1, <3>2 DEF Acts
    <3>3. CASE jobs[k].owner # NoWorker
      <4>1. jobs[k].owner \in Procs /\ jobs[k].owner # w
        BY <1>6, <3>3, OwnerType, Nobody
      <4> QED BY <1>5, <3>1, <3>3, <4>1 DEF Acts
    <3> QED BY <3>2, <3>3
  <2>3. \A p \in Procs : Pushes(p)' = Pushes(p)
    BY <1>2, <1>5 DEF Pushes
  <2> QED BY <1>2, <1>3, <2>1, <2>2, <2>3 DEF SameActors
<1>9. OneActs'
  BY <1>8, SameActorsKeep DEF Calm
<1>10. JobsOwned'
  <2>1. ASSUME NEW v \in Workers
        PROVE  IF pc'[v] = "idle"
                 THEN run'[v].job = NoJob
                 ELSE /\ run'[v].job \in JobIds
                      /\ jobs'[run'[v].job].owner = v
                      /\ jobs'[run'[v].job].claim = run'[v].claim
    <3>1. CASE v = w
      BY <1>3, <1>4, <1>5, <3>1
    <3>2. CASE v # w
      BY <1>3, <1>4, <1>5, <1>7, <3>2, Nobody DEF Calm, JobsOwned
    <3> QED BY <3>1, <3>2
  <2>2. \A k \in JobIds : jobs'[k].owner \in Workers => run'[jobs'[k].owner].job = k
    BY <1>3, <1>4, <1>6 DEF Calm, JobsOwned
  <2> QED BY <2>1, <2>2 DEF JobsOwned
<1>11. NothingAborts'
  BY <1>2, <1>5, Nobody DEF Calm, NothingAborts
<1> QED BY <1>2, <1>9, <1>10, <1>11 DEF Calm

(* The job of a worker before its commit is the job of the lease. *)
LEMMA WorkerHoldsLease ==
  ASSUME Calm, WorkersHaveClaims, NEW w \in Workers, pc[w] \in {"validate", "segment"}
  PROVE  /\ run[w].job \in JobIds /\ jobs[run[w].job].owner = w
         /\ Acts(run[w].job) /\ HoldsLease(w) /\ active # NoClaim
<1>1. /\ run[w].job \in JobIds /\ jobs[run[w].job].owner = w
      /\ jobs[run[w].job].claim = run[w].claim
  BY DEF Calm, JobsOwned
<1>2. run[w].claim # NoClaim
  BY IdleTypes DEF WorkersHaveClaims
<1>3. Acts(run[w].job)
  BY <1>1, <1>2 DEF Acts
<1> QED BY <1>1, <1>3 DEF Calm, OneActs, HoldsLease

LEMMA ValidateCalm ==
  ASSUME TypeOK, WorkersHaveClaims, Calm, NEW w \in Workers, Validate(w)
  PROVE  Calm'
<1>1. pc[w] = "validate" /\ HoldsLease(w)
  BY WorkerHoldsLease DEF Validate
<1>2. /\ run' = [run EXCEPT ![w].eof = eof] /\ Goto(w, "segment")
      /\ UNCHANGED <<active, expired, jobs, held, why>>
  BY <1>1 DEF Validate, conversation
<1>3. pc'[w] = "segment" /\ \A p \in Procs : p # w => pc'[p] = pc[p]
  BY <1>2, Nobody DEF TypeOK, Goto
<1>4. \A v \in Workers : run'[v].job = run[v].job /\ run'[v].claim = run[v].claim
  BY <1>2 DEF TypeOK, Run
<1>5. SameActors
  <2>1. ASSUME NEW k \in JobIds
        PROVE  Acts(k)' = Acts(k)
    <3>1. CASE jobs[k].owner = NoWorker
      BY <1>2, <3>1 DEF Acts
    <3>2. CASE jobs[k].owner # NoWorker
      <4>1. jobs[k].owner \in Procs
        BY <3>2, OwnerType, Nobody
      <4> QED BY <1>1, <1>2, <1>3, <3>2, <4>1 DEF Acts
    <3> QED BY <3>1, <3>2
  <2>2. \A p \in Procs : Pushes(p)' = Pushes(p)
    BY <1>1, <1>3 DEF Pushes
  <2> QED BY <1>2, <2>1, <2>2 DEF SameActors
<1>6. JobsOwned'
  BY <1>1, <1>2, <1>4, AsideOwned, Nobody DEF Calm, Labels
<1>7. NothingAborts'
  BY <1>2, <1>3, Nobody DEF Calm, NothingAborts
<1> QED BY <1>2, <1>5, <1>6, <1>7, SameActorsKeep DEF Calm

(* The plan of a worker that holds the lease is accepted: its spans start behind
   all others, and its next segment starts in the claim. *)
LEMMA PlanAccepted ==
  ASSUME IInv, NEW w \in Workers, pc[w] = "segment", HoldsLease(w),
         NEW cuts \in SUBSET ((run[w].claim.start + 1) .. run[w].claim.end)
  PROVE  LET segs == SegmentsOf(run[w].claim.start, run[w].claim.end, cuts)
         IN  CommitAccepted(w, FinalizedSegments(segs, run[w].eof),
                            NextSegmentStart(segs, run[w].eof, run[w].claim.end))
<1> DEFINE segs == SegmentsOf(run[w].claim.start, run[w].claim.end, cuts)
           finalized == FinalizedSegments(segs, run[w].eof)
           next == NextSegmentStart(segs, run[w].eof, run[w].claim.end)
<1>1. /\ active = run[w].claim /\ active.start = nextStart
      /\ active.start \in Nat /\ active.end \in Nat
      /\ finalized \subseteq Segment
      /\ next \in Nat /\ nextStart <= next /\ next <= active.end + 1
      /\ Tiles(finalized, nextStart, next)
  BY CommitEffect
<1> HIDE DEF finalized, next
<1>2. next \in run[w].claim.start .. (run[w].claim.end + 1)
  BY <1>1
<1>3. ASSUME NEW s \in spans, NEW t \in finalized
      PROVE  s.start # t.start
  <2>1. s \in Segment /\ t \in Segment /\ nextStart \in Nat
    BY <1>1 DEF IInv, TypeOK
  <2>2. s.start <= s.end /\ s.end < nextStart
    BY DEF IInv, FinalizedPrefixTiled, Tiles
  <2>3. nextStart <= t.start
    BY <1>1 DEF Tiles
  <2> QED BY <2>1, <2>2, <2>3 DEF Segment
<1>4. CommitAccepted(w, finalized, next)
  BY <1>2, <1>3 DEF CommitAccepted
<1> QED BY <1>4 DEF finalized, next

LEMMA CommitCalm ==
  ASSUME IInv, Calm, NEW w \in Workers, Commit(w)
  PROVE  Calm'
<1>1. TypeOK /\ WorkersHaveClaims /\ pc[w] = "segment"
  BY DEF IInv, Commit
<1>2. /\ run[w].job \in JobIds /\ jobs[run[w].job].owner = w
      /\ Acts(run[w].job) /\ HoldsLease(w) /\ active # NoClaim
  BY <1>1, WorkerHoldsLease
<1>3. /\ UNCHANGED <<jobs, why, held>>
      /\ Release /\ Goto(w, "enqueue")
      /\ \A v \in Workers : run'[v].job = run[v].job /\ run'[v].claim = run[v].claim
  <2>1. PICK cuts \in SUBSET ((run[w].claim.start + 1) .. run[w].claim.end) :
          LET segs == SegmentsOf(run[w].claim.start, run[w].claim.end, cuts)
              finalized == FinalizedSegments(segs, run[w].eof)
              next == NextSegmentStart(segs, run[w].eof, run[w].claim.end)
          IN IF CommitAccepted(w, finalized, next)
               THEN /\ spans' = spans \cup finalized
                    /\ eof' = FALSE
                    /\ nextStart' = next
                    /\ Release
                    /\ examined' = run[w].claim.end
                    /\ run' = [run EXCEPT ![w].spans = finalized, ![w].next = next]
                    /\ Goto(w, "enqueue")
               ELSE /\ Goto(w, "abort")
                    /\ UNCHANGED <<spans, eof, nextStart, active, expired, examined, run>>
    BY DEF Commit
  <2> DEFINE segs == SegmentsOf(run[w].claim.start, run[w].claim.end, cuts)
             finalized == FinalizedSegments(segs, run[w].eof)
             next == NextSegmentStart(segs, run[w].eof, run[w].claim.end)
  <2>2. CommitAccepted(w, finalized, next)
    BY <1>1, <1>2, PlanAccepted
  <2> HIDE DEF finalized, next
  <2>3. /\ Release /\ Goto(w, "enqueue")
        /\ run' = [run EXCEPT ![w].spans = finalized, ![w].next = next]
    BY <2>1, <2>2 DEF finalized, next
  <2>4. \A v \in Workers : run'[v].job = run[v].job /\ run'[v].claim = run[v].claim
    BY <1>1, <2>3 DEF TypeOK, Run
  <2>5. UNCHANGED <<jobs, why, held>>
    BY DEF Commit
  <2> QED BY <2>3, <2>4, <2>5
<1>4. pc'[w] = "enqueue" /\ \A p \in Procs : p # w => pc'[p] = pc[p]
  BY <1>1, <1>3, Nobody DEF TypeOK, Goto
<1>5. active' = NoClaim /\ expired' = FALSE
  BY <1>3 DEF Release
<1>6. \A j \in JobIds : ~ Acts(j)'
  <2> SUFFICES ASSUME NEW j \in JobIds PROVE ~ Acts(j)'
    OBVIOUS
  <2>1. CASE j = run[w].job
    BY <1>2, <1>3, <1>4, <2>1, Nobody DEF Acts
  <2>2. CASE j # run[w].job
    <3>1. ~ Acts(j)
      BY <1>2, <2>2 DEF Calm, OneActs
    <3>2. CASE jobs[j].owner = NoWorker
      BY <1>3, <3>1, <3>2 DEF Acts
    <3>3. CASE jobs[j].owner # NoWorker
      <4>1. jobs[j].owner \in Procs
        BY <1>1, <3>3, OwnerType, Nobody
      <4> QED BY <1>3, <1>4, <3>1, <3>3, <4>1 DEF Acts
    <3> QED BY <3>2, <3>3
  <2> QED BY <2>1, <2>2
<1>7. \A p \in Procs : ~ Pushes(p)'
  <2>1. \A p \in Procs : ~ Pushes(p)
    BY <1>2 DEF Calm, OneActs
  <2> QED BY <1>4, <2>1 DEF Pushes
<1>8. OneActs'
  BY <1>5, <1>6, <1>7 DEF OneActs
<1>9. JobsOwned'
  BY <1>1, <1>3, AsideOwned, Nobody DEF Calm, Labels
<1>10. NothingAborts'
  BY <1>3, <1>4, Nobody DEF Calm, NothingAborts
<1> QED BY <1>5, <1>8, <1>9, <1>10 DEF Calm

(* A job that is done has acted before. *)
LEMMA AckCalm ==
  ASSUME TypeOK, Calm, NEW w \in Workers, Ack(w)
  PROVE  Calm'
<1>0. PICK own \in JobIds : own = run[w].job /\ jobs[own].owner = w
  BY Nobody DEF Ack, Calm, JobsOwned
<1>1. /\ pc[w] = "ok" /\ Stop(w)
      /\ UNCHANGED <<active, expired>>
      /\ jobs' = [j \in JobIds |-> IF OwnsJob(w) /\ j = own THEN FreeJob ELSE jobs[j]]
  BY <1>0 DEF Ack, conversation
<1>2. own \in JobIds /\ jobs[own].owner = w /\ OwnsJob(w)
  BY <1>0, Nobody DEF OwnsJob
<1>3. jobs'[own] = FreeJob /\ \A k \in JobIds : k # own => jobs'[k] = jobs[k]
  BY <1>1, <1>2
<1>4. pc'[w] = "idle" /\ \A p \in Procs : p # w => pc'[p] = pc[p]
  BY <1>1, Nobody DEF TypeOK, Stop, Goto
<1>5. /\ run'[w].job = NoJob
      /\ \A v \in Workers : v # w => run'[v] = run[v] /\ why'[v] = why[v]
  BY <1>1, Nobody DEF TypeOK, Stop, IdleRun
<1>6. \A p \in Procs : p # w => held'[p] = held[p]
  BY <1>1 DEF TypeOK, Stop
<1>7. \A k \in JobIds : k # own => jobs[k].owner # w
  BY <1>0 DEF Calm, JobsOwned
<1>8. SameActors
  <2>1. Acts(own)' = Acts(own)
    BY <1>1, <1>2, <1>3, Nobody DEF Acts, FreeJob
  <2>2. ASSUME NEW k \in JobIds, k # own
        PROVE  Acts(k)' = Acts(k)
    <3>1. jobs'[k] = jobs[k]
      BY <1>3, <2>2
    <3>2. CASE jobs[k].owner = NoWorker
      BY <3>1, <3>2 DEF Acts
    <3>3. CASE jobs[k].owner # NoWorker
      <4>1. jobs[k].owner \in Procs /\ jobs[k].owner # w
        BY <1>7, <2>2, <3>3, OwnerType, Nobody
      <4> QED BY <1>4, <3>1, <3>3, <4>1 DEF Acts
    <3> QED BY <3>2, <3>3
  <2>3. \A p \in Procs : Pushes(p)' = Pushes(p) /\ (Pushes(p) => held'[p] = held[p])
    BY <1>1, <1>4, <1>6 DEF Pushes
  <2>4. ~ Acts(own)
    BY <1>1, <1>2, Nobody DEF Acts
  <2>5. \A k \in JobIds : Acts(k) => jobs'[k].claim = jobs[k].claim
    BY <1>3, <2>4
  <2>6. \A k \in JobIds : Acts(k)' = Acts(k)
    BY <2>1, <2>2
  <2> QED BY <1>1, <2>3, <2>5, <2>6 DEF SameActors
<1>9. OneActs'
  BY <1>8, SameActorsKeep DEF Calm
<1>10. JobsOwned'
  <2>1. ASSUME NEW v \in Workers
        PROVE  IF pc'[v] = "idle"
                 THEN run'[v].job = NoJob
                 ELSE /\ run'[v].job \in JobIds
                      /\ jobs'[run'[v].job].owner = v
                      /\ jobs'[run'[v].job].claim = run'[v].claim
    <3>1. CASE v = w
      BY <1>4, <1>5, <3>1
    <3>2. CASE v # w
      BY <1>2, <1>3, <1>4, <1>5, <3>2, Nobody DEF Calm, JobsOwned
    <3> QED BY <3>1, <3>2
  <2>2. ASSUME NEW k \in JobIds, jobs'[k].owner \in Workers
        PROVE  run'[jobs'[k].owner].job = k
    <3>1. k # own
      BY <1>3, <2>2, Nobody DEF FreeJob
    <3> QED BY <1>3, <1>5, <1>7, <2>2, <3>1 DEF Calm, JobsOwned
  <2> QED BY <2>1, <2>2 DEF JobsOwned
<1>11. NothingAborts'
  BY <1>4, <1>5, Nobody DEF Calm, NothingAborts
<1> QED BY <1>1, <1>9, <1>10, <1>11 DEF Calm
--------------------------------------------------------------------------------
(* A lease with an acting job or push has a carrier, and these are all. *)
LEMMA CarriersAre ==
  ASSUME TypeOK, Calm, active # NoClaim
  PROVE  \/ \E j \in JobIds : Carriers(active) = {j}
         \/ \E p \in Procs : Carriers(active) = {p}
<1>1. \A j \in JobIds :
        /\ jobs[j].claim = active
        /\ \/ jobs[j].owner = NoWorker
           \/ \E w \in Workers : /\ jobs[j].owner = w
                                 /\ run[w].job = j
                                 /\ pc[w] \in {"validate", "segment", "abort"}
        <=> Acts(j)
  <2> SUFFICES ASSUME NEW j \in JobIds
               PROVE  /\ jobs[j].claim = active
                      /\ \/ jobs[j].owner = NoWorker
                         \/ \E w \in Workers : /\ jobs[j].owner = w
                                               /\ run[w].job = j
                                               /\ pc[w] \in {"validate", "segment", "abort"}
                      <=> Acts(j)
    OBVIOUS
  <2>1. Acts(j) => jobs[j].claim = active
    BY DEF Calm, OneActs
  <2>2. CASE jobs[j].owner = NoWorker
    BY <2>1, <2>2 DEF Acts
  <2>3. CASE jobs[j].owner # NoWorker
    <3>1. jobs[j].owner \in Workers
      BY <2>3, OwnerType
    <3>2. run[jobs[j].owner].job = j /\ pc[jobs[j].owner] # "abort"
      BY <3>1 DEF Calm, JobsOwned, NothingAborts
    <3> QED BY <2>1, <2>3, <3>1, <3>2 DEF Acts
  <2> QED BY <2>2, <2>3
<1>2. \A p \in Procs : pc[p] = "push" /\ held[p] = active <=> Pushes(p)
  BY DEF Calm, OneActs, Pushes
<1>3. Carriers(active) = {j \in JobIds : Acts(j)} \cup {p \in Procs : Pushes(p)}
  BY <1>1, <1>2 DEF Carriers
<1>4. CASE \E j \in JobIds : Acts(j)
  <2>1. PICK j \in JobIds : Acts(j)
    BY <1>4
  <2>2. {k \in JobIds : Acts(k)} = {j} /\ {p \in Procs : Pushes(p)} = {}
    BY <2>1 DEF Calm, OneActs
  <2> QED BY <1>3, <2>2
<1>5. CASE \E p \in Procs : Pushes(p)
  <2>1. PICK p \in Procs : Pushes(p)
    BY <1>5
  <2>2. {q \in Procs : Pushes(q)} = {p} /\ {j \in JobIds : Acts(j)} = {}
    BY <2>1 DEF Calm, OneActs
  <2> QED BY <1>3, <2>2
<1> QED BY <1>4, <1>5 DEF Calm, OneActs

(* What a calm pipeline cannot do without a fault. *)
LEMMA CalmExcludes ==
  ASSUME TypeOK, Calm, faults = 0, faults' = 0
  PROVE  /\ \A p : ~ (TryClaimFails(p) \/ RequestCrashes(p))
         /\ \A w \in Workers : ~ (LoadFails(w) \/ ProcessingFails(w) \/ AbortFails(w)
                                   \/ WorkerCrashes(w))
         /\ \A w \in Workers : ~ (Abort(w) \/ Retry(w) \/ GiveUp(w))
         /\ \A j \in JobIds : ~ (ReenqueueOrphan(j) \/ ReenqueueStalled(j))
         /\ ~ LeaseExpires
<1>1. ~ Fault
  BY DEF Fault
<1>2. \A p : ~ (TryClaimFails(p) \/ RequestCrashes(p))
  BY <1>1 DEF TryClaimFails, RequestCrashes
<1>3. \A w \in Workers : ~ (LoadFails(w) \/ ProcessingFails(w) \/ AbortFails(w)
                              \/ WorkerCrashes(w))
  BY <1>1 DEF LoadFails, ProcessingFails, AbortFails, WorkerCrashes
<1>4. \A w \in Workers : ~ (Abort(w) \/ Retry(w) \/ GiveUp(w))
  BY DEF Abort, Retry, GiveUp, Calm, NothingAborts
<1>5. \A j \in JobIds : ~ (ReenqueueOrphan(j) \/ ReenqueueStalled(j))
  <2>1. \A j \in JobIds : jobs[j].owner # NoWorker => Executing(j)
    BY OwnerType DEF Calm, JobsOwned, Executing
  <2> QED BY <1>1, <2>1 DEF ReenqueueOrphan, ReenqueueStalled
<1>6. ~ LeaseExpires
  <2>1. active # NoClaim => Carriers(active) # {}
    BY CarriersAre
  <2> QED BY <1>1, <2>1 DEF LeaseExpires
<1> QED BY <1>2, <1>3, <1>4, <1>5, <1>6

(* Faults are counted and never forgotten. *)
LEMMA FaultsStay ==
  ASSUME TypeOK, [Next]_vars, faults' = 0
  PROVE  faults = 0
<1>1. faults \in Nat
  BY DEF TypeOK
<1>2. Fault \/ faults' = faults => faults = 0
  BY <1>1 DEF Fault
<1>3. \A c : AppendMessage(c) \/ ImportBatch(c) \/ ImportEmptyBatch(c) \/ RequestCrashes(c)
             => Fault \/ faults' = faults
  BY DEF AppendMessage, ImportBatch, Ingest, ImportEmptyBatch, RequestCrashes
<1>4. \A p : Recover(p) \/ TryClaim(p) \/ PushJob(p) \/ TryClaimFails(p)
             => Fault \/ faults' = faults
  BY DEF Recover, TryClaim, PushJob, TryClaimFails
<1>5. \A w : Fetch(w) \/ Validate(w) \/ Commit(w) \/ EnqueueEpisodes(w)
                \/ EnqueueReviews(w) \/ Abort(w) \/ Ack(w) \/ Retry(w)
             => faults' = faults
  BY DEF Fetch, Validate, Commit, EnqueueEpisodes, EnqueueReviews, Abort, Ack, Retry
<1>6. \A w : LoadFails(w) \/ ProcessingFails(w) \/ AbortFails(w) \/ GiveUp(w)
                \/ WorkerCrashes(w)
             => Fault \/ faults' = faults
  BY DEF LoadFails, ProcessingFails, AbortFails, GiveUp, WorkerCrashes
<1>7. \A j : ReenqueueOrphan(j) \/ ReenqueueStalled(j) => Fault \/ faults' = faults
  BY DEF ReenqueueOrphan, ReenqueueStalled
<1>8. StatusPoll \/ LeaseExpires \/ UNCHANGED vars => Fault \/ faults' = faults
  BY DEF StatusPoll, LeaseExpires, vars
<1> QED
  BY <1>2, <1>3, <1>4, <1>5, <1>6, <1>7, <1>8 DEF Next, ClientStep, WorkerStep

(* CInv is inductive. *)
LEMMA StepCInv == CInv /\ [Next]_vars => CInv'
<1> SUFFICES ASSUME CInv, [Next]_vars, faults' = 0 PROVE Calm'
  BY StepIInv DEF CInv
<1>1. IInv /\ TypeOK /\ WorkersHaveClaims
  BY DEF CInv, IInv
<1>2. faults = 0 /\ Calm
  BY <1>1, FaultsStay DEF CInv
<1>3. ASSUME NEW c \in Clients, AppendMessage(c) \/ ImportBatch(c) \/ ImportEmptyBatch(c)
      PROVE  Calm'
  BY <1>1, <1>2, <1>3, AppendCalm
<1>4. ASSUME NEW p \in Procs, Recover(p) \/ TryClaim(p) \/ PushJob(p)
      PROVE  Calm'
  BY <1>1, <1>2, <1>4, RecoverCalm, TryClaimCalm, PushJobCalm
<1>5. ASSUME NEW w \in Workers, Fetch(w) \/ Validate(w) \/ Commit(w)
      PROVE  Calm'
  BY <1>1, <1>2, <1>5, FetchCalm, ValidateCalm, CommitCalm
<1>6. ASSUME NEW w \in Workers, EnqueueEpisodes(w) \/ EnqueueReviews(w) \/ Ack(w)
      PROVE  Calm'
  BY <1>1, <1>2, <1>6, EnqueueCalm, AckCalm
<1>7. StatusPoll => Calm'
  BY <1>2, StatusPollCalm
<1>8. UNCHANGED vars => Calm'
  BY <1>2 DEF vars, conversation, control, Calm, JobsOwned, NothingAborts, OneActs, Acts,
              Pushes
<1> QED
  BY <1>1, <1>2, <1>3, <1>4, <1>5, <1>6, <1>7, <1>8, CalmExcludes, Nobody
  DEF Next, ClientStep, WorkerStep
--------------------------------------------------------------------------------
(* As long as nothing fails, exactly one queued job, worker or push acts for the
   lease, for any number of requests and workers: it is neither forgotten nor
   worked on twice (try_claim_segmentation_job, process_event_segmentation). *)
THEOREM LeasesHaveOneCarrier == Spec => []LeaseHasOneCarrier
<1>1. CInv => LeaseHasOneCarrier
  <2> SUFFICES ASSUME CInv, faults = 0, active # NoClaim
               PROVE  Cardinality(Carriers(active)) = 1
    BY DEF LeaseHasOneCarrier
  <2>1. \E x : Carriers(active) = {x}
    BY CarriersAre DEF CInv, IInv
  <2> QED BY <2>1, FS_Singleton
<1> QED BY <1>1, InitCInv, StepCInv, PTL DEF Spec
================================================================================
