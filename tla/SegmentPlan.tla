------------------------------ MODULE SegmentPlan ------------------------------
(***************************************************************************)
(* Segments of a conversation and the commit plan built from them.         *)
(*                                                                         *)
(* A segment is a closed range of message sequence numbers; it becomes a   *)
(* row of episode_span when it is finalized.  The reviewed segmentation of *)
(* a claimed range lo..hi is determined by its cuts: the sequence numbers, *)
(* other than lo, at which a segment starts.  Which cuts the rule stage    *)
(* and the two review stages produce is the policy's business; here every  *)
(* set of cuts is possible.                                                *)
(***************************************************************************)
EXTENDS Integers

Segment == [start : Nat, end : Nat]

(* The segments of lo..hi that start at lo and at every cut. *)
SegmentsOf(lo, hi, cuts) ==
  { s \in [start : {lo} \cup cuts, end : {hi} \cup {c - 1 : c \in cuts}] :
      /\ s.start <= s.end
      /\ \A c \in cuts : c <= s.start \/ s.end < c }

LastSegment(segs) == CHOOSE s \in segs : \A t \in segs : t.start <= s.start

(***************************************************************************)
(* build_commit_plan.  At the end of the conversation every segment is     *)
(* finalized and the next segment starts behind the claim.  Otherwise the  *)
(* last segment is carried over; when it is the only one, nothing is       *)
(* finalized and the next segment starts where the claim started.          *)
(***************************************************************************)
FinalizeEverySegment(segs, eofIdentified) == segs                         \* mutant
FinalizedSegments(segs, eofIdentified) ==
  IF eofIdentified THEN segs ELSE segs \ {LastSegment(segs)}

SkipTheTail(segs, eofIdentified, claimedEnd) == claimedEnd + 1            \* mutant
NextSegmentStart(segs, eofIdentified, claimedEnd) ==
  IF eofIdentified THEN claimedEnd + 1 ELSE LastSegment(segs).start

(* S covers lo..hi-1 without a gap, reaches nothing else, never overlaps. *)
Tiles(S, lo, hi) ==
  /\ \A s \in S : lo <= s.start /\ s.start <= s.end /\ s.end < hi
  /\ \A n \in lo .. (hi - 1) : \E s \in S : s.start <= n /\ n <= s.end
  /\ \A s, t \in S : s # t => s.end < t.start \/ t.end < s.start
================================================================================
