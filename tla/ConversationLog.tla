---------------------------- MODULE ConversationLog ----------------------------
(***************************************************************************)
(* What the segmentation pipeline promises about one conversation, without *)
(* leases, jobs or failures: messages are only appended, and a finalized   *)
(* prefix of them, cut into spans, only grows, by spans that cover exactly *)
(* the messages it grows by.                                               *)
(***************************************************************************)
EXTENDS SegmentPlan

VARIABLES
  lastSeq,     \* the last message
  nextStart,   \* the first message that is in no finalized span
  spans        \* the finalized spans

logVars == <<lastSeq, nextStart, spans>>

Init ==
  /\ lastSeq = -1
  /\ nextStart = 0
  /\ spans = {}

Append ==
  /\ lastSeq' \in Int
  /\ lastSeq' > lastSeq
  /\ UNCHANGED <<nextStart, spans>>

Finalize ==
  /\ nextStart' \in (nextStart + 1) .. (lastSeq + 1)
  /\ spans \subseteq spans'
  /\ Tiles(spans' \ spans, nextStart, nextStart')
  /\ UNCHANGED lastSeq

Next == Append \/ Finalize

Spec == Init /\ [][Next]_logVars
================================================================================
