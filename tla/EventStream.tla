------------------------------ MODULE EventStream ------------------------------
(***************************************************************************)
(* What the reader of a server-sent event stream is promised: the events   *)
(* of the server's log reach it whole, in order and once each, with none   *)
(* left out but those that carry no data or that the reader's own          *)
(* validator refuses, until the stream ends.                               *)
(***************************************************************************)
EXTENDS Naturals, Sequences

CONSTANT Size     \* the number of events in the server's log, a natural number

VARIABLES
  skippable,      \* the events that are not handed over
  seen,           \* the last event that was handed over or skipped
  out,            \* the events handed over, oldest first
  open            \* the stream has not ended

vars == <<skippable, seen, out, open>>

Init ==
  /\ skippable \in SUBSET (1 .. Size)
  /\ seen = 0
  /\ out = <<>>
  /\ open = TRUE

HandOver ==
  /\ open /\ seen < Size
  /\ seen + 1 \notin skippable
  /\ seen' = seen + 1
  /\ out' = Append(out, seen')
  /\ UNCHANGED <<skippable, open>>

(* An event that is refused may be the last straw. *)
Skip ==
  /\ open /\ seen < Size
  /\ seen + 1 \in skippable
  /\ seen' = seen + 1
  /\ open' \in BOOLEAN
  /\ UNCHANGED <<skippable, out>>

End ==
  /\ open
  /\ open' = FALSE
  /\ UNCHANGED <<skippable, seen, out>>

Next == HandOver \/ Skip \/ End

Spec == Init /\ [][Next]_vars
================================================================================
