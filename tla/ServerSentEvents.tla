--------------------------- MODULE ServerSentEvents ---------------------------
(***************************************************************************)
(* createSseClient: the generator that turns the text of a server-sent     *)
(* event stream into events and reconnects, after a growing pause, when    *)
(* the connection fails.                                                   *)
(*                                                                         *)
(* Text is a sequence of tokens: whole lines <<field, value>> and the      *)
(* characters that end them.  A line that is cut between two chunks is put *)
(* together by the buffer and needs no token of its own; what matters is   *)
(* where the line ends fall.  A value is known by a number.                *)
(* The server is external: it keeps a numbered log and answers a request   *)
(* with what follows its Last-Event-ID.                                    *)
(***************************************************************************)
EXTENDS Integers, Sequences, SequencesExt

CONSTANTS
  Log,            \* the server's events, each a sequence of lines
  JsonEvents,     \* the events whose data is JSON: they may be rejected
  LineEnds,       \* how servers end their lines: "LF", "CR" or "CRLF"
  RetryLimits,    \* values of sseMaxRetryAttempts, 0 when it is undefined
  DefaultDelay,   \* sseDefaultRetryDelay
  MaxDelay,       \* sseMaxRetryDelay
  MaxFaults       \* failed requests and connections (bound)

LF == <<"LF", 0>>
CR == <<"CR", 0>>
NaN == -1         \* the value of a retry line that does not parse
Line == {"data", "id", "retry", "other"} \X Int

Named(lines, name) == {i \in DOMAIN lines : lines[i][1] = name}

(* The values of the data lines, in their order. *)
DataOf(lines) ==
  LET Data[n \in 0 .. Len(lines)] ==
        IF n = 0 THEN <<>>
        ELSE IF lines[n][1] = "data" THEN Append(Data[n - 1], lines[n][2])
        ELSE Data[n - 1]
  IN  Data[Len(lines)]

(* An event carries its number as its id, and is known by its data if it has
   any; a delay is no negative number. *)
ASSUME ServerSentEventsAssumption ==
  /\ Log \in Seq(Seq(Line))
  /\ \A e \in DOMAIN Log :
       /\ {Log[e][i] : i \in Named(Log[e], "id")} = {<<"id", e>>}
       /\ \A i \in Named(Log[e], "retry") : Log[e][i][2] \in Nat \cup {NaN}
       /\ \A f \in DOMAIN Log : DataOf(Log[e]) = DataOf(Log[f]) => f = e \/ DataOf(Log[e]) = <<>>
  /\ JsonEvents \subseteq DOMAIN Log
  /\ LineEnds \subseteq {"LF", "CR", "CRLF"}
  /\ RetryLimits \subseteq Nat
  /\ DefaultDelay \in Nat /\ MaxDelay \in Nat /\ MaxFaults \in Nat

VARIABLES
  call,           \* how the caller and the server are set up, fixed
  aborted,        \* the caller's signal
  pc,             \* "top", "fetch", "read", "dispatch", "yield", "sleep" or "finished"
  attempt, retryDelay, lastEventId, buffer, chunks,
  wire,           \* what the connected server has yet to send
  delivered,      \* what the generator has yielded (history)
  slept,          \* the last pause and the delay it was computed from (history)
  faults          \* faults so far

reading == <<buffer, chunks, wire>>
vars == <<call, aborted, pc, attempt, retryDelay, lastEventId, reading, delivered,
          slept, faults>>

Events == DOMAIN Log

(* `lastEventId` is undefined, here 0, until an id line is read. *)
Init ==
  /\ call \in [eol : LineEnds, limit : RetryLimits, rejects : SUBSET JsonEvents]
  /\ aborted = FALSE
  /\ pc = "top"
  /\ attempt = 0 /\ retryDelay = DefaultDelay /\ lastEventId = 0
  /\ buffer = <<>> /\ chunks = <<>> /\ wire = <<>>
  /\ delivered = <<>>
  /\ slept = [wait |-> 0, delay |-> 0]
  /\ faults = 0

Fault == faults < MaxFaults /\ faults' = faults + 1
--------------------------------------------------------------------------------
(***************************************************************************)
(* Text.                                                                   *)
(***************************************************************************)
LineEnd(eol) == CASE eol = "LF" -> <<LF>>
                  [] eol = "CR" -> <<CR>>
                  [] eol = "CRLF" -> <<CR, LF>>

(* An event on the wire: its lines, and a blank line to end it. *)
TextOf(event, end) ==
  LET Ended[n \in 0 .. Len(event)] ==
        IF n = 0 THEN <<>> ELSE Ended[n - 1] \o <<event[n]>> \o end
  IN  Ended[Len(event)] \o end

(* What the server sends after event `seen`: the last events of its log. *)
TextAfter(seen, end) ==
  LET Latest[n \in 0 .. Len(Log) - seen] ==
        IF n = 0 THEN <<>> ELSE TextOf(Log[Len(Log) - n + 1], end) \o Latest[n - 1]
  IN  Latest[Len(Log) - seen]

(* buffer.replace(/\r\n?/g, '\n') *)
DropCarriageReturns(text) ==                             \* mutant
  SelectSeq(text, LAMBDA t : t # CR)
NormalizeLineEnds(text) ==
  LET Normal[n \in 0 .. Len(text)] ==
        IF n = 0 THEN <<>>
        ELSE IF n > 1 /\ text[n] = LF /\ text[n - 1] = CR THEN Normal[n - 1]
        ELSE Append(Normal[n - 1], IF text[n] = CR THEN LF ELSE text[n])
  IN  Normal[Len(text)]

(* split('\n\n'), from left to right: the whole pieces, and what follows the
   last blank line.  A line feed after one that ended no piece ends one. *)
Begun == [whole |-> <<>>, rest |-> <<>>]
EndsPiece(piece, t) == t = LF /\ piece # <<>> /\ Last(piece) = LF
Fed(s, t) ==
  IF EndsPiece(s.rest, t) THEN [whole |-> Append(s.whole, Front(s.rest)), rest |-> <<>>]
                          ELSE [s EXCEPT !.rest = Append(@, t)]
SplitAtBlankLines(text) ==
  LET Split[n \in 0 .. Len(text)] == IF n = 0 THEN Begun ELSE Fed(Split[n - 1], text[n])
  IN  Split[Len(text)]
--------------------------------------------------------------------------------
(***************************************************************************)
(* The generator.                                                          *)
(***************************************************************************)
StartAttempt ==
  /\ pc = "top"
  /\ IF aborted
       THEN pc' = "finished" /\ UNCHANGED attempt
       ELSE pc' = "fetch" /\ attempt' = attempt + 1
  /\ UNCHANGED <<call, aborted, retryDelay, lastEventId, reading, delivered, slept, faults>>

(* retryDelay * 2 ** (attempt - 1), and its cap. *)
Doubled(delay, times) ==
  LET Double[n \in 0 .. times] == IF n = 0 THEN delay ELSE 2 * Double[n - 1]
  IN  Double[times]
UncappedBackoff(delay, tries) == Doubled(delay, tries - 1)  \* mutant
Backoff(delay, tries) ==
  LET doubled == Doubled(delay, tries - 1)
  IN  IF doubled < MaxDelay THEN doubled ELSE MaxDelay

(* The catch block: report, give up or pause. *)
Caught(delay) ==
  IF call.limit # 0 /\ attempt >= call.limit
    THEN pc' = "finished" /\ UNCHANGED slept
    ELSE pc' = "sleep" /\ slept' = [wait |-> Backoff(delay, attempt), delay |-> delay]

Connect ==
  /\ pc = "fetch" /\ ~ aborted
  /\ buffer' = <<>> /\ chunks' = <<>>
  /\ wire' = TextAfter(lastEventId, LineEnd(call.eol))
  /\ pc' = "read"
  /\ UNCHANGED <<call, aborted, attempt, retryDelay, lastEventId, delivered, slept, faults>>

(* onRequest or fetch throws, or the response is not ok or has no body. *)
FetchFails ==
  /\ pc = "fetch"
  /\ (aborted /\ UNCHANGED faults) \/ Fault
  /\ Caught(retryDelay)
  /\ UNCHANGED <<call, aborted, attempt, retryDelay, lastEventId, reading, delivered>>

(* The next chunk of the response, cut wherever the network cuts it. *)
KeepPieces(pieces) == buffer' = <<>> /\ chunks' = pieces.whole        \* mutant
TakePieces(pieces) == buffer' = pieces.rest /\ chunks' = pieces.whole

Receive ==
  /\ pc = "read" /\ ~ aborted
  /\ \E n \in 1 .. Len(wire) :
       /\ TakePieces(SplitAtBlankLines(NormalizeLineEnds(buffer \o SubSeq(wire, 1, n))))
       /\ wire' = SubSeq(wire, n + 1, Len(wire))
  /\ pc' = "dispatch"
  /\ UNCHANGED <<call, aborted, attempt, retryDelay, lastEventId, delivered, slept, faults>>

(* The server closes the response: the loop ends, whatever the buffer holds. *)
ServerCloses ==
  /\ pc = "read" /\ ~ aborted
  /\ pc' = "finished"
  /\ UNCHANGED <<call, aborted, attempt, retryDelay, lastEventId, reading, delivered, slept,
                 faults>>

ConnectionFails ==
  /\ pc = "read" /\ ~ aborted
  /\ Fault
  /\ Caught(retryDelay)
  /\ UNCHANGED <<call, aborted, attempt, retryDelay, lastEventId, reading, delivered>>

(* abortHandler cancels the reader while fetch fails the body: the read ends
   as done or throws, whichever comes first. *)
NeverCancelled == FALSE                                  \* mutant
ReadCancelled == pc = "read" /\ aborted

ReadAborted ==
  /\ ReadCancelled
  /\ (pc' = "finished" /\ UNCHANGED slept) \/ Caught(retryDelay)
  /\ UNCHANGED <<call, aborted, attempt, retryDelay, lastEventId, reading, delivered, faults>>
--------------------------------------------------------------------------------
(***************************************************************************)
(* One chunk of the buffer is one event.                                   *)
(***************************************************************************)
(* Only data that parses as JSON is validated: a whole event's. *)
Rejected(lines) == \E e \in call.rejects : DataOf(lines) # <<>> /\ DataOf(lines) = DataOf(Log[e])

(* The id and the delay are taken over line by line, before the event is
   validated; a delay that is no number is ignored. *)
LastOf(lines, at, before) == IF at = {} THEN before ELSE lines[Max(at)][2]
NextEventId(lines) == LastOf(lines, Named(lines, "id"), lastEventId)
NextDelay(lines) ==
  LastOf(lines, {i \in Named(lines, "retry") : lines[i][2] # NaN}, retryDelay)

Dispatch ==
  /\ pc = "dispatch" /\ chunks # <<>>
  /\ LET lines == Head(chunks) IN
     /\ lastEventId' = NextEventId(lines)
     /\ retryDelay' = NextDelay(lines)
     /\ ~ Rejected(lines)
     /\ IF DataOf(lines) # <<>>
          THEN /\ delivered' = Append(delivered, [data |-> DataOf(lines), id |-> lastEventId'])
               /\ pc' = "yield"
          ELSE UNCHANGED <<delivered, pc>>
  /\ chunks' = Tail(chunks)
  /\ UNCHANGED <<call, aborted, attempt, buffer, wire, slept, faults>>

(* responseValidator or responseTransformer throws. *)
DispatchRejected ==
  /\ pc = "dispatch" /\ chunks # <<>>
  /\ LET lines == Head(chunks) IN
     /\ Rejected(lines)
     /\ lastEventId' = NextEventId(lines)
     /\ retryDelay' = NextDelay(lines)
  /\ UNCHANGED <<call, aborted, attempt, reading, delivered, faults>>
  /\ Caught(retryDelay')

ChunkDone ==
  /\ pc = "dispatch" /\ chunks = <<>>
  /\ pc' = "read"
  /\ UNCHANGED <<call, aborted, attempt, retryDelay, lastEventId, reading, delivered, slept,
                 faults>>

Pull ==
  /\ pc = "yield"
  /\ pc' = "dispatch"
  /\ UNCHANGED <<call, aborted, attempt, retryDelay, lastEventId, reading, delivered, slept,
                 faults>>

Wake ==
  /\ pc = "sleep"
  /\ pc' = "top"
  /\ UNCHANGED <<call, aborted, attempt, retryDelay, lastEventId, reading, delivered, slept,
                 faults>>

(* The caller leaves its loop or aborts. *)
Return ==
  /\ pc = "yield"
  /\ pc' = "finished"
  /\ UNCHANGED <<call, aborted, attempt, retryDelay, lastEventId, reading, delivered, slept,
                 faults>>

Abort ==
  /\ pc # "finished" /\ ~ aborted
  /\ aborted' = TRUE
  /\ UNCHANGED <<call, pc, attempt, retryDelay, lastEventId, reading, delivered, slept, faults>>
--------------------------------------------------------------------------------
Progress ==
  \/ StartAttempt \/ Connect \/ (FetchFails /\ UNCHANGED faults)
  \/ Receive \/ ReadAborted \/ Dispatch \/ DispatchRejected \/ ChunkDone
  \/ Pull \/ Wake

Next ==
  \/ StartAttempt \/ Connect \/ FetchFails
  \/ Receive \/ ServerCloses \/ ConnectionFails \/ ReadAborted
  \/ Dispatch \/ DispatchRejected \/ ChunkDone
  \/ Pull \/ Wake \/ Return \/ Abort

Spec == Init /\ [][Next]_vars

FairSpec == Spec /\ WF_vars(Progress)
--------------------------------------------------------------------------------
(***************************************************************************)
(* Properties.                                                             *)
(***************************************************************************)
(* The event of the log that a delivery is, 0 when it is none of them. *)
EventOf(delivery) ==
  IF \E e \in Events : DataOf(Log[e]) = delivery.data
    THEN CHOOSE e \in Events : DataOf(Log[e]) = delivery.data
    ELSE 0

Stream == INSTANCE EventStream WITH
  Size <- Len(Log),
  skippable <- call.rejects \cup {e \in Events : DataOf(Log[e]) = <<>>},
  seen <- lastEventId,
  out <- [i \in DOMAIN delivered |-> EventOf(delivered[i])],
  open <- pc # "finished"

(* Wherever the network cuts the text and the connection fails, the reader
   gets the events of the log whole, in order and once: reconnecting resumes
   exactly after what was dispatched (createSseClient, Last-Event-ID). *)
RefinesStream == Stream!Spec

(* A delivery is all the data of one event of the log: the comment at the
   replacement of line ends promises that they are normalized. *)
EventsAreWhole == \A i \in DOMAIN delivered : EventOf(delivered[i]) # 0

(* The pause doubles from attempt to attempt up to its cap and never gets
   shorter, whatever succeeded in between, unless the server asks for another
   delay (createSseClient, backoff). *)
BackoffGrows ==
  [][pc # "sleep" /\ pc' = "sleep" =>
       /\ slept'.wait \in 0 .. MaxDelay
       /\ slept.delay = slept'.delay => slept'.wait >= slept.wait]_vars

(* After an abort the generator comes to its end, wherever it stood and even
   when the server stays silent (createSseClient, abortHandler). *)
AbortEnds == aborted ~> pc = "finished"

(* A stream that is not ended by its caller, its server or its retry limit
   gets to the end of the log, through failing requests and connections. *)
StreamCatchesUp == <>(lastEventId = Len(Log) \/ pc = "finished")
================================================================================
