----------------------------- MODULE Segmentation ------------------------------
(***************************************************************************)
(* The segmentation pipeline of one conversation: API requests append      *)
(* messages and claim a range to segment, the claim travels to a worker in *)
(* a queued job, the worker segments the range and commits the result.     *)
(*                                                                         *)
(* All rows are keyed by the conversation, so one conversation is the      *)
(* whole story.  Every database transaction is one action; what happens    *)
(* between two transactions (the LLM calls, the pushes to the job queue) is*)
(* open to interleaving, to errors and to crashes.                         *)
(*                                                                         *)
(* Time enters in two places only: a message may come at least             *)
(* SEGMENTATION_GAP_MINUTES after the one before it (gaps), and a lease may*)
(* grow older than SEGMENTATION_LEASE_TTL_MINUTES (expired).               *)
(***************************************************************************)
EXTENDS SegmentPlan, FiniteSets

CONSTANTS
  Clients,         \* API requests in flight at the same time
  Workers,         \* executions of segmentation jobs at the same time: the
                   \* worker has concurrency 1, so one per server process
  JobIds,          \* rows of the job table in use at the same time (bound)
  NoWorker, NoJob, \* no worker holds the job, no job is held
  MaxMessages,     \* messages ever appended (bound)
  MaxBatch,        \* messages in one batch (bound)
  EmptyBatches,    \* may requests import a batch without messages?
  PendingTrigger,  \* SEGMENTATION_PENDING_TRIGGER_COUNT
  MaxFaults        \* crashes, errors and stalls (bound)

ASSUME SegmentationAssumption ==
  /\ Clients \cap Workers = {}
  /\ NoWorker \notin Workers
  /\ NoJob \notin JobIds
  /\ MaxMessages \in Nat
  /\ MaxBatch \in Nat
  /\ EmptyBatches \in BOOLEAN
  /\ PendingTrigger \in Nat
  /\ MaxFaults \in Nat

VARIABLES
  (* conversation_message *)
  gaps,         \* the messages that follow their predecessor after a time gap
  (* segmentation_state *)
  lastSeq,      \* last_message_seq
  eof,          \* eof_identified
  nextStart,    \* next_segment_start_seq
  active,       \* active_segment_start_seq and active_segment_end_seq
  expired,      \* active_since lies further back than the lease's TTL
  (* episode_span, and the spans an EpisodeCreationJob was pushed for *)
  spans,
  episodeJobs,
  (* the segmentation job queue *)
  jobs,
  (* requests and workers *)
  pc,           \* what the request or worker does next
  why,          \* the trigger context of its try_claim_segmentation_job
  held,         \* the claim it obtained and has not pushed yet
  run,          \* the job a worker executes and what it remembers of it
  (* history *)
  examined,     \* the last message a committed claim covered
  faults        \* faults so far

conversation == <<gaps, lastSeq, eof, nextStart, active, expired, spans,
                  episodeJobs, examined>>
control == <<pc, why, held, run>>
vars == <<conversation, jobs, control, faults>>

Procs == Clients \cup Workers

Claim == Segment
NoClaim == [start |-> -1, end |-> -1]

Labels == {"idle", "recover", "claim", "push", "validate", "segment", "enqueue",
           "reviews", "abort", "ok", "err"}
Reasons == {"ingest", "stale", "follow_up", "error"}
Job == [claim : Claim \cup {NoClaim}, owner : Workers \cup {NoWorker}]
Run == [job : JobIds \cup {NoJob}, claim : Claim \cup {NoClaim}, eof : BOOLEAN,
        spans : SUBSET Segment, next : Nat]

IdleRun == [job |-> NoJob, claim |-> NoClaim, eof |-> FALSE,
            spans |-> {}, next |-> 0]
FreeJob == [claim |-> NoClaim, owner |-> NoWorker]

TypeOK ==
  /\ gaps \in SUBSET Nat
  /\ lastSeq \in Nat \cup {-1}
  /\ eof \in BOOLEAN
  /\ nextStart \in Nat
  /\ active \in Claim \cup {NoClaim}
  /\ expired \in BOOLEAN
  /\ spans \in SUBSET Segment
  /\ episodeJobs \in SUBSET Segment
  /\ jobs \in [JobIds -> Job]
  /\ pc \in [Procs -> Labels]
  /\ why \in [Procs -> Reasons]
  /\ held \in [Procs -> Claim \cup {NoClaim}]
  /\ run \in [Workers -> Run]
  /\ examined \in Nat \cup {-1}
  /\ faults \in Nat

Init ==
  /\ gaps = {}
  /\ lastSeq = -1
  /\ eof = FALSE
  /\ nextStart = 0
  /\ active = NoClaim
  /\ expired = FALSE
  /\ spans = {}
  /\ episodeJobs = {}
  /\ jobs = [j \in JobIds |-> FreeJob]
  /\ pc = [p \in Procs |-> "idle"]
  /\ why = [p \in Procs |-> "ingest"]
  /\ held = [p \in Procs |-> NoClaim]
  /\ run = [w \in Workers |-> IdleRun]
  /\ examined = -1
  /\ faults = 0

Goto(p, label) == pc' = [pc EXCEPT ![p] = label]

Fault ==
  /\ faults < MaxFaults
  /\ faults' = faults + 1
--------------------------------------------------------------------------------
(***************************************************************************)
(* Ingestion.  The messages and the cursor are written in one transaction; *)
(* eof is sticky.  A single message never marks the end, a batch always.   *)
(***************************************************************************)
Ingest(c, n, isEof, newGaps) ==
  /\ pc[c] = "idle"
  /\ lastSeq + n < MaxMessages
  /\ gaps' = gaps \cup newGaps
  /\ lastSeq' = lastSeq + n
  /\ eof' = (eof \/ isEof)
  /\ Goto(c, "recover")
  /\ UNCHANGED <<nextStart, active, expired, spans, episodeJobs, examined, jobs,
                 why, held, run, faults>>

(* The first message of a conversation has no predecessor. *)
PossibleGaps(n) == SUBSET ((lastSeq + 1) .. (lastSeq + n) \ {0})

AppendMessage(c) ==
  \E newGaps \in PossibleGaps(1) : Ingest(c, 1, FALSE, newGaps)

ImportBatch(c) ==
  \E n \in 1 .. MaxBatch : \E newGaps \in PossibleGaps(n) : Ingest(c, n, TRUE, newGaps)

(* A batch without messages marks nothing and goes on to try a claim. *)
ImportEmptyBatch(c) ==
  /\ EmptyBatches
  /\ pc[c] = "idle"
  /\ Goto(c, "recover")
  /\ UNCHANGED <<conversation, jobs, why, held, run, faults>>
--------------------------------------------------------------------------------
(***************************************************************************)
(* try_claim_segmentation_job and the push of the job, as requests and     *)
(* workers run it: two transactions, then a call of the job queue.         *)
(***************************************************************************)
StaleLeaseIgnoringTtl == active # NoClaim          \* mutant
StaleLeaseIgnoringState == TRUE                    \* mutant
StaleLease == active # NoClaim /\ expired

(* clear_active_fields *)
ReleaseForgotten == UNCHANGED <<active, expired>>  \* mutant
Release == active' = NoClaim /\ expired' = FALSE

RecoverStaleLease ==
  IF StaleLease
    THEN nextStart' = active.start /\ Release
    ELSE UNCHANGED <<nextStart, active, expired>>

Recover(p) ==
  /\ pc[p] = "recover"
  /\ RecoverStaleLease
  /\ Goto(p, "claim")
  /\ UNCHANGED <<gaps, lastSeq, eof, spans, episodeJobs, examined, jobs, why, held,
                 run, faults>>

(* Any adjacent pair of pending messages with a time gap between them. *)
PendingTimeGap == \E g \in gaps : nextStart < g /\ g <= lastSeq

(* Enough pending messages, a time gap among them, or the end identified. *)
Triggered ==
  \/ eof
  \/ lastSeq - nextStart + 1 >= PendingTrigger
  \/ PendingTimeGap

ClaimReadyDespiteLease == nextStart <= lastSeq /\ Triggered  \* mutant
ClaimReady == active = NoClaim /\ nextStart <= lastSeq /\ Triggered

(***************************************************************************)
(* What follows a claim attempt.  A request answers its client.  In a      *)
(* worker, a claim attempt of the stale-job check propagates its error; one*)
(* after a commit makes the whole job fail over to the abort path; one on  *)
(* the abort path ends the job well only if a fresh job was enqueued.      *)
(***************************************************************************)
Resume(reason, outcome) ==
  CASE reason = "ingest" -> "idle"
    [] reason = "error" -> IF outcome = "enqueued" THEN "ok" ELSE "err"
    [] reason \in {"stale", "follow_up"} /\ outcome # "failed" -> "ok"
    [] reason = "stale" /\ outcome = "failed" -> "err"
    [] OTHER -> "abort"

TryClaim(p) ==
  /\ pc[p] = "claim"
  /\ IF ClaimReady
       THEN /\ active' = [start |-> nextStart, end |-> lastSeq]
            /\ expired' = FALSE
            /\ held' = [held EXCEPT ![p] = [start |-> nextStart, end |-> lastSeq]]
            /\ Goto(p, "push")
       ELSE /\ Goto(p, Resume(why[p], "nothing"))
            /\ UNCHANGED <<active, expired, held>>
  /\ UNCHANGED <<gaps, lastSeq, eof, nextStart, spans, episodeJobs, examined, jobs,
                 why, run, faults>>

PushJob(p) ==
  /\ pc[p] = "push"
  /\ \E j \in JobIds :
       /\ jobs[j] = FreeJob
       /\ jobs' = [jobs EXCEPT ![j] = [claim |-> held[p], owner |-> NoWorker]]
  /\ held' = [held EXCEPT ![p] = NoClaim]
  /\ Goto(p, Resume(why[p], "enqueued"))
  /\ UNCHANGED <<conversation, why, run, faults>>

(* A transaction or the push returns an error; a claim already made stays. *)
TryClaimFails(p) ==
  /\ pc[p] \in {"recover", "claim", "push"}
  /\ Fault
  /\ held' = [held EXCEPT ![p] = NoClaim]
  /\ Goto(p, Resume(why[p], "failed"))
  /\ UNCHANGED <<conversation, jobs, why, run>>

(* The benchmark's status query recovers a stale lease and claims nothing. *)
StatusPoll ==
  /\ RecoverStaleLease
  /\ UNCHANGED <<gaps, lastSeq, eof, spans, episodeJobs, examined, jobs, control, faults>>
--------------------------------------------------------------------------------
(***************************************************************************)
(* The worker, process_event_segmentation.                                 *)
(***************************************************************************)
HoldsLeaseMixedUp(w) == active.start = run[w].claim.end  \* mutant
HoldsLease(w) == active = run[w].claim

Fetch(w) ==
  /\ pc[w] = "idle"
  /\ \E j \in JobIds :
       /\ jobs[j].claim # NoClaim
       /\ jobs[j].owner = NoWorker
       /\ jobs' = [jobs EXCEPT ![j].owner = w]
       /\ run' = [run EXCEPT ![w] = [IdleRun EXCEPT !.job = j, !.claim = jobs[j].claim]]
  /\ Goto(w, "validate")
  /\ UNCHANGED <<conversation, why, held, faults>>

(* An unlocked read: it decides whether the job is stale, and keeps eof. *)
Validate(w) ==
  /\ pc[w] = "validate"
  /\ IF HoldsLease(w)
       THEN /\ run' = [run EXCEPT ![w].eof = eof]
            /\ Goto(w, "segment")
            /\ UNCHANGED why
       ELSE /\ why' = [why EXCEPT ![w] = "stale"]
            /\ Goto(w, "recover")
            /\ UNCHANGED run
  /\ UNCHANGED <<conversation, jobs, held, faults>>

(***************************************************************************)
(* The review stages settle on some cuts of the claimed range; the plan    *)
(* made from them is committed if the lease is still this job's.  The      *)
(* primary key of episode_span admits one span per start.                  *)
(***************************************************************************)
CommitAcceptedWithoutLease(w, finalized, next) ==        \* mutant
  /\ next \in run[w].claim.start .. (run[w].claim.end + 1)
  /\ \A s \in spans, t \in finalized : s.start # t.start

CommitAccepted(w, finalized, next) ==
  /\ HoldsLease(w)
  /\ next \in run[w].claim.start .. (run[w].claim.end + 1)
  /\ \A s \in spans, t \in finalized : s.start # t.start

Commit(w) ==
  /\ pc[w] = "segment"
  /\ \E cuts \in SUBSET ((run[w].claim.start + 1) .. run[w].claim.end) :
       LET segs == SegmentsOf(run[w].claim.start, run[w].claim.end, cuts)
           finalized == FinalizedSegments(segs, run[w].eof)
           next == NextSegmentStart(segs, run[w].eof, run[w].claim.end)
       IN IF CommitAccepted(w, finalized, next)
            THEN /\ spans' = spans \cup finalized
                 /\ eof' = FALSE
                 /\ nextStart' = next
                 /\ Release
                 /\ examined' = run[w].claim.end
                 /\ run' = [run EXCEPT ![w].spans = finalized, ![w].next = next]
                 /\ Goto(w, "enqueue")
            ELSE /\ Goto(w, "abort")
                 /\ UNCHANGED <<spans, eof, nextStart, active, expired, examined, run>>
  /\ UNCHANGED <<gaps, lastSeq, episodeJobs, jobs, why, held, faults>>

(* After the commit: ask for more work if the cursor moved. *)
FollowUpAlways(w) ==                                     \* mutant
  /\ why' = [why EXCEPT ![w] = "follow_up"]
  /\ Goto(w, "recover")

FollowUp(w) ==
  IF run[w].next > run[w].claim.start
    THEN /\ why' = [why EXCEPT ![w] = "follow_up"]
         /\ Goto(w, "recover")
    ELSE /\ Goto(w, "ok")
         /\ UNCHANGED why

(* One push_bulk for all finalized spans; nothing to do without spans. *)
EpisodesAllButLast(w) ==                                 \* mutant
  { s \in run[w].spans : \E t \in run[w].spans : s.start < t.start }
EpisodesToCreate(w) == run[w].spans

EnqueueEpisodes(w) ==
  /\ pc[w] = "enqueue"
  /\ episodeJobs' = episodeJobs \cup EpisodesToCreate(w)
  /\ IF run[w].spans = {}
       THEN FollowUp(w)
       ELSE Goto(w, "reviews") /\ UNCHANGED why
  /\ UNCHANGED <<gaps, lastSeq, eof, nextStart, active, expired, spans, examined,
                 jobs, held, run, faults>>

(* Takes the pending reviews and pushes them; their tables are not here. *)
EnqueueReviews(w) ==
  /\ pc[w] = "reviews"
  /\ FollowUp(w)
  /\ UNCHANGED <<conversation, jobs, held, run, faults>>

(* Reading the state or the claimed messages fails: the job ends as it is. *)
LoadFails(w) ==
  /\ pc[w] \in {"validate", "segment"}
  /\ Fault
  /\ Goto(w, "err")
  /\ UNCHANGED <<conversation, jobs, why, held, run>>

(* An LLM call, the commit transaction or a push returns an error. *)
ProcessingFails(w) ==
  /\ pc[w] \in {"segment", "enqueue", "reviews"}
  /\ Fault
  /\ Goto(w, "abort")
  /\ UNCHANGED <<conversation, jobs, why, held, run>>

(* Gives the lease back if it is still this job's, then tries to reclaim. *)
Abort(w) ==
  /\ pc[w] = "abort"
  /\ IF HoldsLease(w)
       THEN nextStart' = run[w].claim.start /\ Release
       ELSE UNCHANGED <<nextStart, active, expired>>
  /\ why' = [why EXCEPT ![w] = "error"]
  /\ Goto(w, "recover")
  /\ UNCHANGED <<gaps, lastSeq, eof, spans, episodeJobs, examined, jobs, held, run,
                 faults>>

(* The outage that made the processing fail lasts. *)
AbortFails(w) ==
  /\ pc[w] = "abort"
  /\ faults > 0
  /\ Goto(w, "err")
  /\ UNCHANGED <<conversation, jobs, why, held, run, faults>>
--------------------------------------------------------------------------------
(***************************************************************************)
(* The job queue (apalis-postgres).  A job that returns Ok is done, one    *)
(* that returns an error is run again until its attempts are exhausted. The*)
(* result of a worker that lost the job in the meantime is ignored.        *)
(***************************************************************************)
Stop(w) ==
  /\ Goto(w, "idle")
  /\ why' = [why EXCEPT ![w] = "ingest"]
  /\ held' = [held EXCEPT ![w] = NoClaim]
  /\ run' = [run EXCEPT ![w] = IdleRun]

OwnsJob(w) == run[w].job # NoJob /\ jobs[run[w].job].owner = w

Ack(w) ==
  /\ pc[w] = "ok"
  /\ jobs' = [j \in JobIds |-> IF OwnsJob(w) /\ j = run[w].job THEN FreeJob ELSE jobs[j]]
  /\ Stop(w)
  /\ UNCHANGED <<conversation, faults>>

Retry(w) ==
  /\ pc[w] = "err"
  /\ jobs' = [j \in JobIds |-> IF OwnsJob(w) /\ j = run[w].job
                                 THEN [jobs[j] EXCEPT !.owner = NoWorker] ELSE jobs[j]]
  /\ Stop(w)
  /\ UNCHANGED <<conversation, faults>>

GiveUp(w) ==
  /\ pc[w] = "err"
  /\ jobs' = [j \in JobIds |-> IF OwnsJob(w) /\ j = run[w].job THEN FreeJob ELSE jobs[j]]
  /\ Stop(w)
  /\ UNCHANGED <<conversation, faults>>

(* A job whose worker is gone is offered again. *)
Executing(j) == \E w \in Workers : run[w].job = j /\ jobs[j].owner = w

ReenqueueOrphan(j) ==
  /\ jobs[j].owner # NoWorker
  /\ ~ Executing(j)
  /\ jobs' = [jobs EXCEPT ![j].owner = NoWorker]
  /\ UNCHANGED <<conversation, control, faults>>

(* So is a job whose worker only failed to report for a while. *)
ReenqueueStalled(j) ==
  /\ jobs[j].owner # NoWorker
  /\ Executing(j)
  /\ Fault
  /\ jobs' = [jobs EXCEPT ![j].owner = NoWorker]
  /\ UNCHANGED <<conversation, control>>
--------------------------------------------------------------------------------
(***************************************************************************)
(* Crashes and the passage of time.                                        *)
(***************************************************************************)
(* The request is dropped or the process dies between two transactions. *)
RequestCrashes(c) ==
  /\ pc[c] # "idle"
  /\ Fault
  /\ Goto(c, "idle")
  /\ held' = [held EXCEPT ![c] = NoClaim]
  /\ UNCHANGED <<conversation, jobs, why, run>>

WorkerCrashes(w) ==
  /\ pc[w] # "idle"
  /\ Fault
  /\ Stop(w)
  /\ UNCHANGED <<conversation, jobs>>

(* The executions and pushes that still act for the lease c. *)
Carriers(c) ==
  { j \in JobIds :
      /\ jobs[j].claim = c
      /\ \/ jobs[j].owner = NoWorker
         \/ \E w \in Workers : /\ jobs[j].owner = w
                               /\ run[w].job = j
                               /\ pc[w] \in {"validate", "segment", "abort"} }
  \cup { p \in Procs : pc[p] = "push" /\ held[p] = c }

(* An abandoned lease grows old by itself; one in use only by a stall. *)
LeaseExpires ==
  /\ active # NoClaim
  /\ ~ expired
  /\ expired' = TRUE
  /\ IF Carriers(active) = {} THEN UNCHANGED faults ELSE Fault
  /\ UNCHANGED <<gaps, lastSeq, eof, nextStart, active, spans, episodeJobs, examined,
                 jobs, control>>
--------------------------------------------------------------------------------
ClientStep(c) == Recover(c) \/ TryClaim(c) \/ PushJob(c)

WorkerStep(w) ==
  \/ Fetch(w) \/ Validate(w) \/ Commit(w) \/ EnqueueEpisodes(w) \/ EnqueueReviews(w)
  \/ Abort(w) \/ Recover(w) \/ TryClaim(w) \/ PushJob(w) \/ Ack(w) \/ Retry(w)

Next ==
  \/ \E c \in Clients : \/ AppendMessage(c) \/ ImportBatch(c) \/ ImportEmptyBatch(c)
                        \/ ClientStep(c) \/ TryClaimFails(c) \/ RequestCrashes(c)
  \/ \E w \in Workers : \/ WorkerStep(w) \/ TryClaimFails(w) \/ LoadFails(w)
                        \/ ProcessingFails(w) \/ AbortFails(w) \/ GiveUp(w)
                        \/ WorkerCrashes(w)
  \/ \E j \in JobIds : ReenqueueOrphan(j) \/ ReenqueueStalled(j)
  \/ StatusPoll
  \/ LeaseExpires

Spec == Init /\ [][Next]_vars

(***************************************************************************)
(* Requests in flight and workers go on, the queue offers orphaned jobs    *)
(* again; nobody has to send messages, to poll, or to fail.                *)
(***************************************************************************)
Fairness ==
  /\ \A c \in Clients : WF_vars(ClientStep(c))
  /\ \A w \in Workers : WF_vars(WorkerStep(w))
  /\ \A j \in JobIds : WF_vars(ReenqueueOrphan(j))

FairSpec == Spec /\ Fairness
--------------------------------------------------------------------------------
(***************************************************************************)
(* Properties.                                                             *)
(***************************************************************************)

(* The finalized spans cut the messages before next_segment_start_seq into
   episodes: none is lost, none is in two episodes, and nothing beyond the
   cursor is finalized, whatever leases expired, jobs ran twice or commits
   came late (commit_segmentation_job). *)
FinalizedPrefixTiled == Tiles(spans, 0, nextStart)

(* A lease always covers pending messages from the cursor on, so that what a
   worker reads for its claim exists and is not finalized yet
   (claim_segmentation_job_if_ready, get_claim_messages). *)
LeaseCoversPending ==
  active # NoClaim => /\ active.start = nextStart
                      /\ active.start <= active.end
                      /\ active.end <= lastSeq

(* As long as nothing fails, exactly one queued job, worker or push acts for
   the lease: it is neither forgotten nor worked on twice. *)
LeaseHasOneCarrier ==
  faults = 0 /\ active # NoClaim => Cardinality(Carriers(active)) = 1

(* A lease in its time to live ends only by the hand of a worker whose job
   still holds it; no other lease takes its place in the same step. *)
LeaseEndsByItsHolder ==
  [][active # NoClaim /\ active' # active =>
       /\ active' = NoClaim
       /\ expired \/ \E w \in Workers : HoldsLease(w) /\ pc[w] \in {"segment", "abort"}]_vars

(* The newest message is finalized only while the end is marked: otherwise
   the tail stays open for the messages to come (build_commit_plan). *)
TailStaysOpen ==
  [][nextStart' # nextStart /\ nextStart' > lastSeq => eof]_vars

(* The pipeline implements the append-only log of ConversationLog. *)
Log == INSTANCE ConversationLog
RefinesLog == Log!Spec

(* Without failures every lease ends: its job runs and gives it back. *)
LeaseEventuallyEnds == [](active # NoClaim => <>(active = NoClaim))

(* Without failures every finalized span reaches the episode worker. *)
SpansReachEpisodes ==
  \A lo, hi \in 0 .. MaxMessages - 1 :
    [start |-> lo, end |-> hi] \in spans ~> [start |-> lo, end |-> hi] \in episodeJobs

(* The job queue runs empty again and again: follow-up jobs do not breed. *)
QueueDrains == []<>(\A j \in JobIds : jobs[j] = FreeJob)

(* append_batch_messages "marks eof", and at the end of a conversation every
   reviewed segment is finalized: once the end is marked, every message that
   was there gets into an episode. *)
EofIsHonoured ==
  \A n \in 0 .. MaxMessages - 1 : eof /\ lastSeq = n ~> nextStart > n

(* "If there is more unsegmented work after commit [...] enqueue one follow-up
   segmentation job": when everything is at rest, no claimable range holds
   messages that no committed claim has covered. *)
NoClaimableWorkForgotten ==
  /\ faults = 0
  /\ \A p \in Procs : pc[p] = "idle"
  /\ \A j \in JobIds : jobs[j] = FreeJob
  => ~ (ClaimReady /\ lastSeq > examined)
================================================================================
