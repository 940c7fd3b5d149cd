---------------------------- MODULE EpisodePipeline ----------------------------
(***************************************************************************)
(* From committed spans to consolidated episodes: an EpisodeCreationJob    *)
(* stores the episode of its span and pushes a PredictCalibrateJob, which  *)
(* applies what it extracts to the semantic memory and marks the episode   *)
(* consolidated.                                                           *)
(*                                                                         *)
(* Segmentation pushes one EpisodeCreationJob per span, after the span is  *)
(* committed; spans never change, so the job always finds its own.  Both   *)
(* queues deliver at least once.  Episodes are stored under an id derived  *)
(* from the span, hence one per span; of the facts only the number of      *)
(* times an episode's actions were applied is kept.                        *)
(***************************************************************************)
EXTENDS Naturals, FiniteSets

CONSTANTS
  Spans,         \* the spans that segmentation commits
  Slots,         \* executions of jobs at the same time, of either queue
  JobIds,        \* rows of the job table in use at the same time (bound)
  NoSlot, NoJob, NoSpan,
  MaxAttempts,   \* max_attempts of a job
  MaxFaults      \* crashes, errors and stalls (bound)

ASSUME EpisodePipelineAssumption ==
  /\ Slots \subseteq Nat /\ NoSlot \notin Slots
  /\ JobIds \subseteq Nat /\ NoJob \notin JobIds
  /\ NoSpan \notin Spans
  /\ MaxAttempts \in Nat \ {0}
  /\ MaxFaults \in Nat

VARIABLES
  class,      \* the classification of a span whose job was pushed
  episodes,   \* episodic_memory, by span
  applied,    \* how often an episode's actions were applied (history)
  jobs,       \* the job table
  pc, exec,   \* what a slot does next, and what it remembers of its job
  erred,      \* some job has failed (history)
  givenUp,    \* the spans of jobs that failed too often (history)
  faults      \* faults so far

memory == <<class, episodes, applied>>
history == <<erred, givenUp>>
vars == <<memory, jobs, pc, exec, history, faults>>

Queues == {"creation", "predict"}
Labels == {"idle", "find", "create", "push", "check", "apply", "mark", "ok", "err"}
FreeJob == [queue |-> "creation", span |-> NoSpan, status |-> "free",
            owner |-> NoSlot, attempts |-> 0]
IdleExec == [job |-> NoJob, span |-> NoSpan, consolidated |-> FALSE]

Job == [queue : Queues, span : Spans \cup {NoSpan},
        status : {"free", "Pending", "Running", "Failed"},
        owner : Slots \cup {NoSlot}, attempts : Nat]
Exec == [job : JobIds \cup {NoJob}, span : Spans \cup {NoSpan}, consolidated : BOOLEAN]

TypeOK ==
  /\ class \in [Spans -> {"none", "low_info", "informative"}]
  /\ episodes \in [Spans -> {"none", "stored", "consolidated"}]
  /\ applied \in [Spans -> Nat]
  /\ jobs \in [JobIds -> Job]
  /\ pc \in [Slots -> Labels]
  /\ exec \in [Slots -> Exec]
  /\ erred \in BOOLEAN
  /\ givenUp \in SUBSET Spans
  /\ faults \in Nat

Init ==
  /\ class = [s \in Spans |-> "none"]
  /\ episodes = [s \in Spans |-> "none"]
  /\ applied = [s \in Spans |-> 0]
  /\ jobs = [j \in JobIds |-> FreeJob]
  /\ pc = [w \in Slots |-> "idle"]
  /\ exec = [w \in Slots |-> IdleExec]
  /\ erred = FALSE
  /\ givenUp = {}
  /\ faults = 0

Goto(w, label) == pc' = [pc EXCEPT ![w] = label]

Fault ==
  /\ faults < MaxFaults
  /\ faults' = faults + 1

PushToSegmentation(queue, s) ==                          \* mutant
  \E j \in JobIds :
    /\ jobs[j] = FreeJob
    /\ jobs' = [jobs EXCEPT ![j] = [FreeJob EXCEPT !.queue = "segmentation", !.span = s,
                                                   !.status = "Pending"]]
Push(queue, s) ==
  \E j \in JobIds :
    /\ jobs[j] = FreeJob /\ \A k \in JobIds : k < j => jobs[k] # FreeJob
    /\ jobs' = [jobs EXCEPT ![j] =
                  [FreeJob EXCEPT !.queue = queue, !.span = s, !.status = "Pending"]]

(* Segmentation commits the span with its classification and pushes its job. *)
EnqueueEpisodeTwice(s) ==                                \* mutant
  /\ class[s] = "none"
  /\ class' = [class EXCEPT ![s] = "informative"]
  /\ \E J \in SUBSET JobIds :
       /\ Cardinality(J) = 2 /\ \A j \in J : jobs[j] = FreeJob
       /\ jobs' = [j \in JobIds |-> IF j \in J
                     THEN [FreeJob EXCEPT !.span = s, !.status = "Pending"] ELSE jobs[j]]
  /\ UNCHANGED <<episodes, applied, pc, exec, history, faults>>
EnqueueEpisode(s) ==
  /\ class[s] = "none"
  /\ \E c \in {"low_info", "informative"} : class' = [class EXCEPT ![s] = c]
  /\ Push("creation", s)
  /\ UNCHANGED <<episodes, applied, pc, exec, history, faults>>
--------------------------------------------------------------------------------
(***************************************************************************)
(* process_episode_creation.                                               *)
(***************************************************************************)
(* Does the episode exist?  Then only its consolidation may be missing. *)
FindEpisode(w) ==
  /\ pc[w] = "find"
  /\ IF episodes[exec[w].span] = "none"
       THEN Goto(w, "create") /\ UNCHANGED exec
       ELSE /\ exec' = [exec EXCEPT ![w].consolidated =
                          (episodes[exec[w].span] = "consolidated")]
            /\ Goto(w, "push")
  /\ UNCHANGED <<memory, jobs, history, faults>>

(* LLM calls, then the insert: the primary key refuses a second episode. *)
CreateEpisode(w) ==
  /\ pc[w] = "create"
  /\ IF episodes[exec[w].span] = "none"
       THEN /\ episodes' = [episodes EXCEPT ![exec[w].span] = "stored"]
            /\ Goto(w, "push")
       ELSE Goto(w, "err") /\ UNCHANGED episodes
  /\ UNCHANGED <<class, applied, jobs, exec, history, faults>>

(* An episode that was there but is not consolidated gets its job again. *)
SkipExistingEpisode(w) ==                                \* mutant
  class[exec[w].span] = "informative" /\ episodes[exec[w].span] = "none"
NeedsPredictCalibrate(w) ==
  class[exec[w].span] = "informative" /\ ~ exec[w].consolidated

EnqueuePredictCalibrate(w) ==
  /\ pc[w] = "push"
  /\ IF NeedsPredictCalibrate(w)
       THEN Push("predict", exec[w].span)
       ELSE UNCHANGED jobs
  /\ Goto(w, "ok")
  /\ UNCHANGED <<memory, exec, history, faults>>
--------------------------------------------------------------------------------
(***************************************************************************)
(* process_predict_calibrate.                                              *)
(***************************************************************************)
AlwaysExtract(s) == episodes[s] # "none"                 \* mutant
NeedsConsolidation(s) == episodes[s] = "stored"

(* Reads the episode and extracts actions from it, possibly none. *)
CheckEpisode(w) ==
  /\ pc[w] = "check"
  /\ IF NeedsConsolidation(exec[w].span)
       THEN Goto(w, "apply") \/ Goto(w, "mark")
       ELSE Goto(w, "ok")
  /\ UNCHANGED <<memory, jobs, exec, history, faults>>

(* consolidate_actions: one transaction that does not touch the episode. *)
ApplyActions(w) ==
  /\ pc[w] = "apply"
  /\ applied' = [applied EXCEPT ![exec[w].span] = @ + 1]
  /\ Goto(w, "mark")
  /\ UNCHANGED <<class, episodes, jobs, exec, history, faults>>

MarkConsolidated(w) ==
  /\ pc[w] = "mark"
  /\ episodes' = [episodes EXCEPT ![exec[w].span] = "consolidated"]
  /\ Goto(w, "ok")
  /\ UNCHANGED <<class, applied, jobs, exec, history, faults>>

(* A read, an LLM call, a transaction or a push returns an error. *)
JobFails(w) ==
  /\ pc[w] \in Labels \ {"idle", "ok", "err"}
  /\ Fault
  /\ Goto(w, "err")
  /\ UNCHANGED <<memory, jobs, exec, history>>
--------------------------------------------------------------------------------
(***************************************************************************)
(* The job queues (apalis-postgres).                                       *)
(***************************************************************************)
(* Slots are alike: the first idle one takes a job. *)
Fetch(w) ==
  /\ pc[w] = "idle" /\ \A v \in Slots : v < w => pc[v] # "idle"
  /\ \E j \in JobIds :
       /\ jobs[j].status \in {"Pending", "Failed"}
       /\ jobs' = [jobs EXCEPT ![j].status = "Running", ![j].owner = w]
       /\ exec' = [exec EXCEPT ![w] = [IdleExec EXCEPT !.job = j, !.span = jobs[j].span]]
       /\ Goto(w, IF jobs[j].queue = "creation" THEN "find" ELSE "check")
  /\ UNCHANGED <<memory, history, faults>>

Stop(w) == Goto(w, "idle") /\ exec' = [exec EXCEPT ![w] = IdleExec]

OwnsJob(w) == jobs[exec[w].job].owner = w

Ack(w) ==
  /\ pc[w] = "ok"
  /\ jobs' = IF OwnsJob(w) THEN [jobs EXCEPT ![exec[w].job] = FreeJob] ELSE jobs
  /\ Stop(w)
  /\ UNCHANGED <<memory, history, faults>>

(* A failed job waits for its next attempt, reported as Pending or as Failed. *)
Retry(w) ==
  /\ pc[w] = "err" /\ OwnsJob(w)
  /\ jobs[exec[w].job].attempts + 1 < MaxAttempts
  /\ \E status \in {"Pending", "Failed"} : LET j == exec[w].job IN
       jobs' = [jobs EXCEPT ![j].status = status, ![j].owner = NoSlot, ![j].attempts = @ + 1]
  /\ erred' = TRUE
  /\ Stop(w)
  /\ UNCHANGED <<memory, givenUp, faults>>

GiveUp(w) ==
  /\ pc[w] = "err" /\ OwnsJob(w)
  /\ jobs[exec[w].job].attempts + 1 >= MaxAttempts
  /\ jobs' = [jobs EXCEPT ![exec[w].job] = FreeJob]
  /\ erred' = TRUE
  /\ givenUp' = givenUp \cup {exec[w].span}
  /\ Stop(w)
  /\ UNCHANGED <<memory, faults>>

(* The error of a slot that lost its job in the meantime is ignored. *)
IgnoreError(w) ==
  /\ pc[w] = "err" /\ ~ OwnsJob(w)
  /\ Stop(w)
  /\ UNCHANGED <<memory, jobs, history, faults>>

SlotCrashes(w) ==
  /\ pc[w] # "idle"
  /\ Fault
  /\ Stop(w)
  /\ UNCHANGED <<memory, jobs, history>>

Executing(j) == \E w \in Slots : exec[w].job = j /\ jobs[j].owner = w

Reenqueue(j) ==
  /\ jobs[j].status = "Running"
  /\ jobs' = [jobs EXCEPT ![j].status = "Pending", ![j].owner = NoSlot]
  /\ UNCHANGED <<memory, pc, exec, history>>

ReenqueueOrphan(j) == ~ Executing(j) /\ Reenqueue(j) /\ UNCHANGED faults

ReenqueueStalled(j) == Executing(j) /\ Reenqueue(j) /\ Fault
--------------------------------------------------------------------------------
SlotStep(w) ==
  \/ Fetch(w) \/ FindEpisode(w) \/ CreateEpisode(w) \/ EnqueuePredictCalibrate(w)
  \/ CheckEpisode(w) \/ ApplyActions(w) \/ MarkConsolidated(w)
  \/ Ack(w) \/ Retry(w) \/ GiveUp(w) \/ IgnoreError(w)

Next ==
  \/ \E s \in Spans : EnqueueEpisode(s)
  \/ \E w \in Slots : SlotStep(w) \/ JobFails(w) \/ SlotCrashes(w)
  \/ \E j \in JobIds : ReenqueueOrphan(j) \/ ReenqueueStalled(j)

Spec == Init /\ [][Next]_vars

Fairness ==
  /\ \A w \in Slots : WF_vars(SlotStep(w))
  /\ \A j \in JobIds : WF_vars(ReenqueueOrphan(j))

FairSpec == Spec /\ Fairness
--------------------------------------------------------------------------------
(***************************************************************************)
(* Properties.                                                             *)
(***************************************************************************)
Live(j) == jobs[j].status # "free"

(* get_queue_status: what `done` looks at in the job table. *)
CountedPendingOnly == {"Pending"}                        \* mutant
Counted == {"Pending", "Running"}
JobsDone == \A j \in JobIds : jobs[j].status \notin Counted

(* Every crash, error or stall costs at most one more application of an
   episode's actions, wherever in the two jobs it hits and however the repeated
   jobs overlap (process_episode_creation, process_predict_calibrate). *)
ApplicationsBounded == \A s \in Spans : applied[s] <= 1 + faults

(* What is delivered after an episode was consolidated, be it a duplicate, a
   retry or a second job for the episode, does not apply its actions again: only
   an execution that had read the episode before the mark still may
   (process_predict_calibrate). *)
Settled(s) ==
  /\ episodes[s] = "consolidated"
  /\ \A w \in Slots : exec[w].span = s => pc[w] \notin {"apply", "mark"}

SettledForGood ==
  [][\A s \in Spans : Settled(s) => Settled(s)' /\ applied'[s] = applied[s]]_vars

(* An informative span that is not consolidated yet has a job in the queues,
   through every crash and retry, until that job is given up
   (try_enqueue_predict_calibrate_if_needed). *)
NoSpanStranded ==
  \A s \in Spans :
    class[s] = "informative" /\ episodes[s] # "consolidated" /\ s \notin givenUp =>
      \E j \in JobIds : Live(j) /\ jobs[j].span = s

(* As long as no job has returned an error, the job part of `done` means what
   the benchmark takes it for, crashes notwithstanding: every informative span
   whose job was pushed is consolidated (get_queue_status). *)
DoneIsReliable ==
  ~ erred /\ JobsDone =>
    \A s \in Spans : class[s] = "informative" => episodes[s] = "consolidated"

(* Retries resume the downstream pipeline: every informative span is
   consolidated in the end, wherever crashes and errors hit, unless one of its
   jobs has used up its attempts. *)
SpansGetConsolidated ==
  \A s \in Spans :
    class[s] = "informative" ~> episodes[s] = "consolidated" \/ s \in givenUp
================================================================================
