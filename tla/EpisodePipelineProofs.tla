-------------------------- MODULE EpisodePipelineProofs --------------------------
(***************************************************************************)
(* Types and safety of EpisodePipeline: why an episode's actions are       *)
(* applied at most once more per fault, and why no span is stranded.       *)
(***************************************************************************)
EXTENDS EpisodePipeline, FiniteSetTheorems, TLAPS

Creating == {"find", "create", "push"}
Calibrating == {"check", "apply", "mark"}

(* Slot w executes job j and has not lost it. *)
Owns(w, j) == exec[w].job = j /\ jobs[j].owner = w

(* An idle slot remembers nothing; any other one has a job and its span. *)
SlotsHaveJobs ==
  \A w \in Slots :
    IF pc[w] = "idle" THEN exec[w] = IdleExec
                      ELSE exec[w].job \in JobIds /\ exec[w].span \in Spans

JobsHaveSpans ==
  \A j \in JobIds : IF Live(j) THEN jobs[j].span \in Spans ELSE jobs[j] = FreeJob

(* A slot that owns its job agrees with it. *)
OwnersAgree ==
  \A w \in Slots : \A j \in JobIds : Owns(w, j) =>
    /\ jobs[j].status = "Running" /\ jobs[j].span = exec[w].span
    /\ pc[w] \in Creating => jobs[j].queue = "creation"
    /\ pc[w] \in Calibrating => jobs[j].queue = "predict"

TInv == TypeOK /\ SlotsHaveJobs /\ JobsHaveSpans /\ OwnersAgree
--------------------------------------------------------------------------------
(* The work on a span is over, or never was due. *)
Closed(s) == class[s] # "informative" \/ episodes[s] = "consolidated" \/ s \in givenUp

HasJob(s, queue) == \E j \in JobIds : Live(j) /\ jobs[j].span = s /\ jobs[j].queue = queue

(* Jobs and slots concern spans that were pushed; those of the second queue,
   spans with an episode. *)
SpansOfJobs ==
  \A j \in JobIds : Live(j) =>
    /\ class[jobs[j].span] # "none"
    /\ jobs[j].queue = "predict" => episodes[jobs[j].span] # "none"

SpansOfSlots ==
  \A w \in Slots : pc[w] # "idle" =>
    /\ class[exec[w].span] # "none"
    /\ pc[w] \in {"push"} \cup Calibrating => episodes[exec[w].span] # "none"
    /\ pc[w] \in {"find", "create"} => ~ exec[w].consolidated
    /\ pc[w] = "push" /\ exec[w].consolidated => episodes[exec[w].span] = "consolidated"

(* A slot acknowledges a job only when nothing depends on it any more. *)
Earned(j) ==
  IF jobs[j].queue = "predict" THEN episodes[jobs[j].span] = "consolidated"
                               ELSE Closed(jobs[j].span) \/ HasJob(jobs[j].span, "predict")
OkIsEarned ==
  \A w \in Slots : \A j \in JobIds : Owns(w, j) /\ pc[w] = "ok" => Earned(j)

SInv == SpansOfJobs /\ SpansOfSlots /\ OkIsEarned /\ NoSpanStranded

(* Only an error gives a job up or has it reported as Failed. *)
ErrorsAreSeen == ~ erred => givenUp = {} /\ \A j \in JobIds : jobs[j].status # "Failed"
--------------------------------------------------------------------------------
(* What may still apply the actions of a span: a job, until the slot that owns it
   has applied them or decided not to, and a slot that has lost its job. *)
Spent(j) == \E w \in Slots : Owns(w, j) /\ pc[w] \in {"mark", "ok"}
JobMayApply(j, s) == jobs[j].span = s /\ Live(j) /\ ~ Spent(j)
SlotMayApply(w, s) ==
  exec[w].span = s /\ ~ Owns(w, exec[w].job) /\ pc[w] \in Creating \cup {"check", "apply"}

Chances(s) ==
  {<<"job", j>> : j \in {j \in JobIds : JobMayApply(j, s)}}
    \cup {<<"slot", w>> : w \in {w \in Slots : SlotMayApply(w, s)}}

Paid(s) ==
  IF class[s] = "none" THEN applied[s] = 0
  ELSE IsFiniteSet(Chances(s)) /\ applied[s] + Cardinality(Chances(s)) <= 1 + faults
ChancesPaid == \A s \in Spans : Paid(s)
--------------------------------------------------------------------------------
(***************************************************************************)
(* Types.                                                                  *)
(***************************************************************************)
NewJob(queue, s) == [queue |-> queue, span |-> s, status |-> "Pending",
                     owner |-> NoSlot, attempts |-> 0]

LEMMA ConstantTypes ==
  /\ FreeJob \in Job /\ IdleExec \in Exec
  /\ IdleExec.job = NoJob /\ IdleExec.span = NoSpan
  /\ FreeJob.status = "free" /\ FreeJob.owner = NoSlot
  /\ \A queue \in Queues, s \in Spans : NewJob(queue, s) \in Job
  /\ NoSlot \notin Slots /\ NoJob \notin JobIds /\ NoSpan \notin Spans
BY EpisodePipelineAssumption DEF FreeJob, IdleExec, NewJob, Job, Exec, Queues

(* A push fills one free row and leaves the others alone. *)
LEMMA PushFills ==
  ASSUME NEW queue, NEW s, Push(queue, s)
  PROVE  \E j \in JobIds : jobs[j] = FreeJob /\ jobs' = [jobs EXCEPT ![j] = NewJob(queue, s)]
BY DEF Push, FreeJob, NewJob

LEMMA InitTInv == Init => TInv
<1> SUFFICES ASSUME Init PROVE TInv
  OBVIOUS
<1>1. TypeOK
  BY ConstantTypes DEF Init, TypeOK, Labels
<1>2. SlotsHaveJobs /\ JobsHaveSpans
  BY ConstantTypes DEF Init, SlotsHaveJobs, JobsHaveSpans, Live
<1>3. OwnersAgree
  BY ConstantTypes DEF Init, OwnersAgree, Owns
<1> QED BY <1>1, <1>2, <1>3 DEF TInv

(***************************************************************************)
(* What a step does to jobs and slots: a slot goes on, perhaps pushing a   *)
(* job; takes a job; or stops, perhaps ending its job or giving it back.   *)
(***************************************************************************)
Pushes(queue, s) ==
  \E j \in JobIds : jobs[j] = FreeJob /\ jobs' = [jobs EXCEPT ![j] = NewJob(queue, s)]

Advances(w, label) ==
  /\ pc[w] # "idle" /\ pc' = [pc EXCEPT ![w] = label]
  /\ \/ pc[w] \in Creating /\ label \in Creating
     \/ pc[w] \in Calibrating /\ label \in Calibrating
     \/ label \in {"ok", "err"}
  /\ exec' = exec \/ \E flag \in BOOLEAN : exec' = [exec EXCEPT ![w].consolidated = flag]

Takes(w, j) ==
  /\ pc[w] = "idle" /\ jobs[j].status \in {"Pending", "Failed"}
  /\ pc' = [pc EXCEPT ![w] = IF jobs[j].queue = "creation" THEN "find" ELSE "check"]
  /\ jobs' = [jobs EXCEPT ![j].status = "Running", ![j].owner = w]
  /\ exec' = [exec EXCEPT ![w] = [IdleExec EXCEPT !.job = j, !.span = jobs[j].span]]

Frees(j) == jobs' = [jobs EXCEPT ![j] = FreeJob]
GivesBack(j) ==
  \E status \in {"Pending", "Failed"}, attempts \in Nat :
    jobs' = [jobs EXCEPT ![j].status = status, ![j].owner = NoSlot, ![j].attempts = attempts]

LEMMA PushedTypes ==
  ASSUME TInv, NEW queue \in Queues, NEW s \in Spans, Pushes(queue, s)
  PROVE  /\ jobs' \in [JobIds -> Job] /\ JobsHaveSpans'
         /\ \A w \in Slots, j \in JobIds : jobs'[j].owner = w => jobs'[j] = jobs[j]
<1>1. PICK j \in JobIds : jobs[j] = FreeJob /\ jobs' = [jobs EXCEPT ![j] = NewJob(queue, s)]
  BY DEF Pushes
<1>2. jobs \in [JobIds -> Job] /\ NewJob(queue, s) \in Job
  BY ConstantTypes DEF TInv, TypeOK
<1>3. jobs' \in [JobIds -> Job]
  BY <1>1, <1>2
<1>4. JobsHaveSpans'
  BY <1>1, <1>2 DEF TInv, JobsHaveSpans, Live, NewJob
<1>5. NewJob(queue, s).owner = NoSlot
  BY DEF NewJob
<1> QED BY <1>1, <1>2, <1>3, <1>4, <1>5, ConstantTypes

LEMMA AdvanceTypes ==
  ASSUME TInv, NEW w \in Slots, NEW label \in Labels \ {"idle"}, Advances(w, label)
  PROVE  /\ pc' \in [Slots -> Labels] /\ exec' \in [Slots -> Exec] /\ SlotsHaveJobs'
         /\ \A v \in Slots : exec'[v].job = exec[v].job /\ exec'[v].span = exec[v].span
<1>1. pc \in [Slots -> Labels] /\ exec \in [Slots -> Exec] /\ SlotsHaveJobs
  BY DEF TInv, TypeOK
<1>2. pc' \in [Slots -> Labels]
  BY <1>1 DEF Advances
<1>3. PICK flag \in BOOLEAN : exec' = [exec EXCEPT ![w].consolidated = flag]
  BY <1>1 DEF Advances, Exec
<1>4. [exec[w] EXCEPT !.consolidated = flag] \in Exec
  BY <1>1 DEF Exec
<1>5. exec' = [exec EXCEPT ![w] = [exec[w] EXCEPT !.consolidated = flag]]
  BY <1>1, <1>3
<1>6. exec' \in [Slots -> Exec]
  BY <1>1, <1>4, <1>5
<1>7. \A v \in Slots : exec'[v].job = exec[v].job /\ exec'[v].span = exec[v].span
  BY <1>1, <1>5 DEF Exec
<1>8. \A v \in Slots \ {w} : exec'[v] = exec[v] /\ pc'[v] = pc[v]
  BY <1>1, <1>5 DEF Advances
<1>9. pc'[w] # "idle" /\ pc[w] # "idle"
  BY <1>1 DEF Advances
<1>10. SlotsHaveJobs'
  BY <1>1, <1>7, <1>8, <1>9 DEF SlotsHaveJobs
<1> QED BY <1>2, <1>6, <1>7, <1>10

(* A slot that goes on, or a push, or both. *)
LEMMA WorkTInv ==
  ASSUME TInv, NEW queue \in Queues, NEW s \in Spans, jobs' = jobs \/ Pushes(queue, s),
         \/ UNCHANGED <<pc, exec>>
         \/ \E w \in Slots : \E label \in Labels \ {"idle"} : Advances(w, label)
  PROVE  /\ jobs' \in [JobIds -> Job] /\ pc' \in [Slots -> Labels] /\ exec' \in [Slots -> Exec]
         /\ SlotsHaveJobs' /\ JobsHaveSpans' /\ OwnersAgree'
<1>1. /\ jobs' \in [JobIds -> Job] /\ JobsHaveSpans'
      /\ \A w \in Slots, j \in JobIds : jobs'[j].owner = w => jobs'[j] = jobs[j]
  <2>1. CASE jobs' = jobs
    BY <2>1 DEF TInv, TypeOK, JobsHaveSpans, Live
  <2> QED BY <2>1, PushedTypes
<1>2. CASE UNCHANGED <<pc, exec>>
  <2>1. SlotsHaveJobs' /\ pc' \in [Slots -> Labels] /\ exec' \in [Slots -> Exec]
    BY <1>2 DEF TInv, TypeOK, SlotsHaveJobs
  <2>2. OwnersAgree'
    BY <1>1, <1>2 DEF TInv, OwnersAgree, Owns
  <2> QED BY <1>1, <2>1, <2>2
<1>3. ASSUME NEW w \in Slots, NEW label \in Labels \ {"idle"}, Advances(w, label)
      PROVE  pc' \in [Slots -> Labels] /\ exec' \in [Slots -> Exec] /\ SlotsHaveJobs'
             /\ OwnersAgree'
  <2>1. /\ pc' \in [Slots -> Labels] /\ exec' \in [Slots -> Exec] /\ SlotsHaveJobs'
        /\ \A v \in Slots : exec'[v].job = exec[v].job /\ exec'[v].span = exec[v].span
    BY <1>3, AdvanceTypes
  <2>2. \A v \in Slots : /\ pc'[v] \in Creating => pc[v] \in Creating
                         /\ pc'[v] \in Calibrating => pc[v] \in Calibrating
    BY <1>3 DEF Advances, TInv, TypeOK, Creating, Calibrating
  <2>3. OwnersAgree'
    BY <1>1, <2>1, <2>2 DEF TInv, OwnersAgree, Owns
  <2> QED BY <2>1, <2>3
<1> QED BY <1>1, <1>2, <1>3

LEMMA TakeTInv ==
  ASSUME TInv, NEW w \in Slots, NEW j \in JobIds, Takes(w, j)
  PROVE  /\ jobs' \in [JobIds -> Job] /\ pc' \in [Slots -> Labels] /\ exec' \in [Slots -> Exec]
         /\ SlotsHaveJobs' /\ JobsHaveSpans' /\ OwnersAgree'
<1> DEFINE taken == [jobs[j] EXCEPT !.status = "Running", !.owner = w]
           record == [IdleExec EXCEPT !.job = j, !.span = jobs[j].span]
<1>1. /\ jobs[j] \in Job /\ jobs[j].span \in Spans /\ pc[w] = "idle"
      /\ jobs \in [JobIds -> Job] /\ pc \in [Slots -> Labels] /\ exec \in [Slots -> Exec]
  BY ConstantTypes DEF Takes, TInv, TypeOK, JobsHaveSpans, Live
<1>2. /\ taken \in Job /\ taken.status = "Running" /\ taken.owner = w
      /\ taken.span = jobs[j].span /\ taken.queue = jobs[j].queue
  BY <1>1 DEF Job
<1>3. record \in Exec /\ record.job = j /\ record.span = jobs[j].span
  BY <1>1 DEF IdleExec, Exec
<1>4. jobs' = [jobs EXCEPT ![j] = taken] /\ exec' = [exec EXCEPT ![w] = record]
  BY <1>1 DEF Takes
<1>5. jobs' \in [JobIds -> Job] /\ exec' \in [Slots -> Exec]
  BY <1>1, <1>2, <1>3, <1>4
<1>6. pc' \in [Slots -> Labels] /\ pc'[w] = (IF jobs[j].queue = "creation" THEN "find" ELSE "check")
      /\ \A v \in Slots \ {w} : pc'[v] = pc[v] /\ exec'[v] = exec[v]
  BY <1>1, <1>4 DEF Takes, Labels
<1>7. SlotsHaveJobs'
  BY <1>1, <1>3, <1>4, <1>6 DEF SlotsHaveJobs, TInv
<1>8. JobsHaveSpans'
  BY <1>1, <1>2, <1>4 DEF JobsHaveSpans, Live, TInv
<1>9. OwnersAgree'
  <2> SUFFICES ASSUME NEW v \in Slots, NEW k \in JobIds, Owns(v, k)'
               PROVE  /\ jobs'[k].status = "Running" /\ jobs'[k].span = exec'[v].span
                      /\ pc'[v] \in Creating => jobs'[k].queue = "creation"
                      /\ pc'[v] \in Calibrating => jobs'[k].queue = "predict"
    BY DEF OwnersAgree
  <2>1. CASE v = w
    <3>1. k = j
      BY <1>1, <1>3, <1>4, <2>1 DEF Owns
    <3>2. jobs[j].queue \in Queues
      BY <1>1 DEF Job
    <3> QED
      BY <1>1, <1>2, <1>3, <1>4, <1>6, <2>1, <3>1, <3>2 DEF Creating, Calibrating, Queues
  <2>2. CASE v # w
    <3>1. k # j
      BY <1>1, <1>2, <1>4, <2>2 DEF Owns
    <3>2. Owns(v, k) /\ jobs'[k] = jobs[k]
      BY <1>1, <1>4, <1>6, <2>2, <3>1 DEF Owns
    <3> QED BY <1>6, <2>2, <3>2 DEF OwnersAgree, TInv
  <2> QED BY <2>1, <2>2
<1> QED BY <1>5, <1>6, <1>7, <1>8, <1>9

(* A row that is freed or given back is owned by no slot. *)
LEMMA RowTypes ==
  ASSUME TInv, NEW j \in JobIds, Live(j), Frees(j) \/ GivesBack(j)
  PROVE  /\ jobs' \in [JobIds -> Job] /\ JobsHaveSpans'
         /\ jobs'[j].owner = NoSlot
         /\ Frees(j) \/ /\ jobs'[j].span = jobs[j].span /\ jobs'[j].queue = jobs[j].queue
                        /\ jobs'[j].status \in {"Pending", "Failed"}
         /\ \A k \in JobIds \ {j} : jobs'[k] = jobs[k]
<1>1. jobs \in [JobIds -> Job] /\ jobs[j] \in Job
  BY DEF TInv, TypeOK
<1>2. CASE Frees(j)
  BY <1>1, <1>2, ConstantTypes DEF Frees, TInv, JobsHaveSpans, Live
<1>3. CASE GivesBack(j)
  <2>1. PICK status \in {"Pending", "Failed"}, attempts \in Nat :
          jobs' = [jobs EXCEPT ![j].status = status, ![j].owner = NoSlot, ![j].attempts = attempts]
    BY <1>3 DEF GivesBack
  <2> DEFINE row == [jobs[j] EXCEPT !.status = status, !.owner = NoSlot, !.attempts = attempts]
  <2>2. /\ row \in Job /\ row.status = status /\ row.owner = NoSlot
        /\ row.span = jobs[j].span /\ row.queue = jobs[j].queue
    BY <1>1 DEF Job
  <2>3. jobs' = [jobs EXCEPT ![j] = row]
    BY <1>1, <2>1
  <2>4. jobs' \in [JobIds -> Job]
    BY <1>1, <2>2, <2>3
  <2>5. JobsHaveSpans'
    BY <1>1, <2>2, <2>3 DEF TInv, JobsHaveSpans, Live
  <2> QED BY <1>1, <2>2, <2>3, <2>4, <2>5
<1> QED BY <1>2, <1>3

(* A slot that stops, or a row that changes hands, or both. *)
LEMMA StopTInv ==
  ASSUME TInv,
         jobs' = jobs \/ \E j \in JobIds : Live(j) /\ (Frees(j) \/ GivesBack(j)),
         UNCHANGED <<pc, exec>> \/ \E w \in Slots : Stop(w)
  PROVE  /\ jobs' \in [JobIds -> Job] /\ pc' \in [Slots -> Labels] /\ exec' \in [Slots -> Exec]
         /\ SlotsHaveJobs' /\ JobsHaveSpans' /\ OwnersAgree'
<1>1. /\ jobs' \in [JobIds -> Job] /\ JobsHaveSpans'
      /\ \A w \in Slots, j \in JobIds : jobs'[j].owner = w => jobs'[j] = jobs[j]
  <2>1. CASE jobs' = jobs
    BY <2>1 DEF TInv, TypeOK, JobsHaveSpans, Live
  <2>2. ASSUME NEW j \in JobIds, Live(j), Frees(j) \/ GivesBack(j)
        PROVE  /\ jobs' \in [JobIds -> Job] /\ JobsHaveSpans'
               /\ \A w \in Slots, k \in JobIds : jobs'[k].owner = w => jobs'[k] = jobs[k]
    BY <2>2, RowTypes, ConstantTypes
  <2> QED BY <2>1, <2>2
<1>2. pc \in [Slots -> Labels] /\ exec \in [Slots -> Exec] /\ IdleExec \in Exec
  BY ConstantTypes DEF TInv, TypeOK
<1>3. /\ pc' \in [Slots -> Labels] /\ exec' \in [Slots -> Exec] /\ SlotsHaveJobs'
      /\ \A v \in Slots : \/ pc'[v] = "idle" /\ exec'[v] = IdleExec
                          \/ pc'[v] = pc[v] /\ exec'[v] = exec[v]
  <2>1. CASE UNCHANGED <<pc, exec>>
    BY <1>2, <2>1 DEF TInv, SlotsHaveJobs
  <2>2. ASSUME NEW w \in Slots, Stop(w)
        PROVE  /\ pc' \in [Slots -> Labels] /\ exec' \in [Slots -> Exec]
               /\ pc'[w] = "idle" /\ exec'[w] = IdleExec
               /\ \A v \in Slots \ {w} : pc'[v] = pc[v] /\ exec'[v] = exec[v]
    BY <1>2, <2>2 DEF Stop, Goto, Labels
  <2>3. ASSUME NEW w \in Slots, Stop(w)
        PROVE  /\ SlotsHaveJobs'
               /\ \A v \in Slots : \/ pc'[v] = "idle" /\ exec'[v] = IdleExec
                                   \/ pc'[v] = pc[v] /\ exec'[v] = exec[v]
    BY <2>2, <2>3 DEF TInv, SlotsHaveJobs
  <2> QED BY <1>2, <2>1, <2>2, <2>3
<1>4. OwnersAgree'
  BY <1>1, <1>3, ConstantTypes DEF TInv, OwnersAgree, Owns
<1> QED BY <1>1, <1>3, <1>4
--------------------------------------------------------------------------------
(***************************************************************************)
(* Every action takes one of these shapes.                                 *)
(***************************************************************************)
(* What a slot at work, which owns its job, may take for granted. *)
LEMMA OwnedJob ==
  ASSUME TInv, NEW w \in Slots, pc[w] # "idle"
  PROVE  /\ exec[w].job \in JobIds /\ exec[w].span \in Spans
         /\ OwnsJob(w) <=> Owns(w, exec[w].job)
         /\ OwnsJob(w) => /\ jobs[exec[w].job].status = "Running"
                          /\ jobs[exec[w].job].span = exec[w].span
                          /\ Live(exec[w].job)
         /\ \A j \in JobIds : Owns(w, j) => j = exec[w].job
BY DEF TInv, SlotsHaveJobs, OwnersAgree, OwnsJob, Owns, Live

Working(w) ==
  \/ FindEpisode(w) \/ CreateEpisode(w) \/ EnqueuePredictCalibrate(w)
  \/ CheckEpisode(w) \/ ApplyActions(w) \/ MarkConsolidated(w) \/ JobFails(w)

LEMMA WorkingAdvances ==
  ASSUME TInv, NEW w \in Slots, Working(w)
  PROVE  /\ \E label \in Labels \ {"idle"} : Advances(w, label)
         /\ exec[w].span \in Spans
         /\ jobs' = jobs \/ Pushes("predict", exec[w].span)
<1>1. exec[w].span \in Spans
  BY OwnedJob DEF Working, FindEpisode, CreateEpisode, EnqueuePredictCalibrate, CheckEpisode,
     ApplyActions, MarkConsolidated, JobFails
<1>2. CASE FindEpisode(w)
  BY <1>1, <1>2 DEF FindEpisode, Goto, Advances, Labels, Creating
<1>3. CASE EnqueuePredictCalibrate(w)
  BY <1>1, <1>3, PushFills DEF EnqueuePredictCalibrate, Pushes, Goto, Advances, Labels
<1>4. CASE CreateEpisode(w) \/ CheckEpisode(w) \/ ApplyActions(w) \/ MarkConsolidated(w) \/ JobFails(w)
  BY <1>1, <1>4
  DEF CreateEpisode, CheckEpisode, ApplyActions, MarkConsolidated, JobFails,
      Goto, Advances, Labels, Creating, Calibrating
<1> QED BY <1>2, <1>3, <1>4 DEF Working

Ending(w) == Ack(w) \/ Retry(w) \/ GiveUp(w) \/ IgnoreError(w) \/ SlotCrashes(w)

LEMMA EndingStops ==
  ASSUME TInv, NEW w \in Slots, Ending(w)
  PROVE  /\ Stop(w) /\ pc[w] # "idle"
         /\ \/ jobs' = jobs
            \/ Ack(w) /\ OwnsJob(w) /\ Frees(exec[w].job)
            \/ Retry(w) /\ OwnsJob(w) /\ GivesBack(exec[w].job)
            \/ GiveUp(w) /\ OwnsJob(w) /\ Frees(exec[w].job)
<1>1. CASE Retry(w)
  <2>1. exec[w].job \in JobIds /\ jobs[exec[w].job] \in Job
    BY <1>1, OwnedJob DEF Retry, TInv, TypeOK
  <2>2. jobs[exec[w].job].attempts + 1 \in Nat
    BY <2>1 DEF Job
  <2>3. GivesBack(exec[w].job)
    BY <1>1, <2>1, <2>2 DEF Retry, GivesBack
  <2> QED BY <1>1, <2>3 DEF Retry
<1>2. CASE Ack(w) \/ GiveUp(w) \/ IgnoreError(w) \/ SlotCrashes(w)
  BY <1>2 DEF Ack, GiveUp, IgnoreError, SlotCrashes, Frees
<1> QED BY <1>1, <1>2 DEF Ending

LEMMA FetchTakes ==
  ASSUME NEW w \in Slots, Fetch(w)
  PROVE  \E j \in JobIds : Takes(w, j)
BY DEF Fetch, Takes, Goto

LEMMA ReenqueueGivesBack ==
  ASSUME TInv, NEW j \in JobIds, Reenqueue(j)
  PROVE  Live(j) /\ GivesBack(j) /\ jobs[j].status = "Running"
<1>1. jobs \in [JobIds -> Job] /\ jobs[j] \in Job /\ jobs[j].attempts \in Nat
  BY DEF TInv, TypeOK, Job
<1> DEFINE row == [jobs[j] EXCEPT !.status = "Pending", !.owner = NoSlot]
<1>2. row = [row EXCEPT !.attempts = jobs[j].attempts]
  BY <1>1 DEF Job
<1>3. jobs' = [jobs EXCEPT ![j].status = "Pending", ![j].owner = NoSlot,
                           ![j].attempts = jobs[j].attempts]
  BY <1>1, <1>2 DEF Reenqueue
<1> QED BY <1>1, <1>3 DEF Reenqueue, GivesBack, Live

LEMMA NextTInv == TInv /\ [Next]_vars => TInv'
<1> SUFFICES ASSUME TInv, [Next]_vars PROVE TInv'
  OBVIOUS
<1> DEFINE Moved == /\ jobs' \in [JobIds -> Job] /\ pc' \in [Slots -> Labels]
                    /\ exec' \in [Slots -> Exec]
                    /\ SlotsHaveJobs' /\ JobsHaveSpans' /\ OwnersAgree'
           Kept == /\ class' \in [Spans -> {"none", "low_info", "informative"}]
                   /\ episodes' \in [Spans -> {"none", "stored", "consolidated"}]
                   /\ applied' \in [Spans -> Nat]
                   /\ erred' \in BOOLEAN /\ givenUp' \in SUBSET Spans /\ faults' \in Nat
<1>0. Moved /\ Kept => TInv'
  BY DEF TInv, TypeOK
<1>1. CASE UNCHANGED vars
  BY <1>1 DEF vars, memory, history, TInv, TypeOK, SlotsHaveJobs, JobsHaveSpans, OwnersAgree, Owns, Live
<1>2. ASSUME NEW s \in Spans, EnqueueEpisode(s) PROVE TInv'
  <2>1. Pushes("creation", s) /\ UNCHANGED <<pc, exec>>
    BY <1>2, PushFills DEF EnqueueEpisode, Pushes
  <2>2. Moved
    BY <2>1, WorkTInv DEF Queues
  <2>3. Kept
    BY <1>2 DEF EnqueueEpisode, history, TInv, TypeOK
  <2> QED BY <1>0, <2>2, <2>3
<1>3. ASSUME NEW w \in Slots, Working(w) PROVE TInv'
  <2>1. Moved
    BY <1>3, WorkingAdvances, WorkTInv DEF Queues
  <2>2. exec[w].span \in Spans
    BY <1>3, WorkingAdvances
  <2>3. Kept
    BY <1>3, <2>2
    DEF Working, FindEpisode, CreateEpisode, EnqueuePredictCalibrate, CheckEpisode,
        ApplyActions, MarkConsolidated, JobFails, Fault, memory, history, TInv, TypeOK
  <2> QED BY <1>0, <2>1, <2>3
<1>4. ASSUME NEW w \in Slots, Fetch(w) PROVE TInv'
  <2>1. Moved
    BY <1>4, FetchTakes, TakeTInv
  <2>2. Kept
    BY <1>4 DEF Fetch, memory, history, TInv, TypeOK
  <2> QED BY <1>0, <2>1, <2>2
<1>5. ASSUME NEW w \in Slots, Ending(w) PROVE TInv'
  <2>1. Stop(w) /\ exec[w].span \in Spans
    BY <1>5, EndingStops, OwnedJob
  <2>2. jobs' = jobs \/ \E j \in JobIds : Live(j) /\ (Frees(j) \/ GivesBack(j))
    BY <1>5, EndingStops, OwnedJob
  <2>3. Moved
    BY <2>1, <2>2, StopTInv
  <2>4. UNCHANGED memory
    BY <1>5 DEF Ending, Ack, Retry, GiveUp, IgnoreError, SlotCrashes
  <2>5. /\ erred' = erred \/ erred' = TRUE
        /\ givenUp' = givenUp \/ givenUp' = givenUp \cup {exec[w].span}
        /\ faults' = faults \/ faults' = faults + 1
    <3>1. CASE Ack(w) \/ IgnoreError(w)
      BY <3>1 DEF Ack, IgnoreError, history
    <3>2. CASE Retry(w) \/ GiveUp(w) \/ SlotCrashes(w)
      BY <3>2 DEF Retry, GiveUp, SlotCrashes, Fault, history
    <3> QED BY <1>5, <3>1, <3>2 DEF Ending
  <2>6. erred' \in BOOLEAN
    BY <2>5 DEF TInv, TypeOK
  <2>7. givenUp' \in SUBSET Spans /\ faults' \in Nat
    BY <2>1, <2>5 DEF TInv, TypeOK
  <2>8. Kept
    BY <2>4, <2>6, <2>7 DEF memory, TInv, TypeOK
  <2> QED BY <1>0, <2>3, <2>8
<1>6. ASSUME NEW j \in JobIds, ReenqueueOrphan(j) \/ ReenqueueStalled(j) PROVE TInv'
  <2>1. Reenqueue(j) /\ UNCHANGED <<pc, exec>>
    BY <1>6 DEF ReenqueueOrphan, ReenqueueStalled, Reenqueue
  <2>2. Moved
    BY <2>1, ReenqueueGivesBack, StopTInv
  <2>3. Kept
    BY <1>6 DEF ReenqueueOrphan, ReenqueueStalled, Reenqueue, Fault, memory, history, TInv, TypeOK
  <2> QED BY <1>0, <2>2, <2>3
<1> QED BY <1>1, <1>2, <1>3, <1>4, <1>5, <1>6 DEF Next, SlotStep, Working, Ending

(* Every variable keeps its type: no slot works on a job or a span that there is
   none of, through crashes, stalls and second deliveries. *)
THEOREM TypeCorrect == Spec => []TypeOK
<1>1. Spec => []TInv
  BY InitTInv, NextTInv, PTL DEF Spec
<1> QED BY <1>1, PTL DEF TInv
--------------------------------------------------------------------------------
(***************************************************************************)
(* What no step takes back, and where jobs come from and go.               *)
(***************************************************************************)
LEMMA MemoryGrows ==
  ASSUME TInv, [Next]_vars, NEW s \in Spans
  PROVE  /\ episodes[s] # "none" => episodes'[s] # "none"
         /\ episodes[s] = "consolidated" => episodes'[s] = "consolidated"
         /\ class[s] # "none" => class'[s] = class[s]
         /\ s \in givenUp => s \in givenUp'
         /\ Closed(s) /\ class[s] # "none" => Closed(s)'
<1>1. CASE UNCHANGED vars
  BY <1>1 DEF vars, memory, history, Closed
<1>2. ASSUME NEW r \in Spans, EnqueueEpisode(r)
      PROVE  UNCHANGED <<episodes, givenUp>> /\ (class[s] # "none" => class'[s] = class[s])
  BY <1>2 DEF EnqueueEpisode, history, TInv, TypeOK
<1>3. ASSUME NEW w \in Slots, Working(w)
      PROVE  /\ UNCHANGED <<class, givenUp>>
             /\ episodes[s] # "none" => episodes'[s] # "none"
             /\ episodes[s] = "consolidated" => episodes'[s] = "consolidated"
  <2>1. exec[w].span \in Spans /\ episodes \in [Spans -> {"none", "stored", "consolidated"}]
    BY <1>3, WorkingAdvances DEF TInv, TypeOK
  <2>2. CASE CreateEpisode(w)
    BY <2>1, <2>2 DEF CreateEpisode, history
  <2>3. CASE MarkConsolidated(w)
    BY <2>1, <2>3 DEF MarkConsolidated, history
  <2>4. CASE \/ FindEpisode(w) \/ EnqueuePredictCalibrate(w) \/ CheckEpisode(w)
             \/ ApplyActions(w) \/ JobFails(w)
    BY <2>4 DEF FindEpisode, EnqueuePredictCalibrate, CheckEpisode, ApplyActions, JobFails,
       memory, history
  <2> QED BY <1>3, <2>2, <2>3, <2>4 DEF Working
<1>4. ASSUME NEW w \in Slots, Fetch(w) PROVE UNCHANGED <<class, episodes, givenUp>>
  BY <1>4 DEF Fetch, memory, history
<1>5. ASSUME NEW w \in Slots, Ending(w)
      PROVE  UNCHANGED <<class, episodes>> /\ givenUp \subseteq givenUp'
  BY <1>5 DEF Ending, Ack, Retry, GiveUp, IgnoreError, SlotCrashes, memory, history
<1>6. ASSUME NEW j \in JobIds, ReenqueueOrphan(j) \/ ReenqueueStalled(j)
      PROVE  UNCHANGED <<class, episodes, givenUp>>
  BY <1>6 DEF ReenqueueOrphan, ReenqueueStalled, Reenqueue, memory, history
<1> QED
  BY <1>1, <1>2, <1>3, <1>4, <1>5, <1>6 DEF Next, SlotStep, Working, Ending, Closed

SameJob(j) == Live(j)' /\ jobs'[j].span = jobs[j].span /\ jobs'[j].queue = jobs[j].queue

(* A live job was live before, or is the one of a new span or of an episode. *)
LEMMA JobsComeFrom ==
  ASSUME TInv, [Next]_vars, NEW j \in JobIds, Live(j)'
  PROVE  \/ Live(j) /\ SameJob(j)
         \/ \E s \in Spans : EnqueueEpisode(s) /\ jobs'[j] = NewJob("creation", s)
         \/ \E w \in Slots : /\ EnqueuePredictCalibrate(w) /\ class[exec[w].span] = "informative"
                             /\ jobs'[j] = NewJob("predict", exec[w].span)
<1>0. jobs \in [JobIds -> Job]
  BY DEF TInv, TypeOK
<1>1. CASE UNCHANGED vars
  BY <1>1 DEF vars, SameJob, Live
<1>2. ASSUME NEW s \in Spans, EnqueueEpisode(s)
      PROVE  (Live(j) /\ SameJob(j)) \/ jobs'[j] = NewJob("creation", s)
  <2>1. PICK k \in JobIds : jobs' = [jobs EXCEPT ![k] = NewJob("creation", s)]
    BY <1>2, PushFills DEF EnqueueEpisode
  <2> QED BY <1>0, <2>1 DEF SameJob, Live
<1>3. ASSUME NEW w \in Slots, EnqueuePredictCalibrate(w)
      PROVE  \/ Live(j) /\ SameJob(j)
             \/ class[exec[w].span] = "informative" /\ jobs'[j] = NewJob("predict", exec[w].span)
  <2>1. CASE jobs' = jobs
    BY <2>1 DEF SameJob, Live
  <2>2. CASE NeedsPredictCalibrate(w)
    <3>1. PICK k \in JobIds : jobs' = [jobs EXCEPT ![k] = NewJob("predict", exec[w].span)]
      BY <1>3, <2>2, PushFills DEF EnqueuePredictCalibrate
    <3> QED BY <1>0, <2>2, <3>1 DEF SameJob, Live, NeedsPredictCalibrate
  <2> QED BY <1>3, <2>1, <2>2 DEF EnqueuePredictCalibrate
<1>4. ASSUME NEW w \in Slots, FindEpisode(w) \/ CreateEpisode(w) \/ CheckEpisode(w) \/ ApplyActions(w)
                                \/ MarkConsolidated(w) \/ JobFails(w)
      PROVE  Live(j) /\ SameJob(j)
  BY <1>4 DEF FindEpisode, CreateEpisode, CheckEpisode, ApplyActions, MarkConsolidated, JobFails,
     SameJob, Live
<1>5. ASSUME NEW w \in Slots, Fetch(w) PROVE Live(j) /\ SameJob(j)
  <2>1. PICK k \in JobIds : Takes(w, k)
    BY <1>5, FetchTakes
  <2>2. jobs[k] \in Job /\ jobs[k].status # "free"
    BY <1>0, <2>1 DEF Takes
  <2> QED BY <1>0, <2>1, <2>2 DEF Takes, SameJob, Live, Job
<1>6. ASSUME NEW k \in JobIds, Live(k), Frees(k) \/ GivesBack(k) PROVE Live(j) /\ SameJob(j)
  <2>1. CASE j = k
    <3>1. ~ Frees(k)
      BY <1>0, <2>1, ConstantTypes DEF Frees, Live
    <3> QED BY <1>6, <2>1, <3>1, RowTypes DEF SameJob
  <2>2. CASE j # k
    BY <1>6, <2>2, RowTypes DEF SameJob, Live
  <2> QED BY <2>1, <2>2
<1>7. ASSUME NEW w \in Slots, Ending(w) PROVE Live(j) /\ SameJob(j)
  <2>1. CASE jobs' = jobs
    BY <2>1 DEF SameJob, Live
  <2> QED BY <1>6, <1>7, <2>1, EndingStops, OwnedJob
<1>8. ASSUME NEW k \in JobIds, ReenqueueOrphan(k) \/ ReenqueueStalled(k)
      PROVE  Live(j) /\ SameJob(j)
  BY <1>6, <1>8, ReenqueueGivesBack DEF ReenqueueOrphan, ReenqueueStalled
<1> QED
  BY <1>1, <1>2, <1>3, <1>4, <1>5, <1>7, <1>8 DEF Next, SlotStep, Working, Ending

(* A step ends at most one job: an acknowledged one, or one that is given up. *)
LEMMA JobsEnd ==
  ASSUME TInv, [Next]_vars, NEW j \in JobIds, Live(j), ~ SameJob(j)
  PROVE  \E w \in Slots : /\ Owns(w, j) /\ jobs[j].span = exec[w].span
                          /\ \/ Ack(w) /\ pc[w] = "ok"
                             \/ GiveUp(w) /\ jobs[j].span \in givenUp'
                          /\ \A k \in JobIds \ {j} : jobs'[k] = jobs[k]
<1>0. jobs \in [JobIds -> Job]
  BY DEF TInv, TypeOK
<1>1. ~ UNCHANGED jobs
  BY DEF SameJob, Live
<1>2. ASSUME NEW queue, NEW s, Pushes(queue, s) PROVE FALSE
  <2>1. PICK k \in JobIds : jobs[k] = FreeJob /\ jobs' = [jobs EXCEPT ![k] = NewJob(queue, s)]
    BY <1>2 DEF Pushes
  <2>2. k # j
    BY <2>1, ConstantTypes DEF Live
  <2> QED BY <1>0, <2>1, <2>2 DEF SameJob, Live
<1>3. ASSUME NEW w \in Slots, Fetch(w) PROVE FALSE
  <2>1. PICK k \in JobIds : Takes(w, k)
    BY <1>3, FetchTakes
  <2> QED BY <1>0, <2>1 DEF Takes, SameJob, Live, Job
<1>4. ASSUME NEW k \in JobIds, Live(k), GivesBack(k) PROVE FALSE
  <2>1. CASE k = j
    BY <1>0, <1>4, <2>1 DEF GivesBack, SameJob, Live, Job
  <2>2. CASE k # j
    BY <1>0, <1>4, <2>2 DEF GivesBack, SameJob, Live
  <2> QED BY <2>1, <2>2
<1>5. ASSUME NEW s \in Spans, EnqueueEpisode(s) PROVE FALSE
  BY <1>2, <1>5, PushFills DEF EnqueueEpisode, Pushes
<1>6. ASSUME NEW w \in Slots, Working(w) PROVE FALSE
  BY <1>1, <1>2, <1>6, WorkingAdvances
<1>7. ASSUME NEW k \in JobIds, ReenqueueOrphan(k) \/ ReenqueueStalled(k) PROVE FALSE
  BY <1>4, <1>7, ReenqueueGivesBack DEF ReenqueueOrphan, ReenqueueStalled
<1>8. ASSUME NEW w \in Slots, Ending(w)
      PROVE  /\ Owns(w, j) /\ jobs[j].span = exec[w].span
             /\ \/ Ack(w) /\ pc[w] = "ok"
                \/ GiveUp(w) /\ jobs[j].span \in givenUp'
             /\ \A k \in JobIds \ {j} : jobs'[k] = jobs[k]
  <2>1. PICK k \in JobIds : k = exec[w].job /\ OwnsJob(w) /\ Owns(w, k) /\ jobs[k].span = exec[w].span
                              /\ Live(k) /\ Frees(k) /\ (Ack(w) \/ GiveUp(w))
    BY <1>1, <1>4, <1>8, EndingStops, OwnedJob
  <2>2. k = j
    BY <1>0, <2>1 DEF Frees, SameJob, Live
  <2> QED BY <1>0, <2>1, <2>2 DEF Frees, Ack, GiveUp
<1> QED BY <1>1, <1>3, <1>5, <1>6, <1>7, <1>8 DEF Next, SlotStep, Working, Ending, vars
--------------------------------------------------------------------------------
(***************************************************************************)
(* No span is stranded.                                                    *)
(***************************************************************************)
LEMMA InitSInv == Init => SInv
BY ConstantTypes DEF Init, SInv, SpansOfJobs, SpansOfSlots, OkIsEarned, NoSpanStranded, Live, Owns

LEMMA NextSpansOfJobs ==
  ASSUME TInv, SInv, [Next]_vars
  PROVE  SpansOfJobs'
<1> SUFFICES ASSUME NEW j \in JobIds, Live(j)'
             PROVE  /\ class'[jobs'[j].span] # "none"
                    /\ jobs'[j].queue = "predict" => episodes'[jobs'[j].span] # "none"
  BY DEF SpansOfJobs
<1>1. CASE Live(j) /\ SameJob(j)
  <2>1. jobs[j].span \in Spans
    BY <1>1 DEF TInv, JobsHaveSpans
  <2>2. class[jobs[j].span] # "none" /\ (jobs[j].queue = "predict" => episodes[jobs[j].span] # "none")
    BY <1>1 DEF SInv, SpansOfJobs
  <2> QED BY <1>1, <2>1, <2>2, MemoryGrows DEF SameJob
<1>2. ASSUME NEW s \in Spans, EnqueueEpisode(s), jobs'[j] = NewJob("creation", s)
      PROVE  class'[s] # "none" /\ jobs'[j].span = s /\ jobs'[j].queue = "creation"
  BY <1>2 DEF EnqueueEpisode, NewJob, TInv, TypeOK
<1>3. ASSUME NEW w \in Slots, EnqueuePredictCalibrate(w), class[exec[w].span] = "informative",
             jobs'[j] = NewJob("predict", exec[w].span)
      PROVE  /\ class'[jobs'[j].span] # "none"
             /\ episodes'[jobs'[j].span] # "none"
  <2>1. pc[w] = "push" /\ UNCHANGED <<class, episodes>> /\ jobs'[j].span = exec[w].span
    BY <1>3 DEF EnqueuePredictCalibrate, memory, NewJob
  <2> QED BY <1>3, <2>1 DEF SInv, SpansOfSlots
<1> QED BY <1>1, <1>2, <1>3, JobsComeFrom

LEMMA NextSpansOfSlots ==
  ASSUME TInv, SInv, [Next]_vars
  PROVE  SpansOfSlots'
<1> DEFINE Sound(w) ==
      pc[w] # "idle" =>
        /\ class[exec[w].span] # "none"
        /\ pc[w] \in {"push"} \cup Calibrating => episodes[exec[w].span] # "none"
        /\ pc[w] \in {"find", "create"} => ~ exec[w].consolidated
        /\ pc[w] = "push" /\ exec[w].consolidated => episodes[exec[w].span] = "consolidated"
<1> SUFFICES ASSUME NEW w \in Slots PROVE Sound(w)'
  BY DEF SpansOfSlots
<1>1. Sound(w) /\ (pc[w] # "idle" => exec[w].span \in Spans)
  BY OwnedJob DEF SInv, SpansOfSlots
<1>2. CASE pc'[w] = pc[w] /\ exec'[w] = exec[w]
  BY <1>1, <1>2, MemoryGrows
<1>3. CASE Working(w)
  <2>1. pc[w] # "idle" /\ pc \in [Slots -> Labels] /\ exec \in [Slots -> Exec]
    BY <1>3, WorkingAdvances DEF Advances, TInv, TypeOK
  <2>2. exec'[w].span = exec[w].span /\ class'[exec[w].span] # "none"
    BY <1>1, <1>3, <2>1, AdvanceTypes, WorkingAdvances, MemoryGrows
  <2>3. CASE FindEpisode(w)
    <3>1. CASE episodes[exec[w].span] = "none"
      BY <1>1, <2>1, <2>2, <2>3, <3>1 DEF FindEpisode, Goto, Calibrating
    <3>2. CASE episodes[exec[w].span] # "none"
      <4>1. pc'[w] = "push" /\ episodes' = episodes
            /\ exec'[w].consolidated = (episodes[exec[w].span] = "consolidated")
        BY <2>1, <2>3, <3>2 DEF FindEpisode, Goto, memory, Exec
      <4> QED BY <2>2, <3>2, <4>1
    <3> QED BY <3>1, <3>2
  <2>4. CASE CreateEpisode(w)
    <3>1. exec' = exec /\ ~ exec[w].consolidated
      BY <1>1, <2>4 DEF CreateEpisode
    <3>2. pc'[w] = "err" \/ (pc'[w] = "push" /\ episodes'[exec[w].span] = "stored")
      BY <1>1, <2>1, <2>4 DEF CreateEpisode, Goto, TInv, TypeOK
    <3> QED BY <2>2, <3>1, <3>2 DEF Calibrating
  <2>5. CASE CheckEpisode(w) \/ ApplyActions(w)
    <3>1. exec' = exec /\ episodes' = episodes /\ pc[w] \in Calibrating
          /\ pc'[w] \in {"apply", "mark", "ok"}
      BY <2>1, <2>5 DEF CheckEpisode, ApplyActions, Goto, memory, Calibrating
    <3> QED BY <1>1, <2>1, <2>2, <3>1
  <2>6. CASE EnqueuePredictCalibrate(w) \/ MarkConsolidated(w) \/ JobFails(w)
    <3>1. pc'[w] \in {"ok", "err"}
      BY <2>1, <2>6 DEF EnqueuePredictCalibrate, MarkConsolidated, JobFails, Goto
    <3> QED BY <2>2, <3>1 DEF Calibrating
  <2> QED BY <1>3, <2>3, <2>4, <2>5, <2>6 DEF Working
<1>4. CASE Fetch(w)
  <2>1. PICK j \in JobIds : Takes(w, j)
    BY <1>4, FetchTakes
  <2>2. Live(j) /\ jobs[j].span \in Spans /\ jobs[j].queue \in Queues
    BY <2>1 DEF Takes, Live, TInv, JobsHaveSpans, TypeOK, Job
  <2>3. exec'[w].span = jobs[j].span /\ ~ exec'[w].consolidated
        /\ pc'[w] = (IF jobs[j].queue = "creation" THEN "find" ELSE "check")
    BY <2>1 DEF Takes, IdleExec, TInv, TypeOK, Exec
  <2>4. UNCHANGED <<class, episodes>>
    BY <1>4 DEF Fetch, memory
  <2> QED BY <2>2, <2>3, <2>4 DEF SInv, SpansOfJobs, Queues, Calibrating
<1>5. CASE Ending(w)
  BY <1>5, EndingStops DEF Stop, Goto, TInv, TypeOK
<1>6. ASSUME NEW v \in Slots, v # w, Working(v) \/ Fetch(v) \/ Ending(v)
      PROVE  pc'[w] = pc[w] /\ exec'[w] = exec[w]
  <2>1. CASE Working(v)
    BY <1>6, <2>1, WorkingAdvances DEF Advances, TInv, TypeOK
  <2>2. CASE Fetch(v)
    <3>1. PICK j \in JobIds : Takes(v, j)
      BY <2>2, FetchTakes
    <3> QED BY <1>6, <3>1 DEF Takes, TInv, TypeOK
  <2>3. CASE Ending(v)
    BY <1>6, <2>3, EndingStops DEF Stop, Goto, TInv, TypeOK
  <2> QED BY <1>6, <2>1, <2>2, <2>3
<1>7. CASE \/ UNCHANGED vars
           \/ \E s \in Spans : EnqueueEpisode(s)
           \/ \E j \in JobIds : ReenqueueOrphan(j) \/ ReenqueueStalled(j)
  BY <1>2, <1>7 DEF vars, EnqueueEpisode, ReenqueueOrphan, ReenqueueStalled, Reenqueue
<1> QED BY <1>2, <1>3, <1>4, <1>5, <1>6, <1>7 DEF Next, SlotStep, Working, Ending

(* A job of the second queue stays until its span needs none. *)
LEMMA PredictJobKept ==
  ASSUME TInv, SInv, [Next]_vars, NEW s \in Spans, HasJob(s, "predict")
  PROVE  Closed(s)' \/ HasJob(s, "predict")'
<1>1. PICK j \in JobIds : Live(j) /\ jobs[j].span = s /\ jobs[j].queue = "predict"
  BY DEF HasJob
<1>2. CASE SameJob(j)
  BY <1>1, <1>2 DEF SameJob, HasJob
<1>3. CASE ~ SameJob(j)
  <2>1. PICK w \in Slots : Owns(w, j) /\ (pc[w] = "ok" \/ s \in givenUp')
    BY <1>1, <1>3, JobsEnd
  <2>2. CASE pc[w] = "ok"
    BY <1>1, <2>1, <2>2, MemoryGrows DEF SInv, OkIsEarned, Earned, Closed
  <2> QED BY <2>1, <2>2 DEF Closed
<1> QED BY <1>2, <1>3

(* How a slot comes to acknowledge its job. *)
LEMMA OkIsReached ==
  ASSUME TInv, SInv, [Next]_vars, NEW w \in Slots, pc'[w] = "ok", pc[w] # "ok"
  PROVE  /\ exec'[w].job = exec[w].job /\ exec[w].job \in JobIds
         /\ \A j \in JobIds : Owns(w, j)' => Owns(w, j) /\ jobs'[j] = jobs[j]
         /\ \/ EnqueuePredictCalibrate(w)
            \/ CheckEpisode(w) /\ episodes[exec[w].span] = "consolidated"
            \/ MarkConsolidated(w)
<1>0. pc \in [Slots -> Labels]
  BY DEF TInv, TypeOK
<1>1. pc'[w] # pc[w]
  OBVIOUS
<1>2. ~ UNCHANGED pc
  BY <1>1
<1>3. ASSUME NEW v \in Slots, Fetch(v) PROVE FALSE
  <2>1. PICK j \in JobIds : Takes(v, j)
    BY <1>3, FetchTakes
  <2> QED BY <1>0, <2>1 DEF Takes
<1>4. ASSUME NEW v \in Slots, Ending(v) PROVE FALSE
  BY <1>0, <1>4, EndingStops DEF Stop, Goto
<1>5. ASSUME NEW v \in Slots, v # w, Working(v) PROVE FALSE
  BY <1>0, <1>5, WorkingAdvances DEF Advances
<1>6. Working(w)
  BY <1>2, <1>3, <1>4, <1>5
  DEF Next, SlotStep, Working, Ending, vars, EnqueueEpisode, ReenqueueOrphan, ReenqueueStalled,
      Reenqueue
<1>7. \/ EnqueuePredictCalibrate(w)
      \/ CheckEpisode(w) /\ episodes[exec[w].span] = "consolidated"
      \/ MarkConsolidated(w)
  <2>1. CASE FindEpisode(w) \/ CreateEpisode(w) \/ ApplyActions(w) \/ JobFails(w)
    BY <1>0, <2>1 DEF FindEpisode, CreateEpisode, ApplyActions, JobFails, Goto
  <2>2. CASE CheckEpisode(w)
    <3>1. pc[w] = "check" /\ exec[w].span \in Spans /\ ~ NeedsConsolidation(exec[w].span)
      BY <1>0, <2>2, OwnedJob DEF CheckEpisode, Goto
    <3>2. episodes[exec[w].span] # "none"
      BY <3>1 DEF SInv, SpansOfSlots, Calibrating
    <3> QED BY <2>2, <3>1, <3>2 DEF NeedsConsolidation, TInv, TypeOK
  <2> QED BY <1>6, <2>1, <2>2 DEF Working
<1>8. pc[w] # "idle" /\ exec'[w].job = exec[w].job /\ exec[w].job \in JobIds
  BY <1>6, WorkingAdvances, AdvanceTypes, OwnedJob DEF Advances
<1>9. \A j \in JobIds : Owns(w, j)' => Owns(w, j) /\ jobs'[j] = jobs[j]
  <2>1. CASE jobs' = jobs
    BY <1>8, <2>1 DEF Owns
  <2>2. CASE jobs' # jobs
    <3>1. exec[w].span \in Spans /\ Pushes("predict", exec[w].span)
      BY <1>6, <2>2, WorkingAdvances
    <3> QED BY <1>8, <3>1, PushedTypes DEF Owns, Queues
  <2> QED BY <2>1, <2>2
<1> QED BY <1>7, <1>8, <1>9

(* A slot at work does not come to own a job. *)
LEMMA OwnedBefore ==
  ASSUME TInv, [Next]_vars, NEW w \in Slots, NEW j \in JobIds, Owns(w, j)', pc[w] # "idle"
  PROVE  Owns(w, j) /\ jobs'[j] = jobs[j]
<1>0. jobs \in [JobIds -> Job] /\ pc \in [Slots -> Labels] /\ exec \in [Slots -> Exec]
  BY DEF TInv, TypeOK
<1>1. CASE UNCHANGED <<jobs, exec>>
  BY <1>1 DEF Owns
<1>2. ASSUME NEW s \in Spans, EnqueueEpisode(s) PROVE Owns(w, j) /\ jobs'[j] = jobs[j]
  <2>1. exec' = exec /\ Pushes("creation", s)
    BY <1>2, PushFills DEF EnqueueEpisode, Pushes
  <2> QED BY <2>1, PushedTypes DEF Owns, Queues
<1>3. ASSUME NEW v \in Slots, Working(v) PROVE Owns(w, j) /\ jobs'[j] = jobs[j]
  <2>1. exec'[w].job = exec[w].job
    BY <1>3, WorkingAdvances, AdvanceTypes
  <2>2. CASE jobs' = jobs
    BY <2>1, <2>2 DEF Owns
  <2>3. CASE Pushes("predict", exec[v].span)
    BY <1>3, <2>1, <2>3, WorkingAdvances, PushedTypes DEF Owns, Queues
  <2> QED BY <1>3, <2>2, <2>3, WorkingAdvances
<1>4. ASSUME NEW v \in Slots, Fetch(v) PROVE Owns(w, j) /\ jobs'[j] = jobs[j]
  <2>1. PICK k \in JobIds : Takes(v, k)
    BY <1>4, FetchTakes
  <2>2. v # w /\ exec'[w] = exec[w] /\ jobs'[k].owner = v
    BY <1>0, <2>1 DEF Takes, Job
  <2>3. j # k
    BY <2>2 DEF Owns
  <2> QED BY <1>0, <2>1, <2>2, <2>3 DEF Takes, Owns
<1>5. ASSUME NEW k \in JobIds, Live(k), Frees(k) \/ GivesBack(k) PROVE jobs'[j] = jobs[j]
  BY <1>5, RowTypes, ConstantTypes DEF Owns
<1>6. ASSUME NEW v \in Slots, Ending(v) PROVE Owns(w, j) /\ jobs'[j] = jobs[j]
  <2>1. v # w
    BY <1>0, <1>6, EndingStops, ConstantTypes DEF Stop, Owns
  <2>2. exec'[w] = exec[w]
    BY <1>0, <1>6, <2>1, EndingStops DEF Stop
  <2>3. jobs'[j] = jobs[j]
    BY <1>5, <1>6, EndingStops, OwnedJob
  <2> QED BY <2>2, <2>3 DEF Owns
<1>7. ASSUME NEW k \in JobIds, ReenqueueOrphan(k) \/ ReenqueueStalled(k)
      PROVE  Owns(w, j) /\ jobs'[j] = jobs[j]
  <2>1. Reenqueue(k) /\ exec' = exec
    BY <1>7 DEF ReenqueueOrphan, ReenqueueStalled, Reenqueue
  <2> QED BY <1>5, <2>1, ReenqueueGivesBack DEF Owns
<1> QED BY <1>1, <1>2, <1>3, <1>4, <1>6, <1>7 DEF Next, SlotStep, Working, Ending, vars

LEMMA NextOkIsEarned ==
  ASSUME TInv, SInv, [Next]_vars
  PROVE  OkIsEarned'
<1> SUFFICES ASSUME NEW w \in Slots, NEW j \in JobIds, Owns(w, j)', pc'[w] = "ok"
             PROVE  Earned(j)'
  BY DEF OkIsEarned
<1>0. pc[w] # "idle"
  <2>1. CASE pc[w] = "ok"
    BY <2>1
  <2>2. CASE pc[w] # "ok"
    BY <2>2, OkIsReached DEF EnqueuePredictCalibrate, CheckEpisode, MarkConsolidated
  <2> QED BY <2>1, <2>2
<1>1. PICK s \in Spans : /\ s = exec[w].span /\ s = jobs[j].span /\ Live(j)
                         /\ Owns(w, j) /\ jobs'[j] = jobs[j] /\ class[s] # "none"
  BY <1>0, OwnedBefore, OwnedJob DEF SInv, SpansOfJobs
<1>2. SUFFICES IF jobs[j].queue = "predict"
                 THEN episodes'[s] = "consolidated"
                 ELSE Closed(s)' \/ HasJob(s, "predict")'
  BY <1>1 DEF Earned
<1>3. CASE pc[w] = "ok"
  <2>1. CASE jobs[j].queue = "predict"
    BY <1>1, <1>3, <2>1, MemoryGrows DEF SInv, OkIsEarned, Earned
  <2>2. CASE jobs[j].queue # "predict"
    <3>1. Closed(s) \/ HasJob(s, "predict")
      BY <1>1, <1>3, <2>2 DEF SInv, OkIsEarned, Earned
    <3> QED BY <1>1, <2>2, <3>1, MemoryGrows, PredictJobKept
  <2> QED BY <2>1, <2>2
<1>4. CASE EnqueuePredictCalibrate(w)
  <2>1. pc[w] = "push" /\ jobs[j].queue = "creation"
    BY <1>1, <1>4 DEF EnqueuePredictCalibrate, TInv, OwnersAgree, Creating
  <2>2. CASE NeedsPredictCalibrate(w)
    <3>1. PICK k \in JobIds : jobs' = [jobs EXCEPT ![k] = NewJob("predict", s)]
      BY <1>1, <1>4, <2>2, PushFills DEF EnqueuePredictCalibrate
    <3>2. jobs'[k] = NewJob("predict", s)
      BY <3>1 DEF TInv, TypeOK
    <3>3. HasJob(s, "predict")'
      BY <3>2 DEF HasJob, Live, NewJob
    <3> QED BY <2>1, <3>3
  <2>3. CASE ~ NeedsPredictCalibrate(w)
    <3>1. Closed(s)
      BY <1>1, <2>1, <2>3 DEF NeedsPredictCalibrate, Closed, SInv, SpansOfSlots
    <3> QED BY <1>1, <2>1, <3>1, MemoryGrows
  <2> QED BY <2>2, <2>3
<1>5. CASE episodes'[s] = "consolidated"
  BY <1>5 DEF Closed
<1>6. CASE CheckEpisode(w) /\ episodes[exec[w].span] = "consolidated"
  BY <1>1, <1>5, <1>6, MemoryGrows
<1>7. CASE MarkConsolidated(w)
  BY <1>1, <1>5, <1>7 DEF MarkConsolidated, TInv, TypeOK
<1> QED BY <1>3, <1>4, <1>6, <1>7, OkIsReached

LEMMA NextNoSpanStranded ==
  ASSUME TInv, SInv, [Next]_vars
  PROVE  NoSpanStranded'
<1> SUFFICES ASSUME NEW s \in Spans, ~ Closed(s)'
             PROVE  (\E j \in JobIds : Live(j) /\ jobs[j].span = s)'
  BY DEF NoSpanStranded, Closed
<1>1. CASE class[s] = "none"
  <2>1. PICK r \in Spans : EnqueueEpisode(r) /\ class' # class
    <3>1. class'[s] # class[s]
      BY <1>1 DEF Closed
    <3> QED
      BY <3>1
      DEF Next, SlotStep, vars, memory, FindEpisode, CreateEpisode, EnqueuePredictCalibrate,
          CheckEpisode, ApplyActions, MarkConsolidated, JobFails, Fetch, Ack, Retry, GiveUp,
          IgnoreError, SlotCrashes, ReenqueueOrphan, ReenqueueStalled, Reenqueue
  <2>2. r = s
    BY <1>1, <2>1 DEF EnqueueEpisode, Closed, TInv, TypeOK
  <2>3. PICK k \in JobIds : jobs' = [jobs EXCEPT ![k] = NewJob("creation", s)]
    BY <2>1, <2>2, PushFills DEF EnqueueEpisode
  <2> QED BY <2>3 DEF Live, NewJob, TInv, TypeOK
<1>2. CASE class[s] # "none"
  <2>1. ~ Closed(s)
    BY <1>2, MemoryGrows
  <2>2. PICK j \in JobIds : Live(j) /\ jobs[j].span = s
    BY <2>1 DEF SInv, NoSpanStranded, Closed
  <2>3. CASE SameJob(j)
    BY <2>2, <2>3 DEF SameJob
  <2>4. CASE ~ SameJob(j)
    <3>1. PICK w \in Slots : Owns(w, j) /\ (pc[w] = "ok" \/ s \in givenUp')
      BY <2>2, <2>4, JobsEnd
    <3>2. pc[w] = "ok"
      BY <3>1 DEF Closed
    <3>3. HasJob(s, "predict")
      BY <2>1, <2>2, <3>1, <3>2 DEF SInv, OkIsEarned, Earned, Closed
    <3>4. HasJob(s, "predict")'
      BY <3>3, PredictJobKept
    <3> QED BY <3>4 DEF HasJob
  <2> QED BY <2>3, <2>4
<1> QED BY <1>1, <1>2

LEMMA NextSInv == TInv /\ SInv /\ [Next]_vars => SInv'
BY NextSpansOfJobs, NextSpansOfSlots, NextOkIsEarned, NextNoSpanStranded DEF SInv

(* Whatever crashes, fails or is delivered twice: an informative span that is not
   consolidated has a job, until one of its jobs has used up its attempts. *)
THEOREM SpansKeepAJob == Spec => []NoSpanStranded
<1>1. Init => TInv /\ SInv
  BY InitTInv, InitSInv
<1>2. Spec => [](TInv /\ SInv)
  BY <1>1, NextTInv, NextSInv, PTL DEF Spec
<1> QED BY <1>2, PTL DEF SInv
--------------------------------------------------------------------------------
(***************************************************************************)
(* `done` is reliable.                                                     *)
(***************************************************************************)
LEMMA NextErrorsAreSeen ==
  ASSUME TInv, ErrorsAreSeen, [Next]_vars
  PROVE  ErrorsAreSeen'
<1> SUFFICES ASSUME ~ erred'
             PROVE  givenUp' = {} /\ \A j \in JobIds : jobs'[j].status # "Failed"
  BY DEF ErrorsAreSeen
<1>0. jobs \in [JobIds -> Job]
  BY DEF TInv, TypeOK
<1>1. ASSUME UNCHANGED history, \A j \in JobIds : jobs'[j].status = "Failed" => jobs[j].status = "Failed"
      PROVE  givenUp' = {} /\ \A j \in JobIds : jobs'[j].status # "Failed"
  BY <1>1 DEF ErrorsAreSeen, history
<1>2. ASSUME NEW queue, NEW s, Pushes(queue, s)
      PROVE  \A j \in JobIds : jobs'[j].status = "Failed" => jobs[j].status = "Failed"
  BY <1>0, <1>2 DEF Pushes, NewJob
<1>3. CASE UNCHANGED vars
  BY <1>1, <1>3 DEF vars
<1>4. ASSUME NEW s \in Spans, EnqueueEpisode(s) PROVE UNCHANGED history /\ Pushes("creation", s)
  BY <1>4, PushFills DEF EnqueueEpisode, Pushes
<1>5. ASSUME NEW w \in Slots, Working(w)
      PROVE  UNCHANGED history /\ (jobs' = jobs \/ Pushes("predict", exec[w].span))
  <2>1. UNCHANGED history
    BY <1>5 DEF Working, FindEpisode, CreateEpisode, EnqueuePredictCalibrate, CheckEpisode,
       ApplyActions, MarkConsolidated, JobFails
  <2> QED BY <1>5, <2>1, WorkingAdvances
<1>6. ASSUME NEW w \in Slots, Fetch(w)
      PROVE  /\ UNCHANGED history
             /\ \A j \in JobIds : jobs'[j].status = "Failed" => jobs[j].status = "Failed"
  <2>1. PICK j \in JobIds : Takes(w, j)
    BY <1>6, FetchTakes
  <2> QED BY <1>0, <1>6, <2>1 DEF Takes, Fetch, Job
<1>7. ASSUME NEW w \in Slots, Ending(w)
      PROVE  /\ UNCHANGED history
             /\ \A j \in JobIds : jobs'[j].status = "Failed" => jobs[j].status = "Failed"
  <2>1. Ack(w) \/ IgnoreError(w) \/ SlotCrashes(w)
    BY <1>7 DEF Ending, Retry, GiveUp
  <2>2. UNCHANGED history
    BY <2>1 DEF Ack, IgnoreError, SlotCrashes
  <2>3. jobs' = jobs \/ Frees(exec[w].job)
    BY <2>1 DEF Ack, IgnoreError, SlotCrashes, Frees
  <2> QED BY <1>0, <2>2, <2>3, ConstantTypes DEF Frees
<1>8. ASSUME NEW j \in JobIds, ReenqueueOrphan(j) \/ ReenqueueStalled(j)
      PROVE  /\ UNCHANGED history
             /\ \A k \in JobIds : jobs'[k].status = "Failed" => jobs[k].status = "Failed"
  BY <1>0, <1>8 DEF ReenqueueOrphan, ReenqueueStalled, Reenqueue, Job
<1> QED
  BY <1>1, <1>2, <1>3, <1>4, <1>5, <1>6, <1>7, <1>8 DEF Next, SlotStep, Working, Ending

(* Crashes, stalls and second deliveries do not make `done` lie; only an error
   can. *)
THEOREM DoneMeansConsolidated == Spec => []DoneIsReliable
<1> DEFINE Inv == TInv /\ SInv /\ ErrorsAreSeen
<1>1. Init => Inv
  BY InitTInv, InitSInv, ConstantTypes DEF Init, ErrorsAreSeen
<1>2. Inv /\ [Next]_vars => Inv'
  BY NextTInv, NextSInv, NextErrorsAreSeen
<1>3. Inv => DoneIsReliable
  <2> SUFFICES ASSUME Inv, ~ erred, JobsDone, NEW s \in Spans, class[s] = "informative",
                      episodes[s] # "consolidated"
               PROVE  FALSE
    BY DEF DoneIsReliable
  <2>1. PICK j \in JobIds : Live(j)
    BY DEF SInv, NoSpanStranded, ErrorsAreSeen
  <2>2. jobs[j].status \in {"Pending", "Running", "Failed"}
    BY <2>1 DEF Live, TInv, TypeOK, Job
  <2> QED BY <2>2 DEF JobsDone, Counted, ErrorsAreSeen
<1>4. Spec => []Inv
  BY <1>1, <1>2, PTL DEF Spec
<1> QED BY <1>3, <1>4, PTL
--------------------------------------------------------------------------------
(***************************************************************************)
(* What is settled stays settled.                                          *)
(***************************************************************************)
LEMMA SettledStep ==
  ASSUME TInv, [Next]_vars, NEW s \in Spans, Settled(s)
  PROVE  Settled(s)' /\ applied'[s] = applied[s]
<1>0. /\ pc \in [Slots -> Labels] /\ exec \in [Slots -> Exec] /\ applied \in [Spans -> Nat]
      /\ episodes[s] = "consolidated"
      /\ \A v \in Slots : exec[v].span = s => pc[v] \notin {"apply", "mark"}
  BY DEF TInv, TypeOK, Settled
<1>1. episodes'[s] = "consolidated"
  BY <1>0, MemoryGrows
<1>2. ASSUME NEW w \in Slots, exec'[w].span = s, pc'[w] \in {"apply", "mark"} PROVE FALSE
  <2>1. ~ (pc'[w] = pc[w] /\ exec'[w] = exec[w])
    BY <1>0, <1>2
  <2>2. CASE Working(w)
    <3>1. exec[w].span = s
      BY <1>2, <2>2, WorkingAdvances, AdvanceTypes
    <3>2. CASE FindEpisode(w) \/ CreateEpisode(w) \/ EnqueuePredictCalibrate(w)
               \/ MarkConsolidated(w) \/ JobFails(w)
      BY <1>0, <1>2, <3>2 DEF FindEpisode, CreateEpisode, EnqueuePredictCalibrate,
         MarkConsolidated, JobFails, Goto
    <3>3. CASE CheckEpisode(w)
      BY <1>0, <1>2, <3>1, <3>3 DEF CheckEpisode, NeedsConsolidation, Goto
    <3>4. CASE ApplyActions(w)
      BY <1>0, <3>1, <3>4 DEF ApplyActions
    <3> QED BY <2>2, <3>2, <3>3, <3>4 DEF Working
  <2>3. ASSUME NEW v \in Slots, v # w, Working(v) PROVE FALSE
    BY <1>0, <2>1, <2>3, WorkingAdvances DEF Advances
  <2>4. ASSUME NEW v \in Slots, Fetch(v) PROVE FALSE
    <3>1. PICK j \in JobIds : Takes(v, j)
      BY <2>4, FetchTakes
    <3> QED BY <1>0, <1>2, <2>1, <3>1 DEF Takes
  <2>5. ASSUME NEW v \in Slots, Ending(v) PROVE FALSE
    BY <1>0, <1>2, <2>1, <2>5, EndingStops DEF Stop, Goto
  <2> QED
    BY <2>1, <2>2, <2>3, <2>4, <2>5
    DEF Next, SlotStep, Working, Ending, vars, EnqueueEpisode, ReenqueueOrphan, ReenqueueStalled,
        Reenqueue
<1>3. applied'[s] = applied[s]
  <2>1. ASSUME NEW w \in Slots, ApplyActions(w) PROVE applied'[s] = applied[s]
    BY <1>0, <2>1 DEF ApplyActions
  <2> QED
    BY <2>1
    DEF Next, SlotStep, vars, memory, EnqueueEpisode, FindEpisode, CreateEpisode,
        EnqueuePredictCalibrate, CheckEpisode, MarkConsolidated, JobFails, Fetch, Ack, Retry,
        GiveUp, IgnoreError, SlotCrashes, ReenqueueOrphan, ReenqueueStalled, Reenqueue
<1> QED BY <1>1, <1>2, <1>3 DEF Settled

(* What is delivered after an episode was consolidated does not apply its
   actions again. *)
THEOREM ConsolidatedForGood == Spec => SettledForGood
<1>1. TInv /\ [Next]_vars => [\A s \in Spans : Settled(s) => Settled(s)' /\ applied'[s] = applied[s]]_vars
  BY SettledStep
<1> QED BY <1>1, InitTInv, NextTInv, PTL DEF Spec, SettledForGood
--------------------------------------------------------------------------------
(***************************************************************************)
(* Every fault pays for one more application.                              *)
(***************************************************************************)
LEMMA OneMore ==
  ASSUME NEW S, IsFiniteSet(S), NEW y, NEW T, T \subseteq S \cup {y}
  PROVE  IsFiniteSet(T) /\ Cardinality(T) <= Cardinality(S) + 1
<1>1. Cardinality(S) \in Nat
  BY FS_CardinalityType
<1>2. IsFiniteSet(S \cup {y})
      /\ Cardinality(S \cup {y}) = (IF y \in S THEN Cardinality(S) ELSE Cardinality(S) + 1)
  BY FS_AddElement
<1>3. IsFiniteSet(T) /\ Cardinality(T) <= Cardinality(S \cup {y})
  BY <1>2, FS_Subset
<1>4. Cardinality(T) \in Nat
  BY <1>3, FS_CardinalityType
<1> QED BY <1>1, <1>2, <1>3, <1>4

LEMMA OneLess ==
  ASSUME NEW S, IsFiniteSet(S), NEW x \in S, NEW T, T \subseteq S \ {x}
  PROVE  IsFiniteSet(T) /\ Cardinality(T) + 1 <= Cardinality(S)
<1>1. Cardinality(S) \in Nat
  BY FS_CardinalityType
<1>2. IsFiniteSet(S \ {x}) /\ Cardinality(S \ {x}) = Cardinality(S) - 1
  BY FS_RemoveElement
<1>3. IsFiniteSet(T) /\ Cardinality(T) <= Cardinality(S \ {x})
  BY <1>2, FS_Subset
<1>4. Cardinality(T) \in Nat
  BY <1>3, FS_CardinalityType
<1> QED BY <1>1, <1>2, <1>3, <1>4

LEMMA OneForAnother ==
  ASSUME NEW S, IsFiniteSet(S), NEW x \in S, NEW y, NEW T, T \subseteq (S \ {x}) \cup {y}
  PROVE  IsFiniteSet(T) /\ Cardinality(T) <= Cardinality(S)
<1>1. IsFiniteSet(S \ {x}) /\ Cardinality(S \ {x}) + 1 <= Cardinality(S)
  BY OneLess
<1>2. IsFiniteSet(T) /\ Cardinality(T) <= Cardinality(S \ {x}) + 1
  BY <1>1, OneMore
<1>3. Cardinality(S) \in Nat /\ Cardinality(S \ {x}) \in Nat /\ Cardinality(T) \in Nat
  BY <1>1, <1>2, FS_CardinalityType
<1> QED BY <1>1, <1>2, <1>3

(* A chance less, one exchanged for another, or one more and a fault. *)
Fewer(s) == Chances(s)' \subseteq Chances(s) /\ applied'[s] = applied[s] /\ faults <= faults'
Exchanged(s) ==
  /\ \E x \in Chances(s) : \E y : Chances(s)' \subseteq (Chances(s) \ {x}) \cup {y}
  /\ applied'[s] = applied[s] /\ faults' = faults
PaidFor(s) ==
  /\ \E y : Chances(s)' \subseteq Chances(s) \cup {y}
  /\ applied'[s] = applied[s] /\ faults' = faults + 1
Used(s) ==
  /\ \E x \in Chances(s) : Chances(s)' \subseteq Chances(s) \ {x}
  /\ applied'[s] = applied[s] + 1 /\ faults' = faults

LEMMA StillPaid ==
  ASSUME TInv, TInv', NEW s \in Spans, Paid(s), class[s] # "none", class'[s] = class[s],
         Fewer(s) \/ Exchanged(s) \/ PaidFor(s) \/ Used(s)
  PROVE  Paid(s)'
<1>1. /\ applied[s] \in Nat /\ applied'[s] \in Nat /\ faults \in Nat /\ faults' \in Nat
      /\ IsFiniteSet(Chances(s)) /\ applied[s] + Cardinality(Chances(s)) <= 1 + faults
      /\ Cardinality(Chances(s)) \in Nat
  BY FS_CardinalityType DEF Paid, TInv, TypeOK
<1>2. SUFFICES IsFiniteSet(Chances(s)') /\ applied'[s] + Cardinality(Chances(s)') <= 1 + faults'
  BY DEF Paid
<1>3. IsFiniteSet(Chances(s)') => Cardinality(Chances(s)') \in Nat
  BY FS_CardinalityType
<1>4. CASE Fewer(s)
  <2>1. IsFiniteSet(Chances(s)') /\ Cardinality(Chances(s)') <= Cardinality(Chances(s))
    BY <1>1, <1>4, FS_Subset DEF Fewer
  <2> QED BY <1>1, <1>3, <1>4, <2>1 DEF Fewer
<1>5. CASE Exchanged(s)
  <2>1. IsFiniteSet(Chances(s)') /\ Cardinality(Chances(s)') <= Cardinality(Chances(s))
    BY <1>1, <1>5, OneForAnother DEF Exchanged
  <2> QED BY <1>1, <1>3, <1>5, <2>1 DEF Exchanged
<1>6. CASE PaidFor(s)
  <2>1. IsFiniteSet(Chances(s)') /\ Cardinality(Chances(s)') <= Cardinality(Chances(s)) + 1
    BY <1>1, <1>6, OneMore DEF PaidFor
  <2> QED BY <1>1, <1>3, <1>6, <2>1 DEF PaidFor
<1>7. CASE Used(s)
  <2>1. IsFiniteSet(Chances(s)') /\ Cardinality(Chances(s)') + 1 <= Cardinality(Chances(s))
    BY <1>1, <1>7, OneLess DEF Used
  <2> QED BY <1>1, <1>3, <1>7, <2>1 DEF Used
<1> QED BY <1>4, <1>5, <1>6, <1>7

LEMMA NoneBefore ==
  ASSUME TInv, SInv, NEW s \in Spans, class[s] = "none"
  PROVE  Chances(s) = {}
<1>1. ASSUME NEW j \in JobIds PROVE ~ JobMayApply(j, s)
  BY DEF JobMayApply, SInv, SpansOfJobs
<1>2. ASSUME NEW w \in Slots PROVE ~ SlotMayApply(w, s)
  BY DEF SlotMayApply, Creating, SInv, SpansOfSlots
<1> QED BY <1>1, <1>2 DEF Chances

LEMMA OneOwner ==
  ASSUME TInv, NEW j \in JobIds, NEW v \in Slots, NEW w \in Slots, Owns(v, j), Owns(w, j)
  PROVE  v = w
BY DEF Owns

(* The chances of a span after a push: those before and the new job, at most. *)
LEMMA PushedChances ==
  ASSUME TInv, NEW queue \in Queues, NEW r \in Spans, Pushes(queue, r), UNCHANGED <<pc, exec>>
  PROVE  \E k \in JobIds : \A s \in Spans :
           Chances(s)' \subseteq Chances(s) \cup (IF s = r THEN {<<"job", k>>} ELSE {})
<1>1. PICK k \in JobIds : jobs[k] = FreeJob /\ jobs' = [jobs EXCEPT ![k] = NewJob(queue, r)]
  BY DEF Pushes
<1>2. /\ jobs \in [JobIds -> Job]
      /\ jobs'[k].span = r /\ jobs'[k].owner = NoSlot /\ jobs[k].owner = NoSlot
      /\ \A j \in JobIds \ {k} : jobs'[j] = jobs[j]
  BY <1>1, ConstantTypes DEF TInv, TypeOK, NewJob
<1>3. \A w \in Slots, j \in JobIds : Owns(w, j)' <=> Owns(w, j)
  BY <1>2, ConstantTypes DEF Owns
<1>4. \A j \in JobIds : Spent(j)' <=> Spent(j)
  BY <1>3 DEF Spent
<1>5. ASSUME NEW s \in Spans, NEW j \in JobIds, JobMayApply(j, s)'
      PROVE  JobMayApply(j, s) \/ (j = k /\ s = r)
  BY <1>2, <1>4, <1>5 DEF JobMayApply, Live
<1>6. ASSUME NEW s \in Spans, NEW w \in Slots, SlotMayApply(w, s)'
      PROVE  SlotMayApply(w, s)
  <2>1. pc[w] # "idle" /\ exec[w].job \in JobIds
    BY <1>6, OwnedJob DEF SlotMayApply, Creating
  <2> QED BY <1>3, <1>6, <2>1 DEF SlotMayApply
<1> QED BY <1>5, <1>6 DEF Chances

Applying == Creating \cup {"check", "apply"}

(* Where the chance of a slot lies: with its job, or with itself once it has lost
   the job. *)
Carrier(w) == IF Owns(w, exec[w].job) THEN <<"job", exec[w].job>> ELSE <<"slot", w>>

LEMMA CarrierCounts ==
  ASSUME TInv, NEW w \in Slots, pc[w] \in Applying
  PROVE  Carrier(w) \in Chances(exec[w].span)
<1>1. exec[w].job \in JobIds /\ pc[w] \notin {"mark", "ok"}
  BY OwnedJob DEF Applying, Creating
<1>2. CASE Owns(w, exec[w].job)
  <2>1. Live(exec[w].job) /\ jobs[exec[w].job].span = exec[w].span
    BY <1>1, <1>2 DEF TInv, OwnersAgree, Live
  <2>2. ~ Spent(exec[w].job)
    BY <1>1, <1>2, OneOwner DEF Spent
  <2> QED BY <1>1, <1>2, <2>1, <2>2 DEF Carrier, Chances, JobMayApply
<1>3. CASE ~ Owns(w, exec[w].job)
  BY <1>3 DEF Carrier, Chances, SlotMayApply, Applying
<1> QED BY <1>2, <1>3

(* A working slot changes nothing but its own chance, and may push a job. *)
LEMMA WorkingChances ==
  ASSUME TInv, NEW w \in Slots, Working(w), NEW s \in Spans
  PROVE  \E k \in JobIds :
           /\ Pushes("predict", exec[w].span) \/ jobs' = jobs
           /\ Chances(s)' \subseteq Chances(s)
                \cup (IF jobs' # jobs /\ s = exec[w].span THEN {<<"job", k>>} ELSE {})
                \cup (IF pc[w] = "mark" /\ pc'[w] = "err" THEN {<<"job", exec[w].job>>} ELSE {})
           /\ pc[w] \in Applying /\ pc'[w] \in {"mark", "ok"} /\ Carrier(w) \in Chances(s)' =>
                Carrier(w) = <<"job", k>> /\ jobs[k] = FreeJob
<1>0. PICK label \in Labels \ {"idle"} : Advances(w, label)
  BY WorkingAdvances
<1>1. /\ pc \in [Slots -> Labels] /\ exec[w].span \in Spans /\ exec[w].job \in JobIds
      /\ pc[w] # "idle" /\ pc'[w] = label
      /\ \A v \in Slots \ {w} : pc'[v] = pc[v]
      /\ \A v \in Slots : exec'[v].job = exec[v].job /\ exec'[v].span = exec[v].span
  BY <1>0, AdvanceTypes, OwnedJob DEF Advances, TInv, TypeOK
<1>2. /\ jobs' = jobs \/ Pushes("predict", exec[w].span)
      /\ pc[w] \in Applying \/ (pc[w] = "mark" /\ label \in {"ok", "err"})
  BY <1>0, <1>1, WorkingAdvances
  DEF Working, FindEpisode, CreateEpisode, EnqueuePredictCalibrate, CheckEpisode, ApplyActions,
      MarkConsolidated, JobFails, Goto, Applying, Creating, Labels
<1>3. PICK k \in JobIds :
        /\ \A j \in JobIds : j = k \/ jobs'[j] = jobs[j]
        /\ jobs' = jobs \/ /\ jobs[k] = FreeJob /\ jobs'[k].span = exec[w].span
                           /\ jobs'[k].owner = NoSlot
  <2>1. CASE jobs' = jobs
    BY <1>1, <2>1
  <2>2. CASE Pushes("predict", exec[w].span)
    BY <2>2 DEF Pushes, NewJob, TInv, TypeOK
  <2> QED BY <1>2, <2>1, <2>2
<1>4. \A v \in Slots, j \in JobIds : Owns(v, j)' <=> Owns(v, j)
  BY <1>1, <1>3, ConstantTypes DEF Owns
<1>5. ASSUME NEW v \in Slots, SlotMayApply(v, s)'
      PROVE  SlotMayApply(v, s) /\ (v = w => label \notin {"mark", "ok"})
  <2>1. pc[v] # "idle" /\ exec[v].job \in JobIds
    BY <1>1, <1>5, OwnedJob DEF SlotMayApply, Creating
  <2>2. ~ Owns(v, exec[v].job) /\ exec[v].span = s
    BY <1>1, <1>4, <1>5, <2>1 DEF SlotMayApply
  <2>3. CASE v = w
    BY <1>1, <1>2, <1>5, <2>2, <2>3 DEF SlotMayApply, Applying, Creating
  <2>4. CASE v # w
    BY <1>1, <1>5, <2>2, <2>4 DEF SlotMayApply
  <2> QED BY <2>3, <2>4
<1>6. ASSUME NEW j \in JobIds, ~ Owns(w, j) PROVE Spent(j)' <=> Spent(j)
  BY <1>1, <1>4, <1>6 DEF Spent
<1>7. ASSUME NEW j \in JobIds, JobMayApply(j, s)'
      PROVE  \/ jobs' # jobs /\ s = exec[w].span /\ j = k
             \/ pc[w] = "mark" /\ label = "err" /\ j = exec[w].job
             \/ JobMayApply(j, s) /\ (Owns(w, j) => label \notin {"mark", "ok"})
  <2>1. CASE jobs' # jobs /\ j = k
    BY <1>3, <1>7, <2>1 DEF JobMayApply
  <2>2. CASE (jobs' = jobs \/ j # k) /\ ~ Owns(w, j)
    BY <1>3, <1>6, <1>7, <2>2 DEF JobMayApply, Live
  <2>3. CASE (jobs' = jobs \/ j # k) /\ Owns(w, j)
    <3>1. jobs'[j] = jobs[j] /\ j = exec[w].job
      BY <1>1, <1>3, <2>3, OwnedJob
    <3>2. label \notin {"mark", "ok"}
      BY <1>1, <1>4, <1>7, <2>3 DEF JobMayApply, Spent
    <3>3. pc[w] \in Applying => ~ Spent(j)
      BY <2>3, OneOwner DEF Spent, Applying, Creating
    <3> QED BY <1>2, <1>7, <2>3, <3>1, <3>2, <3>3 DEF JobMayApply, Live
  <2> QED BY <2>1, <2>2, <2>3
<1>8. Chances(s)' \subseteq Chances(s)
        \cup (IF jobs' # jobs /\ s = exec[w].span THEN {<<"job", k>>} ELSE {})
        \cup (IF pc[w] = "mark" /\ pc'[w] = "err" THEN {<<"job", exec[w].job>>} ELSE {})
  BY <1>1, <1>5, <1>7 DEF Chances
<1>9. ASSUME pc[w] \in Applying, pc'[w] \in {"mark", "ok"}, Carrier(w) \in Chances(s)'
      PROVE  Carrier(w) = <<"job", k>> /\ jobs[k] = FreeJob
  <2>1. CASE Owns(w, exec[w].job)
    <3>1. JobMayApply(exec[w].job, s)'
      BY <1>1, <1>9, <2>1 DEF Carrier, Chances
    <3>2. jobs' # jobs /\ exec[w].job = k
      BY <1>1, <1>7, <1>9, <2>1, <3>1 DEF Applying, Creating
    <3> QED BY <1>3, <2>1, <3>2 DEF Carrier
  <2>2. CASE ~ Owns(w, exec[w].job)
    <3>1. SlotMayApply(w, s)'
      BY <1>9, <2>2 DEF Carrier, Chances
    <3> QED BY <1>1, <1>5, <1>9, <3>1
  <2> QED BY <2>1, <2>2
<1> QED BY <1>2, <1>3, <1>8, <1>9

LEMMA WorkingPays ==
  ASSUME TInv, NEW w \in Slots, Working(w), NEW s \in Spans
  PROVE  Fewer(s) \/ Exchanged(s) \/ PaidFor(s) \/ Used(s)
<1>1. PICK k \in JobIds :
        /\ Chances(s)' \subseteq Chances(s)
             \cup (IF jobs' # jobs /\ s = exec[w].span THEN {<<"job", k>>} ELSE {})
             \cup (IF pc[w] = "mark" /\ pc'[w] = "err" THEN {<<"job", exec[w].job>>} ELSE {})
        /\ pc[w] \in Applying /\ pc'[w] \in {"mark", "ok"} /\ Carrier(w) \in Chances(s)' =>
             Carrier(w) = <<"job", k>> /\ jobs[k] = FreeJob
  BY WorkingChances
<1>2. pc[w] \in Applying => Carrier(w) \in Chances(exec[w].span)
  BY CarrierCounts
<1>3. pc[w] \in Applying /\ pc'[w] \in {"mark", "ok"} => Carrier(w) \notin Chances(s)'
  BY <1>1, <1>2, ConstantTypes DEF Chances, JobMayApply, Live
<1>4. /\ pc \in [Slots -> Labels] /\ applied \in [Spans -> Nat] /\ faults \in Nat
      /\ exec[w].span \in Spans
  BY WorkingAdvances DEF TInv, TypeOK
<1>5. CASE FindEpisode(w) \/ CreateEpisode(w) \/ CheckEpisode(w) \/ MarkConsolidated(w)
  <2>1. jobs' = jobs /\ applied' = applied /\ faults' = faults /\ ~ (pc[w] = "mark" /\ pc'[w] = "err")
    BY <1>4, <1>5 DEF FindEpisode, CreateEpisode, CheckEpisode, MarkConsolidated, Goto, memory
  <2>2. Chances(s)' \subseteq Chances(s)
    BY <1>1, <2>1
  <2> QED BY <1>4, <2>1, <2>2 DEF Fewer
<1>6. CASE EnqueuePredictCalibrate(w)
  <2>1. /\ pc[w] = "push" /\ pc'[w] = "ok" /\ applied' = applied /\ faults' = faults
    BY <1>4, <1>6 DEF EnqueuePredictCalibrate, Goto, memory
  <2>2. CASE jobs' = jobs \/ s # exec[w].span
    <3>1. Chances(s)' \subseteq Chances(s)
      BY <1>1, <2>1, <2>2
    <3> QED BY <1>4, <2>1, <3>1 DEF Fewer
  <2>3. CASE s = exec[w].span
    <3>1. Carrier(w) \in Chances(s) /\ Carrier(w) \notin Chances(s)'
      BY <1>2, <1>3, <2>1, <2>3 DEF Applying, Creating
    <3>2. Chances(s)' \subseteq (Chances(s) \ {Carrier(w)}) \cup {<<"job", k>>}
      BY <1>1, <2>1, <3>1
    <3> QED BY <2>1, <3>1, <3>2 DEF Exchanged
  <2> QED BY <2>2, <2>3
<1>7. CASE ApplyActions(w)
  <2>1. /\ pc[w] = "apply" /\ pc'[w] = "mark" /\ jobs' = jobs /\ faults' = faults
        /\ applied'[s] = IF s = exec[w].span THEN applied[s] + 1 ELSE applied[s]
    BY <1>4, <1>7 DEF ApplyActions, Goto
  <2>2. Chances(s)' \subseteq Chances(s)
    BY <1>1, <2>1
  <2>3. CASE s = exec[w].span
    <3>1. Carrier(w) \in Chances(s) /\ Carrier(w) \notin Chances(s)'
      BY <1>2, <1>3, <2>1, <2>3 DEF Applying
    <3> QED BY <2>1, <2>2, <2>3, <3>1 DEF Used
  <2>4. CASE s # exec[w].span
    BY <1>4, <2>1, <2>2, <2>4 DEF Fewer
  <2> QED BY <2>3, <2>4
<1>8. CASE JobFails(w)
  <2>1. jobs' = jobs /\ applied' = applied /\ faults' = faults + 1
    BY <1>8 DEF JobFails, Fault, memory
  <2>2. Chances(s)' \subseteq Chances(s) \cup {<<"job", exec[w].job>>}
    BY <1>1, <2>1
  <2> QED BY <2>1, <2>2 DEF PaidFor
<1> QED BY <1>5, <1>6, <1>7, <1>8 DEF Working

LEMMA TakeIsFree ==
  ASSUME TInv, NEW w \in Slots, Fetch(w), NEW s \in Spans
  PROVE  Fewer(s)
<1>1. PICK j \in JobIds : Takes(w, j)
  BY FetchTakes
<1>2. /\ jobs \in [JobIds -> Job] /\ pc \in [Slots -> Labels] /\ exec \in [Slots -> Exec]
      /\ exec[w] = IdleExec /\ faults \in Nat
  BY <1>1 DEF Takes, TInv, TypeOK, SlotsHaveJobs
<1>3. /\ Live(j) /\ jobs'[j].span = jobs[j].span /\ jobs'[j].owner = w
      /\ \A k \in JobIds \ {j} : jobs'[k] = jobs[k]
      /\ \A v \in Slots \ {w} : exec'[v] = exec[v] /\ pc'[v] = pc[v]
      /\ exec'[w].job = j
  BY <1>1, <1>2 DEF Takes, Live, Job
<1>4. \A v \in Slots : ~ Owns(v, j)
  BY <1>1 DEF Takes, TInv, OwnersAgree
<1>5. ASSUME NEW v \in Slots \ {w}, NEW k \in JobIds PROVE Owns(v, k)' <=> Owns(v, k)
  BY <1>3, <1>4, <1>5 DEF Owns
<1>6. ASSUME NEW v \in Slots, SlotMayApply(v, s)' PROVE SlotMayApply(v, s)
  <2>1. v # w
    BY <1>3, <1>6 DEF SlotMayApply, Owns
  <2>2. pc[v] # "idle" /\ exec[v].job \in JobIds
    BY <1>3, <1>6, <2>1, OwnedJob DEF SlotMayApply, Creating
  <2> QED BY <1>3, <1>5, <1>6, <2>1, <2>2 DEF SlotMayApply
<1>7. ASSUME NEW k \in JobIds, JobMayApply(k, s)' PROVE JobMayApply(k, s)
  <2>1. CASE k = j
    BY <1>3, <1>4, <1>7, <2>1 DEF JobMayApply, Spent
  <2>2. CASE k # j
    <3>1. ~ Owns(w, k)
      BY <1>2, ConstantTypes DEF Owns
    <3>2. Spent(k) => Spent(k)'
      BY <1>3, <1>5, <3>1 DEF Spent
    <3> QED BY <1>3, <1>7, <2>2, <3>2 DEF JobMayApply, Live
  <2> QED BY <2>1, <2>2
<1>8. Chances(s)' \subseteq Chances(s)
  BY <1>6, <1>7 DEF Chances
<1> QED BY <1>2, <1>8 DEF Fewer, Fetch, memory

LEMMA EndingPays ==
  ASSUME TInv, NEW w \in Slots, Ending(w), NEW s \in Spans
  PROVE  Fewer(s) \/ PaidFor(s)
<1>1. /\ Stop(w) /\ pc[w] # "idle" /\ exec[w].job \in JobIds
      /\ OwnsJob(w) <=> Owns(w, exec[w].job)
      /\ pc \in [Slots -> Labels] /\ exec \in [Slots -> Exec] /\ faults \in Nat
  BY EndingStops, OwnedJob DEF TInv, TypeOK
<1>2. /\ pc'[w] = "idle" /\ exec'[w] = IdleExec
      /\ \A v \in Slots \ {w} : pc'[v] = pc[v] /\ exec'[v] = exec[v]
  BY <1>1 DEF Stop, Goto
<1>3. \/ jobs' = jobs
      \/ /\ Owns(w, exec[w].job) /\ Live(exec[w].job) /\ jobs'[exec[w].job].owner = NoSlot
         /\ \A k \in JobIds \ {exec[w].job} : jobs'[k] = jobs[k]
  BY <1>1, EndingStops, OwnedJob, RowTypes
<1>4. ASSUME NEW v \in Slots \ {w}, NEW k \in JobIds PROVE Owns(v, k)' <=> Owns(v, k)
  BY <1>2, <1>3, ConstantTypes DEF Owns
<1>5. ASSUME NEW v \in Slots, SlotMayApply(v, s)' PROVE SlotMayApply(v, s)
  <2>1. v # w
    BY <1>2, <1>5 DEF SlotMayApply, Creating
  <2>2. pc[v] # "idle" /\ exec[v].job \in JobIds
    BY <1>2, <1>5, <2>1, OwnedJob DEF SlotMayApply, Creating
  <2> QED BY <1>2, <1>4, <1>5, <2>1, <2>2 DEF SlotMayApply
<1>6. ASSUME NEW k \in JobIds, JobMayApply(k, s)'
      PROVE  JobMayApply(k, s) \/ (SlotCrashes(w) /\ k = exec[w].job)
  <2>1. CASE ~ Owns(w, k)
    <3>1. jobs'[k] = jobs[k]
      BY <1>3, <2>1
    <3>2. Spent(k) => Spent(k)'
      BY <1>2, <1>4, <2>1 DEF Spent
    <3> QED BY <1>6, <3>1, <3>2 DEF JobMayApply, Live
  <2>2. CASE Owns(w, k)
    <3>1. k = exec[w].job /\ OwnsJob(w) /\ Live(k)
      BY <1>1, <2>2, OwnedJob
    <3>2. CASE Frees(k)
      BY <1>1, <1>6, <3>1, <3>2, ConstantTypes DEF Frees, JobMayApply, Live, TInv, TypeOK
    <3>3. CASE Retry(w)
      <4>1. ~ Spent(k)
        BY <2>2, <3>3, OneOwner DEF Spent, Retry
      <4>2. jobs'[k].span = jobs[k].span
        BY <3>1, <3>3 DEF Retry, TInv, TypeOK, Job
      <4> QED BY <1>6, <3>1, <4>1, <4>2 DEF JobMayApply
    <3>4. CASE Ack(w) \/ GiveUp(w)
      BY <3>1, <3>2, <3>4 DEF Ack, GiveUp, Frees
    <3> QED BY <3>1, <3>3, <3>4 DEF Ending, IgnoreError
  <2> QED BY <2>1, <2>2
<1>7. applied' = applied
  BY DEF Ending, Ack, Retry, GiveUp, IgnoreError, SlotCrashes, memory
<1>8. CASE SlotCrashes(w)
  <2>1. Chances(s)' \subseteq Chances(s) \cup {<<"job", exec[w].job>>}
    BY <1>5, <1>6 DEF Chances
  <2>2. faults' = faults + 1
    BY <1>8 DEF SlotCrashes, Fault
  <2> QED BY <1>7, <2>1, <2>2 DEF PaidFor
<1>9. CASE ~ SlotCrashes(w)
  <2>1. Chances(s)' \subseteq Chances(s)
    BY <1>5, <1>6, <1>9 DEF Chances
  <2>2. faults' = faults
    BY <1>9 DEF Ending, Ack, Retry, GiveUp, IgnoreError
  <2> QED BY <1>1, <1>7, <2>1, <2>2 DEF Fewer
<1> QED BY <1>8, <1>9

LEMMA ReenqueuePays ==
  ASSUME TInv, NEW j \in JobIds, ReenqueueOrphan(j) \/ ReenqueueStalled(j), NEW s \in Spans
  PROVE  Fewer(s) \/ PaidFor(s)
<1>1. Reenqueue(j) /\ UNCHANGED <<pc, exec, applied>> /\ faults \in Nat
  BY DEF ReenqueueOrphan, ReenqueueStalled, Reenqueue, memory, TInv, TypeOK
<1>2. /\ Live(j) /\ jobs'[j].owner = NoSlot /\ jobs'[j].span = jobs[j].span
      /\ \A k \in JobIds \ {j} : jobs'[k] = jobs[k]
  BY <1>1 DEF Reenqueue, Live, TInv, TypeOK, Job
<1>3. ASSUME NEW v \in Slots, NEW k \in JobIds, ~ (Owns(v, k) /\ k = j)
      PROVE  Owns(v, k)' <=> Owns(v, k)
  BY <1>1, <1>2, <1>3, ConstantTypes DEF Owns
<1>4. ASSUME NEW v \in Slots, SlotMayApply(v, s)'
      PROVE  SlotMayApply(v, s) \/ (Owns(v, j) /\ pc[v] \in Applying)
  <2>1. pc[v] \in Applying /\ exec[v].job \in JobIds
    BY <1>1, <1>4, OwnedJob DEF SlotMayApply, Applying, Creating
  <2> QED BY <1>1, <1>3, <1>4, <2>1 DEF SlotMayApply, Applying
<1>5. ASSUME NEW k \in JobIds, JobMayApply(k, s)'
      PROVE  JobMayApply(k, s) \/ (k = j /\ Spent(j))
  <2>1. CASE k = j
    BY <1>2, <1>5, <2>1 DEF JobMayApply
  <2>2. CASE k # j
    <3>1. Spent(k) => Spent(k)'
      BY <1>1, <1>3, <2>2 DEF Spent
    <3> QED BY <1>2, <1>5, <2>2, <3>1 DEF JobMayApply, Live
  <2> QED BY <2>1, <2>2
<1>6. CASE ReenqueueOrphan(j)
  <2>1. \A v \in Slots : ~ Owns(v, j)
    BY <1>6 DEF ReenqueueOrphan, Executing, Owns
  <2>2. Chances(s)' \subseteq Chances(s)
    BY <1>4, <1>5, <2>1 DEF Chances, Spent
  <2> QED BY <1>1, <1>6, <2>2 DEF ReenqueueOrphan, Fewer
<1>7. CASE ReenqueueStalled(j)
  <2>1. PICK w \in Slots : Owns(w, j)
    BY <1>7 DEF ReenqueueStalled, Executing, Owns
  <2>2. \A v \in Slots : Owns(v, j) => v = w
    BY <2>1, OneOwner
  <2>3. \E y : Chances(s)' \subseteq Chances(s) \cup {y}
    <3>1. CASE pc[w] \in Applying
      <4>1. ~ Spent(j)
        BY <2>2, <3>1 DEF Spent, Applying, Creating
      <4>2. Chances(s)' \subseteq Chances(s) \cup {<<"slot", w>>}
        BY <1>4, <1>5, <2>2, <4>1 DEF Chances
      <4> QED BY <4>2
    <3>2. CASE pc[w] \notin Applying
      <4>1. Chances(s)' \subseteq Chances(s) \cup {<<"job", j>>}
        BY <1>4, <1>5, <2>2, <3>2 DEF Chances
      <4> QED BY <4>1
    <3> QED BY <3>1, <3>2
  <2>4. faults' = faults + 1
    BY <1>7 DEF ReenqueueStalled, Fault
  <2> QED BY <1>1, <2>3, <2>4 DEF PaidFor
<1> QED BY <1>6, <1>7

LEMMA NextPaid ==
  ASSUME TInv, SInv, TInv', [Next]_vars, NEW s \in Spans, Paid(s)
  PROVE  Paid(s)'
<1>1. ASSUME NEW r \in Spans, EnqueueEpisode(r) PROVE Paid(s)'
  <2>1. /\ Pushes("creation", r) /\ UNCHANGED <<pc, exec, applied, faults>>
        /\ class[r] = "none" /\ class'[r] # "none"
        /\ \A q \in Spans \ {r} : class'[q] = class[q]
    BY <1>1, PushFills DEF EnqueueEpisode, Pushes, TInv, TypeOK
  <2>2. PICK k \in JobIds :
          Chances(s)' \subseteq Chances(s) \cup (IF s = r THEN {<<"job", k>>} ELSE {})
    BY <2>1, PushedChances DEF Queues
  <2>3. CASE s = r
    <3>1. Chances(s)' \subseteq {} \cup {<<"job", k>>}
      BY <2>1, <2>2, <2>3, NoneBefore
    <3>2. IsFiniteSet(Chances(s)') /\ Cardinality(Chances(s)') <= 0 + 1
      BY <3>1, OneMore, FS_EmptySet
    <3>3. applied'[s] = 0 /\ Cardinality(Chances(s)') \in Nat /\ faults' \in Nat
      BY <2>1, <2>3, <3>2, FS_CardinalityType DEF Paid, TInv, TypeOK
    <3> QED BY <2>1, <2>3, <3>2, <3>3 DEF Paid
  <2>4. CASE s # r /\ class[s] # "none"
    <3>1. Fewer(s)
      BY <2>1, <2>2, <2>4 DEF Fewer, TInv, TypeOK
    <3> QED BY <2>1, <2>4, <3>1, StillPaid
  <2>5. CASE s # r /\ class[s] = "none"
    BY <2>1, <2>5 DEF Paid
  <2> QED BY <2>3, <2>4, <2>5
<1>2. ASSUME class[s] # "none", class' = class, Fewer(s) \/ Exchanged(s) \/ PaidFor(s) \/ Used(s)
      PROVE  Paid(s)'
  BY <1>2, StillPaid
<1>3. ASSUME class[s] = "none", class' = class, applied'[s] = applied[s] PROVE Paid(s)'
  BY <1>3 DEF Paid
<1>4. CASE UNCHANGED vars
  <2>1. Chances(s)' = Chances(s)
    BY <1>4 DEF vars, Chances, JobMayApply, SlotMayApply, Spent, Owns, Live
  <2> QED BY <1>4, <2>1 DEF vars, memory, Paid
<1>5. ASSUME NEW w \in Slots, Working(w) PROVE Paid(s)'
  <2>1. class' = class
    BY <1>5 DEF Working, FindEpisode, CreateEpisode, EnqueuePredictCalibrate, CheckEpisode,
       ApplyActions, MarkConsolidated, JobFails, memory
  <2>2. class[exec[w].span] # "none"
    BY <1>5, WorkingAdvances DEF Advances, SInv, SpansOfSlots
  <2>3. class[s] = "none" => applied'[s] = applied[s]
    BY <1>5, <2>2 DEF Working, FindEpisode, CreateEpisode, EnqueuePredictCalibrate, CheckEpisode,
       ApplyActions, MarkConsolidated, JobFails, memory, TInv, TypeOK
  <2> QED BY <1>2, <1>3, <1>5, <2>1, <2>3, WorkingPays
<1>6. ASSUME NEW w \in Slots, Fetch(w) PROVE Paid(s)'
  <2>1. class' = class /\ applied' = applied
    BY <1>6 DEF Fetch, memory
  <2> QED BY <1>2, <1>3, <1>6, <2>1, TakeIsFree
<1>7. ASSUME NEW w \in Slots, Ending(w) PROVE Paid(s)'
  <2>1. class' = class /\ applied' = applied
    BY <1>7 DEF Ending, Ack, Retry, GiveUp, IgnoreError, SlotCrashes, memory
  <2> QED BY <1>2, <1>3, <1>7, <2>1, EndingPays
<1>8. ASSUME NEW j \in JobIds, ReenqueueOrphan(j) \/ ReenqueueStalled(j) PROVE Paid(s)'
  <2>1. class' = class /\ applied' = applied
    BY <1>8 DEF ReenqueueOrphan, ReenqueueStalled, Reenqueue, memory
  <2> QED BY <1>2, <1>3, <1>8, <2>1, ReenqueuePays
<1> QED BY <1>1, <1>4, <1>5, <1>6, <1>7, <1>8 DEF Next, SlotStep, Working, Ending

(* However repeated jobs overlap, an episode's actions are applied once, and once
   more per crash, error or stall at most. *)
THEOREM FaultsBoundApplications == Spec => []ApplicationsBounded
<1> DEFINE Inv == TInv /\ SInv /\ ChancesPaid
<1>1. Init => Inv
  BY InitTInv, InitSInv DEF Init, ChancesPaid, Paid
<1>2. Inv /\ [Next]_vars => Inv'
  BY NextTInv, NextSInv, NextPaid DEF ChancesPaid
<1>3. Inv => ApplicationsBounded
  <2> SUFFICES ASSUME Inv, NEW s \in Spans PROVE applied[s] <= 1 + faults
    BY DEF ApplicationsBounded
  <2>1. applied[s] \in Nat /\ faults \in Nat
    BY DEF TInv, TypeOK
  <2>2. IsFiniteSet(Chances(s)) => Cardinality(Chances(s)) \in Nat
    BY FS_CardinalityType
  <2> QED BY <2>1, <2>2 DEF ChancesPaid, Paid
<1>4. Spec => []Inv
  BY <1>1, <1>2, PTL DEF Spec
<1> QED BY <1>3, <1>4, PTL
================================================================================
