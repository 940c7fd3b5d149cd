----------------------------- MODULE MemoryReview -----------------------------
(***************************************************************************)
(* The review of retrieved memories: a retrieval leaves a pending review,  *)
(* the segmentation worker takes what is pending into a MemoryReviewJob,   *)
(* and the job updates the FSRS state of each memory it reviews.           *)
(*                                                                         *)
(* The FSRS state of a row is a function of the reviews it was computed    *)
(* from, so a row is the sequence of their times; the first is the         *)
(* creation of the memory and the last is last_reviewed_at.  The ratings   *)
(* themselves are data.  One conversation is modelled: pending reviews of  *)
(* others are neither read nor locked.  The review queue delivers at least *)
(* once and runs jobs at the same time.                                    *)
(***************************************************************************)
EXTENDS Naturals, Sequences, FiniteSets

CONSTANTS
  Memories,      \* episodic memories
  Items,         \* rows of pending_review_queue
  Found,         \* the memories that the retrieval behind an item found
  Takers,        \* segmentation workers that finalize spans, numbered
  Slots,         \* review jobs executed at the same time
  JobIds,        \* rows of the job table in use at the same time (bound)
  NoSlot, NoJob,
  Day,           \* a day, in ticks of the clock
  MaxTime,       \* the last tick (bound)
  MaxAttempts,   \* max_attempts of a job
  MaxFaults      \* crashes, errors and stalls (bound)

ASSUME MemoryReviewAssumption ==
  /\ NoSlot \notin Slots
  /\ Found \in [Items -> (SUBSET Memories) \ {{}}]
  /\ Items \subseteq Nat /\ JobIds \subseteq Nat /\ Slots \subseteq Nat /\ Takers \subseteq Nat
  /\ NoJob \notin JobIds
  /\ Day \in Nat \ {0}
  /\ MaxTime \in Nat /\ MaxAttempts \in Nat \ {0} /\ MaxFaults \in Nat

VARIABLES
  now,           \* the clock
  rows,          \* episodic_memory: the reviews the FSRS state stands for
  queue,         \* pending_review_queue, by item
  taker,         \* what a taker does next, and the items it holds
  jobs,          \* the job table
  pc, exec,      \* what a slot does next, and what it remembers of its job
  overlapped,    \* memories loaded by two slots at the same time (history)
  settled, lost, \* items of jobs that ended, and of none (history)
  faults         \* faults so far

intake == <<queue, taker>>
worker == <<pc, exec>>
history == <<overlapped, settled, lost>>
vars == <<now, rows, intake, jobs, worker, history, faults>>

FreeJob == [status |-> "free", items |-> {}, memories |-> {}, reviewedAt |-> 0,
            owner |-> NoSlot, attempts |-> 0]
NotLoaded == <<>>
IdleExec == [job |-> NoJob, reviewedAt |-> 0, toLoad |-> {},
             model |-> [m \in Memories |-> NotLoaded], omitted |-> {}]

Time == 0 .. MaxTime
Chain == Seq(Time)
Item == [status : {"none", "pending", "consumed"}, memories : SUBSET Memories]
Taker == [step : {"idle", "locked", "push"}, items : SUBSET Items]
Job == [status : {"free", "Pending", "Running"}, items : SUBSET Items,
        memories : SUBSET Memories, reviewedAt : Time, owner : Slots \cup {NoSlot},
        attempts : Nat]
Exec == [job : JobIds \cup {NoJob}, reviewedAt : Time, toLoad : SUBSET Memories,
         model : [Memories -> Chain], omitted : SUBSET Memories]

TypeOK ==
  /\ now \in Time
  /\ rows \in [Memories -> Chain \ {NotLoaded}]
  /\ queue \in [Items -> Item]
  /\ taker \in [Takers -> Taker]
  /\ jobs \in [JobIds -> Job]
  /\ pc \in [Slots -> {"idle", "load", "update", "ok", "err"}]
  /\ exec \in [Slots -> Exec]
  /\ overlapped \in SUBSET Memories
  /\ settled \in SUBSET Items /\ lost \in SUBSET Items
  /\ faults \in Nat

Init ==
  /\ now = 0
  /\ rows = [m \in Memories |-> <<0>>]
  /\ queue = [i \in Items |-> [status |-> "none", memories |-> {}]]
  /\ taker = [t \in Takers |-> [step |-> "idle", items |-> {}]]
  /\ jobs = [j \in JobIds |-> FreeJob]
  /\ pc = [w \in Slots |-> "idle"]
  /\ exec = [w \in Slots |-> IdleExec]
  /\ overlapped = {} /\ settled = {} /\ lost = {}
  /\ faults = 0

LastOf(chain) == chain[Len(chain)]
Goto(w, label) == pc' = [pc EXCEPT ![w] = label]
Fault == faults < MaxFaults /\ faults' = faults + 1

Tick ==
  /\ now < MaxTime
  /\ now' = now + 1
  /\ UNCHANGED <<rows, intake, jobs, worker, history, faults>>
--------------------------------------------------------------------------------
(***************************************************************************)
(* The pending reviews.                                                    *)
(***************************************************************************)
(* fetch_memory: a retrieval that found episodes leaves a pending review. *)
AddPendingReview(i) ==
  /\ queue[i].status = "none" /\ \A k \in Items : k < i => queue[k].status # "none"
  /\ queue' = [queue EXCEPT ![i] = [status |-> "pending", memories |-> Found[i]]]
  /\ UNCHANGED <<now, rows, taker, jobs, worker, history, faults>>

(* take_pending_review_items locks the rows it reads: who comes second waits
   for the first to commit and then finds them consumed. *)
TakesUnlocked(t) == taker[t].step = "idle"               \* mutant
CanLock(t) == taker[t].step = "idle" /\ \A u \in Takers : taker[u].step # "locked"

(* Takers are alike: the first idle one begins. *)
LockPending(t) ==
  /\ CanLock(t)
  /\ \A u \in Takers : u < t => taker[u].step # "idle"
  /\ LET unconsumed == {i \in Items : queue[i].status = "pending"} IN
     /\ unconsumed # {}
     /\ taker' = [taker EXCEPT ![t] = [step |-> "locked", items |-> unconsumed]]
  /\ UNCHANGED <<now, rows, queue, jobs, worker, history, faults>>

ConsumePending(t) ==
  /\ taker[t].step = "locked"
  /\ queue' = [i \in Items |-> IF i \in taker[t].items
                                 THEN [queue[i] EXCEPT !.status = "consumed"] ELSE queue[i]]
  /\ taker' = [taker EXCEPT ![t].step = "push"]
  /\ UNCHANGED <<now, rows, jobs, worker, history, faults>>

(* enqueue_pending_reviews: one job for all that was taken; a memory that
   several of its reviews name is reviewed once (aggregate_pending_reviews). *)
PushReviewJob(t) ==
  /\ taker[t].step = "push"
  /\ \E j \in JobIds :
       /\ jobs[j] = FreeJob /\ \A k \in JobIds : k < j => jobs[k] # FreeJob
       /\ jobs' = [jobs EXCEPT ![j] =
                     [FreeJob EXCEPT !.status = "Pending", !.items = taker[t].items,
                                     !.memories = UNION {queue[i].memories : i \in taker[t].items},
                                     !.reviewedAt = now]]
  /\ taker' = [taker EXCEPT ![t] = [step |-> "idle", items |-> {}]]
  /\ UNCHANGED <<now, rows, queue, worker, history, faults>>

(* A failure rolls the transaction back; after it the items are gone. *)
TakerFails(t) ==
  /\ taker[t].step # "idle"
  /\ Fault
  /\ lost' = IF taker[t].step = "push" THEN lost \cup taker[t].items ELSE lost
  /\ taker' = [taker EXCEPT ![t] = [step |-> "idle", items |-> {}]]
  /\ UNCHANGED <<now, rows, queue, jobs, worker, overlapped, settled>>
--------------------------------------------------------------------------------
(***************************************************************************)
(* process_memory_review.                                                  *)
(***************************************************************************)
(* The stale and the same-day filter. *)
AnyLaterReview(chain, at) == at > LastOf(chain)          \* mutant
Reviewable(chain, at) ==
  /\ at > LastOf(chain)
  /\ at - LastOf(chain) >= Day

(* Reads the rows one by one; without a model there is nothing to update. *)
StopAtFirstSkip(w, m) ==                                 \* mutant
  IF Reviewable(rows[m], exec[w].reviewedAt) THEN exec[w].toLoad \ {m} ELSE {}
LeftToLoad(w, m) == exec[w].toLoad \ {m}

LoadMemory(w, m) ==
  /\ pc[w] = "load" /\ m \in exec[w].toLoad
  /\ LET due == Reviewable(rows[m], exec[w].reviewedAt) IN
     /\ exec' = [exec EXCEPT ![w].toLoad = LeftToLoad(w, m),
                             ![w].model[m] = IF due THEN rows[m] ELSE NotLoaded]
     /\ overlapped' = IF due /\ \E v \in Slots \ {w} : exec[v].model[m] # NotLoaded
                        THEN overlapped \cup {m} ELSE overlapped
  /\ UNCHANGED <<now, rows, intake, jobs, pc, settled, lost, faults>>

(* With something to review the model is asked for ratings: it may omit some. *)
RateMemories(w) ==
  /\ pc[w] = "load" /\ exec[w].toLoad = {}
  /\ LET loaded == {m \in Memories : exec[w].model[m] # NotLoaded} IN
     IF loaded = {}
       THEN Goto(w, "ok") /\ UNCHANGED exec
       ELSE /\ \E omitted \in SUBSET loaded : exec' = [exec EXCEPT ![w].omitted = omitted]
            /\ Goto(w, "update")
  /\ UNCHANGED <<now, rows, intake, jobs, history, faults>>

(* The new state is computed from the model that was loaded; the row is not
   read again. *)
ReviewOfNew(w, m) == <<exec[w].reviewedAt>>              \* mutant
StoreDueTime(w, m) ==                                    \* mutant
  Append(exec[w].model[m], exec[w].reviewedAt + Day)
ReviewOf(w, m) == Append(exec[w].model[m], exec[w].reviewedAt)

UpdateMemory(w, m) ==
  /\ pc[w] = "update"
  /\ exec[w].model[m] # NotLoaded /\ m \notin exec[w].omitted
  /\ rows' = [rows EXCEPT ![m] = ReviewOf(w, m)]
  /\ exec' = [exec EXCEPT ![w].model[m] = NotLoaded]
  /\ UNCHANGED <<now, intake, jobs, pc, history, faults>>

FinishReview(w) ==
  /\ pc[w] = "update"
  /\ \A m \in Memories : exec[w].model[m] # NotLoaded => m \in exec[w].omitted
  /\ exec' = [exec EXCEPT ![w].model = IdleExec.model]
  /\ Goto(w, "ok")
  /\ UNCHANGED <<now, rows, intake, jobs, history, faults>>

(* A read, the LLM call or an update returns an error. *)
ReviewFails(w) ==
  /\ pc[w] \in {"load", "update"}
  /\ Fault
  /\ exec' = [exec EXCEPT ![w] = [IdleExec EXCEPT !.job = exec[w].job]]
  /\ Goto(w, "err")
  /\ UNCHANGED <<now, rows, intake, jobs, history>>
--------------------------------------------------------------------------------
(***************************************************************************)
(* The review queue (apalis-postgres).                                     *)
(***************************************************************************)
(* Slots are alike: the first idle one takes a job. *)
Fetch(w) ==
  /\ pc[w] = "idle" /\ \A v \in Slots : v < w => pc[v] # "idle"
  /\ \E j \in JobIds :
       /\ jobs[j].status = "Pending"
       /\ jobs' = [jobs EXCEPT ![j].status = "Running", ![j].owner = w]
       /\ exec' = [exec EXCEPT ![w] = [IdleExec EXCEPT !.job = j, !.toLoad = jobs[j].memories,
                                                       !.reviewedAt = jobs[j].reviewedAt]]
  /\ Goto(w, "load")
  /\ UNCHANGED <<now, rows, intake, history, faults>>

Stop(w) == Goto(w, "idle") /\ exec' = [exec EXCEPT ![w] = IdleExec]

OwnsJob(w) == jobs[exec[w].job].owner = w

EndJob(j) == jobs' = [jobs EXCEPT ![j] = FreeJob] /\ settled' = settled \cup jobs[j].items

Ack(w) ==
  /\ pc[w] = "ok"
  /\ IF OwnsJob(w) THEN EndJob(exec[w].job) ELSE UNCHANGED <<jobs, settled>>
  /\ Stop(w)
  /\ UNCHANGED <<now, rows, intake, overlapped, lost, faults>>

Retry(w) ==
  /\ pc[w] = "err" /\ OwnsJob(w)
  /\ jobs[exec[w].job].attempts + 1 < MaxAttempts
  /\ LET j == exec[w].job IN
     jobs' = [jobs EXCEPT ![j].status = "Pending", ![j].owner = NoSlot, ![j].attempts = @ + 1]
  /\ Stop(w)
  /\ UNCHANGED <<now, rows, intake, history, faults>>

GiveUp(w) ==
  /\ pc[w] = "err" /\ OwnsJob(w)
  /\ jobs[exec[w].job].attempts + 1 >= MaxAttempts
  /\ EndJob(exec[w].job)
  /\ Stop(w)
  /\ UNCHANGED <<now, rows, intake, overlapped, lost, faults>>

IgnoreError(w) ==
  /\ pc[w] = "err" /\ ~ OwnsJob(w)
  /\ Stop(w)
  /\ UNCHANGED <<now, rows, intake, jobs, history, faults>>

SlotCrashes(w) ==
  /\ pc[w] # "idle"
  /\ Fault
  /\ Stop(w)
  /\ UNCHANGED <<now, rows, intake, jobs, history>>

Executing(j) == \E w \in Slots : exec[w].job = j /\ jobs[j].owner = w

Reenqueue(j) ==
  /\ jobs[j].status = "Running"
  /\ jobs' = [jobs EXCEPT ![j].status = "Pending", ![j].owner = NoSlot]
  /\ UNCHANGED <<now, rows, intake, worker, history>>

DropOrphan(j) == FALSE /\ Reenqueue(j) /\ UNCHANGED faults         \* mutant
ReenqueueOrphan(j) == ~ Executing(j) /\ Reenqueue(j) /\ UNCHANGED faults

ReenqueueStalled(j) == Executing(j) /\ Reenqueue(j) /\ Fault
--------------------------------------------------------------------------------
TakerStep(t) == LockPending(t) \/ ConsumePending(t) \/ PushReviewJob(t)

SlotStep(w) ==
  \/ Fetch(w)
  \/ \E m \in Memories : LoadMemory(w, m) \/ UpdateMemory(w, m)
  \/ RateMemories(w) \/ FinishReview(w)
  \/ Ack(w) \/ Retry(w) \/ GiveUp(w) \/ IgnoreError(w)

Next ==
  \/ Tick
  \/ \E i \in Items : AddPendingReview(i)
  \/ \E t \in Takers : TakerStep(t) \/ TakerFails(t)
  \/ \E w \in Slots : SlotStep(w) \/ ReviewFails(w) \/ SlotCrashes(w)
  \/ \E j \in JobIds : ReenqueueOrphan(j) \/ ReenqueueStalled(j)

Spec == Init /\ [][Next]_vars

(* A taker that has locked rows goes on; when it starts is up to the
   conversation. *)
Fairness ==
  /\ \A t \in Takers : WF_vars(ConsumePending(t) \/ PushReviewJob(t))
  /\ \A w \in Slots : WF_vars(SlotStep(w))
  /\ \A j \in JobIds : WF_vars(ReenqueueOrphan(j))

FairSpec == Spec /\ Fairness
--------------------------------------------------------------------------------
(***************************************************************************)
(* Properties.                                                             *)
(***************************************************************************)
(* The reviews an FSRS state stands for are at least a day apart and in order:
   no review counts twice and none counts backwards, however jobs overlap, fail
   half-way, are delivered again or write rows read long before
   (process_memory_review). *)
Spaced(chain) == \A k \in 1 .. Len(chain) - 1 : chain[k] + Day <= chain[k + 1]
ReviewsSpaced == \A m \in Memories : Spaced(rows[m])

(* A job that never met another one on a memory adds its review to those before
   it: none is undone (process_memory_review, models_by_id). *)
SoleReviewExtends ==
  [][\A m \in Memories :
       m \in overlapped \/ \E k \in 0 .. 1 : rows[m] = SubSeq(rows'[m], 1, Len(rows'[m]) - k)]_vars

(* A job that ends well has settled every memory it names, those of an earlier
   attempt included: the row was reviewed less than a day before the job's time
   or later, unless the model gave no rating or another job overlapped. *)
FinishedJobIsComplete ==
  \A w \in Slots : pc[w] = "ok" /\ OwnsJob(w) =>
    \A m \in jobs[exec[w].job].memories \ (exec[w].omitted \cup overlapped) :
      exec[w].reviewedAt < LastOf(rows[m]) + Day

(* A consumed item is held by exactly one taker or job until its job ended, or
   was dropped by a failure between its consumption and the push: two takers
   never share one (take_pending_review_items). *)
Holders(i) ==
  {<<"taker", t>> : t \in {t \in Takers : taker[t].step = "push" /\ i \in taker[t].items}}
    \cup {<<"job", j>> : j \in {j \in JobIds : i \in jobs[j].items}}

ItemsAccounted ==
  \A i \in Items :
    /\ Cardinality(Holders(i)) + (IF i \in settled THEN 1 ELSE 0) + (IF i \in lost THEN 1 ELSE 0)
         = (IF queue[i].status = "consumed" THEN 1 ELSE 0)

(* What was consumed is reviewed, given up or lost in the end: crashes and
   stalls of the review worker leave nothing hanging, whatever else comes in
   (enqueue_pending_reviews, process_memory_review). *)
ReviewsSettle ==
  []<>(\A i \in Items : queue[i].status = "consumed" => i \in settled \cup lost)
================================================================================
