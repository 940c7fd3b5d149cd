--------------------------- MODULE MemoryReviewProofs ---------------------------
(***************************************************************************)
(* Types of MemoryReview; why review times stay a day apart although jobs  *)
(* overlap and write rows that they read long before; why a job that ends  *)
(* well left no memory out and one that worked alone undid nothing; and    *)
(* why a consumed item is never held twice and never forgotten.            *)
(***************************************************************************)
EXTENDS MemoryReview, SequenceTheorems, FiniteSetTheorems, TLAPS

(* A slot at work has a job of the table. *)
SlotsHaveJobs == \A w \in Slots : pc[w] # "idle" => exec[w].job \in JobIds

(* What a slot has loaded is spaced as well, and the review it is about to add
   comes a day or more after it. *)
LoadedIsDue ==
  \A w \in Slots : \A m \in Memories :
    exec[w].model[m] # NotLoaded =>
      /\ Spaced(exec[w].model[m])
      /\ LastOf(exec[w].model[m]) + Day <= exec[w].reviewedAt

TInv == TypeOK /\ SlotsHaveJobs
IInv == TInv /\ ReviewsSpaced /\ LoadedIsDue
--------------------------------------------------------------------------------
(***************************************************************************)
(* Types.                                                                  *)
(***************************************************************************)
LEMMA ConstantTypes ==
  /\ FreeJob \in Job
  /\ IdleExec \in Exec
  /\ IdleExec.job = NoJob
  /\ IdleExec.model = [m \in Memories |-> NotLoaded]
  /\ 0 \in Time /\ NotLoaded \in Chain
BY MemoryReviewAssumption DEF FreeJob, IdleExec, Job, Exec, Time, Chain, NotLoaded

LEMMA InitTInv == Init => TInv
<1> SUFFICES ASSUME Init PROVE TInv
  OBVIOUS
<1>1. rows \in [Memories -> Chain \ {NotLoaded}]
  <2>1. <<0>> \in Chain /\ <<0>> # NotLoaded
    BY ConstantTypes DEF Chain, NotLoaded
  <2> QED BY <2>1 DEF Init
<1>2. exec \in [Slots -> Exec] /\ jobs \in [JobIds -> Job]
  BY ConstantTypes DEF Init
<1>3. TypeOK
  BY <1>1, <1>2, ConstantTypes DEF Init, TypeOK, Item, Taker
<1>4. SlotsHaveJobs
  BY DEF Init, SlotsHaveJobs
<1> QED BY <1>3, <1>4 DEF TInv

(* A slot that stops, or restarts its record, keeps the types. *)
LEMMA StopTypes ==
  ASSUME TInv, NEW w \in Slots, Stop(w)
  PROVE  /\ pc' \in [Slots -> {"idle", "load", "update", "ok", "err"}]
         /\ exec' \in [Slots -> Exec]
         /\ SlotsHaveJobs'
BY ConstantTypes DEF TInv, TypeOK, SlotsHaveJobs, Stop, Goto

(* The answer of the model is all that rating adds to a slot's record. *)
LEMMA RateKeeps ==
  ASSUME TInv, NEW w \in Slots, RateMemories(w)
  PROVE  /\ exec' \in [Slots -> Exec]
         /\ \A v \in Slots : /\ exec'[v].job = exec[v].job
                             /\ exec'[v].model = exec[v].model
                             /\ exec'[v].reviewedAt = exec[v].reviewedAt
<1> DEFINE loaded == {m \in Memories : exec[w].model[m] # NotLoaded}
<1>1. exec \in [Slots -> Exec]
  BY DEF TInv, TypeOK
<1>2. CASE UNCHANGED exec
  BY <1>1, <1>2
<1>3. CASE \E omitted \in SUBSET loaded : exec' = [exec EXCEPT ![w].omitted = omitted]
  <2>1. PICK omitted \in SUBSET Memories : exec' = [exec EXCEPT ![w].omitted = omitted]
    BY <1>3
  <2>2. [exec[w] EXCEPT !.omitted = omitted] \in Exec
    BY <1>1 DEF Exec
  <2>3. exec' = [exec EXCEPT ![w] = [exec[w] EXCEPT !.omitted = omitted]]
    BY <1>1, <2>1
  <2>4. exec' \in [Slots -> Exec]
    BY <1>1, <2>2, <2>3
  <2>5. \A v \in Slots : /\ exec'[v].job = exec[v].job
                         /\ exec'[v].model = exec[v].model
                         /\ exec'[v].reviewedAt = exec[v].reviewedAt
    BY <1>1, <2>3 DEF Exec
  <2> QED BY <2>4, <2>5
<1> QED BY <1>2, <1>3 DEF RateMemories

LEMMA NextTInv == TInv /\ [Next]_vars => TInv'
<1> SUFFICES ASSUME TInv, [Next]_vars PROVE TInv'
  OBVIOUS
<1> USE DEF TInv
<1>1. CASE UNCHANGED vars
  BY <1>1 DEF TypeOK, SlotsHaveJobs, vars, intake, worker, history
<1>2. CASE Tick
  BY <1>2, MemoryReviewAssumption
  DEF Tick, TypeOK, SlotsHaveJobs, Time, vars, intake, worker, history
<1>3. ASSUME NEW i \in Items, AddPendingReview(i) PROVE TInv'
  BY <1>3, MemoryReviewAssumption
  DEF AddPendingReview, TypeOK, SlotsHaveJobs, Item, intake, worker, history
<1>4. ASSUME NEW t \in Takers, LockPending(t) PROVE TInv'
  BY <1>4 DEF LockPending, TypeOK, SlotsHaveJobs, Taker, intake, worker, history
<1>5. ASSUME NEW t \in Takers, ConsumePending(t) PROVE TInv'
  BY <1>5 DEF ConsumePending, TypeOK, SlotsHaveJobs, Item, Taker, intake, worker, history
<1>6. ASSUME NEW t \in Takers, PushReviewJob(t) PROVE TInv'
  <2> DEFINE items == taker[t].items
             found == UNION {queue[i].memories : i \in items}
             pushed == [FreeJob EXCEPT !.status = "Pending", !.items = items,
                                       !.memories = found, !.reviewedAt = now]
  <2>1. items \subseteq Items /\ found \subseteq Memories
    BY DEF TypeOK, Taker, Item
  <2>2. pushed \in Job
    BY <2>1 DEF FreeJob, Job, TypeOK
  <2>3. jobs' \in [JobIds -> Job]
    BY <1>6, <2>2 DEF PushReviewJob, TypeOK
  <2>4. taker' \in [Takers -> Taker]
    BY <1>6 DEF PushReviewJob, TypeOK, Taker
  <2> QED
    BY <1>6, <2>3, <2>4 DEF PushReviewJob, TypeOK, SlotsHaveJobs, intake, worker, history
<1>7. ASSUME NEW t \in Takers, TakerFails(t) PROVE TInv'
  BY <1>7 DEF TakerFails, Fault, TypeOK, SlotsHaveJobs, Taker, intake, worker, history
<1>8. ASSUME NEW w \in Slots, Fetch(w) PROVE TInv'
  <2>1. PICK j \in JobIds :
          /\ jobs' = [jobs EXCEPT ![j].status = "Running", ![j].owner = w]
          /\ exec' = [exec EXCEPT ![w] = [IdleExec EXCEPT !.job = j, !.toLoad = jobs[j].memories,
                                                          !.reviewedAt = jobs[j].reviewedAt]]
    BY <1>8 DEF Fetch
  <2>2. jobs[j] \in Job
    BY DEF TypeOK
  <2>3. jobs' \in [JobIds -> Job]
    BY <2>1, <2>2 DEF TypeOK, Job
  <2>4. [IdleExec EXCEPT !.job = j, !.toLoad = jobs[j].memories,
                         !.reviewedAt = jobs[j].reviewedAt] \in Exec
    BY <2>2, ConstantTypes DEF IdleExec, Exec, Job
  <2>5. exec' \in [Slots -> Exec] /\ exec'[w].job = j
    BY <2>1, <2>4 DEF TypeOK, IdleExec
  <2> QED
    BY <1>8, <2>1, <2>3, <2>5 DEF Fetch, Goto, TypeOK, SlotsHaveJobs, intake, history
<1>9. ASSUME NEW w \in Slots, NEW m \in Memories, LoadMemory(w, m) PROVE TInv'
  <2> DEFINE found == IF Reviewable(rows[m], exec[w].reviewedAt) THEN rows[m] ELSE NotLoaded
             models == [exec[w].model EXCEPT ![m] = found]
             record == [exec[w] EXCEPT !.toLoad = LeftToLoad(w, m), !.model = models]
  <2>a. exec[w] \in Exec /\ found \in Chain
    BY ConstantTypes DEF TypeOK
  <2>b. exec[w].model \in [Memories -> Chain] /\ exec[w].toLoad \in SUBSET Memories
    BY <2>a DEF Exec
  <2>c. models \in [Memories -> Chain] /\ LeftToLoad(w, m) \in SUBSET Memories
    BY <2>a, <2>b DEF LeftToLoad
  <2>d. record \in Exec /\ record.job = exec[w].job
    BY <2>a, <2>c DEF Exec
  <2>e. exec' = [exec EXCEPT ![w] = record]
    BY <1>9 DEF LoadMemory, TypeOK
  <2>1. exec' \in [Slots -> Exec] /\ \A v \in Slots : exec'[v].job = exec[v].job
    BY <2>d, <2>e DEF TypeOK
  <2>2. overlapped' \in SUBSET Memories
    BY <1>9 DEF LoadMemory, TypeOK
  <2> QED
    BY <1>9, <2>1, <2>2 DEF LoadMemory, TypeOK, SlotsHaveJobs, intake, history
<1>10. ASSUME NEW w \in Slots, RateMemories(w) PROVE TInv'
  <2>1. exec' \in [Slots -> Exec] /\ \A v \in Slots : exec'[v].job = exec[v].job
    BY <1>10, RateKeeps
  <2> QED
    BY <1>10, <2>1 DEF RateMemories, Goto, TypeOK, SlotsHaveJobs, intake, history
<1>11. ASSUME NEW w \in Slots, NEW m \in Memories, UpdateMemory(w, m) PROVE TInv'
  <2>1. exec' \in [Slots -> Exec] /\ \A v \in Slots : exec'[v].job = exec[v].job
    BY <1>11, ConstantTypes DEF UpdateMemory, TypeOK, Exec
  <2>a. exec[w].model[m] \in Chain /\ exec[w].reviewedAt \in Time
    BY DEF TypeOK, Exec
  <2>b. \A chain \in Seq(Time), at \in Time :
          Append(chain, at) \in Seq(Time) /\ Append(chain, at) # <<>>
    BY AppendProperties
  <2>2. ReviewOf(w, m) \in Chain /\ ReviewOf(w, m) # NotLoaded
    BY <2>a, <2>b DEF ReviewOf, Chain, NotLoaded
  <2>3. rows' \in [Memories -> Chain \ {NotLoaded}]
    BY <1>11, <2>2 DEF UpdateMemory, TypeOK
  <2> QED
    BY <1>11, <2>1, <2>3 DEF UpdateMemory, TypeOK, SlotsHaveJobs, intake, history
<1>12. ASSUME NEW w \in Slots, FinishReview(w) PROVE TInv'
  <2>1. exec' \in [Slots -> Exec] /\ \A v \in Slots : exec'[v].job = exec[v].job
    BY <1>12, ConstantTypes DEF FinishReview, TypeOK, Exec
  <2> QED
    BY <1>12, <2>1 DEF FinishReview, Goto, TypeOK, SlotsHaveJobs, intake, history
<1>13. ASSUME NEW w \in Slots, ReviewFails(w) PROVE TInv'
  <2>1. [IdleExec EXCEPT !.job = exec[w].job] \in Exec
    BY ConstantTypes DEF IdleExec, Exec, TypeOK
  <2>2. exec' \in [Slots -> Exec] /\ \A v \in Slots : exec'[v].job = exec[v].job
    BY <1>13, <2>1 DEF ReviewFails, TypeOK, IdleExec
  <2> QED
    BY <1>13, <2>2 DEF ReviewFails, Fault, Goto, TypeOK, SlotsHaveJobs, intake, history
<1>14. ASSUME NEW w \in Slots, Ack(w) \/ GiveUp(w) PROVE TInv'
  <2>1. exec[w].job \in JobIds
    BY <1>14 DEF Ack, GiveUp, SlotsHaveJobs
  <2>2. jobs[exec[w].job].items \subseteq Items
    BY <2>1 DEF TypeOK, Job
  <2>3. jobs' \in [JobIds -> Job] /\ settled' \in SUBSET Items
    BY <1>14, <2>2, ConstantTypes DEF Ack, GiveUp, EndJob, TypeOK
  <2>4. Stop(w)
    BY <1>14 DEF Ack, GiveUp
  <2> QED
    BY <1>14, <2>3, <2>4, StopTypes DEF Ack, GiveUp, TypeOK, intake
<1>15. ASSUME NEW w \in Slots, Retry(w) PROVE TInv'
  <2> DEFINE j == exec[w].job
             job == [jobs[j] EXCEPT !.status = "Pending", !.owner = NoSlot,
                                    !.attempts = jobs[j].attempts + 1]
  <2>a. j \in JobIds /\ jobs[j] \in Job
    BY <1>15 DEF Retry, SlotsHaveJobs, TypeOK
  <2>b. jobs[j].attempts + 1 \in Nat
    BY <2>a DEF Job
  <2>c. job \in Job
    BY <2>a, <2>b DEF Job
  <2>d. jobs' = [jobs EXCEPT ![j] = job]
    BY <1>15, <2>a DEF Retry, TypeOK
  <2>1. jobs' \in [JobIds -> Job]
    BY <2>c, <2>d DEF TypeOK
  <2>2. Stop(w)
    BY <1>15 DEF Retry
  <2> QED
    BY <1>15, <2>1, <2>2, StopTypes DEF Retry, TypeOK, intake, history
<1>16. ASSUME NEW w \in Slots, IgnoreError(w) \/ SlotCrashes(w) PROVE TInv'
  <2>1. Stop(w)
    BY <1>16 DEF IgnoreError, SlotCrashes
  <2> QED
    BY <1>16, <2>1, StopTypes DEF IgnoreError, SlotCrashes, Fault, TypeOK, intake, history
<1>17. ASSUME NEW j \in JobIds, ReenqueueOrphan(j) \/ ReenqueueStalled(j) PROVE TInv'
  <2>1. jobs' \in [JobIds -> Job]
    BY <1>17 DEF ReenqueueOrphan, ReenqueueStalled, Reenqueue, TypeOK, Job
  <2> QED
    BY <1>17, <2>1 DEF ReenqueueOrphan, ReenqueueStalled, Reenqueue, Fault, TypeOK,
       SlotsHaveJobs, intake, worker, history
<1> QED
  BY <1>1, <1>2, <1>3, <1>4, <1>5, <1>6, <1>7, <1>8, <1>9, <1>10, <1>11, <1>12, <1>13,
     <1>14, <1>15, <1>16, <1>17
  DEF Next, TakerStep, SlotStep

(* Every variable keeps its type: a row always stands for at least one review,
   and no job points out of its tables. *)
THEOREM TypeCorrect == Spec => []TypeOK
<1>1. Spec => []TInv
  BY InitTInv, NextTInv, PTL DEF Spec
<1> QED BY <1>1, PTL DEF TInv
--------------------------------------------------------------------------------
(***************************************************************************)
(* Review times.                                                           *)
(***************************************************************************)
LEMMA SpacedAppend ==
  ASSUME NEW chain \in Chain, NEW at \in Time, chain # NotLoaded,
         Spaced(chain), LastOf(chain) + Day <= at
  PROVE  Spaced(Append(chain, at))
<1>1. Len(chain) \in Nat \ {0} /\ Len(Append(chain, at)) = Len(chain) + 1
  BY DEF Chain, NotLoaded
<1>2. ASSUME NEW k \in 1 .. Len(chain)
      PROVE  Append(chain, at)[k] + Day <= Append(chain, at)[k + 1]
  <2>1. CASE k = Len(chain)
    BY <1>1, <2>1 DEF LastOf, Chain
  <2>2. CASE k < Len(chain)
    BY <1>1, <2>2 DEF Spaced, Chain
  <2> QED BY <1>1, <2>1, <2>2
<1> QED BY <1>1, <1>2 DEF Spaced

LEMMA InitIInv == Init => IInv
<1> SUFFICES ASSUME Init PROVE IInv
  OBVIOUS
<1>1. TInv
  BY InitTInv
<1>2. ReviewsSpaced
  BY DEF Init, ReviewsSpaced, Spaced
<1>3. LoadedIsDue
  BY ConstantTypes DEF Init, LoadedIsDue
<1> QED BY <1>1, <1>2, <1>3 DEF IInv

(* Of a slot's record the invariant looks at what is loaded and at the job's
   time. *)
LEMMA LoadedKept ==
  ASSUME LoadedIsDue,
         \A w \in Slots : \A m \in Memories :
           exec'[w].model[m] # NotLoaded =>
             exec'[w].model[m] = exec[w].model[m] /\ exec'[w].reviewedAt = exec[w].reviewedAt
  PROVE  LoadedIsDue'
BY DEF LoadedIsDue, NotLoaded

LEMMA NextIInv == IInv /\ [Next]_vars => IInv'
<1> SUFFICES ASSUME IInv, [Next]_vars PROVE ReviewsSpaced' /\ LoadedIsDue'
  BY NextTInv DEF IInv
<1> USE DEF IInv, TInv
<1>1. ASSUME UNCHANGED <<rows, exec>> PROVE ReviewsSpaced' /\ LoadedIsDue'
  BY <1>1 DEF ReviewsSpaced, LoadedIsDue
<1>2. ASSUME NEW w \in Slots, UNCHANGED rows, exec' = [exec EXCEPT ![w] = exec'[w]],
             \A m \in Memories : exec'[w].model[m] = NotLoaded
      PROVE  ReviewsSpaced' /\ LoadedIsDue'
  <2>1. LoadedIsDue'
    BY <1>2 DEF LoadedIsDue, TypeOK
  <2> QED BY <1>2, <2>1 DEF ReviewsSpaced
<1>3. ASSUME NEW w \in Slots, Fetch(w) PROVE ReviewsSpaced' /\ LoadedIsDue'
  <2>1. \A m \in Memories : exec'[w].model[m] = NotLoaded
    BY <1>3 DEF Fetch, TypeOK, IdleExec
  <2> QED BY <1>2, <1>3, <2>1 DEF Fetch, TypeOK
<1>4. ASSUME NEW w \in Slots, NEW m \in Memories, LoadMemory(w, m)
      PROVE  ReviewsSpaced' /\ LoadedIsDue'
  <2>1. /\ exec'[w].model[m] =
             (IF Reviewable(rows[m], exec[w].reviewedAt) THEN rows[m] ELSE NotLoaded)
        /\ \A k \in Memories \ {m} : exec'[w].model[k] = exec[w].model[k]
        /\ exec'[w].reviewedAt = exec[w].reviewedAt
        /\ \A v \in Slots \ {w} : exec'[v] = exec[v]
    BY <1>4 DEF LoadMemory, TypeOK, Exec
  <2>2. /\ rows[m] \in Chain /\ rows[m] # NotLoaded
        /\ exec[w].reviewedAt \in Time
    BY DEF TypeOK, Exec
  <2>3. LastOf(rows[m]) \in Nat /\ exec[w].reviewedAt \in Nat /\ Day \in Nat
    BY <2>2, MemoryReviewAssumption DEF LastOf, Chain, Time, NotLoaded
  <2>4. Reviewable(rows[m], exec[w].reviewedAt) =>
          Spaced(rows[m]) /\ LastOf(rows[m]) + Day <= exec[w].reviewedAt
    BY <2>3 DEF Reviewable, ReviewsSpaced
  <2>5. ASSUME NEW v \in Slots, NEW k \in Memories, exec'[v].model[k] # NotLoaded
        PROVE  /\ Spaced(exec'[v].model[k])
               /\ LastOf(exec'[v].model[k]) + Day <= exec'[v].reviewedAt
    <3>1. CASE v = w /\ k = m
      BY <2>1, <2>4, <2>5, <3>1
    <3>2. CASE ~ (v = w /\ k = m)
      BY <2>1, <2>5, <3>2 DEF LoadedIsDue
    <3> QED BY <3>1, <3>2
  <2>6. LoadedIsDue'
    BY <2>5 DEF LoadedIsDue, Spaced, LastOf, NotLoaded
  <2> QED BY <1>4, <2>6 DEF LoadMemory, ReviewsSpaced
<1>5. ASSUME NEW w \in Slots, RateMemories(w) PROVE ReviewsSpaced' /\ LoadedIsDue'
  <2>1. \A v \in Slots : exec'[v].model = exec[v].model
                           /\ exec'[v].reviewedAt = exec[v].reviewedAt
    BY <1>5, RateKeeps
  <2>2. LoadedIsDue'
    BY <2>1, LoadedKept
  <2> QED BY <1>5, <2>2 DEF RateMemories, ReviewsSpaced
<1>6. ASSUME NEW w \in Slots, NEW m \in Memories, UpdateMemory(w, m)
      PROVE  ReviewsSpaced' /\ LoadedIsDue'
  <2>1. /\ exec[w].model[m] \in Chain /\ exec[w].model[m] # NotLoaded
        /\ exec[w].reviewedAt \in Time
    BY <1>6 DEF UpdateMemory, TypeOK, Exec
  <2>2. Spaced(ReviewOf(w, m))
    BY <2>1, SpacedAppend DEF ReviewOf, LoadedIsDue
  <2>3. ReviewsSpaced'
    BY <1>6, <2>2 DEF UpdateMemory, ReviewsSpaced, TypeOK
  <2>4. \A v \in Slots : \A k \in Memories :
          exec'[v].model[k] # NotLoaded =>
            exec'[v].model[k] = exec[v].model[k] /\ exec'[v].reviewedAt = exec[v].reviewedAt
    BY <1>6 DEF UpdateMemory, TypeOK, Exec
  <2> QED BY <2>3, <2>4, LoadedKept
<1>7. ASSUME NEW w \in Slots, FinishReview(w) PROVE ReviewsSpaced' /\ LoadedIsDue'
  <2>1. \A m \in Memories : exec'[w].model[m] = NotLoaded
    BY <1>7, ConstantTypes DEF FinishReview, TypeOK, Exec
  <2>2. exec' = [exec EXCEPT ![w] = exec'[w]]
    BY <1>7 DEF FinishReview, TypeOK
  <2> QED BY <1>2, <1>7, <2>1, <2>2 DEF FinishReview
<1>8. ASSUME NEW w \in Slots, ReviewFails(w) PROVE ReviewsSpaced' /\ LoadedIsDue'
  <2>1. \A m \in Memories : exec'[w].model[m] = NotLoaded
    BY <1>8 DEF ReviewFails, TypeOK, IdleExec
  <2> QED BY <1>2, <1>8, <2>1 DEF ReviewFails, TypeOK
<1>9. ASSUME NEW w \in Slots, Stop(w), UNCHANGED rows PROVE ReviewsSpaced' /\ LoadedIsDue'
  <2>1. \A m \in Memories : exec'[w].model[m] = NotLoaded
    BY <1>9 DEF Stop, TypeOK, IdleExec
  <2> QED BY <1>2, <1>9, <2>1 DEF Stop, TypeOK
<1>10. CASE UNCHANGED vars
  BY <1>1, <1>10 DEF vars, worker
<1>11. CASE \/ Tick
            \/ \E i \in Items : AddPendingReview(i)
            \/ \E t \in Takers : TakerStep(t) \/ TakerFails(t)
            \/ \E j \in JobIds : ReenqueueOrphan(j) \/ ReenqueueStalled(j)
  <2>1. UNCHANGED <<rows, exec>>
    BY <1>11 DEF Tick, AddPendingReview, TakerStep, LockPending, ConsumePending, PushReviewJob,
       TakerFails, ReenqueueOrphan, ReenqueueStalled, Reenqueue, worker
  <2> QED BY <1>1, <2>1
<1>12. ASSUME NEW w \in Slots,
              Ack(w) \/ Retry(w) \/ GiveUp(w) \/ IgnoreError(w) \/ SlotCrashes(w)
       PROVE  ReviewsSpaced' /\ LoadedIsDue'
  <2>1. Stop(w) /\ UNCHANGED rows
    BY <1>12 DEF Ack, Retry, GiveUp, IgnoreError, SlotCrashes
  <2> QED BY <1>9, <2>1
<1> QED
  BY <1>3, <1>4, <1>5, <1>6, <1>7, <1>8, <1>10, <1>11, <1>12 DEF Next, SlotStep

(* For any number of jobs, deliveries, failures and memories, the reviews that
   an FSRS state stands for are at least a day apart and in order. *)
THEOREM ReviewsAreSpaced == Spec => []ReviewsSpaced
<1>1. Spec => []IInv
  BY InitIInv, NextIInv, PTL DEF Spec
<1> QED BY <1>1, PTL DEF IInv
--------------------------------------------------------------------------------
(***************************************************************************)
(* What jobs do to their memories.                                         *)
(***************************************************************************)
Owns(w, j) == exec[w].job = j /\ jobs[j].owner = w

(* An idle slot remembers nothing; nothing is left to load once rating began,
   nothing is omitted before, and nothing is loaded at the end. *)
SlotRecords ==
  \A w \in Slots :
    /\ pc[w] = "idle" => exec[w] = IdleExec
    /\ pc[w] \in {"update", "ok"} => exec[w].toLoad = {}
    /\ pc[w] = "load" => exec[w].omitted = {}
    /\ pc[w] \in {"ok", "err"} => \A m \in Memories : exec[w].model[m] = NotLoaded

(* Unless jobs overlapped on a memory, one slot at most has loaded it, and the
   row is still what that slot has read. *)
LoadedAlone ==
  \A m \in Memories \ overlapped : \A w \in Slots : exec[w].model[m] # NotLoaded =>
    /\ exec[w].model[m] = rows[m]
    /\ \A v \in Slots \ {w} : exec[v].model[m] = NotLoaded

(* A slot is done with a memory of its job when the row was reviewed less than a
   day before the time of the job, or later. *)
DoneWith(w, m) == exec[w].reviewedAt < LastOf(rows[m]) + Day

LeftOrDone ==
  \A w \in Slots : \A j \in JobIds : Owns(w, j) /\ pc[w] \in {"load", "update", "ok"} =>
    \A m \in jobs[j].memories \ overlapped :
      m \in exec[w].toLoad \/ exec[w].model[m] # NotLoaded \/ m \in exec[w].omitted \/ DoneWith(w, m)

RInv == IInv /\ SlotRecords /\ LoadedAlone /\ LeftOrDone

(* The slots other than w are not touched. *)
OnlySlot(w) == \A v \in Slots \ {w} : exec'[v] = exec[v] /\ pc'[v] = pc[v]

(* What slot w owns afterwards it owned before, with the same memories. *)
KeepsJob(w) ==
  \A j \in JobIds : Owns(w, j)' => Owns(w, j) /\ jobs'[j].memories = jobs[j].memories

(* Only by fetching a job does a slot come to own one: the others end, are given
   back or are taken by another slot. *)
LEMMA OwnedBefore ==
  ASSUME TInv, [Next]_vars, NEW w \in Slots, ~ Fetch(w), NEW j \in JobIds, jobs'[j].owner = w
  PROVE  jobs[j].owner = w /\ jobs'[j].memories = jobs[j].memories
<1> USE DEF TInv
<1>0. w # NoSlot /\ FreeJob.owner = NoSlot /\ jobs \in [JobIds -> Job]
  BY MemoryReviewAssumption DEF FreeJob, TypeOK
<1>1. CASE UNCHANGED jobs
  BY <1>1
<1>2. ASSUME NEW t \in Takers, PushReviewJob(t)
      PROVE  jobs[j].owner = w /\ jobs'[j].memories = jobs[j].memories
  <2>1. PICK k \in JobIds :
          jobs' = [jobs EXCEPT ![k] =
                     [FreeJob EXCEPT !.status = "Pending", !.items = taker[t].items,
                                     !.memories = UNION {queue[i].memories : i \in taker[t].items},
                                     !.reviewedAt = now]]
    BY <1>2 DEF PushReviewJob
  <2>2. jobs'[k].owner = NoSlot
    BY <1>0, <2>1 DEF FreeJob
  <2> QED BY <1>0, <2>1, <2>2
<1>3. ASSUME NEW v \in Slots, Fetch(v)
      PROVE  jobs[j].owner = w /\ jobs'[j].memories = jobs[j].memories
  <2>1. PICK k \in JobIds :
          jobs' = [jobs EXCEPT ![k].status = "Running", ![k].owner = v]
    BY <1>3 DEF Fetch
  <2>2. v # w
    BY <1>3
  <2> QED BY <1>0, <2>1, <2>2 DEF Job
<1>4. ASSUME NEW k \in JobIds, EndJob(k)
      PROVE  jobs[j].owner = w /\ jobs'[j].memories = jobs[j].memories
  BY <1>0, <1>4 DEF EndJob
<1>5. ASSUME NEW v \in Slots, Retry(v)
      PROVE  jobs[j].owner = w /\ jobs'[j].memories = jobs[j].memories
  BY <1>0, <1>5 DEF Retry, SlotsHaveJobs, Job
<1>6. ASSUME NEW k \in JobIds, Reenqueue(k)
      PROVE  jobs[j].owner = w /\ jobs'[j].memories = jobs[j].memories
  BY <1>0, <1>6 DEF Reenqueue, Job
<1>7. ASSUME NEW v \in Slots, Ack(v) \/ GiveUp(v)
      PROVE  jobs[j].owner = w /\ jobs'[j].memories = jobs[j].memories
  <2>1. exec[v].job \in JobIds
    BY <1>7 DEF Ack, GiveUp, SlotsHaveJobs
  <2> QED BY <1>1, <1>4, <1>7, <2>1 DEF Ack, GiveUp
<1>8. ASSUME NEW v \in Slots, NEW m \in Memories, LoadMemory(v, m) \/ UpdateMemory(v, m)
      PROVE  UNCHANGED jobs
  BY <1>8 DEF LoadMemory, UpdateMemory
<1>9. ASSUME NEW v \in Slots,
             \/ RateMemories(v) \/ FinishReview(v) \/ ReviewFails(v)
             \/ IgnoreError(v) \/ SlotCrashes(v)
      PROVE  UNCHANGED jobs
  BY <1>9 DEF RateMemories, FinishReview, ReviewFails, IgnoreError, SlotCrashes
<1>10. ASSUME \/ Tick \/ UNCHANGED vars
              \/ \E i \in Items : AddPendingReview(i)
              \/ \E t \in Takers : LockPending(t) \/ ConsumePending(t) \/ TakerFails(t)
       PROVE  UNCHANGED jobs
  BY <1>10 DEF vars, Tick, AddPendingReview, LockPending, ConsumePending, TakerFails
<1> QED
  BY <1>1, <1>2, <1>3, <1>5, <1>6, <1>7, <1>8, <1>9, <1>10
  DEF Next, TakerStep, SlotStep, ReenqueueOrphan, ReenqueueStalled

(* Where a slot's record and its program counter change. *)
LEMMA IdleRecord ==
  /\ IdleExec.job = NoJob /\ IdleExec.toLoad = {} /\ IdleExec.omitted = {}
  /\ \A m \in Memories : IdleExec.model[m] = NotLoaded
BY DEF IdleExec

LEMMA LoadedRecord ==
  ASSUME TInv, NEW w \in Slots, NEW m \in Memories, LoadMemory(w, m)
  PROVE  /\ OnlySlot(w) /\ pc'[w] = "load" /\ pc[w] = "load"
         /\ exec'[w].job = exec[w].job /\ exec'[w].reviewedAt = exec[w].reviewedAt
         /\ exec'[w].omitted = exec[w].omitted
         /\ exec'[w].toLoad = exec[w].toLoad \ {m}
         /\ exec'[w].model[m] =
              (IF Reviewable(rows[m], exec[w].reviewedAt) THEN rows[m] ELSE NotLoaded)
         /\ \A k \in Memories \ {m} : exec'[w].model[k] = exec[w].model[k]
BY DEF LoadMemory, LeftToLoad, OnlySlot, TInv, TypeOK, Exec

LEMMA RatedRecord ==
  ASSUME TInv, NEW w \in Slots, RateMemories(w)
  PROVE  /\ OnlySlot(w) /\ pc[w] = "load" /\ exec[w].toLoad = {} /\ exec'[w].toLoad = {}
         /\ exec'[w].job = exec[w].job /\ exec'[w].reviewedAt = exec[w].reviewedAt
         /\ exec'[w].model = exec[w].model
         /\ \/ /\ pc'[w] = "ok" /\ exec' = exec
               /\ \A m \in Memories : exec[w].model[m] = NotLoaded
            \/ pc'[w] = "update"
<1> USE DEF TInv, TypeOK
<1>1. CASE {m \in Memories : exec[w].model[m] # NotLoaded} = {}
  BY <1>1 DEF RateMemories, Goto, OnlySlot
<1>2. CASE {m \in Memories : exec[w].model[m] # NotLoaded} # {}
  <2>1. PICK omitted : exec' = [exec EXCEPT ![w].omitted = omitted]
    BY <1>2 DEF RateMemories
  <2>2. pc' = [pc EXCEPT ![w] = "update"] /\ pc[w] = "load" /\ exec[w].toLoad = {}
    BY <1>2 DEF RateMemories, Goto
  <2> QED BY <2>1, <2>2 DEF OnlySlot, Exec
<1> QED BY <1>1, <1>2

LEMMA UpdatedRecord ==
  ASSUME TInv, NEW w \in Slots, NEW m \in Memories, UpdateMemory(w, m)
  PROVE  /\ OnlySlot(w) /\ pc[w] = "update" /\ pc'[w] = "update"
         /\ exec'[w].job = exec[w].job /\ exec'[w].reviewedAt = exec[w].reviewedAt
         /\ exec'[w].omitted = exec[w].omitted /\ exec'[w].toLoad = exec[w].toLoad
         /\ exec[w].model[m] # NotLoaded /\ exec'[w].model[m] = NotLoaded
         /\ \A k \in Memories \ {m} : exec'[w].model[k] = exec[w].model[k]
BY DEF UpdateMemory, OnlySlot, TInv, TypeOK, Exec

LEMMA FinishedRecord ==
  ASSUME TInv, NEW w \in Slots, FinishReview(w)
  PROVE  /\ OnlySlot(w) /\ pc[w] = "update" /\ pc'[w] = "ok"
         /\ exec'[w].job = exec[w].job /\ exec'[w].reviewedAt = exec[w].reviewedAt
         /\ exec'[w].omitted = exec[w].omitted /\ exec'[w].toLoad = exec[w].toLoad
         /\ \A m \in Memories : /\ exec'[w].model[m] = NotLoaded
                                /\ exec[w].model[m] # NotLoaded => m \in exec[w].omitted
BY IdleRecord DEF FinishReview, Goto, OnlySlot, TInv, TypeOK, Exec

LEMMA FailedRecord ==
  ASSUME TInv, NEW w \in Slots, ReviewFails(w)
  PROVE  /\ OnlySlot(w) /\ pc'[w] = "err" /\ exec'[w].job = exec[w].job
         /\ exec'[w].toLoad = {} /\ \A m \in Memories : exec'[w].model[m] = NotLoaded
BY DEF ReviewFails, Goto, OnlySlot, TInv, TypeOK, IdleExec

LEMMA FetchedRecord ==
  ASSUME TInv, NEW w \in Slots, Fetch(w)
  PROVE  /\ OnlySlot(w) /\ pc'[w] = "load" /\ exec'[w].omitted = {}
         /\ \A m \in Memories : exec'[w].model[m] = NotLoaded
         /\ \E j \in JobIds : /\ exec'[w].job = j /\ exec'[w].toLoad = jobs[j].memories
                              /\ jobs'[j].memories = jobs[j].memories
<1> USE DEF TInv, TypeOK
<1>1. PICK j \in JobIds :
        /\ jobs' = [jobs EXCEPT ![j].status = "Running", ![j].owner = w]
        /\ exec' = [exec EXCEPT ![w] = [IdleExec EXCEPT !.job = j, !.toLoad = jobs[j].memories,
                                                        !.reviewedAt = jobs[j].reviewedAt]]
  BY DEF Fetch
<1>2. exec'[w].job = j /\ exec'[w].toLoad = jobs[j].memories /\ exec'[w].omitted = {}
        /\ \A m \in Memories : exec'[w].model[m] = NotLoaded
  BY <1>1 DEF IdleExec
<1>3. jobs'[j].memories = jobs[j].memories
  BY <1>1 DEF Job
<1> QED BY <1>1, <1>2, <1>3 DEF Fetch, Goto, OnlySlot

LEMMA StoppedRecord ==
  ASSUME TInv, NEW w \in Slots, Stop(w)
  PROVE  OnlySlot(w) /\ pc'[w] = "idle" /\ exec'[w] = IdleExec
BY DEF Stop, Goto, OnlySlot, TInv, TypeOK

(* The ways a slot stops, and the steps that leave all slots alone. *)
Stops(w) == Ack(w) \/ Retry(w) \/ GiveUp(w) \/ IgnoreError(w) \/ SlotCrashes(w)

LEMMA StepKinds ==
  ASSUME [Next]_vars
  PROVE  \/ UNCHANGED <<rows, pc, exec, overlapped>>
         \/ \E w \in Slots : \/ Fetch(w) \/ RateMemories(w) \/ FinishReview(w)
                             \/ ReviewFails(w) \/ Stops(w)
                             \/ \E m \in Memories : LoadMemory(w, m) \/ UpdateMemory(w, m)
BY DEF Next, TakerStep, SlotStep, Stops, vars, worker, history, Tick, AddPendingReview, LockPending,
   ConsumePending, PushReviewJob, TakerFails, ReenqueueOrphan, ReenqueueStalled, Reenqueue

LEMMA StopsKeep ==
  ASSUME NEW w \in Slots, Stops(w)
  PROVE  Stop(w) /\ UNCHANGED <<rows, overlapped>>
BY DEF Stops, Ack, Retry, GiveUp, IgnoreError, SlotCrashes, EndJob, history

LEMMA NextSlotRecords == RInv /\ [Next]_vars => SlotRecords'
<1> SUFFICES ASSUME RInv, [Next]_vars PROVE SlotRecords'
  OBVIOUS
<1> USE DEF RInv, IInv, SlotRecords
<1>1. CASE UNCHANGED <<rows, pc, exec, overlapped>>
  BY <1>1
<1>2. ASSUME NEW w \in Slots, Fetch(w) PROVE SlotRecords'
  BY <1>2, FetchedRecord DEF OnlySlot
<1>3. ASSUME NEW w \in Slots, RateMemories(w) PROVE SlotRecords'
  BY <1>3, RatedRecord DEF OnlySlot
<1>4. ASSUME NEW w \in Slots, FinishReview(w) PROVE SlotRecords'
  BY <1>4, FinishedRecord DEF OnlySlot
<1>5. ASSUME NEW w \in Slots, ReviewFails(w) PROVE SlotRecords'
  BY <1>5, FailedRecord DEF OnlySlot
<1>6. ASSUME NEW w \in Slots, Stops(w) PROVE SlotRecords'
  BY <1>6, StopsKeep, StoppedRecord DEF OnlySlot
<1>7. ASSUME NEW w \in Slots, NEW m \in Memories, LoadMemory(w, m) PROVE SlotRecords'
  BY <1>7, LoadedRecord DEF OnlySlot
<1>8. ASSUME NEW w \in Slots, NEW m \in Memories, UpdateMemory(w, m) PROVE SlotRecords'
  BY <1>8, UpdatedRecord DEF OnlySlot
<1> QED BY <1>1, <1>2, <1>3, <1>4, <1>5, <1>6, <1>7, <1>8, StepKinds

(* Slots that load nothing new keep what was loaded alone, as long as the rows
   are left. *)
LEMMA AloneKept ==
  ASSUME LoadedAlone, UNCHANGED <<rows, overlapped>>,
         \A w \in Slots, m \in Memories :
           exec'[w].model[m] = exec[w].model[m] \/ exec'[w].model[m] = NotLoaded
  PROVE  LoadedAlone'
BY DEF LoadedAlone, NotLoaded

LEMMA NextLoadedAlone == RInv /\ [Next]_vars => LoadedAlone'
<1> SUFFICES ASSUME RInv, [Next]_vars PROVE LoadedAlone'
  OBVIOUS
<1> USE DEF RInv, IInv
<1>1. CASE UNCHANGED <<rows, pc, exec, overlapped>>
  BY <1>1 DEF LoadedAlone
<1>2. ASSUME NEW w \in Slots, Fetch(w) PROVE LoadedAlone'
  <2>1. UNCHANGED <<rows, overlapped>>
    BY <1>2 DEF Fetch, history
  <2>2. \A v \in Slots, m \in Memories :
          exec'[v].model[m] = exec[v].model[m] \/ exec'[v].model[m] = NotLoaded
    BY <1>2, FetchedRecord DEF OnlySlot
  <2> QED BY <2>1, <2>2, AloneKept
<1>3. ASSUME NEW w \in Slots, RateMemories(w) PROVE LoadedAlone'
  BY <1>3, RatedRecord, AloneKept DEF OnlySlot, RateMemories, history
<1>4. ASSUME NEW w \in Slots, FinishReview(w) PROVE LoadedAlone'
  BY <1>4, FinishedRecord, AloneKept DEF OnlySlot, FinishReview, history
<1>5. ASSUME NEW w \in Slots, ReviewFails(w) PROVE LoadedAlone'
  BY <1>5, FailedRecord, AloneKept DEF OnlySlot, ReviewFails, history
<1>6. ASSUME NEW w \in Slots, Stops(w) PROVE LoadedAlone'
  BY <1>6, StopsKeep, StoppedRecord, IdleRecord, AloneKept DEF OnlySlot
<1>7. ASSUME NEW w \in Slots, NEW m \in Memories, LoadMemory(w, m) PROVE LoadedAlone'
  <2>1. UNCHANGED rows /\ overlapped \subseteq overlapped'
    BY <1>7 DEF LoadMemory
  <2>2. exec'[w].model[m] # NotLoaded =>
          exec'[w].model[m] = rows[m] /\ Reviewable(rows[m], exec[w].reviewedAt)
    BY <1>7, LoadedRecord
  <2>3. exec'[w].model[m] # NotLoaded /\ m \notin overlapped' =>
          \A v \in Slots \ {w} : exec[v].model[m] = NotLoaded
    BY <1>7, <2>2 DEF LoadMemory, TInv, TypeOK
  <2>4. ASSUME NEW k \in Memories \ overlapped', NEW u \in Slots, exec'[u].model[k] # NotLoaded
        PROVE  /\ exec'[u].model[k] = rows[k]
               /\ \A v \in Slots \ {u} : exec'[v].model[k] = NotLoaded
    <3>1. CASE k # m
      BY <1>7, <2>1, <2>4, <3>1, LoadedRecord DEF OnlySlot, LoadedAlone
    <3>2. CASE k = m /\ u = w
      BY <1>7, <2>2, <2>3, <2>4, <3>2, LoadedRecord DEF OnlySlot
    <3>3. CASE k = m /\ u # w
      <4>1. exec[u].model[m] # NotLoaded
        BY <1>7, <2>4, <3>3, LoadedRecord DEF OnlySlot
      <4>2. exec'[w].model[m] = NotLoaded
        BY <2>3, <2>4, <3>3, <4>1
      <4> QED BY <1>7, <2>1, <2>4, <3>3, <4>1, <4>2, LoadedRecord DEF OnlySlot, LoadedAlone
    <3> QED BY <3>1, <3>2, <3>3
  <2> QED BY <2>1, <2>4 DEF LoadedAlone, NotLoaded
<1>8. ASSUME NEW w \in Slots, NEW m \in Memories, UpdateMemory(w, m) PROVE LoadedAlone'
  <2>1. UNCHANGED overlapped /\ \A k \in Memories \ {m} : rows'[k] = rows[k]
    BY <1>8 DEF UpdateMemory, history, TInv, TypeOK
  <2>2. m \notin overlapped => \A v \in Slots : exec'[v].model[m] = NotLoaded
    BY <1>8, UpdatedRecord DEF OnlySlot, LoadedAlone
  <2>3. \A v \in Slots : \A k \in Memories \ {m} : exec'[v].model[k] = exec[v].model[k]
    BY <1>8, UpdatedRecord DEF OnlySlot
  <2> QED BY <2>1, <2>2, <2>3 DEF LoadedAlone, NotLoaded
<1> QED BY <1>1, <1>2, <1>3, <1>4, <1>5, <1>6, <1>7, <1>8, StepKinds

LEMMA InitRInv == Init => RInv
<1> SUFFICES ASSUME Init PROVE RInv
  OBVIOUS
<1>1. SlotRecords /\ LoadedAlone /\ LeftOrDone
  BY IdleRecord DEF Init, SlotRecords, LoadedAlone, LeftOrDone
<1> QED BY <1>1, InitIInv DEF RInv

(* A row whose loading did not overlap only gains later reviews. *)
LEMMA LastRises ==
  ASSUME RInv, [Next]_vars, NEW m \in Memories \ overlapped
  PROVE  LastOf(rows[m]) \in Nat /\ LastOf(rows'[m]) \in Nat /\ LastOf(rows[m]) <= LastOf(rows'[m])
<1> USE DEF RInv, IInv, TInv
<1>0. \A chain \in Chain \ {NotLoaded} : LastOf(chain) \in Nat
  BY MemoryReviewAssumption DEF LastOf, Chain, Time, NotLoaded
<1>1. LastOf(rows[m]) \in Nat /\ LastOf(rows'[m]) \in Nat
  BY <1>0, NextTInv DEF TypeOK
<1>2. ASSUME NEW w \in Slots, NEW k \in Memories, UpdateMemory(w, k)
      PROVE  LastOf(rows[m]) <= LastOf(rows'[m])
  <2>1. CASE k # m
    BY <1>1, <1>2, <2>1 DEF UpdateMemory, TypeOK
  <2>2. CASE k = m
    <3>1. exec[w].model[m] = rows[m] /\ exec[w].reviewedAt \in Time /\ rows[m] \in Chain
      BY <1>2, <2>2, UpdatedRecord DEF LoadedAlone, TypeOK, Exec
    <3>2. LastOf(rows[m]) + Day <= exec[w].reviewedAt
      BY <1>2, <2>2, <3>1, UpdatedRecord DEF LoadedIsDue
    <3>3. rows'[m] = Append(rows[m], exec[w].reviewedAt)
      BY <1>2, <2>2, <3>1 DEF UpdateMemory, ReviewOf, TypeOK
    <3>4. LastOf(rows'[m]) = exec[w].reviewedAt
      BY <3>1, <3>3 DEF LastOf, Chain
    <3> QED BY <1>1, <3>2, <3>4, MemoryReviewAssumption
  <2> QED BY <2>1, <2>2
<1>3. CASE UNCHANGED rows
  BY <1>1, <1>3
<1>4. ASSUME NEW w \in Slots, Stops(w) PROVE UNCHANGED rows
  BY <1>4, StopsKeep
<1>5. ASSUME NEW w \in Slots,
             \/ Fetch(w) \/ RateMemories(w) \/ FinishReview(w) \/ ReviewFails(w)
             \/ \E k \in Memories : LoadMemory(w, k)
      PROVE  UNCHANGED rows
  BY <1>5 DEF Fetch, RateMemories, FinishReview, ReviewFails, LoadMemory
<1> QED BY <1>1, <1>2, <1>3, <1>4, <1>5, StepKinds

(* What counts as overlapped stays so. *)
LEMMA OverlapsStay ==
  ASSUME [Next]_vars
  PROVE  overlapped \subseteq overlapped'
<1>1. ASSUME NEW w \in Slots, Stops(w) PROVE UNCHANGED overlapped
  BY <1>1, StopsKeep
<1>2. ASSUME NEW w \in Slots,
             \/ Fetch(w) \/ RateMemories(w) \/ FinishReview(w) \/ ReviewFails(w)
             \/ \E k \in Memories : LoadMemory(w, k) \/ UpdateMemory(w, k)
      PROVE  overlapped \subseteq overlapped'
  BY <1>2 DEF Fetch, RateMemories, FinishReview, ReviewFails, LoadMemory, UpdateMemory, history
<1> QED BY <1>1, <1>2, StepKinds

(* Done with a memory, done for good. *)
LEMMA DoneKept ==
  ASSUME RInv, [Next]_vars, NEW w \in Slots, NEW m \in Memories \ overlapped,
         exec'[w].reviewedAt = exec[w].reviewedAt, DoneWith(w, m)
  PROVE  DoneWith(w, m)'
<1>1. exec[w].reviewedAt \in Nat /\ Day \in Nat
  BY MemoryReviewAssumption DEF RInv, IInv, TInv, TypeOK, Exec, Time
<1>2. LastOf(rows[m]) \in Nat /\ LastOf(rows'[m]) \in Nat /\ LastOf(rows[m]) <= LastOf(rows'[m])
  BY LastRises
<1>3. exec'[w].reviewedAt < LastOf(rows'[m]) + Day
  BY <1>1, <1>2 DEF DoneWith
<1> QED BY <1>3 DEF DoneWith, LastOf

(* The part of LeftOrDone about one slot. *)
Left(w, m) == m \in exec[w].toLoad \/ exec[w].model[m] # NotLoaded \/ m \in exec[w].omitted
LeftOrDoneAt(w) ==
  \A j \in JobIds : Owns(w, j) /\ pc[w] \in {"load", "update", "ok"} =>
    \A m \in jobs[j].memories \ overlapped : Left(w, m) \/ DoneWith(w, m)

(* A slot that keeps its job keeps the promise about every memory that stays
   left to it or that it is done with now. *)
LEMMA LeftKept ==
  ASSUME RInv, [Next]_vars, NEW w \in Slots, ~ Fetch(w), exec'[w].job \in {exec[w].job, NoJob},
         pc'[w] \in {"load", "update", "ok"} => pc[w] \in {"load", "update", "ok"},
         exec'[w].reviewedAt = exec[w].reviewedAt,
         \A m \in Memories \ overlapped : Left(w, m) => Left(w, m)' \/ DoneWith(w, m)'
  PROVE  LeftOrDoneAt(w)'
<1> SUFFICES ASSUME NEW j \in JobIds, Owns(w, j)', pc'[w] \in {"load", "update", "ok"},
                    NEW m \in jobs'[j].memories, m \notin overlapped'
             PROVE  Left(w, m)' \/ DoneWith(w, m)'
  BY DEF LeftOrDoneAt, Left, DoneWith, LastOf, Owns, NotLoaded
<1>1. jobs[j].owner = w /\ jobs'[j].memories = jobs[j].memories
  BY OwnedBefore DEF Owns, RInv, IInv
<1>2. Owns(w, j)
  BY <1>1, MemoryReviewAssumption DEF Owns
<1>3. m \in Memories \ overlapped
  BY <1>1, OverlapsStay DEF RInv, IInv, TInv, TypeOK, Job
<1>4. Left(w, m) \/ DoneWith(w, m)
  BY <1>1, <1>2, <1>3 DEF RInv, LeftOrDone, Left
<1> QED BY <1>3, <1>4, DoneKept

LEMMA NextLeftOrDone == RInv /\ [Next]_vars => LeftOrDone'
<1> SUFFICES ASSUME RInv, [Next]_vars, NEW w \in Slots PROVE LeftOrDoneAt(w)'
  BY DEF LeftOrDone, LeftOrDoneAt, Left, DoneWith, LastOf, Owns, NotLoaded
<1>1. ASSUME exec'[w] = exec[w], pc'[w] = pc[w] PROVE LeftOrDoneAt(w)'
  <2>1. CASE Fetch(w)
    BY <1>1, <2>1 DEF Fetch, Goto, RInv, IInv, TInv, TypeOK
  <2>2. CASE ~ Fetch(w)
    BY <1>1, <2>2, LeftKept DEF Left, NotLoaded
  <2> QED BY <2>1, <2>2
<1>2. ASSUME NEW v \in Slots, v # w, OnlySlot(v) PROVE LeftOrDoneAt(w)'
  BY <1>1, <1>2 DEF OnlySlot
<1>3. ASSUME pc'[w] \notin {"load", "update", "ok"} PROVE LeftOrDoneAt(w)'
  BY <1>3 DEF LeftOrDoneAt
<1>4. ASSUME Fetch(w) PROVE LeftOrDoneAt(w)'
  <2>1. PICK k \in JobIds : /\ exec'[w].job = k /\ exec'[w].toLoad = jobs[k].memories
                            /\ jobs'[k].memories = jobs[k].memories
    BY <1>4, FetchedRecord DEF RInv, IInv
  <2> QED BY <2>1 DEF LeftOrDoneAt, Left, Owns
<1>5. ASSUME pc[w] # "idle" PROVE ~ Fetch(w)
  BY <1>5 DEF Fetch
<1>6. ASSUME RateMemories(w) PROVE LeftOrDoneAt(w)'
  <2>1. /\ pc[w] = "load" /\ exec[w].toLoad = {} /\ exec'[w].job = exec[w].job
        /\ exec'[w].reviewedAt = exec[w].reviewedAt /\ exec'[w].model = exec[w].model
    BY <1>6, RatedRecord DEF RInv, IInv
  <2>2. exec[w].omitted = {}
    BY <2>1 DEF RInv, SlotRecords
  <2> QED BY <1>5, <2>1, <2>2, LeftKept DEF Left, NotLoaded
<1>7. ASSUME FinishReview(w) PROVE LeftOrDoneAt(w)'
  <2>1. /\ pc[w] = "update" /\ exec'[w].job = exec[w].job
        /\ exec'[w].reviewedAt = exec[w].reviewedAt
        /\ exec'[w].omitted = exec[w].omitted /\ exec'[w].toLoad = exec[w].toLoad
        /\ \A m \in Memories : exec[w].model[m] # NotLoaded => m \in exec[w].omitted
    BY <1>7, FinishedRecord DEF RInv, IInv
  <2> QED BY <1>5, <2>1, LeftKept DEF Left, NotLoaded
<1>8. ASSUME NEW m \in Memories, LoadMemory(w, m) PROVE LeftOrDoneAt(w)'
  <2>1. /\ pc[w] = "load" /\ exec'[w].job = exec[w].job
        /\ exec'[w].reviewedAt = exec[w].reviewedAt
        /\ exec'[w].omitted = exec[w].omitted
        /\ exec'[w].toLoad = exec[w].toLoad \ {m}
        /\ exec'[w].model[m] =
              (IF Reviewable(rows[m], exec[w].reviewedAt) THEN rows[m] ELSE NotLoaded)
        /\ \A k \in Memories \ {m} : exec'[w].model[k] = exec[w].model[k]
    BY <1>8, LoadedRecord DEF RInv, IInv
  <2>2. rows'[m] = rows[m] /\ rows[m] # NotLoaded
    BY <1>8 DEF LoadMemory, RInv, IInv, TInv, TypeOK
  <2>3. Left(w, m)' \/ DoneWith(w, m)'
    <3>1. CASE Reviewable(rows[m], exec[w].reviewedAt)
      BY <2>1, <2>2, <3>1 DEF Left, NotLoaded
    <3>2. CASE ~ Reviewable(rows[m], exec[w].reviewedAt)
      <4>1. LastOf(rows[m]) \in Nat /\ exec[w].reviewedAt \in Nat /\ Day \in Nat \ {0}
        BY MemoryReviewAssumption DEF RInv, IInv, TInv, TypeOK, LastOf, Chain, Time, NotLoaded, Exec
      <4>2. exec'[w].reviewedAt < LastOf(rows'[m]) + Day
        BY <2>1, <2>2, <3>2, <4>1 DEF Reviewable
      <4> QED BY <4>2 DEF DoneWith, LastOf
    <3> QED BY <3>1, <3>2
  <2>4. \A k \in Memories \ {m} : Left(w, k) => Left(w, k)'
    BY <2>1 DEF Left, NotLoaded
  <2> QED BY <1>5, <2>1, <2>3, <2>4, LeftKept
<1>9. ASSUME NEW m \in Memories, UpdateMemory(w, m) PROVE LeftOrDoneAt(w)'
  <2>1. /\ pc[w] = "update" /\ exec'[w].job = exec[w].job
        /\ exec'[w].reviewedAt = exec[w].reviewedAt
        /\ exec'[w].omitted = exec[w].omitted /\ exec'[w].toLoad = exec[w].toLoad
        /\ \A k \in Memories \ {m} : exec'[w].model[k] = exec[w].model[k]
    BY <1>9, UpdatedRecord DEF RInv, IInv
  <2>2. exec[w].model[m] \in Chain /\ exec[w].reviewedAt \in Time
    BY DEF RInv, IInv, TInv, TypeOK, Exec
  <2>3. rows'[m] = Append(exec[w].model[m], exec[w].reviewedAt)
    BY <1>9 DEF UpdateMemory, ReviewOf, RInv, IInv, TInv, TypeOK
  <2>4. LastOf(rows'[m]) = exec[w].reviewedAt
    BY <2>2, <2>3 DEF LastOf, Chain
  <2>5. exec'[w].reviewedAt < LastOf(rows'[m]) + Day
    BY <2>1, <2>2, <2>4, MemoryReviewAssumption DEF Time
  <2>6. DoneWith(w, m)'
    BY <2>5 DEF DoneWith, LastOf
  <2>7. \A k \in Memories \ {m} : Left(w, k) => Left(w, k)'
    BY <2>1 DEF Left, NotLoaded
  <2> QED BY <1>5, <2>1, <2>6, <2>7, LeftKept
<1>10. ASSUME NEW v \in Slots,
              \/ Fetch(v) \/ RateMemories(v) \/ FinishReview(v) \/ ReviewFails(v) \/ Stops(v)
              \/ \E m \in Memories : LoadMemory(v, m) \/ UpdateMemory(v, m)
       PROVE  OnlySlot(v)
  BY <1>10, FetchedRecord, RatedRecord, FinishedRecord, FailedRecord, StopsKeep, StoppedRecord,
     LoadedRecord, UpdatedRecord DEF RInv, IInv
<1>11. ASSUME ReviewFails(w) \/ Stops(w) PROVE LeftOrDoneAt(w)'
  BY <1>3, <1>11, FailedRecord, StopsKeep, StoppedRecord DEF RInv, IInv
<1>12. CASE UNCHANGED <<rows, pc, exec, overlapped>>
  BY <1>1, <1>12
<1> QED
  BY <1>2, <1>4, <1>6, <1>7, <1>8, <1>9, <1>10, <1>11, <1>12, StepKinds

LEMMA AlwaysRInv == Spec => []RInv
<1>1. RInv /\ [Next]_vars => RInv'
  BY NextIInv, NextSlotRecords, NextLoadedAlone, NextLeftOrDone DEF RInv
<1> QED BY InitRInv, <1>1, PTL DEF Spec

(* For any number of jobs, deliveries, failures and memories, a job that ends
   well while it owns its job left no memory out: each was reviewed less than a
   day before the job's time or later, was given no rating, or was loaded by two
   jobs at once. *)
THEOREM FinishedJobsAreComplete == Spec => []FinishedJobIsComplete
<1>1. RInv => FinishedJobIsComplete
  <2> SUFFICES ASSUME RInv, NEW w \in Slots, pc[w] = "ok", OwnsJob(w),
                      NEW m \in jobs[exec[w].job].memories \ (exec[w].omitted \cup overlapped)
               PROVE  exec[w].reviewedAt < LastOf(rows[m]) + Day
    BY DEF FinishedJobIsComplete
  <2> USE DEF RInv, IInv, TInv
  <2>1. exec[w].job \in JobIds /\ Owns(w, exec[w].job)
    BY DEF SlotsHaveJobs, OwnsJob, Owns
  <2>2. m \in Memories
    BY <2>1 DEF TypeOK, Job
  <2>3. m \notin exec[w].toLoad /\ exec[w].model[m] = NotLoaded
    BY <2>2 DEF SlotRecords
  <2> QED BY <2>1, <2>3 DEF LeftOrDone, DoneWith
<1> QED BY <1>1, AlwaysRInv, PTL

LEMMA AppendUndone ==
  ASSUME NEW chain \in Chain, NEW at \in Time
  PROVE  LET longer == Append(chain, at) IN chain = SubSeq(longer, 1, Len(longer) - 1)
<1> DEFINE longer == Append(chain, at)
<1>1. longer \in Seq(Time) /\ Len(longer) = Len(chain) + 1 /\ Len(chain) \in Nat
        /\ \A k \in 1 .. Len(chain) : longer[k] = chain[k]
  BY DEF Chain
<1> HIDE DEF longer
<1>2. SubSeq(longer, 1, Len(longer) - 1) = [k \in 1 .. Len(chain) |-> longer[k]]
  BY <1>1, SubSeqProperties
<1>3. chain = [k \in 1 .. Len(chain) |-> chain[k]]
  BY DEF Chain
<1>4. chain = SubSeq(longer, 1, Len(longer) - 1)
  BY <1>1, <1>2, <1>3
<1> QED BY <1>4 DEF longer

LEMMA WholeChain ==
  ASSUME NEW chain \in Chain
  PROVE  chain = SubSeq(chain, 1, Len(chain) - 0)
<1>1. Len(chain) \in Nat /\ Len(chain) - 0 = Len(chain)
  BY DEF Chain
<1> QED BY <1>1 DEF Chain

(* A row that jobs did not load at the same time is only ever extended, by one
   review at a time: no job undoes the review of another. *)
THEOREM SoleReviewsExtend == Spec => SoleReviewExtends
<1>1. ASSUME RInv, [Next]_vars, NEW m \in Memories, m \notin overlapped
      PROVE  \E k \in 0 .. 1 : rows[m] = SubSeq(rows'[m], 1, Len(rows'[m]) - k)
  <2> USE DEF RInv, IInv, TInv
  <2>0. rows[m] \in Chain
    BY <1>1 DEF TypeOK
  <2>1. CASE rows'[m] = rows[m]
    BY <2>0, <2>1, WholeChain
  <2>2. ASSUME NEW w \in Slots, UpdateMemory(w, m)
        PROVE  \E k \in 0 .. 1 : rows[m] = SubSeq(rows'[m], 1, Len(rows'[m]) - k)
    <3>1. exec[w].model[m] = rows[m] /\ exec[w].reviewedAt \in Time
      BY <1>1, <2>2, UpdatedRecord DEF LoadedAlone, TypeOK, Exec
    <3>2. rows'[m] = Append(rows[m], exec[w].reviewedAt)
      BY <1>1, <2>2, <3>1 DEF UpdateMemory, ReviewOf, TypeOK
    <3>3. rows[m] = SubSeq(rows'[m], 1, Len(rows'[m]) - 1)
      BY <2>0, <3>1, <3>2, AppendUndone
    <3> QED BY <3>3
  <2>3. ASSUME NEW w \in Slots, NEW k \in Memories \ {m}, UpdateMemory(w, k)
        PROVE  rows'[m] = rows[m]
    BY <2>3 DEF UpdateMemory, TypeOK
  <2>4. ASSUME NEW w \in Slots,
               \/ Fetch(w) \/ RateMemories(w) \/ FinishReview(w) \/ ReviewFails(w)
               \/ \E k \in Memories : LoadMemory(w, k)
        PROVE  UNCHANGED rows
    BY <2>4 DEF Fetch, RateMemories, FinishReview, ReviewFails, LoadMemory
  <2>5. ASSUME NEW w \in Slots, Stops(w) PROVE UNCHANGED rows
    BY <2>5, StopsKeep
  <2> QED BY <1>1, <2>1, <2>2, <2>3, <2>4, <2>5, StepKinds
<1>2. RInv /\ [Next]_vars =>
        [\A m \in Memories :
           m \in overlapped \/ \E k \in 0 .. 1 : rows[m] = SubSeq(rows'[m], 1, Len(rows'[m]) - k)]_vars
  BY <1>1
<1> QED BY <1>2, AlwaysRInv, PTL DEF Spec, SoleReviewExtends
--------------------------------------------------------------------------------
(***************************************************************************)
(* The consumed items.                                                     *)
(***************************************************************************)
(* Locked items are still pending, and locked by one taker. *)
LocksHold ==
  /\ \A t \in Takers : taker[t].step = "locked" =>
       \A i \in taker[t].items : queue[i].status = "pending"
  /\ \A t, u \in Takers : taker[t].step = "locked" /\ taker[u].step = "locked" => t = u

Consumed(i) == queue[i].status = "consumed"

(* A consumed item has one holder, or its job ended, or it was dropped; nobody
   holds another. *)
HeldOnce(i) ==
  \/ ~ Consumed(i) /\ Holders(i) = {} /\ i \notin settled \cup lost
  \/ Consumed(i) /\ i \notin settled \cup lost /\ \E h : Holders(i) = {h}
  \/ Consumed(i) /\ Holders(i) = {} /\ i \in settled /\ i \notin lost
  \/ Consumed(i) /\ Holders(i) = {} /\ i \in lost /\ i \notin settled

HInv == TInv /\ LocksHold /\ \A i \in Items : HeldOnce(i)

TakerHolds(t, i) == taker[t].step = "push" /\ i \in taker[t].items
JobHolds(j, i) == i \in jobs[j].items

LEMMA HoldersAre ==
  ASSUME NEW i
  PROVE  /\ \A h : h \in Holders(i) <=>
              \/ \E t \in Takers : h = <<"taker", t>> /\ TakerHolds(t, i)
              \/ \E j \in JobIds : h = <<"job", j>> /\ JobHolds(j, i)
         /\ \A h : h \in Holders(i)' <=>
              \/ \E t \in Takers : h = <<"taker", t>> /\ TakerHolds(t, i)'
              \/ \E j \in JobIds : h = <<"job", j>> /\ JobHolds(j, i)'
BY DEF Holders, TakerHolds, JobHolds

LEMMA SoleHolder ==
  ASSUME NEW i, HeldOnce(i), NEW h \in Holders(i)
  PROVE  Consumed(i) /\ Holders(i) = {h} /\ i \notin settled /\ i \notin lost
BY DEF HeldOnce

LEMMA OnlyTaker ==
  ASSUME NEW i, NEW t \in Takers, Holders(i) = {<<"taker", t>>}
  PROVE  /\ \A u \in Takers \ {t} : ~ TakerHolds(u, i)
         /\ \A j \in JobIds : ~ JobHolds(j, i)
<1>1. ASSUME NEW u \in Takers \ {t}, TakerHolds(u, i) PROVE FALSE
  <2>1. <<"taker", u>> \in Holders(i)
    BY <1>1, HoldersAre
  <2>2. <<"taker", u>> = <<"taker", t>>
    BY <2>1
  <2> QED BY <2>2
<1>2. ASSUME NEW j \in JobIds, JobHolds(j, i) PROVE FALSE
  <2>1. <<"job", j>> \in Holders(i)
    BY <1>2, HoldersAre
  <2>2. <<"job", j>> = <<"taker", t>>
    BY <2>1
  <2> QED BY <2>2
<1> QED BY <1>1, <1>2

LEMMA OnlyJob ==
  ASSUME NEW i, NEW j \in JobIds, Holders(i) = {<<"job", j>>}
  PROVE  /\ \A t \in Takers : ~ TakerHolds(t, i)
         /\ \A k \in JobIds \ {j} : ~ JobHolds(k, i)
<1>1. ASSUME NEW t \in Takers, TakerHolds(t, i) PROVE FALSE
  <2>1. <<"taker", t>> \in Holders(i)
    BY <1>1, HoldersAre
  <2>2. <<"taker", t>> = <<"job", j>>
    BY <2>1
  <2> QED BY <2>2
<1>2. ASSUME NEW k \in JobIds \ {j}, JobHolds(k, i) PROVE FALSE
  <2>1. <<"job", k>> \in Holders(i)
    BY <1>2, HoldersAre
  <2>2. <<"job", k>> = <<"job", j>>
    BY <2>1
  <2> QED BY <2>2
<1> QED BY <1>1, <1>2

(* An item that no step concerns. *)
Untouched(i) ==
  /\ Consumed(i)' = Consumed(i)
  /\ i \in settled' <=> i \in settled
  /\ i \in lost' <=> i \in lost
  /\ \A t \in Takers : TakerHolds(t, i)' <=> TakerHolds(t, i)
  /\ \A j \in JobIds : JobHolds(j, i)' <=> JobHolds(j, i)

LEMMA UntouchedHeld ==
  ASSUME NEW i, HeldOnce(i), Untouched(i)
  PROVE  HeldOnce(i)'
<1>1. \A h : h \in Holders(i)' <=> h \in Holders(i)
  BY HoldersAre DEF Untouched
<1>2. Holders(i)' = Holders(i)
  BY <1>1
<1> QED BY <1>2 DEF HeldOnce, Untouched

(* The holder of an item changes, or ends. *)
LEMMA PassedOn ==
  ASSUME NEW i, NEW h, Holders(i)' = {h}, Consumed(i)',
         i \notin settled, i \notin lost, UNCHANGED <<settled, lost>>
  PROVE  HeldOnce(i)'
BY DEF HeldOnce

LEMMA InitHInv == Init => HInv
<1> SUFFICES ASSUME Init PROVE HInv
  OBVIOUS
<1>1. LocksHold
  BY DEF Init, LocksHold
<1>2. ASSUME NEW i \in Items PROVE HeldOnce(i)
  <2>1. Holders(i) = {}
    BY DEF Init, Holders, FreeJob
  <2> QED BY <2>1 DEF Init, HeldOnce, Consumed
<1> QED BY <1>1, <1>2, InitTInv DEF HInv

LEMMA PushHolds ==
  ASSUME HInv, NEW t \in Takers, PushReviewJob(t)
  PROVE  LocksHold' /\ \A i \in Items : HeldOnce(i)'
<1> USE DEF HInv, TInv
<1>1. PICK j \in JobIds :
        /\ jobs[j] = FreeJob
        /\ jobs' = [jobs EXCEPT ![j] =
                     [FreeJob EXCEPT !.status = "Pending", !.items = taker[t].items,
                                     !.memories = UNION {queue[i].memories : i \in taker[t].items},
                                     !.reviewedAt = now]]
  BY DEF PushReviewJob
<1>2. jobs'[j].items = taker[t].items /\ \A k \in JobIds \ {j} : jobs'[k] = jobs[k]
  BY <1>1 DEF FreeJob, TypeOK
<1>3. /\ taker[t].step = "push" /\ taker'[t].step = "idle"
      /\ \A u \in Takers \ {t} : taker'[u] = taker[u]
      /\ UNCHANGED <<queue, settled, lost>>
  BY DEF PushReviewJob, TypeOK, history
<1>4. LocksHold'
  BY <1>3 DEF LocksHold
<1>5. ASSUME NEW i \in Items, i \in taker[t].items PROVE HeldOnce(i)'
  <2>1. TakerHolds(t, i)
    BY <1>3, <1>5 DEF TakerHolds
  <2>2. <<"taker", t>> \in Holders(i)
    BY <2>1, HoldersAre
  <2>3. Consumed(i) /\ Holders(i) = {<<"taker", t>>} /\ i \notin settled /\ i \notin lost
    BY <2>2, SoleHolder
  <2>4. \A u \in Takers : ~ TakerHolds(u, i)'
    BY <1>3, <2>3, OnlyTaker DEF TakerHolds
  <2>5. \A k \in JobIds : JobHolds(k, i)' <=> k = j
    BY <1>2, <1>5, <2>3, OnlyTaker DEF JobHolds
  <2>6. Holders(i)' = {<<"job", j>>}
    BY <2>4, <2>5, HoldersAre
  <2> QED BY <1>3, <2>3, <2>6, PassedOn DEF Consumed
<1>6. ASSUME NEW i \in Items, i \notin taker[t].items PROVE HeldOnce(i)'
  <2>1. Untouched(i)
    BY <1>1, <1>2, <1>3, <1>6 DEF Untouched, TakerHolds, JobHolds, Consumed, FreeJob
  <2> QED BY <2>1, UntouchedHeld
<1> QED BY <1>4, <1>5, <1>6

LEMMA ConsumeHolds ==
  ASSUME HInv, NEW t \in Takers, ConsumePending(t)
  PROVE  LocksHold' /\ \A i \in Items : HeldOnce(i)'
<1> USE DEF HInv, TInv
<1>1. /\ taker[t].step = "locked" /\ taker'[t].step = "push"
      /\ taker'[t].items = taker[t].items
      /\ \A u \in Takers \ {t} : taker'[u] = taker[u]
      /\ UNCHANGED <<jobs, settled, lost>>
  BY DEF ConsumePending, TypeOK, Taker, history
<1>2. \A i \in Items : queue'[i].status =
                         IF i \in taker[t].items THEN "consumed" ELSE queue[i].status
  BY DEF ConsumePending, TypeOK, Item
<1>3. \A u \in Takers : taker'[u].step # "locked"
  BY <1>1 DEF LocksHold
<1>4. LocksHold'
  BY <1>3 DEF LocksHold
<1>5. ASSUME NEW i \in Items, i \in taker[t].items PROVE HeldOnce(i)'
  <2>1. ~ Consumed(i)
    BY <1>1, <1>5 DEF LocksHold, Consumed
  <2>2. Holders(i) = {} /\ i \notin settled /\ i \notin lost
    BY <2>1 DEF HeldOnce
  <2>3. \A u \in Takers : TakerHolds(u, i)' <=> u = t
    <3>1. ASSUME NEW u \in Takers PROVE ~ TakerHolds(u, i)
      BY <2>2, HoldersAre
    <3> QED BY <1>1, <1>5, <3>1 DEF TakerHolds
  <2>4. \A j \in JobIds : ~ JobHolds(j, i)'
    <3>1. ASSUME NEW j \in JobIds PROVE ~ JobHolds(j, i)
      BY <2>2, HoldersAre
    <3> QED BY <1>1, <3>1 DEF JobHolds
  <2>5. Holders(i)' = {<<"taker", t>>}
    BY <2>3, <2>4, HoldersAre
  <2>6. Consumed(i)'
    BY <1>2, <1>5 DEF Consumed
  <2> QED BY <1>1, <2>2, <2>5, <2>6, PassedOn
<1>6. ASSUME NEW i \in Items, i \notin taker[t].items PROVE HeldOnce(i)'
  <2>1. Untouched(i)
    BY <1>1, <1>2, <1>6 DEF Untouched, TakerHolds, JobHolds, Consumed
  <2> QED BY <2>1, UntouchedHeld
<1> QED BY <1>4, <1>5, <1>6

LEMMA FailHolds ==
  ASSUME HInv, NEW t \in Takers, TakerFails(t)
  PROVE  LocksHold' /\ \A i \in Items : HeldOnce(i)'
<1> USE DEF HInv, TInv
<1>1. /\ taker'[t].step = "idle"
      /\ \A u \in Takers \ {t} : taker'[u] = taker[u]
      /\ UNCHANGED <<queue, jobs, settled>>
      /\ lost' = IF taker[t].step = "push" THEN lost \cup taker[t].items ELSE lost
  BY DEF TakerFails, TypeOK
<1>2. LocksHold'
  BY <1>1 DEF LocksHold
<1>3. ASSUME NEW i \in Items, TakerHolds(t, i) PROVE HeldOnce(i)'
  <2>1. <<"taker", t>> \in Holders(i)
    BY <1>3, HoldersAre
  <2>2. Consumed(i) /\ Holders(i) = {<<"taker", t>>} /\ i \notin settled /\ i \notin lost
    BY <2>1, SoleHolder
  <2>3. \A u \in Takers : ~ TakerHolds(u, i)'
    BY <1>1, <2>2, OnlyTaker DEF TakerHolds
  <2>4. \A j \in JobIds : ~ JobHolds(j, i)'
    BY <1>1, <2>2, OnlyTaker DEF JobHolds
  <2>5. Holders(i)' = {}
    BY <2>3, <2>4, HoldersAre
  <2> QED BY <1>1, <1>3, <2>2, <2>5 DEF HeldOnce, TakerHolds, Consumed
<1>4. ASSUME NEW i \in Items, ~ TakerHolds(t, i) PROVE HeldOnce(i)'
  <2>1. Untouched(i)
    BY <1>1, <1>4 DEF Untouched, TakerHolds, JobHolds, Consumed
  <2> QED BY <2>1, UntouchedHeld
<1> QED BY <1>2, <1>3, <1>4

LEMMA EndHolds ==
  ASSUME HInv, NEW j \in JobIds, EndJob(j), UNCHANGED <<intake, lost>>
  PROVE  LocksHold' /\ \A i \in Items : HeldOnce(i)'
<1> USE DEF HInv, TInv
<1>1. /\ jobs'[j].items = {} /\ \A k \in JobIds \ {j} : jobs'[k] = jobs[k]
      /\ settled' = settled \cup jobs[j].items
      /\ UNCHANGED <<queue, taker, lost>>
  BY DEF EndJob, FreeJob, TypeOK, intake
<1>2. LocksHold'
  BY <1>1 DEF LocksHold
<1>3. ASSUME NEW i \in Items, JobHolds(j, i) PROVE HeldOnce(i)'
  <2>1. <<"job", j>> \in Holders(i)
    BY <1>3, HoldersAre
  <2>2. Consumed(i) /\ Holders(i) = {<<"job", j>>} /\ i \notin settled /\ i \notin lost
    BY <2>1, SoleHolder
  <2>3. \A t \in Takers : ~ TakerHolds(t, i)'
    BY <1>1, <2>2, OnlyJob DEF TakerHolds
  <2>4. \A k \in JobIds : ~ JobHolds(k, i)'
    BY <1>1, <2>2, OnlyJob DEF JobHolds
  <2>5. Holders(i)' = {}
    BY <2>3, <2>4, HoldersAre
  <2> QED BY <1>1, <1>3, <2>2, <2>5 DEF HeldOnce, JobHolds, Consumed
<1>4. ASSUME NEW i \in Items, ~ JobHolds(j, i) PROVE HeldOnce(i)'
  <2>1. Untouched(i)
    BY <1>1, <1>4 DEF Untouched, TakerHolds, JobHolds, Consumed
  <2> QED BY <2>1, UntouchedHeld
<1> QED BY <1>2, <1>3, <1>4

(* Jobs that change hands keep their items. *)
LEMMA SameItemsHold ==
  ASSUME HInv, UNCHANGED <<queue, taker, settled, lost>>,
         \A j \in JobIds : jobs'[j].items = jobs[j].items
  PROVE  LocksHold' /\ \A i \in Items : HeldOnce(i)'
<1>1. LocksHold'
  BY DEF HInv, LocksHold
<1>2. \A i \in Items : Untouched(i)
  BY DEF Untouched, TakerHolds, JobHolds, Consumed
<1> QED BY <1>1, <1>2, UntouchedHeld DEF HInv

LEMMA NextHInv == HInv /\ [Next]_vars => HInv'
<1> SUFFICES ASSUME HInv, [Next]_vars PROVE LocksHold' /\ \A i \in Items : HeldOnce(i)'
  BY NextTInv DEF HInv
<1> USE DEF HInv, TInv
<1>1. CASE UNCHANGED vars
  BY <1>1, SameItemsHold DEF vars, intake, history
<1>2. CASE Tick
  BY <1>2, SameItemsHold DEF Tick, intake, history
<1>3. ASSUME NEW i \in Items, AddPendingReview(i)
      PROVE  LocksHold' /\ \A k \in Items : HeldOnce(k)'
  <2>1. /\ queue[i].status = "none" /\ queue'[i].status = "pending"
        /\ \A k \in Items \ {i} : queue'[k] = queue[k]
        /\ UNCHANGED <<taker, jobs, settled, lost>>
    BY <1>3 DEF AddPendingReview, TypeOK, history
  <2>2. LocksHold'
    BY <2>1 DEF LocksHold, TypeOK, Taker
  <2>3. \A k \in Items : Untouched(k)
    BY <2>1 DEF Untouched, TakerHolds, JobHolds, Consumed
  <2> QED BY <2>2, <2>3, UntouchedHeld
<1>4. ASSUME NEW t \in Takers, LockPending(t)
      PROVE  LocksHold' /\ \A k \in Items : HeldOnce(k)'
  <2>1. /\ taker[t].step = "idle" /\ \A u \in Takers : taker[u].step # "locked"
        /\ taker'[t].step = "locked"
        /\ taker'[t].items = {i \in Items : queue[i].status = "pending"}
        /\ \A u \in Takers \ {t} : taker'[u] = taker[u]
        /\ UNCHANGED <<queue, jobs, settled, lost>>
    BY <1>4 DEF LockPending, CanLock, TypeOK, history
  <2>2. LocksHold'
    BY <2>1 DEF LocksHold
  <2>3. \A k \in Items : Untouched(k)
    BY <2>1 DEF Untouched, TakerHolds, JobHolds, Consumed
  <2> QED BY <2>2, <2>3, UntouchedHeld
<1>5. ASSUME NEW w \in Slots, Fetch(w) PROVE LocksHold' /\ \A i \in Items : HeldOnce(i)'
  <2>1. PICK j \in JobIds : jobs' = [jobs EXCEPT ![j].status = "Running", ![j].owner = w]
    BY <1>5 DEF Fetch
  <2>2. \A k \in JobIds : jobs'[k].items = jobs[k].items
    BY <2>1 DEF TypeOK, Job
  <2> QED BY <1>5, <2>2, SameItemsHold DEF Fetch, intake, history
<1>6. ASSUME NEW w \in Slots, Retry(w) PROVE LocksHold' /\ \A i \in Items : HeldOnce(i)'
  <2>1. \A k \in JobIds : jobs'[k].items = jobs[k].items
    BY <1>6 DEF Retry, TypeOK, SlotsHaveJobs, Job
  <2> QED BY <1>6, <2>1, SameItemsHold DEF Retry, intake, history
<1>7. ASSUME NEW w \in Slots, Ack(w) \/ GiveUp(w)
      PROVE  LocksHold' /\ \A i \in Items : HeldOnce(i)'
  <2>1. exec[w].job \in JobIds /\ UNCHANGED <<intake, lost>>
    BY <1>7 DEF Ack, GiveUp, SlotsHaveJobs
  <2>2. CASE EndJob(exec[w].job)
    BY <2>1, <2>2, EndHolds
  <2>3. CASE UNCHANGED <<jobs, settled>>
    BY <2>1, <2>3, SameItemsHold DEF intake
  <2> QED BY <1>7, <2>2, <2>3 DEF Ack, GiveUp
<1>8. ASSUME NEW j \in JobIds, Reenqueue(j)
      PROVE  LocksHold' /\ \A i \in Items : HeldOnce(i)'
  <2>1. \A k \in JobIds : jobs'[k].items = jobs[k].items
    BY <1>8 DEF Reenqueue, TypeOK, Job
  <2> QED BY <1>8, <2>1, SameItemsHold DEF Reenqueue, intake, history
<1>9. ASSUME NEW w \in Slots,
             \/ RateMemories(w) \/ FinishReview(w) \/ ReviewFails(w)
             \/ IgnoreError(w) \/ SlotCrashes(w)
             \/ \E m \in Memories : LoadMemory(w, m) \/ UpdateMemory(w, m)
      PROVE  LocksHold' /\ \A i \in Items : HeldOnce(i)'
  <2>1. UNCHANGED <<queue, taker, jobs, settled, lost>>
    BY <1>9 DEF RateMemories, FinishReview, ReviewFails, IgnoreError, SlotCrashes, LoadMemory,
       UpdateMemory, intake, history
  <2> QED BY <2>1, SameItemsHold
<1> QED
  BY <1>1, <1>2, <1>3, <1>4, <1>5, <1>6, <1>7, <1>8, <1>9, ConsumeHolds, PushHolds, FailHolds
  DEF Next, TakerStep, SlotStep, ReenqueueOrphan, ReenqueueStalled

(* For any number of items, takers and jobs, and any failures: a consumed item
   is held once, or its job ended, or it was dropped between its consumption
   and the push; an item is never taken twice. *)
THEOREM ItemsAreAccounted == Spec => []ItemsAccounted
<1>1. Spec => []HInv
  BY InitHInv, NextHInv, PTL DEF Spec
<1>2. HInv => ItemsAccounted
  <2> SUFFICES ASSUME HInv, NEW i \in Items
               PROVE  Cardinality(Holders(i)) + (IF i \in settled THEN 1 ELSE 0)
                                              + (IF i \in lost THEN 1 ELSE 0)
                        = (IF queue[i].status = "consumed" THEN 1 ELSE 0)
    BY DEF ItemsAccounted
  <2>1. Cardinality({}) = 0
    BY FS_EmptySet
  <2>2. \A h : Cardinality({h}) = 1
    BY FS_Singleton
  <2>3. HeldOnce(i)
    BY DEF HInv
  <2>4. CASE Holders(i) = {}
    BY <2>1, <2>3, <2>4 DEF HeldOnce, Consumed
  <2>5. ASSUME NEW h, Holders(i) = {h}, Consumed(i), i \notin settled \cup lost
        PROVE  Cardinality(Holders(i)) + (IF i \in settled THEN 1 ELSE 0)
                                       + (IF i \in lost THEN 1 ELSE 0)
                 = (IF queue[i].status = "consumed" THEN 1 ELSE 0)
    <3>1. Cardinality(Holders(i)) = 1
      BY <2>2, <2>5
    <3> QED BY <2>5, <3>1 DEF Consumed
  <2> QED BY <2>3, <2>4, <2>5 DEF HeldOnce
<1> QED BY <1>1, <1>2, PTL
================================================================================
