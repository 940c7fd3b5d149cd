------------------------- MODULE SemanticMemoryProofs -------------------------
(***************************************************************************)
(* Types of SemanticMemory; why an invalidated fact stays invalid and an   *)
(* episode counts once although executions overlap and work on snapshots;  *)
(* and why, without overlap, no two active facts say the same and no fact  *)
(* forgets an episode.                                                     *)
(***************************************************************************)
EXTENDS SemanticMemory, SequenceTheorems, FiniteSetTheorems, TLAPS

(* An action that survived the normalization: one that brings a fact has it, and
   only what replaces a fact names a target for it. *)
Brings(a) == a.kind \in {"new", "update"}
UsableAction == {a \in Action : /\ Brings(a) => a.meaning \in Meanings
                                /\ a.kind = "new" => a.target = NoTarget}

Work == [episode : Episodes \cup {NoEpisode}, known : [FactIds -> Fact], todo : Seq(UsableAction),
         duplicate : FactIds \cup {NoTarget}, written : [FactIds -> Fact]]

Types ==
  /\ facts \in [FactIds -> Fact]
  /\ consolidated \in SUBSET Episodes
  /\ pc \in [Slots -> Labels]
  /\ exec \in [Slots -> Work]
  /\ runs \in 0 .. MaxRuns
  /\ mixed \in BOOLEAN

(* A row is empty, or a fact with its sources, each of them once. *)
NoRepeats(sources) == \A i, k \in DOMAIN sources : sources[i] = sources[k] => i = k

RowOK(row) ==
  \/ row = NoFact
  \/ row.status # "none" /\ row.meaning \in Meanings /\ row.sources # <<>> /\ NoRepeats(row.sources)

FactsOK == \A id \in FactIds : RowOK(facts[id])

(* A row that a slot can see. *)
Exists(w, id) == facts[id] # NoFact \/ exec[w].written[id] # NoFact

(* What a slot remembers at each step of its job. *)
SlotOK(w) ==
  /\ pc[w] = "idle" => exec[w] = IdleExec
  /\ pc[w] # "idle" => exec[w].episode \in Episodes
  /\ pc[w] \in {"extract", "mark"} => exec[w].written = Untouched
  /\ \A id \in FactIds : /\ RowOK(exec[w].known[id]) /\ RowOK(exec[w].written[id])
                         /\ exec[w].known[id] # NoFact => Exists(w, id)
  /\ exec[w].duplicate # NoTarget => exec[w].known[exec[w].duplicate] # NoFact
  /\ pc[w] \in {"invalidate", "store"} => exec[w].todo # <<>>
  /\ pc[w] = "invalidate" => /\ Targeted(w) /\ Current(w).kind \in {"invalidate", "update"}
                             /\ exec[w].duplicate # Current(w).target
  /\ pc[w] = "store" => Brings(Current(w)) \/ (Current(w).kind = "reinforce" /\ Targeted(w))

TInv == Types /\ FactsOK /\ \A w \in Slots : SlotOK(w)
--------------------------------------------------------------------------------
(***************************************************************************)
(* Rows and actions.                                                       *)
(***************************************************************************)
LEMMA RowTypes ==
  /\ NoFact \in Fact /\ RowOK(NoFact) /\ NoFact.status = "none" /\ NoFact.sources = <<>>
  /\ Untouched \in [FactIds -> Fact] /\ \A id \in FactIds : Untouched[id] = NoFact
BY DEF NoFact, Fact, RowOK, Untouched

LEMMA IdleTypes ==
  /\ IdleExec \in Work
  /\ IdleExec.episode = NoEpisode /\ IdleExec.todo = <<>> /\ IdleExec.duplicate = NoTarget
  /\ IdleExec.known = Untouched /\ IdleExec.written = Untouched
BY RowTypes DEF IdleExec, Work

(* Adding a source keeps the list free of repetitions. *)
LEMMA AddSourceTypes ==
  ASSUME NEW sources \in Seq(Episodes), NEW e \in Episodes, NoRepeats(sources)
  PROVE  /\ AddSource(sources, e) \in Seq(Episodes) /\ AddSource(sources, e) # <<>>
         /\ NoRepeats(AddSource(sources, e))
<1>1. CASE \E k \in DOMAIN sources : sources[k] = e
  BY <1>1 DEF AddSource
<1>2. CASE \A k \in DOMAIN sources : sources[k] # e
  <2>1. AddSource(sources, e) = Append(sources, e)
    BY <1>2 DEF AddSource
  <2>2. /\ Len(sources) \in Nat /\ Len(Append(sources, e)) = Len(sources) + 1
        /\ \A k \in 1 .. Len(sources) : Append(sources, e)[k] = sources[k]
        /\ Append(sources, e)[Len(sources) + 1] = e
        /\ Append(sources, e) \in Seq(Episodes)
        /\ DOMAIN sources = 1 .. Len(sources)
        /\ DOMAIN Append(sources, e) = 1 .. Len(sources) + 1
    OBVIOUS
  <2>3. ASSUME NEW i \in 1 .. Len(sources) + 1, NEW k \in 1 .. Len(sources) + 1,
               Append(sources, e)[i] = Append(sources, e)[k]
        PROVE  i = k
    <3>1. CASE i \in 1 .. Len(sources) /\ k \in 1 .. Len(sources)
      BY <2>2, <2>3, <3>1 DEF NoRepeats
    <3>2. CASE i \in 1 .. Len(sources) /\ k = Len(sources) + 1
      BY <1>2, <2>2, <2>3, <3>2
    <3>3. CASE i = Len(sources) + 1 /\ k \in 1 .. Len(sources)
      BY <1>2, <2>2, <2>3, <3>3
    <3> QED BY <2>2, <3>1, <3>2, <3>3
  <2> QED BY <2>1, <2>2, <2>3 DEF NoRepeats
<1> QED BY <1>1, <1>2

(* The sources of a row grow at the end. *)
Ahead(old, new) == Len(old) <= Len(new) /\ \A k \in 1 .. Len(old) : new[k] = old[k]

LEMMA AddSourceExtends ==
  ASSUME NEW sources \in Seq(Episodes), NEW e \in Episodes
  PROVE  Ahead(sources, AddSource(sources, e))
BY DEF AddSource, Ahead

LEMMA AheadOrder ==
  ASSUME NEW a \in Seq(Episodes), NEW b \in Seq(Episodes), NEW c \in Seq(Episodes)
  PROVE  /\ Ahead(a, a) /\ Ahead(<<>>, a)
         /\ Ahead(a, b) /\ Ahead(b, c) => Ahead(a, c)
BY DEF Ahead

LEMMA AheadSubSeq ==
  ASSUME NEW old \in Seq(Episodes), NEW new \in Seq(Episodes), Ahead(old, new)
  PROVE  old = SubSeq(new, 1, Len(old))
<1>1. SubSeq(new, 1, Len(old)) = [k \in 1 .. Len(old) |-> new[k]]
  BY SubSeqProperties DEF Ahead
<1>2. old = [k \in 1 .. Len(old) |-> old[k]]
  OBVIOUS
<1> QED BY <1>1, <1>2 DEF Ahead

(* What a proposal becomes, unless it is dropped. *)
LEMMA PromotedUsable ==
  ASSUME NEW known \in [FactIds -> Fact], NEW a \in Proposals(known), Usable(a)
  PROVE  Promoted(a) \in UsableAction
<1>1. a \in Action
  BY DEF Proposals, Active, Action, Kinds
<1>2. CASE a.kind = "update" /\ a.target = NoTarget
  BY <1>1, <1>2 DEF Promoted, UsableAction, Brings, Action, Kinds, Proposals, Usable
<1>3. CASE ~ (a.kind = "update" /\ a.target = NoTarget)
  BY <1>1, <1>3 DEF Promoted, UsableAction, Brings, Action, Kinds, Proposals, Usable
<1> QED BY <1>2, <1>3

LEMMA NormalizedUsable ==
  ASSUME NEW known \in [FactIds -> Fact], NEW n \in Nat, NEW actions \in [1 .. n -> Proposals(known)],
         NEW todo \in Normalized(actions)
  PROVE  todo \in Seq(UsableAction)
<1> DEFINE untargeted == {i \in DOMAIN actions : Usable(actions[i]) /\ ~ Filed(actions[i])}
           result == untargeted \cup {i \in DOMAIN actions : Kept(actions, i)}
<1>1. result \subseteq 1 .. n /\ \A i \in result : Usable(actions[i])
  BY DEF Kept
<1>2. PICK o \in [1 .. Cardinality(result) -> result] :
        todo = [k \in DOMAIN o |-> Promoted(actions[o[k]])]
  BY DEF Normalized
<1>3. Cardinality(result) \in Nat
  <2>1. IsFiniteSet(1 .. n)
    BY FS_Interval
  <2>2. IsFiniteSet(result)
    BY <1>1, <2>1, FS_Subset
  <2> QED BY <2>2, FS_CardinalityType
<1> HIDE DEF result
<1>4. \A k \in 1 .. Cardinality(result) : Promoted(actions[o[k]]) \in UsableAction
  BY <1>1, PromotedUsable
<1>5. todo \in [1 .. Cardinality(result) -> UsableAction]
  BY <1>2, <1>4
<1> QED BY <1>3, <1>5
--------------------------------------------------------------------------------
(***************************************************************************)
(* What each step does to the record of its slot.                          *)
(***************************************************************************)
(* The slots other than w are not touched. *)
OnlySlot(w) ==
  /\ \A v \in Slots \ {w} : exec'[v] = exec[v] /\ pc'[v] = pc[v]
  /\ exec' = [exec EXCEPT ![w] = exec'[w]] /\ pc' = [pc EXCEPT ![w] = pc'[w]]

NoFactGone == \A id \in FactIds : facts[id] # NoFact => facts'[id] # NoFact

LEMMA ViewTypes ==
  ASSUME TInv, NEW w \in Slots
  PROVE  /\ View(w) \in [FactIds -> Fact]
         /\ \A id \in FactIds : RowOK(View(w)[id]) /\ (Exists(w, id) <=> View(w)[id] # NoFact)
<1>1. \A id \in FactIds : View(w)[id] =
         IF exec[w].written[id] # NoFact THEN exec[w].written[id] ELSE facts[id]
  BY DEF View
<1>2. exec[w].written \in [FactIds -> Fact] /\ facts \in [FactIds -> Fact]
  BY DEF TInv, Types, Work
<1>3. View(w) \in [FactIds -> Fact]
  BY <1>2 DEF View
<1> QED BY <1>1, <1>3 DEF TInv, FactsOK, SlotOK, Exists

LEMMA StopRecord ==
  ASSUME TInv, NEW w \in Slots, Stop(w)
  PROVE  OnlySlot(w) /\ pc'[w] = "idle" /\ exec'[w] = IdleExec
BY DEF Stop, Goto, OnlySlot, TInv, Types

(* A job begins with the facts it was shown. *)
LEMMA BeginRecord ==
  ASSUME TInv, NEW w \in Slots, NEW e \in Episodes, Begin(w, e), e \notin consolidated
  PROVE  /\ OnlySlot(w) /\ pc'[w] = "extract"
         /\ \E related \in SUBSET Active(facts) :
              /\ exec'[w].known = [id \in FactIds |-> IF id \in related THEN facts[id] ELSE NoFact]
              /\ mixed' = (mixed \/ related # Active(facts)
                             \/ \E v \in Slots \ {w} : exec[v].episode # NoEpisode)
         /\ exec'[w].episode = e /\ exec'[w].todo = <<>> /\ exec'[w].duplicate = NoTarget
         /\ exec'[w].written = Untouched /\ exec'[w].known \in [FactIds -> Fact]
         /\ exec'[w] \in Work
<1> USE DEF TInv, Types
<1>1. PICK related \in SUBSET Active(facts) :
        /\ exec' = [exec EXCEPT ![w] =
             [IdleExec EXCEPT !.episode = e,
                !.known = [id \in FactIds |-> IF id \in related THEN facts[id] ELSE NoFact]]]
        /\ mixed' = (mixed \/ related # Active(facts)
                       \/ \E v \in Slots \ {w} : exec[v].episode # NoEpisode)
  BY DEF Begin
<1> DEFINE known == [id \in FactIds |-> IF id \in related THEN facts[id] ELSE NoFact]
<1>2. known \in [FactIds -> Fact]
  BY RowTypes
<1> HIDE DEF known
<1>3. exec' = [exec EXCEPT ![w] = [IdleExec EXCEPT !.episode = e, !.known = known]]
  BY <1>1 DEF known
<1>4. /\ exec'[w].episode = e /\ exec'[w].todo = <<>> /\ exec'[w].duplicate = NoTarget
      /\ exec'[w].written = Untouched /\ exec'[w].known = known /\ exec'[w] \in Work
  BY <1>2, <1>3, IdleTypes DEF IdleExec, Work
<1>5. OnlySlot(w) /\ pc'[w] = "extract"
  BY <1>3 DEF Begin, Goto, OnlySlot
<1> QED BY <1>1, <1>2, <1>4, <1>5 DEF known

LEMMA ExtractRecord ==
  ASSUME TInv, NEW w \in Slots, Extract(w)
  PROVE  /\ OnlySlot(w) /\ pc[w] = "extract"
         /\ pc'[w] = IF exec'[w].todo = <<>> THEN "mark" ELSE "next"
         /\ exec'[w] = [exec[w] EXCEPT !.todo = exec'[w].todo]
         /\ exec'[w].todo \in Seq(UsableAction)
<1> USE DEF TInv, Types
<1>1. exec[w] \in Work
  OBVIOUS
<1>a. PICK n \in 0 .. MaxActions : \E actions \in [1 .. n -> Proposals(exec[w].known)] :
        \E todo \in Normalized(actions) :
          /\ exec' = [exec EXCEPT ![w].todo = todo]
          /\ Goto(w, IF todo = <<>> THEN "mark" ELSE "next")
  BY DEF Extract
<1>b. PICK actions \in [1 .. n -> Proposals(exec[w].known)] : \E todo \in Normalized(actions) :
        /\ exec' = [exec EXCEPT ![w].todo = todo]
        /\ Goto(w, IF todo = <<>> THEN "mark" ELSE "next")
  BY <1>a
<1>2. PICK todo \in Normalized(actions) :
        /\ exec' = [exec EXCEPT ![w].todo = todo]
        /\ Goto(w, IF todo = <<>> THEN "mark" ELSE "next")
  BY <1>b
<1>3. todo \in Seq(UsableAction)
  <2>1. n \in Nat /\ exec[w].known \in [FactIds -> Fact]
    BY <1>1, SemanticMemoryAssumption DEF Work
  <2> QED BY <2>1, NormalizedUsable
<1>4. exec' = [exec EXCEPT ![w] = [exec[w] EXCEPT !.todo = todo]]
  BY <1>2
<1>5. exec'[w].todo = todo
  BY <1>1, <1>4 DEF Work
<1> QED BY <1>2, <1>3, <1>4, <1>5 DEF Extract, Goto, OnlySlot

(* The action at the head of what is left to do. *)
LEMMA CurrentUsable ==
  ASSUME TInv, NEW w \in Slots, exec[w].todo # <<>>
  PROVE  /\ Current(w) \in UsableAction /\ Tail(exec[w].todo) \in Seq(UsableAction)
         /\ Current(w).kind \in Kinds
         /\ Brings(Current(w)) => Current(w).meaning \in Meanings
         /\ Targeted(w) => Current(w).target \in FactIds
         /\ Targeted(w) => exec[w].known[Current(w).target] # NoFact
         /\ Current(w).kind = "new" => ~ Targeted(w)
<1>1. Current(w) \in UsableAction /\ Tail(exec[w].todo) \in Seq(UsableAction)
  BY HeadTailProperties DEF Current, TInv, Types, Work
<1> QED BY <1>1, SemanticMemoryAssumption DEF UsableAction, Action, Targeted

(* What is known once a duplicate was looked for. *)
Finds(w, id, known) ==
  known = IF id = NoTarget THEN exec[w].known
                           ELSE [exec[w].known EXCEPT ![id] = View(w)[id]]

LEMMA NextActionRecord ==
  ASSUME TInv, NEW w \in Slots, NextAction(w)
  PROVE  /\ OnlySlot(w) /\ pc[w] = "next" /\ exec[w].todo # <<>>
         /\ \/ /\ pc'[w] = "next" /\ ~ Brings(Current(w)) /\ ~ Targeted(w)
               /\ exec'[w] = [exec[w] EXCEPT !.todo = Tail(exec[w].todo)]
            \/ /\ exec'[w] = [exec[w] EXCEPT !.duplicate = exec'[w].duplicate,
                                             !.known = exec'[w].known]
               /\ Finds(w, exec'[w].duplicate, exec'[w].known)
               /\ Brings(Current(w)) \/ Targeted(w)
               /\ pc'[w] = IF Current(w).kind \in {"invalidate", "update"} /\ Targeted(w)
                             THEN "invalidate" ELSE "store"
               /\ LET found == Duplicates(w, Current(w).meaning,
                                          IF Targeted(w) THEN Current(w).target ELSE NoTarget)
                  IN  IF Brings(Current(w)) /\ found # {} THEN exec'[w].duplicate \in found
                                                         ELSE exec'[w].duplicate = NoTarget
<1> USE DEF TInv, Types
<1>0. exec[w] \in Work /\ pc[w] = "next" /\ exec[w].todo # <<>>
  BY DEF NextAction
<1>1. Current(w).kind \in Kinds
  BY <1>0, CurrentUsable
<1> DEFINE found == Duplicates(w, Current(w).meaning,
                               IF Targeted(w) THEN Current(w).target ELSE NoTarget)
           chosen == IF Brings(Current(w)) THEN found ELSE {}
<1>2. CASE Current(w).kind \in {"reinforce", "invalidate"} /\ ~ Targeted(w)
  <2>1. exec' = [exec EXCEPT ![w].todo = Tail(exec[w].todo)] /\ UNCHANGED pc
    BY <1>0, <1>2 DEF NextAction
  <2>2. exec' = [exec EXCEPT ![w] = [exec[w] EXCEPT !.todo = Tail(exec[w].todo)]]
    BY <2>1
  <2> QED BY <1>0, <1>2, <2>1, <2>2 DEF OnlySlot, Brings
<1>3. CASE ~ (Current(w).kind \in {"reinforce", "invalidate"} /\ ~ Targeted(w))
  <2>1. PICK id \in (IF chosen = {} THEN {NoTarget} ELSE chosen) :
          exec' = [exec EXCEPT ![w].duplicate = id,
            ![w].known = IF id = NoTarget THEN @ ELSE [@ EXCEPT ![id] = View(w)[id]]]
    BY <1>3 DEF NextAction, Brings
  <2>2. Goto(w, IF Current(w).kind \in {"invalidate", "update"} /\ Targeted(w)
                  THEN "invalidate" ELSE "store")
    BY <1>3 DEF NextAction
  <2> HIDE DEF found
  <2>a. PICK known : Finds(w, id, known)
    BY DEF Finds
  <2>3. exec' = [exec EXCEPT ![w] = [exec[w] EXCEPT !.duplicate = id, !.known = known]]
    BY <2>1, <2>a DEF Finds
  <2>4. exec'[w].duplicate = id /\ exec'[w].known = known
    BY <1>0, <2>3 DEF Work
  <2>5. IF Brings(Current(w)) /\ found # {} THEN id \in found ELSE id = NoTarget
    BY <2>1
  <2>6. Brings(Current(w)) \/ Targeted(w)
    BY <1>1, <1>3 DEF Brings, Kinds
  <2> QED BY <1>0, <2>2, <2>3, <2>4, <2>5, <2>6, <2>a DEF OnlySlot, Goto, found
<1> QED BY <1>2, <1>3

LEMMA InvalidateRecord ==
  ASSUME TInv, NEW w \in Slots, InvalidateTarget(w)
  PROVE  LET a == Current(w)
             gone == [View(w)[a.target] EXCEPT !.status = "invalid"]
         IN  /\ OnlySlot(w) /\ pc[w] = "invalidate"
             /\ pc'[w] = IF a.kind = "invalidate" THEN "next" ELSE "store"
             /\ Targeted(w) /\ a.target \in FactIds /\ a.kind \in {"invalidate", "update"}
             /\ Unlocked(w, a.target)
             /\ gone \in Fact /\ RowOK(gone) /\ gone # NoFact
             /\ exec'[w].episode = exec[w].episode /\ exec'[w].duplicate = exec[w].duplicate
             /\ exec'[w].known = [exec[w].known EXCEPT ![a.target] = NoFact]
             /\ exec'[w].written = [exec[w].written EXCEPT ![a.target] = gone]
             /\ exec'[w].todo = IF a.kind = "invalidate" THEN Tail(exec[w].todo) ELSE exec[w].todo
             /\ exec'[w] \in Work
<1> USE DEF TInv, Types
<1> DEFINE t == Current(w).target
           gone == [View(w)[t] EXCEPT !.status = "invalid"]
           left == IF Current(w).kind = "invalidate" THEN Tail(exec[w].todo) ELSE exec[w].todo
           known == [exec[w].known EXCEPT ![t] = NoFact]
           written == [exec[w].written EXCEPT ![t] = gone]
           record == [exec[w] EXCEPT !.known = known, !.written = written, !.todo = left]
<1>1. /\ exec[w] \in Work /\ pc[w] = "invalidate" /\ exec[w].todo # <<>>
      /\ Targeted(w) /\ Current(w).kind \in {"invalidate", "update"} /\ Unlocked(w, t)
  BY DEF InvalidateTarget, SlotOK
<1>2. t \in FactIds /\ exec[w].known[t] # NoFact /\ Tail(exec[w].todo) \in Seq(UsableAction)
  BY <1>1, CurrentUsable
<1>3. View(w)[t] \in Fact /\ RowOK(View(w)[t]) /\ View(w)[t] # NoFact
  BY <1>2, ViewTypes DEF SlotOK
<1>4. gone \in Fact /\ RowOK(gone) /\ gone # NoFact
  BY <1>3 DEF Fact, RowOK, NoFact
<1>5. exec' = [exec EXCEPT ![w] = record]
  BY <1>1 DEF InvalidateTarget
<1> HIDE DEF gone
<1>6. known \in [FactIds -> Fact] /\ written \in [FactIds -> Fact] /\ left \in Seq(UsableAction)
  BY <1>1, <1>2, <1>4, RowTypes DEF Work
<1> HIDE DEF known, written, left
<1>7. /\ exec'[w].episode = exec[w].episode /\ exec'[w].duplicate = exec[w].duplicate
      /\ exec'[w].known = known /\ exec'[w].written = written /\ exec'[w].todo = left
      /\ exec'[w] \in Work
  BY <1>1, <1>5, <1>6 DEF Work
<1>8. pc' = [pc EXCEPT ![w] = IF Current(w).kind = "invalidate" THEN "next" ELSE "store"]
  BY DEF InvalidateTarget, Goto
<1>9. OnlySlot(w) /\ pc'[w] = IF Current(w).kind = "invalidate" THEN "next" ELSE "store"
  BY <1>5, <1>8 DEF OnlySlot
<1> QED BY <1>1, <1>2, <1>4, <1>7, <1>9 DEF gone, known, written, left

(* The two ways to store a fact: a row that is there is strengthened, from the
   version that was read; or a new row is inserted. *)
Strengthens(w, id, read, row) ==
  /\ id = IF Current(w).kind = "reinforce" THEN Current(w).target ELSE exec[w].duplicate
  /\ Exists(w, id) /\ read # NoFact
  /\ read = exec[w].known[id]
  /\ IF AddSource(read.sources, exec[w].episode) = read.sources
       THEN row = exec[w].written[id]
       ELSE Unlocked(w, id) /\ row = Reinforced(View(w)[id], read, exec[w].episode)

Inserts(w, id, read, row) ==
  /\ Brings(Current(w)) /\ exec[w].duplicate = NoTarget
  /\ facts[id] = NoFact /\ \A v \in Slots : exec[v].written[id] = NoFact
  /\ row = [status |-> "active", meaning |-> Current(w).meaning, sources |-> <<exec[w].episode>>]
  /\ read = row /\ row # NoFact

LEMMA RowsHaveSources ==
  ASSUME NEW row \in Fact, RowOK(row), NEW e \in Episodes
  PROVE  /\ AddSource(row.sources, e) \in Seq(Episodes) /\ AddSource(row.sources, e) # <<>>
         /\ NoRepeats(AddSource(row.sources, e))
<1>1. row.sources \in Seq(Episodes) /\ NoRepeats(row.sources)
  BY DEF Fact, RowOK, NoFact, NoRepeats
<1> QED BY <1>1, AddSourceTypes

LEMMA StrengthensTypes ==
  ASSUME TInv, NEW w \in Slots, exec[w].episode \in Episodes, NEW id \in FactIds,
         NEW read \in Fact, RowOK(read), NEW row, Strengthens(w, id, read, row)
  PROVE  row \in Fact /\ RowOK(row)
<1>1. CASE row = exec[w].written[id]
  BY <1>1 DEF TInv, Types, Work, SlotOK
<1>2. CASE row = Reinforced(View(w)[id], read, exec[w].episode)
  <2> DEFINE sources == AddSource(read.sources, exec[w].episode)
  <2>1. sources \in Seq(Episodes) /\ sources # <<>> /\ NoRepeats(sources)
    BY RowsHaveSources
  <2>2. View(w)[id] \in Fact /\ RowOK(View(w)[id]) /\ View(w)[id] # NoFact
    BY ViewTypes DEF Strengthens
  <2>3. row = [View(w)[id] EXCEPT !.sources = sources]
    BY <1>2 DEF Reinforced
  <2> HIDE DEF sources
  <2> QED BY <2>1, <2>2, <2>3 DEF Fact, RowOK
<1> QED BY <1>1, <1>2 DEF Strengthens

LEMMA InsertsTypes ==
  ASSUME TInv, NEW w \in Slots, exec[w].episode \in Episodes, exec[w].todo # <<>>,
         NEW id, NEW read, NEW row, Inserts(w, id, read, row)
  PROVE  row \in Fact /\ RowOK(row) /\ row.sources = <<exec[w].episode>>
<1>1. Current(w).meaning \in Meanings
  BY CurrentUsable DEF Inserts
<1>2. <<exec[w].episode>> \in Seq(Episodes) /\ <<exec[w].episode>> # <<>>
        /\ NoRepeats(<<exec[w].episode>>)
  BY DEF NoRepeats
<1> QED BY <1>1, <1>2 DEF Inserts, Fact, RowOK

Stores(w, id, read, row) ==
  /\ RowOK(read) /\ RowOK(row)
  /\ Strengthens(w, id, read, row) \/ Inserts(w, id, read, row)
  /\ exec'[w].known = [exec[w].known EXCEPT ![id] = read]
  /\ exec'[w].written = [exec[w].written EXCEPT ![id] = row]

(* How the record of the slot changes with it. *)
Writes(w, id, read, row) ==
  exec' = [exec EXCEPT ![w] = [exec[w] EXCEPT
             !.written = [exec[w].written EXCEPT ![id] = row],
             !.known = [exec[w].known EXCEPT ![id] = read],
             !.duplicate = NoTarget, !.todo = Tail(exec[w].todo)]]

LEMMA StoreRecord ==
  ASSUME TInv, NEW w \in Slots, StoreFact(w)
  PROVE  /\ OnlySlot(w) /\ pc[w] = "store" /\ pc'[w] = "next"
         /\ exec[w].todo # <<>> /\ exec[w].episode \in Episodes
         /\ exec'[w].episode = exec[w].episode /\ exec'[w].todo = Tail(exec[w].todo)
         /\ exec'[w].duplicate = NoTarget /\ exec'[w] \in Work
         /\ \E id \in FactIds, read \in Fact, row \in Fact : Stores(w, id, read, row)
<1> USE DEF TInv, Types
<1> DEFINE a == Current(w)
           e == exec[w].episode
           id == IF a.kind = "reinforce" THEN a.target ELSE exec[w].duplicate
           read == exec[w].known[id]
           counted == AddSource(read.sources, e) = read.sources
<1>0. /\ exec[w] \in Work /\ pc[w] = "store" /\ exec[w].todo # <<>> /\ e \in Episodes
      /\ Brings(a) \/ (a.kind = "reinforce" /\ Targeted(w))
      /\ Tail(exec[w].todo) \in Seq(UsableAction) /\ exec[w].duplicate \in FactIds \cup {NoTarget}
  BY CurrentUsable DEF StoreFact, SlotOK, Work
<1>1. pc' = [pc EXCEPT ![w] = "next"]
  BY DEF StoreFact, Goto
<1>2. ASSUME NEW new \in FactIds, NEW from \in Fact, NEW row \in Fact, Writes(w, new, from, row)
      PROVE  /\ OnlySlot(w) /\ pc'[w] = "next"
             /\ exec'[w].episode = exec[w].episode /\ exec'[w].todo = Tail(exec[w].todo)
             /\ exec'[w].duplicate = NoTarget /\ exec'[w] \in Work
             /\ exec'[w].known = [exec[w].known EXCEPT ![new] = from]
             /\ exec'[w].written = [exec[w].written EXCEPT ![new] = row]
  <2> DEFINE written == [exec[w].written EXCEPT ![new] = row]
             known == [exec[w].known EXCEPT ![new] = from]
  <2>1. written \in [FactIds -> Fact] /\ known \in [FactIds -> Fact]
    BY <1>0 DEF Work
  <2>2. exec' = [exec EXCEPT ![w] = [exec[w] EXCEPT !.written = written, !.known = known,
                                       !.duplicate = NoTarget, !.todo = Tail(exec[w].todo)]]
    BY <1>2 DEF Writes
  <2> HIDE DEF written, known
  <2>3. /\ exec'[w].episode = exec[w].episode /\ exec'[w].todo = Tail(exec[w].todo)
        /\ exec'[w].duplicate = NoTarget /\ exec'[w] \in Work
        /\ exec'[w].known = known /\ exec'[w].written = written
    BY <1>0, <2>1, <2>2 DEF Work
  <2>4. OnlySlot(w)
    BY <1>1, <2>2 DEF OnlySlot
  <2> QED BY <1>1, <2>3, <2>4 DEF written, known
<1>3. CASE id # NoTarget
  <2>1. id \in FactIds /\ read # NoFact
    BY <1>0, <1>3, CurrentUsable DEF SlotOK, Brings
  <2>2. read \in Fact /\ RowOK(read) /\ Exists(w, id)
    BY <1>0, <2>1 DEF SlotOK, Work
  <2> DEFINE row == IF counted THEN exec[w].written[id] ELSE Reinforced(View(w)[id], read, e)
  <2>3. /\ counted \/ Unlocked(w, id)
        /\ exec' = [exec EXCEPT ![w].written[id] = row,
                                ![w].duplicate = NoTarget, ![w].todo = Tail(exec[w].todo)]
    BY <1>3 DEF StoreFact
  <2>4. Strengthens(w, id, read, row)
    BY <2>1, <2>2, <2>3 DEF Strengthens
  <2> HIDE DEF id, read, row
  <2>5. row \in Fact /\ RowOK(row)
    BY <1>0, <2>1, <2>2, <2>4, StrengthensTypes
  <2>6. PICK i \in FactIds, f \in Fact, r \in Fact : i = id /\ f = read /\ r = row
    BY <2>1, <2>2, <2>5
  <2>7. Strengthens(w, i, f, r) /\ RowOK(f) /\ RowOK(r)
    BY <2>2, <2>4, <2>5, <2>6
  <2>8. Writes(w, i, f, r)
    <3>1. exec[w].known = [exec[w].known EXCEPT ![i] = f]
      BY <1>0, <2>1, <2>6 DEF Work, read
    <3> DEFINE written == [exec[w].written EXCEPT ![i] = r]
               left == Tail(exec[w].todo)
    <3>2. exec' = [exec EXCEPT ![w] = [exec[w] EXCEPT !.written = written,
                                         !.duplicate = NoTarget, !.todo = left]]
      BY <2>3, <2>6
    <3> HIDE DEF written, left
    <3>3. [exec[w] EXCEPT !.written = written, !.duplicate = NoTarget, !.todo = left] =
            [exec[w] EXCEPT !.written = written, !.known = exec[w].known,
                            !.duplicate = NoTarget, !.todo = left]
      BY <1>0 DEF Work
    <3> QED BY <3>1, <3>2, <3>3 DEF Writes, written, left
  <2>9. Stores(w, i, f, r)
    BY <1>2, <2>7, <2>8 DEF Stores
  <2>10. \E j \in FactIds, h \in Fact, k \in Fact : Stores(w, j, h, k)
    BY <2>9
  <2> QED BY <1>0, <1>2, <2>8, <2>10
<1>4. CASE id = NoTarget
  <2>1. Brings(a) /\ exec[w].duplicate = NoTarget
    BY <1>0, <1>4, CurrentUsable, SemanticMemoryAssumption DEF Brings
  <2> DEFINE row == [status |-> "active", meaning |-> a.meaning, sources |-> <<e>>]
  <2>2. PICK new \in FactIds :
          /\ facts[new] = NoFact /\ \A v \in Slots : exec[v].written[new] = NoFact
          /\ exec' = [exec EXCEPT ![w].written[new] = row, ![w].known[new] = row,
                                  ![w].todo = Tail(exec[w].todo)]
    BY <1>4 DEF StoreFact
  <2>3. Inserts(w, new, row, row)
    BY <2>1, <2>2 DEF Inserts, NoFact
  <2> HIDE DEF row
  <2>4. row \in Fact /\ RowOK(row)
    BY <1>0, <2>3, InsertsTypes
  <2>5. exec[w] = [exec[w] EXCEPT !.duplicate = NoTarget]
    BY <1>0, <2>1 DEF Work
  <2>6. Writes(w, new, row, row)
    BY <1>0, <2>1, <2>2 DEF Work, Writes
  <2>7. Stores(w, new, row, row)
    BY <1>2, <2>3, <2>4, <2>6 DEF Stores
  <2>8. \E i \in FactIds, f \in Fact, r \in Fact : Stores(w, i, f, r)
    BY <2>4, <2>7
  <2> QED BY <1>0, <1>2, <2>4, <2>6, <2>8
<1> QED BY <1>3, <1>4

LEMMA CommitRecord ==
  ASSUME TInv, NEW w \in Slots, Commit(w)
  PROVE  /\ OnlySlot(w) /\ pc[w] = "next" /\ pc'[w] = "mark" /\ exec[w].episode \in Episodes
         /\ exec'[w] = [IdleExec EXCEPT !.episode = exec[w].episode] /\ exec'[w] \in Work
         /\ exec'[w].episode = exec[w].episode /\ exec'[w].duplicate = NoTarget
         /\ exec'[w].known = Untouched /\ exec'[w].written = Untouched
<1> USE DEF TInv, Types
<1>1. pc[w] = "next" /\ exec[w].episode \in Episodes
  BY DEF Commit, SlotOK
<1>2. exec' = [exec EXCEPT ![w] = [IdleExec EXCEPT !.episode = exec[w].episode]]
        /\ pc' = [pc EXCEPT ![w] = "mark"]
  BY DEF Commit, Goto
<1>3. [IdleExec EXCEPT !.episode = exec[w].episode] \in Work
  BY <1>1, IdleTypes DEF Work
<1> QED BY <1>1, <1>2, <1>3, IdleTypes DEF OnlySlot, IdleExec
--------------------------------------------------------------------------------
(***************************************************************************)
(* Types.                                                                  *)
(***************************************************************************)
LEMMA InitTInv == Init => TInv
<1> SUFFICES ASSUME Init PROVE TInv
  OBVIOUS
<1>1. Types
  <2>1. 0 \in 0 .. MaxRuns
    BY SemanticMemoryAssumption
  <2> QED BY <2>1, RowTypes, IdleTypes DEF Init, Types, Labels
<1>2. FactsOK /\ \A w \in Slots : SlotOK(w)
  BY RowTypes, IdleTypes DEF Init, FactsOK, SlotOK
<1> QED BY <1>1, <1>2 DEF TInv

LEMMA SlotKept ==
  ASSUME TInv, NEW w \in Slots, exec'[w] = exec[w], pc'[w] = pc[w], NoFactGone
  PROVE  SlotOK(w)'
<1>1. \A id \in FactIds : Exists(w, id) => Exists(w, id)'
  BY DEF Exists, NoFactGone, NoFact
<1>2. exec[w] \in Work /\ SlotOK(w)
  BY DEF TInv, Types
<1>3. exec[w].duplicate \in FactIds \cup {NoTarget}
  BY <1>2 DEF Work
<1>4. Current(w)' = Current(w) /\ Targeted(w)' = Targeted(w)
  BY DEF Current, Targeted, NoFact
<1>5. ASSUME NEW id \in FactIds
      PROVE  /\ RowOK(exec[w].known[id]) /\ RowOK(exec[w].written[id])
             /\ exec[w].known[id] # NoFact => Exists(w, id)'
  BY <1>1, <1>2, <1>5 DEF SlotOK
<1> QED BY <1>2, <1>3, <1>4, <1>5 DEF SlotOK, NoFact

LEMMA StepTInv ==
  ASSUME TInv, NEW w \in Slots, OnlySlot(w), SlotOK(w)', exec'[w] \in Work, pc'[w] \in Labels,
         facts' \in [FactIds -> Fact], FactsOK', NoFactGone,
         consolidated' \subseteq Episodes, runs' \in 0 .. MaxRuns, mixed' \in BOOLEAN
  PROVE  TInv'
<1>1. exec' \in [Slots -> Work] /\ pc' \in [Slots -> Labels]
  BY DEF OnlySlot, TInv, Types
<1>2. \A v \in Slots : SlotOK(v)'
  BY SlotKept DEF OnlySlot
<1> QED BY <1>1, <1>2 DEF TInv, Types

LEMMA SameFacts ==
  ASSUME TInv, UNCHANGED facts
  PROVE  facts' \in [FactIds -> Fact] /\ FactsOK' /\ NoFactGone
BY DEF TInv, Types, FactsOK, NoFactGone, RowOK, NoFact, NoRepeats

(* A slot without a job. *)
LEMMA IdleSlotOK ==
  ASSUME NEW w \in Slots, pc'[w] = "idle", exec'[w] = IdleExec
  PROVE  SlotOK(w)'
BY IdleTypes, RowTypes DEF SlotOK, IdleExec, NoFact, RowOK, NoRepeats, Untouched

LEMMA NextTInv == TInv /\ [Next]_vars => TInv'
<1> SUFFICES ASSUME TInv, [Next]_vars PROVE TInv'
  OBVIOUS
<1>1. CASE UNCHANGED vars
  <2>1. \A w \in Slots : SlotOK(w)'
    BY <1>1, SlotKept, SameFacts DEF vars
  <2> QED BY <1>1, <2>1, SameFacts DEF vars, TInv, Types
<1>2. ASSUME NEW w \in Slots, NEW e \in Episodes, Begin(w, e) PROVE TInv'
  <2>1. runs' \in 0 .. MaxRuns /\ UNCHANGED <<facts, consolidated>>
    <3>1. MaxRuns \in Nat /\ runs \in 0 .. MaxRuns
      BY SemanticMemoryAssumption DEF TInv, Types
    <3>2. runs < MaxRuns /\ runs' = runs + 1 /\ UNCHANGED <<facts, consolidated>>
      BY <1>2 DEF Begin
    <3> QED BY <3>1, <3>2
  <2>2. CASE e \in consolidated
    <3>1. UNCHANGED <<pc, exec, mixed>>
      BY <1>2, <2>2 DEF Begin
    <3>2. \A v \in Slots : SlotOK(v)'
      BY <2>1, <3>1, SlotKept, SameFacts
    <3> QED BY <2>1, <3>1, <3>2, SameFacts DEF TInv, Types
  <2>3. CASE e \notin consolidated
    <3>1. /\ OnlySlot(w) /\ pc'[w] = "extract" /\ exec'[w].episode = e
          /\ exec'[w].todo = <<>> /\ exec'[w].duplicate = NoTarget
          /\ exec'[w].written = Untouched /\ exec'[w] \in Work
      BY <1>2, <2>3, BeginRecord
    <3>2. PICK related \in SUBSET Active(facts) :
            /\ exec'[w].known = [id \in FactIds |-> IF id \in related THEN facts[id] ELSE NoFact]
            /\ mixed' = (mixed \/ related # Active(facts)
                           \/ \E v \in Slots \ {w} : exec[v].episode # NoEpisode)
      BY <1>2, <2>3, BeginRecord
    <3>3. \A id \in FactIds : RowOK(exec'[w].known[id])
                                /\ (exec'[w].known[id] # NoFact => facts'[id] # NoFact)
      BY <2>1, <3>2, RowTypes DEF TInv, FactsOK
    <3>4. SlotOK(w)'
      BY <3>1, <3>3, RowTypes DEF SlotOK, Exists, RowOK, NoFact, NoRepeats, Untouched
    <3>5. mixed' \in BOOLEAN
      BY <3>2 DEF TInv, Types
    <3> QED BY <2>1, <3>1, <3>4, <3>5, SameFacts, StepTInv DEF TInv, Types, Labels
  <2> QED BY <2>2, <2>3
<1>3. ASSUME NEW w \in Slots, Extract(w) PROVE TInv'
  <2>1. UNCHANGED <<facts, consolidated, runs, mixed>>
    BY <1>3 DEF Extract
  <2>2. /\ OnlySlot(w) /\ pc[w] = "extract" /\ pc'[w] \in {"mark", "next"}
        /\ exec'[w] = [exec[w] EXCEPT !.todo = exec'[w].todo]
        /\ exec'[w].todo \in Seq(UsableAction)
    BY <1>3, ExtractRecord
  <2>3. /\ exec'[w] \in Work /\ exec'[w].episode = exec[w].episode
        /\ exec'[w].known = exec[w].known /\ exec'[w].written = exec[w].written
        /\ exec'[w].duplicate = exec[w].duplicate
    BY <2>2 DEF TInv, Types, Work
  <2>4. SlotOK(w)'
    BY <2>1, <2>2, <2>3 DEF TInv, SlotOK, Exists, RowOK, NoFact, NoRepeats, Untouched
  <2> QED BY <2>1, <2>2, <2>3, <2>4, SameFacts, StepTInv DEF TInv, Types, Labels
<1>4. ASSUME NEW w \in Slots, NextAction(w) PROVE TInv'
  <2>1. UNCHANGED <<facts, consolidated, runs, mixed>>
    BY <1>4 DEF NextAction
  <2>2. OnlySlot(w) /\ pc[w] = "next" /\ exec[w].todo # <<>> /\ exec[w] \in Work
    BY <1>4, NextActionRecord DEF TInv, Types
  <2>3. CASE pc'[w] = "next" /\ exec'[w] = [exec[w] EXCEPT !.todo = Tail(exec[w].todo)]
    <3>1. /\ exec'[w] \in Work /\ exec'[w].episode = exec[w].episode
          /\ exec'[w].known = exec[w].known /\ exec'[w].written = exec[w].written
          /\ exec'[w].duplicate = exec[w].duplicate
      BY <2>2, <2>3, CurrentUsable DEF Work
    <3>2. SlotOK(w)'
      BY <2>1, <2>2, <2>3, <3>1 DEF TInv, SlotOK, Exists, RowOK, NoFact, NoRepeats, Untouched
    <3> QED BY <2>1, <2>2, <2>3, <3>1, <3>2, SameFacts, StepTInv DEF TInv, Types, Labels
  <2>4. CASE /\ exec'[w] = [exec[w] EXCEPT !.duplicate = exec'[w].duplicate,
                                           !.known = exec'[w].known]
             /\ Finds(w, exec'[w].duplicate, exec'[w].known)
             /\ Brings(Current(w)) \/ Targeted(w)
             /\ pc'[w] = IF Current(w).kind \in {"invalidate", "update"} /\ Targeted(w)
                           THEN "invalidate" ELSE "store"
             /\ LET found == Duplicates(w, Current(w).meaning,
                                        IF Targeted(w) THEN Current(w).target ELSE NoTarget)
                IN  IF Brings(Current(w)) /\ found # {} THEN exec'[w].duplicate \in found
                                                       ELSE exec'[w].duplicate = NoTarget
    <3> DEFINE id == exec'[w].duplicate
               known == exec'[w].known
    <3>1. id # NoTarget => /\ id \in FactIds /\ View(w)[id].status = "active"
                           /\ Targeted(w) => id # Current(w).target
      BY <2>4 DEF Duplicates, Active
    <3>2. Targeted(w) => Current(w).target \in FactIds
      BY <2>2, CurrentUsable
    <3>3. /\ exec'[w].episode = exec[w].episode /\ exec'[w].written = exec[w].written
          /\ exec'[w].todo = exec[w].todo
      BY <2>2, <2>4 DEF Work
    <3>4. /\ View(w) \in [FactIds -> Fact] /\ exec[w].known \in [FactIds -> Fact]
          /\ \A i \in FactIds : RowOK(View(w)[i]) /\ (Exists(w, i) <=> View(w)[i] # NoFact)
      BY <2>2, ViewTypes DEF Work
    <3>5. Finds(w, id, known)
      BY <2>4
    <3> HIDE DEF id, known
    <3>6. /\ known \in [FactIds -> Fact] /\ id \in FactIds \cup {NoTarget}
          /\ id # NoTarget => known[id] # NoFact
          /\ \A i \in FactIds : known[i] = exec[w].known[i] \/ (i = id /\ known[i] = View(w)[i])
      BY <3>1, <3>4, <3>5, RowTypes DEF Finds
    <3>7. exec'[w] \in Work
      BY <2>2, <2>4, <3>6 DEF Work, id, known
    <3>8. \A i \in FactIds : RowOK(known[i]) /\ (known[i] # NoFact => Exists(w, i))
      BY <2>2, <3>4, <3>6 DEF TInv, SlotOK
    <3>9. Current(w)' = Current(w) /\ Current(w).kind \in Kinds
      BY <2>2, <3>3, CurrentUsable DEF Current
    <3>10. Targeted(w) => Targeted(w)'
      <4>1. Targeted(w) => known[Current(w).target] = exec[w].known[Current(w).target]
        BY <3>1, <3>2, <3>6, SemanticMemoryAssumption
      <4> QED BY <3>9, <4>1 DEF Targeted, NoFact, known
    <3>11. pc'[w] = "store" => Brings(Current(w)) \/ (Current(w).kind = "reinforce" /\ Targeted(w))
      BY <2>4, <3>9 DEF Kinds, Brings
    <3>12. SlotOK(w)'
      <4>1. ASSUME NEW i \in FactIds
            PROVE  /\ RowOK(exec'[w].known[i]) /\ RowOK(exec'[w].written[i])
                   /\ exec'[w].known[i] # NoFact => Exists(w, i)'
        BY <2>1, <2>2, <3>3, <3>8, <4>1 DEF TInv, SlotOK, Exists, known
      <4>2. exec'[w].duplicate # NoTarget => exec'[w].known[exec'[w].duplicate] # NoFact
        BY <3>6 DEF id, known
      <4>3. pc'[w] \in {"invalidate", "store"} /\ exec'[w].todo # <<>> /\ exec'[w].episode \in Episodes
        BY <2>2, <2>4, <3>3 DEF TInv, SlotOK
      <4>4. pc'[w] = "invalidate" => /\ Targeted(w)' /\ Current(w).kind \in {"invalidate", "update"}
                                     /\ exec'[w].duplicate # Current(w).target
        BY <2>4, <3>1, <3>2, <3>10, SemanticMemoryAssumption DEF id
      <4>5. pc'[w] = "store" =>
              Brings(Current(w)) \/ (Current(w).kind = "reinforce" /\ Targeted(w)')
        BY <3>10, <3>11
      <4> QED BY <3>9, <4>1, <4>2, <4>3, <4>4, <4>5 DEF SlotOK, NoFact, Brings
    <3> QED BY <2>1, <2>2, <2>4, <3>7, <3>12, SameFacts, StepTInv DEF TInv, Types, Labels
  <2> QED BY <1>4, <2>3, <2>4, NextActionRecord
<1>5. ASSUME NEW w \in Slots, InvalidateTarget(w) PROVE TInv'
  <2> DEFINE t == Current(w).target
             gone == [View(w)[t] EXCEPT !.status = "invalid"]
  <2>1. UNCHANGED <<facts, consolidated, runs, mixed>>
    BY <1>5 DEF InvalidateTarget
  <2>2. /\ OnlySlot(w) /\ pc[w] = "invalidate"
        /\ pc'[w] = IF Current(w).kind = "invalidate" THEN "next" ELSE "store"
        /\ Targeted(w) /\ t \in FactIds /\ Current(w).kind \in {"invalidate", "update"}
        /\ gone \in Fact /\ RowOK(gone) /\ gone # NoFact
        /\ exec'[w].episode = exec[w].episode /\ exec'[w].duplicate = exec[w].duplicate
        /\ exec'[w].known = [exec[w].known EXCEPT ![t] = NoFact]
        /\ exec'[w].written = [exec[w].written EXCEPT ![t] = gone]
        /\ exec'[w].todo = IF Current(w).kind = "invalidate" THEN Tail(exec[w].todo) ELSE exec[w].todo
        /\ exec'[w] \in Work
    BY <1>5, InvalidateRecord
  <2> HIDE DEF gone
  <2>3. exec[w].known \in [FactIds -> Fact] /\ exec[w].written \in [FactIds -> Fact]
          /\ exec[w].duplicate \in FactIds \cup {NoTarget} /\ SlotOK(w)
    BY DEF TInv, Types, Work
  <2>4. \A id \in FactIds : Exists(w, id) => Exists(w, id)'
    BY <2>1, <2>2, <2>3 DEF Exists, NoFact
  <2>5. \A id \in FactIds :
          /\ RowOK(exec'[w].known[id]) /\ RowOK(exec'[w].written[id])
          /\ exec'[w].known[id] # NoFact => exec[w].known[id] # NoFact
    BY <2>2, <2>3, RowTypes DEF SlotOK
  <2>6. pc'[w] = "store" => exec'[w].todo # <<>> /\ Brings(Current(w)')
    BY <2>2, <2>3 DEF SlotOK, Current, Brings
  <2>8. exec'[w].duplicate # NoTarget => exec'[w].known[exec'[w].duplicate] # NoFact
    <3>1. exec[w].duplicate # t
      BY <1>5, <2>2, <2>3, InvalidateRecord DEF SlotOK
    <3> QED BY <2>2, <2>3, <3>1 DEF SlotOK
  <2>7. SlotOK(w)'
    BY <2>2, <2>3, <2>4, <2>5, <2>6, <2>8 DEF SlotOK, RowOK, NoFact, NoRepeats, Brings, Current
  <2> QED BY <2>1, <2>2, <2>7, SameFacts, StepTInv DEF TInv, Types, Labels
<1>6. ASSUME NEW w \in Slots, StoreFact(w) PROVE TInv'
  <2>1. UNCHANGED <<facts, consolidated, runs, mixed>>
    BY <1>6 DEF StoreFact
  <2>2. /\ OnlySlot(w) /\ pc'[w] = "next" /\ exec[w].episode \in Episodes
        /\ exec'[w].episode = exec[w].episode /\ exec'[w].duplicate = NoTarget /\ exec'[w] \in Work
    BY <1>6, StoreRecord
  <2>3. PICK id \in FactIds, read \in Fact, row \in Fact : Stores(w, id, read, row)
    BY <1>6, StoreRecord
  <2>4. exec[w].known \in [FactIds -> Fact] /\ exec[w].written \in [FactIds -> Fact] /\ SlotOK(w)
    BY DEF TInv, Types, Work
  <2>5. \A i \in FactIds : Exists(w, i) \/ (i = id /\ row # NoFact) => Exists(w, i)'
    <3>1. exec[w].written[id] # NoFact => row # NoFact
      <4>1. CASE Inserts(w, id, read, row)
        BY <4>1 DEF Inserts
      <4>2. CASE Strengthens(w, id, read, row)
        <5>1. View(w)[id] \in Fact /\ RowOK(View(w)[id]) /\ View(w)[id] # NoFact
          BY <4>2, ViewTypes DEF Strengthens
        <5> QED BY <4>2, <5>1, RowTypes DEF Strengthens, Reinforced, RowOK, Fact
      <4> QED BY <2>3, <4>1, <4>2 DEF Stores
    <3> QED BY <2>1, <2>3, <2>4, <3>1 DEF Exists, Stores, NoFact
  <2>6. read # NoFact => Exists(w, id) \/ row # NoFact
    BY <2>3 DEF Stores, Strengthens, Inserts
  <2>7. \A i \in FactIds :
          /\ RowOK(exec'[w].known[i]) /\ RowOK(exec'[w].written[i])
          /\ exec'[w].known[i] # NoFact => exec[w].known[i] # NoFact \/ (i = id /\ read # NoFact)
    BY <2>3, <2>4 DEF SlotOK, Stores
  <2>8. SlotOK(w)'
    BY <2>2, <2>4, <2>5, <2>6, <2>7 DEF SlotOK, RowOK, NoFact, NoRepeats
  <2> QED BY <2>1, <2>2, <2>8, SameFacts, StepTInv DEF TInv, Types, Labels
<1>7. ASSUME NEW w \in Slots, Commit(w) PROVE TInv'
  <2>1. UNCHANGED <<consolidated, runs, mixed>> /\ facts' = View(w)
    BY <1>7 DEF Commit
  <2>2. /\ OnlySlot(w) /\ pc'[w] = "mark" /\ exec'[w].episode \in Episodes /\ exec'[w] \in Work
        /\ exec'[w].duplicate = NoTarget
        /\ exec'[w].known = Untouched /\ exec'[w].written = Untouched
    BY <1>7, CommitRecord
  <2>3. facts' \in [FactIds -> Fact] /\ FactsOK' /\ NoFactGone
    BY <2>1, ViewTypes DEF FactsOK, NoFactGone, Exists, RowOK, NoFact, NoRepeats
  <2>4. SlotOK(w)'
    BY <2>2, RowTypes DEF SlotOK, RowOK, NoFact, NoRepeats, Untouched
  <2> QED BY <2>1, <2>2, <2>3, <2>4, StepTInv DEF TInv, Types, Labels
<1>8. ASSUME NEW w \in Slots, MarkConsolidated(w) \/ Fails(w) PROVE TInv'
  <2>1. Stop(w) /\ UNCHANGED <<facts, runs, mixed>> /\ consolidated' \subseteq Episodes
    BY <1>8 DEF MarkConsolidated, Fails, TInv, Types, SlotOK
  <2>2. OnlySlot(w) /\ pc'[w] = "idle" /\ exec'[w] = IdleExec
    BY <2>1, StopRecord
  <2>3. SlotOK(w)'
    BY <2>2, IdleSlotOK
  <2> QED BY <2>1, <2>2, <2>3, IdleTypes, SameFacts, StepTInv DEF TInv, Types, Labels
<1> QED
  BY <1>1, <1>2, <1>3, <1>4, <1>5, <1>6, <1>7, <1>8 DEF Next

LEMMA AlwaysTInv == Spec => []TInv
BY InitTInv, NextTInv, PTL DEF Spec

(* Every variable keeps its type: a row with a fact has a meaning and a source,
   and no action left to do lacks what it needs. *)
THEOREM TypeCorrect == Spec => []TypeOK
<1>1. Seq(UsableAction) \subseteq Seq(Action)
  BY SeqMonotonic DEF UsableAction
<1>2. Work \subseteq Exec
  BY <1>1 DEF Work, Exec
<1>3. TInv => TypeOK
  BY <1>2 DEF TInv, Types, FactsOK, RowOK, TypeOK
<1> QED BY <1>3, AlwaysTInv, PTL

(* For any executions, overlaps and proposals, a fact counts an episode once. *)
THEOREM EpisodesCountOnce == Spec => []EpisodeCountsOnce
<1>1. TInv => EpisodeCountsOnce
  BY DEF TInv, FactsOK, RowOK, EpisodeCountsOnce, NoRepeats, NoFact
<1> QED BY <1>1, AlwaysTInv, PTL
--------------------------------------------------------------------------------
(***************************************************************************)
(* Invalidation.                                                           *)
(***************************************************************************)
(* A row is written by one transaction at a time, and a transaction that writes
   an invalidated fact leaves it invalidated. *)
WrittenAlone ==
  \A id \in FactIds : \A w \in Slots : exec[w].written[id] # NoFact =>
    /\ facts[id].status = "invalid" => exec[w].written[id].status = "invalid"
    /\ \A v \in Slots \ {w} : exec[v].written[id] = NoFact

(* The rows that slots have written, one of them aside, as they were or given up. *)
LEMMA AloneKept ==
  ASSUME WrittenAlone, UNCHANGED facts, NEW w \in Slots, NEW t \in FactIds,
         exec'[w].written[t] # NoFact =>
           /\ \A v \in Slots \ {w} : exec[v].written[t] = NoFact
           /\ facts[t].status = "invalid" => exec'[w].written[t].status = "invalid",
         \A id \in FactIds \ {t} : exec'[w].written[id] \in {exec[w].written[id], NoFact},
         \A v \in Slots \ {w} : exec'[v] = exec[v]
  PROVE  WrittenAlone'
<1> SUFFICES ASSUME NEW id \in FactIds, NEW u \in Slots, exec'[u].written[id] # NoFact
             PROVE  /\ facts'[id].status = "invalid" => exec'[u].written[id].status = "invalid"
                    /\ \A v \in Slots \ {u} : exec'[v].written[id] = NoFact
  BY DEF WrittenAlone, NoFact
<1>1. CASE id # t
  BY <1>1 DEF WrittenAlone
<1>2. CASE id = t /\ u = w
  BY <1>2 DEF WrittenAlone
<1>3. CASE id = t /\ u # w
  BY <1>3 DEF WrittenAlone
<1> QED BY <1>1, <1>2, <1>3

LEMMA AloneGivenUp ==
  ASSUME WrittenAlone, UNCHANGED facts, NEW w \in Slots,
         \A id \in FactIds : exec'[w].written[id] \in {exec[w].written[id], NoFact},
         \A v \in Slots \ {w} : exec'[v] = exec[v]
  PROVE  WrittenAlone'
<1> SUFFICES ASSUME NEW id \in FactIds, NEW u \in Slots, exec'[u].written[id] # NoFact
             PROVE  /\ facts'[id].status = "invalid" => exec'[u].written[id].status = "invalid"
                    /\ \A v \in Slots \ {u} : exec'[v].written[id] = NoFact
  BY DEF WrittenAlone, NoFact
<1> QED BY DEF WrittenAlone

LEMMA NextWrittenAlone == TInv /\ WrittenAlone /\ [Next]_vars => WrittenAlone'
<1> SUFFICES ASSUME TInv, WrittenAlone, [Next]_vars PROVE WrittenAlone'
  OBVIOUS
<1>1. CASE UNCHANGED <<facts, exec>>
  BY <1>1 DEF WrittenAlone, NoFact
<1>2. ASSUME NEW w \in Slots, NEW e \in Episodes, Begin(w, e) PROVE WrittenAlone'
  <2>1. UNCHANGED facts
    BY <1>2 DEF Begin
  <2>2. CASE e \in consolidated
    BY <1>1, <1>2, <2>1, <2>2 DEF Begin
  <2>3. CASE e \notin consolidated
    BY <1>2, <2>1, <2>3, BeginRecord, RowTypes, AloneGivenUp DEF OnlySlot
  <2> QED BY <2>2, <2>3
<1>3. ASSUME NEW w \in Slots, Extract(w) \/ NextAction(w) PROVE WrittenAlone'
  <2>1. UNCHANGED facts /\ OnlySlot(w) /\ exec[w] \in Work
    BY <1>3, ExtractRecord, NextActionRecord DEF Extract, NextAction, TInv, Types
  <2>2. exec'[w].written = exec[w].written
    BY <1>3, <2>1, ExtractRecord, NextActionRecord DEF Work
  <2> QED BY <2>1, <2>2, AloneGivenUp DEF OnlySlot
<1>4. ASSUME NEW w \in Slots, InvalidateTarget(w) PROVE WrittenAlone'
  <2> DEFINE t == Current(w).target
             gone == [View(w)[t] EXCEPT !.status = "invalid"]
  <2>1. /\ UNCHANGED facts /\ OnlySlot(w) /\ t \in FactIds /\ Unlocked(w, t)
        /\ exec'[w].written = [exec[w].written EXCEPT ![t] = gone]
    BY <1>4, InvalidateRecord DEF InvalidateTarget
  <2>2. View(w)[t] \in Fact /\ exec[w].written \in [FactIds -> Fact]
    BY <2>1, ViewTypes DEF TInv, Types, Work
  <2>3. gone.status = "invalid"
    BY <2>2 DEF Fact
  <2> HIDE DEF gone
  <2>4. PICK i \in FactIds : i = t
    BY <2>1
  <2> QED BY <2>1, <2>2, <2>3, <2>4, AloneKept DEF OnlySlot, Unlocked
<1>5. ASSUME NEW w \in Slots, StoreFact(w) PROVE WrittenAlone'
  <2>1. UNCHANGED facts /\ OnlySlot(w)
    BY <1>5, StoreRecord DEF StoreFact
  <2>2. PICK id \in FactIds, read \in Fact, row \in Fact : Stores(w, id, read, row)
    BY <1>5, StoreRecord
  <2>3. exec'[w].written = [exec[w].written EXCEPT ![id] = row]
          /\ exec[w].written \in [FactIds -> Fact]
    BY <2>2 DEF Stores, TInv, Types, Work
  <2>4. CASE row = exec[w].written[id]
    BY <2>1, <2>3, <2>4, AloneGivenUp DEF OnlySlot
  <2>5. CASE Inserts(w, id, read, row)
    BY <2>1, <2>3, <2>5, AloneKept, RowTypes DEF OnlySlot, Inserts
  <2>6. CASE Unlocked(w, id) /\ row = Reinforced(View(w)[id], read, exec[w].episode)
    <3>1. row.status = View(w)[id].status
      BY <2>6, ViewTypes DEF Reinforced, Fact
    <3>2. facts[id].status = "invalid" => row.status = "invalid"
      BY <3>1 DEF View, WrittenAlone
    <3> QED BY <2>1, <2>3, <2>6, <3>2, AloneKept DEF OnlySlot, Unlocked
  <2> QED BY <2>2, <2>4, <2>5, <2>6 DEF Stores, Strengthens
<1>6. ASSUME NEW w \in Slots, Commit(w) PROVE WrittenAlone'
  <2>1. facts' = View(w) /\ OnlySlot(w) /\ exec'[w].written = Untouched
    BY <1>6, CommitRecord DEF Commit
  <2>2. ASSUME NEW id \in FactIds, NEW u \in Slots, exec'[u].written[id] # NoFact
        PROVE  /\ facts'[id].status = "invalid" => exec'[u].written[id].status = "invalid"
               /\ \A v \in Slots \ {u} : exec'[v].written[id] = NoFact
    <3>1. u # w /\ exec'[u] = exec[u]
      BY <2>1, <2>2, RowTypes DEF OnlySlot
    <3>2. exec[w].written[id] = NoFact
      BY <2>2, <3>1 DEF WrittenAlone
    <3>3. facts'[id] = facts[id]
      BY <2>1, <3>2 DEF View
    <3> QED BY <2>1, <2>2, <3>1, <3>3, RowTypes DEF WrittenAlone, OnlySlot
  <2> QED BY <2>2 DEF WrittenAlone, NoFact
<1>7. ASSUME NEW w \in Slots, MarkConsolidated(w) \/ Fails(w) PROVE WrittenAlone'
  <2>1. Stop(w) /\ UNCHANGED facts
    BY <1>7 DEF MarkConsolidated, Fails
  <2> QED BY <2>1, StopRecord, IdleTypes, RowTypes, AloneGivenUp DEF OnlySlot
<1> QED
  BY <1>1, <1>2, <1>3, <1>4, <1>5, <1>6, <1>7 DEF Next, vars

LEMMA AlwaysAlone == Spec => [](TInv /\ WrittenAlone)
<1>1. Init => WrittenAlone
  BY IdleTypes, RowTypes DEF Init, WrittenAlone
<1> QED BY <1>1, InitTInv, NextTInv, NextWrittenAlone, PTL DEF Spec

(* The fact table changes in commits only. *)
LEMMA FactsChange ==
  ASSUME [Next]_vars
  PROVE  UNCHANGED facts \/ \E w \in Slots : Commit(w)
<1>1. ASSUME NEW w \in Slots,
             \/ \E e \in Episodes : Begin(w, e)
             \/ Extract(w) \/ NextAction(w) \/ InvalidateTarget(w)
      PROVE  UNCHANGED facts
  BY <1>1 DEF Begin, Extract, NextAction, InvalidateTarget
<1>2. ASSUME NEW w \in Slots, StoreFact(w) \/ MarkConsolidated(w) \/ Fails(w)
      PROVE  UNCHANGED facts
  BY <1>2 DEF StoreFact, MarkConsolidated, Fails
<1> QED BY <1>1, <1>2 DEF Next, vars

(* For any overlap of executions, whatever they loaded before: an invalidated
   fact stays invalid. *)
THEOREM InvalidStaysInvalid == Spec => InvalidationIsFinal
<1>1. ASSUME TInv, WrittenAlone, [Next]_vars, NEW id \in FactIds, facts[id].status = "invalid"
      PROVE  facts'[id].status = "invalid"
  <2>1. CASE UNCHANGED facts
    BY <1>1, <2>1
  <2>2. ASSUME NEW w \in Slots, Commit(w) PROVE facts'[id].status = "invalid"
    <3>1. facts'[id] = IF exec[w].written[id] # NoFact THEN exec[w].written[id] ELSE facts[id]
      BY <2>2 DEF Commit, View
    <3> QED BY <1>1, <3>1 DEF WrittenAlone
  <2> QED BY <1>1, <2>1, <2>2, FactsChange
<1>2. TInv /\ WrittenAlone /\ [Next]_vars =>
        [\A id \in FactIds : facts[id].status = "invalid" => facts'[id].status = "invalid"]_vars
  BY <1>1
<1> QED BY <1>2, AlwaysAlone, PTL DEF Spec, InvalidationIsFinal
--------------------------------------------------------------------------------
(***************************************************************************)
(* Executions that do not overlap.                                         *)
(***************************************************************************)
OneAtWork ==
  \A v, w \in Slots : exec[v].episode # NoEpisode /\ exec[w].episode # NoEpisode => v = w

Distinct(table) == \A a, b \in Active(table) : table[a].meaning = table[b].meaning => a = b

(* The transaction knows every active fact that it sees. *)
KnowsActive(w) ==
  pc[w] \notin {"idle", "mark"} => \A id \in Active(View(w)) : exec[w].known[id] # NoFact

(* What is about to be inserted says what no active fact says, but for the one
   that it replaces. *)
SaysNew(w) ==
  pc[w] \in {"invalidate", "store"} /\ Brings(Current(w)) /\ exec[w].duplicate = NoTarget =>
    \A id \in Active(View(w)) : View(w)[id].meaning = Current(w).meaning =>
      pc[w] = "invalidate" /\ id = Current(w).target

(* The sources that were read are those of the row, but for the episode itself,
   and what is written extends what is committed. *)
ReadsCurrent(w) ==
  \A id \in FactIds : exec[w].known[id] # NoFact =>
    \/ View(w)[id].sources = exec[w].known[id].sources
    \/ View(w)[id].sources = AddSource(exec[w].known[id].sources, exec[w].episode)

WritesAhead(w) ==
  \A id \in FactIds : exec[w].written[id] # NoFact =>
    Ahead(facts[id].sources, exec[w].written[id].sources)

SlotAlone(w) ==
  Distinct(View(w)) /\ KnowsActive(w) /\ SaysNew(w) /\ ReadsCurrent(w) /\ WritesAhead(w)

SInv == TInv /\ (mixed \/ (OneAtWork /\ Distinct(facts) /\ \A w \in Slots : SlotAlone(w)))

(* Of a slot that has written nothing there is little to say. *)
LEMMA NothingWritten ==
  /\ \A w \in Slots : TInv /\ exec[w].written = Untouched => View(w) = facts
  /\ \A w \in Slots : TInv' /\ exec'[w].written = Untouched => View(w)' = facts'
<1>1. \A table : table \in [FactIds -> Fact] =>
        table = [id \in FactIds |-> IF NoFact # NoFact THEN NoFact ELSE table[id]]
  OBVIOUS
<1>2. ASSUME NEW w \in Slots, TInv, exec[w].written = Untouched PROVE View(w) = facts
  <2>1. facts \in [FactIds -> Fact]
    BY <1>2 DEF TInv, Types
  <2>2. \A id \in FactIds : exec[w].written[id] = NoFact
    BY <1>2, RowTypes
  <2> QED BY <2>1, <2>2 DEF View
<1>3. ASSUME NEW w \in Slots, TInv', exec'[w].written = Untouched PROVE View(w)' = facts'
  <2>1. facts' \in [FactIds -> Fact]
    BY <1>3 DEF TInv, Types
  <2>2. \A id \in FactIds : exec'[w].written[id] = NoFact
    BY <1>3, RowTypes
  <2>3. View(w)' = [id \in FactIds |-> IF exec'[w].written[id] # NoFact THEN exec'[w].written[id]
                                                                      ELSE facts'[id]]
    BY DEF View, NoFact
  <2> QED BY <2>1, <2>2, <2>3
<1> QED BY <1>2, <1>3

LEMMA FreshSlotAlone ==
  ASSUME TInv', NEW w \in Slots, exec'[w].written = Untouched, Distinct(facts)',
         \A id \in FactIds : exec'[w].known[id] \in {facts'[id], NoFact},
         \/ pc'[w] \in {"idle", "mark"}
         \/ pc'[w] = "extract" /\ \A id \in Active(facts') : exec'[w].known[id] # NoFact
  PROVE  SlotAlone(w)'
<1>1. View(w)' = facts'
  BY NothingWritten
<1>2. Distinct(View(w))'
  BY <1>1 DEF Distinct, Active
<1>3. KnowsActive(w)'
  BY <1>1 DEF KnowsActive, Active, NoFact
<1>4. SaysNew(w)'
  BY DEF SaysNew
<1>5. ReadsCurrent(w)'
  BY <1>1 DEF ReadsCurrent, NoFact
<1>6. WritesAhead(w)'
  BY RowTypes DEF WritesAhead, NoFact
<1> QED BY <1>2, <1>3, <1>4, <1>5, <1>6 DEF SlotAlone

(* A step of the slot at work: the others have no job, so only it and the facts
   matter. *)
LEMMA StepSInv ==
  ASSUME SInv, TInv', ~ mixed, NEW w \in Slots, OnlySlot(w),
         \A v \in Slots \ {w} : exec[v].episode = NoEpisode,
         Distinct(facts)', SlotAlone(w)'
  PROVE  SInv'
<1>1. ASSUME NEW v \in Slots \ {w}
      PROVE  SlotAlone(v)' /\ exec'[v].episode = NoEpisode
  <2>1. SlotOK(v) /\ exec'[v] = exec[v] /\ pc'[v] = pc[v]
    BY DEF SInv, TInv, OnlySlot
  <2>2. pc'[v] = "idle" /\ exec'[v] = IdleExec
    BY <2>1, SemanticMemoryAssumption DEF SlotOK
  <2> QED BY <2>2, IdleTypes, RowTypes, FreshSlotAlone
<1>2. OneAtWork'
  BY <1>1 DEF OneAtWork
<1> QED BY <1>1, <1>2 DEF SInv

(* Without overlap the slot that has a job is the only one. *)
LEMMA OthersIdle ==
  ASSUME SInv, ~ mixed, NEW w \in Slots, pc[w] # "idle"
  PROVE  /\ \A v \in Slots \ {w} : exec[v].episode = NoEpisode
         /\ SlotAlone(w) /\ Distinct(facts) /\ exec[w].episode \in Episodes
<1>1. exec[w].episode \in Episodes /\ exec[w].episode # NoEpisode
  BY SemanticMemoryAssumption DEF SInv, TInv, SlotOK
<1> QED BY <1>1 DEF SInv, OneAtWork

(* The view of a slot after it wrote one row. *)
LEMMA ViewWritten ==
  ASSUME TInv, UNCHANGED facts, NEW w \in Slots, NEW id \in FactIds, NEW row \in Fact,
         exec'[w].written = [exec[w].written EXCEPT ![id] = row], row # NoFact
  PROVE  View(w)' = [View(w) EXCEPT ![id] = row]
<1>1. exec[w].written \in [FactIds -> Fact]
  BY DEF TInv, Types, Work
<1>2. View(w)' = [i \in FactIds |-> IF exec'[w].written[i] # NoFact THEN exec'[w].written[i]
                                                                    ELSE facts[i]]
  BY DEF View, NoFact
<1> QED BY <1>1, <1>2 DEF View

LEMMA ViewKept ==
  ASSUME UNCHANGED facts, NEW w \in Slots, exec'[w].written = exec[w].written
  PROVE  View(w)' = View(w)
BY DEF View, NoFact

LEMMA BeginSInv ==
  ASSUME SInv, TInv', NEW w \in Slots, NEW e \in Episodes, Begin(w, e)
  PROVE  SInv'
<1>1. CASE mixed'
  BY <1>1 DEF SInv
<1>2. CASE e \in consolidated
  <2>1. UNCHANGED <<facts, pc, exec, mixed>>
    BY <1>2 DEF Begin
  <2>2. OneAtWork = OneAtWork' /\ Distinct(facts) = Distinct(facts)'
    BY <2>1 DEF OneAtWork, Distinct, Active
  <2>3. \A v \in Slots : SlotAlone(v) => SlotAlone(v)'
    BY <2>1 DEF SlotAlone, Distinct, Active, View, KnowsActive, SaysNew, ReadsCurrent, WritesAhead,
       NoFact, Current
  <2> QED BY <2>1, <2>2, <2>3 DEF SInv
<1>3. CASE e \notin consolidated /\ ~ mixed'
  <2>1. PICK related \in SUBSET Active(facts) :
          /\ exec'[w].known = [id \in FactIds |-> IF id \in related THEN facts[id] ELSE NoFact]
          /\ mixed' = (mixed \/ related # Active(facts)
                         \/ \E v \in Slots \ {w} : exec[v].episode # NoEpisode)
    BY <1>3, BeginRecord DEF SInv
  <2>2. /\ ~ mixed /\ related = Active(facts)
        /\ \A v \in Slots \ {w} : exec[v].episode = NoEpisode
    BY <1>3, <2>1
  <2>3. OnlySlot(w) /\ pc'[w] = "extract" /\ exec'[w].written = Untouched /\ UNCHANGED facts
    BY <1>3, BeginRecord DEF SInv, Begin
  <2>4. Distinct(facts)'
    BY <2>2, <2>3 DEF SInv, Distinct, Active
  <2>5. \A id \in Active(facts') : exec'[w].known[id] # NoFact
    BY <2>1, <2>2, <2>3, RowTypes DEF Active
  <2>6. \A id \in FactIds : exec'[w].known[id] \in {facts'[id], NoFact}
    BY <2>1, <2>3
  <2>7. SlotAlone(w)'
    BY <2>3, <2>4, <2>5, <2>6, FreshSlotAlone
  <2> QED BY <2>2, <2>3, <2>4, <2>7, StepSInv
<1> QED BY <1>1, <1>2, <1>3

LEMMA ExtractSInv ==
  ASSUME SInv, TInv', ~ mixed, NEW w \in Slots, Extract(w)
  PROVE  SInv'
<1>1. /\ OnlySlot(w) /\ pc[w] = "extract" /\ pc'[w] \in {"mark", "next"}
      /\ exec'[w] = [exec[w] EXCEPT !.todo = exec'[w].todo] /\ UNCHANGED facts
  BY ExtractRecord DEF SInv, Extract
<1>2. /\ exec'[w].episode = exec[w].episode /\ exec'[w].known = exec[w].known
      /\ exec'[w].written = exec[w].written
  BY <1>1 DEF SInv, TInv, Types, Work
<1>3. View(w)' = View(w)
  BY <1>1, <1>2, ViewKept
<1>4. Distinct(facts)'
  BY <1>1, OthersIdle DEF Distinct, Active
<1>5. SlotAlone(w)'
  BY <1>1, <1>2, <1>3, OthersIdle
  DEF SlotAlone, Distinct, Active, KnowsActive, SaysNew, ReadsCurrent, WritesAhead, NoFact
<1> QED BY <1>1, <1>4, <1>5, OthersIdle, StepSInv

LEMMA NextActionSInv ==
  ASSUME SInv, TInv', ~ mixed, NEW w \in Slots, NextAction(w)
  PROVE  SInv'
<1> DEFINE exclude == IF Targeted(w) THEN Current(w).target ELSE NoTarget
           found == Duplicates(w, Current(w).meaning, exclude)
<1>1. OnlySlot(w) /\ pc[w] = "next" /\ exec[w].todo # <<>> /\ UNCHANGED facts /\ exec[w] \in Work
  BY NextActionRecord DEF SInv, NextAction, TInv, Types
<1>2. exec'[w].episode = exec[w].episode /\ exec'[w].written = exec[w].written
  BY <1>1, NextActionRecord DEF SInv, Work
<1>3. View(w)' = View(w)
  BY <1>1, <1>2, ViewKept
<1>4. Distinct(facts)'
  BY <1>1, OthersIdle DEF Distinct, Active
<1>5. SlotAlone(w)
  BY <1>1, OthersIdle
<1>6. SaysNew(w)'
  <2>1. CASE pc'[w] = "next"
    BY <2>1 DEF SaysNew
  <2>2. CASE /\ exec'[w] = [exec[w] EXCEPT !.duplicate = exec'[w].duplicate,
                                           !.known = exec'[w].known]
             /\ pc'[w] = IF Current(w).kind \in {"invalidate", "update"} /\ Targeted(w)
                           THEN "invalidate" ELSE "store"
             /\ IF Brings(Current(w)) /\ found # {} THEN exec'[w].duplicate \in found
                                                    ELSE exec'[w].duplicate = NoTarget
    <3> SUFFICES ASSUME Brings(Current(w)), exec'[w].duplicate = NoTarget,
                        NEW id \in Active(View(w)), View(w)[id].meaning = Current(w).meaning
                 PROVE  pc'[w] = "invalidate" /\ id = Current(w).target
      <4>1. Current(w)' = Current(w)
        BY <1>1, <2>2 DEF Work, Current
      <4> QED BY <1>3, <4>1 DEF SaysNew, Brings, Active
    <3>1. exec[w].known[id] # NoFact /\ id \in FactIds /\ id # NoTarget
      BY <1>1, <1>5, SemanticMemoryAssumption DEF SlotAlone, KnowsActive, Active
    <3>2. NoTarget \notin found
      BY SemanticMemoryAssumption DEF Duplicates, Active
    <3>3. found = {}
      BY <2>2, <3>2
    <3>4. id = exclude
      BY <3>1, <3>3 DEF Duplicates
    <3>5. Targeted(w) /\ id = Current(w).target
      BY <3>1, <3>4
    <3>6. Current(w).kind = "update"
      BY <1>1, <3>5, CurrentUsable DEF SInv, Brings
    <3> QED BY <2>2, <3>5, <3>6
  <2> QED BY <2>1, <2>2, NextActionRecord DEF SInv
<1>7. Distinct(View(w))' /\ ReadsCurrent(w)' /\ WritesAhead(w)' /\ KnowsActive(w)'
  <2>1. \A i \in FactIds :
          \/ exec'[w].known[i] = exec[w].known[i]
          \/ exec'[w].known[i] = View(w)[i] /\ View(w)[i] # NoFact
    <3>1. CASE exec'[w].known = exec[w].known
      BY <3>1
    <3>2. CASE Finds(w, exec'[w].duplicate, exec'[w].known) /\ exec'[w].duplicate \in found
      <4>1. View(w)[exec'[w].duplicate] # NoFact
        BY <3>2, RowTypes DEF Duplicates, Active
      <4>2. exec'[w].duplicate # NoTarget
        BY <3>2, SemanticMemoryAssumption DEF Duplicates, Active
      <4>3. exec'[w].known = [exec[w].known EXCEPT ![exec'[w].duplicate] = View(w)[exec'[w].duplicate]]
        BY <3>2, <4>2 DEF Finds
      <4> QED BY <1>1, <4>1, <4>3 DEF Work
    <3> QED BY <1>1, <3>1, <3>2, NextActionRecord DEF SInv, Work, Finds
  <2>2. Distinct(View(w))' /\ WritesAhead(w)'
    BY <1>1, <1>2, <1>3, <1>5 DEF SlotAlone, Distinct, Active, WritesAhead, NoFact
  <2>3. KnowsActive(w)'
    BY <1>1, <1>3, <1>5, <2>1 DEF SlotAlone, KnowsActive, Active, NoFact
  <2>4. ReadsCurrent(w)'
    BY <1>2, <1>3, <1>5, <2>1 DEF SlotAlone, ReadsCurrent, NoFact, AddSource
  <2> QED BY <2>2, <2>3, <2>4
<1>8. SlotAlone(w)'
  BY <1>6, <1>7 DEF SlotAlone
<1> QED BY <1>1, <1>4, <1>8, OthersIdle, StepSInv

LEMMA InvalidateSInv ==
  ASSUME SInv, TInv', ~ mixed, NEW w \in Slots, InvalidateTarget(w)
  PROVE  SInv'
<1> DEFINE t == Current(w).target
           gone == [View(w)[t] EXCEPT !.status = "invalid"]
<1>1. /\ OnlySlot(w) /\ pc[w] = "invalidate" /\ UNCHANGED facts
      /\ pc'[w] = IF Current(w).kind = "invalidate" THEN "next" ELSE "store"
      /\ Current(w).kind \in {"invalidate", "update"} /\ t \in FactIds
      /\ gone \in Fact /\ gone # NoFact
      /\ exec'[w].episode = exec[w].episode /\ exec'[w].duplicate = exec[w].duplicate
      /\ exec'[w].known = [exec[w].known EXCEPT ![t] = NoFact]
      /\ exec'[w].written = [exec[w].written EXCEPT ![t] = gone]
      /\ exec'[w].todo = IF Current(w).kind = "invalidate" THEN Tail(exec[w].todo) ELSE exec[w].todo
  BY InvalidateRecord DEF SInv, InvalidateTarget
<1>2. /\ View(w) \in [FactIds -> Fact] /\ exec[w].known \in [FactIds -> Fact]
      /\ exec[w].written \in [FactIds -> Fact] /\ facts \in [FactIds -> Fact]
  BY ViewTypes DEF SInv, TInv, Types, Work
<1>3. gone.status = "invalid" /\ gone.sources = View(w)[t].sources
  BY <1>1, <1>2 DEF Fact
<1> HIDE DEF gone
<1>4. PICK i \in FactIds, g \in Fact : i = t /\ g = gone
  BY <1>1
<1>5. View(w)' = [View(w) EXCEPT ![i] = g]
  BY <1>1, <1>4, ViewWritten DEF SInv
<1>6. SlotAlone(w) /\ exec[w].episode \in Episodes
  BY <1>1, OthersIdle
<1>7. Active(View(w)') = Active(View(w)) \ {i}
  BY <1>2, <1>3, <1>4, <1>5 DEF Active
<1>8. Distinct(View(w))'
  <2>1. Distinct(View(w)')
    BY <1>2, <1>5, <1>6, <1>7 DEF Distinct, SlotAlone, Active
  <2> QED BY <2>1 DEF Distinct, Active
<1>9. KnowsActive(w)'
  BY <1>1, <1>2, <1>4, <1>6, <1>7 DEF KnowsActive, SlotAlone, NoFact, Active
<1>10. SaysNew(w)'
  <2>1. CASE pc'[w] = "next"
    BY <2>1 DEF SaysNew
  <2>2. CASE pc'[w] = "store"
    <3>1. Current(w)' = Current(w) /\ Current(w).kind = "update"
      BY <1>1, <2>2 DEF Current
    <3>2. exec[w].duplicate = NoTarget => \A id \in Active(View(w)) :
            View(w)[id].meaning = Current(w).meaning => id = i
      BY <1>1, <1>4, <1>6, <3>1 DEF SlotAlone, SaysNew, Brings
    <3>3. exec[w].duplicate = NoTarget => \A id \in Active(View(w)') :
            View(w)'[id].meaning # Current(w).meaning
      BY <1>2, <1>5, <1>7, <3>2 DEF Active
    <3> QED BY <1>1, <3>1, <3>3 DEF SaysNew, Active
  <2> QED BY <1>1, <2>1, <2>2
<1>11. ReadsCurrent(w)'
  <2>1. ASSUME NEW id \in FactIds, exec'[w].known[id] # NoFact
        PROVE  \/ View(w)'[id].sources = exec'[w].known[id].sources
               \/ View(w)'[id].sources = AddSource(exec'[w].known[id].sources, exec'[w].episode)
    <3>1. id # i /\ exec'[w].known[id] = exec[w].known[id]
      BY <1>1, <1>2, <1>4, <2>1
    <3> QED BY <1>1, <1>2, <1>5, <1>6, <2>1, <3>1 DEF SlotAlone, ReadsCurrent
  <2> QED BY <2>1 DEF ReadsCurrent, NoFact, AddSource
<1>12. WritesAhead(w)'
  <2>1. ASSUME NEW id \in FactIds, exec'[w].written[id] # NoFact
        PROVE  Ahead(facts'[id].sources, exec'[w].written[id].sources)
    <3>1. facts[id].sources \in Seq(Episodes)
      BY <1>2 DEF Fact
    <3>2. CASE id # i
      BY <1>1, <1>2, <1>4, <1>6, <2>1, <3>2 DEF SlotAlone, WritesAhead
    <3>3. CASE id = i
      <4>1. exec'[w].written[id].sources = View(w)[id].sources
        BY <1>1, <1>2, <1>3, <1>4, <3>3
      <4>2. Ahead(facts[id].sources, View(w)[id].sources)
        BY <1>6, <3>1, AheadOrder DEF View, SlotAlone, WritesAhead
      <4> QED BY <1>1, <4>1, <4>2
    <3> QED BY <3>2, <3>3
  <2> QED BY <2>1 DEF WritesAhead, NoFact, Ahead
<1>13. SlotAlone(w)'
  BY <1>8, <1>9, <1>10, <1>11, <1>12 DEF SlotAlone
<1>14. Distinct(facts)'
  BY <1>1, OthersIdle DEF Distinct, Active
<1> QED BY <1>1, <1>13, <1>14, OthersIdle, StepSInv

LEMMA CommitSInv ==
  ASSUME SInv, TInv', ~ mixed, NEW w \in Slots, Commit(w)
  PROVE  SInv'
<1>1. /\ OnlySlot(w) /\ pc[w] = "next" /\ pc'[w] = "mark" /\ facts' = View(w)
      /\ exec'[w].known = Untouched /\ exec'[w].written = Untouched
  BY CommitRecord DEF SInv, Commit
<1>2. SlotAlone(w)
  BY <1>1, OthersIdle
<1>3. Distinct(facts)'
  BY <1>1, <1>2 DEF SlotAlone, Distinct, Active
<1>4. SlotAlone(w)'
  BY <1>1, <1>3, RowTypes, FreshSlotAlone
<1> QED BY <1>1, <1>3, <1>4, OthersIdle, StepSInv

LEMMA StopSInv ==
  ASSUME SInv, TInv', ~ mixed, NEW w \in Slots, pc[w] # "idle", Stop(w), UNCHANGED facts
  PROVE  SInv'
<1>1. OnlySlot(w) /\ pc'[w] = "idle" /\ exec'[w] = IdleExec
  BY StopRecord DEF SInv
<1>2. Distinct(facts)'
  BY OthersIdle DEF Distinct, Active
<1>3. SlotAlone(w)'
  BY <1>1, <1>2, IdleTypes, RowTypes, FreshSlotAlone
<1> QED BY <1>1, <1>2, <1>3, OthersIdle, StepSInv

(* Storing a fact, seen from the transaction: nothing is written, or a row keeps
   its meaning and gains sources, or a new row says what no other says. *)
LEMMA StoreSInv ==
  ASSUME SInv, TInv', ~ mixed, NEW w \in Slots, StoreFact(w)
  PROVE  SInv'
<1> DEFINE e == exec[w].episode
<1>1. /\ OnlySlot(w) /\ pc[w] = "store" /\ pc'[w] = "next" /\ UNCHANGED facts
      /\ e \in Episodes /\ exec'[w].episode = e /\ exec[w].todo # <<>>
  BY StoreRecord DEF SInv, StoreFact
<1>2. /\ View(w) \in [FactIds -> Fact] /\ exec[w].known \in [FactIds -> Fact]
      /\ exec[w].written \in [FactIds -> Fact] /\ facts \in [FactIds -> Fact]
  BY ViewTypes DEF SInv, TInv, Types, Work
<1>3. PICK id \in FactIds, read \in Fact, row \in Fact : Stores(w, id, read, row)
  BY StoreRecord DEF SInv
<1>4. /\ exec'[w].known = [exec[w].known EXCEPT ![id] = read]
      /\ exec'[w].written = [exec[w].written EXCEPT ![id] = row]
  BY <1>3 DEF Stores
<1>5. SlotAlone(w) /\ Distinct(facts)
  BY <1>1, OthersIdle
<1>6. Ahead(facts[id].sources, View(w)[id].sources)
  BY <1>2, <1>5, AheadOrder DEF View, SlotAlone, WritesAhead, Fact
<1>7. ASSUME Inserts(w, id, read, row) PROVE SlotAlone(w)'
  <2>1. /\ facts[id] = NoFact /\ View(w)[id] = NoFact /\ read = row /\ row # NoFact
        /\ Brings(Current(w)) /\ exec[w].duplicate = NoTarget
        /\ row.status = "active" /\ row.meaning = Current(w).meaning /\ row.sources = <<e>>
    BY <1>7 DEF Inserts, View
  <2>2. View(w)' = [View(w) EXCEPT ![id] = row]
    BY <1>1, <1>4, <2>1, ViewWritten DEF SInv
  <2>3. Active(View(w)') = Active(View(w)) \cup {id}
    BY <1>2, <2>1, <2>2 DEF Active
  <2>4. id \notin Active(View(w)) /\ \A k \in Active(View(w)) : View(w)[k].meaning # row.meaning
    BY <1>1, <1>5, <2>1, RowTypes DEF SlotAlone, SaysNew, Active
  <2>5. Distinct(View(w)')
    BY <1>2, <1>5, <2>2, <2>3, <2>4 DEF Distinct, SlotAlone, Active
  <2>6. KnowsActive(w)'
    BY <1>1, <1>2, <1>4, <1>5, <2>1, <2>3 DEF KnowsActive, SlotAlone, NoFact, Active
  <2>7. ASSUME NEW k \in FactIds, exec'[w].known[k] # NoFact
        PROVE  \/ View(w)'[k].sources = exec'[w].known[k].sources
               \/ View(w)'[k].sources = AddSource(exec'[w].known[k].sources, exec'[w].episode)
    BY <1>1, <1>2, <1>4, <1>5, <2>1, <2>2, <2>7 DEF SlotAlone, ReadsCurrent
  <2>8. ASSUME NEW k \in FactIds, exec'[w].written[k] # NoFact
        PROVE  Ahead(facts'[k].sources, exec'[w].written[k].sources)
    <3>1. CASE k # id
      BY <1>1, <1>2, <1>4, <1>5, <2>8, <3>1 DEF SlotAlone, WritesAhead
    <3>2. CASE k = id
      <4>1. row.sources \in Seq(Episodes) /\ facts[id].sources = <<>>
        BY <2>1, RowTypes DEF Fact
      <4>2. Ahead(<<>>, row.sources)
        BY <4>1, AheadOrder
      <4> QED BY <1>1, <1>2, <1>4, <3>2, <4>1, <4>2
    <3> QED BY <3>1, <3>2
  <2> QED BY <1>1, <2>5, <2>6, <2>7, <2>8
      DEF SlotAlone, Distinct, Active, SaysNew, ReadsCurrent, WritesAhead, NoFact, Ahead, AddSource
<1>8. ASSUME Strengthens(w, id, read, row), row = exec[w].written[id],
             AddSource(read.sources, e) = read.sources
      PROVE  SlotAlone(w)'
  <2>1. exec'[w].written = exec[w].written
    BY <1>2, <1>4, <1>8
  <2>2. View(w)' = View(w)
    BY <1>1, <2>1, ViewKept
  <2>3. read # NoFact /\ View(w)[id].sources = read.sources
    BY <1>1, <1>5, <1>8 DEF Strengthens, SlotAlone, ReadsCurrent
  <2>4. KnowsActive(w)'
    BY <1>1, <1>2, <1>4, <1>5, <2>2, <2>3 DEF KnowsActive, SlotAlone, NoFact, Active
  <2>5. ASSUME NEW k \in FactIds, exec'[w].known[k] # NoFact
        PROVE  \/ View(w)'[k].sources = exec'[w].known[k].sources
               \/ View(w)'[k].sources = AddSource(exec'[w].known[k].sources, exec'[w].episode)
    BY <1>1, <1>2, <1>4, <1>5, <2>2, <2>3, <2>5 DEF SlotAlone, ReadsCurrent
  <2>6. ReadsCurrent(w)'
    BY <2>5 DEF ReadsCurrent, NoFact, AddSource
  <2>7. Distinct(View(w))' /\ WritesAhead(w)' /\ SaysNew(w)'
    BY <1>1, <1>5, <2>1, <2>2 DEF SlotAlone, Distinct, Active, WritesAhead, SaysNew, NoFact
  <2> QED BY <2>4, <2>6, <2>7 DEF SlotAlone
<1>9. ASSUME Strengthens(w, id, read, row), row = Reinforced(View(w)[id], read, e)
      PROVE  SlotAlone(w)'
  <2> DEFINE sources == AddSource(read.sources, e)
  <2>1. View(w)[id] \in Fact /\ RowOK(View(w)[id]) /\ View(w)[id] # NoFact /\ read # NoFact
    BY <1>9, ViewTypes DEF Strengthens, SInv
  <2>2. /\ row.status = View(w)[id].status /\ row.meaning = View(w)[id].meaning
        /\ row.sources = sources /\ row # NoFact
    BY <1>9, <2>1, RowTypes DEF Reinforced, Fact, RowOK
  <2>3. View(w)' = [View(w) EXCEPT ![id] = row]
    BY <1>1, <1>4, <2>2, ViewWritten DEF SInv
  <2>4. Active(View(w)') = Active(View(w))
    BY <1>2, <2>2, <2>3 DEF Active
  <2>5. Distinct(View(w)')
    BY <1>2, <1>5, <2>2, <2>3, <2>4 DEF Distinct, SlotAlone, Active
  <2>6. KnowsActive(w)'
    BY <1>1, <1>2, <1>4, <1>5, <2>1, <2>4 DEF KnowsActive, SlotAlone, NoFact, Active
  <2>7. ASSUME NEW k \in FactIds, exec'[w].known[k] # NoFact
        PROVE  \/ View(w)'[k].sources = exec'[w].known[k].sources
               \/ View(w)'[k].sources = AddSource(exec'[w].known[k].sources, exec'[w].episode)
    BY <1>1, <1>2, <1>4, <1>5, <2>2, <2>3, <2>7 DEF SlotAlone, ReadsCurrent
  <2>8. ReadsCurrent(w)'
    BY <2>7 DEF ReadsCurrent, NoFact, AddSource
  <2>9. sources = AddSource(View(w)[id].sources, e) \/ sources = View(w)[id].sources
    BY <1>5, <1>9, <2>1 DEF Strengthens, SlotAlone, ReadsCurrent
  <2>10. Ahead(facts[id].sources, sources)
    <3>1. View(w)[id].sources \in Seq(Episodes) /\ facts[id].sources \in Seq(Episodes)
      BY <1>2, <2>1 DEF Fact
    <3>2. AddSource(View(w)[id].sources, e) \in Seq(Episodes)
      BY <1>1, <2>1, RowsHaveSources
    <3> QED BY <1>1, <1>6, <2>9, <3>1, <3>2, AddSourceExtends, AheadOrder
  <2>11. ASSUME NEW k \in FactIds, exec'[w].written[k] # NoFact
         PROVE  Ahead(facts'[k].sources, exec'[w].written[k].sources)
    BY <1>1, <1>2, <1>4, <1>5, <2>2, <2>10, <2>11 DEF SlotAlone, WritesAhead
  <2>12. WritesAhead(w)'
    BY <2>11 DEF WritesAhead, NoFact, Ahead
  <2>13. SaysNew(w)' /\ Distinct(View(w))'
    BY <1>1, <2>5 DEF SaysNew, Distinct, Active
  <2> QED BY <2>6, <2>8, <2>12, <2>13 DEF SlotAlone
<1>10. SlotAlone(w)'
  BY <1>3, <1>7, <1>8, <1>9 DEF Stores, Strengthens
<1>11. Distinct(facts)'
  BY <1>1, <1>5 DEF Distinct, Active
<1> QED BY <1>1, <1>10, <1>11, OthersIdle, StepSInv

LEMMA AlwaysSInv == Spec => []SInv
<1>1. Init => SInv
  <2> SUFFICES ASSUME Init PROVE SInv
    OBVIOUS
  <2>1. \A w \in Slots : View(w) = facts
    BY InitTInv, IdleTypes, NothingWritten DEF Init
  <2>2. Active(facts) = {}
    BY RowTypes DEF Init, Active
  <2>3. OneAtWork /\ Distinct(facts)
    BY <2>2, IdleTypes DEF Init, OneAtWork, Distinct
  <2>4. \A w \in Slots : SlotAlone(w)
    BY <2>1, <2>3, IdleTypes, RowTypes
    DEF Init, SlotAlone, KnowsActive, SaysNew, ReadsCurrent, WritesAhead
  <2> QED BY <2>3, <2>4, InitTInv DEF SInv
<1>2. SInv /\ [Next]_vars => SInv'
  <2> SUFFICES ASSUME SInv, [Next]_vars PROVE SInv'
    OBVIOUS
  <2>1. TInv'
    BY NextTInv DEF SInv
  <2>2. ASSUME NEW w \in Slots, \E e \in Episodes : Begin(w, e) PROVE SInv'
    BY <2>1, <2>2, BeginSInv
  <2>3. ASSUME NEW w \in Slots,
               \/ Extract(w) \/ NextAction(w) \/ InvalidateTarget(w) \/ StoreFact(w)
               \/ Commit(w) \/ MarkConsolidated(w) \/ Fails(w)
        PROVE  SInv'
    <3>1. UNCHANGED mixed
      BY <2>3 DEF Extract, NextAction, InvalidateTarget, StoreFact, Commit, MarkConsolidated, Fails
    <3>2. CASE mixed
      BY <2>1, <3>1, <3>2 DEF SInv
    <3>3. CASE MarkConsolidated(w) \/ Fails(w)
      <4>1. pc[w] # "idle" /\ Stop(w) /\ UNCHANGED facts
        BY <3>3 DEF MarkConsolidated, Fails
      <4> QED BY <2>1, <3>2, <4>1, StopSInv
    <3> QED
      BY <2>1, <2>3, <3>2, <3>3, ExtractSInv, NextActionSInv, InvalidateSInv, StoreSInv, CommitSInv
  <2>4. CASE UNCHANGED vars
    <3>1. OneAtWork = OneAtWork' /\ Distinct(facts) = Distinct(facts)'
      BY <2>4 DEF vars, OneAtWork, Distinct, Active
    <3>2. \A v \in Slots : SlotAlone(v) => SlotAlone(v)'
      BY <2>4 DEF vars, SlotAlone, Distinct, Active, View, KnowsActive, SaysNew, ReadsCurrent,
         WritesAhead, NoFact, Current
    <3> QED BY <2>1, <2>4, <3>1, <3>2 DEF SInv, vars
  <2> QED BY <2>2, <2>3, <2>4 DEF Next
<1> QED BY <1>1, <1>2, PTL DEF Spec

(* For any proposals, failures and repeated executions: as long as executions do
   not overlap and each was shown all facts, no two active facts say the same. *)
THEOREM FactsAreDistinct == Spec => []NoDuplicateFacts
<1>1. SInv => NoDuplicateFacts
  BY DEF SInv, Distinct, NoDuplicateFacts
<1> QED BY <1>1, AlwaysSInv, PTL

(* Under the same condition a fact keeps the episodes that it was learned from,
   in their order. *)
THEOREM SourcesAreKept == Spec => ProvenanceGrows
<1>1. ASSUME SInv, [Next]_vars, ~ mixed, NEW id \in FactIds
      PROVE  facts[id].sources = SubSeq(facts'[id].sources, 1, Len(facts[id].sources))
  <2>1. facts[id].sources \in Seq(Episodes) /\ facts'[id].sources \in Seq(Episodes)
    BY <1>1, NextTInv DEF SInv, TInv, Types, Fact
  <2>2. CASE UNCHANGED facts
    BY <2>1, <2>2, AheadOrder, AheadSubSeq
  <2>3. ASSUME NEW w \in Slots, Commit(w) PROVE Ahead(facts[id].sources, facts'[id].sources)
    <3>1. facts'[id] = IF exec[w].written[id] # NoFact THEN exec[w].written[id] ELSE facts[id]
      BY <2>3 DEF Commit, View
    <3>2. WritesAhead(w)
      BY <1>1 DEF SInv, SlotAlone
    <3> QED BY <2>1, <3>1, <3>2, AheadOrder DEF WritesAhead
  <2> QED BY <1>1, <2>1, <2>2, <2>3, FactsChange, AheadSubSeq
<1>2. SInv /\ [Next]_vars =>
        [~ mixed => \A id \in FactIds :
           facts[id].sources = SubSeq(facts'[id].sources, 1, Len(facts[id].sources))]_vars
  BY <1>1
<1> QED BY <1>2, AlwaysSInv, PTL DEF Spec, ProvenanceGrows
================================================================================
