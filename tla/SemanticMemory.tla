---------------------------- MODULE SemanticMemory ----------------------------
(***************************************************************************)
(* The facts of a conversation and the jobs that change them: an execution *)
(* of PredictCalibrateJob loads the facts related to its episode, has the  *)
(* model propose actions on them, and applies these in one transaction.    *)
(*                                                                         *)
(* The text and the embedding of a fact are its meaning; two facts are     *)
(* near-duplicates when they mean the same.  Transactions are PostgreSQL's *)
(* at READ COMMITTED: a query sees what is committed and the transaction's *)
(* own writes, and an update locks its row until the end.  Jobs are        *)
(* delivered at least once and several run at the same time (see           *)
(* EpisodePipeline for the queue): here an episode that is due may be      *)
(* executed any number of times, MaxRuns in all.                           *)
(***************************************************************************)
EXTENDS Naturals, Sequences, FiniteSets

CONSTANTS
  Meanings,      \* what a fact may say
  FactIds,       \* the rows of semantic_memory, in the order of their use (bound)
  Episodes,      \* the episodes that are consolidated
  Slots,         \* jobs executed at the same time
  FactLimit,     \* MAX_FACTS_FOR_ACTIONS
  MaxActions,    \* actions that the model proposes for an episode (bound)
  MaxRuns,       \* executions of jobs (bound)
  NoMeaning, NoTarget, NoEpisode,
  Invented       \* a target that is no fact's id

ASSUME SemanticMemoryAssumption ==
  /\ FactIds \subseteq Nat \ {0} /\ IsFiniteSet(FactIds)
  /\ NoMeaning \notin Meanings /\ {NoTarget, Invented} \cap FactIds = {} /\ NoEpisode \notin Episodes
  /\ FactLimit \in Nat /\ MaxActions \in Nat /\ MaxRuns \in Nat

VARIABLES
  facts,         \* semantic_memory, what is committed
  consolidated,  \* the episodes marked consolidated
  pc, exec,      \* what a slot does next, and what it remembers
  runs,          \* executions so far
  mixed          \* executions overlapped or a snapshot was cut (history)

vars == <<facts, consolidated, pc, exec, runs, mixed>>

Kinds == {"new", "reinforce", "update", "invalidate"}
Action == [kind : Kinds, target : FactIds \cup {NoTarget, Invented}, meaning : Meanings \cup {NoMeaning}]
Fact == [status : {"none", "active", "invalid"}, meaning : Meanings \cup {NoMeaning},
         sources : Seq(Episodes)]
NoFact == [status |-> "none", meaning |-> NoMeaning, sources |-> <<>>]
Untouched == [id \in FactIds |-> NoFact]

(* `known` is current_active_map with the sources as they were loaded, or as a
   duplicate had them when it was found; `written` holds the rows that the open
   transaction has written. *)
Exec == [episode : Episodes \cup {NoEpisode}, known : [FactIds -> Fact], todo : Seq(Action),
         duplicate : FactIds \cup {NoTarget}, written : [FactIds -> Fact]]
IdleExec == [episode |-> NoEpisode, known |-> Untouched, todo |-> <<>>,
             duplicate |-> NoTarget, written |-> Untouched]
Labels == {"idle", "extract", "next", "invalidate", "store", "mark"}

TypeOK ==
  /\ facts \in [FactIds -> Fact]
  /\ \A id \in FactIds :
       facts[id] # NoFact => facts[id].meaning \in Meanings /\ facts[id].sources # <<>>
  /\ consolidated \in SUBSET Episodes
  /\ pc \in [Slots -> Labels]
  /\ exec \in [Slots -> Exec]
  /\ runs \in 0 .. MaxRuns
  /\ mixed \in BOOLEAN

Init ==
  /\ facts = Untouched
  /\ consolidated = {}
  /\ pc = [w \in Slots |-> "idle"]
  /\ exec = [w \in Slots |-> IdleExec]
  /\ runs = 0
  /\ mixed = FALSE

Goto(w, label) == pc' = [pc EXCEPT ![w] = label]
Stop(w) == Goto(w, "idle") /\ exec' = [exec EXCEPT ![w] = IdleExec]
--------------------------------------------------------------------------------
(***************************************************************************)
(* normalize_actions.                                                      *)
(***************************************************************************)
Priority(kind) ==
  CASE kind = "new" -> 0 [] kind = "reinforce" -> 1
    [] kind = "invalidate" -> 2 [] kind = "update" -> 3

(* An empty fact or a missing target drops an action.  Without a target an update
   becomes new instead, but it is still filed under its (empty) target. *)
AllowEmptyFacts(a) == a.kind \in {"new", "update"} \/ a.target # NoTarget     \* mutant
Usable(a) == IF a.kind \in {"new", "update"} THEN a.meaning # NoMeaning
                                             ELSE a.target # NoTarget
Filed(a) == a.kind # "new"
Promoted(a) == IF a.kind = "update" /\ a.target = NoTarget THEN [a EXCEPT !.kind = "new"] ELSE a

(* Of the actions filed under one target the first of the highest priority is
   kept. *)
Kept(actions, i) ==
  /\ Usable(actions[i]) /\ Filed(actions[i])
  /\ \A k \in DOMAIN actions \ {i} :
       Usable(actions[k]) /\ Filed(actions[k]) /\ actions[k].target = actions[i].target =>
         LET p == Priority(Promoted(actions[i]).kind)
             q == Priority(Promoted(actions[k]).kind)
         IN  p > q \/ (p = q /\ i < k)

(* The new facts come first, in their order; the actions kept follow in the order
   of a hash map. *)
Normalized(actions) ==
  LET untargeted == {i \in DOMAIN actions : Usable(actions[i]) /\ ~ Filed(actions[i])}
      result == untargeted \cup {i \in DOMAIN actions : Kept(actions, i)}
      orders == {o \in [1 .. Cardinality(result) -> result] :
                   \A n, k \in DOMAIN o : n < k =>
                     /\ o[n] # o[k]
                     /\ o[k] \in untargeted => o[n] \in untargeted /\ o[n] < o[k]}
  IN  {[n \in DOMAIN o |-> Promoted(actions[o[n]])] : o \in orders}
--------------------------------------------------------------------------------
(***************************************************************************)
(* process_predict_calibrate.                                              *)
(***************************************************************************)
Active(table) == {id \in FactIds : table[id].status = "active"}

(* load_related_facts: the best FactLimit of the active facts. *)
Begin(w, e) ==
  /\ pc[w] = "idle"
  /\ runs < MaxRuns
  /\ runs' = runs + 1
  /\ IF e \in consolidated
       THEN UNCHANGED <<pc, exec, mixed>>
       ELSE /\ \E related \in SUBSET Active(facts) :
                 /\ Cardinality(related) <= FactLimit
                 /\ Cardinality(related) = FactLimit \/ related = Active(facts)
                 /\ exec' = [exec EXCEPT ![w] =
                      [IdleExec EXCEPT !.episode = e,
                         !.known = [id \in FactIds |-> IF id \in related THEN facts[id] ELSE NoFact]]]
                 /\ mixed' = (mixed \/ related # Active(facts)
                                    \/ \E v \in Slots \ {w} : exec[v].episode # NoEpisode)
            /\ Goto(w, "extract")
  /\ UNCHANGED <<facts, consolidated>>

(* What the model may answer: a target may be one of the facts it was shown or
   missing; that of an update may also be invented.  (A reinforcement or an
   invalidation of an invented target is skipped, as one without a target.) *)
Proposals(known) ==
  LET targets == Active(known) \cup {NoTarget} IN
  [kind : {"new"}, target : {NoTarget}, meaning : Meanings \cup {NoMeaning}]
    \cup [kind : {"update"}, target : targets \cup {Invented}, meaning : Meanings]
    \cup [kind : {"reinforce", "invalidate"}, target : targets, meaning : {NoMeaning}]

(* The transaction starts with the normalized actions; without any, the
   episode is only marked. *)
Extract(w) ==
  /\ pc[w] = "extract"
  /\ \E n \in 0 .. MaxActions : \E actions \in [1 .. n -> Proposals(exec[w].known)] :
       \E todo \in Normalized(actions) :
         /\ exec' = [exec EXCEPT ![w].todo = todo]
         /\ Goto(w, IF todo = <<>> THEN "mark" ELSE "next")
  /\ UNCHANGED <<facts, consolidated, runs, mixed>>

(* A job fails or its worker stops: the transaction is rolled back. *)
Fails(w) ==
  /\ pc[w] # "idle"
  /\ Stop(w)
  /\ UNCHANGED <<facts, consolidated, runs, mixed>>
--------------------------------------------------------------------------------
(***************************************************************************)
(* consolidate_actions: one action at a time.                              *)
(***************************************************************************)
View(w) ==
  [id \in FactIds |-> IF exec[w].written[id] # NoFact THEN exec[w].written[id] ELSE facts[id]]

Unlocked(w, id) == \A v \in Slots \ {w} : exec[v].written[id] = NoFact

(* find_duplicate_in_scope: an active fact of the same meaning, among those that
   the execution knows. *)
AnyDuplicate(w, meaning, exclude) == {}                  \* mutant
Duplicates(w, meaning, exclude) ==
  {id \in Active(View(w)) \ {exclude} :
     View(w)[id].meaning = meaning /\ exec[w].known[id] # NoFact}

Current(w) == Head(exec[w].todo)
Targeted(w) == Current(w).target \in FactIds /\ exec[w].known[Current(w).target] # NoFact

(* An action whose target is not known is skipped, unless it brings a fact.  What
   the query for a duplicate found is what the action goes on with. *)
NextAction(w) ==
  /\ pc[w] = "next" /\ exec[w].todo # <<>>
  /\ LET a == Current(w)
         found == IF a.kind \in {"new", "update"}
                    THEN Duplicates(w, a.meaning, IF Targeted(w) THEN a.target ELSE NoTarget)
                    ELSE {}
     IN  IF a.kind \in {"reinforce", "invalidate"} /\ ~ Targeted(w)
           THEN /\ exec' = [exec EXCEPT ![w].todo = Tail(@)]
                /\ UNCHANGED pc
           ELSE /\ \E id \in (IF found = {} THEN {NoTarget} ELSE found) :
                     exec' = [exec EXCEPT ![w].duplicate = id,
                       ![w].known = IF id = NoTarget THEN @ ELSE [@ EXCEPT ![id] = View(w)[id]]]
                /\ Goto(w, IF a.kind \in {"invalidate", "update"} /\ Targeted(w)
                             THEN "invalidate" ELSE "store")
  /\ UNCHANGED <<facts, consolidated, runs, mixed>>

(* invalidate_existing. *)
InvalidateTarget(w) ==
  /\ pc[w] = "invalidate"
  /\ LET a == Current(w) IN
     /\ Unlocked(w, a.target)
     /\ exec' = [exec EXCEPT ![w].known[a.target] = NoFact,
                             ![w].written[a.target] = [View(w)[a.target] EXCEPT !.status = "invalid"],
                             ![w].todo = IF a.kind = "invalidate" THEN Tail(@) ELSE @]
     /\ Goto(w, IF a.kind = "invalidate" THEN "next" ELSE "store")
  /\ UNCHANGED <<facts, consolidated, runs, mixed>>

(* reinforce_existing writes the sources that were read, with the episode, over
   those of the row, and nothing else. *)
AddAgain(sources, e) == Append(sources, e)               \* mutant
OnlyThisEpisode(sources, e) == <<e>>                     \* mutant
AddSource(sources, e) == IF \E k \in DOMAIN sources : sources[k] = e
                           THEN sources ELSE Append(sources, e)

RestoreFact(row, read, e) ==                             \* mutant
  [read EXCEPT !.sources = AddSource(read.sources, e)]
Reinforced(row, read, e) == [row EXCEPT !.sources = AddSource(read.sources, e)]

(* An action strengthens a fact from the version of it that was read: a target
   as it was loaded, a duplicate as it was found. *)
StoreFact(w) ==
  /\ pc[w] = "store"
  /\ LET a == Current(w)
         e == exec[w].episode
         id == IF a.kind = "reinforce" THEN a.target ELSE exec[w].duplicate
         read == exec[w].known[id]
     IN  IF id # NoTarget
           THEN LET counted == AddSource(read.sources, e) = read.sources IN
                  /\ counted \/ Unlocked(w, id)
                  /\ exec' = [exec EXCEPT
                       ![w].written[id] = IF counted THEN @ ELSE Reinforced(View(w)[id], read, e),
                       ![w].duplicate = NoTarget, ![w].todo = Tail(@)]
           ELSE \E new \in FactIds :
                  /\ facts[new] = NoFact /\ \A v \in Slots : exec[v].written[new] = NoFact
                  /\ \A k \in FactIds : k < new =>
                       facts[k] # NoFact \/ \E v \in Slots : exec[v].written[k] # NoFact
                  /\ LET inserted == [status |-> "active", meaning |-> a.meaning, sources |-> <<e>>]
                     IN  exec' = [exec EXCEPT ![w].written[new] = inserted,
                                              ![w].known[new] = inserted, ![w].todo = Tail(@)]
  /\ Goto(w, "next")
  /\ UNCHANGED <<facts, consolidated, runs, mixed>>

Commit(w) ==
  /\ pc[w] = "next" /\ exec[w].todo = <<>>
  /\ facts' = View(w)
  /\ exec' = [exec EXCEPT ![w] = [IdleExec EXCEPT !.episode = exec[w].episode]]
  /\ Goto(w, "mark")
  /\ UNCHANGED <<consolidated, runs, mixed>>

MarkConsolidated(w) ==
  /\ pc[w] = "mark"
  /\ consolidated' = consolidated \cup {exec[w].episode}
  /\ Stop(w)
  /\ UNCHANGED <<facts, runs, mixed>>
--------------------------------------------------------------------------------
Next ==
  \E w \in Slots :
    \/ \E e \in Episodes : Begin(w, e)
    \/ Extract(w) \/ NextAction(w) \/ InvalidateTarget(w) \/ StoreFact(w)
    \/ Commit(w) \/ MarkConsolidated(w) \/ Fails(w)

Spec == Init /\ [][Next]_vars
--------------------------------------------------------------------------------
(***************************************************************************)
(* Properties.                                                             *)
(***************************************************************************)
(* As long as executions do not overlap and none was shown only a part of the
   facts, no two active facts say the same, whatever the model proposes and
   however often a job fails and is executed again (consolidate_actions). *)
NoDuplicateFacts ==
  ~ mixed => \A a, b \in Active(facts) : facts[a].meaning = facts[b].meaning => a = b

(* A fact that was invalidated stays so: not even a job that loaded it while it
   was active brings it back (reinforce_existing, invalidate_existing). *)
InvalidationIsFinal ==
  [][\A id \in FactIds : facts[id].status = "invalid" => facts'[id].status = "invalid"]_vars

(* Without overlap a fact never loses an episode it was learned from. *)
ProvenanceGrows ==
  [][~ mixed => \A id \in FactIds :
       facts[id].sources = SubSeq(facts'[id].sources, 1, Len(facts[id].sources))]_vars

(* An episode counts once for a fact, however often its job is executed, even by
   two slots at the same time, and however many actions name the fact. *)
EpisodeCountsOnce ==
  \A id \in FactIds : \A i, k \in DOMAIN facts[id].sources :
    facts[id].sources[i] = facts[id].sources[k] => i = k
================================================================================
