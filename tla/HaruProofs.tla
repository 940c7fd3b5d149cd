------------------------------- MODULE HaruProofs -------------------------------
(***************************************************************************)
(* Proofs about Haru, for any number of sends, runs and failures, any      *)
(* sizes and any budget.                                                   *)
(***************************************************************************)
EXTENDS Haru, SequenceTheorems, WellFoundedInduction, TLAPS

Panel == [open : BOOLEAN, index : Int, expanded : BOOLEAN]
SendFields == {"step", "run", "conversation", "cleared", "request"}

(* A closed panel marks its first line: whatever forgets the history does so
   while the panel is closed, or closes it. *)
ClosedAtTop == ~ panel.open => panel.index = 0
--------------------------------------------------------------------------------
(***************************************************************************)
(* Greatest and least of two numbers, and of a set of numbers with bounds. *)
(***************************************************************************)
LEMMA MaxOfTwo ==
  ASSUME NEW a \in Int, NEW b \in Int
  PROVE  Max({a, b}) = IF a <= b THEN b ELSE a
<1> DEFINE m == IF a <= b THEN b ELSE a
<1>1. m \in {a, b} /\ \A y \in {a, b} : y <= m
  OBVIOUS
<1>2. \A x \in {a, b} : (\A y \in {a, b} : y <= x) => x = m
  OBVIOUS
<1> QED BY <1>1, <1>2 DEF Max

LEMMA MinOfTwo ==
  ASSUME NEW a \in Int, NEW b \in Int
  PROVE  Min({a, b}) = IF a <= b THEN a ELSE b
<1> DEFINE m == IF a <= b THEN a ELSE b
<1>1. m \in {a, b} /\ \A y \in {a, b} : m <= y
  OBVIOUS
<1>2. \A x \in {a, b} : (\A y \in {a, b} : x <= y) => x = m
  OBVIOUS
<1> QED BY <1>1, <1>2 DEF Min

(* Every nonempty set of naturals has a smallest member. *)
LEMMA SmallestNat ==
  ASSUME NEW T \in SUBSET Nat, T # {}
  PROVE  Min(T) \in T /\ \A y \in T : Min(T) <= y
<1> DEFINE Less == {ss \in Nat \X Nat : ss[1] < ss[2]}
<1>1. IsWellFoundedOn(Less, Nat)
  BY NatLessThanWellFounded DEF OpToRel
<1>2. PICK x \in T : \A y \in T : <<y, x>> \notin Less
  <2> HIDE DEF Less
  <2> QED BY <1>1, WFMin
<1>3. ASSUME NEW y \in T, ~ (x <= y) PROVE FALSE
  <2>1. <<y, x>>[1] < <<y, x>>[2] /\ <<y, x>> \in Nat \X Nat
    BY <1>3
  <2>2. <<y, x>> \in Less
    BY <2>1
  <2> QED BY <1>2, <2>2
<1>4. x \in T /\ \A y \in T : x <= y
  BY <1>3
<1> QED BY <1>4 DEF Min

LEMMA Bounds ==
  /\ \A i \in SendIds : Sizes[i] \in Nat \ {0}
  /\ Budget \in Nat /\ HistoryLimit \in Nat \ {0}
  /\ Len(Ids) \in Nat /\ MaxRuns \in Nat /\ MaxFaults \in Nat
BY HaruAssumption, Zenon

(* No message takes no token. *)
LEMMA SizeOfNone == SizeOf(<<>>) = 0
<1> DEFINE Body(it) == [s \in SUBSET (DOMAIN <<>>) |->
                          IF s = {} THEN 0 ELSE LET x == Max(s) IN it[s \ {x}] + <<>>[x].size]
           sum == CHOOSE it : it = Body(it)
<1>1. SizeOf(<<>>) = sum[DOMAIN <<>>]
  BY Zenon DEF SizeOf, FoldLeft, MapThenFoldSet
<1>2. DOMAIN <<>> = {}
  OBVIOUS
<1>3. \E it : it = Body(it)
  <2>1. ASSUME NEW s \in SUBSET (DOMAIN <<>>) PROVE s = {}
    BY <1>2
  <2>2. [s \in SUBSET (DOMAIN <<>>) |-> 0] = Body([s \in SUBSET (DOMAIN <<>>) |-> 0])
    BY <2>1
  <2> QED BY <2>2
<1>4. sum = Body(sum)
  <2> HIDE DEF Body
  <2> QED BY <1>3
<1>5. sum[{}] = 0
  <2>1. {} \in SUBSET (DOMAIN <<>>)
    OBVIOUS
  <2> HIDE DEF sum
  <2> QED BY <1>4, <2>1
<1> QED BY <1>1, <1>2, <1>5

(* What truncateMessages keeps are messages, and fits the budget: at the worst
   it keeps none. *)
LEMMA Truncated ==
  ASSUME NEW messages \in Seq(Message)
  PROVE  /\ truncateMessages(messages) \in Seq(Message)
         /\ Fits(truncateMessages(messages))
<1> DEFINE fits == {n \in 1 .. Len(messages) + 1 : Fits(SubSeq(messages, n, Len(messages)))}
           first == Min(fits)
<1>1. Len(messages) \in Nat
  OBVIOUS
<1>2. Len(messages) + 1 \in fits
  <2>1. SubSeq(messages, Len(messages) + 1, Len(messages)) = <<>>
    BY <1>1, SubSeqEmpty
  <2>2. Fits(SubSeq(messages, Len(messages) + 1, Len(messages)))
    <3>1. Fits(<<>>)
      BY SizeOfNone, Bounds DEF Fits
    <3> QED BY <2>1, <3>1, Zenon
  <2> QED BY <1>1, <2>2
<1>3. fits \in SUBSET Nat /\ fits # {}
  BY <1>1, <1>2
<1>4. first \in fits
  <2> HIDE DEF fits
  <2> QED BY <1>3, SmallestNat
<1>5. first \in 1 .. Len(messages) + 1 /\ Fits(SubSeq(messages, first, Len(messages)))
  <2> HIDE DEF first
  <2> QED BY <1>4
<1>6. truncateMessages(messages) = SubSeq(messages, first, Len(messages))
  BY DEF truncateMessages
<1>7. SubSeq(messages, first, Len(messages)) \in Seq(Message)
  <2> HIDE DEF first
  <2>1. \A i \in first .. Len(messages) : messages[i] \in Message
    BY <1>1, <1>5
  <2> QED BY <1>1, <1>5, <2>1, SubSeqProperties
<1> QED BY <1>5, <1>6, <1>7
--------------------------------------------------------------------------------
(***************************************************************************)
(* Types.                                                                  *)
(***************************************************************************)
LEMMA Messages ==
  ASSUME NEW i \in SendIds
  PROVE  Question(i) \in Message /\ Answer(i) \in Message
BY Bounds DEF Question, Answer, Message, Roles

(* What TypeOK says of one send. *)
SendOK(s) ==
  /\ DOMAIN s = SendFields
  /\ s.step \in Steps
  /\ s.request \in Seq(Message)

SendsOK == DOMAIN sends = SendIds /\ \A i \in SendIds : SendOK(sends[i])
LogOK == \A c \in DOMAIN log : log[c] \in Seq(Message)
AppOK == run \in 0 .. MaxRuns /\ running \in BOOLEAN /\ minted \in 0 .. Len(Ids)
PanelOK ==
  /\ panel \in Panel /\ ClosedAtTop
  /\ panel.index >= -1
  /\ panel.index <= (IF 0 <= Len(history) - 1 THEN Len(history) - 1 ELSE 0)
HistoryOK == history \in Seq(Seq(Message)) /\ Len(history) <= HistoryLimit
FaultsOK == faults \in 0 .. MaxFaults /\ lost \subseteq Message

Typed == AppOK /\ memory \in Seq(Message) /\ HistoryOK /\ PanelOK /\ SendsOK /\ LogOK /\ FaultsOK

LEMMA TypedIs == Typed => TypeOK
<1>1. history \in Seq(Seq(Message)) =>
        Max({0, Len(history) - 1}) = IF 0 <= Len(history) - 1 THEN Len(history) - 1 ELSE 0
  <2> SUFFICES ASSUME history \in Seq(Seq(Message))
               PROVE  Max({0, Len(history) - 1})
                        = IF 0 <= Len(history) - 1 THEN Len(history) - 1 ELSE 0
    OBVIOUS
  <2>1. 0 \in Int /\ Len(history) - 1 \in Int
    OBVIOUS
  <2> QED BY <2>1, MaxOfTwo
<1> QED
  BY <1>1 DEF Typed, TypeOK, AppOK, HistoryOK, PanelOK, SendsOK, SendOK, LogOK, FaultsOK

LEMMA InitTyped == Init => Typed
<1> SUFFICES ASSUME Init PROVE Typed
  OBVIOUS
<1>1. AppOK
  <2>1. run = 0 /\ running = FALSE /\ minted = 0
    BY DEF Init
  <2>2. \A n \in Nat : 0 \in 0 .. n
    OBVIOUS
  <2>3. 0 \in 0 .. MaxRuns /\ 0 \in 0 .. Len(Ids)
    BY <2>2, Bounds, Zenon
  <2>4. FALSE \in BOOLEAN
    OBVIOUS
  <2> QED BY <2>1, <2>3, <2>4, Zenon DEF AppOK
<1>2. memory \in Seq(Message) /\ HistoryOK
  BY Bounds DEF Init, HistoryOK
<1>3. PanelOK
  BY DEF Init, PanelOK, Panel, ClosedAtTop, Closed
<1>4. SendsOK
  <2>1. SendOK(Unsent)
    BY DEF SendOK, Unsent, SendFields, Steps
  <2> QED BY <2>1 DEF Init, SendsOK
<1>5. LogOK /\ FaultsOK
  BY Bounds DEF Init, LogOK, FaultsOK
<1> QED BY <1>1, <1>2, <1>3, <1>4, <1>5 DEF Typed

(* A send that goes on to its next step keeps all but the step. *)
GoesOn(i, next) ==
  /\ sends'[i].step = next
  /\ sends'[i].run = sends[i].run
  /\ sends'[i].conversation = sends[i].conversation
  /\ sends'[i].cleared = sends[i].cleared
  /\ \A j \in SendIds : j # i => sends'[j] = sends[j]

LEMMA StepSet ==
  ASSUME SendsOK, NEW i \in SendIds, NEW next \in Steps,
         sends' = [sends EXCEPT ![i].step = next]
  PROVE  SendsOK' /\ GoesOn(i, next)
<1>1. sends'[i] = [sends[i] EXCEPT !.step = next]
  BY DEF SendsOK
<1>2. \A j \in SendIds : j # i => sends'[j] = sends[j]
  BY DEF SendsOK
<1>3. DOMAIN sends[i] = SendFields
  BY DEF SendsOK, SendOK
<1>4. SendOK(sends[i])'
  BY <1>1, <1>3 DEF SendsOK, SendOK, SendFields
<1>5. GoesOn(i, next)
  BY <1>1, <1>2, <1>3 DEF GoesOn, SendFields
<1>6. DOMAIN sends' = SendIds
  BY DEF SendsOK
<1> QED BY <1>2, <1>4, <1>5, <1>6 DEF SendsOK

LEMMA PostTyped ==
  ASSUME SendsOK, LogOK, FaultsOK, NEW i \in SendIds, NEW step, NEW message \in Message,
         NEW next \in Steps, Post(i, step, message, next)
  PROVE  SendsOK' /\ LogOK' /\ FaultsOK' /\ GoesOn(i, next)
<1>1. SendsOK' /\ GoesOn(i, next)
  BY StepSet DEF Post
<1>2. CASE Accepted(PostedTo(i), message) /\ UNCHANGED <<lost, faults>>
  <2> DEFINE c == PostedTo(i)
  <2>1. LogOf(c) \in Seq(Message)
    BY DEF LogOf, LogOK
  <2>2. Append(LogOf(c), message) \in Seq(Message)
    BY <2>1
  <2> HIDE DEF c
  <2>3. log' = [d \in DOMAIN log \cup {c} |->
                  IF d = c THEN Append(LogOf(c), message) ELSE log[d]]
    BY <1>2 DEF Accepted, c
  <2>4. LogOK'
    BY <2>2, <2>3 DEF LogOK
  <2>5. FaultsOK'
    BY <1>2 DEF FaultsOK
  <2> QED BY <1>1, <2>4, <2>5
<1>3. CASE Fault /\ lost' = lost \cup {message} /\ UNCHANGED log
  <2>1. LogOK'
    BY <1>3 DEF LogOK
  <2>2. FaultsOK'
    BY <1>3, Bounds DEF FaultsOK, Fault
  <2> QED BY <1>1, <2>1, <2>2
<1> QED BY <1>2, <1>3 DEF Post

(* Clearing marks the sends that have not read the memory yet. *)
Forgets(i) ==
  /\ sends'[i].step = sends[i].step
  /\ sends'[i].run = sends[i].run
  /\ sends'[i].conversation = sends[i].conversation
  /\ sends[i].step \in {"posting", "context"} => sends'[i].cleared

LEMMA ClearedTyped ==
  ASSUME SendsOK, Cleared
  PROVE  SendsOK' /\ memory' = <<>> /\ history' = <<>> /\ \A i \in SendIds : Forgets(i)
<1>1. sends' = [i \in SendIds |-> Forget(i)] /\ memory' = <<>> /\ history' = <<>>
  BY DEF Cleared
<1>2. ASSUME NEW i \in SendIds
      PROVE  SendOK(sends[i])' /\ Forgets(i)
  <2>1. sends'[i] = [sends[i] EXCEPT !.cleared = sends[i].cleared
                                       \/ sends[i].step \in {"posting", "context"}]
    BY <1>1 DEF Forget
  <2>2. DOMAIN sends[i] = SendFields /\ sends[i].step \in Steps
        /\ sends[i].request \in Seq(Message)
    BY DEF SendsOK, SendOK
  <2>3. /\ sends'[i].step = sends[i].step /\ sends'[i].run = sends[i].run
        /\ sends'[i].conversation = sends[i].conversation
        /\ sends'[i].request = sends[i].request
        /\ DOMAIN sends'[i] = SendFields
    BY <2>1, <2>2 DEF SendFields
  <2>4. sends[i].step \in {"posting", "context"} => sends'[i].cleared
    BY <2>1, <2>2 DEF SendFields
  <2> QED BY <2>2, <2>3, <2>4 DEF SendOK, Forgets
<1>3. DOMAIN sends' = SendIds
  BY <1>1
<1> QED BY <1>1, <1>2, <1>3 DEF SendsOK

(* The panel of a process that has ended, or one whose keys were pressed. *)
LEMMA ClosedOK ==
  ASSUME history' \in Seq(Seq(Message)), panel' = Closed
  PROVE  PanelOK'
<1>1. Len(history') \in Nat
  OBVIOUS
<1> QED BY <1>1 DEF PanelOK, Panel, ClosedAtTop, Closed

LEMMA NothingLeft ==
  ASSUME AppOK, Ends
  PROVE  memory' \in Seq(Message) /\ HistoryOK' /\ PanelOK' /\ running' = FALSE
<1>1. /\ memory' = <<>> /\ history' = <<>> /\ panel' = Closed /\ running' = FALSE
  BY DEF Ends
<1>2. HistoryOK'
  BY <1>1, Bounds DEF HistoryOK
<1>3. PanelOK'
  BY <1>1, <1>2, ClosedOK DEF HistoryOK
<1> QED BY <1>1, <1>2, <1>3

LEMMA KeysTyped ==
  ASSUME HistoryOK, PanelOK, Escape \/ Up \/ Down \/ Return
  PROVE  PanelOK' /\ HistoryOK' /\ UNCHANGED <<app, memory, sends, server, faults>>
<1>1. /\ UNCHANGED <<history, app, memory, sends, server, faults>>
      /\ panel.open
  BY DEF Escape, Up, Down, Return, Keys
<1>2. HistoryOK'
  BY <1>1 DEF HistoryOK
<1>3. Len(history) \in Nat /\ panel.index \in Int
  BY DEF HistoryOK, PanelOK, Panel
<1>4. CASE Escape
  <2>1. PanelOK'
    BY <1>2, <1>4, ClosedOK DEF Escape, Keys, HistoryOK
  <2> QED BY <1>1, <1>2, <2>1
<1>5. ASSUME NEW n \in Int, n >= -1,
             n <= (IF 0 <= Len(history) - 1 THEN Len(history) - 1 ELSE 0),
             panel' = [panel EXCEPT !.index = n]
      PROVE  PanelOK'
  BY <1>1, <1>3, <1>5 DEF PanelOK, Panel, ClosedAtTop
<1>6. CASE Up
  <2>1. panel' = [panel EXCEPT !.index = Max({0, panel.index - 1})]
    BY <1>6 DEF Up, Keys
  <2>2. Max({0, panel.index - 1}) = IF 0 <= panel.index - 1 THEN panel.index - 1 ELSE 0
    BY <1>3, MaxOfTwo
  <2>3. panel.index <= (IF 0 <= Len(history) - 1 THEN Len(history) - 1 ELSE 0)
    BY DEF PanelOK
  <2> DEFINE n == IF 0 <= panel.index - 1 THEN panel.index - 1 ELSE 0
  <2>4. n \in Int /\ n >= -1 /\ n <= (IF 0 <= Len(history) - 1 THEN Len(history) - 1 ELSE 0)
    BY <1>3, <2>3
  <2> HIDE DEF n
  <2>5. panel' = [panel EXCEPT !.index = n]
    BY <2>1, <2>2 DEF n
  <2>6. PanelOK'
    BY <1>5, <2>4, <2>5
  <2> QED BY <1>1, <1>2, <2>6
<1>7. CASE Down
  <2>1. panel' = [panel EXCEPT !.index = Min({Len(history) - 1, panel.index + 1})]
    BY <1>7 DEF Down, Keys
  <2>2. Min({Len(history) - 1, panel.index + 1})
          = IF Len(history) - 1 <= panel.index + 1 THEN Len(history) - 1 ELSE panel.index + 1
    BY <1>3, MinOfTwo
  <2>3. panel.index >= -1
    BY DEF PanelOK
  <2> DEFINE n == IF Len(history) - 1 <= panel.index + 1 THEN Len(history) - 1
                                                         ELSE panel.index + 1
  <2>4. n \in Int /\ n >= -1 /\ n <= (IF 0 <= Len(history) - 1 THEN Len(history) - 1 ELSE 0)
    BY <1>3, <2>3
  <2> HIDE DEF n
  <2>5. panel' = [panel EXCEPT !.index = n]
    BY <2>1, <2>2 DEF n
  <2>6. PanelOK'
    BY <1>5, <2>4, <2>5
  <2> QED BY <1>1, <1>2, <2>6
<1>8. CASE Return
  <2>1. PICK e \in BOOLEAN : panel' = [panel EXCEPT !.expanded = e]
    BY <1>8 DEF Return, Keys
  <2>2. PanelOK'
    BY <1>1, <2>1 DEF PanelOK, Panel, ClosedAtTop
  <2> QED BY <1>1, <1>2, <2>2
<1> QED BY <1>4, <1>6, <1>7, <1>8

(* The whole request to the server, or its failure, has no part in what the
   panel shows. *)
LEMMA NotInPanel ==
  ASSUME HistoryOK, PanelOK, UNCHANGED <<history, panel>>
  PROVE  HistoryOK' /\ PanelOK'
BY DEF HistoryOK, PanelOK, ClosedAtTop

LEMMA NotInApp ==
  ASSUME AppOK, UNCHANGED app
  PROVE  AppOK'
BY DEF AppOK, app

LEMMA NotAtServer ==
  ASSUME LogOK, FaultsOK, UNCHANGED <<server, faults>>
  PROVE  LogOK' /\ FaultsOK'
BY DEF LogOK, FaultsOK, server

LEMMA FaultTyped ==
  ASSUME LogOK, FaultsOK, Fault, UNCHANGED server
  PROVE  LogOK' /\ FaultsOK'
BY Bounds DEF LogOK, FaultsOK, server, Fault

(* The application starts, ends, forgets and shows its panel. *)
LEMMA StartTyped == Typed /\ Start => Typed'
<1> SUFFICES ASSUME Typed, Start PROVE Typed'
  OBVIOUS
<1>1. AppOK'
  <2>1. run' = run + 1 /\ running' = TRUE /\ run < MaxRuns
    BY DEF Start
  <2>2. minted' = minted \/ (minted' = minted + 1 /\ minted < Len(Ids))
    BY DEF Start
  <2>3. run \in 0 .. MaxRuns /\ minted \in 0 .. Len(Ids)
    BY DEF Typed, AppOK
  <2>4. run' \in 0 .. MaxRuns
    BY <2>1, <2>3, Bounds
  <2>5. minted' \in 0 .. Len(Ids)
    <3> DEFINE k == Len(Ids)
    <3>1. k \in Nat
      BY Bounds, Zenon
    <3>2. (minted' = minted \/ (minted' = minted + 1 /\ minted < k)) /\ minted \in 0 .. k
      BY <2>2, <2>3
    <3> HIDE DEF k
    <3>3. minted' \in 0 .. k
      BY <3>1, <3>2
    <3> QED BY <3>3 DEF k
  <2>6. running' \in BOOLEAN
    BY <2>1
  <2> QED BY <2>4, <2>5, <2>6 DEF AppOK
<1>2. UNCHANGED <<memory, history, panel, sends, server, faults>>
  BY DEF Start
<1>3. HistoryOK' /\ PanelOK'
  BY <1>2, NotInPanel DEF Typed
<1>4. SendsOK'
  BY <1>2 DEF Typed, SendsOK, SendOK
<1>5. LogOK' /\ FaultsOK'
  BY <1>2, NotAtServer DEF Typed
<1>6. memory' \in Seq(Message)
  BY <1>2 DEF Typed
<1> QED BY <1>1, <1>3, <1>4, <1>5, <1>6 DEF Typed

LEMMA ExitTyped == Typed /\ Exit => Typed'
<1> SUFFICES ASSUME Typed, Exit PROVE Typed'
  OBVIOUS
<1>1. Ends /\ UNCHANGED <<run, minted, sends, server, faults>>
  BY DEF Exit
<1>2. memory' \in Seq(Message) /\ HistoryOK' /\ PanelOK' /\ running' = FALSE
  BY <1>1, NothingLeft DEF Typed
<1>3. AppOK'
  BY <1>1, <1>2 DEF Typed, AppOK
<1>4. SendsOK'
  BY <1>1 DEF Typed, SendsOK, SendOK
<1>5. LogOK' /\ FaultsOK'
  BY <1>1, NotAtServer DEF Typed
<1> QED BY <1>2, <1>3, <1>4, <1>5 DEF Typed

LEMMA ClearTyped == Typed /\ (Clear \/ Reset) => Typed'
<1> SUFFICES ASSUME Typed, Clear \/ Reset PROVE Typed'
  OBVIOUS
<1>1. Cleared /\ ~ panel.open /\ UNCHANGED <<run, running, panel, server, faults>>
  BY DEF Clear, Reset, InputIsThere, app
<1>2. minted' = minted \/ (minted' = minted + 1 /\ minted < Len(Ids))
  BY DEF Clear, Reset, InputIsThere, app
<1>3. AppOK'
  <2> DEFINE k == Len(Ids)
  <2>1. k \in Nat
    BY Bounds, Zenon
  <2>2. (minted' = minted \/ (minted' = minted + 1 /\ minted < k)) /\ minted \in 0 .. k
    BY <1>2 DEF Typed, AppOK
  <2> HIDE DEF k
  <2>3. minted' \in 0 .. k
    BY <2>1, <2>2
  <2>4. minted' \in 0 .. Len(Ids)
    BY <2>3 DEF k
  <2> QED BY <1>1, <2>4 DEF Typed, AppOK
<1>4. SendsOK' /\ memory' = <<>> /\ history' = <<>>
  BY <1>1, ClearedTyped DEF Typed
<1>5. HistoryOK'
  BY <1>4, Bounds DEF HistoryOK
<1>6. PanelOK'
  <2>1. panel' = panel /\ panel \in Panel /\ panel.index = 0
    BY <1>1 DEF Typed, PanelOK, ClosedAtTop
  <2>2. Len(history') = 0
    BY <1>4
  <2> QED BY <2>1, <2>2 DEF PanelOK, ClosedAtTop
<1>7. LogOK' /\ FaultsOK'
  BY <1>1, NotAtServer DEF Typed
<1>8. memory' \in Seq(Message)
  BY <1>4
<1> QED BY <1>3, <1>4, <1>5, <1>6, <1>7, <1>8 DEF Typed

LEMMA PanelTyped == Typed /\ (Debug \/ Escape \/ Up \/ Down \/ Return) => Typed'
<1> SUFFICES ASSUME Typed, Debug \/ Escape \/ Up \/ Down \/ Return PROVE Typed'
  OBVIOUS
<1>1. PanelOK' /\ HistoryOK' /\ UNCHANGED <<app, memory, sends, server, faults>>
  <2>1. CASE Debug
    <3>1. /\ panel' = [open |-> TRUE, index |-> Max({0, Len(history) - 1}), expanded |-> FALSE]
          /\ UNCHANGED <<app, memory, history, sends, server, faults>>
      BY <2>1 DEF Debug
    <3>2. Len(history) \in Nat
      BY DEF Typed, HistoryOK
    <3>3. Max({0, Len(history) - 1}) = IF 0 <= Len(history) - 1 THEN Len(history) - 1 ELSE 0
      BY <3>2, MaxOfTwo
    <3>4. HistoryOK'
      BY <3>1 DEF Typed, HistoryOK
    <3>5. PanelOK'
      BY <3>1, <3>2, <3>3 DEF PanelOK, Panel, ClosedAtTop
    <3> QED BY <3>1, <3>4, <3>5
  <2>2. CASE Escape \/ Up \/ Down \/ Return
    BY <2>2, KeysTyped DEF Typed
  <2> QED BY <2>1, <2>2
<1>2. AppOK'
  BY <1>1, NotInApp DEF Typed
<1>3. SendsOK'
  BY <1>1 DEF Typed, SendsOK, SendOK
<1>4. LogOK' /\ FaultsOK'
  BY <1>1, NotAtServer DEF Typed
<1>5. memory' \in Seq(Message)
  BY <1>1 DEF Typed
<1> QED BY <1>1, <1>2, <1>3, <1>4, <1>5 DEF Typed

(* What one send does. *)
LEMMA SentIs ==
  ASSUME SendsOK, NEW i \in SendIds, Send(i)
  PROVE  /\ SendsOK'
         /\ sends'[i].step = "posting" /\ sends'[i].run = run /\ sends'[i].conversation = conversation
         /\ \A j \in SendIds : j # i => sends'[j] = sends[j]
<1>1. sends' = [sends EXCEPT ![i] = [Unsent EXCEPT !.step = "posting", !.run = run,
                                                   !.conversation = conversation]]
  BY DEF Send
<1>2. sends'[i] = [step |-> "posting", run |-> run, conversation |-> conversation,
                   cleared |-> FALSE, request |-> <<>>]
  BY <1>1 DEF SendsOK, Unsent
<1>3. SendOK(sends[i])'
  BY <1>2 DEF SendOK, SendFields, Steps
<1>4. DOMAIN sends' = SendIds /\ \A j \in SendIds : j # i => sends'[j] = sends[j]
  BY <1>1 DEF SendsOK
<1>5. SendsOK'
  BY <1>3, <1>4 DEF SendsOK
<1>6. sends'[i].step = "posting" /\ sends'[i].run = run /\ sends'[i].conversation = conversation
  BY <1>2
<1> QED BY <1>4, <1>5, <1>6

LEMMA SendTyped == ASSUME Typed, NEW i \in SendIds, Send(i) PROVE Typed'
<1>1. UNCHANGED <<app, history, panel, server, faults>>
  BY DEF Send
<1>2. memory' \in Seq(Message)
  <2>1. memory' = Append(memory, Question(i))
    BY DEF Send
  <2> QED BY <2>1, Messages DEF Typed
<1>3. SendsOK'
  BY SentIs DEF Typed
<1>4. AppOK' /\ HistoryOK' /\ PanelOK' /\ LogOK' /\ FaultsOK'
  BY <1>1, NotInApp, NotInPanel, NotAtServer DEF Typed
<1> QED BY <1>2, <1>3, <1>4 DEF Typed

LEMMA PostedTyped ==
  ASSUME Typed, NEW i \in SendIds, PostQuestion(i) \/ PostAnswer(i)
  PROVE  Typed'
<1>1. "context" \in Steps /\ "done" \in Steps
  BY DEF Steps
<1>2. SendsOK' /\ LogOK' /\ FaultsOK'
  <2>1. CASE Post(i, "posting", Question(i), "context")
    BY <1>1, <2>1, Messages, PostTyped DEF Typed
  <2>2. CASE Post(i, "replying", Answer(i), "done")
    BY <1>1, <2>2, Messages, PostTyped DEF Typed
  <2> QED BY <2>1, <2>2 DEF PostQuestion, PostAnswer
<1>3. UNCHANGED <<app, memory, history, panel>>
  BY DEF PostQuestion, PostAnswer, Post
<1>4. AppOK' /\ HistoryOK' /\ PanelOK'
  BY <1>3, NotInApp, NotInPanel DEF Typed
<1>5. memory' \in Seq(Message)
  BY <1>3 DEF Typed
<1> QED BY <1>2, <1>4, <1>5 DEF Typed

LEMMA AskIs ==
  ASSUME SendsOK, memory \in Seq(Message), NEW i \in SendIds, Ask(i)
  PROVE  /\ SendsOK'
         /\ sends'[i].step = "generating" /\ sends'[i].request = truncateMessages(memory)
         /\ sends'[i].run = sends[i].run /\ sends'[i].conversation = sends[i].conversation
         /\ \A j \in SendIds : j # i => sends'[j] = sends[j]
<1> DEFINE request == truncateMessages(memory)
<1>1. request \in Seq(Message)
  BY Truncated
<1> HIDE DEF request
<1>2. sends' = [sends EXCEPT ![i].step = "generating", ![i].request = request]
  BY DEF Ask, request
<1>3. sends'[i] = [sends[i] EXCEPT !.step = "generating", !.request = request]
  BY <1>2 DEF SendsOK
<1>4. DOMAIN sends' = SendIds /\ \A j \in SendIds : j # i => sends'[j] = sends[j]
  BY <1>2 DEF SendsOK
<1>5. DOMAIN sends[i] = SendFields
  BY DEF SendsOK, SendOK
<1>6. SendOK(sends[i])'
  BY <1>1, <1>3, <1>5 DEF SendOK, SendFields, Steps
<1>7. sends'[i].request = request
  BY <1>3, <1>5 DEF SendFields
<1>8. sends'[i].step = "generating" /\ sends'[i].run = sends[i].run
      /\ sends'[i].conversation = sends[i].conversation
  BY <1>3, <1>5 DEF SendFields
<1> QED BY <1>4, <1>6, <1>7, <1>8 DEF SendsOK, request

LEMMA AskTyped == ASSUME Typed, NEW i \in SendIds, Ask(i) PROVE Typed'
<1>1. UNCHANGED <<app, memory, panel, server, faults>> /\ SendsOK'
  BY AskIs DEF Ask, Typed
<1>2. HistoryOK' /\ Len(history) <= Len(history')
  <2> DEFINE recorded == <<memory>> \o history
             kept == Min({HistoryLimit, Len(recorded)})
  <2>1. recorded \in Seq(Seq(Message)) /\ Len(recorded) = Len(history) + 1
        /\ Len(history) \in Nat /\ Len(history) <= HistoryLimit
    BY DEF Typed, HistoryOK
  <2>2. history' = SubSeq(recorded, 1, kept)
    BY DEF Ask
  <2>3. kept = IF HistoryLimit <= Len(recorded) THEN HistoryLimit ELSE Len(recorded)
    <3> HIDE DEF recorded
    <3>1. HistoryLimit \in Int /\ Len(recorded) \in Int
      BY <2>1, Bounds
    <3> QED BY <3>1, MinOfTwo DEF kept
  <2> HIDE DEF recorded, kept
  <2>4. kept \in Nat /\ kept <= Len(recorded) /\ kept <= HistoryLimit /\ Len(history) <= kept
    BY <2>1, <2>3, Bounds
  <2>5. history' \in Seq(Seq(Message)) /\ Len(history') = kept
    <3>1. \A n \in 1 .. kept : recorded[n] \in Seq(Message)
      BY <2>1, <2>4
    <3> QED BY <2>2, <2>4, <3>1, SubSeqProperties
  <2> QED BY <2>4, <2>5 DEF HistoryOK
<1>3. PanelOK'
  BY <1>1, <1>2 DEF Typed, HistoryOK, PanelOK, ClosedAtTop, Panel
<1>4. AppOK' /\ LogOK' /\ FaultsOK' /\ memory' \in Seq(Message)
  BY <1>1, NotInApp, NotAtServer DEF Typed
<1> QED BY <1>1, <1>2, <1>3, <1>4 DEF Typed

(* A generation that is over, with an answer or without one. *)
LEMMA EndsGeneration ==
  ASSUME SendsOK, NEW i \in SendIds, Reply(i) \/ ReplyIsBlank(i) \/ GenerationFails(i)
  PROVE  /\ SendsOK' /\ sends[i].step = "generating"
         /\ GoesOn(i, "replying") \/ GoesOn(i, "done")
         /\ UNCHANGED server
<1>1. sends[i].step = "generating" /\ UNCHANGED server
  BY DEF Reply, ReplyIsBlank, GenerationFails
<1>2. PICK next \in {"replying", "done"} : sends' = [sends EXCEPT ![i].step = next]
  BY DEF Reply, ReplyIsBlank, GenerationFails
<1>3. next \in Steps
  BY <1>2 DEF Steps
<1>4. SendsOK' /\ GoesOn(i, next)
  BY <1>2, <1>3, StepSet
<1> QED BY <1>1, <1>2, <1>4

LEMMA GenerationTyped ==
  ASSUME Typed, NEW i \in SendIds, Reply(i) \/ ReplyIsBlank(i) \/ GenerationFails(i)
  PROVE  Typed'
<1>1. SendsOK' /\ UNCHANGED server
  BY EndsGeneration DEF Typed
<1>2. CASE Reply(i) \/ ReplyIsBlank(i)
  <2>1. UNCHANGED <<app, history, panel, faults>>
    BY <1>2 DEF Reply, ReplyIsBlank
  <2>2. memory' = memory \/ memory' = Append(memory, Answer(i))
    BY <1>2 DEF Reply, ReplyIsBlank
  <2>3. memory' \in Seq(Message)
    BY <2>2, Messages DEF Typed
  <2>4. AppOK' /\ HistoryOK' /\ PanelOK' /\ LogOK' /\ FaultsOK'
    BY <1>1, <2>1, NotInApp, NotInPanel, NotAtServer DEF Typed
  <2> QED BY <1>1, <2>3, <2>4 DEF Typed
<1>3. CASE GenerationFails(i)
  <2>1. Fault /\ UNCHANGED <<run, minted>>
        /\ (UNCHANGED <<running, memory, history, panel>> \/ Ends)
    BY <1>3 DEF GenerationFails
  <2>2. LogOK' /\ FaultsOK'
    BY <1>1, <2>1, FaultTyped DEF Typed
  <2>3. memory' \in Seq(Message) /\ HistoryOK' /\ PanelOK' /\ running' \in BOOLEAN
    <3>1. CASE UNCHANGED <<running, memory, history, panel>>
      BY <3>1, NotInPanel DEF Typed, AppOK
    <3>2. CASE Ends
      BY <3>2, NothingLeft DEF Typed
    <3> QED BY <2>1, <3>1, <3>2
  <2>4. AppOK'
    BY <2>1, <2>3 DEF Typed, AppOK
  <2> QED BY <1>1, <2>2, <2>3, <2>4 DEF Typed
<1> QED BY <1>2, <1>3

LEMMA StutterTyped == Typed /\ UNCHANGED vars => Typed'
BY DEF Typed, vars, app, server, AppOK, HistoryOK, PanelOK, ClosedAtTop, SendsOK, SendOK,
       LogOK, FaultsOK

LEMMA NextTyped == Typed /\ [Next]_vars => Typed'
<1> SUFFICES ASSUME Typed, [Next]_vars PROVE Typed'
  OBVIOUS
<1>1. CASE Start
  BY <1>1, StartTyped
<1>2. CASE Exit
  BY <1>2, ExitTyped
<1>3. CASE Clear \/ Reset
  BY <1>3, ClearTyped
<1>4. CASE Debug \/ Escape \/ Up \/ Down \/ Return
  BY <1>4, PanelTyped
<1>5. ASSUME NEW i \in SendIds, Send(i) PROVE Typed'
  BY <1>5, SendTyped
<1>6. ASSUME NEW i \in SendIds, PostQuestion(i) \/ PostAnswer(i) PROVE Typed'
  BY <1>6, PostedTyped
<1>7. ASSUME NEW i \in SendIds, Ask(i) PROVE Typed'
  BY <1>7, AskTyped
<1>8. ASSUME NEW i \in SendIds, Reply(i) \/ ReplyIsBlank(i) \/ GenerationFails(i) PROVE Typed'
  BY <1>8, GenerationTyped
<1>9. CASE UNCHANGED vars
  BY <1>9, StutterTyped
<1> QED BY <1>1, <1>2, <1>3, <1>4, <1>5, <1>6, <1>7, <1>8, <1>9 DEF Next

(* The line the debug panel marks is always one that it shows, every message
   the process, the server or a request holds is one of a send, and no count
   passes its bound. *)
THEOREM TypeCorrect == Spec => []TypeOK
BY InitTyped, TypedIs, NextTyped, PTL DEF Spec
--------------------------------------------------------------------------------
(***************************************************************************)
(* Replies.  A send that has posted its question, or failed to, goes on in *)
(* the conversation it began in.                                           *)
(***************************************************************************)
InLog(i, c) == c \in DOMAIN log /\ \E n \in DOMAIN log[c] : log[c][n] = Question(i)


(* A send is past its question, and the server knows it or never will. *)
Past(s) == s.step \in {"context", "generating", "replying", "done"}
Known(i) == Question(i) \in lost \/ InLog(i, sends[i].conversation)

Asked == \A i \in SendIds : Past(sends[i]) => Known(i)

(* A message that is accepted is the last of its conversation, and nothing
   before it changes. *)
LEMMA LogGrows ==
  ASSUME LogOK, NEW c, NEW message \in Message, Accepted(c, message)
  PROVE  /\ LogOK'
         /\ \A d \in DOMAIN log : d \in DOMAIN log'
         /\ \A d \in DOMAIN log : \A n \in DOMAIN log[d] :
              n \in DOMAIN log'[d] /\ log'[d][n] = log[d][n]
         /\ c \in DOMAIN log'
         /\ \E n \in DOMAIN log'[c] :
              /\ log'[c][n] = message
              /\ \A d \in DOMAIN log' : \A k \in DOMAIN log'[d] :
                   \/ d = c /\ k = n
                   \/ d \in DOMAIN log /\ k \in DOMAIN log[d]
              /\ \A k \in DOMAIN LogOf(c) : k \in 1 .. n - 1
<1>1. LogOf(c) \in Seq(Message)
  BY DEF LogOf, LogOK
<1> DEFINE old == LogOf(c)
           new == Append(old, message)
           last == Len(old) + 1
<1>2. log' = [d \in DOMAIN log \cup {c} |-> IF d = c THEN new ELSE log[d]]
  BY DEF Accepted
<1>3. old \in Seq(Message) /\ (c \in DOMAIN log => old = log[c])
  BY <1>1 DEF LogOf
<1> HIDE DEF old
<1>4. /\ new \in Seq(Message) /\ last \in DOMAIN new /\ new[last] = message
      /\ \A k \in DOMAIN new : k = last \/ k \in DOMAIN old
      /\ \A k \in DOMAIN old : k \in DOMAIN new /\ new[k] = old[k] /\ k \in 1 .. last - 1
      /\ c \notin DOMAIN log => DOMAIN old = {}
  <2>1. c \notin DOMAIN log => old = <<>>
    BY DEF old, LogOf
  <2> QED BY <1>3, <2>1
<1> HIDE DEF new, last
<1>5. /\ c \in DOMAIN log' /\ log'[c] = new
      /\ \A d \in DOMAIN log : d \in DOMAIN log' /\ (d # c => log'[d] = log[d])
      /\ \A d \in DOMAIN log' : d = c \/ (d \in DOMAIN log /\ log'[d] = log[d])
  BY <1>2
<1>6. LogOK'
  BY <1>4, <1>5 DEF LogOK
<1>7. \A d \in DOMAIN log : \A n \in DOMAIN log[d] : n \in DOMAIN log'[d] /\ log'[d][n] = log[d][n]
  BY <1>3, <1>4, <1>5
<1>8. \A d \in DOMAIN log' : \A k \in DOMAIN log'[d] :
        \/ d = c /\ k = last
        \/ d \in DOMAIN log /\ k \in DOMAIN log[d]
  BY <1>3, <1>4, <1>5
<1>9. /\ last \in DOMAIN log'[c] /\ log'[c][last] = message
      /\ \A k \in DOMAIN LogOf(c) : k \in 1 .. last - 1
  BY <1>4, <1>5 DEF old
<1> QED BY <1>5, <1>6, <1>7, <1>8, <1>9

(* What is in a conversation stays there. *)
Grows == lost \subseteq lost' /\ \A i \in SendIds : \A c : InLog(i, c) => InLog(i, c)'

LEMMA AcceptedGrows ==
  ASSUME LogOK, NEW c, NEW message \in Message, Accepted(c, message), lost' = lost
  PROVE  Grows
<1> SUFFICES ASSUME NEW i \in SendIds, NEW d, InLog(i, d)
             PROVE  InLog(i, d)'
  BY DEF Grows
<1>1. PICK n \in DOMAIN log[d] : log[d][n] = Question(i)
  BY DEF InLog
<1>2. d \in DOMAIN log
  BY DEF InLog
<1>3. d \in DOMAIN log' /\ n \in DOMAIN log'[d] /\ log'[d][n] = log[d][n]
  BY <1>1, <1>2, LogGrows
<1> QED BY <1>1, <1>3 DEF InLog, Question

(* A reply that is accepted follows its question. *)
LEMMA AcceptedFollows ==
  ASSUME LogOK, RepliesFollowQuestions, NEW c, NEW message \in Message,
         Accepted(c, message), lost' = lost,
         message.role = "assistant" => Question(message.send) \in lost \/ InLog(message.send, c)
  PROVE  RepliesFollowQuestions'
<1>1. PICK n \in DOMAIN log'[c] :
        /\ log'[c][n] = message
        /\ \A d \in DOMAIN log' : \A k \in DOMAIN log'[d] :
             \/ d = c /\ k = n
             \/ d \in DOMAIN log /\ k \in DOMAIN log[d]
        /\ \A k \in DOMAIN LogOf(c) : k \in 1 .. n - 1
  BY LogGrows
<1>2. \A d \in DOMAIN log : \A k \in DOMAIN log[d] : k \in DOMAIN log'[d] /\ log'[d][k] = log[d][k]
  BY LogGrows
<1> SUFFICES ASSUME NEW d \in DOMAIN log', NEW k \in DOMAIN log'[d],
                    log'[d][k].role = "assistant"
             PROVE  \/ \E m \in 1 .. k - 1 : log'[d][m] = Question(log'[d][k].send)
                    \/ Question(log'[d][k].send) \in lost'
  BY DEF RepliesFollowQuestions, Question
<1>3. CASE d = c /\ k = n
  <2>1. log'[d][k] = message /\ message.role = "assistant"
    BY <1>1, <1>3
  <2>2. CASE Question(message.send) \in lost
    BY <2>1, <2>2
  <2>3. CASE InLog(message.send, c)
    <3>1. PICK m \in DOMAIN log[c] : log[c][m] = Question(message.send)
      BY <2>3 DEF InLog
    <3>2. c \in DOMAIN log
      BY <2>3 DEF InLog
    <3>3. m \in 1 .. n - 1
      BY <1>1, <3>1, <3>2 DEF LogOf
    <3>4. log'[c][m] = Question(message.send)
      BY <1>2, <3>1, <3>2
    <3> QED BY <1>3, <2>1, <3>3, <3>4
  <2> QED BY <2>1, <2>2, <2>3
<1>4. CASE d \in DOMAIN log /\ k \in DOMAIN log[d]
  <2>1. log[d] \in Seq(Message)
    BY <1>4 DEF LogOK
  <2>2. log'[d][k] = log[d][k]
    BY <1>2, <1>4
  <2>3. \/ \E m \in 1 .. k - 1 : log[d][m] = Question(log[d][k].send)
        \/ Question(log[d][k].send) \in lost
    BY <1>4, <2>2 DEF RepliesFollowQuestions
  <2>4. CASE Question(log[d][k].send) \in lost
    BY <2>2, <2>4
  <2>5. ASSUME NEW m \in 1 .. k - 1, log[d][m] = Question(log[d][k].send)
        PROVE  \E b \in 1 .. k - 1 : log'[d][b] = Question(log'[d][k].send)
    <3>1. m \in DOMAIN log[d]
      BY <1>4, <2>1
    <3>2. log'[d][m] = log[d][m]
      BY <1>2, <1>4, <3>1
    <3> QED BY <2>2, <2>5, <3>2
  <2> QED BY <2>3, <2>4, <2>5
<1> QED BY <1>1, <1>3, <1>4

(* A step that leaves the conversations of the server alone. *)
LEMMA LogKept ==
  ASSUME UNCHANGED log, lost \subseteq lost'
  PROVE  Grows /\ (RepliesFollowQuestions => RepliesFollowQuestions')
<1>1. Grows
  BY DEF Grows, InLog, Question
<1>2. RepliesFollowQuestions => RepliesFollowQuestions'
  BY DEF RepliesFollowQuestions, Question
<1> QED BY <1>1, <1>2

LEMMA AskedKept ==
  ASSUME Grows, Asked,
         \A i \in SendIds : Past(sends'[i]) =>
           \/ Past(sends[i]) /\ sends'[i].conversation = sends[i].conversation
           \/ Known(i)'
  PROVE  Asked'
<1> SUFFICES ASSUME NEW i \in SendIds, Past(sends'[i])
             PROVE  Known(i)'
  BY DEF Asked
<1>1. CASE Past(sends[i]) /\ sends'[i].conversation = sends[i].conversation
  <2>1. PICK c : c = sends[i].conversation
    OBVIOUS
  <2>2. Question(i) \in lost \/ InLog(i, c)
    BY <1>1, <2>1 DEF Asked, Known
  <2>3. CASE Question(i) \in lost
    BY <2>3 DEF Grows, Known, Question
  <2>4. CASE InLog(i, c)
    <3>1. InLog(i, c)' /\ sends'[i].conversation = c
      BY <1>1, <2>1, <2>4 DEF Grows
    <3> QED BY <3>1 DEF Known
  <2> QED BY <2>2, <2>3, <2>4
<1> QED BY <1>1

LEMMA SendsAlone ==
  ASSUME RepliesFollowQuestions, Asked, UNCHANGED <<sends, server>>
  PROVE  RepliesFollowQuestions' /\ Asked'
<1>1. UNCHANGED log /\ lost \subseteq lost' /\ UNCHANGED sends
  BY DEF server
<1>2. Grows /\ RepliesFollowQuestions'
  BY <1>1, LogKept
<1> QED BY <1>1, <1>2, AskedKept

LEMMA PostedFollows ==
  ASSUME Typed, RepliesFollowQuestions, Asked, NEW i \in SendIds,
         PostQuestion(i) \/ PostAnswer(i)
  PROVE  RepliesFollowQuestions' /\ Asked'
<1> PICK c : c = sends[i].conversation
  OBVIOUS
<1>1. CASE PostQuestion(i)
  <2>1. Post(i, "posting", Question(i), "context")
    BY <1>1 DEF PostQuestion
  <2>2. GoesOn(i, "context")
    BY <2>1, Messages, PostTyped DEF Typed, Steps
  <2>3. CASE Accepted(c, Question(i)) /\ lost' = lost
    <3>1. RepliesFollowQuestions' /\ Grows
      <4>1. Question(i).role # "assistant"
        BY DEF Question
      <4> QED BY <2>3, <4>1, Messages, AcceptedFollows, AcceptedGrows DEF Typed
    <3>2. Known(i)'
      <4>1. PICK n \in DOMAIN log'[c] : log'[c][n] = Question(i)
        BY <2>3, Messages, LogGrows DEF Typed
      <4>2. c \in DOMAIN log'
        BY <2>3, Messages, LogGrows DEF Typed
      <4>3. sends'[i].conversation = c
        BY <2>2 DEF GoesOn
      <4> QED BY <4>1, <4>2, <4>3 DEF Known, InLog, Question
    <3>3. Asked'
      BY <2>2, <3>1, <3>2, AskedKept DEF GoesOn, Past
    <3> QED BY <3>1, <3>3
  <2>4. CASE lost' = lost \cup {Question(i)} /\ UNCHANGED log
    <3>1. RepliesFollowQuestions' /\ Grows
      BY <2>4, LogKept
    <3>2. Known(i)'
      BY <2>4 DEF Known, Question
    <3>3. Asked'
      BY <2>2, <3>1, <3>2, AskedKept DEF GoesOn, Past
    <3> QED BY <3>1, <3>3
  <2> QED BY <2>1, <2>3, <2>4 DEF Post, PostedTo
<1>2. CASE PostAnswer(i)
  <2>1. Post(i, "replying", Answer(i), "done") /\ sends[i].step = "replying"
    BY <1>2 DEF PostAnswer, Post
  <2>2. GoesOn(i, "done")
    BY <2>1, Messages, PostTyped DEF Typed, Steps
  <2>3. Question(i) \in lost \/ InLog(i, c)
    BY <2>1 DEF Asked, Past, Known
  <2>4. RepliesFollowQuestions' /\ Grows
    <3>1. CASE Accepted(c, Answer(i)) /\ lost' = lost
      <4>1. Answer(i).send = i
        BY DEF Answer
      <4>2. RepliesFollowQuestions'
        BY <2>3, <3>1, <4>1, Messages, AcceptedFollows DEF Typed
      <4> QED BY <3>1, <4>2, Messages, AcceptedGrows DEF Typed
    <3>2. CASE lost' = lost \cup {Answer(i)} /\ UNCHANGED log
      BY <3>2, LogKept
    <3> QED BY <2>1, <3>1, <3>2 DEF Post, PostedTo
  <2>5. Asked'
    BY <2>1, <2>2, <2>4, AskedKept DEF GoesOn, Past
  <2> QED BY <2>4, <2>5
<1> QED BY <1>1, <1>2

LEMMA OthersFollow ==
  ASSUME Typed, RepliesFollowQuestions, Asked, NEW i \in SendIds,
         Send(i) \/ Ask(i) \/ Reply(i) \/ ReplyIsBlank(i) \/ GenerationFails(i)
  PROVE  RepliesFollowQuestions' /\ Asked'
<1>1. UNCHANGED log /\ lost \subseteq lost'
  BY DEF Send, Ask, Reply, ReplyIsBlank, GenerationFails, server
<1>2. RepliesFollowQuestions' /\ Grows
  BY <1>1, LogKept
<1>3. \A j \in SendIds : j # i => sends'[j] = sends[j]
  <2>1. CASE Send(i)
    BY <2>1, SentIs DEF Typed
  <2>2. CASE Ask(i)
    BY <2>2, AskIs DEF Typed
  <2>3. CASE Reply(i) \/ ReplyIsBlank(i) \/ GenerationFails(i)
    BY <2>3, EndsGeneration DEF Typed, GoesOn
  <2> QED BY <2>1, <2>2, <2>3
<1>4. Past(sends'[i]) => Past(sends[i]) /\ sends'[i].conversation = sends[i].conversation
  <2>1. CASE Send(i)
    BY <2>1, SentIs DEF Typed, Past
  <2>2. CASE Ask(i)
    <3>1. sends[i].step = "context"
      BY <2>2 DEF Ask
    <3> QED BY <2>2, <3>1, AskIs DEF Typed, Past
  <2>3. CASE Reply(i) \/ ReplyIsBlank(i) \/ GenerationFails(i)
    BY <2>3, EndsGeneration DEF Typed, GoesOn, Past
  <2> QED BY <2>1, <2>2, <2>3
<1>5. Asked'
  BY <1>2, <1>3, <1>4, AskedKept
<1> QED BY <1>2, <1>5

LEMMA NextFollows ==
  Typed /\ RepliesFollowQuestions /\ Asked /\ [Next]_vars => RepliesFollowQuestions' /\ Asked'
<1> SUFFICES ASSUME Typed, RepliesFollowQuestions, Asked, [Next]_vars
             PROVE  RepliesFollowQuestions' /\ Asked'
  OBVIOUS
<1>1. CASE Start \/ Exit \/ Debug \/ Escape \/ Up \/ Down \/ Return \/ UNCHANGED vars
  <2>1. UNCHANGED <<sends, server>>
    BY <1>1 DEF Start, Exit, Debug, Escape, Up, Down, Return, Keys, vars
  <2> QED BY <2>1, SendsAlone
<1>2. CASE Clear \/ Reset
  <2>1. Cleared /\ UNCHANGED server
    BY <1>2 DEF Clear, Reset
  <2>2. \A i \in SendIds : Forgets(i)
    BY <2>1, ClearedTyped DEF Typed
  <2>3. UNCHANGED log /\ lost \subseteq lost'
    BY <2>1 DEF server
  <2>4. Grows /\ RepliesFollowQuestions'
    BY <2>3, LogKept
  <2>5. Asked'
    BY <2>2, <2>4, AskedKept DEF Forgets, Past
  <2> QED BY <2>4, <2>5
<1>3. ASSUME NEW i \in SendIds, PostQuestion(i) \/ PostAnswer(i)
      PROVE  RepliesFollowQuestions' /\ Asked'
  BY <1>3, PostedFollows
<1>4. ASSUME NEW i \in SendIds,
             Send(i) \/ Ask(i) \/ Reply(i) \/ ReplyIsBlank(i) \/ GenerationFails(i)
      PROVE  RepliesFollowQuestions' /\ Asked'
  BY <1>4, OthersFollow
<1> QED BY <1>1, <1>2, <1>3, <1>4 DEF Next

(* In every conversation of the server a reply comes after its question, unless
   the question was lost, however sends, resets and restarts interleave. *)
THEOREM RepliesInOrder == Spec => []RepliesFollowQuestions
<1>1. Init => RepliesFollowQuestions /\ Asked
  <2> SUFFICES ASSUME Init PROVE RepliesFollowQuestions /\ Asked
    OBVIOUS
  <2>1. DOMAIN log = {}
    BY DEF Init
  <2>2. \A i \in SendIds : sends[i].step = "idle"
    BY DEF Init, Unsent
  <2>3. RepliesFollowQuestions
    BY <2>1 DEF RepliesFollowQuestions
  <2>4. Asked
    BY <2>2 DEF Asked, Past
  <2> QED BY <2>3, <2>4
<1> QED BY <1>1, InitTyped, NextTyped, NextFollows, PTL DEF Spec
--------------------------------------------------------------------------------
(***************************************************************************)
(* Requests.  Until a send has read the memory its question is in it,      *)
(* unless the memory was cleared or the process ended; no send is of a run *)
(* still to come.                                                          *)
(***************************************************************************)
Waits(s) == s.step \in {"posting", "context"}
IsThere(i) == \E n \in DOMAIN memory : memory[n] = Question(i)
Remembered == \A i \in SendIds : Waits(sends[i]) /\ ~ sends[i].cleared /\ Alive(i) => IsThere(i)
RunsPast == \A i \in SendIds : sends[i].run \in 0 .. run

(* What is appended to the memory leaves what is there. *)
LEMMA MemoryGrows ==
  ASSUME memory \in Seq(Message), NEW message \in Message, memory' = Append(memory, message),
         NEW i \in SendIds, IsThere(i) \/ message = Question(i)
  PROVE  IsThere(i)'
<1>1. CASE IsThere(i)
  <2>1. PICK n \in DOMAIN memory : memory[n] = Question(i)
    BY <1>1 DEF IsThere
  <2>2. n \in DOMAIN memory' /\ memory'[n] = memory[n]
    OBVIOUS
  <2> QED BY <2>1, <2>2 DEF IsThere, Question
<1>2. CASE message = Question(i)
  <2>1. Len(memory) + 1 \in DOMAIN memory' /\ memory'[Len(memory) + 1] = message
    OBVIOUS
  <2> QED BY <1>2, <2>1 DEF IsThere, Question
<1> QED BY <1>1, <1>2

(* A send that waits for nothing else than before. *)
LEMMA StillWaits ==
  ASSUME Typed, RunsPast, Remembered, UNCHANGED run,
         \A i \in SendIds : sends'[i].run = sends[i].run,
         \A i \in SendIds : Waits(sends'[i]) => Waits(sends[i]) /\ (sends[i].cleared => sends'[i].cleared),
         running' => running,
         running' => \A i \in SendIds : Waits(sends'[i]) /\ ~ sends'[i].cleared /\ IsThere(i) => IsThere(i)'
  PROVE  RunsPast' /\ Remembered'
<1>1. RunsPast'
  BY DEF RunsPast
<1>2. ASSUME NEW i \in SendIds, Waits(sends'[i]), ~ sends'[i].cleared, running', sends'[i].run = run'
      PROVE  IsThere(i)'
  <2>1. Waits(sends[i]) /\ ~ sends[i].cleared /\ running /\ sends[i].run = run
    BY <1>2
  <2> QED BY <1>2, <2>1 DEF Remembered, Alive
<1> QED BY <1>1, <1>2 DEF Remembered, Alive

LEMMA StartRemembers ==
  ASSUME Typed, RunsPast, Start
  PROVE  RunsPast' /\ Remembered'
<1>1. run' = run + 1 /\ UNCHANGED sends /\ run \in 0 .. MaxRuns
  BY DEF Start, Typed, AppOK
<1>2. \A i \in SendIds : sends'[i].run \in 0 .. run
  BY <1>1 DEF RunsPast
<1>3. RunsPast'
  <2>1. run \in Nat
    BY <1>1, Bounds
  <2> QED BY <1>1, <1>2, <2>1 DEF RunsPast
<1>4. \A i \in SendIds : sends'[i].run # run'
  <2>1. run \in Nat
    BY <1>1, Bounds
  <2> QED BY <1>1, <1>2, <2>1
<1> QED BY <1>3, <1>4 DEF Remembered, Alive

LEMMA SendRemembers ==
  ASSUME Typed, RunsPast, Remembered, NEW i \in SendIds, Send(i)
  PROVE  RunsPast' /\ Remembered'
<1>1. /\ sends'[i].run = run /\ \A j \in SendIds : j # i => sends'[j] = sends[j]
      /\ UNCHANGED <<run, running>> /\ memory' = Append(memory, Question(i))
      /\ run \in 0 .. MaxRuns /\ memory \in Seq(Message)
  BY SentIs DEF Send, app, Typed, AppOK
<1>2. RunsPast'
  <2>1. run \in Nat
    BY <1>1, Bounds
  <2> QED BY <1>1, <2>1 DEF RunsPast
<1>3. ASSUME NEW j \in SendIds, Waits(sends'[j]), ~ sends'[j].cleared, running', sends'[j].run = run'
      PROVE  IsThere(j)'
  <2>1. CASE j = i
    BY <1>1, <2>1, Messages, MemoryGrows
  <2>2. CASE j # i
    <3>1. IsThere(j)
      BY <1>1, <1>3, <2>2 DEF Remembered, Alive
    <3> QED BY <1>1, <3>1, Messages, MemoryGrows
  <2> QED BY <2>1, <2>2
<1> QED BY <1>2, <1>3 DEF Remembered, Alive

LEMMA PostRemembers ==
  ASSUME Typed, RunsPast, Remembered, NEW i \in SendIds, PostQuestion(i) \/ PostAnswer(i)
  PROVE  RunsPast' /\ Remembered'
<1>1. /\ UNCHANGED <<run, running, memory>>
      /\ sends[i].step = "posting" \/ sends[i].step = "replying"
      /\ (GoesOn(i, "context") /\ sends[i].step = "posting") \/ GoesOn(i, "done")
  <2>1. CASE PostQuestion(i)
    <3>1. Post(i, "posting", Question(i), "context")
      BY <2>1 DEF PostQuestion
    <3>2. GoesOn(i, "context")
      BY <3>1, Messages, PostTyped DEF Typed, Steps
    <3> QED BY <3>1, <3>2 DEF Post, app
  <2>2. CASE PostAnswer(i)
    <3>1. Post(i, "replying", Answer(i), "done")
      BY <2>2 DEF PostAnswer
    <3>2. GoesOn(i, "done")
      BY <3>1, Messages, PostTyped DEF Typed, Steps
    <3> QED BY <3>1, <3>2 DEF Post, app
  <2> QED BY <2>1, <2>2
<1>2. \A j \in SendIds : IsThere(j) => IsThere(j)'
  BY <1>1 DEF IsThere, Question
<1> QED BY <1>1, <1>2, StillWaits DEF GoesOn, Waits

LEMMA GenerationRemembers ==
  ASSUME Typed, RunsPast, Remembered, NEW i \in SendIds,
         Ask(i) \/ Reply(i) \/ ReplyIsBlank(i) \/ GenerationFails(i)
  PROVE  RunsPast' /\ Remembered'
<1>1. UNCHANGED run /\ (running' => running)
  BY DEF Ask, Reply, ReplyIsBlank, GenerationFails, Ends, app
<1>2. /\ sends'[i].run = sends[i].run /\ ~ Waits(sends'[i])
      /\ \A j \in SendIds : j # i => sends'[j] = sends[j]
  <2>1. CASE Ask(i)
    BY <2>1, AskIs DEF Typed, Waits
  <2>2. CASE Reply(i) \/ ReplyIsBlank(i) \/ GenerationFails(i)
    BY <2>2, EndsGeneration DEF Typed, GoesOn, Waits
  <2> QED BY <2>1, <2>2
<1>3. running' => memory' = memory \/ memory' = Append(memory, Answer(i))
  BY DEF Ask, Reply, ReplyIsBlank, GenerationFails, Ends
<1>4. ASSUME running', NEW j \in SendIds, IsThere(j)
      PROVE  IsThere(j)'
  <2>1. CASE memory' = memory
    BY <1>4, <2>1 DEF IsThere, Question
  <2>2. CASE memory' = Append(memory, Answer(i))
    BY <1>4, <2>2, Messages, MemoryGrows DEF Typed
  <2> QED BY <1>3, <1>4, <2>1, <2>2
<1> QED BY <1>1, <1>2, <1>4, StillWaits

LEMMA NextRemembers ==
  Typed /\ RunsPast /\ Remembered /\ [Next]_vars => RunsPast' /\ Remembered'
<1> SUFFICES ASSUME Typed, RunsPast, Remembered, [Next]_vars
             PROVE  RunsPast' /\ Remembered'
  OBVIOUS
<1>1. CASE Start
  BY <1>1, StartRemembers
<1>2. CASE Exit
  <2>1. UNCHANGED <<run, sends>> /\ running' = FALSE
    BY <1>2 DEF Exit, Ends
  <2> QED BY <2>1, StillWaits
<1>3. CASE Debug \/ Escape \/ Up \/ Down \/ Return \/ UNCHANGED vars
  <2>1. UNCHANGED <<run, running, sends, memory>>
    BY <1>3 DEF Debug, Escape, Up, Down, Return, Keys, vars, app
  <2>2. \A i \in SendIds : IsThere(i) => IsThere(i)'
    BY <2>1 DEF IsThere, Question
  <2> QED BY <2>1, <2>2, StillWaits
<1>4. CASE Clear \/ Reset
  <2>1. Cleared /\ UNCHANGED <<run, running>>
    BY <1>4 DEF Clear, Reset, app
  <2>2. \A i \in SendIds : Forgets(i)
    BY <2>1, ClearedTyped DEF Typed
  <2>3. \A i \in SendIds : /\ sends'[i].run = sends[i].run
                           /\ Waits(sends'[i]) => Waits(sends[i]) /\ sends'[i].cleared
    BY <2>2 DEF Forgets, Waits
  <2> QED BY <2>1, <2>3, StillWaits
<1>5. ASSUME NEW i \in SendIds, Send(i) PROVE RunsPast' /\ Remembered'
  BY <1>5, SendRemembers
<1>6. ASSUME NEW i \in SendIds, PostQuestion(i) \/ PostAnswer(i)
      PROVE  RunsPast' /\ Remembered'
  BY <1>6, PostRemembers
<1>7. ASSUME NEW i \in SendIds, Ask(i) \/ Reply(i) \/ ReplyIsBlank(i) \/ GenerationFails(i)
      PROVE  RunsPast' /\ Remembered'
  BY <1>7, GenerationRemembers
<1> QED BY <1>1, <1>2, <1>3, <1>4, <1>5, <1>6, <1>7 DEF Next

(* What truncation keeps of a message of the memory: the message is in the
   request, or is left out because it does not fit. *)
LEMMA KeptOrTooMuch ==
  ASSUME NEW messages \in Seq(Message), NEW n \in DOMAIN messages
  PROVE  \/ messages[n] \in Range(truncateMessages(messages))
         \/ ~ Fits(SubSeq(messages, n, Len(messages)))
<1> DEFINE fits == {k \in 1 .. Len(messages) + 1 : Fits(SubSeq(messages, k, Len(messages)))}
           first == Min(fits)
<1>1. Len(messages) \in Nat /\ n \in 1 .. Len(messages)
  OBVIOUS
<1>2. CASE Fits(SubSeq(messages, n, Len(messages)))
  <2>1. n \in fits /\ fits \in SUBSET Nat
    BY <1>1, <1>2
  <2>2. first \in fits /\ first <= n
    <3> HIDE DEF fits
    <3> QED BY <2>1, SmallestNat
  <2>3. first \in 1 .. n
    <3> HIDE DEF first
    <3> QED BY <1>1, <2>2
  <2>4. truncateMessages(messages) = SubSeq(messages, first, Len(messages))
    BY DEF truncateMessages
  <2> HIDE DEF first
  <2> DEFINE kept == SubSeq(messages, first, Len(messages))
  <2>5. /\ Len(kept) = Len(messages) - first + 1
        /\ \A k \in 1 .. Len(messages) - first + 1 : kept[k] = messages[first + k - 1]
    <3>1. \A k \in first .. Len(messages) : messages[k] \in Message
      BY <1>1, <2>3
    <3> QED BY <1>1, <2>3, <3>1, SubSeqProperties
  <2>6. n - first + 1 \in DOMAIN kept /\ kept[n - first + 1] = messages[n]
    <3>1. n - first + 1 \in 1 .. Len(messages) - first + 1
      BY <1>1, <2>3
    <3>2. first + (n - first + 1) - 1 = n
      BY <1>1, <2>3
    <3>3. DOMAIN kept = 1 .. Len(messages) - first + 1
      BY <1>1, <2>3
    <3> QED BY <2>5, <3>1, <3>2, <3>3
  <2>7. messages[n] \in Range(kept)
    <3> HIDE DEF kept
    <3> QED BY <2>6 DEF Range
  <2> QED BY <2>4, <2>7
<1> QED BY <1>2

(* Nothing but Ask takes a send from its context to its generation. *)
LEMMA OnlyAskGenerates ==
  ASSUME Typed, [Next]_vars, NEW i \in SendIds,
         sends[i].step = "context", sends'[i].step = "generating"
  PROVE  Ask(i)
<1>1. CASE Start \/ Exit \/ Debug \/ Escape \/ Up \/ Down \/ Return \/ UNCHANGED vars
  <2>1. sends' = sends
    BY <1>1 DEF Start, Exit, Debug, Escape, Up, Down, Return, Keys, vars
  <2> QED BY <2>1
<1>2. CASE Clear \/ Reset
  <2>1. Forgets(i)
    BY <1>2, ClearedTyped DEF Clear, Reset, Typed
  <2> QED BY <2>1 DEF Forgets
<1>3. ASSUME NEW j \in SendIds, Send(j) PROVE Ask(i)
  <2>1. sends'[j].step = "posting" /\ (j # i => sends'[i] = sends[i])
    BY <1>3, SentIs DEF Typed
  <2> QED BY <2>1
<1>4. ASSUME NEW j \in SendIds, PostQuestion(j) \/ PostAnswer(j) PROVE Ask(i)
  <2>1. GoesOn(j, "context") \/ GoesOn(j, "done")
    <3>1. "context" \in Steps /\ "done" \in Steps
      BY DEF Steps
    <3>2. Post(j, "posting", Question(j), "context") \/ Post(j, "replying", Answer(j), "done")
      BY <1>4 DEF PostQuestion, PostAnswer
    <3> QED BY <3>1, <3>2, Messages, PostTyped DEF Typed
  <2> QED BY <2>1 DEF GoesOn
<1>5. ASSUME NEW j \in SendIds, Ask(j) PROVE Ask(i)
  <2>1. j # i => sends'[i] = sends[i]
    BY <1>5, AskIs DEF Typed
  <2> QED BY <1>5, <2>1
<1>6. ASSUME NEW j \in SendIds, Reply(j) \/ ReplyIsBlank(j) \/ GenerationFails(j)
      PROVE  Ask(i)
  <2>1. GoesOn(j, "replying") \/ GoesOn(j, "done")
    BY <1>6, EndsGeneration DEF Typed
  <2> QED BY <2>1 DEF GoesOn
<1> QED BY <1>1, <1>2, <1>3, <1>4, <1>5, <1>6 DEF Next

(* A request fits the budget and has the question it was made for, unless the
   memory was cleared since or newer messages leave it no room. *)
THEOREM RequestsHaveTheirQuestion == Spec => RequestHasItsQuestion
<1> DEFINE Has(i) ==
      /\ Fits(sends'[i].request)
      /\ \/ Question(i) \in Range(sends'[i].request)
         \/ sends[i].cleared
         \/ \E n \in DOMAIN memory :
              /\ memory[n] = Question(i)
              /\ ~ Fits(SubSeq(memory, n, Len(memory)))
<1>1. Init => RunsPast /\ Remembered
  <2> SUFFICES ASSUME Init PROVE RunsPast /\ Remembered
    OBVIOUS
  <2>1. run = 0 /\ \A i \in SendIds : sends[i].step = "idle" /\ sends[i].run = 0
    BY DEF Init, Unsent
  <2> QED BY <2>1 DEF RunsPast, Remembered, Waits
<1>2. ASSUME Typed, Remembered, [Next]_vars, NEW i \in SendIds,
             sends[i].step = "context", sends'[i].step = "generating"
      PROVE  Has(i)
  <2>1. Ask(i)
    BY <1>2, OnlyAskGenerates
  <2>2. sends'[i].request = truncateMessages(memory) /\ memory \in Seq(Message)
    BY <1>2, <2>1, AskIs DEF Typed
  <2>3. Fits(sends'[i].request)
    BY <2>2, Truncated
  <2>4. CASE ~ sends[i].cleared
    <3>1. PICK n \in DOMAIN memory : memory[n] = Question(i)
      BY <1>2, <2>1, <2>4 DEF Ask, Remembered, Waits, IsThere
    <3> QED BY <2>2, <2>3, <3>1, KeptOrTooMuch
  <2> QED BY <2>3, <2>4
<1>3. Typed /\ Remembered /\ [Next]_vars =>
        [\A i \in SendIds : sends[i].step = "context" /\ sends'[i].step = "generating" => Has(i)]_vars
  BY <1>2
<1> QED BY <1>1, <1>3, InitTyped, NextTyped, NextRemembers, PTL DEF Spec, RequestHasItsQuestion
--------------------------------------------------------------------------------
(***************************************************************************)
(* .env: what is saved is what is read and loaded again.                   *)
(***************************************************************************)
LEMMA IsSeqIn ==
  ASSUME NEW s, IsSeq(s), NEW S, Range(s) \subseteq S
  PROVE  s \in Seq(S)
<1>1. s \in Seq(Range(s))
  BY DEF IsSeq
<1> QED BY <1>1

LEMMA SeqIs ==
  ASSUME NEW S, NEW s \in Seq(S)
  PROVE  IsSeq(s)
BY DEF IsSeq, Range

LEMMA OneMore ==
  ASSUME NEW S, NEW s \in Seq(S), NEW n \in 1 .. Len(s)
  PROVE  SubSeq(s, 1, n - 1) \o <<s[n]>> = SubSeq(s, 1, n)
<1>1. Len(s) \in Nat /\ n \in Nat /\ n <= Len(s) /\ n >= 1
  OBVIOUS
<1>2. \A k \in 1 .. Len(s) : s[k] \in S
  OBVIOUS
<1> DEFINE front == SubSeq(s, 1, n - 1)
           whole == SubSeq(s, 1, n)
<1>3. front \in Seq(S) /\ Len(front) = n - 1 /\ \A k \in 1 .. n - 1 : front[k] = s[k]
  <2>1. CASE n = 1
    <3>1. front = <<>>
      BY <1>1, <2>1, SubSeqEmpty
    <3> HIDE DEF front
    <3> QED BY <2>1, <3>1
  <2>2. CASE n # 1
    <3>1. \A k \in 1 .. n - 1 : s[k] \in S
      BY <1>1, <1>2
    <3>2. n - 1 \in Int /\ 1 \in Int
      BY <1>1
    <3>3. front \in Seq(S) /\ Len(front) = (n - 1) - 1 + 1
          /\ \A k \in 1 .. (n - 1) - 1 + 1 : front[k] = s[1 + k - 1]
      BY <1>1, <2>2, <3>1, <3>2, SubSeqProperties
    <3> QED BY <1>1, <3>3
  <2> QED BY <2>1, <2>2
<1>4. whole \in Seq(S) /\ Len(whole) = n /\ \A k \in 1 .. n : whole[k] = s[k]
  <2>1. \A k \in 1 .. n : s[k] \in S
    BY <1>1, <1>2
  <2>2. whole \in Seq(S) /\ Len(whole) = n - 1 + 1 /\ \A k \in 1 .. n - 1 + 1 : whole[k] = s[1 + k - 1]
    BY <1>1, <2>1, SubSeqProperties
  <2> QED BY <1>1, <2>2
<1> HIDE DEF front, whole
<1>5. s[n] \in S
  BY <1>2
<1>6. front \o <<s[n]>> \in Seq(S) /\ Len(front \o <<s[n]>>) = n
  BY <1>1, <1>3, <1>5
<1>7. ASSUME NEW k \in 1 .. n PROVE (front \o <<s[n]>>)[k] = whole[k]
  <2> DEFINE last == <<s[n]>>
  <2>1. CASE k = n
    <3>1. last \in Seq(S) /\ Len(last) = 1 /\ last[1] = s[n]
      BY <1>5
    <3> HIDE DEF last
    <3>2. k > Len(front) /\ k <= Len(front) + Len(last) /\ k - Len(front) = 1
      BY <1>1, <1>3, <2>1, <3>1
    <3>3. (front \o last)[k] = last[k - Len(front)]
      <4>1. k \in 1 .. Len(front) + Len(last) /\ ~ (k <= Len(front))
        BY <1>1, <1>3, <3>2
      <4> QED BY <1>3, <3>1, <4>1, ConcatProperties
    <3>4. whole[k] = s[n]
      BY <1>1, <1>4, <2>1
    <3>5. (front \o last)[k] = whole[k]
      BY <3>1, <3>2, <3>3, <3>4
    <3> QED BY <3>5 DEF last
  <2>2. CASE k # n
    <3>1. k \in 1 .. n - 1 /\ k <= Len(front)
      BY <1>1, <1>3, <2>2
    <3>2. (front \o <<s[n]>>)[k] = front[k]
      BY <1>3, <1>5, <3>1
    <3> QED BY <1>3, <1>4, <3>1, <3>2
  <2> QED BY <2>1, <2>2
<1>8. front \o <<s[n]>> = whole
  BY <1>4, <1>6, <1>7, SeqEqual
<1> QED BY <1>8 DEF front, whole

(* A value without a quote is written as it is, in quotes if it needs them. *)
LEMMA SavedIs ==
  ASSUME NEW value, IsSeq(value), Quote \notin Range(value)
  PROVE  Saved(value) = IF Range(value) \cap Special # {} THEN <<Quote>> \o value \o <<Quote>> ELSE value
<1> DEFINE N == Len(value)
           Body(e) == [n \in 0 .. N |-> IF n = 0 THEN <<>> ELSE e[n - 1] \o Written(value[n])]
           escaped == CHOOSE e : e = Body(e)
           parts == [n \in 0 .. N |-> SubSeq(value, 1, n)]
<1>1. N \in Nat /\ value \in Seq(Range(value))
  BY DEF IsSeq
<1>2. \A n \in 1 .. N : Written(value[n]) = <<value[n]>>
  <2>1. \A n \in 1 .. N : value[n] \in Range(value)
    BY <1>1 DEF Range
  <2> QED BY <2>1 DEF Written
<1>3. SubSeq(value, 1, 0) = <<>>
  BY <1>1, SubSeqEmpty
<1>4. \A n \in 1 .. N : SubSeq(value, 1, n - 1) \o <<value[n]>> = SubSeq(value, 1, n)
  BY <1>1, OneMore
<1>5. parts = Body(parts)
  <2>1. ASSUME NEW n \in 0 .. N, n # 0
        PROVE  parts[n] = parts[n - 1] \o Written(value[n])
    <3>1. n \in 1 .. N /\ n - 1 \in 0 .. N
      BY <1>1, <2>1
    <3> QED BY <1>2, <1>4, <3>1
  <2>2. parts[0] = <<>>
    BY <1>1, <1>3
  <2>3. \A n \in 0 .. N : parts[n] = IF n = 0 THEN <<>> ELSE parts[n - 1] \o Written(value[n])
    BY <2>1, <2>2
  <2> HIDE DEF N
  <2> QED BY <2>3
<1>6. escaped = Body(escaped)
  <2> HIDE DEF Body, parts
  <2> QED BY <1>5
<1> HIDE DEF escaped
<1>7. escaped[0] = <<>> /\ \A n \in 1 .. N : escaped[n] = escaped[n - 1] \o <<value[n]>>
  <2>1. \A n \in 0 .. N : escaped[n] = IF n = 0 THEN <<>> ELSE escaped[n - 1] \o Written(value[n])
    BY <1>6
  <2>2. \A n \in 1 .. N : n \in 0 .. N /\ n # 0
    BY <1>1
  <2>3. 0 \in 0 .. N
    BY <1>1
  <2> HIDE DEF Body, N
  <2> QED BY <1>2, <2>1, <2>2, <2>3
<1>8. \A n \in 0 .. N : escaped[n] = SubSeq(value, 1, n)
  <2> DEFINE wrong == {n \in 0 .. N : escaped[n] # SubSeq(value, 1, n)}
             first == Min(wrong)
  <2> SUFFICES ASSUME wrong # {} PROVE FALSE
    OBVIOUS
  <2>1. first \in wrong /\ \A n \in wrong : first <= n
    <3>1. wrong \in SUBSET Nat
      BY <1>1
    <3> HIDE DEF wrong
    <3> QED BY <3>1, SmallestNat
  <2> HIDE DEF first
  <2>2. first # 0
    BY <1>3, <1>7, <2>1
  <2>3. first \in 1 .. N /\ first - 1 \in 0 .. N /\ ~ (first <= first - 1)
    BY <1>1, <2>1, <2>2
  <2>4. escaped[first - 1] = SubSeq(value, 1, first - 1)
    BY <2>1, <2>3
  <2>5. escaped[first] = SubSeq(value, 1, first)
    BY <1>4, <1>7, <2>3, <2>4
  <2> QED BY <2>1, <2>5
<1>9. escaped[N] = value
  <2>1. SubSeq(value, 1, N) = value
    BY <1>1, SubSeqFull
  <2> QED BY <1>1, <1>8, <2>1
<1>10. Saved(value) = IF Range(value) \cap Special # {} THEN <<Quote>> \o escaped[N] \o <<Quote>> ELSE value
  BY Zenon DEF Saved, escaped
<1> QED BY <1>9, <1>10

LEMMA QuotedIs ==
  ASSUME NEW value, IsSeq(value)
  PROVE  LET text == <<Quote>> \o value \o <<Quote>> IN
         /\ text # <<>> /\ Head(text) = Quote /\ IsSeq(text)
         /\ Parsed(text) = value
<1> DEFINE S == Range(value) \cup {Quote}
           text == <<Quote>> \o value \o <<Quote>>
           N == Len(value)
           rest == value \o <<Quote>>
<1>1. value \in Seq(S) /\ Quote \in S /\ N \in Nat
  BY IsSeqIn
<1> HIDE DEF S
<1>2. /\ text \in Seq(S) /\ Len(text) = N + 2 /\ text[1] = Quote
      /\ \A k \in 1 .. N : text[k + 1] = value[k]
      /\ text[N + 2] = Quote
  BY <1>1
<1>3. text # <<>> /\ Head(text) = Quote
  BY <1>1, <1>2
<1>4. Tail(text) \in Seq(S) /\ Len(Tail(text)) = N + 1
      /\ \A k \in 1 .. N + 1 : Tail(text)[k] = text[k + 1]
  <2> HIDE DEF text
  <2> QED BY <1>1, <1>2
<1>5. rest \in Seq(S) /\ Len(rest) = N + 1 /\ rest[N + 1] = Quote /\ \A k \in 1 .. N : rest[k] = value[k]
  BY <1>1
<1>6. ASSUME NEW k \in 1 .. N + 1 PROVE Tail(text)[k] = rest[k]
  <2> HIDE DEF text, rest, N
  <2>1. Tail(text)[k] = text[k + 1]
    BY <1>4
  <2>2. CASE k = N + 1
    <3>1. k + 1 = N + 2
      BY <1>1, <2>2
    <3>2. rest[k] = Quote
      BY <1>5, <2>2
    <3>3. text[k + 1] = Quote
      BY <1>2, <3>1
    <3> QED BY <2>1, <3>2, <3>3
  <2>3. CASE k # N + 1
    <3>1. k \in 1 .. N
      BY <1>1, <2>3
    <3> QED BY <1>2, <1>5, <2>1, <3>1
  <2> QED BY <2>2, <2>3
<1> HIDE DEF text, rest
<1>7. Tail(text) = rest
  BY <1>4, <1>5, <1>6, SeqEqual
<1>8. rest # <<>> /\ Last(rest) = Quote
  BY <1>1, <1>5 DEF Last
<1>9. Front(rest) = value
  <2>1. Front(rest) = SubSeq(rest, 1, N)
    BY <1>1, <1>5 DEF Front
  <2>2. SubSeq(rest, 1, N) \in Seq(S) /\ Len(SubSeq(rest, 1, N)) = N
        /\ \A k \in 1 .. N : SubSeq(rest, 1, N)[k] = rest[k]
    <3>1. CASE N = 0
      <4>1. SubSeq(rest, 1, N) = <<>>
        BY <1>5, <3>1, SubSeqEmpty
      <4> QED BY <3>1, <4>1
    <3>2. CASE N # 0
      <4>1. \A k \in 1 .. N : rest[k] \in S
        BY <1>1, <1>5
      <4>2. SubSeq(rest, 1, N) \in Seq(S) /\ Len(SubSeq(rest, 1, N)) = N - 1 + 1
            /\ \A k \in 1 .. N - 1 + 1 : SubSeq(rest, 1, N)[k] = rest[1 + k - 1]
        BY <1>1, <3>2, <4>1, SubSeqProperties
      <4> QED BY <1>1, <4>2
    <3> QED BY <3>1, <3>2
  <2>3. \A k \in 1 .. N : SubSeq(rest, 1, N)[k] = value[k]
    BY <1>5, <2>2
  <2> DEFINE front == SubSeq(rest, 1, N)
  <2> HIDE DEF front
  <2>4. front \in Seq(S) /\ value \in Seq(S) /\ Len(front) = Len(value)
        /\ \A k \in 1 .. Len(front) : front[k] = value[k]
    BY <1>1, <2>2, <2>3 DEF front
  <2>5. front = value
    BY <2>4, SeqEqual
  <2> QED BY <2>1, <2>5 DEF front
<1>10. Parsed(text) = value
  BY <1>3, <1>7, <1>8, <1>9 DEF Parsed
<1>11. IsSeq(text)
  BY <1>2, SeqIs
<1> QED BY <1>3, <1>10, <1>11 DEF text

LEMMA PlainIs ==
  ASSUME NEW value, IsSeq(value), Range(value) \cap Special = {}
  PROVE  Parsed(value) = value /\ Loaded(value) = value
<1>1. value \in Seq(Range(value)) /\ Len(value) \in Nat
  BY DEF IsSeq
<1>2. \A k \in 1 .. Len(value) : value[k] # Quote /\ value[k] # "#" /\ value[k] # " "
  <2>1. \A k \in 1 .. Len(value) : value[k] \in Range(value)
    BY <1>1 DEF Range
  <2> QED BY <2>1 DEF Special
<1>3. value # <<>> => 1 \in 1 .. Len(value) /\ Len(value) \in 1 .. Len(value) /\ Head(value) = value[1]
  BY <1>1
<1>4. value # <<>> => Head(value) # Quote /\ Last(value) # Quote /\ Last(value) # " "
  BY <1>2, <1>3 DEF Last
<1>5. Parsed(value) = value
  BY <1>4 DEF Parsed
<1>6. {i \in DOMAIN value : value[i] = "#"} = {}
  <2>1. DOMAIN value = 1 .. Len(value)
    BY <1>1
  <2> QED BY <1>2, <2>1
<1>7. Loaded(value) = value
  BY <1>4, <1>6 DEF Loaded
<1> QED BY <1>5, <1>7

(* What Node reads of a value that was put in quotes. *)
LEMMA QuotedLoads ==
  ASSUME NEW value, IsSeq(value), Quote \notin Range(value)
  PROVE  Loaded(<<Quote>> \o value \o <<Quote>>) = value
<1> DEFINE S == Range(value) \cup {Quote}
           text == <<Quote>> \o value \o <<Quote>>
           N == Len(value)
           closing == {i \in 2 .. Len(text) : text[i] = Quote}
<1>1. /\ value \in Seq(S) /\ Quote \in S /\ N \in Nat
      /\ \A k \in 1 .. N : value[k] # Quote /\ value[k] \in S
  <2>1. value \in Seq(S) /\ N \in Nat
    BY IsSeqIn
  <2>2. \A k \in 1 .. N : value[k] \in Range(value)
    BY <2>1 DEF Range
  <2> QED BY <2>1, <2>2
<1> HIDE DEF S
<1>2. /\ text \in Seq(S) /\ Len(text) = N + 2 /\ text[1] = Quote
      /\ \A k \in 1 .. N : text[k + 1] = value[k]
      /\ text[N + 2] = Quote
  BY <1>1
<1>3. text # <<>> /\ Head(text) = Quote
  BY QuotedIs
<1> HIDE DEF text
<1>4. closing = {N + 2}
  <2>1. ASSUME NEW i \in closing PROVE i = N + 2
    <3>1. i \in 2 .. N + 2 /\ text[i] = Quote
      BY <1>1, <1>2
    <3>2. CASE i # N + 2
      <4>1. i - 1 \in 1 .. N /\ i = (i - 1) + 1
        BY <1>1, <3>1, <3>2
      <4>2. text[i] = value[i - 1]
        BY <1>2, <4>1
      <4> QED BY <1>1, <3>1, <4>1, <4>2
    <3> QED BY <3>2
  <2>2. N + 2 \in closing
    BY <1>1, <1>2
  <2> QED BY <2>1, <2>2
<1> HIDE DEF closing
<1>5. Min(closing) = N + 2
  BY <1>1, <1>4, MinOfTwo
<1>6. SubSeq(text, 2, N + 1) = value
  <2> DEFINE inner == SubSeq(text, 2, N + 1)
  <2>1. inner \in Seq(S) /\ Len(inner) = N /\ \A k \in 1 .. N : inner[k] = text[k + 1]
    <3>1. CASE N = 0
      <4>1. inner = <<>>
        BY <1>2, <3>1, SubSeqEmpty
      <4> HIDE DEF inner
      <4> QED BY <3>1, <4>1
    <3>2. CASE N # 0
      <4>1. \A k \in 2 .. N + 1 : text[k] \in S
        BY <1>1, <1>2
      <4>2. inner \in Seq(S) /\ Len(inner) = (N + 1) - 2 + 1
            /\ \A k \in 1 .. (N + 1) - 2 + 1 : inner[k] = text[2 + k - 1]
        BY <1>1, <1>2, <3>2, <4>1, SubSeqProperties
      <4> HIDE DEF inner
      <4>3. (N + 1) - 2 + 1 = N /\ \A k \in 1 .. N : 2 + k - 1 = k + 1
        BY <1>1
      <4> QED BY <4>2, <4>3
    <3> QED BY <3>1, <3>2
  <2> HIDE DEF inner
  <2>2. \A k \in 1 .. N : inner[k] = value[k]
    BY <1>2, <2>1
  <2>3. inner = value
    BY <1>1, <2>1, <2>2, SeqEqual
  <2> QED BY <2>3 DEF inner
<1>7. Loaded(text) = IF closing = {} THEN text ELSE SubSeq(text, 2, Min(closing) - 1)
  BY <1>3, Zenon DEF Loaded, closing
<1>8. Min(closing) - 1 = N + 1 /\ closing # {}
  BY <1>1, <1>4, <1>5
<1>9. Loaded(text) = value
  BY <1>6, <1>7, <1>8
<1> QED BY <1>9 DEF text

(* Both readers get back what was saved. *)
LEMMA SavedReads ==
  ASSUME NEW value, IsSeq(value), Quote \notin Range(value)
  PROVE  IsSeq(Saved(value)) /\ Parsed(Saved(value)) = value /\ Loaded(Saved(value)) = value
<1>1. CASE Range(value) \cap Special = {}
  BY <1>1, SavedIs, PlainIs
<1>2. CASE Range(value) \cap Special # {}
  <2> DEFINE text == <<Quote>> \o value \o <<Quote>>
  <2>1. Saved(value) = text
    BY <1>2, SavedIs
  <2>2. IsSeq(text) /\ Parsed(text) = value
    BY QuotedIs
  <2>3. Loaded(text) = value
    BY QuotedLoads
  <2> HIDE DEF text
  <2> QED BY <2>1, <2>2, <2>3
<1> QED BY <1>1, <1>2
--------------------------------------------------------------------------------
(***************************************************************************)
(* Settings.  A line of .env that parse reads no quote in is as the user   *)
(* wrote it, or as save writes what parse read; a setting is what Node     *)
(* read from one or the other.                                             *)
(***************************************************************************)
Fine(key) == Quote \notin Range(Parsed(given[key]))
Rewritten(key) == Saved(Parsed(given[key]))
Changed(key) == env[key] = Loaded(given[key]) /\ file[key] = Rewritten(key)

GivenOK == \A key \in DOMAIN given : IsSeq(given[key])
FileOK ==
  /\ GivenOK
  /\ \A key \in DOMAIN file \ {IdKey} :
       key \in DOMAIN given /\ (Fine(key) => file[key] \in {given[key], Rewritten(key)})

Holds(key, value) == key \in DOMAIN file /\ Loaded(file[key]) = value
Kept ==
  run > 0 =>
    /\ \A key \in DOMAIN env \ {IdKey} :
         key \in DOMAIN file /\ (Fine(key) => env[key] = Loaded(file[key]) \/ Changed(key))
    /\ shell = NoId => Holds(IdKey, conversation)

(* A run begins with the settings of the one before it, but for those that the
   rewriting of .env has changed. *)
StartsAsBefore ==
  /\ conversation' = IF shell = NoId THEN conversation ELSE shell
  /\ \A key \in DOMAIN env \ {IdKey} : Quote \notin Range(Parsed(given[key])) =>
       \/ env'[key] = env[key]
       \/ env[key] = Loaded(given[key]) /\ env'[key] = Parsed(given[key])

LEMMA ParsedType ==
  ASSUME NEW text, IsSeq(text)
  PROVE  IsSeq(Parsed(text))
<1> DEFINE S == Range(text)
           rest == IF text # <<>> /\ Head(text) = Quote THEN Tail(text) ELSE text
<1>1. text \in Seq(S)
  BY IsSeqIn
<1> HIDE DEF S
<1>2. rest \in Seq(S)
  BY <1>1
<1>3. Parsed(text) = IF rest # <<>> /\ Last(rest) = Quote THEN Front(rest) ELSE rest
  BY DEF Parsed
<1> HIDE DEF rest
<1>4. rest # <<>> => Front(rest) \in Seq(S)
  <2> SUFFICES ASSUME rest # <<>> PROVE Front(rest) \in Seq(S)
    OBVIOUS
  <2>1. Len(rest) \in Nat \ {0} /\ \A k \in 1 .. Len(rest) : rest[k] \in S
    BY <1>2
  <2>2. \A k \in 1 .. Len(rest) - 1 : rest[k] \in S
    BY <2>1
  <2>3. CASE Len(rest) = 1
    BY <1>2, <2>3, SubSeqEmpty DEF Front
  <2>4. CASE Len(rest) # 1
    BY <1>2, <2>1, <2>2, <2>4, SubSeqProperties DEF Front
  <2> QED BY <2>3, <2>4
<1>5. Parsed(text) \in Seq(S)
  BY <1>2, <1>3, <1>4
<1> QED BY <1>5, SeqIs

(* What is rewritten reads as parse read it at first. *)
LEMMA RewrittenReads ==
  ASSUME GivenOK, NEW key \in DOMAIN given, Fine(key)
  PROVE  Parsed(Rewritten(key)) = Parsed(given[key]) /\ Loaded(Rewritten(key)) = Parsed(given[key])
<1> DEFINE value == Parsed(given[key])
<1>1. IsSeq(value) /\ Quote \notin Range(value)
  BY ParsedType DEF GivenOK, Fine
<1> HIDE DEF value
<1>2. Parsed(Saved(value)) = value /\ Loaded(Saved(value)) = value
  BY <1>1, SavedReads
<1> QED BY <1>2 DEF value, Rewritten

(* Rewriting .env sets the id, and every other line to what parse read in it. *)
LEMMA SetItemKeeps ==
  ASSUME FileOK, NEW id, IsSeq(id), Quote \notin Range(id), file' = SetItem(file, IdKey, id),
         UNCHANGED given
  PROVE  /\ FileOK' /\ IdKey \in DOMAIN file' /\ Loaded(file'[IdKey]) = id
         /\ \A key \in DOMAIN file \ {IdKey} :
              key \in DOMAIN file' /\ (Fine(key) => file'[key] = Rewritten(key))
<1>1. /\ DOMAIN file' = DOMAIN file \cup {IdKey}
      /\ \A key \in DOMAIN file' : file'[key] = Saved(IF key = IdKey THEN id ELSE Parsed(file[key]))
  BY DEF SetItem
<1>2. file'[IdKey] = Saved(id) /\ \A key \in DOMAIN file \ {IdKey} : file'[key] = Saved(Parsed(file[key]))
  BY <1>1
<1>3. Loaded(file'[IdKey]) = id
  BY <1>2, SavedReads
<1>4. ASSUME NEW key \in DOMAIN file \ {IdKey}, Fine(key)
      PROVE  file'[key] = Rewritten(key)
  <2>1. key \in DOMAIN given /\ (file[key] = given[key] \/ file[key] = Rewritten(key)) /\ GivenOK
    BY <1>4 DEF FileOK
  <2>2. Parsed(file[key]) = Parsed(given[key])
    BY <1>4, <2>1, RewrittenReads
  <2> QED BY <1>2, <2>2 DEF Rewritten
<1>5. FileOK'
  <2>1. GivenOK'
    BY DEF FileOK, GivenOK
  <2>2. ASSUME NEW key \in DOMAIN file' \ {IdKey}
        PROVE  (key \in DOMAIN given /\ (Fine(key) => file[key] \in {given[key], Rewritten(key)}))'
    <3>1. key \in DOMAIN file \ {IdKey}
      BY <1>1
    <3>2. key \in DOMAIN given
      BY <3>1 DEF FileOK
    <3> QED BY <1>4, <3>1, <3>2 DEF Fine, Rewritten
  <2> QED BY <2>1, <2>2 DEF FileOK
<1> QED BY <1>1, <1>3, <1>4, <1>5

(* A setting stays what it was read from, whether or not .env is rewritten. *)
LEMMA StillRead ==
  ASSUME FileOK, NEW key \in DOMAIN file \ {IdKey}, Fine(key), UNCHANGED given,
         env'[key] = Loaded(file[key]),
         file'[key] = file[key] \/ file'[key] = Rewritten(key)
  PROVE  (env[key] = Loaded(file[key]) \/ Changed(key))'
BY DEF FileOK, Changed, Rewritten

LEMMA FreshIs ==
  ASSUME AppOK, minted < Len(Ids)
  PROVE  IsSeq(Fresh) /\ Quote \notin Range(Fresh)
<1>1. Len(Ids) \in Nat /\ \A n \in 1 .. Len(Ids) : Ids[n] # Quote
  BY HaruAssumption
<1> DEFINE id == Ids[minted + 1]
<1>2. id # Quote
  <2> DEFINE k == Len(Ids)
  <2>1. k \in Nat /\ minted < k /\ minted \in 0 .. k /\ \A n \in 1 .. k : Ids[n] # Quote
    BY <1>1 DEF AppOK
  <2> HIDE DEF k
  <2>2. minted + 1 \in 1 .. k
    BY <2>1
  <2> QED BY <2>1, <2>2
<1> HIDE DEF id
<1>3. <<id>> \in Seq({id}) /\ Range(<<id>>) = {id}
  BY DEF Range
<1>4. IsSeq(<<id>>)
  BY <1>3, SeqIs
<1> QED BY <1>2, <1>3, <1>4 DEF Fresh, id

LEMMA StartKeeps ==
  ASSUME Typed, FileOK, Kept, Start
  PROVE  FileOK' /\ Kept' /\ (run > 0 => StartsAsBefore)
<1>1. /\ DOMAIN Environment = DOMAIN file \cup (IF shell = NoId THEN {} ELSE {IdKey})
      /\ \A key \in DOMAIN Environment :
           Environment[key] = IF key = IdKey /\ shell # NoId THEN shell ELSE Loaded(file[key])
  BY DEF Environment
<1>2. env' = Environment /\ UNCHANGED given /\ UNCHANGED shell
  BY DEF Start, user
<1>3. \A key \in DOMAIN env' \ {IdKey} : key \in DOMAIN file \ {IdKey} /\ env'[key] = Loaded(file[key])
  BY <1>1, <1>2
<1>4. /\ FileOK'
      /\ \A key \in DOMAIN file \ {IdKey} :
           key \in DOMAIN file' /\ (Fine(key) => file'[key] = file[key] \/ file'[key] = Rewritten(key))
      /\ shell = NoId => IdKey \in DOMAIN file' /\ Loaded(file'[IdKey]) = conversation'
  <2>1. CASE IdKey \in DOMAIN Environment
    <3>1. conversation' = Environment[IdKey] /\ UNCHANGED file
      BY <2>1 DEF Start
    <3>2. FileOK'
      BY <1>2, <3>1 DEF FileOK, GivenOK, Fine, Rewritten
    <3> QED BY <1>1, <2>1, <3>1, <3>2
  <2>2. CASE IdKey \notin DOMAIN Environment
    <3>1. conversation' = Fresh /\ file' = SetItem(file, IdKey, Fresh) /\ minted < Len(Ids)
      BY <2>2 DEF Start
    <3>2. IsSeq(Fresh) /\ Quote \notin Range(Fresh)
      BY <3>1, FreshIs DEF Typed
    <3> QED BY <1>2, <3>1, <3>2, SetItemKeeps
  <2> QED BY <2>1, <2>2
<1>5. Kept'
  <2>1. ASSUME NEW key \in DOMAIN env' \ {IdKey}
        PROVE  (key \in DOMAIN file /\ (Fine(key) => env[key] = Loaded(file[key]) \/ Changed(key)))'
    <3>1. key \in DOMAIN file \ {IdKey} /\ env'[key] = Loaded(file[key]) /\ key \in DOMAIN file'
      BY <1>3, <1>4
    <3>2. Fine(key)' <=> Fine(key)
      BY <1>2 DEF Fine
    <3>3. CASE Fine(key)
      BY <1>2, <1>4, <3>1, <3>3, StillRead
    <3> QED BY <3>1, <3>2, <3>3
  <2> QED BY <1>2, <1>4, <2>1 DEF Kept, Holds
<1>6. ASSUME run > 0 PROVE StartsAsBefore
  <2>1. IdKey \in DOMAIN Environment
    BY <1>1, <1>6 DEF Kept, Holds
  <2>2. conversation' = Environment[IdKey]
    BY <2>1 DEF Start
  <2>3. conversation' = IF shell = NoId THEN conversation ELSE shell
    BY <1>1, <1>6, <2>1, <2>2 DEF Kept, Holds
  <2>4. ASSUME NEW key \in DOMAIN env \ {IdKey}, Fine(key)
        PROVE  \/ env'[key] = env[key]
               \/ env[key] = Loaded(given[key]) /\ env'[key] = Parsed(given[key])
    <3>1. key \in DOMAIN file \ {IdKey} /\ (env[key] = Loaded(file[key]) \/ Changed(key))
      BY <1>6, <2>4 DEF Kept
    <3>2. env'[key] = Loaded(file[key])
      BY <1>1, <1>2, <3>1
    <3>3. Loaded(Rewritten(key)) = Parsed(given[key])
      BY <2>4, <3>1, RewrittenReads DEF FileOK
    <3> QED BY <3>1, <3>2, <3>3 DEF Changed
  <2> QED BY <2>3, <2>4 DEF StartsAsBefore, Fine
<1> QED BY <1>4, <1>5, <1>6

LEMMA NextKeeps ==
  Typed /\ FileOK /\ Kept /\ [Next]_vars => FileOK' /\ Kept'
<1> SUFFICES ASSUME Typed, FileOK, Kept, [Next]_vars PROVE FileOK' /\ Kept'
  OBVIOUS
<1>1. CASE Start
  BY <1>1, StartKeeps
<1>2. CASE Reset
  <2>1. /\ conversation' = Fresh /\ file' = SetItem(file, IdKey, Fresh) /\ minted < Len(Ids)
        /\ UNCHANGED <<given, shell, run, env>>
    BY <1>2 DEF Reset, user
  <2>2. IsSeq(Fresh) /\ Quote \notin Range(Fresh)
    BY <2>1, FreshIs DEF Typed
  <2>3. /\ FileOK' /\ IdKey \in DOMAIN file' /\ Loaded(file'[IdKey]) = Fresh
        /\ \A key \in DOMAIN file \ {IdKey} :
             key \in DOMAIN file' /\ (Fine(key) => file'[key] = Rewritten(key))
    BY <2>1, <2>2, SetItemKeeps
  <2>4. ASSUME run > 0, NEW key \in DOMAIN env \ {IdKey}
        PROVE  (key \in DOMAIN file /\ (Fine(key) => env[key] = Loaded(file[key]) \/ Changed(key)))'
    <3>1. key \in DOMAIN file \ {IdKey} /\ (Fine(key) => env[key] = Loaded(file[key]) \/ Changed(key))
      BY <2>4 DEF Kept
    <3>2. key \in DOMAIN file' /\ (Fine(key)' <=> Fine(key))
      BY <2>1, <2>3, <3>1 DEF Fine
    <3>3. CASE Fine(key)
      <4>1. file'[key] = Rewritten(key)
        BY <2>3, <3>1, <3>3
      <4>2. CASE env[key] = Loaded(file[key])
        BY <2>1, <3>1, <3>2, <3>3, <4>1, <4>2, StillRead
      <4>3. CASE Changed(key)
        BY <2>1, <3>2, <4>1, <4>3 DEF Changed, Rewritten
      <4> QED BY <3>1, <3>3, <4>2, <4>3
    <3> QED BY <3>2, <3>3
  <2> QED BY <2>1, <2>3, <2>4 DEF Kept, Holds
<1>3. CASE UNCHANGED <<given, shell, run, env, conversation, file>>
  BY <1>3 DEF FileOK, GivenOK, Kept, Holds, Fine, Rewritten, Changed
<1>4. [Next]_vars /\ ~ Start /\ ~ Reset => UNCHANGED <<given, shell, run, env, conversation, file>>
  BY DEF Next, Exit, Clear, Debug, Send, PostQuestion, PostAnswer, Post, Ask, Reply, ReplyIsBlank,
         GenerationFails, Escape, Up, Down, Return, Keys, app, user, vars
<1> QED BY <1>1, <1>2, <1>3, <1>4

(* A run begins with the conversation of the one before it, whatever .env holds
   and however often it was rewritten, and with its settings, if parse reads no
   quote in them: where parse and Node read the user's text differently, a
   setting goes over from Node's reading to parse's, once (dotenvStorage). *)
THEOREM SettingsAreKept == Spec => SettingsSurvive
<1>1. Init => FileOK /\ Kept
  <2> SUFFICES ASSUME Init PROVE FileOK /\ Kept
    OBVIOUS
  <2>1. \E s \in Setups : file = s.file /\ given = s.file
    BY DEF Init
  <2>2. GivenOK
    BY <2>1, HaruAssumption DEF GivenOK
  <2>3. FileOK
    BY <2>1, <2>2 DEF FileOK
  <2>4. Kept
    BY DEF Init, Kept
  <2> QED BY <2>3, <2>4
<1>2. Typed /\ FileOK /\ Kept /\ [Next]_vars => [~ running /\ running' /\ run > 0 => StartsAsBefore]_vars
  <2> SUFFICES ASSUME Typed, FileOK, Kept, [Next]_vars, ~ running, running', run > 0
               PROVE  StartsAsBefore
    OBVIOUS
  <2>1. Start
    BY DEF Next, Exit, Clear, Reset, Debug, Send, PostQuestion, PostAnswer, Post, Ask, Reply,
           ReplyIsBlank, GenerationFails, Ends, Escape, Up, Down, Return, Keys, InputIsThere, Alive,
           app, user, vars
  <2> QED BY <2>1, StartKeeps
<1> QED BY <1>1, <1>2, InitTyped, NextTyped, NextKeeps, PTL DEF Spec, SettingsSurvive, StartsAsBefore
================================================================================
