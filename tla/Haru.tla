--------------------------------- MODULE Haru ---------------------------------
(***************************************************************************)
(* The terminal chat: useHaru, handleSubmit, the debug panel, and the .env *)
(* file that carries the conversation's id from one run to the next.       *)
(*                                                                         *)
(* Nothing stops the user from sending again, clearing or resetting while  *)
(* an answer is on its way, so several sends are in flight; each goes      *)
(* through posting the question, asking, and posting the reply.  A message *)
(* is [send, role, size], its size in tokens.  The server, the language    *)
(* model and Node's reading of .env are external.                          *)
(***************************************************************************)
EXTENDS Integers, Sequences, SequencesExt

CONSTANTS
  SendIds,        \* sends, 1 .. n, over all runs (bound)
  Sizes,          \* the size of the messages of each send
  Budget,         \* the token budget of a request
  HistoryLimit,   \* requests the debug panel keeps, 5
  Ids,            \* fresh conversation ids, in the order uuid gives them (bound)
  Setups,         \* what a user may begin with: .env, the text after the = of
                  \* every key, and the id the shell sets, NoId for none
  MaxRuns,        \* runs of the application (bound)
  MaxFaults       \* failed posts and generations (bound)

IdKey == "HARU_CONVERSATION_ID"
NoId == <<>>
Quote == "\""
Special == {" ", "#", "=", Quote}
--------------------------------------------------------------------------------
(***************************************************************************)
(* .env: text is a sequence of words and of the characters that matter.    *)
(***************************************************************************)
(* envUtils.parse: one quote is dropped at each end. *)
Parsed(text) ==
  LET From == IF text # <<>> /\ Head(text) = Quote THEN Tail(text) ELSE text
  IN  IF From # <<>> /\ Last(From) = Quote THEN Front(From) ELSE From

(* envUtils.save: quotes around anything special. *)
Plain(value) == value                                              \* mutant
Written(w) == IF w = Quote THEN <<"\\", Quote>> ELSE <<w>>
Saved(value) ==
  LET Escaped[n \in 0 .. Len(value)] ==
        IF n = 0 THEN <<>> ELSE Escaped[n - 1] \o Written(value[n])
  IN  IF Range(value) \cap Special # {} THEN <<Quote>> \o Escaped[Len(value)] \o <<Quote>>
                                        ELSE value

(* process.loadEnvFile: what is quoted, up to the first quote; without one at
   the end of it all of the line (it is the last of the file, or Node would go
   on to the next); else what is before a comment. *)
Loaded(text) ==
  IF text # <<>> /\ Head(text) = Quote
  THEN LET closing == {i \in 2 .. Len(text) : text[i] = Quote}
       IN  IF closing = {} THEN text ELSE SubSeq(text, 2, Min(closing) - 1)
  ELSE LET comment == {i \in DOMAIN text : text[i] = "#"}
           kept == IF comment = {} THEN text ELSE SubSeq(text, 1, Min(comment) - 1)
       IN  IF kept # <<>> /\ Last(kept) = " " THEN Front(kept) ELSE kept

IsSeq(s) == s \in Seq(Range(s))

(* A fresh id has no quote. *)
ASSUME HaruAssumption ==
  /\ \A s \in Setups : \A key \in DOMAIN s.file : IsSeq(s.file[key])
  /\ \A n \in 1 .. Len(Ids) : Ids[n] # Quote
  /\ (\A i \in SendIds : Sizes[i] \in Nat \ {0}) /\ Budget \in Nat /\ HistoryLimit \in Nat \ {0}
  /\ Len(Ids) \in Nat /\ MaxRuns \in Nat /\ MaxFaults \in Nat

(* dotenvStorage.setItem rewrites the whole file. *)
SetItem(map, key, value) ==
  [k \in DOMAIN map \cup {key} |-> Saved(IF k = key THEN value ELSE Parsed(map[k]))]
--------------------------------------------------------------------------------
VARIABLES
  file,           \* .env
  given, shell,   \* .env as the user wrote it (history), and the id the shell sets
  run, running,   \* which run of the application this is
  env,            \* its environment
  conversation, minted,  \* its conversation; ids minted so far, over all runs
  memory,         \* messagesRef and messages
  history,        \* requestHistory, newest first
  panel,          \* DebugHistoryPanel
  sends,          \* per send, where it stands
  log, lost,      \* the server's conversations; messages it never got (history)
  faults

user == <<given, shell>>
app == <<run, running, env, conversation, minted, file>>
server == <<log, lost>>
vars == <<user, app, memory, history, panel, sends, server, faults>>

Roles == {"user", "assistant"}
Message == [send : SendIds, role : Roles, size : Nat]
Steps == {"idle", "posting", "context", "generating", "replying", "done"}
Closed == [open |-> FALSE, index |-> 0, expanded |-> FALSE]

(* The line the panel marks is one it shows, or the one above them after a
   step down on an empty list (DebugHistoryPanel). *)
TypeOK ==
  /\ run \in 0 .. MaxRuns /\ running \in BOOLEAN /\ minted \in 0 .. Len(Ids)
  /\ memory \in Seq(Message)
  /\ history \in Seq(Seq(Message)) /\ Len(history) <= HistoryLimit
  /\ panel.index >= -1 /\ panel.index <= Max({0, Len(history) - 1})
  /\ \A i \in SendIds : sends[i].step \in Steps /\ sends[i].request \in Seq(Message)
  /\ \A c \in DOMAIN log : log[c] \in Seq(Message)
  /\ lost \subseteq Message
  /\ faults \in 0 .. MaxFaults

Unsent == [step |-> "idle", run |-> 0, conversation |-> NoId, cleared |-> FALSE,
           request |-> <<>>]

Init ==
  /\ \E s \in Setups : file = s.file /\ given = s.file /\ shell = s.shell
  /\ run = 0 /\ running = FALSE /\ env = <<>>
  /\ conversation = NoId /\ minted = 0
  /\ memory = <<>> /\ history = <<>> /\ panel = Closed
  /\ sends = [i \in SendIds |-> Unsent]
  /\ log = <<>> /\ lost = {}
  /\ faults = 0

Fault == faults < MaxFaults /\ faults' = faults + 1
--------------------------------------------------------------------------------
(***************************************************************************)
(* Runs.                                                                   *)
(***************************************************************************)
Fresh == <<Ids[minted + 1]>>

(* loadEnvFile leaves alone what the shell sets. *)
Environment ==
  [key \in DOMAIN file \cup (IF shell = NoId THEN {} ELSE {IdKey}) |->
     IF key = IdKey /\ shell # NoId THEN shell ELSE Loaded(file[key])]

(* main, and the first render: the id is the one of .env, or a new one. *)
Start ==
  /\ ~ running /\ run < MaxRuns
  /\ run' = run + 1 /\ running' = TRUE
  /\ env' = Environment
  /\ IF IdKey \in DOMAIN Environment
       THEN conversation' = Environment[IdKey] /\ UNCHANGED <<minted, file>>
       ELSE /\ minted < Len(Ids)
            /\ conversation' = Fresh /\ minted' = minted + 1
            /\ file' = SetItem(file, IdKey, Fresh)
  /\ UNCHANGED <<user, memory, history, panel, sends, server, faults>>

(* /exit, or the terminal is closed. *)
Ends == running' = FALSE /\ memory' = <<>> /\ history' = <<>> /\ panel' = Closed

Exit ==
  /\ running
  /\ Ends
  /\ UNCHANGED <<user, run, env, conversation, minted, file, sends, server, faults>>
--------------------------------------------------------------------------------
(***************************************************************************)
(* handleSubmit: the input is only there while the panel is not.           *)
(***************************************************************************)
AlwaysThere == running                                             \* mutant
InputIsThere == running /\ ~ panel.open

Forget(i) == [sends[i] EXCEPT !.cleared = @ \/ sends[i].step \in {"posting", "context"}]
Cleared == memory' = <<>> /\ history' = <<>> /\ sends' = [i \in SendIds |-> Forget(i)]

Clear ==
  /\ InputIsThere
  /\ Cleared
  /\ UNCHANGED <<user, app, panel, server, faults>>

(* The effect on the new id clears as well. *)
Reset ==
  /\ InputIsThere /\ minted < Len(Ids)
  /\ conversation' = Fresh /\ minted' = minted + 1
  /\ file' = SetItem(file, IdKey, Fresh)
  /\ Cleared
  /\ UNCHANGED <<user, run, running, env, panel, server, faults>>

Debug ==
  /\ InputIsThere
  /\ panel' = [open |-> TRUE, index |-> Max({0, Len(history) - 1}), expanded |-> FALSE]
  /\ UNCHANGED <<user, app, memory, history, sends, server, faults>>

Question(i) == [send |-> i, role |-> "user", size |-> Sizes[i]]
Answer(i) == [send |-> i, role |-> "assistant", size |-> Sizes[i]]

(* Only whether the input is blank is looked at, never whether a send is under
   way. *)
Send(i) ==
  /\ InputIsThere
  /\ sends[i].step = "idle" /\ \A j \in SendIds : j < i => sends[j].step # "idle"
  /\ memory' = Append(memory, Question(i))
  /\ sends' = [sends EXCEPT ![i] = [Unsent EXCEPT !.step = "posting", !.run = run,
                                                  !.conversation = conversation]]
  /\ UNCHANGED <<user, app, history, panel, server, faults>>
--------------------------------------------------------------------------------
(***************************************************************************)
(* send: with the conversation of the render it was called from.           *)
(***************************************************************************)
Alive(i) == running /\ sends[i].run = run

NowCurrent(i) == conversation                                      \* mutant
PostedTo(i) == sends[i].conversation

LogOf(c) == IF c \in DOMAIN log THEN log[c] ELSE <<>>
Accepted(c, message) ==
  log' = [d \in DOMAIN log \cup {c} |-> IF d = c THEN Append(LogOf(c), message) ELSE log[d]]

(* addMessage is answered, or fails: the result is not looked at.  A request
   that has left may arrive after its process ended. *)
Post(i, step, message, next) ==
  /\ sends[i].step = step
  /\ sends' = [sends EXCEPT ![i].step = next]
  /\ \/ Accepted(PostedTo(i), message) /\ UNCHANGED <<lost, faults>>
     \/ Fault /\ lost' = lost \cup {message} /\ UNCHANGED log
  /\ UNCHANGED <<user, app, memory, history, panel>>

PostQuestion(i) == Post(i, "posting", Question(i), "context")
PostAnswer(i) == Post(i, "replying", Answer(i), "done")

SizeOf(messages) == FoldLeft(LAMBDA sum, m : sum + m.size, 0, messages)
Fits(messages) == SizeOf(messages) <= Budget

(* truncateMessages: from the newest back, up to the first that is too much. *)
KeepOldest(messages) ==                                            \* mutant
  LET fits == {n \in 0 .. Len(messages) : Fits(SubSeq(messages, 1, n))}
  IN  SubSeq(messages, 1, Max(fits))
truncateMessages(messages) ==
  LET fits == {n \in 1 .. Len(messages) + 1 : Fits(SubSeq(messages, n, Len(messages)))}
  IN  SubSeq(messages, Min(fits), Len(messages))

(* contextPreRetrieve has settled, either way; the prompt it goes into is not
   modelled.  The panel gets what is remembered, the model what fits. *)
Ask(i) ==
  /\ Alive(i) /\ sends[i].step = "context"
  /\ LET recorded == <<memory>> \o history
     IN  history' = SubSeq(recorded, 1, Min({HistoryLimit, Len(recorded)}))
  /\ sends' = [sends EXCEPT ![i].step = "generating", ![i].request = truncateMessages(memory)]
  /\ UNCHANGED <<user, app, memory, panel, server, faults>>

Reply(i) ==
  /\ Alive(i) /\ sends[i].step = "generating"
  /\ memory' = Append(memory, Answer(i))
  /\ sends' = [sends EXCEPT ![i].step = "replying"]
  /\ UNCHANGED <<user, app, history, panel, server, faults>>

ReplyIsBlank(i) ==
  /\ Alive(i) /\ sends[i].step = "generating"
  /\ sends' = [sends EXCEPT ![i].step = "done"]
  /\ UNCHANGED <<user, app, memory, history, panel, server, faults>>

(* generateText throws.  trigger swallows the error of a send that is not the
   latest; the latest one's is a rejection nobody handles: the process ends. *)
GenerationFails(i) ==
  /\ Alive(i) /\ sends[i].step = "generating" /\ Fault
  /\ sends' = [sends EXCEPT ![i].step = "done"]
  /\ IF \E j \in SendIds : j > i /\ sends[j].run = run
       THEN UNCHANGED <<running, memory, history, panel>>
       ELSE Ends
  /\ UNCHANGED <<user, run, env, conversation, minted, file, server>>
--------------------------------------------------------------------------------
(***************************************************************************)
(* The keys of the debug panel.                                            *)
(***************************************************************************)
Keys(next) ==
  /\ running /\ panel.open
  /\ panel' = next
  /\ UNCHANGED <<user, app, memory, history, sends, server, faults>>

Escape == Keys(Closed)
Up == ~ panel.expanded /\ Keys([panel EXCEPT !.index = Max({0, @ - 1})])
Down == ~ panel.expanded /\ Keys([panel EXCEPT !.index = Min({Len(history) - 1, @ + 1})])
Return ==
  IF panel.expanded THEN Keys([panel EXCEPT !.expanded = FALSE])
                    ELSE history # <<>> /\ Keys([panel EXCEPT !.expanded = TRUE])
--------------------------------------------------------------------------------
Next ==
  \/ Start \/ Exit
  \/ Clear \/ Reset \/ Debug
  \/ \E i \in SendIds :
       \/ Send(i) \/ PostQuestion(i) \/ Ask(i)
       \/ Reply(i) \/ ReplyIsBlank(i) \/ GenerationFails(i) \/ PostAnswer(i)
  \/ Escape \/ Up \/ Down \/ Return

Spec == Init /\ [][Next]_vars
--------------------------------------------------------------------------------
(***************************************************************************)
(* Properties.                                                             *)
(***************************************************************************)
(* In every conversation of the server a reply comes after the question it
   answers, unless that question was lost: neither a reset in between nor
   overlapping sends mix conversations up (pushMessage). *)
RepliesFollowQuestions ==
  \A c \in DOMAIN log : \A n \in DOMAIN log[c] :
    LET i == log[c][n].send IN
    log[c][n].role = "assistant" =>
      \/ \E m \in 1 .. n - 1 : log[c][m] = Question(i)
      \/ Question(i) \in lost

(* A request fits the budget and has the question it was made for, unless the
   memory was cleared since it was asked or newer messages leave it no room
   (truncateMessages, send). *)
RequestHasItsQuestion ==
  [][\A i \in SendIds :
       sends[i].step = "context" /\ sends'[i].step = "generating" =>
         /\ Fits(sends'[i].request)
         /\ \/ Question(i) \in Range(sends'[i].request)
            \/ sends[i].cleared
            \/ \E n \in DOMAIN memory :
                 /\ memory[n] = Question(i)
                 /\ ~ Fits(SubSeq(memory, n, Len(memory)))]_vars

(* A run begins with the conversation the one before it ended with, unless the
   shell says otherwise, whatever else .env holds.  A setting that parse reads
   no quote in keeps its value as well, or, where parse and Node read the user's
   text differently (a comment behind it, a quote left open), goes over from the
   one reading to the other when .env has been rewritten, and never back
   (dotenvStorage, useConversationId). *)
SettingsSurvive ==
  [][~ running /\ running' /\ run > 0 =>
       /\ conversation' = IF shell = NoId THEN conversation ELSE shell
       /\ \A key \in DOMAIN env \ {IdKey} : Quote \notin Range(Parsed(given[key])) =>
            \/ env'[key] = env[key]
            \/ env[key] = Loaded(given[key]) /\ env'[key] = Parsed(given[key])]_vars
================================================================================
