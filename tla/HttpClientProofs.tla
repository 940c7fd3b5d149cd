---------------------------- MODULE HttpClientProofs ----------------------------
(***************************************************************************)
(* Proofs about HttpClient, for any workloads, configurations and          *)
(* interceptors, and any number of changes and failures; at the end about  *)
(* the queries that RequestUrl writes, of any length, styles and texts.    *)
(***************************************************************************)
EXTENDS HttpClient, SequenceLemmas

CallFields == {"step", "options", "answers", "headers", "baseUrl", "todo", "local", "loop", "sent",
               "response", "error", "outcome", "made", "tokens"}

ConfigOK == DOMAIN config = {"baseUrl", "headers"} /\ DOMAIN config.headers = HeaderNames
ArraysOK ==
  /\ arrays \in Seq(Array)
  /\ DOMAIN fns = Kinds
  /\ \A k \in Kinds : fns[k] \in DOMAIN arrays /\ arrays[fns[k]].kind = k
BoundsOK == edits \in 0 .. MaxEdits /\ throws \in 0 .. MaxThrows

(* What TypeOK says of a call, and what its answers are. *)
CallOK(call) ==
  /\ DOMAIN call = CallFields
  /\ call.step \in Steps
  /\ call.answers \subseteq Answers
  /\ call.step # "idle" => DOMAIN call.headers = HeaderNames
  /\ call.step = "settled" <=> call.outcome # <<>>

LoopOK(call) ==
  /\ call.loop.list \in {0} \cup DOMAIN arrays
  /\ call.loop.list # 0 => arrays[call.loop.list].kind = call.step

(* What OutcomeIsTruthful says of a settled call, and where its parts come
   from: there is no response before fetch has answered and there is one to be
   read after it, errors are only handled after a failure, and only streams get
   by without a response. *)
Failed(call) == call.response = <<>> \/ ~ call.response.ok

Truthful(call) ==
  CASE call.outcome.as = "resolved" /\ ~ Failed(call) ->
         call.outcome.data # "undefined" /\ call.outcome.error = "undefined"
    [] call.outcome.as = "resolved" /\ Failed(call) ->
         /\ ~ call.options.throwOnError
         /\ call.outcome.data = "undefined"
         /\ call.options.responseStyle = "fields" => call.outcome.error \notin {"undefined", "falsy"}
    [] call.outcome.as = "rejected" ->
         \/ call.outcome.error \in {"callback", "malformed", "nested"}
         \/ Failed(call) /\ call.options.throwOnError /\ call.outcome.error # "falsy"

Honest(call) ==
  /\ call.step \in {"idle", "auth", "token", "request", "fetch", "stream"} => call.response = <<>>
  /\ call.step \in {"response", "read"} => call.response \in Answers
  /\ call.step = "error" => Failed(call) /\ call.error # "undefined"
  /\ call.step = "stream" => call.options.via = "sse"
  /\ call.step = "settled" /\ call.options.via = "request" => Truthful(call)

Sound(call) == CallOK(call) /\ LoopOK(call) /\ Honest(call)

HInv ==
  /\ ConfigOK /\ DOMAIN queries = DOMAIN Queries /\ ArraysOK /\ BoundsOK
  /\ \A c \in Calls : Sound(calls[c])

LEMMA Bounds ==
  /\ \A k \in Kinds : Installed[k] \in Seq(1 .. MaxInstalled) /\ IsInjective(Installed[k])
  /\ MaxInstalled \in Nat
  /\ \A w \in Workloads : \A c \in DOMAIN w : w[c].answers \subseteq Answers
  /\ MaxEdits \in Nat /\ MaxThrows \in Nat
BY HttpClientAssumption

LEMMA HInvIs == HInv => TypeOK /\ OutcomeIsTruthful
<1>1. HInv => TypeOK
  BY DEF HInv, Sound, TypeOK, ConfigOK, ArraysOK, BoundsOK, CallOK, LoopOK
<1>2. HInv => OutcomeIsTruthful
  BY DEF HInv, Sound, Honest, Truthful, Failed, OutcomeIsTruthful, At
<1> QED BY <1>1, <1>2
--------------------------------------------------------------------------------
(***************************************************************************)
(* A step of one call.                                                     *)
(***************************************************************************)
LEMMA BecomesIs ==
  ASSUME NEW c \in Calls, DOMAIN calls[c] = CallFields, NEW fields, DOMAIN fields \subseteq CallFields,
         Becomes(c, fields)
  PROVE  /\ Calls' = Calls
         /\ \A d \in Calls : d # c => calls'[d] = calls[d]
         /\ DOMAIN calls'[c] = CallFields
         /\ \A f \in CallFields : calls'[c][f] = IF f \in DOMAIN fields THEN fields[f] ELSE calls[c][f]
BY DEF Becomes, With, Calls

(* Outside of the loops no array of interceptors is taken. *)
LEMMA NoList ==
  ASSUME ArraysOK, NEW call, LoopOK(call), call.step \notin Kinds
  PROVE  call.loop.list = 0
<1> SUFFICES ASSUME call.loop.list # 0 PROVE FALSE
  OBVIOUS
<1>1. call.loop.list \in DOMAIN arrays /\ arrays[call.loop.list].kind = call.step
  BY DEF LoopOK
<1>2. arrays[call.loop.list] \in Array
  BY <1>1 DEF ArraysOK
<1> QED BY <1>1, <1>2 DEF Array

LEMMA OutcomeIs ==
  ASSUME NEW as, NEW data, NEW error
  PROVE  [as |-> as, data |-> data, error |-> error] # <<>>
<1>1. "as" \in DOMAIN [as |-> as, data |-> data, error |-> error]
  OBVIOUS
<1>2. DOMAIN <<>> = {}
  OBVIOUS
<1> QED BY <1>1, <1>2, Zenon

LEMMA SettleIs ==
  ASSUME NEW c \in Calls, DOMAIN calls[c] = CallFields, NEW outcome, Settle(c, outcome)
  PROVE  /\ Calls' = Calls
         /\ \A d \in Calls : d # c => calls'[d] = calls[d]
         /\ DOMAIN calls'[c] = CallFields
         /\ calls'[c].step = "settled" /\ calls'[c].outcome = outcome /\ calls'[c].loop = NoLoop
         /\ \A f \in CallFields \ {"step", "outcome", "loop"} : calls'[c][f] = calls[c][f]
<1> DEFINE fields == [step |-> "settled", outcome |-> outcome, loop |-> NoLoop]
<1>1. DOMAIN fields = {"step", "outcome", "loop"}
  OBVIOUS
<1>2. DOMAIN fields \subseteq CallFields
  BY <1>1 DEF CallFields
<1>3. fields["step"] = "settled" /\ fields["outcome"] = outcome /\ fields["loop"] = NoLoop
  OBVIOUS
<1>4. Becomes(c, fields)
  BY DEF Settle
<1> HIDE DEF fields
<1>5. /\ Calls' = Calls /\ \A d \in Calls : d # c => calls'[d] = calls[d]
      /\ DOMAIN calls'[c] = CallFields
      /\ \A f \in CallFields : calls'[c][f] = IF f \in DOMAIN fields THEN fields[f] ELSE calls[c][f]
  BY <1>2, <1>4, BecomesIs
<1> QED BY <1>1, <1>3, <1>5 DEF CallFields

(* The calls but c stay as they are, and c keeps its fields but those. *)
OnlyOf(c, changed) ==
  /\ Calls' = Calls
  /\ \A d \in Calls : d # c => calls'[d] = calls[d]
  /\ DOMAIN calls'[c] = CallFields
  /\ \A f \in CallFields \ changed : calls'[c][f] = calls[c][f]

(* What a step of a call does to its loop. *)
Turns(c) ==
  \/ calls'[c].loop \in {calls[c].loop, NoLoop}
  \/ InLoop(c) /\ Ahead(c) # {} /\ calls'[c].loop = Advanced(c)

(* The call lands in a state that is sound again. *)
Lands(c) ==
  /\ Calls' = Calls
  /\ \A d \in Calls : d # c => calls'[d] = calls[d]
  /\ Sound(calls'[c]) /\ Turns(c)

(* A call that goes to another step outside of the loops, or before one. *)
LEMMA GoesOn ==
  ASSUME ArraysOK, NEW c \in Calls, Sound(calls[c]), calls[c].step \notin Kinds,
         NEW changed, OnlyOf(c, changed),
         {"loop", "outcome", "answers", "options"} \cap changed = {},
         calls[c].step # "settled", calls'[c].step \in Steps \ {"idle", "settled"},
         DOMAIN calls'[c].headers = HeaderNames,
         Honest(calls'[c])
  PROVE  Lands(c)
<1>1. calls[c].loop.list = 0
  BY NoList DEF Sound
<1>2. calls'[c].loop = calls[c].loop /\ calls'[c].outcome = calls[c].outcome
      /\ calls'[c].answers = calls[c].answers
  BY DEF OnlyOf, CallFields
<1>3. calls[c].outcome = <<>>
  BY DEF Sound, CallOK
<1>4. CallOK(calls'[c])
  BY <1>2, <1>3 DEF OnlyOf, Sound, CallOK
<1>5. LoopOK(calls'[c])
  BY <1>1, <1>2 DEF LoopOK
<1>6. Turns(c)
  BY <1>2 DEF Turns
<1> QED BY <1>4, <1>5, <1>6 DEF Lands, Sound, OnlyOf

(* A call that is over. *)
LEMMA Settles ==
  ASSUME NEW c \in Calls, Sound(calls[c]), calls[c].step \notin {"idle", "settled"},
         NEW as, NEW data, NEW error, Settle(c, [as |-> as, data |-> data, error |-> error]),
         calls[c].options.via = "request" =>
           \/ as = "rejected" /\ error \in {"callback", "malformed", "nested"}
           \/ /\ as = "rejected" /\ Failed(calls[c]) /\ calls[c].options.throwOnError
              /\ error # "falsy"
           \/ /\ as = "resolved" /\ ~ Failed(calls[c])
              /\ data # "undefined" /\ error = "undefined"
           \/ /\ as = "resolved" /\ Failed(calls[c]) /\ ~ calls[c].options.throwOnError
              /\ data = "undefined"
              /\ calls[c].options.responseStyle = "fields" => error \notin {"undefined", "falsy"}
  PROVE  Lands(c)
<1> DEFINE outcome == [as |-> as, data |-> data, error |-> error]
<1>1. outcome.as = as /\ outcome.data = data /\ outcome.error = error /\ outcome # <<>>
  BY OutcomeIs
<1>2. Settle(c, outcome) /\ DOMAIN calls[c] = CallFields
  BY DEF Sound, CallOK
<1> HIDE DEF outcome
<1>3. /\ Calls' = Calls
      /\ \A d \in Calls : d # c => calls'[d] = calls[d]
      /\ DOMAIN calls'[c] = CallFields
      /\ calls'[c].step = "settled" /\ calls'[c].outcome = outcome /\ calls'[c].loop = NoLoop
      /\ \A f \in CallFields \ {"step", "outcome", "loop"} : calls'[c][f] = calls[c][f]
  BY <1>2, SettleIs
<1>4. /\ calls'[c].response = calls[c].response /\ calls'[c].options = calls[c].options
      /\ calls'[c].answers = calls[c].answers /\ calls'[c].headers = calls[c].headers
  BY <1>3 DEF CallFields
<1>5. CallOK(calls'[c])
  BY <1>1, <1>3, <1>4 DEF Sound, CallOK, Steps
<1>6. LoopOK(calls'[c])
  <2>1. NoLoop.list = 0
    BY DEF NoLoop
  <2> QED BY <1>3, <2>1 DEF LoopOK
<1>7. calls[c].options.via = "request" => Truthful(calls'[c])
  <2>1. Failed(calls'[c]) = Failed(calls[c])
    BY <1>4 DEF Failed
  <2> QED BY <1>1, <1>3, <1>4, <2>1 DEF Truthful
<1>8. Honest(calls'[c])
  BY <1>3, <1>4, <1>7 DEF Sound, Honest
<1>9. Turns(c)
  BY <1>3 DEF Turns
<1> QED BY <1>3, <1>5, <1>6, <1>8, <1>9 DEF Lands, Sound
--------------------------------------------------------------------------------
(***************************************************************************)
(* beforeRequest.                                                          *)
(***************************************************************************)
LEMMA BeforeRequestLands ==
  ASSUME ArraysOK, NEW c \in Calls, Sound(calls[c]), beforeRequest(c)
  PROVE  Lands(c)
<1> DEFINE options == calls[c].options
           headers == mergeHeaders(config.headers, SdkHeaders(options))
           fields == [step |-> "auth", todo |-> options.security, headers |-> headers,
                      baseUrl |-> config.baseUrl, made |-> config]
           changed == {"step", "todo", "headers", "baseUrl", "made"}
<1>1. Becomes(c, fields) /\ calls[c].step = "idle" /\ DOMAIN calls[c] = CallFields
  BY DEF beforeRequest, At, Sound, CallOK
<1>2. DOMAIN headers = HeaderNames
  BY DEF mergeHeaders
<1> HIDE DEF headers
<1>3. DOMAIN fields \subseteq CallFields
  BY DEF CallFields
<1>4. /\ OnlyOf(c, changed)
      /\ calls'[c].step = "auth" /\ DOMAIN calls'[c].headers = HeaderNames
  BY <1>1, <1>2, <1>3, BecomesIs DEF OnlyOf, CallFields
<1>5. Honest(calls'[c])
  BY <1>1, <1>4 DEF OnlyOf, CallFields, Sound, Honest
<1> QED BY <1>1, <1>4, <1>5, GoesOn DEF Kinds, Steps

LEMMA SetAuthParamsLands ==
  ASSUME ArraysOK, NEW c \in Calls, Sound(calls[c]),
         setAuthParamsSkips(c) \/ setAuthParamsAwaits(c) \/ setAuthParams(c)
  PROVE  Lands(c)
<1> DEFINE call == calls[c]
           changed == {"step", "todo", "headers", "local", "tokens"}
<1>1. /\ call.step \in {"auth", "token"} /\ DOMAIN call = CallFields
      /\ DOMAIN call.headers = HeaderNames /\ call.response = <<>>
  BY DEF setAuthParamsSkips, setAuthParamsAwaits, setAuthParams, At, Sound, CallOK, Honest
<1>2. /\ OnlyOf(c, changed) /\ DOMAIN calls'[c].headers = HeaderNames
      /\ calls'[c].step \in {"auth", "token"}
  <2>1. CASE setAuthParamsSkips(c)
    <3>1. DOMAIN [todo |-> Tail(call.todo)] \subseteq CallFields
      BY DEF CallFields
    <3>2. Becomes(c, [todo |-> Tail(call.todo)])
      BY <2>1 DEF setAuthParamsSkips
    <3> QED BY <1>1, <3>1, <3>2, BecomesIs DEF OnlyOf, CallFields
  <2>2. CASE setAuthParamsAwaits(c)
    <3>1. DOMAIN [step |-> "token"] \subseteq CallFields
      BY DEF CallFields
    <3>2. Becomes(c, [step |-> "token"])
      BY <2>2 DEF setAuthParamsAwaits
    <3> QED BY <1>1, <3>1, <3>2, BecomesIs DEF OnlyOf, CallFields
  <2>3. ASSUME Becomes(c, [step |-> "auth", todo |-> Tail(call.todo)])
        PROVE  /\ OnlyOf(c, changed) /\ DOMAIN calls'[c].headers = HeaderNames
               /\ calls'[c].step = "auth"
    <3>1. DOMAIN [step |-> "auth", todo |-> Tail(call.todo)] \subseteq CallFields
      BY DEF CallFields
    <3> QED BY <1>1, <2>3, <3>1, BecomesIs DEF OnlyOf, CallFields
  <2>4. ASSUME NEW headers, DOMAIN headers = HeaderNames, NEW local, NEW token,
               Becomes(c, [step |-> "auth", todo |-> Tail(call.todo), headers |-> headers,
                           local |-> local, tokens |-> token])
        PROVE  /\ OnlyOf(c, changed) /\ DOMAIN calls'[c].headers = HeaderNames
               /\ calls'[c].step = "auth"
    <3>1. DOMAIN [step |-> "auth", todo |-> Tail(call.todo), headers |-> headers, local |-> local,
                  tokens |-> token] \subseteq CallFields
      BY DEF CallFields
    <3> QED BY <1>1, <2>4, <3>1, BecomesIs DEF OnlyOf, CallFields
  <2>5. CASE setAuthParams(c)
    <3> DEFINE scheme == Head(call.todo)
               Gets(headers, local, token) ==
                 Becomes(c, [step |-> "auth", todo |-> Tail(call.todo), headers |-> headers,
                             local |-> local,
                             tokens |-> [call.tokens EXCEPT ![scheme.in] =
                                           Append(@, <<scheme, token>>)]])
    <3>1. \/ Becomes(c, [step |-> "auth", todo |-> Tail(call.todo)])
          \/ \E token \in Tokens :
               \/ Gets(call.headers, call.local, token)
               \/ Gets(call.headers, call.local \cup {NameOf(scheme)}, token)
               \/ Gets([call.headers EXCEPT !["Cookie"] = Append(@, <<NameOf(scheme), token>>)],
                       call.local, token)
               \/ Gets([call.headers EXCEPT ![NameOf(scheme)] = <<<<scheme.scheme, token>>>>],
                       call.local, token)
      BY <2>5, Zenon DEF setAuthParams
    <3>2. /\ \A name, value : DOMAIN [call.headers EXCEPT ![name] = value] = HeaderNames
          /\ \A token, name : DOMAIN [call.headers EXCEPT !["Cookie"] = Append(@, <<name, token>>)]
                               = HeaderNames
      BY <1>1
    <3>3. ASSUME NEW token \in Tokens, NEW headers, DOMAIN headers = HeaderNames, NEW local,
                 Gets(headers, local, token)
          PROVE  /\ OnlyOf(c, changed) /\ DOMAIN calls'[c].headers = HeaderNames
                 /\ calls'[c].step = "auth"
      BY <2>4, <3>3
    <3> HIDE DEF Gets
    <3> QED BY <1>1, <2>3, <3>1, <3>2, <3>3
  <2> QED BY <2>1, <2>2, <2>5
<1>3. calls'[c].response = call.response /\ calls'[c].options = call.options
  BY <1>1, <1>2 DEF OnlyOf, CallFields
<1>4. Honest(calls'[c])
  BY <1>1, <1>2, <1>3 DEF Honest
<1> QED BY <1>1, <1>2, <1>4, GoesOn DEF Kinds, Steps

LEMMA BuildRequestLands ==
  ASSUME ArraysOK, NEW c \in Calls, Sound(calls[c]), BuildRequest(c) \/ BeforeRequestThrows(c)
  PROVE  Lands(c)
<1> DEFINE call == calls[c]
<1>1. /\ call.step \in {"auth", "token"} /\ DOMAIN call = CallFields
      /\ DOMAIN call.headers = HeaderNames /\ call.response = <<>>
  BY DEF BuildRequest, BeforeRequestThrows, At, Sound, CallOK, Honest
<1>2. CASE Settle(c, Rejected("nested")) \/ Settle(c, Rejected("callback"))
  BY <1>1, <1>2, Settles DEF Rejected
<1>3. ASSUME NEW sent, Becomes(c, [step |-> "request", sent |-> sent])
      PROVE  Lands(c)
  <2>1. DOMAIN [step |-> "request", sent |-> sent] \subseteq CallFields
    BY DEF CallFields
  <2>2. OnlyOf(c, {"step", "sent"}) /\ calls'[c].step = "request"
    BY <1>1, <1>3, <2>1, BecomesIs DEF OnlyOf, CallFields
  <2>3. /\ calls'[c].response = call.response /\ calls'[c].headers = call.headers
    BY <2>2 DEF OnlyOf, CallFields
  <2>4. Honest(calls'[c])
    BY <1>1, <2>2, <2>3 DEF Honest
  <2> QED BY <1>1, <2>2, <2>3, <2>4, GoesOn DEF Kinds, Steps
<1>4. CASE BuildRequest(c)
  <2>1. \/ Settle(c, Rejected("nested"))
        \/ \E sent : Becomes(c, [step |-> "request", sent |-> sent])
    BY <1>4, Zenon DEF BuildRequest
  <2> QED BY <1>2, <1>3, <2>1
<1>5. CASE BeforeRequestThrows(c)
  BY <1>2, <1>5 DEF BeforeRequestThrows
<1> QED BY <1>4, <1>5
--------------------------------------------------------------------------------
(***************************************************************************)
(* The loops over interceptors.                                            *)
(***************************************************************************)
(* The array that is walked is one of the loop's kind. *)
LEMMA Walking ==
  ASSUME ArraysOK, NEW c \in Calls, Sound(calls[c]), InLoop(c)
  PROVE  ListOf(c) \in DOMAIN arrays /\ arrays[ListOf(c)].kind = calls[c].step
BY DEF ArraysOK, Sound, LoopOK, InLoop, ListOf

(* One interceptor has run: the loop goes on, the answer may be a substitute. *)
LEMMA Advances ==
  ASSUME ArraysOK, NEW c \in Calls, Sound(calls[c]), InLoop(c),
         OnlyOf(c, {"loop", "response", "error"}),
         Ahead(c) # {}, calls'[c].loop = Advanced(c),
         \/ calls'[c].response = calls[c].response
         \/ calls[c].step = "response" /\ calls'[c].response \in calls[c].answers,
         calls[c].step = "error" => calls'[c].error # "undefined"
  PROVE  Lands(c)
<1>1. /\ calls'[c].step = calls[c].step /\ calls'[c].outcome = calls[c].outcome
      /\ calls'[c].answers = calls[c].answers /\ calls'[c].headers = calls[c].headers
      /\ calls'[c].options = calls[c].options /\ DOMAIN calls'[c] = CallFields
  BY DEF OnlyOf, CallFields
<1>2. CallOK(calls'[c])
  BY <1>1 DEF Sound, CallOK
<1>3. LoopOK(calls'[c])
  <2>1. Advanced(c).list = ListOf(c)
    BY DEF Advanced
  <2> QED BY <1>1, <2>1, Walking DEF LoopOK
<1>4. calls[c].step \in Kinds /\ calls[c].answers \subseteq Answers
  BY DEF InLoop, Sound, CallOK
<1>5. Honest(calls'[c])
  <2>1. CASE calls'[c].response = calls[c].response
    <3>1. Failed(calls[c]) => Failed(calls'[c])
      BY <2>1 DEF Failed
    <3> QED BY <1>1, <1>4, <2>1, <3>1 DEF Sound, Honest, Kinds
  <2>2. CASE calls[c].step = "response" /\ calls'[c].response \in calls[c].answers
    <3>1. calls'[c].response \in Answers
      BY <1>4, <2>2
    <3> QED BY <1>1, <2>2, <3>1 DEF Honest
  <2> QED BY <2>1, <2>2
<1>6. Turns(c)
  BY DEF Turns
<1> QED BY <1>2, <1>3, <1>5, <1>6 DEF Lands, Sound, OnlyOf

LEMMA RunInterceptorLands ==
  ASSUME ArraysOK, NEW c \in Calls, Sound(calls[c]), RunInterceptor(c)
  PROVE  Lands(c)
<1> DEFINE loop == Advanced(c)
<1>1. loop = Advanced(c)
  OBVIOUS
<1>2. InLoop(c) /\ Ahead(c) # {} /\ DOMAIN calls[c] = CallFields
  BY DEF RunInterceptor, Sound, CallOK
<1> HIDE DEF loop
<1>3. \/ At(c, "request") /\ Becomes(c, [loop |-> loop])
      \/ /\ At(c, "response")
         /\ \E r \in {calls[c].response} \cup {s \in calls[c].answers : s.substitute} :
              Becomes(c, [loop |-> loop, response |-> r])
      \/ /\ At(c, "error")
         /\ \E error \in {"mapped", "falsy"} : Becomes(c, [loop |-> loop, error |-> error])
  BY DEF RunInterceptor, loop
<1>4. CASE At(c, "request") /\ Becomes(c, [loop |-> loop])
  <2>1. DOMAIN [loop |-> loop] \subseteq CallFields
    BY DEF CallFields
  <2>2. /\ OnlyOf(c, {"loop", "response", "error"}) /\ calls'[c].loop = loop
        /\ calls'[c].response = calls[c].response
    BY <1>2, <1>4, <2>1, BecomesIs DEF OnlyOf, CallFields
  <2>3. calls[c].step # "error"
    BY <1>4 DEF At
  <2> QED BY <1>1, <1>2, <2>2, <2>3, Advances
<1>5. ASSUME At(c, "response"), NEW r \in {calls[c].response} \cup calls[c].answers,
             Becomes(c, [loop |-> loop, response |-> r])
      PROVE  Lands(c)
  <2>1. DOMAIN [loop |-> loop, response |-> r] \subseteq CallFields
    BY DEF CallFields
  <2>2. /\ OnlyOf(c, {"loop", "response", "error"}) /\ calls'[c].loop = loop
        /\ calls'[c].response = r
    BY <1>2, <1>5, <2>1, BecomesIs DEF OnlyOf, CallFields
  <2>3. calls[c].step = "response"
    BY <1>5 DEF At
  <2> QED BY <1>1, <1>2, <1>5, <2>2, <2>3, Advances
<1>6. ASSUME At(c, "error"), NEW error \in {"mapped", "falsy"},
             Becomes(c, [loop |-> loop, error |-> error])
      PROVE  Lands(c)
  <2>1. DOMAIN [loop |-> loop, error |-> error] \subseteq CallFields
    BY DEF CallFields
  <2>2. /\ OnlyOf(c, {"loop", "response", "error"}) /\ calls'[c].loop = loop
        /\ calls'[c].response = calls[c].response /\ calls'[c].error # "undefined"
    BY <1>2, <1>6, <2>1, BecomesIs DEF OnlyOf, CallFields
  <2> QED BY <1>1, <1>2, <2>2, Advances
<1> QED BY <1>3, <1>4, <1>5, <1>6

(* The array is let go when a loop is over. *)
LEMMA Leaves ==
  ASSUME NEW c \in Calls, Sound(calls[c]), calls[c].step \in Kinds,
         NEW step \in {"fetch", "stream", "read"}, Becomes(c, LeavesLoop(step)),
         step = "stream" => calls[c].options.via = "sse",
         step = "read" => calls[c].response \in Answers,
         step # "read" => calls[c].step = "request"
  PROVE  Lands(c)
<1> DEFINE fields == [step |-> step, loop |-> NoLoop]
<1>1. Becomes(c, fields) /\ DOMAIN calls[c] = CallFields
  BY DEF LeavesLoop, Sound, CallOK
<1>2. DOMAIN fields \subseteq CallFields
  BY DEF CallFields
<1>3. OnlyOf(c, {"step", "loop"}) /\ calls'[c].step = step /\ calls'[c].loop = NoLoop
  BY <1>1, <1>2, BecomesIs DEF OnlyOf, CallFields
<1>4. /\ calls'[c].outcome = calls[c].outcome /\ calls'[c].response = calls[c].response
      /\ calls'[c].answers = calls[c].answers /\ calls'[c].headers = calls[c].headers
      /\ calls'[c].options = calls[c].options /\ DOMAIN calls'[c] = CallFields
  BY <1>3 DEF OnlyOf, CallFields
<1>5. CallOK(calls'[c])
  BY <1>3, <1>4 DEF Sound, CallOK, Kinds, Steps
<1>6. LoopOK(calls'[c])
  <2>1. NoLoop.list = 0
    BY DEF NoLoop
  <2> QED BY <1>3, <2>1 DEF LoopOK
<1>7. Honest(calls'[c])
  BY <1>3, <1>4 DEF Sound, Honest
<1>8. Turns(c)
  BY <1>3 DEF Turns
<1> QED BY <1>3, <1>5, <1>6, <1>7, <1>8 DEF Lands, Sound, OnlyOf

LEMMA InterceptorThrowsLands ==
  ASSUME NEW c \in Calls, Sound(calls[c]), InterceptorThrows(c)
  PROVE  Lands(c)
<1>1. calls[c].step \in Kinds /\ calls[c].step \notin {"idle", "settled"}
  BY DEF InterceptorThrows, InLoop, Kinds
<1>2. CASE At(c, "request") /\ calls[c].options.via = "sse"
  <2>1. Becomes(c, LeavesLoop("stream")) /\ calls[c].step = "request"
    BY <1>2 DEF InterceptorThrows, LeavesLoop, At
  <2> QED BY <1>1, <1>2, <2>1, Leaves
<1>3. CASE ~ (At(c, "request") /\ calls[c].options.via = "sse")
  <2>1. Settle(c, Rejected("callback"))
    BY <1>3, Zenon DEF InterceptorThrows
  <2> QED BY <1>1, <2>1, Settles DEF Rejected
<1> QED BY <1>2, <1>3

LEMMA LoopIsOverLands ==
  ASSUME NEW c \in Calls, Sound(calls[c]), RequestIsReady(c) \/ ResponseIsReady(c) \/ ErrorIsReady(c)
  PROVE  Lands(c)
<1>1. CASE RequestIsReady(c)
  <2>1. PICK step \in {"stream", "fetch"} :
          /\ Becomes(c, LeavesLoop(step))
          /\ step = "stream" => calls[c].options.via = "sse"
    BY <1>1 DEF RequestIsReady
  <2>2. calls[c].step = "request"
    BY <1>1 DEF RequestIsReady, LoopIsOver, At
  <2> QED BY <2>1, <2>2, Leaves DEF Kinds, Steps
<1>2. CASE ResponseIsReady(c)
  <2>1. Becomes(c, LeavesLoop("read")) /\ calls[c].step = "response"
    BY <1>2 DEF ResponseIsReady, LoopIsOver, At
  <2>2. calls[c].response \in Answers
    BY <2>1 DEF Sound, Honest
  <2> QED BY <2>1, <2>2, Leaves DEF Kinds, Steps
<1>3. CASE ErrorIsReady(c)
  <2> DEFINE options == calls[c].options
             error == FinalError(calls[c].error)
  <2>1. /\ calls[c].step = "error" /\ Failed(calls[c]) /\ calls[c].error # "undefined"
    BY <1>3 DEF ErrorIsReady, LoopIsOver, At, Sound, Honest
  <2>2. error \notin {"undefined", "falsy"}
    BY <2>1 DEF FinalError
  <2> HIDE DEF error
  <2>3. CASE options.throwOnError
    <3>1. Settle(c, Rejected(error))
      BY <1>3, <2>3 DEF ErrorIsReady, error
    <3> QED BY <2>1, <2>2, <2>3, <3>1, Settles DEF Rejected
  <2>4. CASE ~ options.throwOnError
    <3>1. PICK e : /\ Settle(c, [as |-> "resolved", data |-> "undefined", error |-> e])
                   /\ options.responseStyle = "fields" => e = error
      BY <1>3, <2>4 DEF ErrorIsReady, error
    <3> QED BY <2>1, <2>2, <2>4, <3>1, Settles
  <2> QED BY <2>3, <2>4
<1> QED BY <1>1, <1>2, <1>3
--------------------------------------------------------------------------------
(***************************************************************************)
(* fetch, and the body of the answer.                                      *)
(***************************************************************************)
LEMMA FetchLands ==
  ASSUME ArraysOK, NEW c \in Calls, Sound(calls[c]), FetchAnswers(c) \/ FetchFails(c)
  PROVE  Lands(c)
<1>1. /\ calls[c].step = "fetch" /\ DOMAIN calls[c] = CallFields
      /\ DOMAIN calls[c].headers = HeaderNames /\ calls[c].answers \subseteq Answers
      /\ calls[c].response = <<>>
  BY DEF FetchAnswers, FetchFails, At, Sound, CallOK, Honest
<1>2. CASE FetchAnswers(c)
  <2>1. PICK r \in calls[c].answers : Becomes(c, [step |-> "response", response |-> r])
    BY <1>2 DEF FetchAnswers
  <2>2. DOMAIN [step |-> "response", response |-> r] \subseteq CallFields
    BY DEF CallFields
  <2>3. /\ OnlyOf(c, {"step", "response"})
        /\ calls'[c].step = "response" /\ calls'[c].response = r
    BY <1>1, <2>1, <2>2, BecomesIs DEF OnlyOf, CallFields
  <2>4. Honest(calls'[c])
    BY <1>1, <2>1, <2>3 DEF Honest
  <2>5. calls'[c].headers = calls[c].headers
    BY <2>3 DEF OnlyOf, CallFields
  <2> QED BY <1>1, <2>3, <2>4, <2>5, GoesOn DEF Kinds, Steps
<1>3. CASE FetchFails(c)
  <2>1. Becomes(c, [step |-> "error", error |-> "network"])
    BY <1>3 DEF FetchFails
  <2>2. DOMAIN [step |-> "error", error |-> "network"] \subseteq CallFields
    BY DEF CallFields
  <2>3. /\ OnlyOf(c, {"step", "error"})
        /\ calls'[c].step = "error" /\ calls'[c].error = "network"
    BY <1>1, <2>1, <2>2, BecomesIs DEF OnlyOf, CallFields
  <2>4. calls'[c].headers = calls[c].headers /\ calls'[c].response = calls[c].response
    BY <2>3 DEF OnlyOf, CallFields
  <2>5. Honest(calls'[c])
    BY <1>1, <2>3, <2>4 DEF Honest, Failed
  <2> QED BY <1>1, <2>3, <2>4, <2>5, GoesOn DEF Kinds, Steps
<1> QED BY <1>2, <1>3

(* The end of a call: data, or an error that the error interceptors see. *)
LEMMA ReadLands ==
  ASSUME ArraysOK, NEW c \in Calls, Sound(calls[c]), ReadData(c) \/ ReadThrows(c) \/ ReadError(c)
  PROVE  Lands(c)
<1>1. /\ calls[c].step = "read" /\ DOMAIN calls[c] = CallFields
      /\ DOMAIN calls[c].headers = HeaderNames /\ calls[c].response \in Answers
  BY DEF ReadData, ReadThrows, ReadError, At, Sound, CallOK, Honest
<1>2. calls[c].response # <<>>
  <2>1. "ok" \in DOMAIN calls[c].response
    BY <1>1 DEF Answers
  <2>2. DOMAIN <<>> = {}
    OBVIOUS
  <2> QED BY <2>1, <2>2, Zenon
<1>3. CASE ReadData(c)
  <2>1. CASE Settle(c, Rejected("malformed"))
    BY <1>1, <2>1, Settles DEF Rejected
  <2>2. CASE Settle(c, [as |-> "resolved", data |-> Data(c), error |-> "undefined"])
    <3>1. Data(c) # "undefined"
      BY DEF Data, ParseAs
    <3>2. ~ Failed(calls[c])
      BY <1>2, <1>3 DEF ReadData, Failed
    <3> QED BY <1>1, <2>2, <3>1, <3>2, Settles
  <2> QED BY <1>3, <2>1, <2>2 DEF ReadData
<1>4. CASE ReadThrows(c)
  <2>1. Settle(c, Rejected("callback"))
    BY <1>4 DEF ReadThrows
  <2> QED BY <1>1, <2>1, Settles DEF Rejected
<1>5. CASE ReadError(c)
  <2> DEFINE error == IF calls[c].response.body = "" THEN "falsy" ELSE calls[c].response.body
             fields == [step |-> "error", error |-> error]
  <2>1. Becomes(c, fields) /\ ~ calls[c].response.ok
    BY <1>5 DEF ReadError
  <2>2. error # "undefined"
    BY <1>1 DEF Answers
  <2> HIDE DEF error
  <2>3. DOMAIN fields \subseteq CallFields
    BY DEF CallFields
  <2>4. /\ OnlyOf(c, {"step", "error"})
        /\ calls'[c].step = "error" /\ calls'[c].error = error
    BY <1>1, <2>1, <2>3, BecomesIs DEF OnlyOf, CallFields
  <2>5. calls'[c].headers = calls[c].headers /\ calls'[c].response = calls[c].response
    BY <2>4 DEF OnlyOf, CallFields
  <2>6. Honest(calls'[c])
    BY <2>1, <2>2, <2>4, <2>5 DEF Honest, Failed
  <2> QED BY <1>1, <2>4, <2>5, <2>6, GoesOn DEF Kinds, Steps
<1> QED BY <1>3, <1>4, <1>5

LEMMA StreamLands ==
  ASSUME ArraysOK, NEW c \in Calls, Sound(calls[c]), StreamReconnects(c) \/ StreamEnds(c)
  PROVE  Lands(c)
<1>1. /\ calls[c].step = "stream" /\ DOMAIN calls[c] = CallFields
      /\ DOMAIN calls[c].headers = HeaderNames /\ calls[c].response = <<>>
      /\ calls[c].options.via = "sse"
  BY DEF StreamReconnects, StreamEnds, At, Sound, CallOK, Honest
<1>2. CASE StreamReconnects(c)
  <2>1. Becomes(c, [step |-> "request"])
    BY <1>2 DEF StreamReconnects
  <2>2. DOMAIN [step |-> "request"] \subseteq CallFields
    BY DEF CallFields
  <2>3. OnlyOf(c, {"step"}) /\ calls'[c].step = "request"
    BY <1>1, <2>1, <2>2, BecomesIs DEF OnlyOf, CallFields
  <2>4. calls'[c].headers = calls[c].headers /\ calls'[c].response = calls[c].response
    BY <2>3 DEF OnlyOf, CallFields
  <2>5. Honest(calls'[c])
    BY <1>1, <2>3, <2>4 DEF Honest
  <2> QED BY <1>1, <2>3, <2>4, <2>5, GoesOn DEF Kinds, Steps
<1>3. CASE StreamEnds(c)
  <2>1. Settle(c, [as |-> "resolved", data |-> "stream", error |-> "undefined"])
    BY <1>3 DEF StreamEnds
  <2> QED BY <1>1, <2>1, Settles
<1> QED BY <1>2, <1>3
--------------------------------------------------------------------------------
(***************************************************************************)
(* Every step.                                                             *)
(***************************************************************************)
LEMMA ThrowsOK ==
  ASSUME BoundsOK, UNCHANGED edits, Throws \/ UNCHANGED throws
  PROVE  BoundsOK'
<1>1. throws \in 0 .. MaxThrows /\ MaxThrows \in Nat /\ edits \in 0 .. MaxEdits
  BY Bounds DEF BoundsOK
<1>2. throws' \in 0 .. MaxThrows
  BY <1>1 DEF Throws
<1> QED BY <1>1, <1>2 DEF BoundsOK

LEMMA CallLands == ASSUME HInv, NEW c \in Calls, Call(c) PROVE Lands(c)
<1>1. ArraysOK /\ Sound(calls[c])
BY DEF HInv
<1>2. CASE beforeRequest(c)
  BY <1>1, <1>2, BeforeRequestLands
<1>3. CASE setAuthParamsSkips(c) \/ setAuthParamsAwaits(c) \/ setAuthParams(c)
  BY <1>1, <1>3, SetAuthParamsLands
<1>4. CASE BuildRequest(c) \/ BeforeRequestThrows(c)
  BY <1>1, <1>4, BuildRequestLands
<1>5. CASE RunInterceptor(c)
  BY <1>1, <1>5, RunInterceptorLands
<1>6. CASE InterceptorThrows(c)
  BY <1>1, <1>6, InterceptorThrowsLands
<1>7. CASE RequestIsReady(c) \/ ResponseIsReady(c) \/ ErrorIsReady(c)
  BY <1>1, <1>7, LoopIsOverLands
<1>8. CASE FetchAnswers(c) \/ FetchFails(c)
  BY <1>1, <1>8, FetchLands
<1>9. CASE ReadData(c) \/ ReadThrows(c) \/ ReadError(c)
  BY <1>1, <1>9, ReadLands
<1>10. CASE StreamReconnects(c) \/ StreamEnds(c)
  BY <1>1, <1>10, StreamLands
<1> QED BY <1>2, <1>3, <1>4, <1>5, <1>6, <1>7, <1>8, <1>9, <1>10 DEF Call

(* A call changes none of what the calls share, but the queries. *)
LEMMA CallShares ==
  ASSUME NEW c \in Calls, Call(c)
  PROVE  UNCHANGED <<config, arrays, fns, edits>> /\ (Throws \/ UNCHANGED throws)
BY DEF Call, beforeRequest, setAuthParamsSkips, setAuthParamsAwaits, setAuthParams, BuildRequest,
       BeforeRequestThrows, RunInterceptor, InterceptorThrows, RequestIsReady, ResponseIsReady, ErrorIsReady,
       LoopIsOver, FetchAnswers, FetchFails, ReadData, ReadThrows, ReadError,
       StreamReconnects, StreamEnds

LEMMA CallKeeps == ASSUME HInv, NEW c \in Calls, Call(c) PROVE HInv'
<1>1. Lands(c)
  BY CallLands
<1>2. UNCHANGED <<config, arrays, fns, edits>> /\ (Throws \/ UNCHANGED throws)
  BY CallShares
<1>3. DOMAIN queries' = DOMAIN queries
  BY DEF Call, beforeRequest, setAuthParamsSkips, setAuthParamsAwaits, setAuthParams, BuildRequest,
         BeforeRequestThrows, RunInterceptor, InterceptorThrows, RequestIsReady, ResponseIsReady, ErrorIsReady,
         LoopIsOver, FetchAnswers, FetchFails, ReadData, ReadThrows, ReadError,
         StreamReconnects, StreamEnds
<1>4. BoundsOK'
  BY <1>2, ThrowsOK DEF HInv
<1>5. ConfigOK' /\ ArraysOK'
  BY <1>2 DEF HInv, ConfigOK, ArraysOK
<1>6. \A d \in Calls' : Sound(calls[d])'
  <2>1. \A d \in Calls : Sound(calls'[d])
    BY <1>1 DEF HInv, Lands
  <2>2. \A d \in Calls : Sound(calls'[d]) => Sound(calls[d])'
    BY <1>2 DEF Sound, LoopOK, CallOK, Honest, Truthful, Failed
  <2> QED BY <1>1, <2>1, <2>2 DEF Lands
<1> QED BY <1>3, <1>4, <1>5, <1>6 DEF HInv

(* The application changes no call, and no array its kind. *)
LEMMA CallsKept ==
  ASSUME HInv, UNCHANGED calls,
         \A i \in DOMAIN arrays : i \in DOMAIN arrays' /\ arrays'[i].kind = arrays[i].kind
  PROVE  \A c \in Calls : Sound(calls[c])'
<1> SUFFICES ASSUME NEW c \in Calls PROVE Sound(calls[c])'
  OBVIOUS
<1>1. Sound(calls[c]) /\ calls' = calls
  BY DEF HInv
<1>2. LoopOK(calls[c])'
  BY <1>1 DEF Sound, LoopOK
<1>3. CallOK(calls[c])' /\ Honest(calls[c])'
  BY <1>1 DEF Sound, CallOK, Honest, Truthful, Failed
<1> QED BY <1>2, <1>3 DEF Sound

LEMMA EditKeeps ==
  ASSUME HInv, UNCHANGED <<queries, calls, throws>>, Edits, ConfigOK', ArraysOK',
         \A i \in DOMAIN arrays : i \in DOMAIN arrays' /\ arrays'[i].kind = arrays[i].kind
  PROVE  HInv'
<1>1. BoundsOK'
  <2>1. edits \in 0 .. MaxEdits /\ MaxEdits \in Nat /\ throws \in 0 .. MaxThrows
    BY Bounds DEF HInv, BoundsOK
  <2>2. edits' \in 0 .. MaxEdits
    BY <2>1 DEF Edits
  <2> QED BY <2>1, <2>2 DEF BoundsOK
<1>2. \A c \in Calls : Sound(calls[c])'
  BY CallsKept
<1> QED BY <1>1, <1>2 DEF HInv, Calls

LEMMA SetKeeps ==
  ASSUME HInv, UNCHANGED <<config, queries, fns, calls, throws>>, Edits,
         NEW k \in Kinds, NEW entries \in Seq(Nat), Set(k, entries)
  PROVE  HInv'
<1>1. arrays \in Seq(Array) /\ fns[k] \in DOMAIN arrays
  BY DEF HInv, ArraysOK
<1>2. arrays' = [arrays EXCEPT ![fns[k]].entries = entries]
  BY DEF Set
<1>3. arrays[fns[k]] \in Array
  BY <1>1
<1>4. [arrays[fns[k]] EXCEPT !.entries = entries] \in Array
  BY <1>3 DEF Array
<1>5. arrays' \in Seq(Array)
  BY <1>1, <1>2, <1>4
<1>6. \A i \in DOMAIN arrays : i \in DOMAIN arrays' /\ arrays'[i].kind = arrays[i].kind
  <2> SUFFICES ASSUME NEW i \in DOMAIN arrays
               PROVE  i \in DOMAIN arrays' /\ arrays'[i].kind = arrays[i].kind
    OBVIOUS
  <2>1. arrays[i] \in Array
    BY <1>1
  <2> QED BY <1>1, <1>2, <2>1 DEF Array
<1>7. ArraysOK'
  BY <1>5, <1>6 DEF HInv, ArraysOK
<1>8. ConfigOK'
  BY DEF HInv, ConfigOK
<1> QED BY <1>6, <1>7, <1>8, EditKeeps

LEMMA EntriesType ==
  ASSUME HInv, NEW k \in Kinds
  PROVE  Entries(k) \in Seq(Nat) /\ Fresh \in Nat
<1>1. arrays[fns[k]] \in Array
  BY DEF HInv, ArraysOK
<1>2. MaxInstalled \in Nat /\ edits \in Nat
  BY Bounds DEF HInv, BoundsOK
<1> QED BY <1>1, <1>2 DEF Array, Entries, Fresh

LEMMA MergedConfig ==
  ASSUME NEW a, NEW b
  PROVE  /\ DOMAIN mergeConfigs(a, b) = {"baseUrl", "headers"}
         /\ DOMAIN mergeConfigs(a, b).headers = HeaderNames
<1> DEFINE headers == mergeHeaders(a.headers, b.headers)
           baseUrl == IF b.baseUrl = <<>> THEN a.baseUrl ELSE b.baseUrl
           kept == IF Last(baseUrl) = "/" THEN Front(baseUrl) ELSE baseUrl
<1>1. DOMAIN headers = HeaderNames
  BY DEF mergeHeaders
<1>2. mergeConfigs(a, b) = [baseUrl |-> kept, headers |-> headers]
  BY DEF mergeConfigs
<1> HIDE DEF headers, kept
<1> QED BY <1>1, <1>2

LEMMA EditStep == ASSUME HInv, Edit PROVE HInv'
<1>1. CASE setConfig
  <2>1. PICK c \in Configs : config' = mergeConfigs(config, c)
    BY <1>1 DEF setConfig
  <2>2. ConfigOK'
    BY <2>1, MergedConfig DEF ConfigOK
  <2>3. UNCHANGED <<arrays, fns, queries, calls, throws>> /\ Edits
    BY <1>1 DEF setConfig
  <2>4. ArraysOK'
    BY <2>3 DEF HInv, ArraysOK
  <2> QED BY <2>2, <2>3, <2>4, EditKeeps
<1>2. ASSUME NEW k \in Kinds, use(k) PROVE HInv'
  <2>1. Append(Entries(k), Fresh) \in Seq(Nat)
    BY EntriesType
  <2> QED BY <1>2, <2>1, SetKeeps DEF use
<1>3. ASSUME NEW k \in Kinds, clear(k) PROVE HInv'
  <2> DEFINE new == [kind |-> k, entries |-> <<>>]
  <2>1. /\ arrays' = Append(arrays, new) /\ fns' = [fns EXCEPT ![k] = Len(arrays) + 1]
        /\ UNCHANGED <<config, queries, calls, throws>> /\ Edits
        /\ arrays \in Seq(Array) /\ DOMAIN fns = Kinds
    BY <1>3 DEF clear, HInv, ArraysOK
  <2>2. new \in Array
    BY DEF Array
  <2> HIDE DEF new
  <2>3. /\ arrays' \in Seq(Array) /\ Len(arrays) + 1 \in DOMAIN arrays'
        /\ arrays'[Len(arrays) + 1] = new
        /\ \A i \in DOMAIN arrays : i \in DOMAIN arrays' /\ arrays'[i] = arrays[i]
    BY <2>1, <2>2
  <2>4. new.kind = k
    BY DEF new
  <2>5. ArraysOK'
    BY <2>1, <2>3, <2>4 DEF HInv, ArraysOK
  <2>6. ConfigOK'
    BY <2>1 DEF HInv, ConfigOK
  <2> QED BY <2>1, <2>3, <2>5, <2>6, EditKeeps
<1>4. ASSUME NEW k \in Kinds, NEW i \in DOMAIN Entries(k), eject(k, i) \/ update(k, i) PROVE HInv'
  <2>1. PICK entry \in Nat : Set(k, [Entries(k) EXCEPT ![i] = entry])
    BY <1>4, EntriesType DEF eject, update, Ejected, Null
  <2>2. [Entries(k) EXCEPT ![i] = entry] \in Seq(Nat)
    BY EntriesType
  <2>3. UNCHANGED <<config, queries, fns, calls, throws>> /\ Edits
    BY <1>4 DEF eject, update
  <2> QED BY <2>1, <2>2, <2>3, SetKeeps
<1> QED BY <1>1, <1>2, <1>3, <1>4 DEF Edit

LEMMA InitHInv == Init => HInv
<1> SUFFICES ASSUME Init PROVE HInv
  OBVIOUS
<1>1. ConfigOK
  BY MergedConfig DEF Init, ConfigOK
<1>2. DOMAIN queries = DOMAIN Queries /\ BoundsOK
  BY Bounds DEF Init, BoundsOK
<1>3. ArraysOK
  <2>1. \A k \in Kinds : [kind |-> k, entries |-> Installed[k]] \in Array
    BY Bounds DEF Array
  <2>2. /\ arrays = << [kind |-> "request", entries |-> Installed["request"]],
                       [kind |-> "response", entries |-> Installed["response"]],
                       [kind |-> "error", entries |-> Installed["error"]] >>
        /\ fns = [k \in Kinds |-> CASE k = "request" -> 1 [] k = "response" -> 2 [] k = "error" -> 3]
    BY DEF Init
  <2>3. arrays \in Seq(Array) /\ DOMAIN arrays = 1 .. 3
    BY <2>1, <2>2 DEF Kinds
  <2>4. fns["request"] = 1 /\ fns["response"] = 2 /\ fns["error"] = 3 /\ DOMAIN fns = Kinds
    BY <2>2 DEF Kinds
  <2>5. arrays[1].kind = "request" /\ arrays[2].kind = "response" /\ arrays[3].kind = "error"
    BY <2>2
  <2> QED BY <2>3, <2>4, <2>5 DEF ArraysOK, Kinds
<1>4. ASSUME NEW c \in Calls PROVE Sound(calls[c])
  <2>1. PICK w \in Workloads : calls = [d \in DOMAIN w |-> Idle(w[d])]
    BY DEF Init
  <2>2. c \in DOMAIN w /\ calls[c] = Idle(w[c])
    BY <2>1 DEF Calls
  <2>3. w[c].answers \subseteq Answers
    BY <2>2, Bounds
  <2>4. /\ calls[c].step = "idle" /\ calls[c].outcome = <<>> /\ calls[c].response = <<>>
        /\ calls[c].answers \subseteq Answers /\ calls[c].loop = NoLoop
        /\ DOMAIN calls[c] = CallFields
    BY <2>2, <2>3 DEF Idle, CallFields
  <2>5. NoLoop.list = 0
    BY DEF NoLoop
  <2> QED BY <2>4, <2>5 DEF Sound, CallOK, LoopOK, Honest, Steps
<1> QED BY <1>1, <1>2, <1>3, <1>4 DEF HInv

LEMMA StepHInv == HInv /\ [Next]_vars => HInv'
<1> SUFFICES ASSUME HInv, [Next]_vars PROVE HInv'
  OBVIOUS
<1>1. CASE Edit
  BY <1>1, EditStep
<1>2. ASSUME NEW c \in Calls, Call(c) PROVE HInv'
  BY <1>2, CallKeeps
<1>3. CASE UNCHANGED vars
  <2>1. UNCHANGED <<config, queries, arrays, fns, calls, edits, throws>>
    BY <1>3 DEF vars
  <2>2. ConfigOK' /\ ArraysOK' /\ BoundsOK' /\ DOMAIN queries' = DOMAIN Queries
    BY <2>1 DEF HInv, ConfigOK, ArraysOK, BoundsOK
  <2>3. \A c \in Calls : Sound(calls[c])'
    BY <2>1, CallsKept
  <2> QED BY <2>1, <2>2, <2>3 DEF HInv, Calls
<1> QED BY <1>1, <1>2, <1>3 DEF Next

--------------------------------------------------------------------------------
(***************************************************************************)
(* Every interceptor once.  While a loop walks an array, the array may grow*)
(* and entries may be replaced, but none moves: what is behind the loop and*)
(* still there has run, what is ahead has not, and what is new is new.     *)
(***************************************************************************)
(* An array holds nothing twice, and nothing that has a number still to come. *)
Distinct(entries, fresh) ==
  /\ \A i \in DOMAIN entries : entries[i] < fresh
  /\ \A i, k \in DOMAIN entries : entries[i] # Null /\ entries[i] = entries[k] => i = k

(* Position i of the array is as the loop found it. *)
Stays(due, entries, i) == i \in DOMAIN due /\ due[i] # Null /\ entries[i] = due[i]

Known(at, ran, due, entries, fresh) ==
  /\ at \in Nat /\ ran \in Seq(Nat) /\ due \in Seq(Nat)
  /\ DOMAIN due \subseteq DOMAIN entries
  /\ \A m \in DOMAIN ran : ran[m] < fresh
  /\ \A i \in DOMAIN due : due[i] < fresh

NoneMoved(due, entries) ==
  \A i \in DOMAIN due, k \in DOMAIN entries : due[i] # Null /\ entries[k] = due[i] => k = i

AheadIsNew(at, ran, entries) ==
  \A i \in DOMAIN entries : i >= at /\ entries[i] # Null => \A m \in DOMAIN ran : ran[m] # entries[i]

RunInOrder(ran, first, second) ==
  \E m, n \in DOMAIN ran : m <= n /\ ran[m] = first /\ ran[n] = second

BehindHasRun(at, ran, due, entries) ==
  \A i, k \in DOMAIN due :
    i <= k /\ k < at /\ Stays(due, entries, i) /\ Stays(due, entries, k) => RunInOrder(ran, due[i], due[k])

Walk(at, ran, due, entries, fresh) ==
  /\ Known(at, ran, due, entries, fresh) /\ NoneMoved(due, entries) /\ AheadIsNew(at, ran, entries)
  /\ BehindHasRun(at, ran, due, entries) /\ IsInjective(ran)

WalkOK(loop, entries, fresh) == Walk(loop.at, loop.ran, loop.due, entries, fresh)

Registered == \A a \in DOMAIN arrays : Distinct(arrays[a].entries, Fresh)
LoopsWalk ==
  \A c \in Calls : LET loop == calls[c].loop IN
    IF loop.list = 0 THEN loop = NoLoop ELSE WalkOK(loop, arrays[loop.list].entries, Fresh)

WInv == HInv /\ Registered /\ LoopsWalk

(* Every nonempty set of naturals has a smallest member. *)
LEMMA MinIs ==
  ASSUME NEW T \in SUBSET Nat, T # {}
  PROVE  Min(T) \in T /\ \A y \in T : Min(T) <= y
<1>1. \E x \in T : \A y \in T : x <= y
  BY SmallestNat
<1> QED BY <1>1 DEF Min

(* A loop that takes its array. *)
LEMMA StartOK ==
  ASSUME NEW entries \in Seq(Nat), NEW fresh \in Nat, Distinct(entries, fresh)
  PROVE  Walk(1, <<>>, entries, entries, fresh)
<1>1. Known(1, <<>>, entries, entries, fresh) /\ NoneMoved(entries, entries)
  BY DEF Known, NoneMoved, Distinct
<1>2. AheadIsNew(1, <<>>, entries) /\ IsInjective(<<>>)
  BY DEF AheadIsNew, IsInjective
<1>3. BehindHasRun(1, <<>>, entries, entries)
  BY DEF BehindHasRun
<1> QED BY <1>1, <1>2, <1>3 DEF Walk

(* A loop that runs the interceptor at i, the next one that is there. *)
LEMMA AdvanceOK ==
  ASSUME NEW entries \in Seq(Nat), NEW fresh \in Nat, Distinct(entries, fresh),
         NEW at \in Nat, NEW ran \in Seq(Nat), NEW due \in Seq(Nat), Walk(at, ran, due, entries, fresh),
         NEW i \in DOMAIN entries, i >= at, entries[i] # Null,
         \A k \in DOMAIN entries : k >= at /\ entries[k] # Null => i <= k
  PROVE  Walk(i + 1, Append(ran, entries[i]), due, entries, fresh)
<1> DEFINE size == Len(ran)
           next == Append(ran, entries[i])
<1>1. /\ i \in Nat /\ entries[i] \in Nat /\ DOMAIN due \subseteq DOMAIN entries
      /\ DOMAIN entries \subseteq Nat
  BY DEF Walk, Known
<1>2. /\ size \in Nat /\ next \in Seq(Nat)
      /\ DOMAIN ran = 1 .. size /\ DOMAIN next = 1 .. size + 1
      /\ next[size + 1] = entries[i]
      /\ \A m \in 1 .. size : next[m] = ran[m] /\ ran[m] \in Nat
  BY <1>1
<1> HIDE DEF size, next
<1>3. Known(i + 1, next, due, entries, fresh)
  <2>1. \A m \in 1 .. size + 1 : m \in 1 .. size \/ m = size + 1
    BY <1>2
  <2>2. \A m \in 1 .. size : next[m] < fresh
    BY <1>2 DEF Walk, Known
  <2>3. next[size + 1] < fresh
    BY <1>2 DEF Distinct
  <2>4. \A m \in DOMAIN next : next[m] < fresh
    BY <1>2, <2>1, <2>2, <2>3
  <2> QED BY <1>1, <1>2, <2>4 DEF Walk, Known
<1>4. \A m \in 1 .. size : ran[m] # entries[i]
  BY <1>2 DEF Walk, AheadIsNew
<1>5. AheadIsNew(i + 1, next, entries)
  <2> SUFFICES ASSUME NEW k \in DOMAIN entries, k >= i + 1, entries[k] # Null,
                      NEW m \in 1 .. size + 1, next[m] = entries[k]
               PROVE  FALSE
    BY <1>2 DEF AheadIsNew
  <2>1. k \in Nat /\ k >= at /\ k # i
    BY <1>1
  <2>2. m # size + 1
    BY <1>2, <2>1 DEF Distinct
  <2>3. m \in 1 .. size
    BY <1>2, <2>2
  <2> QED BY <1>2, <2>1, <2>3 DEF Walk, AheadIsNew
<1>6. IsInjective(next)
  <2> SUFFICES ASSUME NEW m \in 1 .. size + 1, NEW n \in 1 .. size + 1, next[m] = next[n]
               PROVE  m = n
    BY <1>2 DEF IsInjective
  <2>1. CASE m \in 1 .. size /\ n \in 1 .. size
    BY <1>2, <2>1 DEF Walk, IsInjective
  <2>2. CASE m = size + 1 /\ n \in 1 .. size
    BY <1>2, <1>4, <2>2
  <2>3. CASE m \in 1 .. size /\ n = size + 1
    BY <1>2, <1>4, <2>3
  <2> QED BY <1>2, <2>1, <2>2, <2>3
<1>7. BehindHasRun(i + 1, next, due, entries)
  <2> SUFFICES ASSUME NEW j \in DOMAIN due, NEW k \in DOMAIN due, j <= k, k < i + 1,
                      Stays(due, entries, j), Stays(due, entries, k)
               PROVE  RunInOrder(next, due[j], due[k])
    BY DEF BehindHasRun
  <2>1. j \in Nat /\ k \in Nat /\ k <= i /\ j \in DOMAIN entries /\ k \in DOMAIN entries
    BY <1>1
  <2>2. (j < at \/ j = i) /\ (k < at \/ k = i)
    <3>1. entries[j] # Null /\ entries[k] # Null
      BY DEF Stays
    <3>2. (j >= at => i <= j) /\ (k >= at => i <= k)
      BY <2>1, <3>1
    <3>3. at \in Int /\ i \in Int /\ j \in Int /\ k \in Int /\ j <= i /\ k <= i
      BY <1>1, <2>1
    <3>4. \A m, n \in Int : (n >= at => m <= n) /\ n <= m => n < at \/ n = m
      BY <3>3
    <3> QED BY <3>2, <3>3, <3>4
  <2>3. \A l \in DOMAIN due : l < at /\ Stays(due, entries, l) => RunInOrder(ran, due[l], due[l])
    BY <1>1 DEF Walk, BehindHasRun
  <2>4. CASE k < at
    <3>1. PICK m \in 1 .. size, n \in 1 .. size : m <= n /\ ran[m] = due[j] /\ ran[n] = due[k]
      BY <1>2, <2>4 DEF Walk, BehindHasRun, RunInOrder
    <3>2. next[m] = due[j] /\ next[n] = due[k] /\ m \in DOMAIN next /\ n \in DOMAIN next
      BY <1>2, <3>1
    <3> QED BY <3>1, <3>2 DEF RunInOrder
  <2>5. CASE k = i /\ j < at
    <3>1. PICK m \in 1 .. size : ran[m] = due[j]
      BY <1>2, <2>3, <2>5 DEF RunInOrder
    <3>2. next[size + 1] = due[k]
      BY <1>2, <2>5 DEF Stays
    <3>3. next[m] = due[j] /\ m <= size + 1 /\ m \in DOMAIN next /\ size + 1 \in DOMAIN next
      BY <1>2, <3>1
    <3> QED BY <3>2, <3>3 DEF RunInOrder
  <2>6. CASE k = i /\ j = i
    <3>1. next[size + 1] = due[k]
      BY <1>2, <2>6 DEF Stays
    <3>2. size + 1 \in DOMAIN next /\ size + 1 <= size + 1
      BY <1>2
    <3> QED BY <2>6, <3>1, <3>2 DEF RunInOrder
  <2> QED BY <2>1, <2>2, <2>4, <2>5, <2>6
<1> QED BY <1>3, <1>5, <1>6, <1>7 DEF Walk, next

(* An array that gets a hole or a new interceptor. *)
Edited(entries, new, fresh) ==
  /\ DOMAIN entries \subseteq DOMAIN new
  /\ \A i \in DOMAIN new : new[i] \in {Null, fresh} \/ (i \in DOMAIN entries /\ new[i] = entries[i])
  /\ \A i, k \in DOMAIN new : new[i] = fresh /\ new[k] = fresh => i = k

LEMMA EditedDistinct ==
  ASSUME NEW entries \in Seq(Nat), NEW fresh \in Nat, NEW new \in Seq(Nat),
         Edited(entries, new, fresh), Distinct(entries, fresh)
  PROVE  Distinct(new, fresh + 1)
<1>1. \A i \in DOMAIN entries : entries[i] \in Nat /\ entries[i] < fresh
  BY DEF Distinct
<1>2. \A i \in DOMAIN new : new[i] \in Nat
  OBVIOUS
<1>3. ASSUME NEW i \in DOMAIN new PROVE new[i] < fresh + 1
  <2>1. CASE new[i] \in {Null, fresh}
    BY <2>1 DEF Null
  <2>2. CASE i \in DOMAIN entries /\ new[i] = entries[i]
    BY <1>1, <1>2, <2>2
  <2> QED BY <2>1, <2>2 DEF Edited
<1>4. \A i, k \in DOMAIN new : new[i] # Null /\ new[i] = new[k] => i = k
  BY <1>1 DEF Edited, Distinct
<1> QED BY <1>3, <1>4 DEF Distinct

LEMMA EditedWalk ==
  ASSUME NEW entries \in Seq(Nat), NEW fresh \in Nat, NEW new \in Seq(Nat),
         Edited(entries, new, fresh),
         NEW at, NEW ran, NEW due, Walk(at, ran, due, entries, fresh)
  PROVE  Walk(at, ran, due, new, fresh + 1)
<1>1. /\ at \in Nat /\ ran \in Seq(Nat) /\ due \in Seq(Nat)
      /\ DOMAIN due \subseteq DOMAIN entries /\ DOMAIN entries \subseteq DOMAIN new
      /\ \A m \in DOMAIN ran : ran[m] < fresh
      /\ \A i \in DOMAIN due : due[i] < fresh
  BY DEF Walk, Known, Edited
<1>2. /\ \A m \in DOMAIN ran : ran[m] \in Nat
      /\ \A i \in DOMAIN due : due[i] \in Nat
  BY <1>1
<1>3. Known(at, ran, due, new, fresh + 1)
  BY <1>1, <1>2 DEF Known
<1>4. \A i \in DOMAIN due, k \in DOMAIN new :
        due[i] # Null /\ new[k] = due[i] => k \in DOMAIN entries /\ new[k] = entries[k]
  BY <1>1, <1>2 DEF Edited
<1>5. NoneMoved(due, new)
  BY <1>4 DEF Walk, NoneMoved
<1>6. ASSUME NEW i \in DOMAIN new, i >= at, new[i] # Null, NEW m \in DOMAIN ran
      PROVE  ran[m] # new[i]
  <2>1. CASE new[i] = fresh
    BY <1>1, <1>2, <2>1
  <2>2. CASE i \in DOMAIN entries /\ new[i] = entries[i]
    BY <1>6, <2>2 DEF Walk, AheadIsNew
  <2> QED BY <1>6, <2>1, <2>2 DEF Edited
<1>7. \A i \in DOMAIN due : Stays(due, new, i) => Stays(due, entries, i)
  BY <1>1, <1>4 DEF Stays
<1>8. BehindHasRun(at, ran, due, new)
  BY <1>7 DEF Walk, BehindHasRun
<1> QED BY <1>3, <1>5, <1>6, <1>8 DEF Walk, AheadIsNew

LEMMA ArraysAre ==
  ASSUME HInv
  PROVE  /\ Fresh \in Nat /\ DOMAIN arrays \subseteq Nat \ {0}
         /\ \A a \in DOMAIN arrays : arrays[a] \in Array /\ arrays[a].entries \in Seq(Nat)
<1>1. arrays \in Seq(Array) /\ MaxInstalled \in Nat /\ edits \in Nat
  BY Bounds DEF HInv, ArraysOK, BoundsOK
<1>2. \A a \in DOMAIN arrays : arrays[a] \in Array
  BY <1>1
<1> QED BY <1>1, <1>2 DEF Fresh, Array

LEMMA InitWInv == Init => WInv
<1> SUFFICES ASSUME Init PROVE WInv
  OBVIOUS
<1>1. HInv
  BY InitHInv
<1>2. Registered
  <2>1. ASSUME NEW k \in Kinds PROVE Distinct(Installed[k], Fresh)
    <3>1. Installed[k] \in Seq(1 .. MaxInstalled) /\ IsInjective(Installed[k]) /\ MaxInstalled \in Nat
      BY Bounds
    <3>2. Fresh = MaxInstalled + 1
      BY <3>1 DEF Init, Fresh
    <3>3. \A i \in DOMAIN Installed[k] : Installed[k][i] \in 1 .. MaxInstalled
      BY <3>1
    <3> QED BY <3>1, <3>2, <3>3 DEF Distinct, IsInjective
  <2>2. /\ DOMAIN arrays = 1 .. 3 /\ arrays[1].entries = Installed["request"]
        /\ arrays[2].entries = Installed["response"] /\ arrays[3].entries = Installed["error"]
    BY DEF Init
  <2>3. \A a \in DOMAIN arrays : a = 1 \/ a = 2 \/ a = 3
    BY <2>2
  <2> QED BY <2>1, <2>2, <2>3 DEF Registered, Kinds
<1>3. LoopsWalk
  <2>1. \A c \in Calls : calls[c].loop = NoLoop
    BY DEF Init, Idle, Calls
  <2>2. NoLoop.list = 0
    BY DEF NoLoop
  <2> QED BY <2>1, <2>2 DEF LoopsWalk
<1> QED BY <1>1, <1>2, <1>3 DEF WInv

(* The interceptor that runs next is the first one that is there. *)
LEMMA AdvancedWalks ==
  ASSUME WInv, NEW c \in Calls, InLoop(c), Ahead(c) # {}
  PROVE  Advanced(c).list # 0 /\ WalkOK(Advanced(c), arrays[Advanced(c).list].entries, Fresh)
<1> DEFINE loop == calls[c].loop
           entries == Walked(c)
           i == Min(Ahead(c))
           at == IF loop.list = 0 THEN 1 ELSE loop.at
           ran == IF loop.list = 0 THEN <<>> ELSE loop.ran
           due == IF loop.list = 0 THEN entries ELSE loop.due
<1>1. ListOf(c) \in DOMAIN arrays
  BY Walking DEF WInv, HInv
<1>2. /\ Fresh \in Nat /\ entries \in Seq(Nat) /\ ListOf(c) # 0 /\ Distinct(entries, Fresh)
  BY <1>1, ArraysAre DEF WInv, Registered, Walked
<1>3. Walk(at, ran, due, entries, Fresh)
  <2>1. CASE loop.list = 0
    BY <1>2, <2>1, StartOK
  <2>2. CASE loop.list # 0
    BY <2>2 DEF WInv, LoopsWalk, WalkOK, Walked, ListOf
  <2> QED BY <2>1, <2>2
<1>4. loop.list = 0 => loop.at = 1 /\ loop.ran = <<>>
  BY DEF WInv, LoopsWalk, NoLoop
<1>5. /\ Advanced(c).list = ListOf(c) /\ Advanced(c).at = i + 1 /\ Advanced(c).due = due
      /\ Advanced(c).ran = Append(ran, entries[i])
  BY <1>4 DEF Advanced
<1>6. Ahead(c) = {k \in DOMAIN entries : k >= at /\ entries[k] # Null}
  BY <1>4 DEF Ahead
<1> HIDE DEF entries, at, ran, due
<1>7. i \in Ahead(c) /\ \A k \in Ahead(c) : i <= k
  <2>1. Ahead(c) \in SUBSET Nat
    BY <1>2, <1>6
  <2> QED BY <2>1, MinIs
<1> HIDE DEF i
<1>8. /\ i \in DOMAIN entries /\ i >= at /\ entries[i] # Null
      /\ \A k \in DOMAIN entries : k >= at /\ entries[k] # Null => i <= k
  BY <1>6, <1>7
<1>9. at \in Nat /\ ran \in Seq(Nat) /\ due \in Seq(Nat)
  BY <1>3 DEF Walk, Known
<1>10. Walk(i + 1, Append(ran, entries[i]), due, entries, Fresh)
  BY <1>2, <1>3, <1>8, <1>9, AdvanceOK
<1> QED BY <1>2, <1>5, <1>10 DEF WalkOK, Walked, entries

LEMMA CallWalks == ASSUME WInv, NEW c \in Calls, Call(c) PROVE WInv'
<1>1. HInv' /\ Lands(c)
  BY CallKeeps, CallLands DEF WInv
<1>2. arrays' = arrays /\ Fresh' = Fresh
  BY CallShares DEF Fresh
<1>3. Registered'
  BY <1>2 DEF WInv, Registered
<1>4. ASSUME NEW d \in Calls
      PROVE  LET loop == calls'[d].loop IN
             IF loop.list = 0 THEN loop = NoLoop ELSE WalkOK(loop, arrays[loop.list].entries, Fresh)
  <2>1. CASE calls'[d].loop = calls[d].loop
    BY <2>1 DEF WInv, LoopsWalk
  <2>2. CASE calls'[d].loop = NoLoop
    BY <2>2 DEF NoLoop
  <2>3. CASE d = c /\ InLoop(c) /\ Ahead(c) # {} /\ calls'[c].loop = Advanced(c)
    BY <2>3, AdvancedWalks
  <2> QED BY <1>1, <2>1, <2>2, <2>3 DEF Lands, Turns
<1>5. LoopsWalk'
  BY <1>1, <1>2, <1>4 DEF LoopsWalk, Lands, WalkOK
<1> QED BY <1>1, <1>3, <1>5 DEF WInv

(* The application gives one array a hole or a new interceptor, or adds an
   empty array. *)
LEMMA ArraysEdited ==
  ASSUME WInv, HInv', UNCHANGED calls, Fresh' = Fresh + 1,
         \A a \in DOMAIN arrays :
           a \in DOMAIN arrays' /\ Edited(arrays[a].entries, arrays'[a].entries, Fresh),
         \A a \in DOMAIN arrays' \ DOMAIN arrays : arrays'[a].entries = <<>>
  PROVE  WInv'
<1>1. /\ Fresh \in Nat /\ \A a \in DOMAIN arrays : arrays[a].entries \in Seq(Nat)
      /\ \A a \in DOMAIN arrays' : arrays'[a].entries \in Seq(Nat)
  <2>1. arrays' \in Seq(Array)
    BY DEF HInv, ArraysOK
  <2>2. \A a \in DOMAIN arrays' : arrays'[a] \in Array
    BY <2>1
  <2> QED BY <2>2, ArraysAre DEF WInv, Array
<1>2. Registered'
  <2> SUFFICES ASSUME NEW a \in DOMAIN arrays' PROVE Distinct(arrays'[a].entries, Fresh')
    BY DEF Registered
  <2>1. CASE a \in DOMAIN arrays
    BY <1>1, <2>1, EditedDistinct DEF WInv, Registered
  <2>2. CASE a \notin DOMAIN arrays
    BY <2>2 DEF Distinct
  <2> QED BY <2>1, <2>2
<1>3. LoopsWalk'
  <2> SUFFICES ASSUME NEW c \in Calls, calls[c].loop.list # 0
               PROVE  WalkOK(calls[c].loop, arrays'[calls[c].loop.list].entries, Fresh')
    BY DEF WInv, LoopsWalk, Calls, WalkOK
  <2> DEFINE loop == calls[c].loop
  <2>1. loop.list \in DOMAIN arrays
    BY DEF WInv, HInv, Sound, LoopOK
  <2>2. Walk(loop.at, loop.ran, loop.due, arrays[loop.list].entries, Fresh)
    BY DEF WInv, LoopsWalk, WalkOK
  <2>3. Walk(loop.at, loop.ran, loop.due, arrays'[loop.list].entries, Fresh + 1)
    BY <1>1, <2>1, <2>2, EditedWalk
  <2> QED BY <2>3 DEF WalkOK
<1> QED BY <1>2, <1>3 DEF WInv

LEMMA SameEdited ==
  ASSUME NEW entries \in Seq(Nat), NEW fresh \in Nat, Distinct(entries, fresh)
  PROVE  Edited(entries, entries, fresh)
BY DEF Edited, Distinct

LEMMA SetWalks ==
  ASSUME WInv, HInv', UNCHANGED calls, Fresh' = Fresh + 1,
         NEW k \in Kinds, NEW new, Set(k, new), Edited(Entries(k), new, Fresh)
  PROVE  WInv'
<1>1. arrays \in Seq(Array) /\ fns[k] \in DOMAIN arrays
  BY DEF WInv, HInv, ArraysOK
<1>2. arrays' = [arrays EXCEPT ![fns[k]].entries = new]
  BY DEF Set
<1>3. Fresh \in Nat /\ \A a \in DOMAIN arrays : arrays[a] \in Array /\ arrays[a].entries \in Seq(Nat)
  BY ArraysAre DEF WInv
<1>4. /\ DOMAIN arrays' = DOMAIN arrays
      /\ \A a \in DOMAIN arrays : a # fns[k] => arrays'[a] = arrays[a]
  BY <1>1, <1>2
<1>5. arrays'[fns[k]].entries = new
  <2>1. arrays'[fns[k]] = [arrays[fns[k]] EXCEPT !.entries = new]
    BY <1>1, <1>2
  <2>2. "entries" \in DOMAIN arrays[fns[k]]
    BY <1>1, <1>3 DEF Array
  <2> QED BY <2>1, <2>2
<1>6. ASSUME NEW a \in DOMAIN arrays PROVE Edited(arrays[a].entries, arrays'[a].entries, Fresh)
  <2>1. CASE a = fns[k]
    BY <1>5, <2>1 DEF Entries
  <2>2. CASE a # fns[k]
    BY <1>3, <1>4, <2>2, SameEdited DEF WInv, Registered
  <2> QED BY <2>1, <2>2
<1> QED BY <1>4, <1>6, ArraysEdited

LEMMA EditWalks == ASSUME WInv, Edit PROVE WInv'
<1>1. HInv' /\ UNCHANGED calls
  BY EditStep DEF WInv, Edit, setConfig, use, clear, eject, update
<1>2. Fresh' = Fresh + 1 /\ Fresh \in Nat
  <2>1. edits' = edits + 1
    BY DEF Edit, Edits, setConfig, use, clear, eject, update
  <2>2. edits \in Nat /\ MaxInstalled \in Nat
    BY Bounds DEF WInv, HInv, BoundsOK
  <2> QED BY <2>1, <2>2 DEF Fresh
<1>3. \A a \in DOMAIN arrays :
        arrays[a].entries \in Seq(Nat) /\ Edited(arrays[a].entries, arrays[a].entries, Fresh)
  BY ArraysAre, SameEdited DEF WInv, Registered
<1>4. CASE setConfig
  BY <1>1, <1>2, <1>3, <1>4, ArraysEdited DEF setConfig
<1>5. ASSUME NEW k \in Kinds, clear(k) PROVE WInv'
  <2> DEFINE new == [kind |-> k, entries |-> <<>>]
  <2>1. arrays' = Append(arrays, new) /\ arrays \in Seq(Array) /\ new \in Array
    BY <1>5 DEF clear, WInv, HInv, ArraysOK, Array
  <2>2. new.entries = <<>>
    OBVIOUS
  <2> HIDE DEF new
  <2>3. /\ \A a \in DOMAIN arrays : a \in DOMAIN arrays' /\ arrays'[a] = arrays[a]
        /\ \A a \in DOMAIN arrays' \ DOMAIN arrays : arrays'[a] = new
    BY <2>1
  <2> QED BY <1>1, <1>2, <1>3, <2>2, <2>3, ArraysEdited
<1>6. ASSUME NEW k \in Kinds, NEW i \in DOMAIN Entries(k), NEW entry \in {Null, Fresh},
             Set(k, [Entries(k) EXCEPT ![i] = entry])
      PROVE  WInv'
  <2>1. Entries(k) \in Seq(Nat) /\ \A m \in DOMAIN Entries(k) : Entries(k)[m] < Fresh
    BY <1>3 DEF WInv, HInv, ArraysOK, Registered, Distinct, Entries
  <2>2. Edited(Entries(k), [Entries(k) EXCEPT ![i] = entry], Fresh)
    BY <1>2, <2>1 DEF Edited
  <2> QED BY <1>1, <1>2, <1>6, <2>2, SetWalks
<1>7. ASSUME NEW k \in Kinds, use(k) PROVE WInv'
  <2>1. Entries(k) \in Seq(Nat) /\ \A m \in DOMAIN Entries(k) : Entries(k)[m] < Fresh
    BY <1>3 DEF WInv, HInv, ArraysOK, Registered, Distinct, Entries
  <2>2. Edited(Entries(k), Append(Entries(k), Fresh), Fresh)
    BY <1>2, <2>1 DEF Edited
  <2> QED BY <1>1, <1>2, <1>7, <2>2, SetWalks DEF use
<1> QED BY <1>4, <1>5, <1>6, <1>7 DEF Edit, eject, update, Ejected

LEMMA StepWInv == WInv /\ [Next]_vars => WInv'
<1> SUFFICES ASSUME WInv, [Next]_vars PROVE WInv'
  OBVIOUS
<1>1. CASE UNCHANGED vars
  <2>1. HInv'
    BY <1>1, StepHInv DEF WInv
  <2>2. UNCHANGED <<arrays, calls, edits>>
    BY <1>1 DEF vars
  <2> QED BY <2>1, <2>2 DEF WInv, Registered, LoopsWalk, Calls, Fresh, WalkOK
<1> QED BY <1>1, CallWalks, EditWalks DEF Next

(* Every variable of the client keeps its type: a loop walks an array of its
   own kind even after clear has replaced it, and only a settled call has an
   outcome. *)
THEOREM TypeCorrect == Spec => []TypeOK
BY InitHInv, StepHInv, HInvIs, PTL DEF Spec

(* A failure never looks like a success, and a success always has data, however
   calls, interceptors, changes and failures interleave. *)
THEOREM OutcomesAreTruthful == Spec => []OutcomeIsTruthful
BY InitHInv, StepHInv, HInvIs, PTL DEF Spec

(* Whatever is added, ejected, replaced or cleared meanwhile, an interceptor
   that stays registered all through a loop is run by it, once and in order. *)
THEOREM InterceptorsRunAsRegistered == Spec => InterceptorsRunOnce
<1> DEFINE RunsThem(c) ==
      /\ InLoop(c) /\ calls[c].loop.list # 0 /\ Ahead(c) = {}
      /\ calls'[c].step # calls[c].step
      => LET loop == calls[c].loop
             stayed == {i \in DOMAIN loop.due : loop.due[i] \in Range(Walked(c)) \ {Null}}
         IN  /\ IsInjective(loop.ran)
             /\ \A i, k \in stayed : i <= k =>
                  \E m, n \in DOMAIN loop.ran :
                    m <= n /\ loop.ran[m] = loop.due[i] /\ loop.ran[n] = loop.due[k]
<1>1. ASSUME WInv, NEW c \in Calls PROVE RunsThem(c)
  <2> DEFINE loop == calls[c].loop
             entries == Walked(c)
  <2> SUFFICES ASSUME InLoop(c), loop.list # 0, Ahead(c) = {}
               PROVE  /\ IsInjective(loop.ran)
                      /\ \A i, k \in DOMAIN loop.due :
                           /\ loop.due[i] \in Range(entries) \ {Null}
                           /\ loop.due[k] \in Range(entries) \ {Null}
                           /\ i <= k
                           => RunInOrder(loop.ran, loop.due[i], loop.due[k])
    BY DEF RunInOrder
  <2>1. Walk(loop.at, loop.ran, loop.due, entries, Fresh)
    <3>1. WalkOK(loop, arrays[loop.list].entries, Fresh)
      BY <1>1 DEF WInv, LoopsWalk
    <3>2. entries = arrays[loop.list].entries
      BY DEF Walked, ListOf
    <3> QED BY <3>1, <3>2 DEF WalkOK
  <2>2. \A k \in DOMAIN entries : k >= loop.at => entries[k] = Null
    BY DEF Ahead
  <2>3. loop.at \in Nat /\ DOMAIN loop.due \subseteq DOMAIN entries /\ DOMAIN loop.due \subseteq Nat
    BY <2>1 DEF Walk, Known
  <2>4. ASSUME NEW i \in DOMAIN loop.due, loop.due[i] \in Range(entries) \ {Null}
        PROVE  Stays(loop.due, entries, i) /\ i < loop.at
    <3>1. PICK k \in DOMAIN entries : entries[k] = loop.due[i]
      BY <2>4 DEF Range
    <3>2. k = i
      BY <2>1, <2>4, <3>1 DEF Walk, NoneMoved
    <3>3. ~ (i >= loop.at)
      BY <2>2, <2>4, <3>1, <3>2
    <3> QED BY <2>3, <2>4, <3>1, <3>2, <3>3 DEF Stays
  <2> QED BY <2>1, <2>4 DEF Walk, BehindHasRun
<1>2. WInv /\ [Next]_vars => [\A c \in Calls : RunsThem(c)]_vars
  BY <1>1
<1> QED BY <1>2, InitWInv, StepWInv, PTL DEF Spec, InterceptorsRunOnce
--------------------------------------------------------------------------------
(***************************************************************************)
(* Sequences of whatever elements, and the greatest of some numbers.       *)
(***************************************************************************)
LEMMA SeqIs ==
  ASSUME NEW S, NEW s \in Seq(S)
  PROVE  IsSeq(s)
BY DEF IsSeq, Range

LEMMA SeqIn ==
  ASSUME NEW s, IsSeq(s), NEW S, Range(s) \subseteq S
  PROVE  s \in Seq(S)
<1>1. s \in Seq(Range(s))
  BY DEF IsSeq
<1> QED BY <1>1

LEMMA AppendIs ==
  ASSUME NEW s, IsSeq(s), NEW x
  PROVE  /\ IsSeq(Append(s, x)) /\ Len(s) \in Nat /\ Len(Append(s, x)) = Len(s) + 1
         /\ DOMAIN s = 1 .. Len(s) /\ DOMAIN Append(s, x) = 1 .. Len(s) + 1
         /\ Append(s, x)[Len(s) + 1] = x
         /\ \A i \in 1 .. Len(s) : Append(s, x)[i] = s[i]
<1> DEFINE S == Range(s) \cup {x}
<1>1. s \in Seq(S) /\ x \in S
  BY SeqIn
<1> HIDE DEF S
<1>2. Append(s, x) \in Seq(S)
  BY <1>1
<1>3. IsSeq(Append(s, x))
  BY <1>2, SeqIs
<1> QED BY <1>1, <1>2, <1>3

LEMMA JoinIs ==
  ASSUME NEW s, IsSeq(s), NEW t, IsSeq(t)
  PROVE  /\ IsSeq(s \o t) /\ Len(s) \in Nat /\ Len(t) \in Nat /\ Len(s \o t) = Len(s) + Len(t)
         /\ \A i \in 1 .. Len(s) : (s \o t)[i] = s[i]
         /\ \A i \in Len(s) + 1 .. Len(s) + Len(t) : (s \o t)[i] = t[i - Len(s)]
         /\ s \o <<>> = s /\ <<>> \o s = s
<1> DEFINE S == Range(s) \cup Range(t)
<1>1. s \in Seq(S) /\ t \in Seq(S)
  BY SeqIn
<1> HIDE DEF S
<1>2. s \o t \in Seq(S)
  BY <1>1
<1>3. s \o <<>> = s /\ <<>> \o s = s
  BY <1>1, ConcatEmptySeq
<1>4. IsSeq(s \o t)
  BY <1>2, SeqIs
<1>5. Len(s) \in Nat /\ Len(t) \in Nat
  BY <1>1
<1>6. /\ Len(s \o t) = Len(s) + Len(t)
      /\ \A i \in 1 .. Len(s) : (s \o t)[i] = s[i]
      /\ \A i \in Len(s) + 1 .. Len(s) + Len(t) : (s \o t)[i] = t[i - Len(s)]
  BY <1>1, <1>5
<1> QED BY <1>3, <1>4, <1>5, <1>6

LEMMA SameElements ==
  ASSUME NEW s, IsSeq(s), NEW t, IsSeq(t), Len(s) = Len(t), \A i \in 1 .. Len(s) : s[i] = t[i]
  PROVE  s = t
<1> DEFINE S == Range(s) \cup Range(t)
<1>1. s \in Seq(S) /\ t \in Seq(S)
  BY SeqIn
<1> HIDE DEF S
<1> QED BY <1>1, SeqEqual

LEMMA JoinAppended ==
  ASSUME NEW s, IsSeq(s), NEW t, IsSeq(t), NEW x
  PROVE  s \o Append(t, x) = Append(s \o t, x)
<1> DEFINE S == (Range(s) \cup Range(t)) \cup {x}
<1>1. s \in Seq(S) /\ t \in Seq(S) /\ x \in S
  BY SeqIn
<1> HIDE DEF S
<1>2. s \o Append(t, x) \in Seq(S) /\ Append(s \o t, x) \in Seq(S)
  BY <1>1
<1>3. /\ Len(s \o Append(t, x)) = Len(Append(s \o t, x))
      /\ \A i \in 1 .. Len(s \o Append(t, x)) : (s \o Append(t, x))[i] = Append(s \o t, x)[i]
  BY <1>1
<1> QED BY <1>2, <1>3, SeqEqual

LEMMA GreatestNat ==
  ASSUME NEW T \in SUBSET Nat, T # {}, NEW n \in Nat, \A i \in T : i <= n
  PROVE  Max(T) \in T /\ \A i \in T : i <= Max(T)
<1> DEFINE above == {m \in Nat : \A i \in T : i <= m}
           m == Min(above)
<1>1. m \in above /\ \A k \in above : m <= k
  <2>1. above \in SUBSET Nat /\ above # {}
    OBVIOUS
  <2> HIDE DEF above
  <2> QED BY <2>1, MinIs
<1> HIDE DEF m
<1>2. m \in T
  <2> SUFFICES ASSUME m \notin T PROVE FALSE
    OBVIOUS
  <2>1. \A i \in T : i < m /\ i \in Nat
    BY <1>1
  <2>2. m # 0 /\ m \in Nat
    <3>1. PICK i \in T : TRUE
      OBVIOUS
    <3> QED BY <1>1, <2>1, <3>1
  <2>3. m - 1 \in above
    BY <2>1, <2>2
  <2> QED BY <1>1, <2>2, <2>3
<1>3. \A y \in T : m >= y
  BY <1>1, <1>2
<1>4. \A x \in T : (\A y \in T : x >= y) => x = m
  BY <1>1, <1>2, <1>3
<1>5. Max(T) = m
  BY <1>2, <1>3, <1>4, Zenon DEF Max
<1> QED BY <1>1, <1>2, <1>5
--------------------------------------------------------------------------------
(***************************************************************************)
(* What a call was made with.                                              *)
(***************************************************************************)
Typed(f, names) == DOMAIN f = names /\ \A name \in names : IsSeq(f[name])

OptionsOK(options) ==
  /\ HeadersOK(options.headers) /\ SecurityOK(options.security)
  /\ options.query \in {0} \cup DOMAIN Queries

(* The headers a call has are the ones it asks for. *)
Carries(call) ==
  /\ OptionsOK(call.options)
  /\ Typed(call.tokens, Places)
  /\ Typed(call.made.headers, HeaderNames) /\ Typed(call.headers, HeaderNames)
  /\ \A name \in HeaderNames : call.headers[name] = AskedHeader(call, name)

(* While the auth callback is awaited, what checkForExistence found still holds:
   the headers are the call's own, and of a query object only parameters without
   a value are ever overwritten. *)
Checked(call) ==
  LET scheme == Head(call.todo) IN
  /\ call.todo # <<>>
  /\ scheme.in = "header" /\ scheme.name = "Cookie" => call.headers["Cookie"] = <<>>
  /\ scheme.in = "query" =>
       \A i \in DOMAIN OwnQuery(call) :
         OwnQuery(call)[i].name = scheme.name => ~ Truthy(OwnQuery(call)[i].value)

UrlOf(call, query) ==
  getUrl(call.made.baseUrl, call.options.url, call.options.path, query, call.options.how)

(* From its first step to the last, a call has the address and the headers it
   was made with, the credentials it got so far included; its request, once
   there is one, is made of those. *)
MadeOK(call) ==
  /\ OptionsOK(call.options)
  /\ call.step = "idle" => call.tokens = [place \in Places |-> <<>>]
  /\ call.step \in {"idle", "auth", "token"} => call.sent = <<>>
  /\ call.step = "token" => Checked(call)
  /\ call.step # "idle" =>
       SecurityOK(call.todo) /\ call.baseUrl = call.made.baseUrl /\ Carries(call)
  /\ call.sent # <<>> =>
       /\ call.sent.headers = HeadersSent(call)
       /\ call.sent.body = getValidRequestBody(call.options)
       /\ call.sent.url = UrlOf(call, call.sent.query)

(* A query object holds its caller's parameters and the credentials its calls
   were granted so far, and so does every query that was sent. *)
ObjectsOK ==
  /\ DOMAIN queries = DOMAIN Queries
  /\ \A q \in DOMAIN Queries :
       IsSeq(queries[q]) /\ KeepsOwn(queries[q], Queries[q], CredentialsIn(q))
  /\ \A c \in Calls : AskedQuery(calls[c], QueryOf(calls[c].options))
SentOK == \A c \in Calls : Sent(c) => AskedQuery(calls[c], calls[c].sent.query)

MInv ==
  /\ HInv
  /\ Typed(config.headers, HeaderNames)
  /\ \A c \in Calls : MadeOK(calls[c])
  /\ ObjectsOK /\ SentOK

LEMMA Given ==
  /\ \A w \in Workloads : \A c \in DOMAIN w : OptionsOK(w[c].options)
  /\ \A q \in DOMAIN Queries : q # 0 /\ IsSeq(Queries[q]) /\ IsObject(Queries[q])
  /\ HeadersOK(FirstConfig.headers) /\ \A c \in Configs : HeadersOK(c.headers)
BY HttpClientAssumption DEF OptionsOK

LEMMA EmptyIs == IsSeq(<<>>) /\ Len(<<>>) = 0 /\ DOMAIN <<>> = {}
<1>1. <<>> \in Seq({})
  OBVIOUS
<1>2. IsSeq(<<>>)
  BY <1>1, SeqIs
<1> QED BY <1>2

LEMMA SingleIs == ASSUME NEW x PROVE IsSeq(<<x>>) /\ Len(<<x>>) = 1 /\ <<x>>[1] = x
<1>1. <<x>> \in Seq({x})
  OBVIOUS
<1> QED BY <1>1, SeqIs

LEMMA WrittenType ==
  ASSUME NEW values, IsSeq(values), NEW entry, IsSeq(entry.values),
         entry.op \in {"delete", "set", "append"}
  PROVE  IsSeq(Written(values, entry))
BY EmptyIs, JoinIs DEF Written

LEMMA MergedType ==
  ASSUME NEW headers, Typed(headers, HeaderNames), NEW entries, HeadersOK(entries)
  PROVE  Typed(mergeHeaders(headers, entries), HeaderNames)
BY WrittenType DEF mergeHeaders, HeadersOK, Typed

LEMMA SdkOK ==
  ASSUME NEW options, OptionsOK(options)
  PROVE  HeadersOK(SdkHeaders(options))
<1> DEFINE own == options.headers
           json == [op |-> "set", values |-> <<Json>>]
<1>1. json.op = "set" /\ IsSeq(json.values)
  BY SingleIs
<1> HIDE DEF json
<1>2. \A name \in DOMAIN SdkHeaders(options) :
        \/ name \in DOMAIN own /\ SdkHeaders(options)[name] = own[name]
        \/ SdkHeaders(options)[name] = json
  BY DEF SdkHeaders, json
<1> QED BY <1>1, <1>2 DEF OptionsOK, HeadersOK
--------------------------------------------------------------------------------
(***************************************************************************)
(* Headers: those of the caller, then those of its credentials.            *)
(***************************************************************************)
WrittenHeader(call, name) ==
  LET own == SdkHeaders(call.options)
      base == call.made.headers[name]
  IN  IF name \notin DOMAIN own THEN base
      ELSE (IF own[name].op = "append" THEN base ELSE <<>>) \o own[name].values
Granted(tokens, name) == {i \in DOMAIN tokens : NameOf(tokens[i][1]) = name}
Header(tokens, name, written) ==
  LET last == tokens[Max(Granted(tokens, name))]
  IN  IF Granted(tokens, name) = {} THEN written ELSE << <<last[1].scheme, last[2]>> >>
Cookies(tokens) == [i \in DOMAIN tokens |-> <<NameOf(tokens[i][1]), tokens[i][2]>>]
ForCookies(name, tokens) == IF name = "Cookie" THEN Cookies(tokens) ELSE <<>>

LEMMA AskedIs ==
  ASSUME NEW call, NEW name
  PROVE  AskedHeader(call, name)
           = Header(call.tokens["header"], name, WrittenHeader(call, name))
               \o ForCookies(name, call.tokens["cookie"])
BY DEF AskedHeader, WrittenHeader, Granted, Header, Cookies, ForCookies

(* What a call asks for before it has any credential. *)
LEMMA AskedFirst ==
  ASSUME NEW call, Typed(call.made.headers, HeaderNames), OptionsOK(call.options),
         call.tokens = [place \in Places |-> <<>>], NEW name \in HeaderNames
  PROVE  AskedHeader(call, name) = mergeHeaders(call.made.headers, SdkHeaders(call.options))[name]
<1> DEFINE own == SdkHeaders(call.options)
           base == call.made.headers[name]
<1>1. IsSeq(base) /\ HeadersOK(own)
  BY SdkOK DEF Typed
<1>2. WrittenHeader(call, name) = mergeHeaders(call.made.headers, own)[name]
  <2>1. CASE name \notin DOMAIN own
    BY <2>1 DEF WrittenHeader, mergeHeaders
  <2>2. CASE name \in DOMAIN own
    <3>1. /\ own[name].op \in {"delete", "set", "append"} /\ IsSeq(own[name].values)
          /\ own[name].op = "delete" => own[name].values = <<>>
      BY <1>1, <2>2 DEF HeadersOK
    <3>2. mergeHeaders(call.made.headers, own)[name] = Written(base, own[name])
      BY <2>2 DEF mergeHeaders
    <3>3. WrittenHeader(call, name)
            = (IF own[name].op = "append" THEN base ELSE <<>>) \o own[name].values
      BY <2>2 DEF WrittenHeader
    <3> HIDE DEF own, base
    <3>4. <<>> \o own[name].values = own[name].values
      BY <3>1, JoinIs
    <3> QED BY <3>1, <3>2, <3>3, <3>4 DEF Written
  <2> QED BY <2>1, <2>2
<1>3. IsSeq(WrittenHeader(call, name))
  BY <1>1, <1>2, MergedType DEF Typed
<1>4. call.tokens["header"] = <<>> /\ call.tokens["cookie"] = <<>>
  BY DEF Places
<1>5. Granted(<<>>, name) = {} /\ Cookies(<<>>) = <<>>
  BY DEF Granted, Cookies
<1>6. Header(<<>>, name, WrittenHeader(call, name)) = WrittenHeader(call, name)
  BY <1>5 DEF Header
<1>7. ForCookies(name, <<>>) = <<>>
  BY <1>5 DEF ForCookies
<1>8. AskedHeader(call, name) = WrittenHeader(call, name) \o <<>>
  BY <1>4, <1>6, <1>7, AskedIs
<1>9. WrittenHeader(call, name) \o <<>> = WrittenHeader(call, name)
  BY <1>3, JoinIs
<1> QED BY <1>2, <1>8, <1>9

LEMMA CookiesType ==
  ASSUME NEW tokens, IsSeq(tokens)
  PROVE  IsSeq(Cookies(tokens)) /\ Len(Cookies(tokens)) = Len(tokens)
<1>1. DOMAIN tokens = 1 .. Len(tokens) /\ Len(tokens) \in Nat
  BY AppendIs
<1> DEFINE S == {Cookies(tokens)[i] : i \in DOMAIN tokens}
<1>2. Cookies(tokens) \in [1 .. Len(tokens) -> S]
  BY <1>1 DEF Cookies
<1> HIDE DEF S
<1>3. Cookies(tokens) \in Seq(S)
  BY <1>1, <1>2
<1>4. Len(Cookies(tokens)) = Len(tokens)
  BY <1>1, <1>2, <1>3
<1> QED BY <1>3, <1>4, SeqIs

LEMMA CookieAppended ==
  ASSUME NEW tokens, IsSeq(tokens), NEW scheme, NEW token
  PROVE  Cookies(Append(tokens, <<scheme, token>>)) = Append(Cookies(tokens), <<NameOf(scheme), token>>)
<1> DEFINE t == <<scheme, token>>
           cookie == <<NameOf(scheme), token>>
           more == Append(tokens, t)
           n == Len(tokens)
<1>1. /\ IsSeq(more) /\ n \in Nat /\ Len(more) = n + 1 /\ DOMAIN more = 1 .. n + 1
      /\ DOMAIN tokens = 1 .. n /\ more[n + 1] = t /\ \A i \in 1 .. n : more[i] = tokens[i]
  <2> HIDE DEF t
  <2> QED BY AppendIs
<1> HIDE DEF more
<1>2. /\ IsSeq(Cookies(more)) /\ Len(Cookies(more)) = n + 1
      /\ IsSeq(Cookies(tokens)) /\ Len(Cookies(tokens)) = n
  BY <1>1, CookiesType
<1>3. /\ \A i \in 1 .. n : Cookies(more)[i] = Cookies(tokens)[i]
      /\ Cookies(more)[n + 1] = cookie
  BY <1>1 DEF Cookies
<1> HIDE DEF cookie, n
<1>4. /\ IsSeq(Append(Cookies(tokens), cookie)) /\ Len(Append(Cookies(tokens), cookie)) = n + 1
      /\ \A i \in 1 .. n : Append(Cookies(tokens), cookie)[i] = Cookies(tokens)[i]
      /\ Append(Cookies(tokens), cookie)[n + 1] = cookie
  BY <1>2, AppendIs
<1>5. \A i \in 1 .. n + 1 : Cookies(more)[i] = Append(Cookies(tokens), cookie)[i]
  BY <1>1, <1>3, <1>4
<1>6. Cookies(more) = Append(Cookies(tokens), cookie)
  BY <1>2, <1>4, <1>5, SameElements
<1> QED BY <1>6 DEF more, cookie

(* One more credential of a header takes its place, and no other header's. *)
LEMMA GrantAppended ==
  ASSUME NEW tokens, IsSeq(tokens), NEW scheme, NEW token, NEW name, NEW written
  PROVE  Header(Append(tokens, <<scheme, token>>), name, written) =
           IF name = NameOf(scheme) THEN << <<scheme.scheme, token>> >>
                                    ELSE Header(tokens, name, written)
<1> DEFINE t == <<scheme, token>>
           more == Append(tokens, t)
           n == Len(tokens) + 1
<1>1. /\ Len(tokens) \in Nat /\ DOMAIN tokens = 1 .. Len(tokens) /\ DOMAIN more = 1 .. n
      /\ more[n] = t /\ \A i \in 1 .. Len(tokens) : more[i] = tokens[i]
  <2> HIDE DEF t
  <2> QED BY AppendIs
<1>2. t[1] = scheme /\ t[2] = token
  OBVIOUS
<1> HIDE DEF more, t
<1>3. CASE name = NameOf(scheme)
  <2>1. n \in Granted(more, name) /\ \A i \in Granted(more, name) : n >= i /\ i \in Nat
    BY <1>1, <1>2, <1>3 DEF Granted
  <2>2. Max(Granted(more, name)) = n
    <3>1. \A x \in Granted(more, name) : (\A y \in Granted(more, name) : x >= y) => x = n
      <4> HIDE DEF n
      <4>1. n \in Nat
        BY <2>1
      <4> QED BY <2>1, <4>1
    <3> HIDE DEF n
    <3> QED BY <2>1, <3>1, Zenon DEF Max
  <2> QED BY <1>1, <1>2, <1>3, <2>1, <2>2 DEF Header, more, t
<1>4. CASE name # NameOf(scheme)
  <2>1. Granted(more, name) = Granted(tokens, name)
    BY <1>1, <1>2, <1>4 DEF Granted
  <2>2. CASE Granted(tokens, name) = {}
    BY <1>4, <2>1, <2>2 DEF Header, more, t
  <2>3. CASE Granted(tokens, name) # {}
    <3>1. Granted(tokens, name) \subseteq 1 .. Len(tokens)
      BY <1>1 DEF Granted
    <3>2. Max(Granted(tokens, name)) \in Granted(tokens, name)
      <4>1. /\ Granted(tokens, name) \in SUBSET Nat
            /\ \A i \in Granted(tokens, name) : i <= Len(tokens)
        BY <3>1, <1>1
      <4> QED BY <1>1, <2>3, <4>1, GreatestNat
    <3>3. more[Max(Granted(tokens, name))] = tokens[Max(Granted(tokens, name))]
      BY <1>1, <3>1, <3>2
    <3> QED BY <1>4, <2>1, <3>3 DEF Header, more, t
  <2> QED BY <2>2, <2>3
<1> QED BY <1>3, <1>4
--------------------------------------------------------------------------------
(***************************************************************************)
(* Query objects.                                                          *)
(***************************************************************************)
(* More credentials do no harm. *)
LEMMA MoreCredentials ==
  ASSUME NEW query, NEW own, NEW tokens, NEW few, NEW more, few \subseteq more
  PROVE  /\ KeepsOwn(query, own, few) => KeepsOwn(query, own, more)
         /\ HasGranted(query, tokens, few) => HasGranted(query, tokens, more)
BY DEF KeepsOwn, HasGranted

(* What the assignment of a credential makes of an object. *)
LEMMA AssignedIs ==
  ASSUME NEW query, IsSeq(query), NEW p
  PROVE  /\ IsSeq(Assigned(query, p)) /\ Len(query) <= Len(Assigned(query, p))
         /\ p \in Range(Assigned(query, p))
         /\ \A i \in DOMAIN query :
              Assigned(query, p)[i] = IF query[i].name = p.name THEN p ELSE query[i]
         /\ \A i \in DOMAIN Assigned(query, p) \ DOMAIN query :
              /\ Assigned(query, p)[i] = p /\ i = Len(query) + 1
              /\ \A k \in DOMAIN query : query[k].name # p.name
         /\ DOMAIN query \subseteq DOMAIN Assigned(query, p)
         /\ DOMAIN query = 1 .. Len(query) /\ Len(query) \in Nat /\ Len(Assigned(query, p)) \in Nat
<1> DEFINE new == Assigned(query, p)
           S == Range(query) \cup {p}
<1>1. /\ query \in Seq(S) /\ Len(query) \in Nat /\ DOMAIN query = 1 .. Len(query)
      /\ \A i \in DOMAIN query : query[i] \in S
  <2>1. query \in Seq(S)
    BY SeqIn
  <2> HIDE DEF S
  <2> QED BY <2>1
<1>2. CASE \E i \in DOMAIN query : query[i].name = p.name
  <2>1. new = [i \in DOMAIN query |-> IF query[i].name = p.name THEN p ELSE query[i]]
    BY <1>2 DEF Assigned
  <2>2. p \in S
    OBVIOUS
  <2> HIDE DEF new, S
  <2>3. new \in [1 .. Len(query) -> S]
    BY <1>1, <2>1, <2>2
  <2>4. new \in Seq(S) /\ Len(new) = Len(query) /\ DOMAIN new = DOMAIN query
    BY <1>1, <2>3
  <2>5. p \in Range(new)
    BY <1>2, <2>1 DEF Range
  <2>6. /\ IsSeq(new) /\ Len(query) <= Len(new) /\ Len(new) \in Nat
        /\ DOMAIN query \subseteq DOMAIN new
    BY <1>1, <2>4, SeqIs
  <2>7. \A i \in DOMAIN query : new[i] = IF query[i].name = p.name THEN p ELSE query[i]
    BY <2>1
  <2>8. \A i \in DOMAIN new \ DOMAIN query :
          /\ new[i] = p /\ i = Len(query) + 1
          /\ \A k \in DOMAIN query : query[k].name # p.name
    BY <2>4
  <2> QED BY <1>1, <2>5, <2>6, <2>7, <2>8 DEF new
<1>3. CASE ~ \E i \in DOMAIN query : query[i].name = p.name
  <2>1. new = Append(query, p)
    BY <1>3 DEF Assigned
  <2> HIDE DEF new, S
  <2>2. /\ IsSeq(new) /\ Len(new) = Len(query) + 1 /\ DOMAIN new = 1 .. Len(query) + 1
        /\ new[Len(query) + 1] = p /\ \A i \in 1 .. Len(query) : new[i] = query[i]
    BY <2>1, AppendIs
  <2>3. p \in Range(new)
    BY <1>1, <2>2 DEF Range
  <2> QED BY <1>1, <1>3, <2>2, <2>3 DEF new
<1> QED BY <1>2, <1>3

LEMMA AssignedKeeps ==
  ASSUME NEW query, IsSeq(query), NEW own, IsSeq(own), NEW credentials, NEW p \in credentials,
         KeepsOwn(query, own, credentials),
         \A i \in DOMAIN own : own[i].name = p.name => ~ Truthy(own[i].value)
  PROVE  KeepsOwn(Assigned(query, p), own, credentials)
<1> DEFINE new == Assigned(query, p)
<1>1. /\ IsSeq(new) /\ Len(query) <= Len(new) /\ Len(query) \in Nat /\ Len(new) \in Nat
      /\ \A i \in DOMAIN query : new[i] = IF query[i].name = p.name THEN p ELSE query[i]
      /\ \A i \in DOMAIN new \ DOMAIN query :
           new[i] = p /\ i = Len(query) + 1 /\ \A k \in DOMAIN query : query[k].name # p.name
      /\ DOMAIN query = 1 .. Len(query)
  BY AssignedIs
<1>2. /\ Len(own) <= Len(query) /\ IsObject(query) /\ Len(own) \in Nat /\ DOMAIN own = 1 .. Len(own)
      /\ \A i \in DOMAIN query :
           \/ i \in DOMAIN own /\ query[i] = own[i]
           \/ /\ query[i] \in credentials
              /\ i \in DOMAIN own => query[i].name = own[i].name /\ ~ Truthy(own[i].value)
  BY AppendIs DEF KeepsOwn
<1> HIDE DEF new
<1>3. IsObject(new)
  <2> SUFFICES ASSUME NEW i \in DOMAIN new, NEW k \in DOMAIN new, new[i].name = new[k].name
               PROVE  i = k
    BY DEF IsObject
  <2>1. \A j \in DOMAIN query : new[j].name = query[j].name
    BY <1>1
  <2>2. CASE i \in DOMAIN query /\ k \in DOMAIN query
    BY <1>2, <2>1, <2>2 DEF IsObject
  <2>3. CASE ~ (i \in DOMAIN query /\ k \in DOMAIN query)
    BY <1>1, <2>1, <2>3
  <2> QED BY <2>2, <2>3
<1>4. ASSUME NEW i \in DOMAIN new
      PROVE  \/ i \in DOMAIN own /\ new[i] = own[i]
             \/ /\ new[i] \in credentials
                /\ i \in DOMAIN own => new[i].name = own[i].name /\ ~ Truthy(own[i].value)
  <2>1. CASE i \in DOMAIN query
    BY <1>1, <1>2, <2>1
  <2>2. CASE i \notin DOMAIN query
    <3>1. i \notin DOMAIN own /\ new[i] = p
      BY <1>1, <1>2, <2>2
    <3> QED BY <3>1
  <2> QED BY <2>1, <2>2
<1>5. Len(own) <= Len(new)
  BY <1>1, <1>2
<1> QED BY <1>3, <1>4, <1>5 DEF KeepsOwn, new

(* What a call was granted stays, or gives way to another credential. *)
LEMMA AssignedHas ==
  ASSUME NEW query, IsSeq(query), NEW tokens, NEW credentials, NEW p \in credentials,
         HasGranted(query, tokens, credentials)
  PROVE  HasGranted(Assigned(query, p), tokens, credentials)
<1> DEFINE new == Assigned(query, p)
<1>1. /\ p \in Range(new) /\ DOMAIN query \subseteq DOMAIN new
      /\ \A i \in DOMAIN query : new[i] = IF query[i].name = p.name THEN p ELSE query[i]
  BY AssignedIs
<1> HIDE DEF new
<1>2. \A i \in DOMAIN query : new[i] \in Range(new) /\ new[i].name = query[i].name
  BY <1>1 DEF Range
<1>3. \A i \in DOMAIN query : query[i] \in credentials => new[i] \in credentials
  BY <1>1
<1> SUFFICES ASSUME NEW t \in Range(tokens)
             PROVE  \E r \in Range(new) : r.name = NameOf(t[1]) /\ r \in credentials
  BY DEF HasGranted, new
<1>4. PICK i \in DOMAIN query : query[i].name = NameOf(t[1]) /\ query[i] \in credentials
  BY DEF HasGranted, Range
<1> QED BY <1>2, <1>3, <1>4

LEMMA AppendedTokens ==
  ASSUME NEW query, NEW tokens, IsSeq(tokens), NEW t, NEW credentials,
         HasGranted(query, tokens, credentials),
         \E p \in Range(query) : p.name = NameOf(t[1]) /\ p \in credentials
  PROVE  HasGranted(query, Append(tokens, t), credentials)
<1> DEFINE more == Append(tokens, t)
<1>1. /\ DOMAIN more = 1 .. Len(tokens) + 1 /\ DOMAIN tokens = 1 .. Len(tokens)
      /\ Len(tokens) \in Nat /\ more[Len(tokens) + 1] = t
      /\ \A i \in 1 .. Len(tokens) : more[i] = tokens[i]
  BY AppendIs
<1> HIDE DEF more
<1>2. \A r \in Range(more) : r = t \/ r \in Range(tokens)
  BY <1>1 DEF Range
<1> QED BY <1>2 DEF HasGranted, more

(* No token is ever taken back. *)
TokensGrow ==
  /\ Calls' = Calls
  /\ \A d \in Calls :
       /\ calls'[d].options = calls[d].options
       /\ Range(calls[d].tokens["query"]) \subseteq Range(calls'[d].tokens["query"])

LEMMA CredentialsGrow ==
  ASSUME TokensGrow, NEW object
  PROVE  CredentialsIn(object) \subseteq CredentialsIn(object)'
BY DEF TokensGrow, CredentialsIn, Calls

--------------------------------------------------------------------------------
(***************************************************************************)
(* One more credential.                                                    *)
(***************************************************************************)
Grants(call, next, scheme, token) ==
  /\ next.options = call.options /\ next.made = call.made
  /\ next.tokens = [call.tokens EXCEPT ![scheme.in] = Append(@, <<scheme, token>>)]

LEMMA HeaderType ==
  ASSUME NEW call, Carries(call), NEW name \in HeaderNames
  PROVE  IsSeq(Header(call.tokens["header"], name, WrittenHeader(call, name)))
<1> DEFINE own == SdkHeaders(call.options)
           base == call.made.headers[name]
<1>1. IsSeq(base) /\ HeadersOK(own)
  BY SdkOK DEF Typed, Carries
<1>2. IsSeq(WrittenHeader(call, name))
  <2>1. CASE name \notin DOMAIN own
    BY <1>1, <2>1 DEF WrittenHeader
  <2>2. CASE name \in DOMAIN own
    <3>1. IsSeq(own[name].values)
      BY <1>1, <2>2 DEF HeadersOK
    <3>2. WrittenHeader(call, name)
            = (IF own[name].op = "append" THEN base ELSE <<>>) \o own[name].values
      BY <2>2 DEF WrittenHeader
    <3> DEFINE first == IF own[name].op = "append" THEN base ELSE <<>>
               values == own[name].values
    <3>3. IsSeq(first) /\ IsSeq(values)
      BY <1>1, <3>1, EmptyIs
    <3>4. WrittenHeader(call, name) = first \o values
      BY <3>2
    <3> HIDE DEF first, values
    <3> QED BY <3>3, <3>4, JoinIs
  <2> QED BY <2>1, <2>2
<1> QED BY <1>2, SingleIs DEF Header

LEMMA TokenAdded ==
  ASSUME NEW tokens, Typed(tokens, Places), NEW at \in Places, NEW t, NEW next,
         DOMAIN next = DOMAIN tokens, next[at] = Append(tokens[at], t),
         \A place \in Places : place # at => next[place] = tokens[place]
  PROVE  Typed(next, Places)
<1>1. IsSeq(tokens[at])
  BY DEF Typed
<1>2. IsSeq(Append(tokens[at], t))
  BY <1>1, AppendIs
<1> QED BY <1>2 DEF Typed

LEMMA QueryGranted ==
  ASSUME NEW call, Carries(call), NEW scheme, scheme.in = "query", NEW token, NEW next,
         Grants(call, next, scheme, token), next.headers = call.headers
  PROVE  Carries(next)
<1>1. /\ Typed(next.tokens, Places)
      /\ next.tokens["header"] = call.tokens["header"] /\ next.tokens["cookie"] = call.tokens["cookie"]
  <2>1. /\ Typed(call.tokens, Places) /\ scheme.in \in Places
        /\ next.tokens = [call.tokens EXCEPT !["query"] = Append(@, <<scheme, token>>)]
    BY DEF Carries, Places, Grants
  <2>2. /\ DOMAIN next.tokens = DOMAIN call.tokens
        /\ next.tokens["query"] = Append(call.tokens["query"], <<scheme, token>>)
        /\ \A place \in Places : place # "query" => next.tokens[place] = call.tokens[place]
    BY <2>1 DEF Typed, Places
  <2>3. Typed(next.tokens, Places)
    BY <2>1, <2>2, TokenAdded DEF Places
  <2> QED BY <2>2, <2>3 DEF Places
<1>2. \A name : WrittenHeader(next, name) = WrittenHeader(call, name)
  BY DEF WrittenHeader, Grants
<1>3. \A name \in HeaderNames : AskedHeader(next, name) = AskedHeader(call, name)
  BY <1>1, <1>2, AskedIs
<1> QED BY <1>1, <1>3 DEF Carries, Grants

LEMMA CookieGranted ==
  ASSUME NEW call, Carries(call), NEW scheme, scheme.in = "cookie", NEW token, NEW next,
         Grants(call, next, scheme, token),
         next.headers = [call.headers EXCEPT !["Cookie"] = Append(@, <<NameOf(scheme), token>>)]
  PROVE  Carries(next)
<1> DEFINE cookie == <<NameOf(scheme), token>>
           asked == Header(call.tokens["header"], "Cookie", WrittenHeader(call, "Cookie"))
           cookies == Cookies(call.tokens["cookie"])
<1>1. /\ Typed(next.tokens, Places) /\ next.tokens["header"] = call.tokens["header"]
      /\ next.tokens["cookie"] = Append(call.tokens["cookie"], <<scheme, token>>)
  <2> DEFINE t == <<scheme, token>>
  <2>1. Typed(call.tokens, Places) /\ next.tokens = [call.tokens EXCEPT !["cookie"] = Append(@, t)]
    BY DEF Carries, Grants
  <2> HIDE DEF t
  <2>2. /\ DOMAIN next.tokens = DOMAIN call.tokens
        /\ next.tokens["cookie"] = Append(call.tokens["cookie"], t)
        /\ \A place \in Places : place # "cookie" => next.tokens[place] = call.tokens[place]
    BY <2>1 DEF Typed, Places
  <2>3. Typed(next.tokens, Places)
    BY <2>1, <2>2, TokenAdded DEF Places
  <2> QED BY <2>2, <2>3 DEF Places, t
<1>2. IsSeq(call.tokens["cookie"]) /\ "Cookie" \in HeaderNames
  BY DEF Carries, Typed, Places, HeaderNames
<1>3. IsSeq(cookies) /\ Cookies(next.tokens["cookie"]) = Append(cookies, cookie)
  BY <1>1, <1>2, CookiesType, CookieAppended
<1>4. \A name : WrittenHeader(next, name) = WrittenHeader(call, name)
  BY DEF WrittenHeader, Grants
<1>5. \A name \in HeaderNames : name # "Cookie" => AskedHeader(next, name) = AskedHeader(call, name)
  BY <1>1, <1>4, AskedIs DEF ForCookies
<1>6. /\ AskedHeader(call, "Cookie") = asked \o cookies
      /\ AskedHeader(next, "Cookie") = asked \o Append(cookies, cookie)
  BY <1>1, <1>3, <1>4, AskedIs DEF ForCookies
<1>7. IsSeq(asked)
  BY <1>2, HeaderType
<1> HIDE DEF asked, cookies, cookie
<1>8. AskedHeader(next, "Cookie") = Append(AskedHeader(call, "Cookie"), cookie)
  <2>1. asked \o Append(cookies, cookie) = Append(asked \o cookies, cookie)
    BY <1>3, <1>7, JoinAppended
  <2> QED BY <1>6, <2>1
<1>9. IsSeq(AskedHeader(next, "Cookie"))
  <2>1. IsSeq(Append(cookies, cookie))
    BY <1>3, AppendIs, Zenon
  <2>2. IsSeq(asked \o Append(cookies, cookie))
    BY <1>7, <2>1, JoinIs, Zenon
  <2> QED BY <1>6, <2>2
<1>10. /\ DOMAIN next.headers = HeaderNames
       /\ next.headers["Cookie"] = Append(call.headers["Cookie"], cookie)
       /\ \A name \in HeaderNames : name # "Cookie" => next.headers[name] = call.headers[name]
  BY <1>2 DEF Carries, Typed, cookie
<1>11. call.headers["Cookie"] = AskedHeader(call, "Cookie")
  BY <1>2 DEF Carries
<1>12. \A name \in HeaderNames : next.headers[name] = AskedHeader(next, name)
  BY <1>5, <1>8, <1>10, <1>11 DEF Carries
<1>13. Typed(next.headers, HeaderNames)
  BY <1>9, <1>10, <1>12 DEF Carries, Typed
<1> QED BY <1>1, <1>12, <1>13 DEF Carries, Grants

(* A header that is granted was not there: it holds no cookie either. *)
LEMMA HeaderGranted ==
  ASSUME NEW call, Carries(call), NEW scheme, scheme.in = "header", NEW token, NEW next,
         Grants(call, next, scheme, token),
         scheme.name = "Cookie" => call.headers["Cookie"] = <<>>,
         next.headers = [call.headers EXCEPT ![NameOf(scheme)] = << <<scheme.scheme, token>> >>]
  PROVE  Carries(next)
<1> DEFINE granted == << <<scheme.scheme, token>> >>
           header == call.tokens["header"]
           cookies == Cookies(call.tokens["cookie"])
<1>1. /\ Typed(next.tokens, Places) /\ next.tokens["cookie"] = call.tokens["cookie"]
      /\ next.tokens["header"] = Append(header, <<scheme, token>>)
  <2> DEFINE t == <<scheme, token>>
  <2>1. Typed(call.tokens, Places) /\ next.tokens = [call.tokens EXCEPT !["header"] = Append(@, t)]
    BY DEF Carries, Grants
  <2> HIDE DEF t
  <2>2. /\ DOMAIN next.tokens = DOMAIN call.tokens
        /\ next.tokens["header"] = Append(call.tokens["header"], t)
        /\ \A place \in Places : place # "header" => next.tokens[place] = call.tokens[place]
    BY <2>1 DEF Typed, Places
  <2>3. Typed(next.tokens, Places)
    BY <2>1, <2>2, TokenAdded DEF Places
  <2> QED BY <2>2, <2>3 DEF Places, t
<1>2. IsSeq(header) /\ IsSeq(call.tokens["cookie"])
  BY DEF Carries, Typed, Places
<1>3. \A name : WrittenHeader(next, name) = WrittenHeader(call, name)
  BY DEF WrittenHeader, Grants
<1>4. \A name, written : Header(next.tokens["header"], name, written) =
        IF name = NameOf(scheme) THEN granted ELSE Header(header, name, written)
  BY <1>1, <1>2, GrantAppended
<1>5. IsSeq(granted)
  BY SingleIs
<1> HIDE DEF granted
<1>6. ASSUME NEW name \in HeaderNames
      PROVE  AskedHeader(next, name) = IF name = NameOf(scheme) THEN granted
                                                               ELSE AskedHeader(call, name)
  <2>1. CASE name # NameOf(scheme)
    BY <1>1, <1>3, <1>4, <2>1, AskedIs
  <2>2. CASE name = NameOf(scheme)
    <3>1. ForCookies(name, call.tokens["cookie"]) = <<>>
      <4>1. CASE name # "Cookie"
        BY <4>1 DEF ForCookies
      <4>2. CASE name = "Cookie"
        <5>1. scheme.name = "Cookie" /\ call.headers["Cookie"] = <<>>
          BY <2>2, <4>2 DEF NameOf
        <5>2. Header(header, name, WrittenHeader(call, name)) \o cookies = <<>>
          BY <4>2, <5>1, AskedIs DEF Carries, ForCookies
        <5>3. IsSeq(Header(header, name, WrittenHeader(call, name))) /\ IsSeq(cookies)
          BY <1>2, HeaderType, CookiesType
        <5> HIDE DEF cookies
        <5>4. Len(cookies) = 0
          BY <5>2, <5>3, JoinIs, EmptyIs
        <5>5. cookies = <<>>
          BY <5>3, <5>4, EmptyIs, SameElements
        <5> QED BY <4>2, <5>5 DEF ForCookies, cookies
      <4> QED BY <4>1, <4>2
    <3>2. AskedHeader(next, name) = granted \o <<>>
      BY <1>1, <1>4, <2>2, <3>1, AskedIs
    <3> QED BY <1>5, <2>2, <3>2, JoinIs
  <2> QED BY <2>1, <2>2
<1>7. /\ DOMAIN next.headers = HeaderNames
      /\ \A name \in HeaderNames :
           next.headers[name] = IF name = NameOf(scheme) THEN granted ELSE call.headers[name]
  BY DEF Carries, Typed, granted
<1> QED BY <1>1, <1>5, <1>6, <1>7 DEF Carries, Grants, Typed

--------------------------------------------------------------------------------
(***************************************************************************)
(* The steps.                                                              *)
(***************************************************************************)
KeptFields == {"options", "todo", "headers", "baseUrl", "sent", "made", "tokens"}

LEMMA SameAsked ==
  ASSUME NEW call, NEW next,
         next.options = call.options, next.made = call.made, next.tokens = call.tokens
  PROVE  \A name : AskedHeader(next, name) = AskedHeader(call, name)
<1>1. \A name : WrittenHeader(next, name) = WrittenHeader(call, name)
  BY DEF WrittenHeader
<1> QED BY <1>1, AskedIs

LEMMA MadeSame ==
  ASSUME NEW call, MadeOK(call), call.step # "idle", NEW next,
         \A f \in KeptFields : next[f] = call[f], next.step \notin {"idle", "auth", "token"}
  PROVE  MadeOK(next)
<1>1. /\ next.options = call.options /\ next.todo = call.todo /\ next.headers = call.headers
      /\ next.baseUrl = call.baseUrl /\ next.sent = call.sent /\ next.made = call.made
      /\ next.tokens = call.tokens
  BY DEF KeptFields
<1>2. Carries(next)
  BY <1>1, SameAsked DEF MadeOK, Carries
<1>3. HeadersSent(next) = HeadersSent(call)
  BY <1>1 DEF HeadersSent
<1>4. \A query : UrlOf(next, query) = UrlOf(call, query)
  BY <1>1 DEF UrlOf
<1> QED BY <1>1, <1>2, <1>3, <1>4 DEF MadeOK

LEMMA BeforeRequestMade ==
  ASSUME MInv, NEW c \in Calls, beforeRequest(c)
  PROVE  /\ MadeOK(calls'[c]) /\ TokensGrow
         /\ calls'[c].tokens = calls[c].tokens /\ calls'[c].sent = calls[c].sent
<1> DEFINE call == calls[c]
           next == calls'[c]
           headers == mergeHeaders(config.headers, SdkHeaders(call.options))
           fields == [step |-> "auth", todo |-> call.options.security, headers |-> headers,
                      baseUrl |-> config.baseUrl, made |-> config]
<1>1. Becomes(c, fields) /\ call.step = "idle" /\ DOMAIN call = CallFields
  BY DEF beforeRequest, At, MInv, HInv, Sound, CallOK
<1>2. /\ OptionsOK(call.options) /\ call.tokens = [place \in Places |-> <<>>] /\ call.sent = <<>>
      /\ Typed(config.headers, HeaderNames)
  BY <1>1 DEF MInv, MadeOK
<1>3. Typed(headers, HeaderNames)
  BY <1>2, SdkOK, MergedType
<1>4. headers = mergeHeaders(config.headers, SdkHeaders(call.options))
  OBVIOUS
<1> HIDE DEF headers
<1>5. DOMAIN fields \subseteq CallFields
  BY DEF CallFields
<1>6. /\ next.step = "auth" /\ next.todo = call.options.security /\ next.headers = headers
      /\ next.baseUrl = config.baseUrl /\ next.made = config
      /\ next.options = call.options /\ next.tokens = call.tokens /\ next.sent = call.sent
      /\ TokensGrow
  BY <1>1, <1>5, BecomesIs DEF CallFields, TokensGrow
<1> HIDE DEF next, call
<1>7. Typed(next.tokens, Places)
  BY <1>2, <1>6, EmptyIs DEF Typed
<1>8. \A name \in HeaderNames : AskedHeader(next, name) = headers[name]
  BY <1>2, <1>4, <1>6, AskedFirst
<1>9. Carries(next)
  BY <1>2, <1>3, <1>6, <1>7, <1>8 DEF Carries
<1>10. SecurityOK(next.todo)
  BY <1>2, <1>6 DEF OptionsOK
<1>11. MadeOK(next)
  BY <1>2, <1>6, <1>9, <1>10 DEF MadeOK
<1> QED BY <1>6, <1>11 DEF next, call

LEMMA RestOfSecurity ==
  ASSUME NEW todo, SecurityOK(todo), todo # <<>>
  PROVE  SecurityOK(Tail(todo)) /\ Head(todo).in \in Places
<1> DEFINE S == Range(todo)
<1>1. todo \in Seq(S) /\ Len(todo) \in Nat /\ DOMAIN todo = 1 .. Len(todo)
  BY AppendIs DEF SecurityOK, IsSeq
<1> HIDE DEF S
<1>2. Tail(todo) \in Seq(S) /\ Head(todo) = todo[1] /\ 1 \in DOMAIN todo
  BY <1>1
<1>3. \A i \in DOMAIN Tail(todo) : i + 1 \in DOMAIN todo /\ Tail(todo)[i] = todo[i + 1]
  BY <1>1
<1>4. IsSeq(Tail(todo))
  BY <1>2, SeqIs
<1> QED BY <1>2, <1>3, <1>4 DEF SecurityOK

(* A call that is getting its credentials. *)
LEMMA StillMade ==
  ASSUME NEW call, MadeOK(call), call.step \in {"auth", "token"}, NEW next, Carries(next),
         SecurityOK(next.todo), next.options = call.options, next.step \in {"auth", "token"},
         next.step = "token" => Checked(next),
         next.sent = call.sent, next.baseUrl = call.baseUrl, next.made = call.made
  PROVE  MadeOK(next)
BY DEF MadeOK

(* The next credential is skipped: its name is there, or no token came. *)
LEMMA SkipMade ==
  ASSUME MInv, NEW c \in Calls, calls[c].step \in {"auth", "token"}, calls[c].todo # <<>>,
         \/ calls[c].step = "auth" /\ Becomes(c, [todo |-> Tail(calls[c].todo)])
         \/ Becomes(c, [step |-> "auth", todo |-> Tail(calls[c].todo)])
  PROVE  MadeOK(calls'[c]) /\ OnlyOf(c, {"step", "todo"})
<1> DEFINE call == calls[c]
           next == calls'[c]
           todo == Tail(call.todo)
<1>1. DOMAIN call = CallFields /\ MadeOK(call)
  BY DEF MInv, HInv, Sound, CallOK
<1>2. todo = Tail(call.todo)
  OBVIOUS
<1> HIDE DEF todo
<1>3. OnlyOf(c, {"step", "todo"}) /\ next.todo = todo /\ next.step = "auth"
  <2>1. CASE call.step = "auth" /\ Becomes(c, [todo |-> todo])
    <3>1. DOMAIN [todo |-> todo] \subseteq CallFields
      BY DEF CallFields
    <3> QED BY <1>1, <2>1, <3>1, BecomesIs DEF OnlyOf, CallFields
  <2>2. CASE Becomes(c, [step |-> "auth", todo |-> todo])
    <3>1. DOMAIN [step |-> "auth", todo |-> todo] \subseteq CallFields
      BY DEF CallFields
    <3> QED BY <1>1, <2>2, <3>1, BecomesIs DEF OnlyOf, CallFields
  <2> QED BY <2>1, <2>2, Zenon DEF todo
<1>4. /\ next.options = call.options /\ next.tokens = call.tokens /\ next.sent = call.sent
      /\ next.baseUrl = call.baseUrl /\ next.made = call.made /\ next.headers = call.headers
  BY <1>3 DEF OnlyOf, CallFields
<1>5. call.step \in {"auth", "token"} /\ call.todo # <<>>
  OBVIOUS
<1>6. Carries(call) /\ SecurityOK(call.todo)
  BY <1>1, <1>5 DEF MadeOK
<1> HIDE DEF call, next
<1>7. Carries(next)
  BY <1>4, <1>6, SameAsked DEF Carries
<1>8. SecurityOK(next.todo)
  BY <1>2, <1>3, <1>5, <1>6, RestOfSecurity
<1>9. MadeOK(next)
  BY <1>1, <1>3, <1>4, <1>5, <1>7, <1>8, StillMade
<1> QED BY <1>3, <1>9 DEF next

LEMMA AwaitMade ==
  ASSUME MInv, NEW c \in Calls, setAuthParamsAwaits(c)
  PROVE  MadeOK(calls'[c]) /\ OnlyOf(c, {"step", "todo"})
<1> DEFINE call == calls[c]
           next == calls'[c]
           scheme == Head(call.todo)
           own == OwnQuery(call)
           held == QueryOf(call.options)
<1>1. /\ DOMAIN call = CallFields /\ MadeOK(call) /\ call.step = "auth" /\ call.todo # <<>>
      /\ ~ checkForExistence(call, scheme)
  BY DEF setAuthParamsAwaits, At, MInv, HInv, Sound, CallOK
<1>2. OnlyOf(c, {"step"}) /\ next.step = "token"
  <2>1. DOMAIN [step |-> "token"] \subseteq CallFields
    BY DEF CallFields
  <2>2. Becomes(c, [step |-> "token"])
    BY DEF setAuthParamsAwaits
  <2> QED BY <1>1, <2>1, <2>2, BecomesIs DEF OnlyOf, CallFields
<1>3. /\ next.options = call.options /\ next.tokens = call.tokens /\ next.sent = call.sent
      /\ next.baseUrl = call.baseUrl /\ next.made = call.made /\ next.headers = call.headers
      /\ next.todo = call.todo
  BY <1>2 DEF OnlyOf, CallFields
<1>4. Carries(call) /\ SecurityOK(call.todo)
  BY <1>1 DEF MadeOK
<1>5. scheme.in # "header" => scheme.name # ""
  <2>1. scheme = call.todo[1] /\ 1 \in DOMAIN call.todo
    <3>1. IsSeq(call.todo)
      BY <1>4 DEF SecurityOK
    <3>2. call.todo \in Seq(Range(call.todo))
      BY <3>1 DEF IsSeq
    <3> QED BY <1>1, <3>2
  <2> QED BY <1>4, <2>1 DEF SecurityOK
<1>6. scheme.name = "Cookie" => call.headers["Cookie"] = <<>>
  BY <1>1 DEF checkForExistence, HeaderNames
<1>7. ASSUME scheme.in = "query", NEW i \in DOMAIN own, own[i].name = scheme.name
      PROVE  ~ Truthy(own[i].value)
  <2>1. /\ i \in DOMAIN held /\ (held[i] = own[i] \/ ~ Truthy(own[i].value))
    <3>1. AskedQuery(call, held)
      BY DEF MInv, ObjectsOK
    <3>2. IsSeq(own) /\ IsSeq(held)
      BY <1>1, Given, EmptyIs DEF MInv, ObjectsOK, OwnQuery, QueryOf, MadeOK, OptionsOK
    <3> HIDE DEF held, own
    <3>3. /\ Len(own) <= Len(held) /\ DOMAIN own = 1 .. Len(own) /\ DOMAIN held = 1 .. Len(held)
          /\ Len(own) \in Nat /\ Len(held) \in Nat
      BY <3>1, <3>2, AppendIs DEF AskedQuery, KeepsOwn, own
    <3>4. i \in DOMAIN held
      BY <3>3
    <3> QED BY <3>1, <3>4 DEF AskedQuery, KeepsOwn, own
  <2>2. ~ (held[i].name = scheme.name /\ Truthy(held[i].value))
    <3>1. held[i] \in Range(held)
      BY <2>1 DEF Range
    <3> QED BY <1>1, <1>5, <1>7, <3>1 DEF checkForExistence
  <2> QED BY <1>7, <2>1, <2>2
<1>8. OwnQuery(next) = own
  BY <1>3 DEF OwnQuery
<1>9. Checked(next)
  BY <1>1, <1>3, <1>6, <1>7, <1>8 DEF Checked
<1> HIDE DEF call, next, own, held, scheme
<1>10. Carries(next)
  BY <1>3, <1>4, SameAsked DEF Carries
<1>11. MadeOK(next)
  BY <1>1, <1>2, <1>3, <1>4, <1>9, <1>10, StillMade
<1> QED BY <1>2, <1>11 DEF next, OnlyOf

(* A credential for a header, the query or the cookies. *)
GrantedFields == {"step", "todo", "headers", "local", "tokens"}

LEMMA GrantMade ==
  ASSUME MInv, NEW c \in Calls, calls[c].step = "token",
         NEW token, NEW headers, NEW local,
         Becomes(c, [step |-> "auth", todo |-> Tail(calls[c].todo), headers |-> headers,
                     local |-> local,
                     tokens |-> [calls[c].tokens EXCEPT ![Head(calls[c].todo).in] =
                                   Append(@, <<Head(calls[c].todo), token>>)]]),
         LET call == calls[c]
             scheme == Head(call.todo)
         IN  \/ scheme.in = "query" /\ headers = call.headers
             \/ /\ scheme.in = "cookie"
                /\ headers = [call.headers EXCEPT !["Cookie"] = Append(@, <<NameOf(scheme), token>>)]
             \/ /\ scheme.in = "header"
                /\ headers = [call.headers EXCEPT ![NameOf(scheme)] = <<<<scheme.scheme, token>>>>]
  PROVE  /\ MadeOK(calls'[c]) /\ OnlyOf(c, GrantedFields)
         /\ Grants(calls[c], calls'[c], Head(calls[c].todo), token)
<1> DEFINE call == calls[c]
           next == calls'[c]
           scheme == Head(call.todo)
           todo == Tail(call.todo)
           tokens == [call.tokens EXCEPT ![scheme.in] = Append(@, <<scheme, token>>)]
<1>1. /\ DOMAIN call = CallFields /\ MadeOK(call)
  BY DEF MInv, HInv, Sound, CallOK
<1>2. /\ Becomes(c, [step |-> "auth", todo |-> todo, headers |-> headers, local |-> local,
                     tokens |-> tokens])
      /\ tokens = [call.tokens EXCEPT ![scheme.in] = Append(@, <<scheme, token>>)]
      /\ todo = Tail(call.todo)
  OBVIOUS
<1> HIDE DEF tokens, todo
<1>3. DOMAIN [step |-> "auth", todo |-> todo, headers |-> headers, local |-> local,
              tokens |-> tokens] \subseteq CallFields
  BY DEF CallFields
<1>4. /\ next.todo = todo /\ next.step = "auth"
      /\ next.options = call.options /\ next.tokens = tokens /\ next.sent = call.sent
      /\ next.baseUrl = call.baseUrl /\ next.made = call.made /\ next.headers = headers
      /\ OnlyOf(c, GrantedFields)
  <2> DEFINE fields == [step |-> "auth", todo |-> todo, headers |-> headers, local |-> local,
                        tokens |-> tokens]
  <2>1. Becomes(c, fields) /\ DOMAIN call = CallFields /\ DOMAIN fields \subseteq CallFields
    BY <1>1, <1>2, <1>3
  <2>2. /\ DOMAIN fields = {"step", "todo", "headers", "local", "tokens"}
        /\ fields["step"] = "auth" /\ fields["todo"] = todo
        /\ fields["headers"] = headers /\ fields["tokens"] = tokens
    OBVIOUS
  <2> HIDE DEF fields
  <2>3. /\ Calls' = Calls /\ \A d \in Calls : d # c => calls'[d] = calls[d]
        /\ DOMAIN next = CallFields
        /\ \A f \in CallFields : next[f] = IF f \in DOMAIN fields THEN fields[f] ELSE call[f]
    BY <2>1, BecomesIs
  <2> QED BY <2>2, <2>3 DEF CallFields, OnlyOf, GrantedFields
<1>5. call.step = "token"
  OBVIOUS
<1>6. Carries(call) /\ SecurityOK(call.todo) /\ Checked(call)
  BY <1>1, <1>5 DEF MadeOK
<1> HIDE DEF call, next, scheme
<1>7. Grants(call, next, scheme, token) /\ call.todo # <<>>
      /\ (scheme.in = "header" /\ scheme.name = "Cookie" => call.headers["Cookie"] = <<>>)
  BY <1>2, <1>4, <1>6 DEF Grants, Checked, call, scheme
<1>8. \/ scheme.in = "query" /\ headers = call.headers
      \/ /\ scheme.in = "cookie"
         /\ headers = [call.headers EXCEPT !["Cookie"] = Append(@, <<NameOf(scheme), token>>)]
      \/ /\ scheme.in = "header"
         /\ headers = [call.headers EXCEPT ![NameOf(scheme)] = <<<<scheme.scheme, token>>>>]
  BY DEF call, scheme
<1>9. Carries(next)
  BY <1>4, <1>6, <1>7, <1>8, QueryGranted, CookieGranted, HeaderGranted
<1>10. SecurityOK(next.todo)
  <2>1. todo = Tail(call.todo)
    BY <1>2 DEF call
  <2>2. SecurityOK(Tail(call.todo))
    BY <1>6, <1>7, RestOfSecurity
  <2>3. next.todo = todo
    BY <1>4
  <2> QED BY <2>1, <2>2, <2>3
<1>11. MadeOK(next)
  BY <1>1, <1>4, <1>5, <1>9, <1>10, StillMade
<1> QED BY <1>4, <1>7, <1>11 DEF call, next, scheme

(* Whatever is granted elsewhere, the objects hold what they should, and so do
   the queries that were sent. *)
LEMMA ObjectsStay ==
  ASSUME MInv, UNCHANGED queries, TokensGrow,
         \A d \in Calls :
           /\ \/ calls'[d].tokens["query"] = calls[d].tokens["query"]
              \/ calls[d].options.query = 0
           /\ \/ calls'[d].sent = calls[d].sent
              \/ calls'[d].sent.query = QueryOf(calls[d].options)
  PROVE  ObjectsOK' /\ SentOK'
<1>1. \A q \in DOMAIN Queries :
        IsSeq(queries'[q]) /\ KeepsOwn(queries'[q], Queries[q], CredentialsIn(q)')
  BY CredentialsGrow, MoreCredentials DEF MInv, ObjectsOK
<1>2. ASSUME NEW d \in Calls, NEW query, AskedQuery(calls[d], query)
      PROVE  AskedQuery(calls[d], query)'
  <2> DEFINE object == calls[d].options.query
  <2>1. calls'[d].options = calls[d].options
    BY DEF TokensGrow
  <2>2. CredentialsIn(object) \subseteq CredentialsIn(calls[d].options.query)'
    <3>1. ASSUME NEW o, o = object, calls'[d].options.query = o
          PROVE  CredentialsIn(object) \subseteq CredentialsIn(calls[d].options.query)'
      <4>1. CredentialsIn(o) \subseteq CredentialsIn(o)'
        BY CredentialsGrow
      <4> QED BY <3>1, <4>1 DEF CredentialsIn
    <3> QED BY <2>1, <3>1
  <2>3. OwnQuery(calls'[d]) = OwnQuery(calls[d])
    BY <2>1 DEF OwnQuery
  <2>4. KeepsOwn(query, OwnQuery(calls[d]), CredentialsIn(calls[d].options.query)')
    BY <1>2, <2>2, MoreCredentials DEF AskedQuery
  <2>5. object # 0 =>
          HasGranted(query, calls'[d].tokens["query"], CredentialsIn(calls[d].options.query)')
    BY <1>2, <2>2, MoreCredentials DEF AskedQuery
  <2> QED BY <2>1, <2>3, <2>4, <2>5 DEF AskedQuery, OwnQuery
<1>3. \A d \in Calls : QueryOf(calls[d].options)' = QueryOf(calls[d].options)
  BY DEF QueryOf, TokensGrow
<1>4. \A d \in Calls : AskedQuery(calls[d], QueryOf(calls[d].options))'
  <2> SUFFICES ASSUME NEW d \in Calls PROVE AskedQuery(calls[d], QueryOf(calls[d].options))'
    OBVIOUS
  <2>1. AskedQuery(calls[d], QueryOf(calls[d].options))
    BY DEF MInv, ObjectsOK
  <2> QED BY <1>2, <1>3, <2>1 DEF AskedQuery
<1>5. ObjectsOK'
  BY <1>1, <1>4 DEF ObjectsOK, MInv, TokensGrow
<1>6. SentOK'
  <2> SUFFICES ASSUME NEW d \in Calls, Sent(d)' PROVE AskedQuery(calls[d], calls[d].sent.query)'
    BY DEF SentOK, TokensGrow
  <2>1. CASE calls'[d].sent = calls[d].sent
    <3>1. AskedQuery(calls[d], calls[d].sent.query)
      BY <2>1 DEF MInv, SentOK, Sent
    <3> QED BY <1>2, <2>1, <3>1 DEF AskedQuery
  <2>2. CASE calls'[d].sent.query = QueryOf(calls[d].options)
    <3>1. AskedQuery(calls[d], QueryOf(calls[d].options))
      BY DEF MInv, ObjectsOK
    <3> QED BY <1>2, <2>2, <3>1 DEF AskedQuery
  <2> QED BY <2>1, <2>2
<1> QED BY <1>5, <1>6

LEMMA GrantedGrow ==
  ASSUME MInv, NEW c \in Calls, NEW scheme, NEW token, calls[c].step = "token",
         OnlyOf(c, GrantedFields), Grants(calls[c], calls'[c], scheme, token)
  PROVE  /\ TokensGrow /\ IsSeq(calls[c].tokens["query"])
         /\ scheme.in # "query" => calls'[c].tokens["query"] = calls[c].tokens["query"]
         /\ scheme.in = "query" =>
              calls'[c].tokens["query"] = Append(calls[c].tokens["query"], <<scheme, token>>)
<1> DEFINE tokens == calls[c].tokens
           t == <<scheme, token>>
<1>1. Typed(tokens, Places) /\ "query" \in DOMAIN tokens /\ IsSeq(tokens["query"])
  BY DEF MInv, MadeOK, Carries, Typed, Places
<1>2. calls'[c].tokens = [tokens EXCEPT ![scheme.in] = Append(@, t)]
      /\ calls'[c].options = calls[c].options
  BY DEF Grants
<1> HIDE DEF t, tokens
<1>3. /\ scheme.in # "query" => calls'[c].tokens["query"] = tokens["query"]
      /\ scheme.in = "query" => calls'[c].tokens["query"] = Append(tokens["query"], t)
  BY <1>1, <1>2
<1>4. Range(tokens["query"]) \subseteq Range(calls'[c].tokens["query"])
  <2>1. Range(tokens["query"]) \subseteq Range(Append(tokens["query"], t))
    <3> DEFINE own == tokens["query"]
               more == Append(own, t)
    <3>1. /\ DOMAIN own = 1 .. Len(own) /\ DOMAIN more = 1 .. Len(own) + 1 /\ Len(own) \in Nat
          /\ \A i \in 1 .. Len(own) : more[i] = own[i]
      BY <1>1, AppendIs
    <3> HIDE DEF own, more
    <3>2. Range(own) \subseteq Range(more)
      BY <3>1 DEF Range
    <3> QED BY <3>2 DEF own, more
  <2> QED BY <1>3, <2>1
<1>5. TokensGrow
  BY <1>2, <1>4 DEF TokensGrow, OnlyOf, tokens
<1> QED BY <1>1, <1>3, <1>5 DEF t, tokens

(* A credential that goes into an object. *)
LEMMA ObjectAssigned ==
  ASSUME MInv, NEW c \in Calls, NEW scheme, NEW token, calls[c].step = "token",
         scheme = Head(calls[c].todo), scheme.in = "query",
         NEW object, object = calls[c].options.query, object # 0,
         queries' = [queries EXCEPT ![object] = Assigned(@, Credential(NameOf(scheme), token))],
         OnlyOf(c, GrantedFields), Grants(calls[c], calls'[c], scheme, token)
  PROVE  ObjectsOK' /\ SentOK'
<1> DEFINE p == Credential(NameOf(scheme), token)
           new == Assigned(queries[object], p)
           t == <<scheme, token>>
<1>1. /\ TokensGrow /\ IsSeq(calls[c].tokens["query"])
      /\ calls'[c].tokens["query"] = Append(calls[c].tokens["query"], <<scheme, token>>)
  BY GrantedGrow
<1>2. MadeOK(calls[c]) /\ calls[c].sent = <<>> /\ object \in DOMAIN Queries
  BY DEF MInv, MadeOK, OptionsOK
<1>3. /\ scheme.name # "" /\ NameOf(scheme) = scheme.name
      /\ \A i \in DOMAIN Queries[object] :
           Queries[object][i].name = scheme.name => ~ Truthy(Queries[object][i].value)
  <2>1. Checked(calls[c]) /\ SecurityOK(calls[c].todo) /\ OwnQuery(calls[c]) = Queries[object]
    BY <1>2 DEF MadeOK, OwnQuery
  <2>2. scheme.name # ""
    <3>1. calls[c].todo \in Seq(Range(calls[c].todo)) /\ calls[c].todo # <<>>
      BY <2>1 DEF SecurityOK, IsSeq, Checked
    <3>2. scheme = calls[c].todo[1] /\ 1 \in DOMAIN calls[c].todo
      BY <3>1
    <3> QED BY <2>1, <3>2 DEF SecurityOK
  <2> QED BY <2>1, <2>2 DEF Checked, NameOf
<1>4. p.name = NameOf(scheme) /\ t[1] = scheme /\ t[2] = token
  BY DEF Credential
<1>5. p \in CredentialsIn(object)'
  <2>1. t \in Range(calls'[c].tokens["query"])
    <3> DEFINE own == calls[c].tokens["query"]
    <3> HIDE DEF t, own
    <3>1. DOMAIN Append(own, t) = 1 .. Len(own) + 1 /\ Len(own) \in Nat
          /\ Append(own, t)[Len(own) + 1] = t
      BY <1>1, AppendIs DEF own
    <3>2. t \in Range(Append(own, t))
      BY <3>1 DEF Range
    <3> QED BY <1>1, <3>2 DEF own, t
  <2>2. c \in Calls' /\ calls'[c].options.query = object
    BY <1>1 DEF TokensGrow
  <2>3. p \in {Credential(NameOf(u[1]), u[2]) : u \in Range(calls'[c].tokens["query"])}
    BY <1>4, <2>1
  <2> HIDE DEF p, t
  <2> QED BY <2>2, <2>3 DEF CredentialsIn
<1>6. /\ DOMAIN queries' = DOMAIN Queries /\ queries'[object] = new
      /\ \A q \in DOMAIN Queries : q # object => queries'[q] = queries[q]
  BY <1>2 DEF MInv, ObjectsOK
<1>7. /\ IsSeq(queries[object]) /\ IsSeq(Queries[object])
      /\ KeepsOwn(queries[object], Queries[object], CredentialsIn(object)')
  BY <1>1, <1>2, Given, CredentialsGrow, MoreCredentials DEF MInv, ObjectsOK
<1>8. IsSeq(new) /\ p \in Range(new)
  <2> HIDE DEF p
  <2> QED BY <1>7, AssignedIs
<1>9. KeepsOwn(new, Queries[object], CredentialsIn(object)')
  <2> HIDE DEF p
  <2> QED BY <1>3, <1>4, <1>5, <1>7, AssignedKeeps
<1>10. ASSUME NEW d \in Calls
       PROVE  AskedQuery(calls[d], QueryOf(calls[d].options))'
  <2> DEFINE q == calls[d].options.query
             own == OwnQuery(calls[d])
             mine == calls[d].tokens["query"]
             held == QueryOf(calls[d].options)
             now == IF q = 0 THEN <<>> ELSE queries'[q]
             all == CredentialsIn(q)
             more == CredentialsIn(calls[d].options.query)'
  <2>1. /\ calls'[d].options = calls[d].options /\ OwnQuery(calls'[d]) = own
        /\ QueryOf(calls[d].options)' = now
    BY <1>1 DEF TokensGrow, OwnQuery, QueryOf
  <2>2. KeepsOwn(held, own, all) /\ (q # 0 => HasGranted(held, mine, all))
    BY DEF MInv, ObjectsOK, AskedQuery
  <2>3. all \subseteq more
    <3>1. ASSUME NEW o, o = q, calls'[d].options.query = o
          PROVE  CredentialsIn(q) \subseteq CredentialsIn(calls[d].options.query)'
      <4>1. CredentialsIn(o) \subseteq CredentialsIn(o)'
        BY <1>1, CredentialsGrow
      <4> QED BY <3>1, <4>1 DEF CredentialsIn
    <3> QED BY <2>1, <3>1
  <2>4. KeepsOwn(held, own, more) /\ (q # 0 => HasGranted(held, mine, more))
    BY <2>2, <2>3, MoreCredentials
  <2>5. calls'[d].tokens["query"] = IF d = c THEN Append(mine, t) ELSE mine
    BY <1>1 DEF OnlyOf
  <2>6. CASE q # object
    <3>1. d # c
      BY <2>6
    <3>2. now = held
      <4>1. q = 0 \/ q \in DOMAIN Queries
        BY DEF MInv, MadeOK, OptionsOK
      <4> QED BY <1>6, <2>6, <4>1 DEF QueryOf
    <3> QED BY <2>1, <2>4, <2>5, <3>1, <3>2 DEF AskedQuery
  <2>7. CASE q = object
    <3>1. now = new /\ held = queries[object] /\ own = Queries[object]
      BY <1>6, <2>7 DEF QueryOf, OwnQuery
    <3>2. more = CredentialsIn(object)'
      BY <2>1, <2>7 DEF CredentialsIn
    <3>3. HasGranted(queries[object], mine, more) /\ p \in more
      BY <1>5, <2>4, <2>7, <3>1, <3>2
    <3>4. HasGranted(new, mine, more)
      <4> HIDE DEF p, more, mine
      <4> QED BY <1>7, <3>3, AssignedHas
    <3>5. HasGranted(new, calls'[d].tokens["query"], more)
      <4>1. CASE d # c
        BY <2>5, <3>4, <4>1
      <4>2. CASE d = c
        <5>1. \E r \in Range(new) : r.name = NameOf(t[1]) /\ r \in more
          BY <1>4, <1>8, <3>3
        <5> HIDE DEF new, more, t, mine
        <5>2. IsSeq(mine)
          BY <1>1, <4>2 DEF mine
        <5>3. HasGranted(new, Append(mine, t), more)
          BY <3>4, <5>1, <5>2, AppendedTokens
        <5> QED BY <2>5, <4>2, <5>3
      <4> QED BY <4>1, <4>2
    <3>7. KeepsOwn(new, own, more)
      BY <1>9, <3>1, <3>2
    <3> HIDE DEF new, more, own
    <3> QED BY <2>1, <3>1, <3>5, <3>7 DEF AskedQuery, more
  <2> QED BY <2>6, <2>7
<1>11. \A q \in DOMAIN Queries :
         IsSeq(queries'[q]) /\ KeepsOwn(queries'[q], Queries[q], CredentialsIn(q)')
  <2> SUFFICES ASSUME NEW q \in DOMAIN Queries
               PROVE  IsSeq(queries'[q]) /\ KeepsOwn(queries'[q], Queries[q], CredentialsIn(q)')
    OBVIOUS
  <2>1. CASE q = object
    BY <1>6, <1>8, <1>9, <2>1
  <2>2. CASE q # object
    <3>1. IsSeq(queries[q]) /\ KeepsOwn(queries[q], Queries[q], CredentialsIn(q))
      BY DEF MInv, ObjectsOK
    <3>2. CredentialsIn(q) \subseteq CredentialsIn(q)'
      BY <1>1, CredentialsGrow
    <3> QED BY <1>6, <2>2, <3>1, <3>2, MoreCredentials
  <2> QED BY <2>1, <2>2
<1>12. ObjectsOK'
  BY <1>1, <1>6, <1>10, <1>11 DEF ObjectsOK, TokensGrow
<1>13. SentOK'
  <2> SUFFICES ASSUME NEW d \in Calls, Sent(d)' PROVE AskedQuery(calls[d], calls[d].sent.query)'
    BY <1>1 DEF SentOK, TokensGrow
  <2>1. d # c
    <3>1. calls'[c].sent = calls[c].sent
      BY DEF OnlyOf, CallFields, GrantedFields
    <3> QED BY <1>2, <3>1 DEF Sent
  <2>2. calls'[d] = calls[d]
    BY <2>1 DEF OnlyOf
  <2>3. AskedQuery(calls[d], calls[d].sent.query)
    BY <2>2 DEF MInv, SentOK, Sent
  <2>4. CredentialsIn(calls[d].options.query) \subseteq CredentialsIn(calls[d].options.query)'
    <3>1. ASSUME NEW o, o = calls[d].options.query
          PROVE  CredentialsIn(calls[d].options.query)
                   \subseteq CredentialsIn(calls[d].options.query)'
      <4>1. CredentialsIn(o) \subseteq CredentialsIn(o)'
        BY <1>1, CredentialsGrow
      <4> QED BY <2>2, <3>1, <4>1 DEF CredentialsIn
    <3> QED BY <3>1
  <2> QED BY <2>2, <2>3, <2>4, MoreCredentials DEF AskedQuery, OwnQuery
<1> QED BY <1>12, <1>13

LEMMA KeptTokens ==
  ASSUME NEW c \in Calls, NEW changed, OnlyOf(c, changed), {"options", "tokens"} \cap changed = {}
  PROVE  TokensGrow /\ calls'[c].tokens = calls[c].tokens
BY DEF OnlyOf, CallFields, TokensGrow

LEMMA SetAuthParamsMade ==
  ASSUME MInv, NEW c \in Calls,
         setAuthParamsSkips(c) \/ setAuthParamsAwaits(c) \/ setAuthParams(c)
  PROVE  MadeOK(calls'[c]) /\ ObjectsOK' /\ SentOK'
<1> DEFINE call == calls[c]
           scheme == Head(call.todo)
           Keeps == \/ Becomes(c, [step |-> "auth", todo |-> Tail(call.todo)])
                    \/ call.step = "auth" /\ Becomes(c, [todo |-> Tail(call.todo)])
<1>1. ASSUME OnlyOf(c, {"step", "todo"}), UNCHANGED queries
      PROVE  ObjectsOK' /\ SentOK'
  <2>1. TokensGrow /\ calls'[c].tokens = calls[c].tokens
    BY <1>1, KeptTokens
  <2>2. calls'[c].sent = calls[c].sent
    BY <1>1 DEF OnlyOf, CallFields
  <2>3. \A d \in Calls : calls'[d].tokens["query"] = calls[d].tokens["query"]
                         /\ calls'[d].sent = calls[d].sent
    BY <1>1, <2>1, <2>2 DEF OnlyOf
  <2> QED BY <1>1, <2>1, <2>3, ObjectsStay
<1>2. ASSUME Keeps, UNCHANGED queries, call.step \in {"auth", "token"}, call.todo # <<>>
      PROVE  MadeOK(calls'[c]) /\ ObjectsOK' /\ SentOK'
  <2>1. MadeOK(calls'[c]) /\ OnlyOf(c, {"step", "todo"})
    BY <1>2, SkipMade
  <2> QED BY <1>1, <1>2, <2>1
<1>3. CASE setAuthParamsSkips(c)
  BY <1>2, <1>3 DEF setAuthParamsSkips, At
<1>4. CASE setAuthParamsAwaits(c)
  <2>1. UNCHANGED queries
    BY <1>4 DEF setAuthParamsAwaits
  <2> QED BY <1>1, <1>4, <2>1, AwaitMade
<1>5. CASE setAuthParams(c)
  <2> DEFINE Gets(token, headers, local) ==
               Becomes(c, [step |-> "auth", todo |-> Tail(call.todo), headers |-> headers,
                           local |-> local,
                           tokens |-> [call.tokens EXCEPT ![scheme.in] =
                                         Append(@, <<scheme, token>>)]])
             Into(token) ==
               /\ scheme.in = "query" /\ call.options.query # 0
               /\ queries' = [queries EXCEPT ![call.options.query] =
                                Assigned(@, Credential(NameOf(scheme), token))]
               /\ Gets(token, call.headers, call.local)
             Local(token) ==
               /\ scheme.in = "query" /\ call.options.query = 0
               /\ Gets(token, call.headers, call.local \cup {NameOf(scheme)})
               /\ UNCHANGED queries
             Cookie(token) ==
               /\ scheme.in = "cookie"
               /\ Gets(token, [call.headers EXCEPT !["Cookie"] = Append(@, <<NameOf(scheme), token>>)],
                       call.local)
               /\ UNCHANGED queries
             Named(token) ==
               /\ scheme.in = "header"
               /\ Gets(token, [call.headers EXCEPT ![NameOf(scheme)] = <<<<scheme.scheme, token>>>>],
                       call.local)
               /\ UNCHANGED queries
  <2>1. call.step = "token" /\ call.todo # <<>>
    BY <1>5 DEF setAuthParams, At, MInv, MadeOK, Checked
  <2>2. \/ Becomes(c, [step |-> "auth", todo |-> Tail(call.todo)]) /\ UNCHANGED queries
        \/ \E token \in Tokens : Into(token) \/ Local(token) \/ Cookie(token) \/ Named(token)
    BY <1>5, Zenon DEF setAuthParams
  <2>3. CASE Becomes(c, [step |-> "auth", todo |-> Tail(call.todo)]) /\ UNCHANGED queries
    BY <1>2, <2>1, <2>3
  <2>4. ASSUME NEW token \in Tokens, Into(token) \/ Local(token) \/ Cookie(token) \/ Named(token)
        PROVE  /\ MadeOK(calls'[c]) /\ OnlyOf(c, GrantedFields)
               /\ Grants(call, calls'[c], scheme, token)
    BY <2>1, <2>4, GrantMade
  <2>5. ASSUME NEW token \in Tokens, Into(token)
        PROVE  ObjectsOK' /\ SentOK'
    <3>1. OnlyOf(c, GrantedFields) /\ Grants(call, calls'[c], scheme, token)
      BY <2>4, <2>5
    <3>2. /\ scheme.in = "query" /\ call.options.query # 0
          /\ queries' = [queries EXCEPT ![call.options.query] =
                           Assigned(@, Credential(NameOf(scheme), token))]
      BY <2>5
    <3> HIDE DEF Gets, Into, Local, Cookie, Named
    <3> QED BY <2>1, <3>1, <3>2, ObjectAssigned
  <2>6. ASSUME NEW token \in Tokens, Local(token) \/ Cookie(token) \/ Named(token)
        PROVE  ObjectsOK' /\ SentOK'
    <3>1. OnlyOf(c, GrantedFields) /\ Grants(call, calls'[c], scheme, token)
      BY <2>4, <2>6
    <3>2. UNCHANGED queries /\ (scheme.in = "query" => call.options.query = 0)
      BY <2>6
    <3> HIDE DEF Gets, Into, Local, Cookie, Named
    <3>3. /\ TokensGrow
          /\ scheme.in # "query" => calls'[c].tokens["query"] = calls[c].tokens["query"]
      BY <2>1, <3>1, GrantedGrow
    <3>4. calls'[c].sent = calls[c].sent
      BY <3>1 DEF OnlyOf, CallFields, GrantedFields
    <3>5. \A d \in Calls :
            /\ \/ calls'[d].tokens["query"] = calls[d].tokens["query"]
               \/ calls[d].options.query = 0
            /\ calls'[d].sent = calls[d].sent
      BY <3>1, <3>2, <3>3, <3>4 DEF OnlyOf
    <3> QED BY <3>2, <3>3, <3>5, ObjectsStay
  <2> HIDE DEF Gets, Into, Local, Cookie, Named
  <2> QED BY <2>2, <2>3, <2>4, <2>5, <2>6
<1> QED BY <1>3, <1>4, <1>5

(* A step that is not about the request. *)
Passes(c) ==
  \E fields :
    /\ Becomes(c, fields)
    /\ DOMAIN fields \subseteq {"step", "loop", "response", "error", "outcome"}
    /\ IF "step" \in DOMAIN fields THEN fields["step"] \notin {"idle", "auth", "token"}
                                   ELSE calls[c].step \notin {"idle", "auth", "token"}

LEMMA SettlePasses ==
  ASSUME NEW c \in Calls, NEW outcome, Settle(c, outcome)
  PROVE  Passes(c)
<1> DEFINE fields == [step |-> "settled", outcome |-> outcome, loop |-> NoLoop]
<1>1. Becomes(c, fields)
  BY DEF Settle
<1>2. /\ DOMAIN fields = {"step", "outcome", "loop"} /\ fields["step"] = "settled"
  OBVIOUS
<1> HIDE DEF fields
<1>3. /\ DOMAIN fields \subseteq {"step", "loop", "response", "error", "outcome"}
      /\ IF "step" \in DOMAIN fields THEN fields["step"] \notin {"idle", "auth", "token"}
                                     ELSE calls[c].step \notin {"idle", "auth", "token"}
  BY <1>2
<1> QED BY <1>1, <1>3, Zenon DEF Passes

LEMMA MovePasses ==
  ASSUME NEW c \in Calls, NEW fields, Becomes(c, fields),
         DOMAIN fields \subseteq {"step", "loop", "response", "error", "outcome"},
         IF "step" \in DOMAIN fields THEN fields["step"] \notin {"idle", "auth", "token"}
                                     ELSE calls[c].step \notin {"idle", "auth", "token"}
  PROVE  Passes(c)
BY DEF Passes

LEMMA PassesMade ==
  ASSUME MInv, NEW c \in Calls, Passes(c), calls[c].step # "idle"
  PROVE  /\ MadeOK(calls'[c]) /\ TokensGrow
         /\ calls'[c].tokens = calls[c].tokens /\ calls'[c].sent = calls[c].sent
<1>1. PICK fields :
        /\ Becomes(c, fields)
        /\ DOMAIN fields \subseteq {"step", "loop", "response", "error", "outcome"}
        /\ IF "step" \in DOMAIN fields THEN fields["step"] \notin {"idle", "auth", "token"}
                                       ELSE calls[c].step \notin {"idle", "auth", "token"}
  BY DEF Passes
<1>2. DOMAIN calls[c] = CallFields /\ MadeOK(calls[c])
  BY DEF MInv, HInv, Sound, CallOK
<1>3. DOMAIN fields \subseteq CallFields
  BY <1>1 DEF CallFields
<1>4. /\ \A f \in CallFields :
           calls'[c][f] = IF f \in DOMAIN fields THEN fields[f] ELSE calls[c][f]
      /\ Calls' = Calls /\ \A d \in Calls : d # c => calls'[d] = calls[d]
  BY <1>1, <1>2, <1>3, BecomesIs
<1>5. calls'[c].step \notin {"idle", "auth", "token"}
  BY <1>1, <1>4 DEF CallFields
<1>6. \A f \in KeptFields : calls'[c][f] = calls[c][f]
  BY <1>1, <1>4 DEF CallFields, KeptFields
<1>7. MadeOK(calls'[c])
  BY <1>2, <1>5, <1>6, MadeSame
<1> QED BY <1>4, <1>6, <1>7 DEF KeptFields, TokensGrow

LEMMA BuildRequestMade ==
  ASSUME MInv, NEW c \in Calls, BuildRequest(c)
  PROVE  /\ MadeOK(calls'[c]) /\ TokensGrow /\ calls'[c].tokens = calls[c].tokens
         /\ \/ calls'[c].sent = calls[c].sent
            \/ calls'[c].sent.query = QueryOf(calls[c].options)
<1> DEFINE call == calls[c]
           next == calls'[c]
           options == call.options
           query == QueryOf(options)
           url == getUrl(AddressOf(call), options.url, options.path, query, options.how)
           sent == [url |-> url, query |-> query, headers |-> HeadersSent(call),
                    body |-> getValidRequestBody(options)]
<1>1. /\ call.step = "auth" /\ DOMAIN call = CallFields /\ MadeOK(call)
  BY DEF BuildRequest, At, MInv, HInv, Sound, CallOK
<1>2. CASE Settle(c, Rejected("nested"))
  BY <1>1, <1>2, SettlePasses, PassesMade
<1>3. CASE Becomes(c, [step |-> "request", sent |-> sent])
  <2>1. /\ sent.url = url /\ sent.query = query /\ sent.headers = HeadersSent(call)
        /\ sent.body = getValidRequestBody(options)
    OBVIOUS
  <2>2. url = UrlOf(call, query)
    BY <1>1 DEF MadeOK, AddressOf, UrlOf
  <2>3. query = QueryOf(options)
    OBVIOUS
  <2> HIDE DEF sent, url, query
  <2>4. DOMAIN [step |-> "request", sent |-> sent] \subseteq CallFields
    BY DEF CallFields
  <2>5. OnlyOf(c, {"step", "sent"}) /\ next.step = "request" /\ next.sent = sent
    BY <1>1, <1>3, <2>4, BecomesIs DEF OnlyOf, CallFields
  <2>6. /\ next.options = call.options /\ next.todo = call.todo /\ next.headers = call.headers
        /\ next.baseUrl = call.baseUrl /\ next.made = call.made /\ next.tokens = call.tokens
    BY <2>5 DEF OnlyOf, CallFields
  <2>7. TokensGrow
    BY <2>5, KeptTokens
  <2> HIDE DEF next
  <2>8. Carries(next)
    BY <1>1, <2>6, SameAsked DEF MadeOK, Carries
  <2>9. HeadersSent(next) = HeadersSent(call)
    BY <2>6 DEF HeadersSent
  <2>10. UrlOf(next, query) = UrlOf(call, query)
    BY <2>6 DEF UrlOf
  <2>11. MadeOK(next)
    BY <1>1, <2>1, <2>2, <2>5, <2>6, <2>8, <2>9, <2>10 DEF MadeOK
  <2> QED BY <2>1, <2>3, <2>5, <2>6, <2>7, <2>11 DEF next
<1> QED BY <1>2, <1>3 DEF BuildRequest

LEMMA RunInterceptorPasses ==
  ASSUME NEW c \in Calls, RunInterceptor(c)
  PROVE  Passes(c)
<1> DEFINE loop == Advanced(c)
<1>1. calls[c].step \notin {"idle", "auth", "token"}
  BY DEF RunInterceptor, InLoop, Kinds
<1>2. \/ Becomes(c, [loop |-> loop])
      \/ \E r : Becomes(c, [loop |-> loop, response |-> r])
      \/ \E error : Becomes(c, [loop |-> loop, error |-> error])
  BY Zenon DEF RunInterceptor
<1> HIDE DEF loop
<1>3. ASSUME NEW r PROVE
        /\ DOMAIN [loop |-> loop] = {"loop"}
        /\ DOMAIN [loop |-> loop, response |-> r] = {"loop", "response"}
        /\ DOMAIN [loop |-> loop, error |-> r] = {"loop", "error"}
  OBVIOUS
<1>4. CASE Becomes(c, [loop |-> loop])
  BY <1>1, <1>3, <1>4, MovePasses
<1>5. ASSUME NEW r, Becomes(c, [loop |-> loop, response |-> r]) PROVE Passes(c)
  BY <1>1, <1>3, <1>5, MovePasses
<1>6. ASSUME NEW r, Becomes(c, [loop |-> loop, error |-> r]) PROVE Passes(c)
  BY <1>1, <1>3, <1>6, MovePasses
<1> QED BY <1>2, <1>4, <1>5, <1>6

LEMMA OthersPass ==
  ASSUME NEW c \in Calls, Call(c),
         ~ beforeRequest(c), ~ setAuthParamsSkips(c), ~ setAuthParamsAwaits(c), ~ setAuthParams(c),
         ~ BuildRequest(c)
  PROVE  Passes(c) /\ calls[c].step # "idle" /\ UNCHANGED queries
<1>1. ASSUME NEW step, step \notin {"idle", "auth", "token"}, Becomes(c, [step |-> step])
      PROVE  Passes(c)
  <2>1. DOMAIN [step |-> step] = {"step"} /\ [step |-> step]["step"] = step
    OBVIOUS
  <2> QED BY <1>1, <2>1, MovePasses
<1>2. ASSUME NEW step, step \notin {"idle", "auth", "token"}, NEW r,
             \/ Becomes(c, [step |-> step, loop |-> r])
             \/ Becomes(c, [step |-> step, response |-> r])
             \/ Becomes(c, [step |-> step, error |-> r])
      PROVE  Passes(c)
  <2>1. /\ DOMAIN [step |-> step, loop |-> r] = {"step", "loop"}
        /\ DOMAIN [step |-> step, response |-> r] = {"step", "response"}
        /\ DOMAIN [step |-> step, error |-> r] = {"step", "error"}
        /\ [step |-> step, loop |-> r]["step"] = step
        /\ [step |-> step, response |-> r]["step"] = step
        /\ [step |-> step, error |-> r]["step"] = step
    OBVIOUS
  <2> QED BY <1>2, <2>1, MovePasses
<1>3. calls[c].step # "idle"
  BY DEF Call, BeforeRequestThrows, RunInterceptor, InterceptorThrows, RequestIsReady, ResponseIsReady,
         ErrorIsReady, LoopIsOver, FetchAnswers, FetchFails, ReadData, ReadThrows, ReadError,
         StreamReconnects, StreamEnds, At, InLoop, Kinds
<1>4. UNCHANGED queries
  BY DEF Call, BeforeRequestThrows, RunInterceptor, InterceptorThrows, RequestIsReady, ResponseIsReady,
         ErrorIsReady, LoopIsOver, FetchAnswers, FetchFails, ReadData, ReadThrows, ReadError,
         StreamReconnects, StreamEnds
<1>5. ASSUME \/ BeforeRequestThrows(c) \/ InterceptorThrows(c) \/ ErrorIsReady(c) \/ ReadData(c)
             \/ ReadThrows(c) \/ StreamEnds(c)
      PROVE  Passes(c)
  <2>1. \/ \E outcome : Settle(c, outcome)
        \/ Becomes(c, [step |-> "stream", loop |-> NoLoop])
    BY <1>5, Zenon DEF BeforeRequestThrows, InterceptorThrows, ErrorIsReady, ReadData, ReadThrows,
                       StreamEnds
  <2> QED BY <1>2, <2>1, SettlePasses
<1>6. ASSUME RunInterceptor(c) PROVE Passes(c)
  BY <1>6, RunInterceptorPasses
<1>7. ASSUME RequestIsReady(c) \/ ResponseIsReady(c) PROVE Passes(c)
  <2>1. \E step \in {"stream", "fetch", "read"} : Becomes(c, [step |-> step, loop |-> NoLoop])
    BY <1>7 DEF RequestIsReady, ResponseIsReady, LeavesLoop
  <2> QED BY <1>2, <2>1
<1>8. ASSUME FetchAnswers(c) \/ FetchFails(c) \/ ReadError(c) PROVE Passes(c)
  <2>1. \E step \in {"response", "error"} : \E r :
          \/ Becomes(c, [step |-> step, response |-> r])
          \/ Becomes(c, [step |-> step, error |-> r])
    BY <1>8, Zenon DEF FetchAnswers, FetchFails, ReadError
  <2> QED BY <1>2, <2>1
<1>9. ASSUME StreamReconnects(c) PROVE Passes(c)
  BY <1>1, <1>9 DEF StreamReconnects
<1>10. Passes(c)
  BY <1>5, <1>6, <1>7, <1>8, <1>9 DEF Call
<1> QED BY <1>3, <1>4, <1>10

LEMMA MergedHeaders ==
  ASSUME NEW a, Typed(a.headers, HeaderNames), NEW b, HeadersOK(b.headers)
  PROVE  Typed(mergeConfigs(a, b).headers, HeaderNames)
<1> DEFINE baseUrl == IF b.baseUrl = <<>> THEN a.baseUrl ELSE b.baseUrl
           kept == IF Last(baseUrl) = "/" THEN Front(baseUrl) ELSE baseUrl
           headers == mergeHeaders(a.headers, b.headers)
<1>1. mergeConfigs(a, b) = [baseUrl |-> kept, headers |-> headers]
  BY DEF mergeConfigs
<1>2. Typed(headers, HeaderNames)
  BY MergedType
<1> HIDE DEF kept, headers
<1> QED BY <1>1, <1>2

LEMMA InitMInv == Init => MInv
<1> SUFFICES ASSUME Init PROVE MInv
  OBVIOUS
<1>1. HInv
  BY InitHInv
<1>2. Typed(config.headers, HeaderNames)
  <2> DEFINE first == [baseUrl |-> <<>>, headers |-> createConfig]
  <2>1. Typed(createConfig, HeaderNames)
    BY SingleIs, EmptyIs DEF createConfig, Typed
  <2>2. first.headers = createConfig
    OBVIOUS
  <2>3. config = mergeConfigs(first, FirstConfig)
    BY DEF Init
  <2> HIDE DEF first
  <2> QED BY <2>1, <2>2, <2>3, Given, MergedHeaders
<1>3. \A c \in Calls : MadeOK(calls[c])
  <2>1. PICK w \in Workloads : calls = [c \in DOMAIN w |-> Idle(w[c])]
    BY DEF Init
  <2> SUFFICES ASSUME NEW c \in DOMAIN w PROVE MadeOK(Idle(w[c]))
    BY <2>1 DEF Calls
  <2>2. OptionsOK(w[c].options)
    BY Given
  <2>3. /\ Idle(w[c]).options = w[c].options /\ Idle(w[c]).step = "idle" /\ Idle(w[c]).sent = <<>>
        /\ Idle(w[c]).tokens = [place \in Places |-> <<>>]
    BY DEF Idle
  <2> QED BY <2>2, <2>3 DEF MadeOK
<1>4. \A c \in Calls : calls[c].tokens["query"] = <<>> /\ calls[c].sent = <<>>
  BY DEF Init, Calls, Idle, Places
<1>5. ASSUME NEW own, IsSeq(own), IsObject(own), NEW credentials
      PROVE  KeepsOwn(own, own, credentials) /\ HasGranted(own, <<>>, credentials)
  <2>1. Len(own) \in Nat
    BY <1>5, AppendIs
  <2>2. Range(<<>>) = {}
    BY DEF Range
  <2> QED BY <1>5, <2>1, <2>2 DEF KeepsOwn, HasGranted
<1>6. ObjectsOK
  <2>1. queries = Queries
    BY DEF Init
  <2>2. \A q \in DOMAIN Queries : IsSeq(Queries[q]) /\ IsObject(Queries[q])
    BY Given
  <2>3. ASSUME NEW c \in Calls PROVE AskedQuery(calls[c], QueryOf(calls[c].options))
    <3>1. OwnQuery(calls[c]) = QueryOf(calls[c].options)
      BY <2>1 DEF OwnQuery, QueryOf
    <3>2. calls[c].options.query \in {0} \cup DOMAIN Queries
      BY <1>3 DEF MadeOK, OptionsOK
    <3>3. IsSeq(OwnQuery(calls[c])) /\ IsObject(OwnQuery(calls[c]))
      BY <2>2, <3>2, EmptyIs DEF OwnQuery, IsObject
    <3> QED BY <1>4, <1>5, <3>1, <3>3 DEF AskedQuery
  <2> QED BY <1>5, <2>1, <2>2, <2>3 DEF ObjectsOK
<1>7. SentOK
  BY <1>4 DEF SentOK, Sent
<1> QED BY <1>1, <1>2, <1>3, <1>6, <1>7 DEF MInv

LEMMA CallMakes == ASSUME MInv, NEW c \in Calls, Call(c) PROVE MInv'
<1>1. HInv' /\ Calls' = Calls /\ config' = config /\ \A d \in Calls : d # c => calls'[d] = calls[d]
  BY CallKeeps, CallLands, CallShares DEF MInv, Lands
<1>2. ASSUME MadeOK(calls'[c]), TokensGrow, calls'[c].tokens = calls[c].tokens, UNCHANGED queries,
             \/ calls'[c].sent = calls[c].sent
             \/ calls'[c].sent.query = QueryOf(calls[c].options)
      PROVE  MadeOK(calls'[c]) /\ ObjectsOK' /\ SentOK'
  <2>1. \A d \in Calls :
          /\ calls'[d].tokens["query"] = calls[d].tokens["query"]
          /\ \/ calls'[d].sent = calls[d].sent
             \/ calls'[d].sent.query = QueryOf(calls[d].options)
    BY <1>1, <1>2
  <2> QED BY <1>2, <2>1, ObjectsStay
<1>3. MadeOK(calls'[c]) /\ ObjectsOK' /\ SentOK'
  <2>1. CASE beforeRequest(c)
    <3>1. UNCHANGED queries
      BY <2>1 DEF beforeRequest
    <3> QED BY <1>2, <2>1, <3>1, BeforeRequestMade
  <2>2. CASE setAuthParamsSkips(c) \/ setAuthParamsAwaits(c) \/ setAuthParams(c)
    BY <2>2, SetAuthParamsMade
  <2>3. CASE BuildRequest(c)
    <3>1. UNCHANGED queries
      BY <2>3 DEF BuildRequest
    <3> QED BY <1>2, <2>3, <3>1, BuildRequestMade
  <2>4. CASE /\ ~ beforeRequest(c) /\ ~ setAuthParamsSkips(c) /\ ~ setAuthParamsAwaits(c)
             /\ ~ setAuthParams(c) /\ ~ BuildRequest(c)
    BY <1>2, <2>4, OthersPass, PassesMade
  <2> QED BY <2>1, <2>2, <2>3, <2>4
<1>4. \A d \in Calls : MadeOK(calls'[d])
  BY <1>1, <1>3 DEF MInv
<1> QED BY <1>1, <1>3, <1>4 DEF MInv

LEMMA SameObjects ==
  ASSUME MInv, UNCHANGED <<queries, calls>>
  PROVE  ObjectsOK' /\ SentOK'
<1>1. calls' = calls /\ queries' = queries /\ Calls' = Calls
  BY DEF Calls
<1>2. \A object : CredentialsIn(object)' = CredentialsIn(object)
  BY <1>1 DEF CredentialsIn
<1>3. ASSUME NEW d \in Calls, NEW q
      PROVE  /\ AskedQuery(calls[d], q)' = AskedQuery(calls[d], q)
             /\ QueryOf(calls[d].options)' = QueryOf(calls[d].options)
  BY <1>1, <1>2 DEF AskedQuery, OwnQuery, QueryOf
<1>4. ObjectsOK'
  BY <1>1, <1>2, <1>3 DEF MInv, ObjectsOK
<1>5. SentOK'
  BY <1>1, <1>2, <1>3 DEF MInv, SentOK, Sent
<1> QED BY <1>4, <1>5

LEMMA StepMInv == MInv /\ [Next]_vars => MInv'
<1> SUFFICES ASSUME MInv, [Next]_vars PROVE MInv'
  OBVIOUS
<1>1. HInv'
  BY StepHInv DEF MInv
<1>2. CASE UNCHANGED vars
  BY <1>1, <1>2, SameObjects DEF MInv, vars, Calls
<1>3. CASE Edit
  <2>1. UNCHANGED <<queries, calls>>
    BY <1>3 DEF Edit, setConfig, use, clear, eject, update
  <2>2. Typed(config'.headers, HeaderNames)
    <3>1. CASE UNCHANGED config
      BY <3>1 DEF MInv
    <3>2. CASE \E c \in Configs : config' = mergeConfigs(config, c)
      BY <3>2, Given, MergedHeaders DEF MInv
    <3> QED BY <1>3, <3>1, <3>2 DEF Edit, setConfig, use, clear, eject, update
  <2> QED BY <1>1, <2>1, <2>2, SameObjects DEF MInv, Calls
<1> QED BY <1>2, <1>3, CallMakes DEF Next

(* A body of none is sent without a Content-Type. *)
LEMMA ContentTypeSent ==
  ASSUME NEW call, DOMAIN call.headers = HeaderNames, NEW name \in HeaderNames
  PROVE  HeadersSent(call)[name] =
           IF name = "Content-Type" /\ getValidRequestBody(call.options) = "none"
             THEN <<>> ELSE call.headers[name]
<1>1. call.options.body = "none" \/ SerializedBody(call.options) = ""
        <=> getValidRequestBody(call.options) = "none"
  BY DEF getValidRequestBody, SerializedBody
<1> QED BY <1>1 DEF HeadersSent

LEMMA MInvIs == MInv => CallIsSentAsMade
<1> SUFFICES ASSUME MInv, NEW c \in Calls, calls[c].sent # <<>>
             PROVE  LET call == calls[c] IN
                    /\ \A name \in HeaderNames :
                         call.sent.headers[name] =
                           IF name = "Content-Type" /\ call.sent.body = "none" THEN <<>>
                                                                              ELSE AskedHeader(call, name)
                    /\ AskedQuery(call, call.sent.query)
                    /\ call.sent.url = getUrl(call.made.baseUrl, call.options.url,
                                              call.options.path, call.sent.query,
                                              call.options.how)
  BY DEF CallIsSentAsMade, Sent
<1> DEFINE call == calls[c]
<1>1. /\ Carries(call) /\ call.sent.headers = HeadersSent(call)
      /\ call.sent.body = getValidRequestBody(call.options)
      /\ call.sent.url = UrlOf(call, call.sent.query) /\ AskedQuery(call, call.sent.query)
  BY DEF MInv, MadeOK, SentOK, Sent
<1>2. DOMAIN call.headers = HeaderNames
      /\ \A name \in HeaderNames : call.headers[name] = AskedHeader(call, name)
  BY <1>1 DEF Carries, Typed
<1> QED BY <1>1, <1>2, ContentTypeSent DEF UrlOf

(* Whatever the workloads, the configurations and the credentials, and however
   the calls interleave: what is sent has the address and the headers of its
   own call. *)
THEOREM CallsAreSentAsMade == Spec => []CallIsSentAsMade
BY InitMInv, StepMInv, MInvIs, PTL DEF Spec
--------------------------------------------------------------------------------
(***************************************************************************)
(* Texts: the first elements of a sequence, joining and splitting.         *)
(***************************************************************************)
First(s, n) == SubSeq(s, 1, n)

LEMMA FirstIs ==
  ASSUME NEW S, NEW s \in Seq(S)
  PROVE  /\ First(s, 0) = <<>> /\ First(s, Len(s)) = s
         /\ \A n \in 1 .. Len(s) :
              /\ s[n] \in S /\ First(s, n - 1) \in Seq(S) /\ Len(First(s, n - 1)) = n - 1
              /\ First(s, n) = Append(First(s, n - 1), s[n])
<1>1. First(s, 0) = <<>> /\ First(s, Len(s)) = s
  BY SubSeqEmpty, SubSeqFull DEF First
<1>2. ASSUME NEW n \in 1 .. Len(s)
      PROVE  /\ s[n] \in S /\ First(s, n - 1) \in Seq(S) /\ Len(First(s, n - 1)) = n - 1
             /\ First(s, n) = Append(First(s, n - 1), s[n])
  <2> DEFINE a == SubSeq(s, 1, n - 1)
             b == SubSeq(s, 1, n)
  <2>1. n \in Nat /\ n <= Len(s) /\ Len(s) \in Nat /\ \A i \in 1 .. n : s[i] \in S
    OBVIOUS
  <2>2. a \in Seq(S) /\ Len(a) = n - 1 /\ \A i \in 1 .. n - 1 : a[i] = s[i]
    <3>1. /\ a \in Seq(S) /\ Len(a) = (IF 1 <= n - 1 THEN n - 1 - 1 + 1 ELSE 0)
          /\ \A i \in 1 .. n - 1 - 1 + 1 : a[i] = s[1 + i - 1]
      BY <2>1, SubSeqProperties
    <3> HIDE DEF a
    <3> QED BY <2>1, <3>1
  <2>3. b \in Seq(S) /\ Len(b) = n /\ \A i \in 1 .. n : b[i] = s[i]
    <3>1. /\ b \in Seq(S) /\ Len(b) = (IF 1 <= n THEN n - 1 + 1 ELSE 0)
          /\ \A i \in 1 .. n - 1 + 1 : b[i] = s[1 + i - 1]
      BY <2>1, SubSeqProperties
    <3> HIDE DEF b
    <3> QED BY <2>1, <3>1
  <2> HIDE DEF a, b
  <2>4. b = Append(a, s[n])
    <3>1. /\ Append(a, s[n]) \in Seq(S) /\ Len(Append(a, s[n])) = Len(a) + 1
          /\ \A i \in 1 .. Len(a) : Append(a, s[n])[i] = a[i]
          /\ Append(a, s[n])[Len(a) + 1] = s[n]
      BY <2>1, <2>2, AppendProperties
    <3>2. ASSUME NEW i \in 1 .. n PROVE b[i] = Append(a, s[n])[i]
      <4>1. i = n \/ i \in 1 .. n - 1
        BY <2>1
      <4> QED BY <2>2, <2>3, <3>1, <4>1
    <3> QED BY <2>2, <2>3, <3>1, <3>2, SameSeq
  <2> QED BY <2>1, <2>2, <2>4 DEF a, b, First
<1> QED BY <1>1, <1>2

(* f gives, for each number of texts, that many first ones joined. *)
Joins(f, texts, separator, S) ==
  /\ f \in [0 .. Len(texts) -> Seq(S)]
  /\ f[0] = <<>>
  /\ \A n \in 1 .. Len(texts) :
       f[n] = IF n = 1 THEN texts[1] ELSE f[n - 1] \o separator \o texts[n]

LEMMA JoinUnfolds ==
  ASSUME NEW S, NEW texts \in Seq(Seq(S)), NEW separator \in Seq(S)
  PROVE  \E f : Joins(f, texts, separator, S) /\ Join(texts, separator) = f[Len(texts)]
<1> DEFINE N == Len(texts)
           V == Seq(S)
           Body(e) == [n \in 0 .. N |-> IF n = 0 THEN <<>>
                                        ELSE IF n = 1 THEN texts[1] ELSE e[n - 1] \o separator \o texts[n]]
           G == [p \in V \X (1 .. N) |-> IF p[2] = 1 THEN texts[1] ELSE p[1] \o separator \o texts[p[2]]]
           chosen == CHOOSE e : e = Body(e)
<1>1. N \in Nat /\ \A n \in 1 .. N : texts[n] \in Seq(S)
  OBVIOUS
<1>2. \E h : Follows(h, V, N, <<>>, G)
  <2>1. G \in StepsOf(V, N)
    BY <1>1 DEF StepsOf
  <2>2. <<>> \in V
    OBVIOUS
  <2> HIDE DEF G, V, N
  <2> QED BY <1>1, <2>1, <2>2, Recursion
<1>3. PICK h : h \in [0 .. N -> V] /\ h[0] = <<>> /\ \A n \in 1 .. N : h[n] = G[<<h[n - 1], n>>]
  <2> HIDE DEF G, V, N
  <2> QED BY <1>2 DEF Follows
<1>4. ASSUME NEW n \in 1 .. N PROVE h[n] = IF n = 1 THEN texts[1] ELSE h[n - 1] \o separator \o texts[n]
  <2>1. h[n - 1] \in V
    <3>1. n - 1 \in 0 .. N
      BY <1>1
    <3> HIDE DEF V, N, G
    <3> QED BY <1>3, <3>1
  <2>2. h[n] = G[<<h[n - 1], n>>]
    BY <1>3
  <2> HIDE DEF V, N
  <2> QED BY <2>1, <2>2
<1>5. h = Body(h)
  <2>1. \A n \in 0 .. N : n # 0 => n \in 1 .. N
    BY <1>1
  <2> HIDE DEF V, N, G
  <2>2. \A n \in 0 .. N :
          h[n] = IF n = 0 THEN <<>>
                 ELSE IF n = 1 THEN texts[1] ELSE h[n - 1] \o separator \o texts[n]
    BY <1>3, <1>4, <2>1
  <2>3. h = [n \in 0 .. N |-> h[n]]
    BY <1>3
  <2> QED BY <2>2, <2>3
<1>6. chosen = Body(chosen)
  <2> HIDE DEF Body
  <2> QED BY <1>5
<1> HIDE DEF chosen
<1>7. chosen = h
  <2>1. 0 \in 0 .. N /\ \A n \in 1 .. N : n \in 0 .. N /\ n # 0
    BY <1>1
  <2>2. chosen[0] = <<>> /\ \A n \in 1 .. N : chosen[n] = IF n = 1 THEN texts[1] ELSE chosen[n - 1] \o separator \o texts[n]
    <3> HIDE DEF N
    <3> QED BY <1>6, <2>1
  <2>3. Over(chosen, N) /\ Over(h, N)
    <3> HIDE DEF N
    <3> QED BY <1>5, <1>6 DEF Over
  <2>4. ASSUME NEW n \in 1 .. N, chosen[n - 1] = h[n - 1] PROVE chosen[n] = h[n]
    <3> HIDE DEF N, Body
    <3> QED BY <1>4, <2>2, <2>4
  <2>5. Agree(chosen, h, N)
    BY <1>3, <2>2, <2>4 DEF Agree
  <2> HIDE DEF N, V, Body
  <2> QED BY <1>1, <2>3, <2>5, Unique
<1>8. Join(texts, separator) = chosen[N]
  BY Zenon DEF Join, chosen
<1>9. Joins(h, texts, separator, S)
  BY <1>3, <1>4 DEF Joins
<1> QED BY <1>7, <1>8, <1>9

LEMMA JoinAppend ==
  ASSUME NEW S, NEW texts \in Seq(Seq(S)), NEW x \in Seq(S), NEW separator \in Seq(S)
  PROVE  /\ Join(texts, separator) \in Seq(S)
         /\ Join(<<>>, separator) = <<>>
         /\ Join(Append(texts, x), separator)
              = IF texts = <<>> THEN x ELSE Join(texts, separator) \o separator \o x
<1> DEFINE V == Seq(S)
           N == Len(texts)
           more == Append(texts, x)
<1>1. texts \in Seq(V) /\ x \in V /\ N \in Nat
  OBVIOUS
<1>2. more \in Seq(Seq(S)) /\ Len(more) = N + 1 /\ (\A i \in 1 .. N : more[i] = texts[i]) /\ more[N + 1] = x
  <2> HIDE DEF V
  <2>1. more \in Seq(V) /\ Len(more) = N + 1 /\ (\A i \in 1 .. N : more[i] = texts[i]) /\ more[N + 1] = x
    BY <1>1, AppendProperties
  <2> QED BY <2>1 DEF V
<1>3. PICK f : Joins(f, texts, separator, S) /\ Join(texts, separator) = f[N]
  BY JoinUnfolds
<1> HIDE DEF more
<1>4. PICK g : Joins(g, more, separator, S) /\ Join(more, separator) = g[Len(more)]
  BY <1>2, JoinUnfolds
<1>5. PICK e : Joins(e, <<>>, separator, S) /\ Join(<<>>, separator) = e[Len(<<>>)]
  <2>1. <<>> \in Seq(Seq(S))
    OBVIOUS
  <2> QED BY <2>1, JoinUnfolds
<1>6. Join(<<>>, separator) = <<>>
  BY <1>5 DEF Joins
<1>7. f[N] \in Seq(S) /\ f \in [0 .. N -> V] /\ g \in [0 .. N + 1 -> V]
  <2>1. N \in 0 .. N
    BY <1>1
  <2>2. f \in [0 .. N -> V] /\ g \in [0 .. N + 1 -> V]
    BY <1>2, <1>3, <1>4 DEF Joins
  <2>3. f[N] \in V
    <3> HIDE DEF V, N
    <3> QED BY <2>1, <2>2
  <2> QED BY <2>2, <2>3
<1> DEFINE h == [n \in 0 .. N |-> g[n]]
<1>8. h = f
  <2>1. Over(h, N) /\ Over(f, N)
    BY <1>7 DEF Over
  <2>2. ASSUME NEW n \in 1 .. N, h[n - 1] = f[n - 1] PROVE h[n] = f[n]
    <3>1. n \in 0 .. N /\ n - 1 \in 0 .. N /\ n \in 1 .. N + 1 /\ 1 \in 1 .. N
      BY <1>1
    <3>2. h[n] = g[n] /\ h[n - 1] = g[n - 1]
      BY <3>1
    <3> HIDE DEF h
    <3>3. g[n] = IF n = 1 THEN more[1] ELSE g[n - 1] \o separator \o more[n]
      BY <1>2, <1>4, <3>1 DEF Joins
    <3>4. f[n] = IF n = 1 THEN texts[1] ELSE f[n - 1] \o separator \o texts[n]
      BY <1>3 DEF Joins
    <3>5. more[n] = texts[n] /\ more[1] = texts[1]
      BY <1>2, <3>1
    <3> QED BY <2>2, <3>2, <3>3, <3>4, <3>5
  <2>3. h[0] = f[0]
    <3>1. 0 \in 0 .. N
      BY <1>1
    <3> QED BY <1>3, <1>4, <3>1 DEF Joins
  <2>4. Agree(h, f, N)
    <3> HIDE DEF h
    <3> QED BY <2>2, <2>3 DEF Agree
  <2> HIDE DEF h, N
  <2> QED BY <1>1, <2>1, <2>4, Unique
<1>9. g[N] = f[N]
  <2>1. N \in 0 .. N
    BY <1>1
  <2> QED BY <1>8, <2>1
<1>10. Join(more, separator) = IF N + 1 = 1 THEN more[1] ELSE g[N] \o separator \o x
  <2>1. N + 1 \in 1 .. N + 1 /\ N + 1 - 1 = N
    BY <1>1
  <2> QED BY <1>2, <1>4, <2>1 DEF Joins
<1>11. N + 1 = 1 <=> texts = <<>>
  BY <1>1
<1>12. N + 1 = 1 => more[1] = x
  BY <1>2
<1> QED BY <1>3, <1>6, <1>7, <1>9, <1>10, <1>11, <1>12 DEF more

(* Parts of a text: the last one is the one that goes on. *)
Parts(S) == Seq(Seq(S)) \ {<<>>}

LEMMA OnePart == ASSUME NEW S PROVE << <<>> >> \in Parts(S) /\ << <<>> >>[1] = <<>> /\ Len(<< <<>> >>) = 1
<1> DEFINE V == Seq(S)
<1>1. <<>> \in V
  OBVIOUS
<1> HIDE DEF V
<1>2. << <<>> >> \in Seq(V) \ {<<>>}
  BY <1>1
<1> QED BY <1>2 DEF V, Parts

LEMMA PartedIs ==
  ASSUME NEW S, NEW parts \in Parts(S), NEW t \in S, NEW word
  PROVE  /\ Parted(parts, t, word) \in Parts(S)
         /\ Len(parts) \in Nat \ {0} /\ parts[Len(parts)] \in Seq(S)
         /\ t = word => Parted(parts, t, word) = Append(parts, <<>>)
         /\ t # word =>
              /\ Len(Parted(parts, t, word)) = Len(parts)
              /\ \A i \in 1 .. Len(parts) - 1 : Parted(parts, t, word)[i] = parts[i]
              /\ Parted(parts, t, word)[Len(parts)] = Append(parts[Len(parts)], t)
<1> DEFINE V == Seq(S)
           n == Len(parts)
<1>1. parts \in Seq(V) /\ n \in Nat \ {0}
  BY DEF Parts
<1>2. n \in 1 .. n /\ n \in Nat
  BY <1>1
<1>3. parts[n] \in V /\ <<>> \in V
  BY <1>1, <1>2
<1>4. Append(parts[n], t) \in V
  BY <1>3
<1> HIDE DEF V
<1>5. CASE t = word
  <2>1. Parted(parts, t, word) = Append(parts, <<>>)
    BY <1>5 DEF Parted
  <2>2. Append(parts, <<>>) \in Seq(V) /\ Append(parts, <<>>) # <<>>
    BY <1>1, <1>3, AppendProperties
  <2> QED BY <1>1, <1>3, <1>5, <2>1, <2>2 DEF Parts, V
<1>6. CASE t # word
  <2> DEFINE new == [parts EXCEPT ![n] = Append(parts[n], t)]
  <2>1. Parted(parts, t, word) = new
    BY <1>6 DEF Parted
  <2>2. /\ new \in Seq(V) /\ Len(new) = n
        /\ \A j \in 1 .. n : new[j] = IF j = n THEN Append(parts[n], t) ELSE parts[j]
    BY <1>1, <1>2, <1>4, ExceptSeq
  <2> HIDE DEF new
  <2>3. new # <<>>
    BY <1>1, <2>2
  <2>4. (\A i \in 1 .. n - 1 : new[i] = parts[i]) /\ new[n] = Append(parts[n], t)
    <3>1. new[n] = Append(parts[n], t)
      BY <1>2, <2>2
    <3>2. ASSUME NEW i \in 1 .. n - 1 PROVE new[i] = parts[i]
      <4>1. i \in 1 .. n /\ i # n
        BY <1>2
      <4> QED BY <2>2, <4>1
    <3> QED BY <3>1, <3>2
  <2> QED BY <1>1, <1>3, <1>6, <2>1, <2>2, <2>3, <2>4 DEF Parts, V
<1> QED BY <1>5, <1>6

(* f gives, for each number of words, the parts of that many first ones. *)
Cuts(f, text, word, S) ==
  /\ f \in [0 .. Len(text) -> Parts(S)]
  /\ f[0] = << <<>> >>
  /\ \A n \in 1 .. Len(text) : f[n] = Parted(f[n - 1], text[n], word)

LEMMA SplitUnfolds ==
  ASSUME NEW S, NEW text \in Seq(S), NEW word
  PROVE  \E f : Cuts(f, text, word, S) /\ Split(text, word) = f[Len(text)]
<1> DEFINE N == Len(text)
           V == Parts(S)
           Body(e) == [n \in 0 .. N |-> IF n = 0 THEN << <<>> >>
                                        ELSE Parted(e[n - 1], text[n], word)]
           G == [p \in V \X (1 .. N) |-> Parted(p[1], text[p[2]], word)]
           chosen == CHOOSE e : e = Body(e)
<1>1. N \in Nat /\ \A n \in 1 .. N : text[n] \in S
  OBVIOUS
<1>2. \E h : Follows(h, V, N, << <<>> >>, G)
  <2>1. G \in StepsOf(V, N)
    BY <1>1, PartedIs DEF StepsOf
  <2>2. << <<>> >> \in V
    BY OnePart
  <2> HIDE DEF G, V, N
  <2> QED BY <1>1, <2>1, <2>2, Recursion
<1>3. PICK h : h \in [0 .. N -> V] /\ h[0] = << <<>> >> /\ \A n \in 1 .. N : h[n] = G[<<h[n - 1], n>>]
  <2> HIDE DEF G, V, N
  <2> QED BY <1>2 DEF Follows
<1>4. ASSUME NEW n \in 1 .. N PROVE h[n] = Parted(h[n - 1], text[n], word)
  <2>1. h[n - 1] \in V
    BY <1>1, <1>3
  <2>2. h[n] = G[<<h[n - 1], n>>]
    BY <1>3
  <2> HIDE DEF V, N
  <2> QED BY <2>1, <2>2
<1>5. h = Body(h)
  <2>1. \A n \in 0 .. N : n # 0 => n \in 1 .. N
    BY <1>1
  <2> HIDE DEF V, N
  <2> QED BY <1>3, <1>4, <2>1
<1>6. chosen = Body(chosen)
  <2> HIDE DEF Body
  <2> QED BY <1>5
<1> HIDE DEF chosen
<1>7. chosen = h
  <2>1. 0 \in 0 .. N /\ \A n \in 1 .. N : n \in 0 .. N /\ n # 0
    BY <1>1
  <2>2. chosen[0] = << <<>> >> /\ \A n \in 1 .. N : chosen[n] = Parted(chosen[n - 1], text[n], word)
    <3> HIDE DEF N
    <3> QED BY <1>6, <2>1
  <2>3. Over(chosen, N) /\ Over(h, N)
    <3> HIDE DEF N
    <3> QED BY <1>5, <1>6 DEF Over
  <2>4. ASSUME NEW n \in 1 .. N, chosen[n - 1] = h[n - 1] PROVE chosen[n] = h[n]
    <3> HIDE DEF N, Body
    <3> QED BY <1>4, <2>2, <2>4
  <2>5. Agree(chosen, h, N)
    BY <1>3, <2>2, <2>4 DEF Agree
  <2> HIDE DEF N, V, Body
  <2> QED BY <1>1, <2>3, <2>5, Unique
<1>8. Split(text, word) = chosen[N]
  BY Zenon DEF Split, chosen
<1>9. Cuts(h, text, word, S)
  BY <1>3, <1>4 DEF Cuts
<1> QED BY <1>7, <1>8, <1>9

LEMMA SplitAppend ==
  ASSUME NEW S, NEW text \in Seq(S), NEW t \in S, NEW word
  PROVE  /\ Split(text, word) \in Parts(S)
         /\ Split(<<>>, word) = << <<>> >>
         /\ Split(Append(text, t), word) = Parted(Split(text, word), t, word)
<1> DEFINE V == Parts(S)
           N == Len(text)
           more == Append(text, t)
<1>1. N \in Nat
  OBVIOUS
<1>2. more \in Seq(S) /\ Len(more) = N + 1 /\ (\A i \in 1 .. N : more[i] = text[i]) /\ more[N + 1] = t
  BY AppendProperties
<1>3. PICK f : Cuts(f, text, word, S) /\ Split(text, word) = f[N]
  BY SplitUnfolds
<1> HIDE DEF more
<1>4. PICK g : Cuts(g, more, word, S) /\ Split(more, word) = g[Len(more)]
  BY <1>2, SplitUnfolds
<1>5. PICK e : Cuts(e, <<>>, word, S) /\ Split(<<>>, word) = e[Len(<<>>)]
  <2>1. <<>> \in Seq(S)
    OBVIOUS
  <2> QED BY <2>1, SplitUnfolds
<1>6. Split(<<>>, word) = << <<>> >>
  BY <1>5 DEF Cuts
<1>7. f[N] \in V /\ f \in [0 .. N -> V] /\ g \in [0 .. N + 1 -> V]
  BY <1>1, <1>2, <1>3, <1>4 DEF Cuts
<1> DEFINE h == [n \in 0 .. N |-> g[n]]
<1>8. h = f
  <2>1. Over(h, N) /\ Over(f, N)
    BY <1>7 DEF Over
  <2>2. ASSUME NEW n \in 1 .. N, h[n - 1] = f[n - 1] PROVE h[n] = f[n]
    <3>1. n \in 0 .. N /\ n - 1 \in 0 .. N /\ n \in 1 .. N + 1
      BY <1>1
    <3>2. h[n] = g[n] /\ h[n - 1] = g[n - 1]
      BY <3>1
    <3> HIDE DEF h
    <3>3. g[n] = Parted(g[n - 1], more[n], word) /\ f[n] = Parted(f[n - 1], text[n], word)
      BY <1>2, <1>3, <1>4, <3>1 DEF Cuts
    <3> QED BY <1>2, <2>2, <3>2, <3>3
  <2>3. h[0] = f[0]
    <3>1. 0 \in 0 .. N
      BY <1>1
    <3> QED BY <1>3, <1>4, <3>1 DEF Cuts
  <2>4. Agree(h, f, N)
    <3> HIDE DEF h
    <3> QED BY <2>2, <2>3 DEF Agree
  <2> HIDE DEF h, N
  <2> QED BY <1>1, <2>1, <2>4, Unique
<1>9. g[N] = f[N]
  <2>1. N \in 0 .. N
    BY <1>1
  <2> QED BY <1>8, <2>1
<1>10. Split(more, word) = Parted(g[N], t, word)
  <2>1. N + 1 \in 1 .. N + 1 /\ N + 1 - 1 = N
    BY <1>1
  <2> QED BY <1>2, <1>4, <2>1 DEF Cuts
<1> QED BY <1>3, <1>6, <1>7, <1>9, <1>10 DEF more

LEMMA AppendedLast ==
  ASSUME NEW S, NEW a \in Seq(S), NEW b \in Seq(S), NEW t \in S
  PROVE  Append(a \o b, t) = a \o Append(b, t)
<1>1. <<t>> \in Seq(S) /\ a \o b \in Seq(S)
  OBVIOUS
<1>2. (a \o b) \o <<t>> = a \o (b \o <<t>>)
  BY <1>1, ConcatAssociative
<1>3. Append(b, t) = b \o <<t>> /\ Append(a \o b, t) = (a \o b) \o <<t>>
  BY <1>1, AppendIsConcat
<1> QED BY <1>2, <1>3

(* The parts `new` are the parts `old`, the last one with x behind it. *)
Prolongs(new, old, x) ==
  /\ Len(new) = Len(old)
  /\ \A i \in 1 .. Len(old) - 1 : new[i] = old[i]
  /\ new[Len(old)] = old[Len(old)] \o x

LEMMA SplitOne ==
  ASSUME NEW S, NEW word, NEW text \in Seq(S), NEW t \in S, t # word,
         NEW old \in Parts(S), NEW x \in Seq(S), Prolongs(Split(text, word), old, x)
  PROVE  Prolongs(Split(Append(text, t), word), old, Append(x, t))
<1> DEFINE before == Split(text, word)
           after == Split(Append(text, t), word)
<1>1. before \in Parts(S) /\ after = Parted(before, t, word)
  BY SplitAppend
<1>2. Prolongs(before, old, x)
  OBVIOUS
<1> HIDE DEF before, after
<1>3. /\ Len(after) = Len(before)
      /\ \A i \in 1 .. Len(before) - 1 : after[i] = before[i]
      /\ after[Len(before)] = Append(before[Len(before)], t)
  BY <1>1, PartedIs
<1>4. old[Len(old)] \in Seq(S)
  BY PartedIs
<1>5. ASSUME NEW last, last = old[Len(old)]
      PROVE  Append(last \o x, t) = last \o Append(x, t)
  <2>1. last \in Seq(S) /\ <<t>> \in Seq(S) /\ last \o x \in Seq(S)
    BY <1>4, <1>5
  <2>2. (last \o x) \o <<t>> = last \o (x \o <<t>>)
    BY <2>1, ConcatAssociative
  <2>3. Append(x, t) = x \o <<t>> /\ Append(last \o x, t) = (last \o x) \o <<t>>
    BY <2>1, AppendIsConcat
  <2> QED BY <2>2, <2>3
<1>6. Append(old[Len(old)] \o x, t) = old[Len(old)] \o Append(x, t)
  BY <1>5
<1> QED BY <1>2, <1>3, <1>6 DEF Prolongs, after

(* A text without the separator only makes the last part longer. *)
LEMMA SplitPlain ==
  ASSUME NEW S, NEW word \in S, NEW text \in Seq(S), NEW part \in Seq(S \ {word})
  PROVE  /\ Split(text, word) \in Parts(S) /\ Split(text \o part, word) \in Parts(S)
         /\ Prolongs(Split(text \o part, word), Split(text, word), part)
<1> DEFINE N == Len(part)
           T == {n \in 0 .. N : Prolongs(Split(text \o First(part, n), word), Split(text, word), First(part, n))}
<1>1. part \in Seq(S) /\ N \in Nat /\ \A i \in 1 .. N : part[i] \in S /\ part[i] # word
  OBVIOUS
<1>2. Split(text, word) \in Parts(S) /\ Split(text \o part, word) \in Parts(S)
  <2>1. text \o part \in Seq(S)
    BY <1>1
  <2> QED BY <2>1, SplitAppend
<1>3. /\ First(part, 0) = <<>> /\ First(part, N) = part
      /\ \A n \in 1 .. N : First(part, n - 1) \in Seq(S) /\ First(part, n) = Append(First(part, n - 1), part[n])
  BY <1>1, FirstIs
<1>4. 0 \in T
  <2>1. ASSUME NEW old \in Parts(S) PROVE Prolongs(old, old, <<>>)
    <3>1. old[Len(old)] \in Seq(S)
      BY PartedIs
    <3>2. old[Len(old)] \o <<>> = old[Len(old)]
      BY <3>1, ConcatEmptySeq
    <3> QED BY <3>2 DEF Prolongs
  <2>2. text \o <<>> = text
    BY ConcatEmptySeq
  <2>3. Prolongs(Split(text \o <<>>, word), Split(text, word), <<>>)
    BY <1>2, <2>1, <2>2
  <2>4. First(part, 0) = <<>> /\ 0 \in 0 .. N
    BY <1>1, <1>3
  <2>5. Prolongs(Split(text \o First(part, 0), word), Split(text, word), First(part, 0))
    BY <2>3, <2>4
  <2> QED BY <2>4, <2>5
<1>5. ASSUME NEW n \in 1 .. N, n - 1 \in T PROVE n \in T
  <2>1. ASSUME NEW x \in Seq(S), NEW t \in S, t # word, Prolongs(Split(text \o x, word), Split(text, word), x)
        PROVE  Prolongs(Split(text \o Append(x, t), word), Split(text, word), Append(x, t))
    <3>1. text \o x \in Seq(S)
      OBVIOUS
    <3>2. ASSUME NEW old, old = Split(text, word), NEW whole, whole = text \o x
          PROVE  Prolongs(Split(Append(whole, t), word), old, Append(x, t))
      <4>1. whole \in Seq(S) /\ old \in Parts(S) /\ Prolongs(Split(whole, word), old, x)
        BY <1>2, <2>1, <3>1, <3>2
      <4> QED BY <2>1, <4>1, SplitOne
    <3>3. Append(text \o x, t) = text \o Append(x, t)
      BY AppendedLast
    <3> QED BY <3>2, <3>3
  <2>2. /\ First(part, n - 1) \in Seq(S) /\ First(part, n) = Append(First(part, n - 1), part[n])
        /\ part[n] \in S /\ part[n] # word /\ n \in 0 .. N
    BY <1>1, <1>3
  <2>3. Prolongs(Split(text \o First(part, n - 1), word), Split(text, word), First(part, n - 1))
    BY <1>5
  <2>4. Prolongs(Split(text \o First(part, n), word), Split(text, word), First(part, n))
    BY <2>1, <2>2, <2>3
  <2> QED BY <2>2, <2>4
<1>6. N \in T
  <2> HIDE DEF T
  <2>1. \A n \in 0 .. N : n \in T
    BY <1>1, <1>4, <1>5, UpTo
  <2> QED BY <1>1, <2>1
<1> QED BY <1>2, <1>3, <1>6

LEMMA ProlongsEmpty ==
  ASSUME NEW S, NEW before \in Seq(Seq(S)), NEW x \in Seq(S), NEW w \in Parts(S),
         Prolongs(w, Append(before, <<>>), x)
  PROVE  w = Append(before, x)
<1> DEFINE U == Seq(S)
           n == Len(before)
<1>1. before \in Seq(U) /\ x \in U /\ w \in Seq(U) /\ <<>> \in U /\ n \in Nat /\ <<>> \o x = x
  BY ConcatEmptySeq DEF Parts
<1> HIDE DEF U
<1>2. ASSUME NEW e \in U
      PROVE  /\ Append(before, e) \in Seq(U) /\ Len(Append(before, e)) = n + 1
             /\ (\A i \in 1 .. n : Append(before, e)[i] = before[i])
             /\ Append(before, e)[n + 1] = e
  BY <1>1, AppendProperties
<1>3. ASSUME NEW o, o = Append(before, <<>>), NEW a, a = Append(before, x) PROVE w = a
  <2>1. /\ Len(o) = n + 1 /\ (\A i \in 1 .. n : o[i] = before[i]) /\ o[n + 1] = <<>>
        /\ a \in Seq(U) /\ Len(a) = n + 1 /\ (\A i \in 1 .. n : a[i] = before[i]) /\ a[n + 1] = x
    BY <1>1, <1>2, <1>3
  <2>2. Prolongs(w, o, x)
    BY <1>3
  <2> HIDE DEF n
  <2>3. Len(w) = n + 1 /\ (\A i \in 1 .. n : w[i] = o[i]) /\ w[n + 1] = x
    BY <1>1, <2>1, <2>2 DEF Prolongs
  <2>4. ASSUME NEW i \in 1 .. n + 1 PROVE w[i] = a[i]
    <3>1. i = n + 1 \/ i \in 1 .. n
      BY <1>1
    <3> QED BY <2>1, <2>3, <3>1
  <2> QED BY <1>1, <2>1, <2>3, <2>4, SameSeq
<1> QED BY <1>3

(* Cut by `word`, the text gives these parts. *)
IsCut(text, word, parts) == Split(text, word) = parts

(* Behind a separator a text without it becomes the next part. *)
LEMMA SplitBehind ==
  ASSUME NEW S, NEW word \in S, NEW before \in Parts(S), NEW joined \in Seq(S),
         IsCut(joined, word, before), NEW x \in Seq(S \ {word})
  PROVE  IsCut(Append(joined, word) \o x, word, Append(before, x))
<1> DEFINE text == Append(joined, word)
<1>1. text \in Seq(S) /\ before \in Seq(Seq(S)) /\ x \in Seq(S)
  BY DEF Parts
<1>2. Split(text, word) = Append(before, <<>>)
  BY SplitAppend, PartedIs DEF IsCut
<1> HIDE DEF text
<1>3. Split(text \o x, word) \in Parts(S) /\ Prolongs(Split(text \o x, word), Append(before, <<>>), x)
  BY <1>1, <1>2, SplitPlain
<1>4. ASSUME NEW w, w = Split(text \o x, word) PROVE w = Append(before, x)
  <2>1. w \in Parts(S) /\ Prolongs(w, Append(before, <<>>), x)
    BY <1>3, <1>4
  <2> QED BY <1>1, <2>1, ProlongsEmpty
<1> QED BY <1>4 DEF text, IsCut

LEMMA SplitNone ==
  ASSUME NEW S, NEW word \in S, NEW x \in Seq(S \ {word})
  PROVE  IsCut(x, word, <<x>>)
<1>1. <<>> \in Seq(S) /\ <<>> \o x = x /\ x \in Seq(S) /\ <<>> \in Seq(Seq(S))
  OBVIOUS
<1>2. Split(<<>>, word) = << <<>> >>
  BY <1>1, SplitAppend
<1>3. << <<>> >> = Append(<<>>, <<>>) /\ <<x>> = Append(<<>>, x)
  OBVIOUS
<1>4. Split(<<>> \o x, word) \in Parts(S) /\ Prolongs(Split(<<>> \o x, word), Split(<<>>, word), x)
  BY <1>1, SplitPlain
<1>5. ASSUME NEW w, w = Split(x, word) PROVE w = Append(<<>>, x)
  <2>1. w \in Parts(S) /\ Prolongs(w, Append(<<>>, <<>>), x)
    BY <1>1, <1>2, <1>3, <1>4, <1>5
  <2> QED BY <1>1, <2>1, ProlongsEmpty
<1> QED BY <1>3, <1>5 DEF IsCut

(* A text joined to others. *)
WithOneMore(texts, separator, x) ==
  IF texts = <<>> THEN x ELSE Join(texts, separator) \o separator \o x

LEMMA JoinOneMore ==
  ASSUME NEW S, NEW texts \in Seq(Seq(S)), NEW x \in Seq(S), NEW separator \in Seq(S)
  PROVE  /\ Join(texts, separator) \in Seq(S) /\ Join(<<>>, separator) = <<>>
         /\ Join(Append(texts, x), separator) = WithOneMore(texts, separator, x)
BY JoinAppend DEF WithOneMore

(* What was joined by a word that is in none of the texts is split again. *)
LEMMA JoinSplit ==
  ASSUME NEW S, NEW word \in S, NEW texts \in Seq(Seq(S \ {word})), texts # <<>>
  PROVE  Split(Join(texts, <<word>>), word) = texts
<1> DEFINE V == Seq(S \ {word})
           N == Len(texts)
           T == {n \in 0 .. N : n # 0 => Split(Join(First(texts, n), <<word>>), word) = First(texts, n)}
<1>1. texts \in Seq(V) /\ N \in Nat \ {0}
  OBVIOUS
<1>2. V \subseteq Seq(S) /\ Seq(V) \subseteq Seq(Seq(S))
  <2>1. V \subseteq Seq(S)
    OBVIOUS
  <2> HIDE DEF V
  <2> QED BY <2>1
<1> HIDE DEF V
<1>3. /\ First(texts, N) = texts
      /\ \A n \in 1 .. N : /\ texts[n] \in V
                           /\ First(texts, n - 1) \in Seq(V) /\ Len(First(texts, n - 1)) = n - 1
                           /\ First(texts, n) = Append(First(texts, n - 1), texts[n])
  BY <1>1, FirstIs
<1>4. 0 \in T
  BY <1>1
<1>5. ASSUME NEW n \in 1 .. N, n - 1 \in T PROVE n \in T
  <2>1. ASSUME NEW before \in Seq(V), NEW x \in V, NEW joined, joined = Join(before, <<word>>),
               before = <<>> \/ Split(joined, word) = before
        PROVE  Split(Join(Append(before, x), <<word>>), word) = Append(before, x)
    <3>1. before \in Seq(Seq(S)) /\ x \in Seq(S) /\ x \in Seq(S \ {word}) /\ <<word>> \in Seq(S)
      BY <1>2 DEF V
    <3>2. /\ joined \in Seq(S)
          /\ Join(Append(before, x), <<word>>) = WithOneMore(before, <<word>>, x)
      <4>1. ASSUME NEW end \in Seq(S)
            PROVE  /\ Join(before, end) \in Seq(S)
                   /\ Join(Append(before, x), end) = WithOneMore(before, end, x)
        BY <3>1, JoinOneMore
      <4> QED BY <2>1, <3>1, <4>1
    <3>3. CASE before = <<>>
      <4>1. IsCut(x, word, <<x>>)
        BY <3>1, SplitNone
      <4>2. Append(before, x) = <<x>>
        BY <3>3
      <4> QED BY <3>2, <3>3, <4>1, <4>2 DEF WithOneMore, IsCut
    <3>4. CASE before # <<>>
      <4>1. before \in Parts(S) /\ IsCut(joined, word, before)
        BY <2>1, <3>1, <3>4 DEF Parts, IsCut
      <4>2. IsCut(Append(joined, word) \o x, word, Append(before, x))
        BY <3>1, <3>2, <4>1, SplitBehind
      <4>3. joined \o <<word>> \o x = Append(joined, word) \o x
        <5>1. joined \o <<word>> = Append(joined, word)
          BY <3>2, AppendIsConcat
        <5> QED BY <5>1, Zenon
      <4>4. WithOneMore(before, <<word>>, x) = joined \o <<word>> \o x
        BY <2>1, <3>4, Zenon DEF WithOneMore
      <4> QED BY <3>2, <4>2, <4>3, <4>4, Zenon DEF IsCut
    <3> QED BY <3>3, <3>4
  <2>2. /\ First(texts, n - 1) \in Seq(V) /\ Len(First(texts, n - 1)) = n - 1 /\ texts[n] \in V
        /\ First(texts, n) = Append(First(texts, n - 1), texts[n]) /\ n \in 0 .. N
    BY <1>1, <1>3
  <2>3. First(texts, n - 1) = <<>> \/ Split(Join(First(texts, n - 1), <<word>>), word) = First(texts, n - 1)
    <3>1. CASE n - 1 = 0
      <4>1. ASSUME NEW a \in Seq(V), Len(a) = 0 PROVE a = <<>>
        BY <4>1
      <4> QED BY <2>2, <3>1, <4>1
    <3>2. CASE n - 1 # 0
      BY <1>5, <3>2
    <3> QED BY <3>1, <3>2
  <2>4. Split(Join(First(texts, n), <<word>>), word) = First(texts, n)
    BY <2>1, <2>2, <2>3
  <2> QED BY <2>2, <2>4
<1>6. N \in T
  <2> HIDE DEF T
  <2>1. \A n \in 0 .. N : n \in T
    BY <1>1, <1>4, <1>5, UpTo
  <2> QED BY <1>1, <2>1
<1> QED BY <1>1, <1>3, <1>6
--------------------------------------------------------------------------------
(***************************************************************************)
(* What is written for the values, and read back.                          *)
(***************************************************************************)
Escaped == {Escapes[c] : c \in DOMAIN Escapes}

(* The words of an address: those of the texts, and what the client adds. *)
Words(Char) == Char \cup DOMAIN Escapes \cup Escaped \cup {"[", "]"}

(* Words that are no marks of a query: all that names and written texts have. *)
Inner(Char) == Words(Char) \ {"?", "&", "="}

LEMMA EscapesAre ==
  /\ DOMAIN Escapes = {"&", "=", ",", "|", ";", "/", "?", " ", "{id}", "{tag}"}
  /\ \A c \in DOMAIN Escapes : Escapes[c] \notin {"?", "&", "="}
  /\ \A c, d \in DOMAIN Escapes : Escapes[c] = Escapes[d] => c = d
<1> DEFINE chars == {"&", "=", ",", "|", ";", "/", "?", " ", "{id}", "{tag}"}
<1>1. DOMAIN Escapes = chars
  BY DEF Escapes
<1>2. /\ Escapes["&"] = "%26" /\ Escapes["="] = "%3D" /\ Escapes[","] = "%2C"
      /\ Escapes["|"] = "%7C" /\ Escapes[";"] = "%3B" /\ Escapes["/"] = "%2F"
      /\ Escapes["?"] = "%3F" /\ Escapes[" "] = "%20"
      /\ Escapes["{id}"] = "%7Bid%7D" /\ Escapes["{tag}"] = "%7Btag%7D"
  BY DEF Escapes
<1>3. \A c \in chars : Escapes[c] \notin {"?", "&", "="}
  BY <1>2
<1>4. ASSUME NEW c \in chars, NEW d \in chars, Escapes[c] = Escapes[d] PROVE c = d
  <2>1. CASE c = "&"
    BY <1>2, <1>4, <2>1
  <2>2. CASE c = "="
    BY <1>2, <1>4, <2>2
  <2>3. CASE c = ","
    BY <1>2, <1>4, <2>3
  <2>4. CASE c = "|"
    BY <1>2, <1>4, <2>4
  <2>5. CASE c = ";"
    BY <1>2, <1>4, <2>5
  <2>6. CASE c = "/"
    BY <1>2, <1>4, <2>6
  <2>7. CASE c = "?"
    BY <1>2, <1>4, <2>7
  <2>8. CASE c = " "
    BY <1>2, <1>4, <2>8
  <2>9. CASE c = "{id}"
    BY <1>2, <1>4, <2>9
  <2>10. CASE c = "{tag}"
    BY <1>2, <1>4, <2>10
  <2> QED BY <2>1, <2>2, <2>3, <2>4, <2>5, <2>6, <2>7, <2>8, <2>9, <2>10
<1> QED BY <1>1, <1>3, <1>4

LEMMA EncodedIs ==
  ASSUME NEW Char, NEW text \in Seq(Char)
  PROVE  Encode(text) \in Seq(Inner(Char))
<1>1. ASSUME NEW i \in 1 .. Len(text)
      PROVE  (IF text[i] \in DOMAIN Escapes THEN Escapes[text[i]] ELSE text[i]) \in Inner(Char)
  <2>1. text[i] \in Char
    OBVIOUS
  <2>2. CASE text[i] \in DOMAIN Escapes
    <3>1. Escapes[text[i]] \in Escaped
      BY <2>2, Zenon DEF Escaped
    <3>2. Escapes[text[i]] \notin {"?", "&", "="}
      BY <2>2, EscapesAre
    <3> QED BY <2>2, <3>1, <3>2 DEF Inner, Words
  <2>3. CASE text[i] \notin DOMAIN Escapes
    <3>1. text[i] \notin {"?", "&", "="}
      BY <2>3, EscapesAre
    <3> QED BY <2>1, <2>3, <3>1 DEF Inner, Words
  <2> QED BY <2>2, <2>3
<1>2. Len(text) \in Nat /\ DOMAIN text = 1 .. Len(text)
  OBVIOUS
<1> HIDE DEF Inner
<1>3. [i \in 1 .. Len(text) |-> IF text[i] \in DOMAIN Escapes THEN Escapes[text[i]] ELSE text[i]]
        \in Seq(Inner(Char))
  BY <1>1, <1>2, IsASeq
<1> QED BY <1>2, <1>3 DEF Encode

(* decodeURIComponent gives back what encodeURIComponent was given. *)
LEMMA DecodeEncode ==
  ASSUME NEW Char, Char \cap Escaped = {}, NEW text \in Seq(Char)
  PROVE  Decode(Encode(text)) = text
<1> DEFINE code == Encode(text)
           Plain(word) == {c \in DOMAIN Escapes : Escapes[c] = word}
           Back(word) == IF Plain(word) # {} THEN CHOOSE c \in Plain(word) : TRUE ELSE word
<1>1. /\ DOMAIN code = DOMAIN text
      /\ \A i \in DOMAIN text : code[i] = IF text[i] \in DOMAIN Escapes THEN Escapes[text[i]] ELSE text[i]
  BY DEF Encode
<1> HIDE DEF code
<1>2. ASSUME NEW i \in DOMAIN text PROVE Back(code[i]) = text[i]
  <2>1. text[i] \in Char
    OBVIOUS
  <2>2. CASE text[i] \in DOMAIN Escapes
    <3>1. code[i] = Escapes[text[i]]
      BY <1>1, <2>2
    <3>2. Plain(code[i]) = {text[i]}
      BY <2>2, <3>1, EscapesAre
    <3> HIDE DEF Plain
    <3> QED BY <3>2
  <2>3. CASE text[i] \notin DOMAIN Escapes
    <3>1. code[i] = text[i]
      BY <1>1, <2>3
    <3>2. text[i] \notin Escaped
      BY <2>1
    <3>3. Plain(text[i]) = {}
      BY <3>2 DEF Escaped
    <3> HIDE DEF Plain
    <3> QED BY <3>1, <3>3
  <2> QED BY <2>2, <2>3
<1>3. Decode(code) = [i \in DOMAIN code |-> Back(code[i])]
  BY DEF Decode
<1>4. text = [i \in DOMAIN text |-> text[i]]
  OBVIOUS
<1> HIDE DEF Back
<1>5. [i \in DOMAIN code |-> Back(code[i])] = [i \in DOMAIN text |-> text[i]]
  BY <1>1, <1>2
<1> QED BY <1>3, <1>4, <1>5, Zenon DEF code
--------------------------------------------------------------------------------
(* Two lists of texts joined are the first joined, and the second behind it. *)
IsBoth(a, b, separator) ==
  Join(a \o b, separator) = WithOneMore(a, separator, Join(b, separator))

LEMMA JoinOne ==
  ASSUME NEW S, NEW x \in Seq(S), NEW separator \in Seq(S)
  PROVE  Join(<<x>>, separator) = x
<1>1. <<>> \in Seq(Seq(S)) /\ <<x>> = Append(<<>>, x)
  OBVIOUS
<1>2. Join(Append(<<>>, x), separator) = WithOneMore(<<>>, separator, x)
  <2>1. ASSUME NEW none \in Seq(Seq(S)) PROVE Join(Append(none, x), separator) = WithOneMore(none, separator, x)
    BY JoinOneMore
  <2> QED BY <1>1, <2>1
<1> QED BY <1>1, <1>2 DEF WithOneMore

Associate(a, b, c) == (a \o b) \o c = a \o (b \o c)

LEMMA TextsAssociate ==
  ASSUME NEW S, NEW a \in Seq(S), NEW b \in Seq(S), NEW c \in Seq(S)
  PROVE  Associate(a, b, c) /\ a \o b \in Seq(S)
BY ConcatAssociative DEF Associate

LEMMA JoinStep ==
  ASSUME NEW S, NEW a \in Seq(Seq(S)), NEW b \in Seq(Seq(S)), NEW x \in Seq(S), NEW separator \in Seq(S),
         b # <<>>, IsBoth(a, b, separator)
  PROVE  IsBoth(a, Append(b, x), separator)
<1> DEFINE V == Seq(S)
           ja == Join(a, separator)
           jb == Join(b, separator)
<1>1. a \in Seq(V) /\ b \in Seq(V) /\ x \in V
  OBVIOUS
<1> HIDE DEF V
<1>2. a \o b \in Seq(V) /\ a \o b # <<>>
  BY <1>1
<1>3. a \o Append(b, x) = Append(a \o b, x)
  <2>1. <<x>> \in Seq(V)
    BY <1>1
  <2>2. (a \o b) \o <<x>> = a \o (b \o <<x>>)
    BY <1>1, <2>1, ConcatAssociative
  <2>3. Append(b, x) = b \o <<x>> /\ Append(a \o b, x) = (a \o b) \o <<x>>
    BY <1>1, <1>2, AppendIsConcat
  <2> QED BY <2>2, <2>3
<1>4. ja \in Seq(S) /\ jb \in Seq(S)
  BY JoinOneMore
<1>5. Join(Append(b, x), separator) = jb \o separator \o x
  <2>1. Join(Append(b, x), separator) = WithOneMore(b, separator, x)
    BY JoinOneMore
  <2> QED BY <2>1, Zenon DEF WithOneMore
<1>6. Join(a \o Append(b, x), separator) = Join(a \o b, separator) \o separator \o x
  <2>1. ASSUME NEW c, c = a \o b PROVE Join(Append(c, x), separator) = WithOneMore(c, separator, x)
    <3>1. c \in Seq(Seq(S))
      BY <1>2, <2>1 DEF V
    <3> QED BY <3>1, JoinOneMore
  <2>2. Join(Append(a \o b, x), separator) = WithOneMore(a \o b, separator, x)
    BY <2>1
  <2> QED BY <1>2, <1>3, <2>2, Zenon DEF WithOneMore
<1>7. Join(a \o b, separator) = WithOneMore(a, separator, jb)
  BY DEF IsBoth
<1> HIDE DEF ja, jb
<1>8. CASE a = <<>>
  <2>1. Join(a \o b, separator) = jb
    BY <1>7, <1>8, Zenon DEF WithOneMore
  <2>2. Join(a \o Append(b, x), separator) = jb \o separator \o x
    BY <1>6, <2>1, Zenon
  <2> QED BY <1>5, <1>8, <2>2, Zenon DEF WithOneMore, IsBoth
<1>9. CASE a # <<>>
  <2>1. Join(a \o b, separator) = ja \o separator \o jb
    BY <1>7, <1>9, Zenon DEF WithOneMore, ja
  <2>2. (ja \o separator \o jb) \o separator \o x = ja \o separator \o (jb \o separator \o x)
    <3>1. ASSUME NEW k \in Seq(S), NEW y \in Seq(S)
          PROVE  (k \o jb \o separator) \o y = k \o (jb \o separator \o y)
      <4>1. Associate(k, jb, separator) /\ jb \o separator \in Seq(S)
        BY <1>4, TextsAssociate
      <4>2. Associate(k, jb \o separator, y)
        BY <4>1, TextsAssociate
      <4> QED BY <4>1, <4>2, Zenon DEF Associate
    <3>2. ja \o separator \in Seq(S)
      BY <1>4
    <3> QED BY <3>1, <3>2
  <2>3. Join(a \o Append(b, x), separator) = ja \o separator \o (jb \o separator \o x)
    BY <1>6, <2>1, <2>2, Zenon
  <2>4. WithOneMore(a, separator, jb \o separator \o x) = ja \o separator \o (jb \o separator \o x)
    BY <1>9, Zenon DEF WithOneMore, ja
  <2> QED BY <1>5, <2>3, <2>4, Zenon DEF IsBoth
<1> QED BY <1>8, <1>9

LEMMA JoinBoth ==
  ASSUME NEW S, NEW a \in Seq(Seq(S)), NEW b \in Seq(Seq(S)), NEW separator \in Seq(S), b # <<>>
  PROVE  IsBoth(a, b, separator)
<1> DEFINE V == Seq(S)
           N == Len(b)
           T == {n \in 0 .. N : n # 0 => IsBoth(a, First(b, n), separator)}
<1>1. a \in Seq(V) /\ b \in Seq(V) /\ N \in Nat \ {0}
  OBVIOUS
<1>2. /\ First(b, N) = b
      /\ \A n \in 1 .. N : /\ b[n] \in V /\ First(b, n - 1) \in Seq(V) /\ Len(First(b, n - 1)) = n - 1
                           /\ First(b, n) = Append(First(b, n - 1), b[n])
  <2> HIDE DEF V
  <2> QED BY <1>1, FirstIs
<1> HIDE DEF V
<1>3. 0 \in T
  BY <1>1
<1>4. ASSUME NEW n \in 1 .. N, n - 1 \in T PROVE n \in T
  <2>1. ASSUME NEW before \in Seq(V), NEW x \in V, before = <<>> \/ IsBoth(a, before, separator)
        PROVE  IsBoth(a, Append(before, x), separator)
    <3>1. before \in Seq(Seq(S)) /\ x \in Seq(S)
      BY DEF V
    <3>2. CASE before = <<>>
      <4>1. Append(before, x) = <<x>> /\ a \o <<x>> = Append(a, x)
        <5>1. Append(before, x) = <<x>>
          BY <3>2
        <5>2. a \o <<x>> = Append(a, x)
          BY <1>1, AppendIsConcat
        <5> QED BY <5>1, <5>2
      <4>2. Join(<<x>>, separator) = x
        BY <3>1, JoinOne
      <4>3. Join(Append(a, x), separator) = WithOneMore(a, separator, x)
        BY <3>1, JoinOneMore
      <4> QED BY <4>1, <4>2, <4>3, Zenon DEF IsBoth
    <3>3. CASE before # <<>>
      BY <2>1, <3>1, <3>3, JoinStep
    <3> QED BY <3>2, <3>3
  <2>2. /\ First(b, n - 1) \in Seq(V) /\ Len(First(b, n - 1)) = n - 1 /\ b[n] \in V
        /\ First(b, n) = Append(First(b, n - 1), b[n]) /\ n \in 0 .. N
    BY <1>1, <1>2
  <2>3. First(b, n - 1) = <<>> \/ IsBoth(a, First(b, n - 1), separator)
    <3>1. CASE n - 1 = 0
      <4>1. ASSUME NEW c \in Seq(V), Len(c) = 0 PROVE c = <<>>
        BY <4>1
      <4> QED BY <2>2, <3>1, <4>1
    <3>2. CASE n - 1 # 0
      BY <1>4, <3>2
    <3> QED BY <3>1, <3>2
  <2>4. IsBoth(a, First(b, n), separator)
    BY <2>1, <2>2, <2>3
  <2> QED BY <2>2, <2>4
<1>5. N \in T
  <2> HIDE DEF T
  <2>1. \A n \in 0 .. N : n \in T
    BY <1>1, <1>3, <1>4, UpTo
  <2> QED BY <1>1, <2>1
<1> QED BY <1>1, <1>2, <1>5
LEMMA JoinNotEmpty ==
  ASSUME NEW S, NEW texts \in Seq(Seq(S)), NEW separator \in Seq(S),
         texts # <<>>, \A i \in 1 .. Len(texts) : texts[i] # <<>>
  PROVE  Join(texts, separator) # <<>>
<1> DEFINE V == Seq(S)
           N == Len(texts)
<1>1. texts \in Seq(V) /\ N \in Nat \ {0} /\ N \in 1 .. N
  OBVIOUS
<1>2. /\ First(texts, N) = texts /\ texts[N] \in V /\ First(texts, N - 1) \in Seq(V)
      /\ First(texts, N) = Append(First(texts, N - 1), texts[N]) /\ texts[N] # <<>>
  <2> HIDE DEF V
  <2> QED BY <1>1, FirstIs
<1>3. ASSUME NEW b \in Seq(V), NEW x \in V, x # <<>> PROVE Join(Append(b, x), separator) # <<>>
  <2>1. Join(Append(b, x), separator) = WithOneMore(b, separator, x) /\ Join(b, separator) \in Seq(S)
    BY JoinOneMore
  <2>2. \A k \in Seq(S) : k \o separator \o x # <<>>
    BY <1>3
  <2>3. WithOneMore(b, separator, x) # <<>>
    BY <1>3, <2>1, <2>2 DEF WithOneMore
  <2> QED BY <2>1, <2>3
<1> HIDE DEF V, N
<1> QED BY <1>2, <1>3
--------------------------------------------------------------------------------
(***************************************************************************)
(* The pairs of a query.                                                   *)
(***************************************************************************)
Pair(Char) == [name : Seq(Inner(Char)), text : Seq(Inner(Char))]
PairText(pair) == pair.name \o <<"=">> \o pair.text
TextsOfPairs(pairs) == [i \in DOMAIN pairs |-> PairText(pairs[i])]

(* The pairs a parameter is to be written as, by its kind and its style. *)
PairsWritten(how, p) ==
  LET s == StyleOf(how, p.name, p.value.kind)
      entries == p.value.entries
      plain == [i \in DOMAIN entries |-> Encode(entries[i].text)]
      flat == [i \in DOMAIN entries |-> <<entries[i].key, ",">> \o plain[i]]
      Key(e) == IF s.style = "deepObject" THEN <<p.name, "[", e.key, "]">> ELSE <<e.key>>
      One(text) == << [name |-> <<p.name>>, text |-> text] >>
  IN  CASE p.value.kind = "none" -> <<>>
        [] p.value.kind = "date" -> One(entries[1].text)
        [] p.value.kind = "array" /\ s.explode ->
             [i \in DOMAIN entries |-> [name |-> <<p.name>>, text |-> plain[i]]]
        [] p.value.kind = "array" /\ ~ s.explode ->
             One(Join(plain, <<SeparatorNoExplode(s.style)>>))
        [] p.value.kind = "object" /\ (s.explode \/ s.style = "deepObject") ->
             [i \in DOMAIN entries |-> [name |-> Key(entries[i]), text |-> plain[i]]]
        [] p.value.kind = "object" /\ ~ (s.explode \/ s.style = "deepObject") ->
             One(Join(flat, <<",">>))
        [] OTHER -> One(Encode(entries[1].text))

PairsGiven(how, query) ==
  LET SoFar[n \in 0 .. Len(query)] ==
        IF n = 0 THEN <<>> ELSE SoFar[n - 1] \o PairsWritten(how, query[n])
  IN  SoFar[Len(query)]

(* A parameter whose name and keys are not marks of a query, nor is anything in
   a date, which is written as it is; in a style that the types allow there (ArrayStyle and ObjectStyle of a query). *)
Parameter(Char, how) ==
  {p \in [name : Char \ {"?", "&", "="},
          value : [kind : {"none", "text", "zero", "date", "array", "object"},
                   entries : Seq([key : Char \ {"?", "&", "="}, text : Seq(Char)])]] :
     /\ p.value.kind \in {"text", "zero", "date"} => p.value.entries # <<>>
     /\ p.value.kind = "date" => p.value.entries[1].text \in Seq(Char \ {"?", "&", "="})
     /\ StyleOf(how, p.name, p.value.kind).style \in
          IF p.value.kind = "array" THEN {"form", "spaceDelimited", "pipeDelimited"}
                                    ELSE {"form", "deepObject"}}

LEMMA InnerHas ==
  ASSUME NEW Char
  PROVE  /\ Char \ {"?", "&", "="} \subseteq Inner(Char)
         /\ "," \in Inner(Char) /\ "|" \in Inner(Char) /\ "%20" \in Inner(Char)
         /\ "[" \in Inner(Char) /\ "]" \in Inner(Char)
         /\ "?" \notin Inner(Char) /\ "&" \notin Inner(Char) /\ "=" \notin Inner(Char)
         /\ "?" \in Words(Char) /\ "&" \in Words(Char) /\ "=" \in Words(Char)
<1>1. "," \in DOMAIN Escapes /\ "|" \in DOMAIN Escapes /\ " " \in DOMAIN Escapes
      /\ "?" \in DOMAIN Escapes /\ "&" \in DOMAIN Escapes /\ "=" \in DOMAIN Escapes
  BY EscapesAre
<1>2. Escapes[" "] = "%20"
  BY DEF Escapes
<1>3. "%20" \in Escaped
  BY <1>1, <1>2 DEF Escaped
<1> HIDE DEF Escaped
<1> QED BY <1>1, <1>3 DEF Inner, Words

LEMMA PairTextIs ==
  ASSUME NEW Char, NEW pair \in Pair(Char)
  PROVE  PairText(pair) \in Seq(Words(Char) \ {"?", "&"}) /\ PairText(pair) # <<>>
<1> DEFINE S == Words(Char) \ {"?", "&"}
<1>1. "=" \in S /\ Inner(Char) \subseteq S
  BY InnerHas DEF Inner
<1> HIDE DEF S
<1>2. ASSUME NEW a \in Seq(Inner(Char)), NEW b \in Seq(Inner(Char))
      PROVE  a \o <<"=">> \o b \in Seq(S) /\ a \o <<"=">> \o b # <<>>
  <2>1. a \in Seq(S) /\ b \in Seq(S) /\ <<"=">> \in Seq(S)
    BY <1>1
  <2> QED BY <2>1
<1>3. pair.name \in Seq(Inner(Char)) /\ pair.text \in Seq(Inner(Char))
  BY DEF Pair
<1> QED BY <1>2, <1>3 DEF PairText, S

LEMMA TextsArePairs ==
  ASSUME NEW Char, NEW a \in Seq(Pair(Char)), NEW b \in Seq(Pair(Char))
  PROVE  /\ TextsOfPairs(a) \in Seq(Seq(Words(Char) \ {"?", "&"}))
         /\ TextsOfPairs(a) = <<>> <=> a = <<>>
         /\ \A i \in 1 .. Len(TextsOfPairs(a)) : TextsOfPairs(a)[i] # <<>>
         /\ TextsOfPairs(a \o b) = TextsOfPairs(a) \o TextsOfPairs(b)
<1> DEFINE V == Seq(Words(Char) \ {"?", "&"})
           P == Pair(Char)
<1>1. \A pair \in P : PairText(pair) \in V /\ PairText(pair) # <<>>
  BY PairTextIs
<1>2. a \in Seq(P) /\ b \in Seq(P)
  OBVIOUS
<1> HIDE DEF V, P
<1>3. ASSUME NEW c \in Seq(P)
      PROVE  /\ TextsOfPairs(c) \in Seq(V) /\ Len(TextsOfPairs(c)) = Len(c)
             /\ \A i \in 1 .. Len(c) : TextsOfPairs(c)[i] = PairText(c[i]) /\ c[i] \in P
  <2>1. DOMAIN c = 1 .. Len(c) /\ Len(c) \in Nat /\ \A i \in 1 .. Len(c) : c[i] \in P
    OBVIOUS
  <2>2. TextsOfPairs(c) = [i \in 1 .. Len(c) |-> PairText(c[i])]
    BY <2>1 DEF TextsOfPairs
  <2> QED BY <1>1, <2>1, <2>2
<1>4. /\ a \o b \in Seq(P) /\ Len(a \o b) = Len(a) + Len(b)
      /\ \A i \in 1 .. Len(a) : (a \o b)[i] = a[i]
      /\ \A i \in 1 .. Len(b) : (a \o b)[Len(a) + i] = b[i]
  BY <1>2, Joined
<1>5. ASSUME NEW ab \in Seq(P), Len(ab) = Len(a) + Len(b),
             \A i \in 1 .. Len(a) : ab[i] = a[i], \A i \in 1 .. Len(b) : ab[Len(a) + i] = b[i]
      PROVE  TextsOfPairs(ab) = TextsOfPairs(a) \o TextsOfPairs(b)
  <2>1. /\ TextsOfPairs(ab) \in Seq(V) /\ Len(TextsOfPairs(ab)) = Len(a) + Len(b)
        /\ \A i \in 1 .. Len(a) + Len(b) : TextsOfPairs(ab)[i] = PairText(ab[i])
    BY <1>3, <1>5
  <2>2. /\ TextsOfPairs(a) \in Seq(V) /\ Len(TextsOfPairs(a)) = Len(a)
        /\ TextsOfPairs(b) \in Seq(V) /\ Len(TextsOfPairs(b)) = Len(b)
        /\ \A i \in 1 .. Len(a) : TextsOfPairs(a)[i] = PairText(a[i])
        /\ \A i \in 1 .. Len(b) : TextsOfPairs(b)[i] = PairText(b[i])
    BY <1>2, <1>3
  <2>3. ASSUME NEW ta, ta = TextsOfPairs(a), NEW tb, tb = TextsOfPairs(b), NEW tab, tab = TextsOfPairs(ab)
        PROVE  tab = ta \o tb
    <3>1. ta \in Seq(V) /\ tb \in Seq(V) /\ tab \in Seq(V) /\ Len(ta) = Len(a) /\ Len(tb) = Len(b)
          /\ Len(tab) = Len(a) + Len(b) /\ Len(a) \in Nat /\ Len(b) \in Nat
      BY <1>2, <2>1, <2>2, <2>3
    <3>2. /\ ta \o tb \in Seq(V) /\ Len(ta \o tb) = Len(ta) + Len(tb)
          /\ \A i \in 1 .. Len(ta) : (ta \o tb)[i] = ta[i]
          /\ \A i \in 1 .. Len(tb) : (ta \o tb)[Len(ta) + i] = tb[i]
      <4>1. ASSUME NEW x \in Seq(V), NEW y \in Seq(V)
            PROVE  /\ x \o y \in Seq(V) /\ Len(x \o y) = Len(x) + Len(y)
                   /\ \A i \in 1 .. Len(x) : (x \o y)[i] = x[i]
                   /\ \A i \in 1 .. Len(y) : (x \o y)[Len(x) + i] = y[i]
        BY Joined
      <4> QED BY <3>1, <4>1
    <3>3. ASSUME NEW t, t = ta \o tb PROVE tab = t
      <4>1. /\ t \in Seq(V) /\ Len(t) = Len(a) + Len(b) /\ (\A i \in 1 .. Len(a) : t[i] = ta[i])
            /\ \A i \in 1 .. Len(b) : t[Len(a) + i] = tb[i]
        BY <3>1, <3>2, <3>3
      <4>2. ASSUME NEW i \in 1 .. Len(tab) PROVE tab[i] = t[i]
        <5>1. CASE i \in 1 .. Len(a)
          BY <1>5, <2>1, <2>2, <2>3, <3>1, <4>1, <5>1
        <5>2. CASE i \notin 1 .. Len(a)
          <6>1. PICK j \in 1 .. Len(b) : i = Len(a) + j
            <7>1. i - Len(a) \in 1 .. Len(b) /\ i = Len(a) + (i - Len(a))
              BY <3>1, <5>2
            <7> QED BY <7>1
          <6>2. tab[i] = PairText(ab[i]) /\ ab[i] = b[j] /\ t[i] = tb[j] /\ tb[j] = PairText(b[j])
            BY <1>5, <2>1, <2>2, <2>3, <3>1, <4>1, <6>1
          <6> QED BY <6>2
        <5> QED BY <5>1, <5>2
      <4> QED BY <3>1, <4>1, <4>2, SameSeq
    <3> QED BY <3>3
  <2> QED BY <2>3
<1>6. TextsOfPairs(a \o b) = TextsOfPairs(a) \o TextsOfPairs(b)
  <2>1. ASSUME NEW ab, ab = a \o b PROVE TextsOfPairs(ab) = TextsOfPairs(a) \o TextsOfPairs(b)
    BY <1>4, <1>5, <2>1
  <2> QED BY <2>1
<1>7. /\ TextsOfPairs(a) \in Seq(V)
      /\ TextsOfPairs(a) = <<>> <=> a = <<>>
      /\ \A i \in 1 .. Len(TextsOfPairs(a)) : TextsOfPairs(a)[i] # <<>>
  <2>1. /\ TextsOfPairs(a) \in Seq(V) /\ Len(TextsOfPairs(a)) = Len(a)
        /\ \A i \in 1 .. Len(a) : TextsOfPairs(a)[i] = PairText(a[i]) /\ a[i] \in P
    BY <1>2, <1>3
  <2>2. \A i \in 1 .. Len(TextsOfPairs(a)) : TextsOfPairs(a)[i] # <<>>
    BY <1>1, <2>1
  <2>3. \A s \in Seq(V) : s = <<>> <=> Len(s) = 0
    OBVIOUS
  <2>4. a = <<>> <=> Len(a) = 0
    BY <1>2
  <2> QED BY <2>1, <2>2, <2>3, <2>4
<1> QED BY <1>6, <1>7 DEF V

Entry(Char) == [key : Char \ {"?", "&", "="}, text : Seq(Char)]

LEMMA EntryIs ==
  ASSUME NEW Char, NEW entries \in Seq(Entry(Char)), NEW i \in DOMAIN entries
  PROVE  /\ entries[i].key \in Inner(Char) /\ entries[i].text \in Seq(Char)
         /\ Encode(entries[i].text) \in Seq(Inner(Char))
<1>1. entries[i] \in Entry(Char)
  OBVIOUS
<1>2. entries[i].key \in Char \ {"?", "&", "="} /\ entries[i].text \in Seq(Char)
  BY <1>1 DEF Entry
<1> QED BY <1>2, EncodedIs, InnerHas

LEMMA TwoBefore ==
  ASSUME NEW S, NEW a \in S, NEW b \in S, NEW x \in Seq(S)
  PROVE  <<a, b>> \o x \in Seq(S)
<1>1. <<a, b>> \in Seq(S)
  OBVIOUS
<1> QED BY <1>1

IsTwo(parts, a, b) == parts = <<a, b>>

LEMMA TwoTexts == ASSUME NEW a, NEW b PROVE IsTwo(Append(<<a>>, b), a, b)
<1> DEFINE V == {a, b}
<1>1. <<a>> \in Seq(V) /\ b \in V /\ <<a, b>> \in Seq(V) /\ Len(<<a>>) = 1 /\ <<a>>[1] = a
  OBVIOUS
<1> HIDE DEF V
<1>2. ASSUME NEW two, two = Append(<<a>>, b) PROVE two = <<a, b>>
  <2>1. two \in Seq(V) /\ Len(two) = 2 /\ two[1] = a /\ two[2] = b
    BY <1>1, <1>2, AppendProperties
  <2>2. Len(<<a, b>>) = 2 /\ <<a, b>>[1] = a /\ <<a, b>>[2] = b
    OBVIOUS
  <2>3. \A i \in 1 .. 2 : two[i] = <<a, b>>[i]
    BY <2>1, <2>2
  <2> QED BY <1>1, <2>1, <2>2, <2>3, SameSeq
<1> QED BY <1>2 DEF IsTwo

LEMMA NameFirst == ASSUME NEW a, NEW b PROVE IsTwo(<<a>> \o <<b>>, a, b)
<1> DEFINE V == {a, b}
<1>1. <<a>> \in Seq(V) /\ <<b>> \in Seq(V) /\ b \in V
  OBVIOUS
<1>2. Append(<<a>>, b) = <<a>> \o <<b>>
  BY <1>1, AppendIsConcat
<1> QED BY <1>2, TwoTexts, Zenon

LEMMA OneWritten ==
  ASSUME NEW Char, NEW name \in Inner(Char), NEW text \in Seq(Inner(Char)),
         NEW pairs, pairs = << [name |-> <<name>>, text |-> text] >>
  PROVE  /\ pairs \in Seq(Pair(Char))
         /\ Join(TextsOfPairs(pairs), <<"&">>) = <<name>> \o <<"=">> \o text
<1> DEFINE pair == [name |-> <<name>>, text |-> text]
           S == Words(Char)
<1>1. pair \in Pair(Char) /\ <<name>> \in Seq(Inner(Char))
  BY DEF Pair
<1>2. PairText(pair) = <<name>> \o <<"=">> \o text
  BY Zenon DEF PairText
<1> HIDE DEF pair
<1>3. pairs = <<pair>> /\ pairs \in Seq(Pair(Char))
  <2>1. <<pair>> \in Seq(Pair(Char))
    BY <1>1
  <2> QED BY <2>1 DEF pair
<1>4. TextsOfPairs(pairs) = << PairText(pair) >>
  BY <1>3 DEF TextsOfPairs
<1>5. PairText(pair) \in Seq(S)
  <2>1. PairText(pair) \in Seq(S \ {"?", "&"})
    BY <1>1, PairTextIs
  <2> HIDE DEF S
  <2> QED BY <2>1
<1>6. <<"&">> \in Seq(S)
  <2>1. "&" \in S
    BY InnerHas
  <2> HIDE DEF S
  <2> QED BY <2>1
<1>7. Join(<< PairText(pair) >>, <<"&">>) = PairText(pair)
  <2>1. ASSUME NEW x \in Seq(S), NEW separator \in Seq(S) PROVE Join(<<x>>, separator) = x
    BY JoinOne
  <2> QED BY <1>5, <1>6, <2>1
<1> QED BY <1>2, <1>3, <1>4, <1>7, Zenon

(* One pair for each entry, and the texts they are written as. *)
PairsOfEntries(entries, key) == [i \in DOMAIN entries |-> [name |-> key[i], text |-> Encode(entries[i].text)]]
TextsOfEntries(entries, key) == [i \in DOMAIN entries |-> serializePrimitiveParam(key[i], entries[i].text)]

LEMMA NamedWritten ==
  ASSUME NEW Char, NEW entries \in Seq(Entry(Char)), NEW key,
         \A i \in DOMAIN entries : key[i] \in Seq(Inner(Char)),
         NEW pairs, pairs = PairsOfEntries(entries, key)
  PROVE  /\ pairs \in Seq(Pair(Char))
         /\ TextsOfPairs(pairs) = TextsOfEntries(entries, key)
<1> USE DEF PairsOfEntries
<1>1. \A i \in DOMAIN entries : pairs[i] \in Pair(Char)
  BY EntryIs DEF Pair
<1>2. DOMAIN entries = 1 .. Len(entries) /\ Len(entries) \in Nat
  OBVIOUS
<1>3. pairs \in Seq(Pair(Char))
  <2>1. pairs = [i \in 1 .. Len(entries) |-> pairs[i]]
    BY <1>2
  <2> HIDE DEF Pair
  <2>2. [i \in 1 .. Len(entries) |-> pairs[i]] \in Seq(Pair(Char))
    BY <1>1, <1>2, IsASeq
  <2> QED BY <2>1, <2>2, Zenon
<1>4. DOMAIN pairs = DOMAIN entries
      /\ \A i \in DOMAIN entries : pairs[i].name = key[i] /\ pairs[i].text = Encode(entries[i].text)
  OBVIOUS
<1>5. \A i \in DOMAIN entries : PairText(pairs[i]) = serializePrimitiveParam(key[i], entries[i].text)
  BY <1>4, Zenon DEF PairText, serializePrimitiveParam
<1>6. TextsOfPairs(pairs) = [i \in DOMAIN entries |-> serializePrimitiveParam(key[i], entries[i].text)]
  BY <1>4, <1>5, Zenon DEF TextsOfPairs
<1> QED BY <1>3, <1>6 DEF TextsOfEntries

LEMMA JoinedInner ==
  ASSUME NEW Char, NEW entries \in Seq(Entry(Char)), NEW texts, NEW separator \in Inner(Char),
         texts = [i \in DOMAIN entries |-> texts[i]],
         \A i \in DOMAIN entries : texts[i] \in Seq(Inner(Char))
  PROVE  Join(texts, <<separator>>) \in Seq(Inner(Char))
<1> DEFINE S == Inner(Char)
           V == Seq(S)
<1>1. DOMAIN entries = 1 .. Len(entries) /\ Len(entries) \in Nat
  OBVIOUS
<1>2. \A i \in 1 .. Len(entries) : texts[i] \in V
  BY <1>1
<1> HIDE DEF V
<1>3. [i \in 1 .. Len(entries) |-> texts[i]] \in Seq(V)
  BY <1>1, <1>2, IsASeq
<1>4. texts \in Seq(V)
  BY <1>1, <1>3, Zenon
<1>5. <<separator>> \in Seq(S)
  OBVIOUS
<1>6. ASSUME NEW end \in Seq(S) PROVE Join(texts, end) \in Seq(S)
  <2>1. texts \in Seq(Seq(S))
    BY <1>4 DEF V
  <2>2. <<>> \in Seq(S)
    OBVIOUS
  <2> HIDE DEF S
  <2> QED BY <2>1, <2>2, JoinOneMore
<1> QED BY <1>5, <1>6

(* createQuerySerializer writes a parameter as its pairs, joined by &. *)
LEMMA WrittenIs ==
  ASSUME NEW Char, NEW how, NEW p \in Parameter(Char, how)
  PROVE  /\ PairsWritten(how, p) \in Seq(Pair(Char))
         /\ WrittenInQuery(how, p) = Join(TextsOfPairs(PairsWritten(how, p)), <<"&">>)
<1> DEFINE s == StyleOf(how, p.name, p.value.kind)
           entries == p.value.entries
           plain == [i \in DOMAIN entries |-> Encode(entries[i].text)]
           flat == [i \in DOMAIN entries |-> <<entries[i].key, ",">> \o Encode(entries[i].text)]
           Key(e) == IF s.style = "deepObject" THEN <<p.name, "[", e.key, "]">> ELSE <<e.key>>
<1>1. /\ p.name \in Char \ {"?", "&", "="}
      /\ p.value.kind \in {"none", "text", "zero", "date", "array", "object"}
      /\ entries \in Seq(Entry(Char))
      /\ p.value.kind \in {"text", "zero", "date"} => entries # <<>>
      /\ p.value.kind = "date" => entries[1].text \in Seq(Char \ {"?", "&", "="})
      /\ s.style \in IF p.value.kind = "array" THEN {"form", "spaceDelimited", "pipeDelimited"}
                                              ELSE {"form", "deepObject"}
  BY DEF Parameter, Entry
<1>2. p.name \in Inner(Char)
  BY <1>1, InnerHas
<1> HIDE DEF s, entries
<1>21. ASSUME NEW text \in Seq(Inner(Char)),
             PairsWritten(how, p) = << [name |-> <<p.name>>, text |-> text] >>,
             WrittenInQuery(how, p) = <<p.name>> \o <<"=">> \o text
      PROVE  /\ PairsWritten(how, p) \in Seq(Pair(Char))
             /\ WrittenInQuery(how, p) = Join(TextsOfPairs(PairsWritten(how, p)), <<"&">>)
  <2>1. ASSUME NEW pairs, pairs = << [name |-> <<p.name>>, text |-> text] >>
        PROVE  pairs \in Seq(Pair(Char)) /\ Join(TextsOfPairs(pairs), <<"&">>) = <<p.name>> \o <<"=">> \o text
    BY <1>2, <2>1, OneWritten
  <2>2. ASSUME NEW pairs, pairs = PairsWritten(how, p)
        PROVE  pairs \in Seq(Pair(Char)) /\ Join(TextsOfPairs(pairs), <<"&">>) = <<p.name>> \o <<"=">> \o text
    BY <1>21, <2>1, <2>2, Zenon
  <2> QED BY <1>21, <2>2, Zenon
<1>22. ASSUME NEW key, \A i \in DOMAIN entries : key[i] \in Seq(Inner(Char)),
             PairsWritten(how, p) = PairsOfEntries(entries, key),
             WrittenInQuery(how, p) = <<>> \o Join(TextsOfEntries(entries, key), <<"&">>)
      PROVE  /\ PairsWritten(how, p) \in Seq(Pair(Char))
             /\ WrittenInQuery(how, p) = Join(TextsOfPairs(PairsWritten(how, p)), <<"&">>)
  <2> DEFINE pairs == PairsWritten(how, p)
             named == TextsOfEntries(entries, key)
             S == Words(Char) \ {"?", "&"}
  <2>1. pairs = PairsOfEntries(entries, key)
    BY <1>22
  <2>2. WrittenInQuery(how, p) = <<>> \o Join(named, <<"&">>)
    BY <1>22
  <2> HIDE DEF pairs, named
  <2>3. pairs \in Seq(Pair(Char)) /\ TextsOfPairs(pairs) = named
    BY <1>1, <1>22, <2>1, NamedWritten DEF named
  <2>4. named \in Seq(Seq(S)) /\ <<>> \in Seq(Pair(Char))
    BY <2>3, TextsArePairs
  <2>5. ASSUME NEW end, end = <<"&">> PROVE <<>> \o Join(named, end) = Join(named, end)
    <3>1. end \in Seq(Words(Char)) /\ named \in Seq(Seq(Words(Char))) /\ <<>> \in Seq(Words(Char))
      <4>1. "&" \in Words(Char) /\ S \subseteq Words(Char)
        BY InnerHas
      <4> HIDE DEF S
      <4>2. end \in Seq(Words(Char)) /\ Seq(S) \subseteq Seq(Words(Char))
        BY <2>5, <4>1
      <4>3. Seq(Seq(S)) \subseteq Seq(Seq(Words(Char)))
        BY <4>2
      <4> QED BY <2>4, <4>2, <4>3
    <3>2. Join(named, end) \in Seq(Words(Char))
      BY <3>1, JoinOneMore
    <3>3. \A x \in Seq(Words(Char)) : <<>> \o x = x
      BY ConcatEmptySeq
    <3> QED BY <3>2, <3>3
  <2>6. WrittenInQuery(how, p) = Join(named, <<"&">>)
    BY <2>2, <2>5
  <2> QED BY <2>3, <2>6, Zenon DEF pairs
<1>3. CASE p.value.kind = "none"
  <2>1. PairsWritten(how, p) = <<>> /\ WrittenInQuery(how, p) = <<>>
    BY <1>3 DEF PairsWritten, WrittenInQuery
  <2>2. TextsOfPairs(<<>>) = <<>>
    BY DEF TextsOfPairs
  <2>3. Join(<<>>, <<"&">>) = <<>>
    <3>1. <<>> \in Seq(Seq({"&"})) /\ <<>> \in Seq({"&"}) /\ <<"&">> \in Seq({"&"})
      OBVIOUS
    <3> QED BY <3>1, JoinOneMore
  <2>4. <<>> \in Seq(Pair(Char))
    OBVIOUS
  <2> QED BY <2>1, <2>2, <2>3, <2>4
<1>4. CASE p.value.kind = "array" /\ s.explode
  <2> DEFINE pairs == [i \in DOMAIN entries |-> [name |-> <<p.name>>, text |-> Encode(entries[i].text)]]
             named == [i \in DOMAIN entries |-> serializePrimitiveParam(<<p.name>>, entries[i].text)]
  <2>1. PairsWritten(how, p) = pairs
    BY <1>4, Zenon DEF PairsWritten, s, entries
  <2>2. WrittenInQuery(how, p) = <<>> \o Join(named, <<"&">>)
    BY <1>1, <1>4 DEF WrittenInQuery, serializeArrayParam, Exploded, SeparatorExplode, s, entries
  <2>3. <<p.name>> \in Seq(Inner(Char))
    BY <1>2
  <2>4. ASSUME NEW key, key = [i \in DOMAIN entries |-> <<p.name>>]
        PROVE  /\ \A i \in DOMAIN entries : key[i] = <<p.name>> /\ key[i] \in Seq(Inner(Char))
               /\ pairs = PairsOfEntries(entries, key)
               /\ named = TextsOfEntries(entries, key)
    BY <2>3, <2>4 DEF PairsOfEntries, TextsOfEntries
  <2> HIDE DEF pairs, named
  <2> QED BY <1>22, <2>1, <2>2, <2>4, Zenon
<1>5. CASE p.value.kind = "array" /\ ~ s.explode
  <2> DEFINE text == Join(plain, <<SeparatorNoExplode(s.style)>>)
  <2>1. PairsWritten(how, p) = << [name |-> <<p.name>>, text |-> text] >>
    BY <1>5 DEF PairsWritten, s, entries
  <2>2. WrittenInQuery(how, p) = <<p.name, "=">> \o text
    BY <1>1, <1>5 DEF WrittenInQuery, serializeArrayParam, Introduced, s, entries
  <2>3. text \in Seq(Inner(Char))
    <3>1. SeparatorNoExplode(s.style) \in Inner(Char)
      BY <1>1, <1>5, InnerHas DEF SeparatorNoExplode
    <3>2. \A i \in DOMAIN entries : plain[i] \in Seq(Inner(Char))
      BY <1>1, EntryIs
    <3>3. plain = [i \in DOMAIN entries |-> plain[i]]
      OBVIOUS
    <3> HIDE DEF plain
    <3> QED BY <1>1, <3>1, <3>2, <3>3, JoinedInner
  <2> HIDE DEF text
  <2>4. <<p.name, "=">> \o text = <<p.name>> \o <<"=">> \o text
    BY NameFirst, Zenon DEF IsTwo
  <2> QED BY <1>21, <2>1, <2>2, <2>3, <2>4, Zenon
<1>6. CASE p.value.kind = "object" /\ (s.explode \/ s.style = "deepObject")
  <2> DEFINE pairs == [i \in DOMAIN entries |-> [name |-> Key(entries[i]), text |-> Encode(entries[i].text)]]
             named == [i \in DOMAIN entries |-> serializePrimitiveParam(Key(entries[i]), entries[i].text)]
  <2>1. PairsWritten(how, p) = pairs
    BY <1>6 DEF PairsWritten, s, entries
  <2>2. WrittenInQuery(how, p) = <<>> \o Join(named, <<"&">>)
    BY <1>1, <1>6 DEF WrittenInQuery, serializeObjectParam, Exploded, SeparatorExplode, s, entries
  <2>3. ASSUME NEW i \in DOMAIN entries PROVE Key(entries[i]) \in Seq(Inner(Char))
    <3>1. entries[i].key \in Inner(Char) /\ "[" \in Inner(Char) /\ "]" \in Inner(Char)
      BY <1>1, EntryIs, InnerHas
    <3> QED BY <1>2, <3>1
  <2> HIDE DEF Key
  <2>4. ASSUME NEW key, key = [i \in DOMAIN entries |-> Key(entries[i])]
        PROVE  /\ \A i \in DOMAIN entries : key[i] \in Seq(Inner(Char))
               /\ pairs = PairsOfEntries(entries, key)
               /\ named = TextsOfEntries(entries, key)
    BY <2>3, <2>4 DEF PairsOfEntries, TextsOfEntries
  <2> HIDE DEF pairs, named
  <2> QED BY <1>22, <2>1, <2>2, <2>4, Zenon
<1>7. CASE p.value.kind = "object" /\ ~ (s.explode \/ s.style = "deepObject")
  <2> DEFINE text == Join(flat, <<",">>)
  <2>1. PairsWritten(how, p) = << [name |-> <<p.name>>, text |-> text] >>
    BY <1>7 DEF PairsWritten, s, entries
  <2>2. WrittenInQuery(how, p) = <<p.name, "=">> \o text
    BY <1>1, <1>7 DEF WrittenInQuery, serializeObjectParam, Introduced, s, entries
  <2>3. text \in Seq(Inner(Char))
    <3>1. "," \in Inner(Char)
      BY InnerHas
    <3>2. ASSUME NEW i \in DOMAIN entries PROVE flat[i] \in Seq(Inner(Char))
      <4>1. entries[i].key \in Inner(Char) /\ Encode(entries[i].text) \in Seq(Inner(Char)) /\ "," \in Inner(Char)
        BY <1>1, EntryIs, InnerHas
      <4>2. \A x \in Seq(Inner(Char)) : <<entries[i].key, ",">> \o x \in Seq(Inner(Char))
        BY <4>1, TwoBefore
      <4> QED BY <4>1, <4>2
    <3>3. flat = [i \in DOMAIN entries |-> flat[i]]
      OBVIOUS
    <3> HIDE DEF flat
    <3> QED BY <1>1, <3>1, <3>2, <3>3, JoinedInner
  <2> HIDE DEF text
  <2>4. <<p.name, "=">> \o text = <<p.name>> \o <<"=">> \o text
    BY NameFirst, Zenon DEF IsTwo
  <2> QED BY <1>21, <2>1, <2>2, <2>3, <2>4, Zenon
<1>8. CASE p.value.kind \in {"text", "zero"}
  <2> DEFINE text == Encode(entries[1].text)
  <2>1. PairsWritten(how, p) = << [name |-> <<p.name>>, text |-> text] >>
    BY <1>8 DEF PairsWritten, s, entries
  <2>2. WrittenInQuery(how, p) = <<p.name>> \o <<"=">> \o text
    BY <1>8 DEF WrittenInQuery, serializePrimitiveParam, s, entries
  <2>3. text \in Seq(Inner(Char))
    <3>1. 1 \in DOMAIN entries
      BY <1>1, <1>8
    <3> QED BY <1>1, <3>1, EntryIs
  <2> HIDE DEF text
  <2> QED BY <1>21, <2>1, <2>2, <2>3, Zenon
<1>9. CASE p.value.kind = "date"
  <2> DEFINE text == entries[1].text
  <2>1. PairsWritten(how, p) = << [name |-> <<p.name>>, text |-> text] >>
    BY <1>9 DEF PairsWritten, s, entries
  <2>2. WrittenInQuery(how, p) = <<p.name, "=">> \o text
    BY <1>9 DEF WrittenInQuery, s, entries
  <2>3. text \in Seq(Inner(Char))
    <3>1. Char \ {"?", "&", "="} \subseteq Inner(Char)
      BY DEF Inner, Words
    <3> QED BY <1>1, <1>9, <3>1
  <2> HIDE DEF text
  <2>4. <<p.name, "=">> \o text = <<p.name>> \o <<"=">> \o text
    BY NameFirst, Zenon DEF IsTwo
  <2> QED BY <1>21, <2>1, <2>2, <2>3, <2>4, Zenon
<1> QED BY <1>1, <1>3, <1>4, <1>5, <1>6, <1>7, <1>8, <1>9
--------------------------------------------------------------------------------
(***************************************************************************)
(* The whole query.                                                        *)
(***************************************************************************)
LEMMA WrittenTexts ==
  ASSUME NEW Char, NEW how, NEW p \in Parameter(Char, how)
  PROVE  /\ PairsWritten(how, p) \in Seq(Pair(Char))
         /\ WrittenInQuery(how, p) \in Seq(Words(Char) \ {"?"})
         /\ TextsOfPairs(PairsWritten(how, p)) \in Seq(Seq(Words(Char) \ {"?"}))
         /\ WrittenInQuery(how, p) = <<>> <=> PairsWritten(how, p) = <<>>
<1> DEFINE pairs == PairsWritten(how, p)
           texts == TextsOfPairs(pairs)
           S == Words(Char) \ {"?"}
<1>1. pairs \in Seq(Pair(Char)) /\ WrittenInQuery(how, p) = Join(texts, <<"&">>)
  BY WrittenIs
<1> HIDE DEF pairs
<1>2. /\ texts \in Seq(Seq(Words(Char) \ {"?", "&"})) /\ (texts = <<>> <=> pairs = <<>>)
      /\ \A i \in 1 .. Len(texts) : texts[i] # <<>>
  BY <1>1, TextsArePairs
<1> HIDE DEF texts
<1>3. texts \in Seq(Seq(S)) /\ <<"&">> \in Seq(S)
  <2>1. Words(Char) \ {"?", "&"} \subseteq S /\ "&" \in S
    BY InnerHas
  <2> DEFINE R == Words(Char) \ {"?", "&"}
  <2>2. texts \in Seq(Seq(R))
    BY <1>2
  <2> HIDE DEF R, S
  <2>3. Seq(R) \subseteq Seq(S) /\ <<"&">> \in Seq(S)
    BY <2>1 DEF R
  <2>4. Seq(Seq(R)) \subseteq Seq(Seq(S))
    BY <2>3
  <2> QED BY <2>2, <2>3, <2>4
<1>4. ASSUME NEW end \in Seq(S)
      PROVE  Join(texts, end) \in Seq(S) /\ (Join(texts, end) = <<>> <=> texts = <<>>)
  <2> HIDE DEF S
  <2>1. Join(texts, end) \in Seq(S) /\ Join(<<>>, end) = <<>>
    BY <1>3, JoinOneMore
  <2>2. texts # <<>> => Join(texts, end) # <<>>
    BY <1>2, <1>3, JoinNotEmpty
  <2> QED BY <2>1, <2>2
<1>5. Join(texts, <<"&">>) \in Seq(S) /\ (Join(texts, <<"&">>) = <<>> <=> texts = <<>>)
  BY <1>3, <1>4
<1> QED BY <1>1, <1>2, <1>3, <1>5, Zenon DEF pairs, texts

(* f gives what search holds after each number of parameters. *)
Searches(f, how, query, Char) ==
  /\ f \in [0 .. Len(query) -> Seq(Seq(Words(Char) \ {"?"}))]
  /\ f[0] = <<>>
  /\ \A n \in 1 .. Len(query) : f[n] = Pushed(f[n - 1], WrittenInQuery(how, query[n]))

LEMMA SearchUnfolds ==
  ASSUME NEW Char, NEW how, NEW query \in Seq(Parameter(Char, how))
  PROVE  \E f : Searches(f, how, query, Char) /\ createQuerySerializer(how, query) = Join(f[Len(query)], <<"&">>)
<1> DEFINE N == Len(query)
           V == Seq(Seq(Words(Char) \ {"?"}))
           Body(e) == [n \in 0 .. N |-> IF n = 0 THEN <<>> ELSE Pushed(e[n - 1], WrittenInQuery(how, query[n]))]
           G == [p \in V \X (1 .. N) |-> Pushed(p[1], WrittenInQuery(how, query[p[2]]))]
           chosen == CHOOSE e : e = Body(e)
<1>1. N \in Nat /\ \A n \in 1 .. N : query[n] \in Parameter(Char, how)
  OBVIOUS
<1>2. ASSUME NEW v \in V, NEW n \in 1 .. N PROVE Pushed(v, WrittenInQuery(how, query[n])) \in V
  <2> DEFINE U == Seq(Words(Char) \ {"?"})
             text == WrittenInQuery(how, query[n])
  <2>1. text \in U
    BY <1>1, WrittenTexts
  <2>2. v \in Seq(U)
    OBVIOUS
  <2> HIDE DEF text, U
  <2>3. Pushed(v, text) \in Seq(U)
    BY <2>1, <2>2 DEF Pushed
  <2> QED BY <2>3 DEF text, U
<1> HIDE DEF V
<1>3. \E h : Follows(h, V, N, <<>>, G)
  <2>1. G \in StepsOf(V, N)
    BY <1>2 DEF StepsOf
  <2>2. <<>> \in V
    BY DEF V
  <2> HIDE DEF G, N
  <2> QED BY <1>1, <2>1, <2>2, Recursion
<1>4. PICK h : h \in [0 .. N -> V] /\ h[0] = <<>> /\ \A n \in 1 .. N : h[n] = G[<<h[n - 1], n>>]
  <2> HIDE DEF G, N
  <2> QED BY <1>3 DEF Follows
<1>5. ASSUME NEW n \in 1 .. N PROVE h[n] = Pushed(h[n - 1], WrittenInQuery(how, query[n]))
  <2>1. h[n - 1] \in V
    BY <1>1, <1>4
  <2>2. h[n] = G[<<h[n - 1], n>>]
    BY <1>4
  <2> HIDE DEF N
  <2> QED BY <2>1, <2>2
<1>6. h = Body(h)
  <2>1. \A n \in 0 .. N : n # 0 => n \in 1 .. N
    BY <1>1
  <2> HIDE DEF N, G
  <2>2. \A n \in 0 .. N : h[n] = IF n = 0 THEN <<>> ELSE Pushed(h[n - 1], WrittenInQuery(how, query[n]))
    BY <1>4, <1>5, <2>1
  <2>3. h = [n \in 0 .. N |-> h[n]]
    BY <1>4
  <2> QED BY <2>2, <2>3
<1>7. chosen = Body(chosen)
  <2> HIDE DEF Body
  <2> QED BY <1>6
<1> HIDE DEF chosen
<1>8. chosen = h
  <2>1. 0 \in 0 .. N /\ \A n \in 1 .. N : n \in 0 .. N /\ n # 0
    BY <1>1
  <2>2. chosen[0] = <<>> /\ \A n \in 1 .. N : chosen[n] = Pushed(chosen[n - 1], WrittenInQuery(how, query[n]))
    <3> HIDE DEF N
    <3> QED BY <1>7, <2>1
  <2>3. Over(chosen, N) /\ Over(h, N)
    <3> HIDE DEF N
    <3> QED BY <1>6, <1>7 DEF Over
  <2>4. ASSUME NEW n \in 1 .. N, chosen[n - 1] = h[n - 1] PROVE chosen[n] = h[n]
    <3> HIDE DEF N, Body
    <3> QED BY <1>5, <2>2, <2>4
  <2>5. Agree(chosen, h, N)
    BY <1>4, <2>2, <2>4 DEF Agree
  <2> HIDE DEF N, Body
  <2> QED BY <1>1, <2>3, <2>5, Unique
<1>9. createQuerySerializer(how, query) = Join(chosen[N], <<"&">>)
  BY Zenon DEF createQuerySerializer, chosen
<1>10. Searches(h, how, query, Char)
  BY <1>4, <1>5 DEF Searches, V
<1> QED BY <1>8, <1>9, <1>10

(* f gives the pairs of each number of parameters. *)
Givens(f, how, query, Char) ==
  /\ f \in [0 .. Len(query) -> Seq(Pair(Char))]
  /\ f[0] = <<>>
  /\ \A n \in 1 .. Len(query) : f[n] = f[n - 1] \o PairsWritten(how, query[n])

LEMMA GivenUnfolds ==
  ASSUME NEW Char, NEW how, NEW query \in Seq(Parameter(Char, how))
  PROVE  \E f : Givens(f, how, query, Char) /\ PairsGiven(how, query) = f[Len(query)]
<1> DEFINE N == Len(query)
           V == Seq(Pair(Char))
           Body(e) == [n \in 0 .. N |-> IF n = 0 THEN <<>> ELSE e[n - 1] \o PairsWritten(how, query[n])]
           G == [p \in V \X (1 .. N) |-> p[1] \o PairsWritten(how, query[p[2]])]
           chosen == CHOOSE e : e = Body(e)
<1>1. N \in Nat /\ \A n \in 1 .. N : query[n] \in Parameter(Char, how)
  OBVIOUS
<1>2. ASSUME NEW v \in V, NEW n \in 1 .. N PROVE v \o PairsWritten(how, query[n]) \in V
  <2>1. PairsWritten(how, query[n]) \in Seq(Pair(Char))
    BY <1>1, WrittenTexts
  <2> QED BY <2>1
<1> HIDE DEF V
<1>3. \E h : Follows(h, V, N, <<>>, G)
  <2>1. G \in StepsOf(V, N)
    BY <1>2 DEF StepsOf
  <2>2. <<>> \in V
    BY DEF V
  <2> HIDE DEF G, N
  <2> QED BY <1>1, <2>1, <2>2, Recursion
<1>4. PICK h : h \in [0 .. N -> V] /\ h[0] = <<>> /\ \A n \in 1 .. N : h[n] = G[<<h[n - 1], n>>]
  <2> HIDE DEF G, N
  <2> QED BY <1>3 DEF Follows
<1>5. ASSUME NEW n \in 1 .. N PROVE h[n] = h[n - 1] \o PairsWritten(how, query[n])
  <2>1. h[n - 1] \in V
    BY <1>1, <1>4
  <2>2. h[n] = G[<<h[n - 1], n>>]
    BY <1>4
  <2> HIDE DEF N
  <2> QED BY <2>1, <2>2
<1>6. h = Body(h)
  <2>1. \A n \in 0 .. N : n # 0 => n \in 1 .. N
    BY <1>1
  <2> HIDE DEF N, G
  <2>2. \A n \in 0 .. N : h[n] = IF n = 0 THEN <<>> ELSE h[n - 1] \o PairsWritten(how, query[n])
    BY <1>4, <1>5, <2>1
  <2>3. h = [n \in 0 .. N |-> h[n]]
    BY <1>4
  <2> QED BY <2>2, <2>3
<1>7. chosen = Body(chosen)
  <2> HIDE DEF Body
  <2> QED BY <1>6
<1> HIDE DEF chosen
<1>8. chosen = h
  <2>1. 0 \in 0 .. N /\ \A n \in 1 .. N : n \in 0 .. N /\ n # 0
    BY <1>1
  <2>2. chosen[0] = <<>> /\ \A n \in 1 .. N : chosen[n] = chosen[n - 1] \o PairsWritten(how, query[n])
    <3> HIDE DEF N
    <3> QED BY <1>7, <2>1
  <2>3. Over(chosen, N) /\ Over(h, N)
    <3> HIDE DEF N
    <3> QED BY <1>6, <1>7 DEF Over
  <2>4. ASSUME NEW n \in 1 .. N, chosen[n - 1] = h[n - 1] PROVE chosen[n] = h[n]
    <3> HIDE DEF N, Body
    <3> QED BY <1>5, <2>2, <2>4
  <2>5. Agree(chosen, h, N)
    BY <1>4, <2>2, <2>4 DEF Agree
  <2> HIDE DEF N, Body
  <2> QED BY <1>1, <2>3, <2>5, Unique
<1>9. PairsGiven(how, query) = chosen[N]
  BY Zenon DEF PairsGiven, chosen
<1>10. Givens(h, how, query, Char)
  BY <1>4, <1>5 DEF Givens, V
<1> QED BY <1>8, <1>9, <1>10

(* What search holds, joined, is the pairs so far, joined. *)
SameQuery(search, given) ==
  /\ search = <<>> <=> given = <<>>
  /\ Join(search, <<"&">>) = Join(TextsOfPairs(given), <<"&">>)

LEMMA AppendNotEmpty ==
  ASSUME NEW V, NEW s \in Seq(V), NEW x \in V
  PROVE  Append(s, x) # <<>>
<1>1. Len(Append(s, x)) = Len(s) + 1 /\ Len(s) \in Nat
  BY AppendProperties
<1>2. ASSUME NEW more, more = Append(s, x) PROVE more # <<>>
  BY <1>1, <1>2
<1> QED BY <1>2

LEMMA QueryStep ==
  ASSUME NEW Char, NEW how, NEW p \in Parameter(Char, how),
         NEW search \in Seq(Seq(Words(Char) \ {"?"})), NEW given \in Seq(Pair(Char)),
         SameQuery(search, given)
  PROVE  SameQuery(Pushed(search, WrittenInQuery(how, p)), given \o PairsWritten(how, p))
<1> DEFINE S == Words(Char) \ {"?"}
           end == <<"&">>
           w == WrittenInQuery(how, p)
           more == PairsWritten(how, p)
           a == TextsOfPairs(given)
           b == TextsOfPairs(more)
<1>1. more \in Seq(Pair(Char)) /\ w = Join(b, end) /\ w \in Seq(S) /\ (w = <<>> <=> more = <<>>)
  BY WrittenIs, WrittenTexts
<1>2. end \in Seq(S)
  <2>1. "&" \in S
    BY InnerHas
  <2> HIDE DEF S
  <2> QED BY <2>1
<1> HIDE DEF w, more
<1>3. /\ (a = <<>> <=> given = <<>>) /\ (b = <<>> <=> more = <<>>)
      /\ TextsOfPairs(given \o more) = a \o b
  <2>1. ASSUME NEW x \in Seq(Pair(Char)), NEW y \in Seq(Pair(Char))
        PROVE  (TextsOfPairs(x) = <<>> <=> x = <<>>) /\ TextsOfPairs(x \o y) = TextsOfPairs(x) \o TextsOfPairs(y)
    BY TextsArePairs
  <2> QED BY <1>1, <2>1
<1>4. a \in Seq(Seq(S)) /\ b \in Seq(Seq(S))
  <2>1. ASSUME NEW x \in Seq(Pair(Char)) PROVE TextsOfPairs(x) \in Seq(Seq(S))
    <3> DEFINE R == Words(Char) \ {"?", "&"}
    <3>1. TextsOfPairs(x) \in Seq(Seq(R)) /\ R \subseteq S
      BY TextsArePairs
    <3> HIDE DEF R, S
    <3>2. Seq(R) \subseteq Seq(S)
      BY <3>1
    <3>3. Seq(Seq(R)) \subseteq Seq(Seq(S))
      BY <3>2
    <3> QED BY <3>1, <3>3
  <2> QED BY <1>1, <2>1
<1>5. (search = <<>> <=> given = <<>>) /\ Join(search, end) = Join(a, end) /\ search \in Seq(Seq(S))
  BY DEF SameQuery
<1> HIDE DEF a, b, S, end
<1>6. CASE more = <<>>
  <2>1. Pushed(search, w) = search
    BY <1>1, <1>6, Zenon DEF Pushed
  <2>2. given \o more = given
    BY <1>6, ConcatEmptySeq
  <2> QED BY <2>1, <2>2, Zenon DEF w, more
<1>7. CASE more # <<>>
  <2>1. Pushed(search, w) = Append(search, w)
    BY <1>1, <1>7, Zenon DEF Pushed
  <2>2. Join(Append(search, w), end) = WithOneMore(search, end, w)
    BY <1>1, <1>2, <1>5, JoinOneMore
  <2>3. IsBoth(a, b, end)
    BY <1>2, <1>3, <1>4, <1>7, JoinBoth
  <2>4. Join(a \o b, end) = WithOneMore(a, end, w)
    BY <1>1, <2>3, Zenon DEF IsBoth
  <2>5. WithOneMore(search, end, w) = WithOneMore(a, end, w)
    BY <1>3, <1>5, Zenon DEF WithOneMore
  <2>6. Join(Pushed(search, w), end) = Join(TextsOfPairs(given \o more), end)
    BY <1>3, <2>1, <2>2, <2>4, <2>5, Zenon
  <2>7. Pushed(search, w) # <<>> /\ given \o more # <<>>
    <3>1. Append(search, w) # <<>>
      <4> DEFINE V == Seq(S)
      <4>1. search \in Seq(V) /\ w \in V
        BY <1>1, <1>5
      <4> HIDE DEF V
      <4> QED BY <4>1, AppendNotEmpty
    <3>2. given \o more # <<>>
      BY <1>1, <1>7
    <3> QED BY <2>1, <3>1, <3>2, Zenon
  <2> QED BY <2>6, <2>7, Zenon DEF SameQuery, w, more, end
<1> QED BY <1>6, <1>7

(* The query is its pairs, joined by &. *)
LEMMA QueryIsPairs ==
  ASSUME NEW Char, NEW how, NEW query \in Seq(Parameter(Char, how))
  PROVE  /\ PairsGiven(how, query) \in Seq(Pair(Char))
         /\ createQuerySerializer(how, query) = Join(TextsOfPairs(PairsGiven(how, query)), <<"&">>)
<1> DEFINE N == Len(query)
           U == Seq(Seq(Words(Char) \ {"?"}))
           P == Seq(Pair(Char))
<1>1. PICK f : Searches(f, how, query, Char) /\ createQuerySerializer(how, query) = Join(f[N], <<"&">>)
  BY SearchUnfolds
<1>2. PICK g : Givens(g, how, query, Char) /\ PairsGiven(how, query) = g[N]
  BY GivenUnfolds
<1>3. N \in Nat /\ \A n \in 1 .. N : query[n] \in Parameter(Char, how)
  OBVIOUS
<1>4. /\ f \in [0 .. N -> U] /\ f[0] = <<>>
      /\ \A n \in 1 .. N : f[n] = Pushed(f[n - 1], WrittenInQuery(how, query[n]))
      /\ g \in [0 .. N -> P] /\ g[0] = <<>>
      /\ \A n \in 1 .. N : g[n] = g[n - 1] \o PairsWritten(how, query[n])
  BY <1>1, <1>2 DEF Searches, Givens
<1>5. ASSUME NEW n \in 0 .. N PROVE f[n] \in U /\ g[n] \in P
  <2> HIDE DEF N, U, P
  <2> QED BY <1>4
<1> DEFINE T == {n \in 0 .. N : SameQuery(f[n], g[n])}
<1>6. 0 \in T
  <2>1. TextsOfPairs(<<>>) = <<>>
    BY DEF TextsOfPairs
  <2>2. SameQuery(<<>>, <<>>)
    BY <2>1, Zenon DEF SameQuery
  <2> QED BY <1>3, <1>4, <2>2
<1>7. ASSUME NEW n \in 1 .. N, n - 1 \in T PROVE n \in T
  <2>1. n - 1 \in 0 .. N /\ n \in 0 .. N /\ SameQuery(f[n - 1], g[n - 1])
    BY <1>3, <1>7
  <2>2. f[n - 1] \in U /\ g[n - 1] \in P
    BY <1>5, <2>1
  <2>3. SameQuery(Pushed(f[n - 1], WrittenInQuery(how, query[n])), g[n - 1] \o PairsWritten(how, query[n]))
    BY <1>3, <2>1, <2>2, QueryStep
  <2>4. SameQuery(f[n], g[n])
    BY <1>4, <2>3
  <2> QED BY <2>1, <2>4
<1>8. N \in T
  <2> HIDE DEF T
  <2>1. \A n \in 0 .. N : n \in T
    BY <1>3, <1>6, <1>7, UpTo
  <2> QED BY <1>3, <2>1
<1>9. SameQuery(f[N], g[N]) /\ g[N] \in P
  BY <1>3, <1>5, <1>8
<1> QED BY <1>1, <1>2, <1>9, Zenon DEF SameQuery

(* A pair is split at its first mark into its name and its text. *)
LEMMA PairIsRead ==
  ASSUME NEW Char, NEW pair \in Pair(Char)
  PROVE  /\ Split(PairText(pair), "=")[1] = pair.name
         /\ Join(Tail(Split(PairText(pair), "=")), <<"=">>) = pair.text
<1> DEFINE S == Inner(Char) \cup {"="}
<1>1. "=" \in S /\ S \ {"="} = Inner(Char)
  BY InnerHas
<1>2. pair.name \in Seq(S \ {"="}) /\ pair.text \in Seq(S \ {"="})
  BY <1>1 DEF Pair
<1> HIDE DEF S
<1>3. ASSUME NEW name \in Seq(S \ {"="}), NEW text \in Seq(S \ {"="}), NEW equals, equals = "="
      PROVE  IsCut(name \o <<equals>> \o text, equals, <<name, text>>)
             /\ Tail(<<name, text>>) = <<text>> /\ <<name, text>>[1] = name
             /\ Join(<<text>>, <<equals>>) = text
  <2>1. name \in Seq(S) /\ text \in Seq(S) /\ equals \in S /\ <<equals>> \in Seq(S)
    BY <1>1, <1>3
  <2>2. IsCut(name, equals, <<name>>)
    BY <1>3, <2>1, SplitNone
  <2>3. <<name>> \in Parts(S)
    <3> DEFINE U == Seq(S)
    <3>1. name \in U
      BY <2>1
    <3> HIDE DEF U
    <3>2. <<name>> \in Seq(U) \ {<<>>}
      BY <3>1
    <3> QED BY <3>2 DEF U, Parts
  <2>4. IsCut(Append(name, equals) \o text, equals, Append(<<name>>, text))
    BY <1>3, <2>1, <2>2, <2>3, SplitBehind
  <2>5. Append(name, equals) = name \o <<equals>> /\ Append(<<name>>, text) = <<name, text>>
    <3>1. Append(name, equals) = name \o <<equals>>
      BY <2>1, AppendIsConcat
    <3>2. Append(<<name>>, text) = <<name, text>>
      BY TwoTexts, Zenon DEF IsTwo
    <3> QED BY <3>1, <3>2
  <2>6. Tail(<<name, text>>) = <<text>> /\ <<name, text>>[1] = name
    OBVIOUS
  <2>7. Join(<<text>>, <<equals>>) = text
    BY <2>1, JoinOne
  <2>8. IsCut(name \o <<equals>> \o text, equals, <<name, text>>)
    BY <2>4, <2>5, Zenon
  <2> QED BY <2>6, <2>7, <2>8
<1>4. /\ IsCut(PairText(pair), "=", <<pair.name, pair.text>>)
      /\ Tail(<<pair.name, pair.text>>) = <<pair.text>> /\ <<pair.name, pair.text>>[1] = pair.name
      /\ Join(<<pair.text>>, <<"=">>) = pair.text
  BY <1>2, <1>3, Zenon DEF PairText
<1>5. Split(PairText(pair), "=") = <<pair.name, pair.text>>
  BY <1>4, Zenon DEF IsCut
<1> QED BY <1>4, <1>5, Zenon

(* Splitting at ?, & and = gives back the address and the pairs. *)
LEMMA PairsAreRead ==
  ASSUME NEW Char, NEW how, NEW query \in Seq(Parameter(Char, how)),
         NEW address \in Seq(Words(Char) \ {"?"})
  PROVE  LET search == createQuerySerializer(how, query)
             url == address \o (IF search = <<>> THEN <<>> ELSE <<"?">> \o search)
         IN  PairsOf(url) = PairsGiven(how, query) /\ PathOf(url) = address
<1> DEFINE S == Words(Char)
           R == S \ {"?"}
           search == createQuerySerializer(how, query)
           url == address \o (IF search = <<>> THEN <<>> ELSE <<"?">> \o search)
           given == PairsGiven(how, query)
           texts == TextsOfPairs(given)
<1>1. given \in Seq(Pair(Char)) /\ search = Join(texts, <<"&">>)
  BY QueryIsPairs
<1>2. "?" \in S /\ "&" \in R /\ R \ {"&"} = Words(Char) \ {"?", "&"} /\ R \subseteq S
  BY InnerHas
<1> HIDE DEF given
<1>3. /\ texts \in Seq(Seq(R \ {"&"})) /\ (texts = <<>> <=> given = <<>>)
      /\ \A i \in 1 .. Len(texts) : texts[i] # <<>>
  BY <1>1, <1>2, TextsArePairs
<1> HIDE DEF texts
<1>4. texts \in Seq(Seq(R)) /\ <<"&">> \in Seq(R)
  <2> DEFINE Q == R \ {"&"}
  <2>1. texts \in Seq(Seq(Q)) /\ Q \subseteq R
    BY <1>3
  <2> HIDE DEF Q, R
  <2>2. Seq(Q) \subseteq Seq(R) /\ <<"&">> \in Seq(R)
    BY <1>2, <2>1
  <2>3. Seq(Seq(Q)) \subseteq Seq(Seq(R))
    BY <2>2
  <2> QED BY <2>1, <2>2, <2>3
<1>5. search \in Seq(R) /\ (search = <<>> <=> texts = <<>>)
  <2> HIDE DEF R, search
  <2>1. ASSUME NEW end \in Seq(R)
        PROVE  Join(texts, end) \in Seq(R) /\ (Join(texts, end) = <<>> <=> texts = <<>>)
    <3>1. Join(texts, end) \in Seq(R) /\ Join(<<>>, end) = <<>>
      BY <1>4, JoinOneMore
    <3>2. texts # <<>> => Join(texts, end) # <<>>
      BY <1>3, <1>4, JoinNotEmpty
    <3> QED BY <3>1, <3>2
  <2>2. Join(texts, <<"&">>) \in Seq(R) /\ (Join(texts, <<"&">>) = <<>> <=> texts = <<>>)
    BY <1>4, <2>1
  <2> QED BY <1>1, <2>2, Zenon
<1>6. texts # <<>> => Split(search, "&") = texts
  <2>1. ASSUME NEW word \in R, texts \in Seq(Seq(R \ {word})), texts # <<>>
        PROVE  IsCut(Join(texts, <<word>>), word, texts)
    <3> HIDE DEF R
    <3>1. Split(Join(texts, <<word>>), word) = texts
      BY <2>1, JoinSplit
    <3> QED BY <3>1, Zenon DEF IsCut
  <2>2. texts # <<>> => IsCut(Join(texts, <<"&">>), "&", texts)
    BY <1>2, <1>3, <2>1
  <2> QED BY <1>1, <2>2, Zenon DEF IsCut
<1> HIDE DEF search
<1>7. address \in Seq(S) /\ address \in Seq(S \ {"?"}) /\ search \in Seq(S) /\ search \in Seq(S \ {"?"})
  <2>1. \A x \in Seq(R) : x \in Seq(S)
    <3> HIDE DEF R, S
    <3> QED BY <1>2
  <2> QED BY <1>5, <2>1
<1>8. IsCut(address, "?", <<address>>)
  BY <1>2, <1>7, SplitNone
<1>9. CASE texts = <<>>
  <2>1. url = address
    <3>1. url = address \o <<>>
      BY <1>5, <1>9, Zenon
    <3>2. address \o <<>> = address
      BY ConcatEmptySeq
    <3> QED BY <3>1, <3>2, Zenon
  <2> HIDE DEF url
  <2>2. Split(url, "?") = <<address>>
    BY <1>8, <2>1, Zenon DEF IsCut
  <2>3. Len(<<address>>) = 1 /\ <<address>>[1] = address
    OBVIOUS
  <2>4. PairsOf(url) = <<>> /\ PathOf(url) = address
    <3>1. PathOf(url) = address
      BY <2>2, <2>3, Zenon DEF PathOf
    <3>2. PairsOf(url) = <<>>
      BY <2>2, <2>3, Zenon DEF PairsOf
    <3> QED BY <3>1, <3>2
  <2> QED BY <1>3, <1>9, <2>4, Zenon DEF url, given, search
<1>10. CASE texts # <<>>
  <2>1. url = Append(address, "?") \o search
    <3>1. url = address \o (<<"?">> \o search)
      BY <1>5, <1>10, Zenon
    <3>2. <<"?">> \in Seq(S)
      BY <1>2
    <3>3. Associate(address, <<"?">>, search)
      BY <1>7, <3>2, TextsAssociate
    <3>4. address \o <<"?">> = Append(address, "?")
      BY <1>2, <1>7, AppendIsConcat
    <3> QED BY <3>1, <3>3, <3>4, Zenon DEF Associate
  <2> HIDE DEF url
  <2>2. IsCut(Append(address, "?") \o search, "?", Append(<<address>>, search))
    <3>1. <<address>> \in Parts(S)
      <4> DEFINE U == Seq(S)
      <4>1. address \in U
        BY <1>7
      <4> HIDE DEF U
      <4>2. <<address>> \in Seq(U) \ {<<>>}
        BY <4>1
      <4> QED BY <4>2 DEF U, Parts
    <3> HIDE DEF S
    <3> QED BY <1>2, <1>7, <1>8, <3>1, SplitBehind
  <2>3. Split(url, "?") = <<address, search>>
    BY <2>1, <2>2, TwoTexts, Zenon DEF IsCut, IsTwo
  <2>4. Len(<<address, search>>) = 2 /\ <<address, search>>[1] = address /\ <<address, search>>[2] = search
    OBVIOUS
  <2>5. PathOf(url) = address
    BY <2>3, <2>4, Zenon DEF PathOf
  <2>6. PairsOf(url) = [i \in DOMAIN texts |->
                          [name |-> Split(texts[i], "=")[1], text |-> Join(Tail(Split(texts[i], "=")), <<"=">>)]]
    <3>1. Len(Split(url, "?")) # 1 /\ Split(url, "?")[2] = search
      BY <2>3, <2>4
    <3>2. Split(Split(url, "?")[2], "&") = texts
      BY <1>6, <1>10, <3>1, Zenon
    <3> QED BY <3>1, <3>2, Zenon DEF PairsOf
  <2>7. DOMAIN texts = DOMAIN given /\ \A i \in DOMAIN given : texts[i] = PairText(given[i])
    BY DEF texts, TextsOfPairs
  <2>8. ASSUME NEW i \in DOMAIN given
        PROVE  [name |-> Split(texts[i], "=")[1], text |-> Join(Tail(Split(texts[i], "=")), <<"=">>)] = given[i]
    <3>1. given[i] \in Pair(Char)
      BY <1>1
    <3>2. ASSUME NEW pair \in Pair(Char)
          PROVE  [name |-> Split(PairText(pair), "=")[1],
                  text |-> Join(Tail(Split(PairText(pair), "=")), <<"=">>)] = pair
      <4>1. pair = [name |-> pair.name, text |-> pair.text]
        BY DEF Pair
      <4> QED BY <4>1, PairIsRead, Zenon
    <3> QED BY <2>7, <3>1, <3>2, Zenon
  <2>9. given = [i \in DOMAIN given |-> given[i]]
    BY <1>1
  <2>10. PairsOf(url) = given
    <3>1. PairsOf(url) = [i \in DOMAIN given |-> given[i]]
      BY <2>6, <2>7, <2>8, Zenon
    <3> QED BY <2>9, <3>1, Zenon
  <2> QED BY <2>5, <2>10, Zenon DEF url, given, search
<1> QED BY <1>9, <1>10

(* A query is read back: a server that splits the address getUrl makes at ?, &
   and = finds the path and, in order, one pair for every text of every
   parameter that its style writes apart, and what it decodes is what was
   encoded (createQuerySerializer, serializeArrayParam, serializeObjectParam,
   serializePrimitiveParam).  Names and keys are written as they are, so they
   hold no mark of a query here, nor does the path. *)
THEOREM QueryIsReadBack ==
  ASSUME NEW Char, Char \cap Escaped = {}, NEW how, NEW query \in Seq(Parameter(Char, how)),
         NEW baseUrl, NEW template, NEW path, NEW address \in Seq(Words(Char) \ {"?"}),
         address = defaultPathSerializer(path, baseUrl \o
                     (IF template[1] = "/" THEN template ELSE <<"/">> \o template))
  PROVE  LET url == getUrl(baseUrl, template, path, query, how)
         IN  /\ PathOf(url) = address /\ PairsOf(url) = PairsGiven(how, query)
             /\ \A text \in Seq(Char) : Decode(Encode(text)) = text
<1> DEFINE search == createQuerySerializer(how, query)
           url == address \o (IF search = <<>> THEN <<>> ELSE <<"?">> \o search)
<1>1. getUrl(baseUrl, template, path, query, how) = url
  BY Zenon DEF getUrl
<1>2. PairsOf(url) = PairsGiven(how, query) /\ PathOf(url) = address
  BY PairsAreRead
<1>3. \A text \in Seq(Char) : Decode(Encode(text)) = text
  BY DecodeEncode
<1> HIDE DEF url
<1> QED BY <1>1, <1>2, <1>3, Zenon
================================================================================
