------------------------------ MODULE HttpClient ------------------------------
(***************************************************************************)
(* createClient: the calls an application has in flight at one client      *)
(* while it changes the configuration and the interceptors.                *)
(*                                                                         *)
(* A call goes through beforeRequest (options, credentials, body, address),*)
(* the request interceptors, fetch, the response interceptors, the reading *)
(* of the body and, when it failed, the error interceptors; every await    *)
(* between them is a place where other calls and the application run.  A   *)
(* stream (makeSseFn) shares beforeRequest and runs the request            *)
(* interceptors once per connection; ServerSentEvents has the rest of it.  *)
(***************************************************************************)
EXTENDS RequestUrl

CONSTANTS
  Workloads,      \* the calls the application may make: per call, options and
                  \* what the server may answer
  Queries,        \* its query objects: their content before any call
  FirstConfig,    \* what it made the client with
  Configs,        \* what it may hand to setConfig
  Installed,      \* interceptors it registered at its start, per kind
  Tokens,         \* what the auth callback may answer
  Within,         \* of texts in a Cookie header: <<text, name>> where `name=`
                  \* stands in `text=`, other than the name itself
  MaxEdits,       \* changes of configuration and interceptors (bound)
  MaxThrows       \* failing fetches and throwing callbacks (bound)

Kinds == {"request", "response", "error"}
HeaderNames == {"Content-Type", "X-Tag", "Authorization", "Cookie"}
Places == {"header", "query", "cookie"}      \* of a credential
Null == 0         \* an interceptor that was ejected
MaxInstalled == Max(UNION {Range(Installed[k]) : k \in Kinds} \cup {0})

(* What a server may answer; an interceptor of responses may put a substitute
   in its place. *)
Answers == [ok : BOOLEAN, empty : BOOLEAN, type : STRING, body : STRING \ {"undefined"},
            substitute : BOOLEAN]

IsSeq(s) == s \in Seq(Range(s))

(* An object of headers has, under a name, what it does to that header: a null
   deletes, a string sets, an array appends its elements to what is there. *)
HeadersOK(entries) ==
  \A name \in DOMAIN entries :
    /\ entries[name].op \in {"delete", "set", "append"} /\ IsSeq(entries[name].values)
    /\ entries[name].op = "delete" => entries[name].values = <<>>

(* Outside of the headers a credential has a name, as OpenAPI demands of it. *)
SecurityOK(security) ==
  /\ IsSeq(security)
  /\ \A i \in DOMAIN security :
       /\ security[i].in \in Places
       /\ security[i].in # "header" => security[i].name # ""

(* No name is twice in an object. *)
IsObject(query) == \A i, k \in DOMAIN query : query[i].name = query[k].name => i = k

ASSUME HttpClientAssumption ==
  /\ \A k \in Kinds : Installed[k] \in Seq(1 .. MaxInstalled) /\ IsInjective(Installed[k])
  /\ MaxInstalled \in Nat
  /\ \A w \in Workloads : \A c \in DOMAIN w :
       /\ w[c].answers \subseteq Answers
       /\ HeadersOK(w[c].options.headers) /\ SecurityOK(w[c].options.security)
       /\ w[c].options.query \in {0} \cup DOMAIN Queries
  /\ \A q \in DOMAIN Queries : q # 0 /\ IsSeq(Queries[q]) /\ IsObject(Queries[q])
  /\ HeadersOK(FirstConfig.headers) /\ \A c \in Configs : HeadersOK(c.headers)
  /\ MaxEdits \in Nat /\ MaxThrows \in Nat

VARIABLES
  config,         \* _config: base address and headers
  queries,        \* the caller's query objects
  arrays, fns,    \* the arrays of interceptors, and the one each kind has
  calls,          \* per call, what it asks for, where it stands and what it holds
  edits, throws   \* bounds

vars == <<config, queries, arrays, fns, calls, edits, throws>>

Steps == {"idle", "auth", "token", "request", "fetch", "stream", "response", "read", "error", "settled"}
Array == [kind : Kinds, entries : Seq(Nat)]

Calls == DOMAIN calls

TypeOK ==
  /\ DOMAIN config = {"baseUrl", "headers"} /\ DOMAIN config.headers = HeaderNames
  /\ DOMAIN queries = DOMAIN Queries
  /\ arrays \in Seq(Array)
  /\ \A k \in Kinds : fns[k] \in DOMAIN arrays /\ arrays[fns[k]].kind = k
  /\ \A c \in Calls :
       LET call == calls[c] IN
       /\ call.step \in Steps
       /\ call.step # "idle" => DOMAIN call.headers = HeaderNames
       /\ call.loop.list \in {0} \cup DOMAIN arrays
       /\ call.loop.list # 0 => arrays[call.loop.list].kind = call.step
       /\ call.step = "settled" <=> call.outcome # <<>>
  /\ edits \in 0 .. MaxEdits /\ throws \in 0 .. MaxThrows

Throws == throws < MaxThrows /\ throws' = throws + 1
Edits == edits < MaxEdits /\ edits' = edits + 1
--------------------------------------------------------------------------------
(***************************************************************************)
(* Headers.                                                                *)
(***************************************************************************)
Written(values, entry) ==
  CASE entry.op = "delete" -> <<>>
    [] entry.op = "set" -> entry.values
    [] entry.op = "append" -> values \o entry.values

mergeHeaders(headers, entries) ==
  [name \in HeaderNames |->
     IF name \in DOMAIN entries THEN Written(headers[name], entries[name]) ELSE headers[name]]

(* mergeConfigs: a slash at the end of the address is dropped, one only. *)
mergeConfigs(a, b) ==
  LET baseUrl == IF b.baseUrl = <<>> THEN a.baseUrl ELSE b.baseUrl
  IN  [baseUrl |-> IF Last(baseUrl) = "/" THEN Front(baseUrl) ELSE baseUrl,
       headers |-> mergeHeaders(a.headers, b.headers)]

Json == <<"application/json", "">>

(* createConfig's headers. *)
createConfig == [name \in HeaderNames |-> IF name = "Content-Type" THEN <<Json>> ELSE <<>>]

(* What the functions of sdk.gen add to a post: the type, unless given. *)
SdkHeaders(options) ==
  LET own == options.headers
  IN  IF options.sdk # "post" THEN own
      ELSE [name \in DOMAIN own \cup {"Content-Type"} |->
              IF name \in DOMAIN own THEN own[name] ELSE [op |-> "set", values |-> <<Json>>]]

NoLoop == [list |-> 0, at |-> 1, due |-> <<>>, ran |-> <<>>]
Idle(work) ==
  [step |-> "idle", options |-> work.options, answers |-> work.answers, headers |-> <<>>, baseUrl |-> <<>>, todo |-> <<>>,
   local |-> {}, loop |-> NoLoop,
   sent |-> <<>>, response |-> <<>>, error |-> "undefined", outcome |-> <<>>,
   made |-> <<>>, tokens |-> [place \in Places |-> <<>>]]

Init ==
  /\ config = mergeConfigs([baseUrl |-> <<>>, headers |-> createConfig], FirstConfig)
  /\ queries = Queries
  /\ arrays = << [kind |-> "request", entries |-> Installed["request"]],
                 [kind |-> "response", entries |-> Installed["response"]],
                 [kind |-> "error", entries |-> Installed["error"]] >>
  /\ fns = [k \in Kinds |-> CASE k = "request" -> 1 [] k = "response" -> 2 [] k = "error" -> 3]
  /\ \E w \in Workloads : calls = [c \in DOMAIN w |-> Idle(w[c])]
  /\ edits = 0 /\ throws = 0

setConfig ==
  /\ Edits
  /\ \E c \in Configs : config' = mergeConfigs(config, c)
  /\ UNCHANGED <<queries, arrays, fns, calls, throws>>
--------------------------------------------------------------------------------
(***************************************************************************)
(* Interceptors: an array that a running loop may be walking through.      *)
(***************************************************************************)
Entries(k) == arrays[fns[k]].entries
Fresh == MaxInstalled + 1 + edits
Set(k, entries) == arrays' = [arrays EXCEPT ![fns[k]].entries = entries]

use(k) ==
  /\ Edits
  /\ Set(k, Append(Entries(k), Fresh))
  /\ UNCHANGED <<config, queries, fns, calls, throws>>

(* eject leaves a hole, so that the other numbers keep their meaning. *)
Removed(entries, i) == RemoveAt(entries, i)                          \* mutant
Ejected(entries, i) == [entries EXCEPT ![i] = Null]
eject(k, i) ==
  /\ Edits
  /\ Entries(k)[i] # Null
  /\ Set(k, Ejected(Entries(k), i))
  /\ UNCHANGED <<config, queries, fns, calls, throws>>

update(k, i) ==
  /\ Edits
  /\ Entries(k)[i] # Null
  /\ Set(k, [Entries(k) EXCEPT ![i] = Fresh])
  /\ UNCHANGED <<config, queries, fns, calls, throws>>

(* clear makes a new array: a loop under way goes on over the old one. *)
clear(k) ==
  /\ Edits
  /\ arrays' = Append(arrays, [kind |-> k, entries |-> <<>>])
  /\ fns' = [fns EXCEPT ![k] = Len(arrays) + 1]
  /\ UNCHANGED <<config, queries, calls, throws>>
--------------------------------------------------------------------------------
(***************************************************************************)
(* beforeRequest.                                                          *)
(***************************************************************************)
At(c, step) == calls[c].step = step
With(call, fields) ==
  [f \in DOMAIN call |-> IF f \in DOMAIN fields THEN fields[f] ELSE call[f]]
Becomes(c, fields) == calls' = [calls EXCEPT ![c] = With(calls[c], fields)]
Settle(c, outcome) == Becomes(c, [step |-> "settled", outcome |-> outcome, loop |-> NoLoop])
Rejected(reason) == [as |-> "rejected", data |-> "undefined", error |-> reason]

(* The options are copied over the configuration at the time of the call. *)
beforeRequest(c) ==
  /\ At(c, "idle")
  /\ LET options == calls[c].options IN
     Becomes(c, [step |-> "auth", todo |-> options.security,
                 headers |-> mergeHeaders(config.headers, SdkHeaders(options)),
                 baseUrl |-> config.baseUrl, made |-> config])
  /\ UNCHANGED <<config, queries, arrays, fns, edits, throws>>

QueryOf(options) == IF options.query = 0 THEN <<>> ELSE queries[options.query]

(* Nothing, "", 0 and false do not count as a value. *)
Truthy(value) ==
  \/ value.kind \in {"array", "object", "date"}
  \/ value.kind = "text" /\ value.entries[1].text # <<>>

(* cookies.includes(`${name}=`) also finds a name that ends in this one. *)
InCookies(cookies, name) ==
  \E cookie \in Range(cookies) :
    cookie[1] = name \/ <<cookie[1], name>> \in Within \/ <<cookie[2], name>> \in Within

(* A name that a header, the query or a cookie has already is left alone. *)
checkForExistence(call, scheme) ==
  /\ scheme.name # ""
  /\ \/ scheme.name \in HeaderNames /\ call.headers[scheme.name] # <<>>
     \/ \E p \in Range(QueryOf(call.options)) : p.name = scheme.name /\ Truthy(p.value)
     \/ scheme.name \in call.local
     \/ InCookies(call.headers["Cookie"], scheme.name)

NameOf(scheme) == IF scheme.name = "" THEN "Authorization" ELSE scheme.name

setAuthParamsSkips(c) ==
  /\ At(c, "auth") /\ calls[c].todo # <<>>
  /\ checkForExistence(calls[c], Head(calls[c].todo))
  /\ Becomes(c, [todo |-> Tail(calls[c].todo)])
  /\ UNCHANGED <<config, queries, arrays, fns, edits, throws>>

(* The auth callback is awaited: the name may be there when it answers. *)
setAuthParamsAwaits(c) ==
  /\ At(c, "auth") /\ calls[c].todo # <<>>
  /\ ~ checkForExistence(calls[c], Head(calls[c].todo))
  /\ Becomes(c, [step |-> "token"])
  /\ UNCHANGED <<config, queries, arrays, fns, edits, throws>>

Credential(name, token) ==
  [name |-> name,
   value |-> [kind |-> "text", entries |-> <<[key |-> "", text |-> <<token>>]>>]]

(* query[name] = token: in place of the value that is there. *)
Added(query, p) == Append(query, p)                                 \* mutant
Assigned(query, p) ==
  IF \E i \in DOMAIN query : query[i].name = p.name
    THEN [i \in DOMAIN query |-> IF query[i].name = p.name THEN p ELSE query[i]]
    ELSE Append(query, p)

(* The callback may answer no token.  A credential for the query goes into the
   caller's own object; without one, into an object that only this function
   sees. *)
setAuthParams(c) ==
  /\ At(c, "token")
  /\ LET call == calls[c]
         scheme == Head(call.todo)
         name == NameOf(scheme)
         object == call.options.query
     IN
     \/ Becomes(c, [step |-> "auth", todo |-> Tail(call.todo)]) /\ UNCHANGED queries
     \/ \E token \in Tokens :
          LET Gets(headers, local) ==
                Becomes(c, [step |-> "auth", todo |-> Tail(call.todo), headers |-> headers,
                            local |-> local,
                            tokens |-> [call.tokens EXCEPT ![scheme.in] =
                                          Append(@, <<scheme, token>>)]])
          IN
          \/ /\ scheme.in = "query" /\ object # 0
             /\ queries' = [queries EXCEPT ![object] = Assigned(@, Credential(name, token))]
             /\ Gets(call.headers, call.local)
          \/ /\ scheme.in = "query" /\ object = 0
             /\ Gets(call.headers, call.local \cup {name})
             /\ UNCHANGED queries
          \/ /\ scheme.in = "cookie"
             /\ Gets([call.headers EXCEPT !["Cookie"] = Append(@, <<name, token>>)], call.local)
             /\ UNCHANGED queries
          \/ /\ scheme.in = "header"
             /\ Gets([call.headers EXCEPT ![name] = <<<<scheme.scheme, token>>>>], call.local)
             /\ UNCHANGED queries
  /\ UNCHANGED <<config, arrays, fns, edits, throws>>

(* What bodySerializer makes of the body: nothing of an empty form. *)
SerializedBody(options) ==
  IF options.body = "none" \/ options.bodySerializer = "null" THEN "undefined"
  ELSE IF options.bodySerializer = "urlSearchParams" /\ options.body = "empty" THEN ""
  ELSE "serialized"

getValidRequestBody(options) ==
  IF options.body # "none" /\ options.bodySerializer # "null"
    THEN IF SerializedBody(options) \in {"undefined", ""} THEN "none" ELSE SerializedBody(options)
    ELSE options.body

HeadersSent(call) ==
  IF call.options.body = "none" \/ SerializedBody(call.options) = ""
    THEN [call.headers EXCEPT !["Content-Type"] = <<>>]
    ELSE call.headers

Unserializable(options) ==
  \/ \E word \in Range(options.url) \cap DOMAIN Placeholders :
       TooDeep(Placeholders[word], ValueOf(options.path, Placeholders[word].name))
  \/ \E p \in Range(QueryOf(options)) :
       TooDeep(StyleOf(options.how, p.name, p.value.kind), p.value)

AddressNow(call) == config.baseUrl                                  \* mutant
AddressOf(call) == call.baseUrl

BuildRequest(c) ==
  /\ At(c, "auth") /\ calls[c].todo = <<>>
  /\ LET call == calls[c]
         options == call.options
     IN  IF Unserializable(options)
           THEN Settle(c, Rejected("nested"))
           ELSE Becomes(c, [step |-> "request",
                  sent |-> [url |-> getUrl(AddressOf(call), options.url, options.path,
                                           QueryOf(options), options.how),
                            query |-> QueryOf(options),
                            headers |-> HeadersSent(call),
                            body |-> getValidRequestBody(options)]])
  /\ UNCHANGED <<config, queries, arrays, fns, edits, throws>>

(* The auth callback or the requestValidator throws. *)
BeforeRequestThrows(c) ==
  /\ At(c, "token") \/ (At(c, "auth") /\ calls[c].todo = <<>>)
  /\ Throws
  /\ Settle(c, Rejected("callback"))
  /\ UNCHANGED <<config, queries, arrays, fns, edits>>
--------------------------------------------------------------------------------
(***************************************************************************)
(* The three loops over interceptors.                                      *)
(***************************************************************************)
InLoop(c) == calls[c].step \in Kinds
ListOf(c) == IF calls[c].loop.list = 0 THEN fns[calls[c].step] ELSE calls[c].loop.list
Walked(c) == arrays[ListOf(c)].entries
Ahead(c) == {i \in DOMAIN Walked(c) : i >= calls[c].loop.at /\ Walked(c)[i] # Null}

(* The loop after its next interceptor; the array is taken when it starts. *)
Advanced(c) ==
  LET loop == calls[c].loop
      i == Min(Ahead(c))
  IN  [list |-> ListOf(c), at |-> i + 1, ran |-> Append(loop.ran, Walked(c)[i]),
       due |-> IF loop.list = 0 THEN Walked(c) ELSE loop.due]

RunInterceptor(c) ==
  /\ InLoop(c) /\ Ahead(c) # {}
  /\ \/ At(c, "request") /\ Becomes(c, [loop |-> Advanced(c)])
     \/ /\ At(c, "response")
        /\ \E r \in {calls[c].response} \cup {s \in calls[c].answers : s.substitute} :
             Becomes(c, [loop |-> Advanced(c), response |-> r])
     \/ /\ At(c, "error")
        /\ \E error \in {"mapped", "falsy"} : Becomes(c, [loop |-> Advanced(c), error |-> error])
  /\ UNCHANGED <<config, queries, arrays, fns, edits, throws>>

(* createSseClient catches what onRequest throws and connects again, later. *)
InterceptorThrows(c) ==
  /\ InLoop(c) /\ Ahead(c) # {} /\ Throws
  /\ IF At(c, "request") /\ calls[c].options.via = "sse"
       THEN Becomes(c, [step |-> "stream", loop |-> NoLoop])
       ELSE Settle(c, Rejected("callback"))
  /\ UNCHANGED <<config, queries, arrays, fns, edits>>

LoopGoesOn(step) == [step |-> step]                                \* mutant
LeavesLoop(step) == [step |-> step, loop |-> NoLoop]

LoopIsOver(c, kind) ==
  /\ At(c, kind) /\ Ahead(c) = {}
  /\ UNCHANGED <<config, queries, arrays, fns, edits, throws>>

RequestIsReady(c) ==
  /\ LoopIsOver(c, "request")
  /\ Becomes(c, LeavesLoop(IF calls[c].options.via = "sse" THEN "stream" ELSE "fetch"))

ResponseIsReady(c) ==
  /\ LoopIsOver(c, "response")
  /\ Becomes(c, LeavesLoop("read"))

(* finalError || {} *)
AnyError(error) == error                                            \* mutant
FinalError(error) == IF error = "falsy" THEN "object" ELSE error

ErrorIsReady(c) ==
  /\ LoopIsOver(c, "error")
  /\ LET options == calls[c].options
         error == FinalError(calls[c].error)
     IN  Settle(c, IF options.throwOnError THEN Rejected(error)
                   ELSE [as |-> "resolved", data |-> "undefined",
                         error |-> IF options.responseStyle = "data" THEN "undefined" ELSE error])
--------------------------------------------------------------------------------
(***************************************************************************)
(* fetch, and the body of the answer.                                      *)
(***************************************************************************)
FetchAnswers(c) ==
  /\ At(c, "fetch")
  /\ \E r \in calls[c].answers : Becomes(c, [step |-> "response", response |-> r])
  /\ UNCHANGED <<config, queries, arrays, fns, edits, throws>>

FetchFails(c) ==
  /\ At(c, "fetch") /\ Throws
  /\ Becomes(c, [step |-> "error", error |-> "network"])
  /\ UNCHANGED <<config, queries, arrays, fns, edits>>

getParseAs(type) ==
  CASE type = "none" -> "stream"
    [] type = "json" -> "json"
    [] type = "multipart/form-data" -> "formData"
    [] type = "binary" -> "blob"
    [] type = "text" -> "text"
    [] OTHER -> "undefined"

ParseAs(c) ==
  LET options == calls[c].options
      parseAs == IF options.parseAs = "auto" THEN getParseAs(calls[c].response.type)
                                             ELSE options.parseAs
  IN  IF parseAs = "undefined" THEN "json" ELSE parseAs

(* The data of an answer: `empty` is a status of 204 or a length of 0. *)
Data(c) ==
  IF ParseAs(c) # "json" THEN ParseAs(c)
  ELSE IF calls[c].response.empty \/ calls[c].response.body = "" THEN "object" ELSE "parsed"

Malformed(c) ==
  /\ ~ calls[c].response.empty
  /\ \/ ParseAs(c) = "json" /\ calls[c].response.body \notin {"", "json"}
     \/ ParseAs(c) = "formData" /\ calls[c].response.body # "form"

ReadData(c) ==
  /\ At(c, "read") /\ calls[c].response.ok
  /\ Settle(c, IF Malformed(c) THEN Rejected("malformed")
               ELSE [as |-> "resolved", data |-> Data(c), error |-> "undefined"])
  /\ UNCHANGED <<config, queries, arrays, fns, edits, throws>>

(* The connection breaks under the body, or a validator or a transformer
   throws. *)
ReadThrows(c) ==
  /\ At(c, "read") /\ Throws
  /\ calls[c].response.ok => ParseAs(c) # "stream"
  /\ Settle(c, Rejected("callback"))
  /\ UNCHANGED <<config, queries, arrays, fns, edits>>

ReadError(c) ==
  /\ At(c, "read") /\ ~ calls[c].response.ok
  /\ Becomes(c, [step |-> "error",
                 error |-> IF calls[c].response.body = "" THEN "falsy" ELSE calls[c].response.body])
  /\ UNCHANGED <<config, queries, arrays, fns, edits, throws>>

(* createSseClient asks onRequest for a new request at every connection. *)
StreamReconnects(c) ==
  /\ At(c, "stream")
  /\ Becomes(c, [step |-> "request"])
  /\ UNCHANGED <<config, queries, arrays, fns, edits, throws>>

(* Its server ended it, its caller aborted it or its attempts are used up. *)
StreamEnds(c) ==
  /\ At(c, "stream")
  /\ Settle(c, [as |-> "resolved", data |-> "stream", error |-> "undefined"])
  /\ UNCHANGED <<config, queries, arrays, fns, edits, throws>>
--------------------------------------------------------------------------------
Call(c) ==
  \/ beforeRequest(c) \/ setAuthParamsSkips(c) \/ setAuthParamsAwaits(c) \/ setAuthParams(c)
  \/ BuildRequest(c) \/ BeforeRequestThrows(c)
  \/ RunInterceptor(c) \/ InterceptorThrows(c)
  \/ RequestIsReady(c) \/ ResponseIsReady(c) \/ ErrorIsReady(c)
  \/ FetchAnswers(c) \/ FetchFails(c)
  \/ ReadData(c) \/ ReadThrows(c) \/ ReadError(c)
  \/ StreamReconnects(c) \/ StreamEnds(c)

Edit ==
  \/ setConfig
  \/ \E k \in Kinds : use(k) \/ clear(k)
  \/ \E k \in Kinds : \E i \in DOMAIN Entries(k) : eject(k, i) \/ update(k, i)

Next == Edit \/ \E c \in Calls : Call(c)

Spec == Init /\ [][Next]_vars
--------------------------------------------------------------------------------
(***************************************************************************)
(* Properties.                                                             *)
(***************************************************************************)
Sent(c) == calls[c].sent # <<>>

(* The headers a call asks for: its own over those of the configuration it was
   made under, the credentials of its own callback over both. *)
AskedHeader(call, name) ==
  LET own == SdkHeaders(call.options)
      base == call.made.headers[name]
      written == IF name \notin DOMAIN own THEN base
                 ELSE (IF own[name].op = "append" THEN base ELSE <<>>) \o own[name].values
      tokens == call.tokens["header"]
      granted == {i \in DOMAIN tokens : NameOf(tokens[i][1]) = name}
      last == tokens[Max(granted)]
      Cookie(t) == <<NameOf(t[1]), t[2]>>
      cookies == [i \in DOMAIN call.tokens["cookie"] |-> Cookie(call.tokens["cookie"][i])]
  IN  (IF granted = {} THEN written ELSE << <<last[1].scheme, last[2]>> >>)
        \o IF name = "Cookie" THEN cookies ELSE <<>>

OwnQuery(call) == IF call.options.query = 0 THEN <<>> ELSE Queries[call.options.query]

(* The credentials that calls were granted for a query object. *)
CredentialsIn(object) ==
  LET Of(call) == {Credential(NameOf(t[1]), t[2]) : t \in Range(call.tokens["query"])}
  IN  UNION {Of(calls[d]) : d \in {e \in Calls : calls[e].options.query = object}}

(* The caller's own parameters come first and as they are; what is not its own
   is a credential, which may stand for an own parameter that has no value. *)
KeepsOwn(query, own, credentials) ==
  /\ Len(own) <= Len(query) /\ IsObject(query)
  /\ \A i \in DOMAIN query :
       \/ i \in DOMAIN own /\ query[i] = own[i]
       \/ /\ query[i] \in credentials
          /\ i \in DOMAIN own => query[i].name = own[i].name /\ ~ Truthy(own[i].value)

(* What was granted is there, or a later credential of that name. *)
HasGranted(query, tokens, credentials) ==
  \A t \in Range(tokens) : \E p \in Range(query) : p.name = NameOf(t[1]) /\ p \in credentials

AskedQuery(call, query) ==
  LET object == call.options.query IN
  /\ KeepsOwn(query, OwnQuery(call), CredentialsIn(object))
  /\ object # 0 => HasGranted(query, call.tokens["query"], CredentialsIn(object))

(* A request goes to the address and with the headers its caller asked for,
   whatever calls, credentials and changes of configuration come between: of
   another call nothing gets into it but credentials in a query object they
   share (there a credential may even be replaced by another call's of the same
   name, as the check and the write are an await apart), no own parameter that
   has a value is overwritten, and no Content-Type goes without a body
   (beforeRequest, mergeHeaders, setAuthParams). *)
CallIsSentAsMade ==
  \A c \in Calls : Sent(c) =>
    LET call == calls[c]
        options == call.options
    IN
    /\ \A name \in HeaderNames :
         call.sent.headers[name] =
           IF name = "Content-Type" /\ call.sent.body = "none" THEN <<>>
                                                              ELSE AskedHeader(call, name)
    /\ AskedQuery(call, call.sent.query)
    /\ call.sent.url = getUrl(call.made.baseUrl, options.url, options.path, call.sent.query,
                              options.how)

(* The server reads back the parameters of a request, its credentials included,
   but for values that a style has no way to write (Unreadable) and for what is
   nothing at all: no other value ends, splits or hides one, and none stands for
   a placeholder (getUrl, the serializers).  Names and keys are the program's own
   and hold none of the characters that have a meaning in an address. *)
ServerReadsParameters ==
  \A c \in Calls : Sent(c) =>
    LET call == calls[c]
        options == call.options
        template == call.made.baseUrl \o
                      (IF options.url[1] = "/" THEN options.url ELSE <<"/">> \o options.url)
        asked == Split(template, "/")
        got == Split(PathOf(call.sent.url), "/")
    IN
    /\ DOMAIN got = DOMAIN asked
    /\ \A i \in DOMAIN asked :
         IF Len(asked[i]) = 1 /\ asked[i][1] \in DOMAIN Placeholders
           THEN LET p == Placeholders[asked[i][1]]
                    value == ValueOf(options.path, p.name)
                IN  IF value.kind = "none" THEN got[i] = asked[i]
                    ELSE Unreadable(p, value) \/ PathReads(got[i], asked[i][1], value)
           ELSE got[i] = asked[i]
    /\ \A p \in Range(call.sent.query) :
         LET s == StyleOf(options.how, p.name, p.value.kind) IN
         ~ Unreadable(s, p.value) => QueryReads(call.sent.url, p, s)

(* An interceptor that is registered all through a loop is run by it, once and
   in the order of registration, whatever is added, ejected, replaced or
   cleared between its awaits (Interceptors, request). *)
InterceptorsRunOnce ==
  [][\A c \in Calls :
       /\ InLoop(c) /\ calls[c].loop.list # 0 /\ Ahead(c) = {}
       /\ calls'[c].step # calls[c].step
       => LET loop == calls[c].loop
              stayed == {i \in DOMAIN loop.due : loop.due[i] \in Range(Walked(c)) \ {Null}}
          IN  /\ IsInjective(loop.ran)
              /\ \A i, k \in stayed : i <= k =>
                   \E m, n \in DOMAIN loop.ran :
                     m <= n /\ loop.ran[m] = loop.due[i] /\ loop.ran[n] = loop.due[k]]_vars

(* A failure never looks like a success and a success always has data: the
   caller of a call that resolves can tell them apart, and a call that was not
   asked to throw only rejects when a callback did or the body is malformed
   (request, throwOnError and responseStyle). *)
OutcomeIsTruthful ==
  \A c \in Calls : At(c, "settled") /\ calls[c].options.via = "request" =>
    LET call == calls[c]
        outcome == call.outcome
        failed == call.response = <<>> \/ ~ call.response.ok
    IN  CASE outcome.as = "resolved" /\ ~ failed ->
               outcome.data # "undefined" /\ outcome.error = "undefined"
          [] outcome.as = "resolved" /\ failed ->
               /\ ~ call.options.throwOnError
               /\ outcome.data = "undefined"
               /\ call.options.responseStyle = "fields" => outcome.error \notin {"undefined", "falsy"}
          [] outcome.as = "rejected" ->
               \/ outcome.error \in {"callback", "malformed", "nested"}
               \/ failed /\ call.options.throwOnError /\ outcome.error # "falsy"
================================================================================
