----------------------------- MODULE MCHttpClient -----------------------------
(* Every style of parameter, credentials of every place, streams next to      *)
(* plain calls, and answers of every kind.                                    *)
EXTENDS HttpClient

CONSTANTS c1, c2

Entry(name, op, values) == name :> [op |-> op, values |-> values]
Text(text) == [kind |-> "text", entries |-> <<[key |-> "", text |-> text]>>]
Texts(kind, texts) ==
  [kind |-> kind,
   entries |-> [i \in DOMAIN texts |->
                  [key |-> IF kind = "array" THEN "" ELSE <<"from", "to">>[i], text |-> texts[i]]]]
Date == [kind |-> "date", entries |-> <<[key |-> "", text |-> <<"2025", ".", "Z">>]>>]
Zero == [kind |-> "zero", entries |-> <<[key |-> "", text |-> <<"0">>]>>]
Param(name, value) == [name |-> name, value |-> value]

Form == [array |-> [style |-> "form", explode |-> TRUE],
         object |-> [style |-> "deepObject", explode |-> TRUE]]
Flat(style) == [array |-> [style |-> style, explode |-> FALSE],
                object |-> [style |-> "form", explode |-> TRUE]]
Default == [all |-> Form, parameters |-> <<>>]

Plain == [via |-> "request", sdk |-> "none", url |-> <<"/", "api">>, path |-> <<>>, query |-> 0,
          how |-> Default, headers |-> <<>>, body |-> "none", bodySerializer |-> "json",
          security |-> <<>>, parseAs |-> "auto", throwOnError |-> FALSE, responseStyle |-> "fields"]

Auth(in, name, scheme) == [in |-> in, name |-> name, scheme |-> scheme]

(* The functions of the SDK. *)
AddMessage == [sdk |-> "post", body |-> "value"] @@ Plain
JobStatus == [query |-> 1, responseStyle |-> "data"] @@ Plain

(* One address holds the parameter in every style; each goes with a query. *)
Stream(value, query, all, parameters) ==
  [via |-> "sse", path |-> <<Param("tag", Text(<<"{id}", "/">>)), Param("id", value)>>,
   url |-> <<"v", "/", "{id}", "/", "{id*}", "/", "{.id}", "/", "{.id*}", "/", "{;id}", "/",
             "{;id*}", "/", "{tag}">>,
   query |-> query, how |-> [all |-> all, parameters |-> parameters]] @@ Plain
Pair == << <<"a", ",">>, <<"{tag}">> >>
Dotted == << <<"a", ".", "b">>, <<",">> >>

Addressed ==
  {Stream(Texts("array", Pair), 2, Form, <<>>),
   Stream(Texts("object", Pair), 2, Form, [list |-> Flat("pipeDelimited")]),
   Stream(Text(<<"a", "?">>), 2, Flat("form"), <<>>),
   Stream(None, 2, Flat("spaceDelimited"), <<>>),
   Stream(Texts("array", Dotted), 0, Form, <<>>),
   Stream(Texts("object", Dotted), 0, Form, <<>>),
   Stream(Texts("array", <<>>), 0, Form, <<>>),
   Stream(Text(<<"a", ".">>), 4, Flat("spaceDelimited"), <<>>),
   Stream(Date, 4, Form, <<>>),
   Stream(Texts("array", <<Nested>>), 0, Form, <<>>)}

MCQueries ==
  << <<Param("conversation_id", Text(<<"a", "&", "b", "=">>))>>,
     <<Param("q", Text(<<"?">>)), Param("list", Texts("array", <<<<"a", "|", "&">>, <<",">>>>)),
       Param("span", Texts("object", << <<"=">>, <<"&", "q">> >>)), Param("none", None),
       Param("empty", Texts("array", <<>>))>>,
     <<Param("key", Text(<<>>)), Param("id", Text(<<"a", "=">>)), Param("other", Zero)>>,
     <<Param("since", Date), Param("list", Texts("array", <<<<"a", ".", " ">>, <<"b">>>>)),
       Param("count", Zero)>> >>

Secured ==
  [sdk |-> "post", body |-> "empty", bodySerializer |-> "urlSearchParams", query |-> 1,
   headers |-> Entry("X-Tag", "append", << <<"own", "">> >>) @@ Entry("Cookie", "delete", <<>>),
   throwOnError |-> TRUE,
   security |-> <<Auth("cookie", "session", ""), Auth("query", "key", "")>>] @@ Plain
Tagged ==
  [headers |-> Entry("Content-Type", "set", << <<"text/plain", "">> >>),
   security |-> <<Auth("header", "X-Tag", "basic")>>] @@ Plain
Unqueried ==
  [body |-> "empty", bodySerializer |-> "null",
   headers |-> Entry("Content-Type", "set", << <<"text/plain", "">> >>),
   security |-> <<Auth("query", "key", ""), Auth("header", "X-Tag", "basic"),
                  Auth("header", "", "apiKey")>>] @@ Plain

(* They share a query object, where the credential has a place already. *)
Shared(headers, security) ==
  [query |-> 3, headers |-> headers, security |-> security] @@ Plain
First == Shared(<<>>, <<Auth("query", "key", "")>>)
Second ==
  Shared(Entry("Cookie", "set", << <<"xsid", "1">> >>),
         <<Auth("cookie", "sid", ""), Auth("query", "id", ""), Auth("query", "key", ""),
           Auth("query", "other", "")>>)

MCWithin == {<<"xsid", "sid">>}

MCFirstConfig == [baseUrl |-> <<"host", "/">>, headers |-> <<>>]
MCConfigs ==
  {[baseUrl |-> <<>>, headers |-> Entry("X-Tag", "set", << <<"two", "">> >>)],
   [baseUrl |-> <<"other">>, headers |-> Entry("Content-Type", "delete", <<>>)]}

MCInstalled == [request |-> <<1, 2>>, response |-> <<3>>, error |-> <<4>>]

Answer(ok, empty, type, body) ==
  [ok |-> ok, empty |-> empty, type |-> type, body |-> body, substitute |-> FALSE]
Failing == [Answer(FALSE, FALSE, "json", "") EXCEPT !.substitute = TRUE]
Simple == {Answer(TRUE, FALSE, "json", "json"), Failing}
Various ==
  {Answer(TRUE, FALSE, type, "json") : type \in {"json", "text", "none", "binary", "odd"}}
  \cup {Answer(TRUE, FALSE, "multipart/form-data", body) : body \in {"form", "json"}}
  \cup {Answer(TRUE, TRUE, "json", ""), Answer(TRUE, FALSE, "json", ""),
        Answer(TRUE, FALSE, "json", "text"), Answer(FALSE, FALSE, "text", "text"), Failing}

Work(options, answers) == [options |-> options, answers |-> answers]
MCWorkloads ==
  {(c1 :> Work(JobStatus, {Failing}) @@ c2 :> Work(Secured, {Failing})),
   (c1 :> Work(AddMessage, {Failing}) @@ c2 :> Work(Tagged, Simple)),
   (c1 :> Work(First, {}) @@ c2 :> Work(Second, {}))}
  \cup {(c1 :> Work(options, Various)) : options \in {AddMessage, JobStatus, Unqueried}}
  \cup {(c1 :> Work(options, {})) : options \in Addressed}
================================================================================
