------------------------------ MODULE RequestUrl ------------------------------
(***************************************************************************)
(* getUrl and the serializers below it: how path and query parameters are  *)
(* written into the address of a request, and how a server reads them.     *)
(*                                                                         *)
(* Text is a sequence of words and of the characters that have a meaning   *)
(* in an address; {name} in a template is one word.  A value is            *)
(* [kind, entries]: one entry for a text, a zero (0 or false) or a date,   *)
(* one per element of an array, one per key of an object.  A style is      *)
(* [style, explode].                                                       *)
(***************************************************************************)
EXTENDS Integers, Sequences, SequencesExt

(* encodeURIComponent *)
Escapes == [c \in {"&", "=", ",", "|", ";", "/", "?", " ", "{id}", "{tag}"} |->
              CASE c = "&" -> "%26" [] c = "=" -> "%3D" [] c = "," -> "%2C"
                [] c = "|" -> "%7C" [] c = ";" -> "%3B" [] c = "/" -> "%2F"
                [] c = "?" -> "%3F" [] c = " " -> "%20"
                [] c = "{id}" -> "%7Bid%7D" [] c = "{tag}" -> "%7Btag%7D"]
Encode(text) ==
  [i \in DOMAIN text |-> IF text[i] \in DOMAIN Escapes THEN Escapes[text[i]] ELSE text[i]]
Decode(text) ==
  LET Plain(word) == {c \in DOMAIN Escapes : Escapes[c] = word}
  IN  [i \in DOMAIN text |->
         IF Plain(text[i]) # {} THEN CHOOSE c \in Plain(text[i]) : TRUE ELSE text[i]]

Join(texts, separator) ==
  LET Text[n \in 0 .. Len(texts)] ==
        IF n = 0 THEN <<>> ELSE IF n = 1 THEN texts[1] ELSE Text[n - 1] \o separator \o texts[n]
  IN  Text[Len(texts)]

Nested == <<"[object]">>     \* an element that is an array or an object itself
--------------------------------------------------------------------------------
(***************************************************************************)
(* pathSerializer.                                                         *)
(***************************************************************************)
(* One operator for the three tables of separators: what stands between    *)
(* the parts, exploded or not.  Objects that are not exploded use ",".     *)
SeparatorExplode(style) ==
  CASE style = "label" -> "." [] style = "matrix" -> ";" [] style = "simple" -> ","
    [] OTHER -> "&"
SeparatorNoExplode(style) ==
  CASE style = "pipeDelimited" -> "|" [] style = "spaceDelimited" -> "%20" [] OTHER -> ","

(* What introduces a value that is not exploded. *)
Introduced(name, style, text) ==
  CASE style = "label" -> <<".">> \o text
    [] style = "matrix" -> <<";", name, "=">> \o text
    [] style \in {"form", "spaceDelimited", "pipeDelimited"} -> <<name, "=">> \o text
    [] OTHER -> text

Exploded(style, parts) ==
  LET separator == <<SeparatorExplode(style)>>
  IN  (IF style \in {"label", "matrix"} THEN separator ELSE <<>>) \o Join(parts, separator)

Unencoded(name, text) == name \o <<"=">> \o text                  \* mutant
serializePrimitiveParam(name, text) == name \o <<"=">> \o Encode(text)

serializeArrayParam(name, s, entries) ==
  LET plain == [i \in DOMAIN entries |-> Encode(entries[i].text)]
      named == [i \in DOMAIN entries |-> serializePrimitiveParam(<<name>>, entries[i].text)]
  IN  IF s.explode
        THEN Exploded(s.style, IF s.style \in {"label", "simple"} THEN plain ELSE named)
        ELSE Introduced(name, s.style, Join(plain, <<SeparatorNoExplode(s.style)>>))

serializeObjectParam(name, s, entries) ==
  LET flat == [i \in DOMAIN entries |-> <<entries[i].key, ",">> \o Encode(entries[i].text)]
      Key(e) == IF s.style = "deepObject" THEN <<name, "[", e.key, "]">> ELSE <<e.key>>
      named == [i \in DOMAIN entries |->
                  serializePrimitiveParam(Key(entries[i]), entries[i].text)]
  IN  IF s.style # "deepObject" /\ ~ s.explode
        THEN Introduced(name, s.style, Join(flat, <<",">>))
        ELSE Exploded(s.style, named)

(* serializePrimitiveParam throws on a nested value; the forms that do not use
   it write it out as the words of its class. *)
TooDeep(s, value) ==
  /\ \E i \in DOMAIN value.entries : value.entries[i].text = Nested
  /\ \/ value.kind = "array" /\ s.explode /\ s.style \notin {"label", "simple"}
     \/ value.kind = "object" /\ (s.explode \/ s.style = "deepObject")
--------------------------------------------------------------------------------
(***************************************************************************)
(* Queries: a sequence of [name, value]; `how` gives the style of arrays   *)
(* and of objects, for all parameters or for the one it names.             *)
(***************************************************************************)
StyleOf(how, name, kind) ==
  LET options == IF name \in DOMAIN how.parameters THEN how.parameters[name] ELSE how.all
  IN  IF kind = "array" THEN options.array ELSE options.object

WrittenInQuery(how, p) ==
  LET s == StyleOf(how, p.name, p.value.kind)
  IN  CASE p.value.kind = "none" -> <<>>
        [] p.value.kind = "array" -> serializeArrayParam(p.name, s, p.value.entries)
        [] p.value.kind = "object" -> serializeObjectParam(p.name, s, p.value.entries)
        [] p.value.kind = "date" -> <<p.name, "=">> \o p.value.entries[1].text
        [] OTHER -> serializePrimitiveParam(<<p.name>>, p.value.entries[1].text)

(* if (serialized) search.push(serialized) *)
Pushed(search, text) == IF text = <<>> THEN search ELSE Append(search, text)

createQuerySerializer(how, query) ==
  LET Search[n \in 0 .. Len(query)] ==
        IF n = 0 THEN <<>> ELSE Pushed(Search[n - 1], WrittenInQuery(how, query[n]))
  IN  Join(Search[Len(query)], <<"&">>)
--------------------------------------------------------------------------------
(***************************************************************************)
(* Paths.                                                                  *)
(***************************************************************************)
(* The placeholders: name, style and the * that explodes. *)
Placeholders ==
  [word \in {"{id}", "{id*}", "{.id}", "{.id*}", "{;id}", "{;id*}", "{tag}"} |->
     [name |-> IF word = "{tag}" THEN "tag" ELSE "id",
      explode |-> word \in {"{id*}", "{.id*}", "{;id*}"},
      style |-> CASE word \in {"{.id}", "{.id*}"} -> "label"
                  [] word \in {"{;id}", "{;id*}"} -> "matrix"
                  [] OTHER -> "simple"]]

(* The value a path gives a name, none when it gives none. *)
None == [kind |-> "none", entries |-> <<>>]
ValueOf(path, name) ==
  IF \E i \in DOMAIN path : path[i].name = name
    THEN path[CHOOSE i \in DOMAIN path : path[i].name = name].value
    ELSE None

(* A date is written as it is, whatever the style. *)
WrittenInPath(p, value) ==
  CASE value.kind = "array" -> serializeArrayParam(p.name, p, value.entries)
    [] value.kind = "object" -> serializeObjectParam(p.name, p, value.entries)
    [] value.kind = "date" -> value.entries[1].text
    [] p.style = "matrix" ->
         <<";">> \o serializePrimitiveParam(<<p.name>>, value.entries[1].text)
    [] p.style = "label" -> <<".">> \o Encode(value.entries[1].text)
    [] OTHER -> Encode(value.entries[1].text)

(* url.replace: the first occurrence. *)
ReplaceFirst(text, word, by) ==
  IF \E i \in DOMAIN text : text[i] = word
    THEN LET i == SelectInSeq(text, LAMBDA w : w = word)
         IN  SubSeq(text, 1, i - 1) \o by \o SubSeq(text, i + 1, Len(text))
    ELSE text

defaultPathSerializer(path, url) ==
  LET matches == SelectSeq(url, LAMBDA word : word \in DOMAIN Placeholders)
      Fill(text, word) ==
        LET p == Placeholders[word]
            value == ValueOf(path, p.name)
        IN  IF value.kind = "none" THEN text
            ELSE ReplaceFirst(text, word, WrittenInPath(p, value))
  IN  FoldLeft(Fill, url, matches)

getUrl(baseUrl, template, path, query, how) ==
  LET pathUrl == IF template[1] = "/" THEN template ELSE <<"/">> \o template
      search == createQuerySerializer(how, query)
  IN  defaultPathSerializer(path, baseUrl \o pathUrl)
        \o (IF search = <<>> THEN <<>> ELSE <<"?">> \o search)
--------------------------------------------------------------------------------
(***************************************************************************)
(* The server's side: how OpenAPI reads what the styles write.             *)
(***************************************************************************)
Parted(parts, t, word) ==
  IF t = word THEN Append(parts, <<>>)
              ELSE [parts EXCEPT ![Len(parts)] = Append(@, t)]
Split(text, word) ==
  LET Parts[n \in 0 .. Len(text)] ==
        IF n = 0 THEN << <<>> >> ELSE Parted(Parts[n - 1], text[n], word)
  IN  Parts[Len(text)]

PathOf(url) == Split(url, "?")[1]
PairsOf(url) ==
  IF Len(Split(url, "?")) = 1 THEN <<>> ELSE
  LET pairs == Split(Split(url, "?")[2], "&")
  IN  [i \in DOMAIN pairs |->
         [name |-> Split(pairs[i], "=")[1], text |-> Join(Tail(Split(pairs[i], "=")), <<"=">>)]]

(* The texts of the pairs called `name`, decoded. *)
TextsOf(url, name) ==
  LET own == SelectSeq(PairsOf(url), LAMBDA pair : pair.name = name)
  IN  [i \in DOMAIN own |-> Decode(own[i].text)]

(* What a style has no way to write: an empty array or object, an element with
   the character that stands between elements (encodeURIComponent leaves "."
   alone, and a space is "%20" like the separator), and a date where the style
   wants something in front of it. *)
Holds(value, c) == \E e \in Range(value.entries) : c \in Range(e.text)
Unreadable(s, value) ==
  \/ value.entries = <<>>
  \/ value.kind = "date" /\ s.style \in {"label", "matrix"}
  \/ value.kind \in {"array", "object"} /\ s.style = "label" /\ s.explode /\ Holds(value, ".")
  \/ value.kind = "array" /\ s.style = "spaceDelimited" /\ ~ s.explode /\ Holds(value, " ")

(* A query parameter is read back: every text it has, in order. *)
QueryReads(url, p, s) ==
  LET texts == [i \in DOMAIN p.value.entries |-> p.value.entries[i].text]
      raw == SelectSeq(PairsOf(url), LAMBDA pair : pair.name = <<p.name>>)
  IN  CASE p.value.kind = "object" ->
             \A e \in Range(p.value.entries) :
               TextsOf(url, IF s.style = "deepObject" THEN <<p.name, "[", e.key, "]">>
                                                      ELSE <<e.key>>) = <<e.text>>
        [] p.value.kind = "array" /\ ~ s.explode ->
             /\ Len(raw) = 1
             /\ LET elements == Split(raw[1].text, SeparatorNoExplode(s.style))
                IN  [i \in DOMAIN elements |-> Decode(elements[i])] = texts
        [] OTHER -> TextsOf(url, <<p.name>>) = texts

(* The segment of the path where the template has `word` is read back. *)
PathReads(segment, word, value) ==
  LET p == Placeholders[word]
      text == IF p.style = "simple" THEN segment ELSE Tail(segment)
      separator == IF value.kind \in {"text", "zero", "date"} THEN "none"
                   ELSE IF p.explode THEN SeparatorExplode(p.style) ELSE ","
      named == p.style = "matrix" \/ (value.kind = "object" /\ p.explode)
      Bare(part) == IF named /\ Len(Split(part, "=")) > 1 THEN Split(part, "=")[2] ELSE part
      parts == Split(text, separator)
      read == [i \in DOMAIN parts |-> Decode(Bare(parts[i]))]
      entries == value.entries
  IN  read = IF value.kind = "object" /\ ~ p.explode
               THEN FlattenSeq([i \in DOMAIN entries |-> << <<entries[i].key>>, entries[i].text>>])
               ELSE [i \in DOMAIN entries |-> entries[i].text]
================================================================================
