------------------------ MODULE ServerSentEventsProofs ------------------------
(***************************************************************************)
(* Proofs about ServerSentEvents, for any log, any cut of the text and any *)
(* number of failures.                                                     *)
(***************************************************************************)
EXTENDS ServerSentEvents, SequenceLemmas

(* What may be on the wire, and in the buffer. *)
GoodLine ==
  {t \in Line : (t[1] = "retry" => t[2] \in Nat \cup {NaN}) /\ (t[1] = "id" => t[2] \in DOMAIN Log)}
Token == GoodLine \cup {LF, CR}
--------------------------------------------------------------------------------
(***************************************************************************)
(* Data.                                                                   *)
(***************************************************************************)
(* f gives, for each number of tokens, the data of that many first ones. *)
Collects(f, lines) ==
  /\ f \in [0 .. Len(lines) -> Seq(Int)]
  /\ f[0] = <<>>
  /\ \A n \in 1 .. Len(lines) :
       f[n] = IF lines[n][1] = "data" THEN Append(f[n - 1], lines[n][2]) ELSE f[n - 1]

LEMMA DataIs ==
  ASSUME NEW lines \in Seq(Token)
  PROVE  \E f : Collects(f, lines) /\ DataOf(lines) = f[Len(lines)]
<1> DEFINE N == Len(lines)
           V == Seq(Int)
           Body(e) == [n \in 0 .. N |-> IF n = 0 THEN <<>>
                                        ELSE IF lines[n][1] = "data" THEN Append(e[n - 1], lines[n][2]) ELSE e[n - 1]]
           G == [p \in V \X (1 .. N) |-> IF lines[p[2]][1] = "data" THEN Append(p[1], lines[p[2]][2]) ELSE p[1]]
           chosen == CHOOSE e : e = Body(e)
<1>1. N \in Nat /\ \A n \in 1 .. N : lines[n][2] \in Int
  BY DEF Token, GoodLine, Line, LF, CR
<1>2. \E h : Follows(h, V, N, <<>>, G)
  <2>1. G \in StepsOf(V, N)
    BY <1>1 DEF StepsOf
  <2>2. <<>> \in V
    OBVIOUS
  <2> HIDE DEF G, V, N
  <2> QED BY <1>1, <2>1, <2>2, Recursion
<1>3. PICK h : h \in [0 .. N -> V] /\ h[0] = <<>> /\ \A n \in 1 .. N : h[n] = G[<<h[n - 1], n>>]
  <2> HIDE DEF G, V, N
  <2> QED BY <1>2 DEF Follows
<1>4. ASSUME NEW n \in 1 .. N PROVE h[n] = IF lines[n][1] = "data" THEN Append(h[n - 1], lines[n][2]) ELSE h[n - 1]
  <2>1. h[n - 1] \in V
    BY <1>1, <1>3
  <2>2. h[n] = G[<<h[n - 1], n>>]
    BY <1>3
  <2> HIDE DEF V, N
  <2> QED BY <2>1, <2>2
<1>5. h = Body(h)
  <2>1. \A n \in 0 .. N : n # 0 => n \in 1 .. N
    BY <1>1
  <2> HIDE DEF V, N
  <2> QED BY <1>3, <1>4, <2>1
<1>6. chosen = Body(chosen)
  <2> HIDE DEF Body
  <2> QED BY <1>5
<1> HIDE DEF chosen
<1>7. chosen = h
  <2>1. 0 \in 0 .. N /\ \A n \in 1 .. N : n \in 0 .. N /\ n # 0
    BY <1>1
  <2>2. chosen[0] = <<>> /\ \A n \in 1 .. N : chosen[n] = IF lines[n][1] = "data" THEN Append(chosen[n - 1], lines[n][2]) ELSE chosen[n - 1]
    <3> HIDE DEF N
    <3> QED BY <1>6, <2>1
  <2>3. Over(chosen, N) /\ Over(h, N)
    <3> HIDE DEF N
    <3> QED BY <1>5, <1>6 DEF Over
  <2>4. ASSUME NEW n \in 1 .. N, chosen[n - 1] = h[n - 1] PROVE chosen[n] = h[n]
    <3> HIDE DEF N, Body
    <3> QED BY <1>4, <2>2, <2>4
  <2>5. Agree(chosen, h, N)
    BY <1>3, <2>2, <2>4 DEF Agree
  <2> HIDE DEF N, V, Body
  <2> QED BY <1>1, <2>3, <2>5, Unique
<1>8. DataOf(lines) = chosen[N]
  BY Zenon DEF DataOf, chosen
<1>9. Collects(h, lines)
  BY <1>3, <1>4 DEF Collects
<1> QED BY <1>7, <1>8, <1>9
--------------------------------------------------------------------------------
(***************************************************************************)
(* Line ends.                                                              *)
(***************************************************************************)
(* f gives, for each number of tokens, that many first ones normalized. *)
Normalizes(f, text, S) ==
  /\ f \in [0 .. Len(text) -> Seq(S)]
  /\ f[0] = <<>>
  /\ \A n \in 1 .. Len(text) :
       f[n] = IF n > 1 /\ text[n] = LF /\ text[n - 1] = CR THEN f[n - 1]
              ELSE Append(f[n - 1], IF text[n] = CR THEN LF ELSE text[n])

LEMMA NormalIs ==
  ASSUME NEW S, LF \in S, NEW text \in Seq(S)
  PROVE  \E f : Normalizes(f, text, S) /\ NormalizeLineEnds(text) = f[Len(text)]
<1> DEFINE N == Len(text)
           V == Seq(S)
           Body(e) == [n \in 0 .. N |-> IF n = 0 THEN <<>>
                                        ELSE IF n > 1 /\ text[n] = LF /\ text[n - 1] = CR THEN e[n - 1]
                 ELSE Append(e[n - 1], IF text[n] = CR THEN LF ELSE text[n])]
           G == [p \in V \X (1 .. N) |-> IF p[2] > 1 /\ text[p[2]] = LF /\ text[p[2] - 1] = CR THEN p[1]
                 ELSE Append(p[1], IF text[p[2]] = CR THEN LF ELSE text[p[2]])]
           chosen == CHOOSE e : e = Body(e)
<1>1. N \in Nat /\ \A n \in 1 .. N : text[n] \in S
  OBVIOUS
<1>2. \E h : Follows(h, V, N, <<>>, G)
  <2>1. G \in StepsOf(V, N)
    BY <1>1 DEF StepsOf
  <2>2. <<>> \in V
    OBVIOUS
  <2> HIDE DEF G, V, N
  <2> QED BY <1>1, <2>1, <2>2, Recursion
<1>3. PICK h : h \in [0 .. N -> V] /\ h[0] = <<>> /\ \A n \in 1 .. N : h[n] = G[<<h[n - 1], n>>]
  <2> HIDE DEF G, V, N
  <2> QED BY <1>2 DEF Follows
<1>4. ASSUME NEW n \in 1 .. N PROVE h[n] = IF n > 1 /\ text[n] = LF /\ text[n - 1] = CR THEN h[n - 1]
                 ELSE Append(h[n - 1], IF text[n] = CR THEN LF ELSE text[n])
  <2>1. h[n - 1] \in V
    BY <1>1, <1>3
  <2>2. h[n] = G[<<h[n - 1], n>>]
    BY <1>3
  <2> HIDE DEF V, N
  <2> QED BY <2>1, <2>2
<1>5. h = Body(h)
  <2>1. \A n \in 0 .. N : n # 0 => n \in 1 .. N
    BY <1>1
  <2> HIDE DEF V, N
  <2> QED BY <1>3, <1>4, <2>1
<1>6. chosen = Body(chosen)
  <2> HIDE DEF Body
  <2> QED BY <1>5
<1> HIDE DEF chosen
<1>7. chosen = h
  <2>1. 0 \in 0 .. N /\ \A n \in 1 .. N : n \in 0 .. N /\ n # 0
    BY <1>1
  <2>2. chosen[0] = <<>> /\ \A n \in 1 .. N : chosen[n] = IF n > 1 /\ text[n] = LF /\ text[n - 1] = CR THEN chosen[n - 1]
                 ELSE Append(chosen[n - 1], IF text[n] = CR THEN LF ELSE text[n])
    <3> HIDE DEF N
    <3> QED BY <1>6, <2>1
  <2>3. Over(chosen, N) /\ Over(h, N)
    <3> HIDE DEF N
    <3> QED BY <1>5, <1>6 DEF Over
  <2>4. ASSUME NEW n \in 1 .. N, chosen[n - 1] = h[n - 1] PROVE chosen[n] = h[n]
    <3> HIDE DEF N, Body
    <3> QED BY <1>4, <2>2, <2>4
  <2>5. Agree(chosen, h, N)
    BY <1>3, <2>2, <2>4 DEF Agree
  <2> HIDE DEF N, V, Body
  <2> QED BY <1>1, <2>3, <2>5, Unique
<1>8. NormalizeLineEnds(text) = chosen[N]
  BY Zenon DEF NormalizeLineEnds, chosen
<1>9. Normalizes(h, text, S)
  BY <1>3, <1>4 DEF Normalizes
<1> QED BY <1>7, <1>8, <1>9
--------------------------------------------------------------------------------
(***************************************************************************)
(* Pieces.                                                                 *)
(***************************************************************************)
Pieces(S) == [whole : Seq(Seq(S)), rest : Seq(S)]

(* f gives, for each number of tokens, the pieces of that many first ones. *)
Splits(f, text, S) ==
  /\ f \in [0 .. Len(text) -> Pieces(S)]
  /\ f[0] = Begun
  /\ \A n \in 1 .. Len(text) : f[n] = Fed(f[n - 1], text[n])

LEMMA NewRest ==
  ASSUME NEW A, NEW B, NEW s \in [whole : A, rest : B], NEW r
  PROVE  [s EXCEPT !.rest = r] = [whole |-> s.whole, rest |-> r]
OBVIOUS

LEMMA FedType ==
  ASSUME NEW S, NEW s \in Pieces(S), NEW t \in S
  PROVE  Fed(s, t) \in Pieces(S)
<1>1. s.whole \in Seq(Seq(S)) /\ s.rest \in Seq(S)
  BY DEF Pieces
<1>2. Front(s.rest) \in Seq(S)
  <2>1. CASE s.rest = <<>>
    BY <2>1, SubSeqEmpty DEF Front
  <2>2. CASE s.rest # <<>>
    BY <1>1, <2>2 DEF Front
  <2> QED BY <2>1, <2>2
<1>3. Append(s.whole, Front(s.rest)) \in Seq(Seq(S)) /\ Append(s.rest, t) \in Seq(S) /\ <<>> \in Seq(S)
  BY <1>1, <1>2
<1> HIDE DEF Front
<1>4. [s EXCEPT !.rest = Append(@, t)] = [whole |-> s.whole, rest |-> Append(s.rest, t)]
  BY NewRest DEF Pieces
<1> QED BY <1>1, <1>3, <1>4 DEF Fed, Pieces

LEMMA SplitIs ==
  ASSUME NEW S, NEW text \in Seq(S)
  PROVE  \E f : Splits(f, text, S) /\ SplitAtBlankLines(text) = f[Len(text)]
<1> DEFINE N == Len(text)
           V == Pieces(S)
           Body(e) == [n \in 0 .. N |-> IF n = 0 THEN Begun
                                        ELSE Fed(e[n - 1], text[n])]
           G == [p \in V \X (1 .. N) |-> Fed(p[1], text[p[2]])]
           chosen == CHOOSE e : e = Body(e)
<1>1. N \in Nat /\ \A n \in 1 .. N : text[n] \in S
  OBVIOUS
<1>2. \E h : Follows(h, V, N, Begun, G)
  <2>1. G \in StepsOf(V, N)
    BY <1>1, FedType DEF StepsOf
  <2>2. Begun \in V
    BY DEF Begun, Pieces
  <2> HIDE DEF G, V, N
  <2> QED BY <1>1, <2>1, <2>2, Recursion
<1>3. PICK h : h \in [0 .. N -> V] /\ h[0] = Begun /\ \A n \in 1 .. N : h[n] = G[<<h[n - 1], n>>]
  <2> HIDE DEF G, V, N
  <2> QED BY <1>2 DEF Follows
<1>4. ASSUME NEW n \in 1 .. N PROVE h[n] = Fed(h[n - 1], text[n])
  <2>1. h[n - 1] \in V
    BY <1>1, <1>3
  <2>2. h[n] = G[<<h[n - 1], n>>]
    BY <1>3
  <2> HIDE DEF V, N
  <2> QED BY <2>1, <2>2
<1>5. h = Body(h)
  <2>1. \A n \in 0 .. N : n # 0 => n \in 1 .. N
    BY <1>1
  <2> HIDE DEF V, N
  <2> QED BY <1>3, <1>4, <2>1
<1>6. chosen = Body(chosen)
  <2> HIDE DEF Body
  <2> QED BY <1>5
<1> HIDE DEF chosen
<1>7. chosen = h
  <2>1. 0 \in 0 .. N /\ \A n \in 1 .. N : n \in 0 .. N /\ n # 0
    BY <1>1
  <2>2. chosen[0] = Begun /\ \A n \in 1 .. N : chosen[n] = Fed(chosen[n - 1], text[n])
    <3> HIDE DEF N
    <3> QED BY <1>6, <2>1
  <2>3. Over(chosen, N) /\ Over(h, N)
    <3> HIDE DEF N
    <3> QED BY <1>5, <1>6 DEF Over
  <2>4. ASSUME NEW n \in 1 .. N, chosen[n - 1] = h[n - 1] PROVE chosen[n] = h[n]
    <3> HIDE DEF N, Body
    <3> QED BY <1>4, <2>2, <2>4
  <2>5. Agree(chosen, h, N)
    BY <1>3, <2>2, <2>4 DEF Agree
  <2> HIDE DEF N, V, Body
  <2> QED BY <1>1, <2>3, <2>5, Unique
<1>8. SplitAtBlankLines(text) = chosen[N]
  BY Zenon DEF SplitAtBlankLines, chosen
<1>9. Splits(h, text, S)
  BY <1>3, <1>4 DEF Splits
<1> QED BY <1>7, <1>8, <1>9
--------------------------------------------------------------------------------
(***************************************************************************)
(* What the server sends.                                                  *)
(***************************************************************************)
(* f gives, for each number of lines, the text of that many first ones. *)
Ends(f, event, end, S) ==
  /\ f \in [0 .. Len(event) -> Seq(S)]
  /\ f[0] = <<>>
  /\ \A n \in 1 .. Len(event) : f[n] = f[n - 1] \o <<event[n]>> \o end

LEMMA TextIs ==
  ASSUME NEW S, NEW event \in Seq(S), NEW end \in Seq(S)
  PROVE  \E f : Ends(f, event, end, S) /\ TextOf(event, end) = f[Len(event)] \o end
<1> DEFINE N == Len(event)
           V == Seq(S)
           Body(e) == [n \in 0 .. N |-> IF n = 0 THEN <<>>
                                        ELSE e[n - 1] \o <<event[n]>> \o end]
           G == [p \in V \X (1 .. N) |-> p[1] \o <<event[p[2]]>> \o end]
           chosen == CHOOSE e : e = Body(e)
<1>1. N \in Nat /\ \A n \in 1 .. N : event[n] \in S
  OBVIOUS
<1>2. \E h : Follows(h, V, N, <<>>, G)
  <2>1. G \in StepsOf(V, N)
    BY <1>1 DEF StepsOf
  <2>2. <<>> \in V
    OBVIOUS
  <2> HIDE DEF G, V, N
  <2> QED BY <1>1, <2>1, <2>2, Recursion
<1>3. PICK h : h \in [0 .. N -> V] /\ h[0] = <<>> /\ \A n \in 1 .. N : h[n] = G[<<h[n - 1], n>>]
  <2> HIDE DEF G, V, N
  <2> QED BY <1>2 DEF Follows
<1>4. ASSUME NEW n \in 1 .. N PROVE h[n] = h[n - 1] \o <<event[n]>> \o end
  <2>1. h[n - 1] \in V
    <3> HIDE DEF G, N, V
    <3> QED BY <1>1, <1>3
  <2>2. h[n] = G[<<h[n - 1], n>>]
    BY <1>3
  <2> HIDE DEF V, N
  <2> QED BY <2>1, <2>2
<1>5. h = Body(h)
  <2>1. \A n \in 0 .. N : n # 0 => n \in 1 .. N
    BY <1>1
  <2> HIDE DEF V, N
  <2> QED BY <1>3, <1>4, <2>1
<1>6. chosen = Body(chosen)
  <2> HIDE DEF Body
  <2> QED BY <1>5
<1> HIDE DEF chosen
<1>7. chosen = h
  <2>1. 0 \in 0 .. N /\ \A n \in 1 .. N : n \in 0 .. N /\ n # 0
    BY <1>1
  <2>2. chosen[0] = <<>> /\ \A n \in 1 .. N : chosen[n] = chosen[n - 1] \o <<event[n]>> \o end
    <3> HIDE DEF N
    <3> QED BY <1>6, <2>1
  <2>3. Over(chosen, N) /\ Over(h, N)
    <3> HIDE DEF N
    <3> QED BY <1>5, <1>6 DEF Over
  <2>4. ASSUME NEW n \in 1 .. N, chosen[n - 1] = h[n - 1] PROVE chosen[n] = h[n]
    <3> HIDE DEF N, Body
    <3> QED BY <1>4, <2>2, <2>4
  <2>5. Agree(chosen, h, N)
    BY <1>3, <2>2, <2>4 DEF Agree
  <2> HIDE DEF N, V, Body
  <2> QED BY <1>1, <2>3, <2>5, Unique
<1>8. TextOf(event, end) = chosen[N] \o end
  BY Zenon DEF TextOf, chosen
<1>9. Ends(h, event, end, S)
  BY <1>3, <1>4 DEF Ends
<1> QED BY <1>7, <1>8, <1>9

(* f gives the text of so many of the latest events. *)
Sends(f, N, end, S) ==
  /\ f \in [0 .. N -> Seq(S)]
  /\ f[0] = <<>>
  /\ \A n \in 1 .. N : f[n] = TextOf(Log[Len(Log) - n + 1], end) \o f[n - 1]

LEMMA TextAfterIs ==
  ASSUME NEW S, NEW end, NEW seen \in 0 .. Len(Log),
         \A e \in DOMAIN Log : TextOf(Log[e], end) \in Seq(S)
  PROVE  \E f : Sends(f, Len(Log) - seen, end, S) /\ TextAfter(seen, end) = f[Len(Log) - seen]
<1> DEFINE N == Len(Log) - seen
           V == Seq(S)
           Body(e) == [n \in 0 .. N |-> IF n = 0 THEN <<>>
                                        ELSE TextOf(Log[Len(Log) - n + 1], end) \o e[n - 1]]
           G == [p \in V \X (1 .. N) |-> TextOf(Log[Len(Log) - p[2] + 1], end) \o p[1]]
           chosen == CHOOSE e : e = Body(e)
<1>1. N \in Nat /\ \A n \in 1 .. N : TextOf(Log[Len(Log) - n + 1], end) \in Seq(S)
  <2>1. Len(Log) \in Nat /\ DOMAIN Log = 1 .. Len(Log)
    BY ServerSentEventsAssumption
  <2> QED BY <2>1
<1>2. \E h : Follows(h, V, N, <<>>, G)
  <2>1. G \in StepsOf(V, N)
    BY <1>1 DEF StepsOf
  <2>2. <<>> \in V
    OBVIOUS
  <2> HIDE DEF G, V, N
  <2> QED BY <1>1, <2>1, <2>2, Recursion
<1>3. PICK h : h \in [0 .. N -> V] /\ h[0] = <<>> /\ \A n \in 1 .. N : h[n] = G[<<h[n - 1], n>>]
  <2> HIDE DEF G, V, N
  <2> QED BY <1>2 DEF Follows
<1>4. ASSUME NEW n \in 1 .. N PROVE h[n] = TextOf(Log[Len(Log) - n + 1], end) \o h[n - 1]
  <2>1. h[n - 1] \in V
    <3> HIDE DEF G, N, V
    <3> QED BY <1>1, <1>3
  <2>2. h[n] = G[<<h[n - 1], n>>]
    BY <1>3
  <2> HIDE DEF V, N
  <2> QED BY <2>1, <2>2
<1>5. h = Body(h)
  <2>1. \A n \in 0 .. N : n # 0 => n \in 1 .. N
    BY <1>1
  <2> HIDE DEF V, N
  <2> QED BY <1>3, <1>4, <2>1
<1>6. chosen = Body(chosen)
  <2> HIDE DEF Body
  <2> QED BY <1>5
<1> HIDE DEF chosen
<1>7. chosen = h
  <2>1. 0 \in 0 .. N /\ \A n \in 1 .. N : n \in 0 .. N /\ n # 0
    BY <1>1
  <2>2. chosen[0] = <<>> /\ \A n \in 1 .. N : chosen[n] = TextOf(Log[Len(Log) - n + 1], end) \o chosen[n - 1]
    <3> HIDE DEF N
    <3> QED BY <1>6, <2>1
  <2>3. Over(chosen, N) /\ Over(h, N)
    <3> HIDE DEF N
    <3> QED BY <1>5, <1>6 DEF Over
  <2>4. ASSUME NEW n \in 1 .. N, chosen[n - 1] = h[n - 1] PROVE chosen[n] = h[n]
    <3> HIDE DEF N, Body
    <3> QED BY <1>4, <2>2, <2>4
  <2>5. Agree(chosen, h, N)
    BY <1>3, <2>2, <2>4 DEF Agree
  <2> HIDE DEF N, V, Body
  <2> QED BY <1>1, <2>3, <2>5, Unique
<1>8. TextAfter(seen, end) = chosen[N]
  BY Zenon DEF TextAfter, chosen
<1>9. Sends(h, N, end, S)
  BY <1>3, <1>4 DEF Sends
<1> QED BY <1>7, <1>8, <1>9
--------------------------------------------------------------------------------
(***************************************************************************)
(* Pauses.                                                                 *)
(***************************************************************************)
Doubles(f, delay, times) ==
  /\ f \in [0 .. times -> Nat]
  /\ f[0] = delay
  /\ \A n \in 1 .. times : f[n] = 2 * f[n - 1]

LEMMA DoubledIs ==
  ASSUME NEW delay \in Nat, NEW times \in Nat
  PROVE  \E f : Doubles(f, delay, times) /\ Doubled(delay, times) = f[times]
<1> DEFINE N == times
           V == Nat
           Body(e) == [n \in 0 .. N |-> IF n = 0 THEN delay
                                        ELSE 2 * e[n - 1]]
           G == [p \in V \X (1 .. N) |-> 2 * p[1]]
           chosen == CHOOSE e : e = Body(e)
<1>1. N \in Nat /\ V = Nat
  OBVIOUS
<1>2. \E h : Follows(h, V, N, delay, G)
  <2>1. G \in StepsOf(V, N)
    BY <1>1 DEF StepsOf
  <2>2. delay \in V
    OBVIOUS
  <2> HIDE DEF G, V, N
  <2> QED BY <1>1, <2>1, <2>2, Recursion
<1>3. PICK h : h \in [0 .. N -> V] /\ h[0] = delay /\ \A n \in 1 .. N : h[n] = G[<<h[n - 1], n>>]
  <2> HIDE DEF G, V, N
  <2> QED BY <1>2 DEF Follows
<1>4. ASSUME NEW n \in 1 .. N PROVE h[n] = 2 * h[n - 1]
  <2>1. h[n - 1] \in V
    BY <1>1, <1>3
  <2>2. h[n] = G[<<h[n - 1], n>>]
    BY <1>3
  <2> HIDE DEF V, N
  <2> QED BY <2>1, <2>2
<1>5. h = Body(h)
  <2>1. \A n \in 0 .. N : n # 0 => n \in 1 .. N
    BY <1>1
  <2> HIDE DEF V, N
  <2> QED BY <1>3, <1>4, <2>1
<1>6. chosen = Body(chosen)
  <2> HIDE DEF Body
  <2> QED BY <1>5
<1> HIDE DEF chosen
<1>7. chosen = h
  <2>1. 0 \in 0 .. N /\ \A n \in 1 .. N : n \in 0 .. N /\ n # 0
    BY <1>1
  <2>2. chosen[0] = delay /\ \A n \in 1 .. N : chosen[n] = 2 * chosen[n - 1]
    <3> HIDE DEF N
    <3> QED BY <1>6, <2>1
  <2>3. Over(chosen, N) /\ Over(h, N)
    <3> HIDE DEF N
    <3> QED BY <1>5, <1>6 DEF Over
  <2>4. ASSUME NEW n \in 1 .. N, chosen[n - 1] = h[n - 1] PROVE chosen[n] = h[n]
    <3> HIDE DEF N, Body
    <3> QED BY <1>4, <2>2, <2>4
  <2>5. Agree(chosen, h, N)
    BY <1>3, <2>2, <2>4 DEF Agree
  <2> HIDE DEF N, V, Body
  <2> QED BY <1>1, <2>3, <2>5, Unique
<1>8. Doubled(delay, times) = chosen[N]
  BY Zenon DEF Doubled, chosen
<1>9. Doubles(h, delay, times)
  BY <1>3, <1>4 DEF Doubles
<1> QED BY <1>7, <1>8, <1>9

LEMMA DoubledMore ==
  ASSUME NEW delay \in Nat, NEW times \in Nat
  PROVE  /\ Doubled(delay, times) \in Nat
         /\ Doubled(delay, times + 1) = 2 * Doubled(delay, times)
<1>1. PICK f : Doubles(f, delay, times) /\ Doubled(delay, times) = f[times]
  BY DoubledIs
<1>2. PICK g : Doubles(g, delay, times + 1) /\ Doubled(delay, times + 1) = g[times + 1]
  <2>1. times + 1 \in Nat
    OBVIOUS
  <2> QED BY <2>1, DoubledIs
<1> DEFINE T == {n \in 0 .. times : f[n] = g[n]}
<1>3. 0 \in T
  BY <1>1, <1>2 DEF Doubles
<1>4. ASSUME NEW n \in 1 .. times, n - 1 \in T PROVE n \in T
  <2>1. f[n] = 2 * f[n - 1]
    BY <1>1 DEF Doubles
  <2>2. n \in 1 .. times + 1 /\ n \in 0 .. times
    OBVIOUS
  <2>3. g[n] = 2 * g[n - 1]
    BY <1>2, <2>2 DEF Doubles
  <2>4. f[n - 1] = g[n - 1]
    BY <1>4
  <2> QED BY <2>1, <2>2, <2>3, <2>4
<1>5. times \in T
  <2>1. times \in 0 .. times
    OBVIOUS
  <2> HIDE DEF T
  <2> QED BY <1>3, <1>4, <2>1, UpTo
<1>6. g[times + 1] = 2 * g[times + 1 - 1] /\ times + 1 - 1 = times
  <2>1. times + 1 \in 1 .. times + 1
    OBVIOUS
  <2> QED BY <1>2, <2>1 DEF Doubles
<1>7. f[times] \in Nat
  BY <1>1 DEF Doubles
<1> QED BY <1>1, <1>2, <1>5, <1>6, <1>7

LEMMA BackoffIs ==
  ASSUME NEW delay \in Nat, NEW tries \in Nat \ {0}
  PROVE  /\ Backoff(delay, tries) \in 0 .. MaxDelay
         /\ Backoff(delay, tries) <= Backoff(delay, tries + 1)
<1> DEFINE before == Doubled(delay, tries - 1)
           after == Doubled(delay, tries + 1 - 1)
<1>1. tries - 1 \in Nat /\ tries - 1 + 1 = tries + 1 - 1
  OBVIOUS
<1>2. before \in Nat /\ after = 2 * before
  BY <1>1, DoubledMore
<1>3. MaxDelay \in Nat
  BY ServerSentEventsAssumption
<1> HIDE DEF before, after
<1>4. Backoff(delay, tries) = IF before < MaxDelay THEN before ELSE MaxDelay
  BY DEF Backoff, before
<1>5. Backoff(delay, tries + 1) = IF after < MaxDelay THEN after ELSE MaxDelay
  BY DEF Backoff, after
<1> QED BY <1>2, <1>3, <1>4, <1>5
--------------------------------------------------------------------------------
(***************************************************************************)
(* The shape of texts.  `Feeds` is a text whose line ends are single       *)
(* characters, as the reader sees it.                                      *)
(***************************************************************************)
Feed(t) == IF t = CR THEN LF ELSE t
Feeds(text) == [i \in 1 .. Len(text) |-> Feed(text[i])]

LEMMA FeedsType ==
  ASSUME NEW text \in Seq(Token)
  PROVE  /\ Feeds(text) \in Seq(Token) /\ Len(Feeds(text)) = Len(text)
         /\ \A i \in 1 .. Len(text) : Feeds(text)[i] = Feed(text[i]) /\ Feeds(text)[i] # CR
<1>1. \A t \in Token : Feed(t) \in Token /\ Feed(t) # CR
  BY DEF Feed, Token, LF, CR
<1>2. \A i \in 1 .. Len(text) : text[i] \in Token
  OBVIOUS
<1> HIDE DEF Token, Feed
<1>3. Feeds(text) \in Seq(Token) /\ Len(Feeds(text)) = Len(text)
  BY <1>1, <1>2 DEF Feeds
<1>4. \A i \in 1 .. Len(text) : Feeds(text)[i] = Feed(text[i])
  BY DEF Feeds
<1> QED BY <1>1, <1>2, <1>3, <1>4

LEMMA FeedsConcat ==
  ASSUME NEW a \in Seq(Token), NEW b \in Seq(Token)
  PROVE  Feeds(a \o b) = Feeds(a) \o Feeds(b)
<1> DEFINE x == Feeds(a \o b)
           y == Feeds(a) \o Feeds(b)
<1>1. a \o b \in Seq(Token) /\ Len(a \o b) = Len(a) + Len(b)
  OBVIOUS
<1>2. x \in Seq(Token) /\ Len(x) = Len(a) + Len(b) /\ y \in Seq(Token) /\ Len(y) = Len(a) + Len(b)
  <2>1. x \in Seq(Token) /\ Len(x) = Len(a) + Len(b)
    BY <1>1, FeedsType
  <2>2. Feeds(a) \in Seq(Token) /\ Feeds(b) \in Seq(Token) /\ Len(Feeds(a)) = Len(a) /\ Len(Feeds(b)) = Len(b)
    BY FeedsType
  <2>3. y \in Seq(Token) /\ Len(y) = Len(Feeds(a)) + Len(Feeds(b))
    BY <2>2, Joined
  <2> HIDE DEF x, y
  <2> QED BY <2>1, <2>2, <2>3
<1>3. ASSUME NEW i \in 1 .. Len(a) + Len(b) PROVE x[i] = y[i]
  <2>1. x[i] = Feed((a \o b)[i])
    BY <1>1, FeedsType
  <2>2. CASE i <= Len(a)
    <3>1. i \in 1 .. Len(a) /\ (a \o b)[i] = a[i]
      BY <2>2
    <3>2. y[i] = Feeds(a)[i]
      BY <3>1, FeedsType
    <3> QED BY <2>1, <3>1, <3>2, FeedsType
  <2>3. CASE ~ (i <= Len(a))
    <3>1. i - Len(a) \in 1 .. Len(b) /\ (a \o b)[i] = b[i - Len(a)]
      BY <2>3
    <3>2. y[i] = Feeds(b)[i - Len(a)]
      <4>1. Feeds(a) \in Seq(Token) /\ Feeds(b) \in Seq(Token) /\ Len(Feeds(a)) = Len(a) /\ Len(Feeds(b)) = Len(b)
        BY FeedsType
      <4> QED BY <2>3, <3>1, <4>1
    <3> QED BY <2>1, <3>1, <3>2, FeedsType
  <2> QED BY <2>2, <2>3
<1> HIDE DEF x, y
<1>4. x = y
  BY <1>2, <1>3
<1> QED BY <1>4 DEF x, y

(* Text without a CR LF is normalized character by character. *)
LEMMA NormalText ==
  ASSUME NEW text \in Seq(Token),
         \A n \in 2 .. Len(text) : ~ (text[n] = LF /\ text[n - 1] = CR)
  PROVE  NormalizeLineEnds(text) = Feeds(text)
<1> DEFINE N == Len(text)
<1>1. PICK f : Normalizes(f, text, Token) /\ NormalizeLineEnds(text) = f[N]
  <2>1. LF \in Token
    BY DEF Token
  <2> QED BY <2>1, NormalIs
<1>2. N \in Nat /\ f[0] = <<>> /\ f \in [0 .. N -> Seq(Token)]
  BY <1>1 DEF Normalizes
<1>3. ASSUME NEW n \in 1 .. N PROVE f[n] = Append(f[n - 1], Feed(text[n]))
  <2>1. ~ (n > 1 /\ text[n] = LF /\ text[n - 1] = CR)
    <3>1. n > 1 => n \in 2 .. N
      BY <1>2
    <3> QED BY <3>1
  <2>2. f[n] = IF n > 1 /\ text[n] = LF /\ text[n - 1] = CR THEN f[n - 1]
               ELSE Append(f[n - 1], IF text[n] = CR THEN LF ELSE text[n])
    BY <1>1 DEF Normalizes
  <2> QED BY <2>1, <2>2 DEF Feed
<1> DEFINE T == {n \in 0 .. N : Len(f[n]) = n /\ \A i \in 1 .. n : f[n][i] = Feed(text[i])}
<1>4. 0 \in T
  BY <1>2
<1>5. ASSUME NEW n \in 1 .. N, n - 1 \in T PROVE n \in T
  <2> DEFINE before == f[n - 1]
  <2>1. before \in Seq(Token) /\ n \in 0 .. N
    BY <1>2
  <2>2. Len(before) = n - 1 /\ \A i \in 1 .. n - 1 : before[i] = Feed(text[i])
    BY <1>5
  <2>3. f[n] = Append(before, Feed(text[n]))
    BY <1>3
  <2> HIDE DEF before, N
  <2>4. Len(f[n]) = n
    BY <2>1, <2>2, <2>3
  <2>5. \A i \in 1 .. n : f[n][i] = Feed(text[i])
    BY <2>1, <2>2, <2>3
  <2> QED BY <2>1, <2>4, <2>5
<1>6. N \in T
  <2>1. N \in 0 .. N
    BY <1>2
  <2> HIDE DEF T, N
  <2> QED BY <1>2, <1>4, <1>5, <2>1, UpTo
<1>7. f[N] \in Seq(Token) /\ Len(f[N]) = N /\ \A i \in 1 .. N : f[N][i] = Feed(text[i])
  BY <1>2, <1>6
<1>8. f[N] = Feeds(text)
  <2>1. Feeds(text) \in Seq(Token) /\ Len(Feeds(text)) = N /\ \A i \in 1 .. N : Feeds(text)[i] = Feed(text[i])
    BY FeedsType
  <2> DEFINE x == f[N]
             y == Feeds(text)
  <2> HIDE DEF x, y
  <2>2. x = y
    BY <1>2, <1>7, <2>1 DEF x, y
  <2> QED BY <2>2 DEF x, y
<1> QED BY <1>1, <1>8

LEMMA TextShape ==
  ASSUME NEW S, NEW event \in Seq(S), NEW end \in S
  PROVE  LET w == TextOf(event, <<end>>) IN
         /\ w \in Seq(S) /\ Len(w) = 2 * Len(event) + 1
         /\ \A j \in 1 .. Len(event) : w[2 * j - 1] = event[j] /\ w[2 * j] = end
         /\ w[2 * Len(event) + 1] = end
<1> DEFINE N == Len(event)
<1>1. PICK f : Ends(f, event, <<end>>, S) /\ TextOf(event, <<end>>) = f[N] \o <<end>>
  <2>1. <<end>> \in Seq(S)
    OBVIOUS
  <2> QED BY <2>1, TextIs
<1>2. N \in Nat /\ f[0] = <<>> /\ f \in [0 .. N -> Seq(S)]
  BY <1>1 DEF Ends
<1>3. \A n \in 1 .. N : f[n] = f[n - 1] \o <<event[n]>> \o <<end>>
  BY <1>1 DEF Ends
<1> DEFINE T == {n \in 0 .. N : /\ Len(f[n]) = 2 * n
                               /\ \A j \in 1 .. n : f[n][2 * j - 1] = event[j] /\ f[n][2 * j] = end}
<1>4. 0 \in T
  BY <1>2
<1>5. ASSUME NEW n \in 1 .. N, n - 1 \in T PROVE n \in T
  <2> DEFINE before == f[n - 1]
             after == f[n]
  <2>1. before \in Seq(S) /\ n \in 0 .. N /\ event[n] \in S
    BY <1>2
  <2>2. Len(before) = 2 * n - 2 /\ \A j \in 1 .. n - 1 : before[2 * j - 1] = event[j] /\ before[2 * j] = end
    <3>1. Len(before) = 2 * (n - 1)
      BY <1>5
    <3>2. \A j \in 1 .. n - 1 : before[2 * j - 1] = event[j] /\ before[2 * j] = end
      BY <1>5
    <3> HIDE DEF before, N
    <3> QED BY <1>2, <3>1, <3>2
  <2>3. after = before \o <<event[n]>> \o <<end>>
    BY <1>3
  <2> DEFINE middle == before \o <<event[n]>>
  <2>4. /\ middle \in Seq(S) /\ Len(middle) = 2 * n - 1 /\ middle[2 * n - 1] = event[n]
        /\ \A i \in 1 .. 2 * n - 2 : middle[i] = before[i]
    <3>1. 2 * n - 1 = Len(before) + 1
      BY <1>2, <2>2
    <3>2. /\ middle \in Seq(S) /\ Len(middle) = Len(before) + 1
          /\ \A i \in 1 .. Len(before) : middle[i] = before[i]
          /\ middle[Len(before) + 1] = event[n]
      <4> HIDE DEF before, N
      <4> QED BY <2>1, OneMore
    <3> HIDE DEF before, N, middle
    <3> QED BY <2>2, <3>1, <3>2
  <2>5. Len(after) = 2 * n /\ after[2 * n] = end /\ \A i \in 1 .. 2 * n - 1 : after[i] = middle[i]
    <3>1. 2 * n = Len(middle) + 1
      BY <1>2, <2>4
    <3>2. after = middle \o <<end>>
      BY <2>3
    <3> HIDE DEF middle, N, after
    <3> QED BY <2>4, <3>1, <3>2, OneMore
  <2> HIDE DEF before, N, after, middle
  <2>6. \A i \in 1 .. 2 * n - 2 : after[i] = before[i]
    BY <1>2, <2>4, <2>5
  <2>7. after[2 * n - 1] = event[n] /\ after[2 * n] = end
    BY <1>2, <2>4, <2>5
  <2>8. ASSUME NEW j \in 1 .. n PROVE after[2 * j - 1] = event[j] /\ after[2 * j] = end
    <3>1. CASE j = n
      BY <2>7, <3>1
    <3>2. CASE j # n
      <4>1. j \in 1 .. n - 1 /\ 2 * j - 1 \in 1 .. 2 * n - 2 /\ 2 * j \in 1 .. 2 * n - 2
        BY <3>2
      <4> QED BY <2>2, <2>6, <4>1
    <3> QED BY <3>1, <3>2
  <2> QED BY <2>1, <2>5, <2>8 DEF after
<1>6. N \in T
  <2>1. N \in 0 .. N
    BY <1>2
  <2> HIDE DEF T, N
  <2> QED BY <1>2, <1>4, <1>5, <2>1, UpTo
<1> DEFINE all == f[N]
           w == all \o <<end>>
<1>7. all \in Seq(S) /\ Len(all) = 2 * N /\ \A j \in 1 .. N : all[2 * j - 1] = event[j] /\ all[2 * j] = end
  BY <1>2, <1>6
<1> HIDE DEF all, N
<1>8. w \in Seq(S) /\ Len(w) = 2 * N + 1 /\ w[2 * N + 1] = end /\ \A i \in 1 .. 2 * N : w[i] = all[i]
  <2>1. /\ w \in Seq(S) /\ Len(w) = Len(all) + 1 /\ w[Len(all) + 1] = end
        /\ \A i \in 1 .. Len(all) : w[i] = all[i]
    BY <1>7, OneMore
  <2> HIDE DEF w
  <2> QED BY <1>7, <2>1
<1>10. ASSUME NEW j \in 1 .. N PROVE w[2 * j - 1] = event[j] /\ w[2 * j] = end
  <2>1. 2 * j - 1 \in 1 .. 2 * N /\ 2 * j \in 1 .. 2 * N
    BY <1>2
  <2> QED BY <1>7, <1>8, <2>1
<1>11. TextOf(event, <<end>>) = w
  BY <1>1 DEF all
<1> HIDE DEF w
<1> QED BY <1>8, <1>10, <1>11 DEF N

LEMMA TextType ==
  ASSUME NEW S, NEW event \in Seq(S), NEW end \in Seq(S)
  PROVE  TextOf(event, end) \in Seq(S)
<1>1. PICK f : Ends(f, event, end, S) /\ TextOf(event, end) = f[Len(event)] \o end
  BY TextIs
<1>2. f[Len(event)] \in Seq(S)
  <2>1. Len(event) \in 0 .. Len(event)
    OBVIOUS
  <2> QED BY <1>1, <2>1 DEF Ends
<1> QED BY <1>1, <1>2, Joined

Size == Len(Log)

LEMMA LogIs ==
  /\ Size \in Nat /\ DOMAIN Log = 1 .. Size
  /\ \A e \in 1 .. Size :
       /\ Log[e] \in Seq(GoodLine) /\ Len(Log[e]) \in Nat \ {0} /\ Log[e] \in Seq(Token)
       /\ \A i \in 1 .. Len(Log[e]) : Log[e][i][1] = "id" => Log[e][i] = <<"id", e>>
       /\ \E i \in 1 .. Len(Log[e]) : Log[e][i] = <<"id", e>>
<1>1. Size \in Nat /\ DOMAIN Log = 1 .. Size /\ \A e \in 1 .. Size : Log[e] \in Seq(Line)
  BY ServerSentEventsAssumption DEF Size
<1> SUFFICES ASSUME NEW e \in 1 .. Size
             PROVE  /\ Log[e] \in Seq(GoodLine) /\ Len(Log[e]) \in Nat \ {0} /\ Log[e] \in Seq(Token)
                    /\ \A i \in 1 .. Len(Log[e]) : Log[e][i][1] = "id" => Log[e][i] = <<"id", e>>
                    /\ \E i \in 1 .. Len(Log[e]) : Log[e][i] = <<"id", e>>
  BY <1>1
<1> DEFINE event == Log[e]
           ids == {event[i] : i \in Named(event, "id")}
<1>2. event \in Seq(Line) /\ e \in DOMAIN Log
  BY <1>1
<1>3. ids = {<<"id", e>>} /\ \A i \in Named(event, "retry") : event[i][2] \in Nat \cup {NaN}
  BY <1>2, ServerSentEventsAssumption
<1> HIDE DEF event
<1>4. DOMAIN event = 1 .. Len(event) /\ Len(event) \in Nat
  BY <1>2
<1>5. \A i \in 1 .. Len(event) : event[i][1] = "id" => event[i] = <<"id", e>>
  <2> SUFFICES ASSUME NEW i \in 1 .. Len(event), event[i][1] = "id" PROVE event[i] = <<"id", e>>
    OBVIOUS
  <2>1. i \in Named(event, "id")
    BY <1>4 DEF Named
  <2>2. event[i] \in ids
    BY <2>1
  <2> HIDE DEF ids
  <2> QED BY <1>3, <2>2
<1>6. \E i \in 1 .. Len(event) : event[i] = <<"id", e>>
  <2>1. <<"id", e>> \in ids
    <3> HIDE DEF ids
    <3> QED BY <1>3
  <2>2. PICK i \in Named(event, "id") : event[i] = <<"id", e>>
    BY <2>1
  <2> QED BY <1>4, <2>2 DEF Named
<1>7. \A i \in 1 .. Len(event) : event[i] \in GoodLine
  <2> SUFFICES ASSUME NEW i \in 1 .. Len(event) PROVE event[i] \in GoodLine
    OBVIOUS
  <2>1. event[i] \in Line
    BY <1>2
  <2>2. event[i][1] = "retry" => event[i][2] \in Nat \cup {NaN}
    BY <1>3, <1>4 DEF Named
  <2>3. event[i][1] = "id" => event[i][2] \in DOMAIN Log
    <3> SUFFICES ASSUME event[i][1] = "id" PROVE event[i][2] \in DOMAIN Log
      OBVIOUS
    <3>1. event[i] = <<"id", e>>
      BY <1>5
    <3> QED BY <1>2, <3>1
  <2> QED BY <2>1, <2>2, <2>3 DEF GoodLine
<1>8. event \in Seq(GoodLine) /\ event \in Seq(Token)
  BY <1>2, <1>7 DEF Token
<1>9. Len(event) # 0
  BY <1>4, <1>6
<1> QED BY <1>4, <1>5, <1>6, <1>8, <1>9 DEF event

LEMMA TextAfterType ==
  ASSUME NEW end \in Seq(Token), NEW seen \in 0 .. Size
  PROVE  TextAfter(seen, end) \in Seq(Token)
<1>1. \A e \in DOMAIN Log : TextOf(Log[e], end) \in Seq(Token)
  BY LogIs, TextType
<1>2. PICK f : Sends(f, Len(Log) - seen, end, Token) /\ TextAfter(seen, end) = f[Len(Log) - seen]
  BY <1>1, TextAfterIs DEF Size
<1>3. Len(Log) - seen \in 0 .. Len(Log) - seen
  BY LogIs DEF Size
<1> QED BY <1>2, <1>3 DEF Sends

LEMMA TextAfterNext ==
  ASSUME NEW end \in Seq(Token)
  PROVE  /\ TextAfter(Size, end) = <<>>
         /\ \A seen \in 0 .. Size - 1 :
              TextAfter(seen, end) = TextOf(Log[seen + 1], end) \o TextAfter(seen + 1, end)
<1>1. \A e \in DOMAIN Log : TextOf(Log[e], end) \in Seq(Token)
  BY LogIs, TextType
<1>2. \A seen \in 0 .. Size : \E f :
        Sends(f, Size - seen, end, Token) /\ TextAfter(seen, end) = f[Size - seen]
  BY <1>1, TextAfterIs DEF Size
<1>3. TextAfter(Size, end) = <<>>
  <2>1. Size \in 0 .. Size /\ Size - Size = 0
    BY LogIs
  <2>2. PICK f : Sends(f, 0, end, Token) /\ TextAfter(Size, end) = f[0]
    BY <1>2, <2>1
  <2> QED BY <2>2 DEF Sends
<1>4. ASSUME NEW seen \in 0 .. Size - 1
      PROVE  TextAfter(seen, end) = TextOf(Log[seen + 1], end) \o TextAfter(seen + 1, end)
  <2> DEFINE N == Size - seen
             M == Size - (seen + 1)
  <2>1. N \in Nat /\ M \in Nat /\ N = M + 1 /\ seen \in 0 .. Size /\ seen + 1 \in 0 .. Size
    BY LogIs
  <2>2. PICK f : Sends(f, N, end, Token) /\ TextAfter(seen, end) = f[N]
    BY <1>2, <2>1
  <2>3. PICK g : Sends(g, M, end, Token) /\ TextAfter(seen + 1, end) = g[M]
    BY <1>2, <2>1
  <2>4. Size - N + 1 = seen + 1
    BY LogIs
  <2> HIDE DEF N, M
  <2>5. f[0] = <<>> /\ \A n \in 1 .. N : f[n] = TextOf(Log[Size - n + 1], end) \o f[n - 1]
    BY <2>2 DEF Sends, Size
  <2>6. g[0] = <<>> /\ \A n \in 1 .. M : g[n] = TextOf(Log[Size - n + 1], end) \o g[n - 1]
    BY <2>3 DEF Sends, Size
  <2> DEFINE T == {n \in 0 .. M : f[n] = g[n]}
  <2>7. 0 \in T
    BY <2>1, <2>5, <2>6
  <2>8. ASSUME NEW n \in 1 .. M, n - 1 \in T PROVE n \in T
    <3>1. n \in 1 .. N /\ n \in 0 .. M
      BY <2>1
    <3>2. f[n - 1] = g[n - 1]
      BY <2>8
    <3>3. f[n] = g[n]
      BY <2>5, <2>6, <3>1, <3>2
    <3> QED BY <3>1, <3>3
  <2>9. M \in T
    <3>1. M \in 0 .. M
      BY <2>1
    <3> HIDE DEF T
    <3> QED BY <2>1, <2>7, <2>8, <3>1, UpTo
  <2>10. f[N] = TextOf(Log[seen + 1], end) \o f[M]
    <3>1. N \in 1 .. N /\ N - 1 = M
      BY <2>1
    <3> QED BY <2>4, <2>5, <3>1
  <2> QED BY <2>2, <2>3, <2>9, <2>10
<1> QED BY <1>3, <1>4
--------------------------------------------------------------------------------
(***************************************************************************)
(* What the reader sees of an event, of what follows one, and the piece    *)
(* that an event becomes.                                                  *)
(***************************************************************************)
EventText(e, end) == Feeds(TextOf(Log[e], <<end>>))
Plain(k, end) == Feeds(TextAfter(k, <<end>>))
Chunk(e, end) == SubSeq(EventText(e, end), 1, 2 * Len(Log[e]) - 1)

LEMMA PlainNext ==
  ASSUME NEW end \in {LF, CR}
  PROVE  /\ Plain(Size, end) = <<>>
         /\ \A k \in 0 .. Size : Plain(k, end) \in Seq(Token)
         /\ \A k \in 0 .. Size - 1 : Plain(k, end) = EventText(k + 1, end) \o Plain(k + 1, end)
<1>1. <<end>> \in Seq(Token)
  <2>1. end \in Token
    BY DEF Token
  <2> HIDE DEF Token
  <2> QED BY <2>1
<1>2. \A k \in 0 .. Size : TextAfter(k, <<end>>) \in Seq(Token)
  BY <1>1, TextAfterType
<1>3. Plain(Size, end) = <<>>
  <2>1. TextAfter(Size, <<end>>) = <<>> /\ Len(<<>>) = 0
    BY <1>1, TextAfterNext
  <2> QED BY <2>1 DEF Plain, Feeds
<1>4. \A k \in 0 .. Size : Plain(k, end) \in Seq(Token)
  BY <1>2, FeedsType DEF Plain
<1>5. ASSUME NEW k \in 0 .. Size - 1
      PROVE  Plain(k, end) = EventText(k + 1, end) \o Plain(k + 1, end)
  <2>1. k + 1 \in 0 .. Size /\ k + 1 \in 1 .. Size
    BY LogIs
  <2>2. TextAfter(k, <<end>>) = TextOf(Log[k + 1], <<end>>) \o TextAfter(k + 1, <<end>>)
    BY <1>1, TextAfterNext
  <2>3. TextOf(Log[k + 1], <<end>>) \in Seq(Token)
    BY <1>1, <2>1, LogIs, TextType
  <2>4. TextAfter(k + 1, <<end>>) \in Seq(Token)
    BY <1>2, <2>1
  <2> QED BY <2>2, <2>3, <2>4, FeedsConcat DEF Plain, EventText
<1> QED BY <1>3, <1>4, <1>5

LEMMA EventShape ==
  ASSUME NEW end \in {LF, CR}, NEW e \in 1 .. Size
  PROVE  LET w == EventText(e, end)
             n == Len(Log[e])
         IN  /\ w \in Seq(Token) /\ Len(w) = 2 * n + 1
             /\ \A j \in 1 .. n : w[2 * j - 1] = Log[e][j] /\ w[2 * j - 1] # LF /\ w[2 * j] = LF
             /\ w[2 * n + 1] = LF
<1> DEFINE n == Len(Log[e])
           raw == TextOf(Log[e], <<end>>)
           w == EventText(e, end)
<1>1. end \in Token /\ Feed(end) = LF
  BY DEF Token, Feed
<1>2. n \in Nat /\ Log[e] \in Seq(Token) /\ \A j \in 1 .. n : Log[e][j] \in GoodLine
  BY LogIs
<1>3. /\ raw \in Seq(Token) /\ Len(raw) = 2 * n + 1
      /\ \A j \in 1 .. n : raw[2 * j - 1] = Log[e][j] /\ raw[2 * j] = end
      /\ raw[2 * n + 1] = end
  <2> HIDE DEF Token
  <2> QED BY <1>1, <1>2, TextShape
<1> HIDE DEF raw
<1>4. w = Feeds(raw)
  BY DEF raw, EventText
<1> HIDE DEF w, n
<1>5. w \in Seq(Token) /\ Len(w) = 2 * n + 1 /\ \A i \in 1 .. 2 * n + 1 : w[i] = Feed(raw[i])
  BY <1>3, <1>4, FeedsType
<1>6. \A line \in GoodLine : line # LF /\ line # CR /\ Feed(line) = line
  BY DEF GoodLine, Line, LF, CR, Feed
<1>7. ASSUME NEW j \in 1 .. n
      PROVE  w[2 * j - 1] = Log[e][j] /\ w[2 * j - 1] # LF /\ w[2 * j] = LF
  <2>1. 2 * j - 1 \in 1 .. 2 * n + 1 /\ 2 * j \in 1 .. 2 * n + 1
    BY <1>2
  <2>2. w[2 * j - 1] = Feed(Log[e][j]) /\ w[2 * j] = Feed(end)
    BY <1>3, <1>5, <2>1
  <2> QED BY <1>1, <1>2, <1>6, <2>2
<1>8. w[2 * n + 1] = LF
  <2>1. 2 * n + 1 \in 1 .. 2 * n + 1
    BY <1>2
  <2> QED BY <1>1, <1>3, <1>5, <2>1
<1> QED BY <1>5, <1>7, <1>8 DEF w, n

LEMMA Halves ==
  ASSUME NEW n \in Nat, NEW i \in 1 .. 2 * n
  PROVE  \E j \in 1 .. n : i = 2 * j - 1 \/ i = 2 * j
<1>1. PICK j \in Nat : i = 2 * j \/ i = 2 * j + 1
  <2>1. i = 2 * (i \div 2) \/ i = 2 * (i \div 2) + 1
    OBVIOUS
  <2>2. i \div 2 \in Nat
    OBVIOUS
  <2> QED BY <2>1, <2>2
<1>2. CASE i = 2 * j
  <2>1. j \in 1 .. n
    BY <1>2
  <2> QED BY <1>2, <2>1
<1>3. CASE i = 2 * j + 1
  <2>1. j + 1 \in 1 .. n /\ i = 2 * (j + 1) - 1
    BY <1>3
  <2> QED BY <2>1
<1> QED BY <1>1, <1>2, <1>3

(* No blank line but the one that ends an event. *)
LEMMA NoBlank ==
  ASSUME NEW end \in {LF, CR}, NEW e \in 1 .. Size, NEW i \in 1 .. 2 * Len(Log[e]) - 1
  PROVE  ~ (EventText(e, end)[i] = LF /\ EventText(e, end)[i + 1] = LF)
<1> DEFINE n == Len(Log[e])
           w == EventText(e, end)
<1>1. n \in Nat
  BY LogIs
<1>2. \A j \in 1 .. n : w[2 * j - 1] # LF
  BY EventShape
<1> HIDE DEF n, w
<1>3. PICK j \in 1 .. n : i = 2 * j - 1 \/ i = 2 * j
  <2>1. i \in 1 .. 2 * n
    BY <1>1 DEF n
  <2> QED BY <1>1, <2>1, Halves
<1>4. CASE i = 2 * j - 1
  BY <1>2, <1>4 DEF w
<1>5. CASE i = 2 * j
  <2>1. j + 1 \in 1 .. n /\ i + 1 = 2 * (j + 1) - 1
    BY <1>1, <1>5 DEF n
  <2>2. w[i + 1] # LF
    BY <1>2, <2>1
  <2> QED BY <2>2 DEF w
<1> QED BY <1>3, <1>4, <1>5

(* t goes from the text behind it to the one before it. *)
Moves(a, t, b) == a \o (<<t>> \o b) = Append(a, t) \o b

LEMMA Regroup ==
  ASSUME NEW S, NEW a \in Seq(S), NEW t \in S, NEW b \in Seq(S)
  PROVE  /\ <<t>> \o b \in Seq(S) /\ Len(<<t>> \o b) = Len(b) + 1
         /\ (<<t>> \o b)[1] = t /\ \A i \in 1 .. Len(b) : (<<t>> \o b)[i + 1] = b[i]
         /\ Moves(a, t, b)
<1>1. <<t>> \in Seq(S) /\ Len(<<t>>) = 1 /\ <<t>>[1] = t
  OBVIOUS
<1>2. <<t>> \o b \in Seq(S) /\ Len(<<t>> \o b) = Len(b) + 1
  BY <1>1, Joined
<1>3. (<<t>> \o b)[1] = t /\ \A i \in 1 .. Len(b) : (<<t>> \o b)[i + 1] = b[i]
  BY <1>1
<1>4. a \o (<<t>> \o b) = (a \o <<t>>) \o b
  BY <1>1, ConcatAssociative
<1>5. a \o <<t>> = Append(a, t)
  BY AppendIsConcat
<1>6. Moves(a, t, b)
  BY <1>4, <1>5, Zenon DEF Moves
<1> QED BY <1>2, <1>3, <1>6

(* One more token of the text: it ends the piece of the next event, or the
   piece stays unfinished. *)
LEMMA OnePiece ==
  ASSUME NEW end \in {LF, CR}, NEW q \in 0 .. Size, NEW rest \in Seq(Token), NEW t \in Token,
         NEW Z \in Seq(Token), rest \o (<<t>> \o Z) = Plain(q, end),
         q < Size => Len(rest) <= 2 * Len(Log[q + 1])
  PROVE  /\ q < Size
         /\ EndsPiece(rest, t) => Front(rest) = Chunk(q + 1, end) /\ Z = Plain(q + 1, end)
         /\ ~ EndsPiece(rest, t) =>
              Append(rest, t) \o Z = Plain(q, end) /\ Len(rest) + 1 <= 2 * Len(Log[q + 1])
<1> DEFINE r == Len(rest)
           tail == <<t>> \o Z
           X == rest \o tail
           n == Len(Log[q + 1])
           w == EventText(q + 1, end)
           P == Plain(q + 1, end)
<1>1. /\ tail \in Seq(Token) /\ Len(tail) = Len(Z) + 1
      /\ tail[1] = t /\ \A i \in 1 .. Len(Z) : tail[i + 1] = Z[i]
  BY Regroup
<1>2. r \in Nat /\ Len(Z) \in Nat /\ Size \in Nat
  BY LogIs
<1> HIDE DEF tail
<1>3. /\ X \in Seq(Token) /\ Len(X) = r + Len(tail)
      /\ \A i \in 1 .. r : X[i] = rest[i]
      /\ \A i \in 1 .. Len(tail) : X[r + i] = tail[i]
  BY <1>1, Joined
<1>4. X = Plain(q, end)
  BY DEF tail
<1> HIDE DEF X
<1>5. q < Size
  <2> SUFFICES ASSUME q = Size PROVE FALSE
    BY <1>2
  <2>1. X = <<>>
    BY <1>4, PlainNext
  <2>2. Len(X) = 0
    BY <2>1
  <2> HIDE DEF r
  <2> QED BY <1>1, <1>2, <1>3, <2>2
<1>6. q \in 0 .. Size - 1 /\ q + 1 \in 0 .. Size /\ q + 1 \in 1 .. Size
  BY <1>2, <1>5
<1>7. n \in Nat \ {0} /\ r <= 2 * n
  BY <1>5, <1>6, LogIs
<1>8. /\ w \in Seq(Token) /\ Len(w) = 2 * n + 1
      /\ \A j \in 1 .. n : w[2 * j] = LF
      /\ w[2 * n + 1] = LF
  BY <1>6, EventShape
<1>9. P \in Seq(Token) /\ Len(P) \in Nat
  BY <1>6, PlainNext
<1>10. X = w \o P
  BY <1>4, <1>6, PlainNext
<1>11. \A i \in 1 .. 2 * n - 1 : ~ (w[i] = LF /\ w[i + 1] = LF)
  BY <1>6, NoBlank
<1> HIDE DEF n, w, P
<1>12. /\ Len(X) = Len(w) + Len(P)
       /\ \A i \in 1 .. Len(w) : X[i] = w[i]
       /\ \A i \in 1 .. Len(P) : X[Len(w) + i] = P[i]
  <2> DEFINE Y == w \o P
  <2>1. /\ Len(Y) = Len(w) + Len(P)
        /\ \A i \in 1 .. Len(w) : Y[i] = w[i]
        /\ \A i \in 1 .. Len(P) : Y[Len(w) + i] = P[i]
    <3>1. w \in Seq(Token) /\ P \in Seq(Token)
      BY <1>8, <1>9
    <3> QED BY <3>1, Joined
  <2>2. X = Y
    BY <1>10
  <2> HIDE DEF Y
  <2> QED BY <2>1, <2>2
<1> HIDE DEF r
<1>13. \A i \in 1 .. r : rest[i] = w[i]
  <2> SUFFICES ASSUME NEW i \in 1 .. r PROVE rest[i] = w[i]
    OBVIOUS
  <2>1. i \in 1 .. Len(w)
    BY <1>2, <1>7, <1>8
  <2> QED BY <1>3, <1>12, <2>1
<1>14. t = w[r + 1]
  <2>1. r + 1 \in 1 .. Len(w) /\ 1 \in 1 .. Len(tail)
    BY <1>1, <1>2, <1>7, <1>8
  <2> QED BY <1>1, <1>3, <1>12, <2>1
<1>15. CASE r = 2 * n
  <2>1. rest # <<>> /\ Last(rest) = rest[r]
    <3>1. r # 0
      BY <1>7, <1>15
    <3> QED BY <3>1 DEF Last, r
  <2>2. EndsPiece(rest, t)
    <3>1. r \in 1 .. r /\ n \in 1 .. n
      BY <1>7, <1>15
    <3>2. rest[r] = w[2 * n]
      BY <1>13, <1>15, <3>1
    <3> QED BY <1>8, <1>14, <1>15, <2>1, <3>1, <3>2 DEF EndsPiece
  <2>3. Front(rest) = SubSeq(w, 1, 2 * n - 1)
    <3> DEFINE x == SubSeq(rest, 1, r - 1)
               y == SubSeq(w, 1, 2 * n - 1)
    <3>1. x \in Seq(Token) /\ Len(x) = 2 * n - 1 /\ \A i \in 1 .. 2 * n - 1 : x[i] = rest[i]
      <4>1. r - 1 \in 0 .. Len(rest) /\ r - 1 = 2 * n - 1
        BY <1>2, <1>7, <1>15 DEF r
      <4> QED BY <4>1
    <3>2. y \in Seq(Token) /\ Len(y) = 2 * n - 1 /\ \A i \in 1 .. 2 * n - 1 : y[i] = w[i]
      <4>1. 2 * n - 1 \in 0 .. Len(w)
        BY <1>7, <1>8
      <4> QED BY <1>8, <4>1
    <3>3. \A i \in 1 .. 2 * n - 1 : rest[i] = w[i]
      BY <1>2, <1>7, <1>13, <1>15
    <3> HIDE DEF x, y
    <3>4. x = y
      <4>1. \A i \in 1 .. Len(x) : x[i] = y[i]
        BY <3>1, <3>2, <3>3
      <4> QED BY <3>1, <3>2, <4>1
    <3> QED BY <3>4 DEF x, y, Front, r
  <2>4. Z = P
    <3>1. Len(Z) = Len(P)
      BY <1>1, <1>2, <1>3, <1>7, <1>8, <1>9, <1>12, <1>15
    <3>2. ASSUME NEW i \in 1 .. Len(Z) PROVE Z[i] = P[i]
      <4>1. i + 1 \in 1 .. Len(tail) /\ r + (i + 1) = Len(w) + i
        BY <1>1, <1>2, <1>7, <1>8, <1>15
      <4> QED BY <1>1, <1>3, <1>12, <3>1, <4>1
    <3>3. \A i \in 1 .. Len(Z) : Z[i] = P[i]
      BY <3>2
    <3> QED BY <1>9, <3>1, <3>3, SameSeq
  <2> QED BY <1>5, <2>2, <2>3, <2>4 DEF Chunk, w, P, n
<1>16. CASE r # 2 * n
  <2>1. ~ EndsPiece(rest, t)
    <3> SUFFICES ASSUME EndsPiece(rest, t) PROVE FALSE
      OBVIOUS
    <3>1. t = LF /\ rest # <<>> /\ rest[r] = LF
      BY DEF EndsPiece, Last, r
    <3>2. r # 0
      BY <3>1 DEF r
    <3>3. r \in 1 .. r /\ r \in 1 .. 2 * n - 1
      BY <1>2, <1>7, <1>16, <3>2
    <3> QED BY <1>11, <1>13, <1>14, <3>1, <3>3
  <2>2. Append(rest, t) \o Z = Plain(q, end)
    <3>1. rest \o (<<t>> \o Z) = Append(rest, t) \o Z
      <4>1. Moves(rest, t, Z)
        BY Regroup
      <4> QED BY <4>1, Zenon DEF Moves
    <3> QED BY <3>1, Zenon
  <2>3. r + 1 <= 2 * n
    BY <1>2, <1>7, <1>16
  <2> QED BY <1>5, <2>1, <2>2, <2>3 DEF r, n
<1> QED BY <1>15, <1>16

(* The pieces of a text that began after event k and goes on with Y: whole
   events, and no more than the beginning of the next. *)
EventPieces(s, k, Y, end) ==
  /\ s \in Pieces(Token)
  /\ k + Len(s.whole) <= Size
  /\ \A j \in 1 .. Len(s.whole) : s.whole[j] = Chunk(k + j, end)
  /\ s.rest \o Y = Plain(k + Len(s.whole), end)
  /\ k + Len(s.whole) < Size => Len(s.rest) <= 2 * Len(Log[k + Len(s.whole) + 1])

LEMMA FedEvents ==
  ASSUME NEW end \in {LF, CR}, NEW k \in 0 .. Size, NEW t \in Token, NEW Z \in Seq(Token),
         NEW s, EventPieces(s, k, <<t>> \o Z, end)
  PROVE  EventPieces(Fed(s, t), k, Z, end)
<1> DEFINE whole == s.whole
           rest == s.rest
           q == k + Len(whole)
           next == Fed(s, t)
<1>1. /\ s \in Pieces(Token) /\ whole \in Seq(Seq(Token)) /\ rest \in Seq(Token)
      /\ Len(whole) \in Nat /\ Size \in Nat
  BY LogIs DEF EventPieces, Pieces
<1>2. /\ q <= Size /\ \A j \in 1 .. Len(whole) : whole[j] = Chunk(k + j, end)
      /\ rest \o (<<t>> \o Z) = Plain(q, end)
      /\ q < Size => Len(rest) <= 2 * Len(Log[q + 1])
  BY DEF EventPieces
<1>3. next \in Pieces(Token)
  BY <1>1, FedType
<1>4. q \in 0 .. Size
  BY <1>1, <1>2
<1> HIDE DEF whole, rest, q, next
<1>5. /\ q < Size
      /\ EndsPiece(rest, t) => Front(rest) = Chunk(q + 1, end) /\ Z = Plain(q + 1, end)
      /\ ~ EndsPiece(rest, t) =>
           Append(rest, t) \o Z = Plain(q, end) /\ Len(rest) + 1 <= 2 * Len(Log[q + 1])
  BY <1>1, <1>2, <1>4, OnePiece
<1>6. CASE EndsPiece(rest, t)
  <2>1. next.whole = Append(whole, Chunk(q + 1, end)) /\ next.rest = <<>>
    BY <1>5, <1>6 DEF Fed, next, whole, rest
  <2>2. Chunk(q + 1, end) \in Seq(Token)
    <3>1. next.whole \in Seq(Seq(Token))
      BY <1>3 DEF Pieces
    <3>2. Front(rest) \in Seq(Token)
      <4>1. rest # <<>>
        BY <1>6 DEF EndsPiece
      <4> QED BY <1>1, <4>1 DEF Front
    <3> QED BY <1>5, <1>6, <3>2
  <2>3. /\ Len(next.whole) = Len(whole) + 1
        /\ \A j \in 1 .. Len(whole) : next.whole[j] = whole[j]
        /\ next.whole[Len(whole) + 1] = Chunk(q + 1, end)
    <3> DEFINE C == Chunk(q + 1, end)
    <3> HIDE DEF C
    <3>1. C \in Seq(Token) /\ next.whole = Append(whole, C)
      BY <2>1, <2>2 DEF C
    <3>2. /\ Len(Append(whole, C)) = Len(whole) + 1
          /\ \A j \in 1 .. Len(whole) : Append(whole, C)[j] = whole[j]
          /\ Append(whole, C)[Len(whole) + 1] = C
      BY <1>1, <3>1
    <3> QED BY <3>1, <3>2 DEF C
  <2>4. k + Len(next.whole) = q + 1
    BY <1>1, <2>3 DEF q
  <2>5. \A j \in 1 .. Len(next.whole) : next.whole[j] = Chunk(k + j, end)
    <3> SUFFICES ASSUME NEW j \in 1 .. Len(next.whole) PROVE next.whole[j] = Chunk(k + j, end)
      OBVIOUS
    <3>1. CASE j = Len(whole) + 1
      <4>1. k + j = q + 1
        BY <1>1, <3>1 DEF q
      <4> QED BY <2>3, <3>1, <4>1
    <3>2. CASE j # Len(whole) + 1
      <4>1. j \in 1 .. Len(whole)
        BY <1>1, <2>3, <3>2
      <4> QED BY <1>2, <2>3, <4>1
    <3> QED BY <3>1, <3>2
  <2>6. next.rest \o Z = Plain(q + 1, end)
    <3>1. <<>> \o Z = Z
      OBVIOUS
    <3> QED BY <1>5, <1>6, <2>1, <3>1
  <2>7. q + 1 < Size => Len(next.rest) <= 2 * Len(Log[q + 1 + 1])
    <3> SUFFICES ASSUME q + 1 < Size PROVE Len(next.rest) <= 2 * Len(Log[q + 1 + 1])
      OBVIOUS
    <3>1. q + 1 + 1 \in 1 .. Size
      BY <1>1, <1>4
    <3>2. Len(next.rest) = 0 /\ Len(Log[q + 1 + 1]) \in Nat
      BY <2>1, <3>1, LogIs
    <3> QED BY <3>2
  <2>8. q + 1 <= Size
    BY <1>1, <1>4, <1>5
  <2> QED BY <1>3, <2>4, <2>5, <2>6, <2>7, <2>8 DEF EventPieces, next
<1>7. CASE ~ EndsPiece(rest, t)
  <2>1. next.whole = whole /\ next.rest = Append(rest, t)
    <3>1. next = [whole |-> whole, rest |-> Append(rest, t)]
      BY <1>1, <1>7, NewRest DEF Fed, next, whole, rest, Pieces
    <3> QED BY <3>1
  <2>2. Len(next.rest) = Len(rest) + 1
    BY <1>1, <2>1
  <2>3. next.rest \o Z = Plain(q, end) /\ Len(next.rest) <= 2 * Len(Log[q + 1])
    BY <1>5, <1>7, <2>1, <2>2
  <2>4. k + Len(next.whole) = q
    BY <2>1 DEF q
  <2> QED BY <1>2, <1>3, <2>1, <2>3, <2>4 DEF EventPieces, next
<1> QED BY <1>6, <1>7

LEMMA NothingYet ==
  ASSUME NEW end \in {LF, CR}, NEW k \in 0 .. Size
  PROVE  EventPieces(Begun, k, Plain(k, end), end)
<1> DEFINE P == Plain(k, end)
<1>1. Begun \in Pieces(Token) /\ Begun.whole = <<>> /\ Begun.rest = <<>>
  BY DEF Begun, Pieces
<1>2. P \in Seq(Token) /\ <<>> \o P = P
  BY PlainNext
<1>3. Len(Begun.whole) = 0 /\ Len(Begun.rest) = 0 /\ k + 0 = k /\ k <= Size /\ k \in Nat /\ Size \in Nat
  BY <1>1, LogIs
<1>4. k < Size => 0 <= 2 * Len(Log[k + 1])
  <2> SUFFICES ASSUME k < Size PROVE 0 <= 2 * Len(Log[k + 1])
    OBVIOUS
  <2>1. k + 1 \in 1 .. Size
    BY <1>3
  <2>2. Len(Log[k + 1]) \in Nat
    BY <2>1, LogIs
  <2> QED BY <2>2
<1> HIDE DEF P
<1> QED BY <1>1, <1>2, <1>3, <1>4 DEF EventPieces, P

(* The first piece is the next event; the others follow it. *)
LEMMA NextPiece ==
  ASSUME NEW end, NEW k \in 0 .. Size, NEW Y, NEW whole, NEW rest,
         EventPieces([whole |-> whole, rest |-> rest], k, Y, end), whole # <<>>
  PROVE  /\ k + 1 \in 1 .. Size /\ Head(whole) = Chunk(k + 1, end)
         /\ EventPieces([whole |-> Tail(whole), rest |-> rest], k + 1, Y, end)
<1> DEFINE others == Tail(whole)
<1>1. /\ whole \in Seq(Seq(Token)) /\ rest \in Seq(Token)
      /\ k + Len(whole) <= Size /\ \A j \in 1 .. Len(whole) : whole[j] = Chunk(k + j, end)
      /\ rest \o Y = Plain(k + Len(whole), end)
      /\ k + Len(whole) < Size => Len(rest) <= 2 * Len(Log[k + Len(whole) + 1])
  BY DEF EventPieces, Pieces
<1>2. Len(whole) \in Nat \ {0} /\ Size \in Nat
  BY <1>1, LogIs
<1>3. k + 1 \in 1 .. Size
  BY <1>1, <1>2
<1>4. Head(whole) = Chunk(k + 1, end)
  <2>1. 1 \in 1 .. Len(whole)
    BY <1>2
  <2> QED BY <1>1, <2>1
<1>5. others \in Seq(Seq(Token)) /\ Len(others) = Len(whole) - 1 /\ \A j \in 1 .. Len(others) : others[j] = whole[j + 1]
  <2> DEFINE S == Seq(Token)
  <2> HIDE DEF S
  <2>1. whole \in Seq(S)
    BY <1>1 DEF S
  <2>2. others \in Seq(S) /\ Len(others) = Len(whole) - 1 /\ \A j \in 1 .. Len(others) : others[j] = whole[j + 1]
    BY <1>2, <2>1
  <2> QED BY <2>2 DEF S
<1> HIDE DEF others
<1>6. k + 1 + Len(others) = k + Len(whole)
  BY <1>2, <1>5
<1>7. \A j \in 1 .. Len(others) : others[j] = Chunk(k + 1 + j, end)
  <2> SUFFICES ASSUME NEW j \in 1 .. Len(others) PROVE others[j] = Chunk(k + 1 + j, end)
    OBVIOUS
  <2>1. j + 1 \in 1 .. Len(whole) /\ k + (j + 1) = k + 1 + j
    BY <1>2, <1>5
  <2> QED BY <1>1, <1>5, <2>1
<1>8. [whole |-> others, rest |-> rest] \in Pieces(Token)
  BY <1>1, <1>5 DEF Pieces
<1>9. EventPieces([whole |-> others, rest |-> rest], k + 1, Y, end)
  BY <1>1, <1>6, <1>7, <1>8 DEF EventPieces
<1> QED BY <1>3, <1>4, <1>9 DEF others

LEMMA PrefixSplits ==
  ASSUME NEW end \in {LF, CR}, NEW k \in 0 .. Size, NEW X \in Seq(Token), NEW Y \in Seq(Token),
         X \o Y = Plain(k, end)
  PROVE  EventPieces(SplitAtBlankLines(X), k, Y, end)
<1> DEFINE N == Len(X)
           Ahead(n) == SubSeq(X, n + 1, N) \o Y
<1>1. PICK f : Splits(f, X, Token) /\ SplitAtBlankLines(X) = f[N]
  BY SplitIs
<1>2. N \in Nat /\ f[0] = Begun /\ \A n \in 1 .. N : f[n] = Fed(f[n - 1], X[n])
  BY <1>1 DEF Splits
<1>3. \A n \in 0 .. N : SubSeq(X, n + 1, N) \in Seq(Token) /\ Ahead(n) \in Seq(Token)
  <2> SUFFICES ASSUME NEW n \in 0 .. N
               PROVE  SubSeq(X, n + 1, N) \in Seq(Token) /\ Ahead(n) \in Seq(Token)
    OBVIOUS
  <2>1. \A i \in n + 1 .. N : X[i] \in Token
    OBVIOUS
  <2>2. SubSeq(X, n + 1, N) \in Seq(Token)
    BY <2>1, <1>2, SubSeqProperties
  <2> QED BY <2>2, Joined
<1>4. ASSUME NEW n \in 1 .. N PROVE Ahead(n - 1) = <<X[n]>> \o Ahead(n)
  <2> DEFINE A == SubSeq(X, n + 1, N)
  <2>1. A \in Seq(Token) /\ X[n] \in Token /\ <<X[n]>> \in Seq(Token)
    BY <1>3
  <2>2. SubSeq(X, n, N) = <<X[n]>> \o A
    OBVIOUS
  <2>3. n - 1 + 1 = n
    BY <1>2
  <2> HIDE DEF A
  <2>4. (<<X[n]>> \o A) \o Y = <<X[n]>> \o (A \o Y)
    BY <2>1, ConcatAssociative
  <2>5. Ahead(n) = A \o Y
    BY DEF A
  <2>6. Ahead(n - 1) = (<<X[n]>> \o A) \o Y
    BY <2>2, <2>3
  <2> QED BY <2>4, <2>5, <2>6
<1> DEFINE T == {n \in 0 .. N : EventPieces(f[n], k, Ahead(n), end)}
<1>5. 0 \in T
  <2>1. SubSeq(X, 0 + 1, N) = X
    BY <1>2
  <2>2. Ahead(0) = Plain(k, end)
    BY <2>1
  <2>3. EventPieces(Begun, k, Plain(k, end), end)
    BY NothingYet
  <2> HIDE DEF Ahead
  <2>8. EventPieces(f[0], k, Ahead(0), end)
    BY <1>2, <2>2, <2>3
  <2> QED BY <1>2, <2>8
<1>6. ASSUME NEW n \in 1 .. N, n - 1 \in T PROVE n \in T
  <2>1. X[n] \in Token /\ Ahead(n) \in Seq(Token) /\ n \in 0 .. N
    BY <1>3
  <2>2. EventPieces(f[n - 1], k, Ahead(n - 1), end)
    BY <1>6
  <2>3. EventPieces(f[n - 1], k, <<X[n]>> \o Ahead(n), end)
    BY <1>4, <2>2
  <2> HIDE DEF Ahead
  <2>4. EventPieces(Fed(f[n - 1], X[n]), k, Ahead(n), end)
    BY <2>1, <2>3, FedEvents
  <2> QED BY <1>2, <2>1, <2>4
<1>7. EventPieces(f[N], k, Ahead(N), end)
  <2>1. N \in 0 .. N
    BY <1>2
  <2>2. N \in T
    <3> HIDE DEF T, N
    <3> QED BY <1>2, <1>5, <1>6, <2>1, UpTo
  <2> QED BY <2>2
<1>8. Ahead(N) = Y
  <2>1. SubSeq(X, N + 1, N) = <<>>
    BY <1>2, SubSeqEmpty
  <2>2. <<>> \o Y = Y
    OBVIOUS
  <2> QED BY <2>1, <2>2
<1> QED BY <1>1, <1>7, <1>8

LEMMA PieceTypes ==
  ASSUME NEW text \in Seq(Token)
  PROVE  NormalizeLineEnds(text) \in Seq(Token) /\ SplitAtBlankLines(text) \in Pieces(Token)
<1>1. LF \in Token /\ Len(text) \in 0 .. Len(text)
  BY DEF Token
<1>2. NormalizeLineEnds(text) \in Seq(Token)
  <2>1. PICK f : Normalizes(f, text, Token) /\ NormalizeLineEnds(text) = f[Len(text)]
    BY <1>1, NormalIs
  <2> QED BY <1>1, <2>1 DEF Normalizes
<1>3. SplitAtBlankLines(text) \in Pieces(Token)
  <2>1. PICK f : Splits(f, text, Token) /\ SplitAtBlankLines(text) = f[Len(text)]
    BY SplitIs
  <2> QED BY <1>1, <2>1 DEF Splits
<1> QED BY <1>2, <1>3
--------------------------------------------------------------------------------
(***************************************************************************)
(* What is taken from the lines of a piece.                                *)
(***************************************************************************)
LEMMA MaxIn ==
  ASSUME NEW N \in Nat, NEW T \in SUBSET (1 .. N), T # {}
  PROVE  Max(T) \in T
<1> DEFINE above == {k \in 0 .. N : \A i \in T : i <= k}
<1>1. PICK m \in above : \A k \in above : m <= k
  <2>1. above \in SUBSET Nat /\ N \in above
    OBVIOUS
  <2> HIDE DEF above
  <2> QED BY <2>1, SmallestNat
<1>2. m \in T
  <2> SUFFICES ASSUME m \notin T PROVE FALSE
    OBVIOUS
  <2>1. \A i \in T : i < m /\ i \in Nat
    BY <1>1
  <2>2. m # 0 /\ m \in Nat
    <3>1. PICK i \in T : TRUE
      OBVIOUS
    <3> QED BY <2>1, <3>1
  <2>3. m - 1 \in above
    BY <2>1, <2>2
  <2> QED BY <1>1, <2>2, <2>3
<1>3. \E x \in T : \A y \in T : x >= y
  BY <1>1, <1>2
<1> QED BY <1>3 DEF Max

LEMMA LastOfIs ==
  ASSUME NEW lines \in Seq(Token), NEW at \in SUBSET DOMAIN lines, NEW before, NEW S,
         before \in S, \A i \in at : lines[i][2] \in S
  PROVE  LastOf(lines, at, before) \in S
<1>1. CASE at = {}
  BY <1>1 DEF LastOf
<1>2. CASE at # {}
  <2>1. at \in SUBSET (1 .. Len(lines)) /\ Len(lines) \in Nat
    OBVIOUS
  <2>2. Max(at) \in at
    BY <1>2, <2>1, MaxIn
  <2> QED BY <1>2, <2>2 DEF LastOf
<1> QED BY <1>1, <1>2

LEMMA IdsAndDelays ==
  ASSUME NEW lines \in Seq(Token)
  PROVE  /\ \A before \in 0 .. Size : LastOf(lines, Named(lines, "id"), before) \in 0 .. Size
         /\ \A before \in Nat :
              LastOf(lines, {i \in Named(lines, "retry") : lines[i][2] # NaN}, before) \in Nat
<1>1. \A t \in Token : /\ t[1] = "id" => t[2] \in 0 .. Size
                       /\ t[1] = "retry" => t[2] \in Nat \cup {NaN}
  BY LogIs DEF Token, GoodLine, LF, CR
<1>2. \A i \in DOMAIN lines : lines[i] \in Token
  OBVIOUS
<1> HIDE DEF Token
<1>3. ASSUME NEW before \in 0 .. Size
      PROVE  LastOf(lines, Named(lines, "id"), before) \in 0 .. Size
  <2>1. \A i \in Named(lines, "id") : lines[i][2] \in 0 .. Size
    BY <1>1, <1>2 DEF Named
  <2>2. Named(lines, "id") \in SUBSET DOMAIN lines
    BY DEF Named
  <2> QED BY <2>1, <2>2, LastOfIs
<1>4. ASSUME NEW before \in Nat
      PROVE  LastOf(lines, {i \in Named(lines, "retry") : lines[i][2] # NaN}, before) \in Nat
  <2> DEFINE at == {i \in Named(lines, "retry") : lines[i][2] # NaN}
  <2>1. \A i \in at : lines[i][2] \in Nat
    BY <1>1, <1>2 DEF Named
  <2>2. at \in SUBSET DOMAIN lines
    BY DEF Named
  <2> HIDE DEF at
  <2>3. LastOf(lines, at, before) \in Nat
    BY <2>1, <2>2, LastOfIs
  <2> QED BY <2>3 DEF at
<1> QED BY <1>3, <1>4

LEMMA ChunkShape ==
  ASSUME NEW end \in {LF, CR}, NEW e \in 1 .. Size
  PROVE  LET c == Chunk(e, end)
             n == Len(Log[e])
         IN  /\ c \in Seq(Token) /\ Len(c) = 2 * n - 1
             /\ \A j \in 1 .. n : c[2 * j - 1] = Log[e][j]
             /\ \A j \in 1 .. n - 1 : c[2 * j] = LF
<1> DEFINE c == Chunk(e, end)
           n == Len(Log[e])
           w == EventText(e, end)
<1>1. /\ w \in Seq(Token) /\ Len(w) = 2 * n + 1
      /\ \A j \in 1 .. n : w[2 * j - 1] = Log[e][j] /\ w[2 * j] = LF
  BY EventShape
<1>2. n \in Nat \ {0}
  BY LogIs
<1> HIDE DEF w, n
<1>3. c = SubSeq(w, 1, 2 * n - 1)
  BY DEF Chunk, w, n
<1> HIDE DEF c
<1>4. c \in Seq(Token) /\ Len(c) = 2 * n - 1 /\ \A i \in 1 .. 2 * n - 1 : c[i] = w[i]
  <2>1. 2 * n - 1 \in 0 .. Len(w)
    BY <1>1, <1>2
  <2> QED BY <1>1, <1>3, <2>1
<1>5. ASSUME NEW j \in 1 .. n PROVE c[2 * j - 1] = Log[e][j]
  <2>1. 2 * j - 1 \in 1 .. 2 * n - 1
    BY <1>2
  <2> QED BY <1>1, <1>4, <2>1
<1>6. ASSUME NEW j \in 1 .. n - 1 PROVE c[2 * j] = LF
  <2>1. 2 * j \in 1 .. 2 * n - 1 /\ j \in 1 .. n
    BY <1>2
  <2> QED BY <1>1, <1>4, <2>1
<1> QED BY <1>4, <1>5, <1>6 DEF c, n

LEMMA ChunkId ==
  ASSUME NEW end \in {LF, CR}, NEW e \in 1 .. Size, NEW before
  PROVE  LastOf(Chunk(e, end), Named(Chunk(e, end), "id"), before) = e
<1> DEFINE c == Chunk(e, end)
           n == Len(Log[e])
           at == Named(c, "id")
<1>1. /\ c \in Seq(Token) /\ Len(c) = 2 * n - 1 /\ n \in Nat
      /\ \A j \in 1 .. n : c[2 * j - 1] = Log[e][j]
      /\ \A j \in 1 .. n - 1 : c[2 * j] = LF
  BY ChunkShape, LogIs
<1>2. /\ \A j \in 1 .. n : Log[e][j][1] = "id" => Log[e][j] = <<"id", e>>
      /\ \E j \in 1 .. n : Log[e][j] = <<"id", e>>
  BY LogIs
<1> HIDE DEF c, n
<1>3. DOMAIN c = 1 .. 2 * n - 1
  BY <1>1
<1>4. ASSUME NEW i \in at PROVE c[i][2] = e
  <2>1. i \in 1 .. 2 * n - 1 /\ c[i][1] = "id"
    BY <1>3 DEF Named
  <2>2. PICK j \in 1 .. n : i = 2 * j - 1 \/ i = 2 * j
    <3>1. i \in 1 .. 2 * n
      BY <1>1, <2>1
    <3> QED BY <1>1, <3>1, Halves
  <2>3. CASE i = 2 * j - 1
    <3>1. c[i] = Log[e][j]
      BY <1>1, <2>3
    <3>2. c[i] = <<"id", e>>
      BY <1>2, <2>1, <3>1
    <3> QED BY <3>2
  <2>4. CASE i = 2 * j
    <3>1. j \in 1 .. n - 1
      BY <1>1, <2>1, <2>4
    <3>2. c[i] = LF
      BY <1>1, <2>4, <3>1
    <3> QED BY <2>1, <3>2 DEF LF
  <2> QED BY <2>2, <2>3, <2>4
<1>5. at # {} /\ at \in SUBSET DOMAIN c
  <2>1. PICK j \in 1 .. n : Log[e][j] = <<"id", e>>
    BY <1>2
  <2>2. 2 * j - 1 \in 1 .. 2 * n - 1
    BY <1>1
  <2>3. c[2 * j - 1][1] = "id"
    BY <1>1, <2>1
  <2> QED BY <1>3, <2>2, <2>3 DEF Named
<1> HIDE DEF at
<1>6. Max(at) \in at
  <2>1. at \in SUBSET (1 .. Len(c)) /\ Len(c) \in Nat
    BY <1>1, <1>5
  <2> QED BY <1>5, <2>1, MaxIn
<1>7. LastOf(c, at, before) = e
  BY <1>4, <1>5, <1>6 DEF LastOf
<1> QED BY <1>7 DEF c, at

LEMMA ChunkData ==
  ASSUME NEW end \in {LF, CR}, NEW e \in 1 .. Size
  PROVE  DataOf(Chunk(e, end)) = DataOf(Log[e])
<1> DEFINE c == Chunk(e, end)
           event == Log[e]
           n == Len(event)
<1>1. /\ c \in Seq(Token) /\ Len(c) = 2 * n - 1
      /\ \A j \in 1 .. n : c[2 * j - 1] = event[j]
      /\ \A j \in 1 .. n - 1 : c[2 * j] = LF
  BY ChunkShape
<1>2. event \in Seq(Token) /\ n \in Nat \ {0}
  BY LogIs
<1>3. PICK f : Collects(f, c) /\ DataOf(c) = f[Len(c)]
  BY <1>1, DataIs
<1>4. PICK g : Collects(g, event) /\ DataOf(event) = g[n]
  BY <1>2, DataIs
<1> HIDE DEF c, event
<1>5. f[0] = <<>> /\ g[0] = <<>>
  BY <1>3, <1>4 DEF Collects
<1>6. \A i \in 1 .. 2 * n - 1 : f[i] = IF c[i][1] = "data" THEN Append(f[i - 1], c[i][2]) ELSE f[i - 1]
  BY <1>1, <1>3 DEF Collects
<1>7. \A j \in 1 .. n : g[j] = IF event[j][1] = "data" THEN Append(g[j - 1], event[j][2]) ELSE g[j - 1]
  BY <1>4 DEF Collects
<1> HIDE DEF n
<1> DEFINE T == {j \in 0 .. n : j # 0 => f[2 * j - 1] = g[j]}
<1>8. 0 \in T
  BY <1>2
<1>9. ASSUME NEW j \in 1 .. n, j - 1 \in T PROVE j \in T
  <2>1. f[2 * j - 2] = g[j - 1]
    <3>1. CASE j = 1
      BY <1>5, <3>1
    <3>2. CASE j # 1
      <4>1. j - 1 \in 1 .. n - 1 /\ 2 * j - 2 \in 1 .. 2 * n - 1 /\ 2 * (j - 1) = 2 * j - 2
            /\ 2 * (j - 1) - 1 = 2 * j - 2 - 1
        BY <1>2, <3>2
      <4>2. c[2 * j - 2][1] # "data"
        <5>1. c[2 * j - 2] = LF
          BY <1>1, <4>1
        <5> QED BY <5>1 DEF LF
      <4>3. f[2 * j - 2] = f[2 * j - 2 - 1]
        BY <1>6, <4>1, <4>2
      <4>4. f[2 * (j - 1) - 1] = g[j - 1]
        BY <1>9, <4>1
      <4> QED BY <4>1, <4>3, <4>4
    <3> QED BY <3>1, <3>2
  <2>2. 2 * j - 1 \in 1 .. 2 * n - 1 /\ 2 * j - 1 - 1 = 2 * j - 2 /\ j \in 0 .. n
    BY <1>2
  <2>3. f[2 * j - 1] = g[j]
    BY <1>1, <1>6, <1>7, <2>1, <2>2
  <2> QED BY <2>2, <2>3
<1>10. n \in T
  <2>1. n \in 0 .. n /\ n \in Nat
    BY <1>2
  <2> HIDE DEF T
  <2> QED BY <1>8, <1>9, <2>1, UpTo
<1>11. f[2 * n - 1] = g[n]
  BY <1>2, <1>10
<1> QED BY <1>1, <1>3, <1>4, <1>11 DEF c, event
--------------------------------------------------------------------------------
(***************************************************************************)
(* Pauses grow.  The last pause is at most the one the next failure would  *)
(* cause, if the delay stays.                                              *)
(***************************************************************************)
CallOK == call.eol \in LineEnds /\ call.rejects \subseteq JsonEvents
ReaderOK ==
  /\ lastEventId \in 0 .. Size /\ retryDelay \in Nat
  /\ buffer \in Seq(Token) /\ chunks \in Seq(Seq(Token)) /\ wire \in Seq(Token)
PauseOK ==
  /\ attempt \in Nat /\ slept.delay \in Nat /\ slept.wait \in 0 .. MaxDelay
  /\ pc \in {"fetch", "read", "dispatch", "yield", "sleep"} => attempt # 0
  /\ slept.wait # 0 => attempt # 0 /\ slept.wait <= Backoff(slept.delay, attempt)
BInv == CallOK /\ ReaderOK /\ PauseOK

LEMMA Bounds ==
  /\ JsonEvents \subseteq 1 .. Size /\ LineEnds \subseteq {"LF", "CR", "CRLF"}
  /\ DefaultDelay \in Nat /\ MaxDelay \in Nat
BY ServerSentEventsAssumption, LogIs

LEMMA InitBInv == Init => BInv
<1> SUFFICES ASSUME Init PROVE BInv
  OBVIOUS
<1>1. CallOK
  BY DEF Init, CallOK
<1>2. ReaderOK
  BY Bounds, LogIs DEF Init, ReaderOK
<1>3. PauseOK
  BY Bounds DEF Init, PauseOK
<1> QED BY <1>1, <1>2, <1>3 DEF BInv

Grows ==
  /\ slept'.wait \in 0 .. MaxDelay
  /\ slept.delay = slept'.delay => slept'.wait >= slept.wait

LEMMA CaughtIs ==
  ASSUME PauseOK, pc \in {"fetch", "read", "dispatch"}, NEW delay \in Nat,
         Caught(delay), attempt' = attempt
  PROVE  /\ PauseOK'
         /\ pc' \in {"finished", "sleep"}
         /\ pc' = "sleep" => Grows
<1>1. attempt \in Nat \ {0}
  BY DEF PauseOK
<1>2. CASE pc' = "finished" /\ UNCHANGED slept
  BY <1>2 DEF PauseOK
<1>3. CASE pc' = "sleep" /\ slept' = [wait |-> Backoff(delay, attempt), delay |-> delay]
  <2>1. slept'.wait = Backoff(delay, attempt) /\ slept'.delay = delay
    BY <1>3
  <2>2. Backoff(delay, attempt) \in 0 .. MaxDelay /\ MaxDelay \in Nat
    BY <1>1, BackoffIs, Bounds
  <2>3. PauseOK'
    BY <1>1, <2>1, <2>2 DEF PauseOK
  <2>4. slept.delay = slept'.delay => slept'.wait >= slept.wait
    BY <2>1, <2>2 DEF PauseOK
  <2> QED BY <1>3, <2>1, <2>2, <2>3, <2>4 DEF Grows
<1> QED BY <1>2, <1>3 DEF Caught

LEMMA SameReader ==
  ASSUME ReaderOK, UNCHANGED <<retryDelay, lastEventId, reading>>
  PROVE  ReaderOK'
BY DEF ReaderOK, reading

LEMMA SamePause ==
  ASSUME PauseOK, UNCHANGED <<attempt, slept>>,
         pc' \in {"fetch", "read", "dispatch", "yield", "sleep"} =>
           pc \in {"fetch", "read", "dispatch", "yield", "sleep"}
  PROVE  PauseOK'
BY DEF PauseOK

LEMMA TakenOver ==
  ASSUME ReaderOK, NEW lines \in Seq(Token)
  PROVE  NextEventId(lines) \in 0 .. Size /\ NextDelay(lines) \in Nat
BY IdsAndDelays DEF ReaderOK, NextEventId, NextDelay

LEMMA FirstChunk ==
  ASSUME ReaderOK, chunks # <<>>
  PROVE  Head(chunks) \in Seq(Token) /\ Tail(chunks) \in Seq(Seq(Token))
<1> DEFINE S == Seq(Token)
<1>1. chunks \in Seq(S)
  BY DEF ReaderOK
<1> HIDE DEF S
<1>2. Head(chunks) \in S /\ Tail(chunks) \in Seq(S)
  BY <1>1
<1> QED BY <1>2 DEF S

LEMMA EndType == CallOK => LineEnd(call.eol) \in Seq(Token)
<1> SUFFICES ASSUME CallOK PROVE LineEnd(call.eol) \in Seq(Token)
  OBVIOUS
<1>1. LF \in Token /\ CR \in Token
  BY DEF Token
<1> HIDE DEF Token
<1>2. <<LF>> \in Seq(Token) /\ <<CR>> \in Seq(Token) /\ <<CR, LF>> \in Seq(Token)
  BY <1>1
<1>3. call.eol \in {"LF", "CR", "CRLF"}
  BY Bounds DEF CallOK
<1> QED BY <1>2, <1>3 DEF LineEnd

(* A chunk of the response leaves good pieces. *)
LEMMA Received ==
  ASSUME ReaderOK, NEW n \in 1 .. Len(wire)
  PROVE  /\ SubSeq(wire, 1, n) \in Seq(Token) /\ SubSeq(wire, n + 1, Len(wire)) \in Seq(Token)
         /\ wire = SubSeq(wire, 1, n) \o SubSeq(wire, n + 1, Len(wire))
         /\ buffer \o SubSeq(wire, 1, n) \in Seq(Token)
         /\ SplitAtBlankLines(NormalizeLineEnds(buffer \o SubSeq(wire, 1, n))) \in Pieces(Token)
<1> DEFINE N == Len(wire)
           a == SubSeq(wire, 1, n)
           b == SubSeq(wire, n + 1, N)
<1>1. wire \in Seq(Token) /\ buffer \in Seq(Token) /\ N \in Nat
  BY DEF ReaderOK
<1>2. a \in Seq(Token) /\ Len(a) = n /\ \A i \in 1 .. n : a[i] = wire[i]
  <2>1. n \in 0 .. Len(wire)
    OBVIOUS
  <2> QED BY <1>1, <2>1
<1>3. b \in Seq(Token) /\ Len(b) = N - n /\ \A i \in 1 .. N - n : b[i] = wire[n + i]
  <2> DEFINE S == Token
             w == wire
  <2> HIDE DEF S, w
  <2>1. w \in Seq(S) /\ Len(w) = N
    BY <1>1 DEF S, w
  <2>2. \A i \in n + 1 .. N : w[i] \in S
    BY <1>1, <2>1
  <2>3. SubSeq(w, n + 1, N) \in Seq(S) /\ Len(SubSeq(w, n + 1, N)) = N - n
    BY <1>1, <2>1, <2>2, SubSeqProperties
  <2>4. \A i \in 1 .. N - n : SubSeq(w, n + 1, N)[i] = w[n + i]
    <3> SUFFICES ASSUME NEW i \in 1 .. N - n PROVE SubSeq(w, n + 1, N)[i] = w[n + i]
      OBVIOUS
    <3>1. i + (n + 1) - 1 = n + i
      BY <1>1
    <3> QED BY <1>1, <2>1, <2>2, <3>1, SubSeqProperties
  <2> QED BY <2>3, <2>4 DEF S, w
<1> HIDE DEF a, b, N
<1>4. wire = a \o b
  <2> DEFINE c == a \o b
  <2>1. /\ c \in Seq(Token) /\ Len(c) = Len(a) + Len(b)
        /\ \A i \in 1 .. Len(a) : c[i] = a[i]
        /\ \A i \in 1 .. Len(b) : c[Len(a) + i] = b[i]
    <3>1. a \in Seq(Token) /\ b \in Seq(Token)
      BY <1>2, <1>3
    <3> QED BY <3>1, Joined
  <2> HIDE DEF c
  <2>2. Len(c) = Len(wire)
    BY <1>1, <1>2, <1>3, <2>1 DEF N
  <2>3. ASSUME NEW i \in 1 .. Len(wire) PROVE wire[i] = c[i]
    <3>1. CASE i <= n
      <4>1. i \in 1 .. n
        BY <1>1, <3>1
      <4> QED BY <1>2, <2>1, <4>1
    <3>2. CASE ~ (i <= n)
      <4>1. i - n \in 1 .. N - n /\ n + (i - n) = i
        BY <1>1, <3>2 DEF N
      <4> QED BY <1>2, <1>3, <2>1, <4>1
    <3> QED BY <3>1, <3>2
  <2>4. \A i \in 1 .. Len(wire) : wire[i] = c[i]
    BY <2>3
  <2>5. wire = c
    BY <1>1, <2>1, <2>2, <2>4, SameSeq
  <2> QED BY <2>5 DEF c
<1>5. buffer \o a \in Seq(Token)
  BY <1>1, <1>2, Joined
<1>6. SplitAtBlankLines(NormalizeLineEnds(buffer \o a)) \in Pieces(Token)
  BY <1>5, PieceTypes
<1> QED BY <1>2, <1>3, <1>4, <1>5, <1>6 DEF a, b, N

LEMMA StepBInv ==
  ASSUME BInv, [Next]_vars
  PROVE  /\ BInv'
         /\ pc # "sleep" /\ pc' = "sleep" => Grows
<1> USE DEF BInv
<1>1. CallOK'
  <2>1. call' = call
    BY DEF Next, vars, StartAttempt, Connect, FetchFails, Receive, ServerCloses, ConnectionFails,
           ReadAborted, Dispatch, DispatchRejected, ChunkDone, Pull, Wake, Return, Abort
  <2> QED BY <2>1 DEF CallOK
<1>2. CASE StartAttempt
  <2>1. ReaderOK'
    BY <1>2, SameReader DEF StartAttempt
  <2>2. CASE attempt' = attempt
    <3>1. PauseOK'
      BY <1>2, <2>2, SamePause DEF StartAttempt, PauseOK
    <3> QED BY <1>1, <1>2, <2>1, <3>1 DEF StartAttempt
  <2>3. CASE attempt' = attempt + 1
    <3>1. slept' = slept /\ pc' \in {"fetch", "finished"}
      BY <1>2 DEF StartAttempt
    <3>2. slept.wait # 0 => slept.wait <= Backoff(slept.delay, attempt + 1)
      <4> SUFFICES ASSUME slept.wait # 0 PROVE slept.wait <= Backoff(slept.delay, attempt + 1)
        OBVIOUS
      <4>1. attempt \in Nat \ {0} /\ slept.delay \in Nat /\ slept.wait <= Backoff(slept.delay, attempt)
        BY DEF PauseOK
      <4>2. /\ Backoff(slept.delay, attempt) \in 0 .. MaxDelay
            /\ Backoff(slept.delay, attempt) <= Backoff(slept.delay, attempt + 1)
            /\ Backoff(slept.delay, attempt + 1) \in 0 .. MaxDelay
        <5>1. attempt + 1 \in Nat \ {0}
          BY <4>1
        <5>2. Backoff(slept.delay, attempt + 1) \in 0 .. MaxDelay
          BY <4>1, <5>1, BackoffIs
        <5> QED BY <4>1, <5>2, BackoffIs
      <4>3. slept.wait \in 0 .. MaxDelay /\ MaxDelay \in Nat
        BY Bounds DEF PauseOK
      <4> QED BY <4>1, <4>2, <4>3
    <3>3. PauseOK'
      BY <2>3, <3>1, <3>2 DEF PauseOK
    <3> QED BY <1>1, <2>1, <3>1, <3>3
  <2> QED BY <1>2, <2>2, <2>3 DEF StartAttempt
<1>3. CASE Connect
  <2>1. ReaderOK'
    <3>1. TextAfter(lastEventId, LineEnd(call.eol)) \in Seq(Token)
      BY EndType, TextAfterType DEF ReaderOK
    <3>2. <<>> \in Seq(Token) /\ <<>> \in Seq(Seq(Token))
      OBVIOUS
    <3> QED BY <1>3, <3>1, <3>2 DEF Connect, ReaderOK
  <2>2. PauseOK'
    BY <1>3, SamePause DEF Connect
  <2> QED BY <1>1, <1>3, <2>1, <2>2 DEF Connect
<1>4. CASE FetchFails
  <2>1. ReaderOK'
    BY <1>4, SameReader DEF FetchFails
  <2> QED BY <1>1, <1>4, <2>1, CaughtIs DEF FetchFails, ReaderOK
<1>5. CASE Receive
  <2>1. PICK n \in 1 .. Len(wire) :
          /\ TakePieces(SplitAtBlankLines(NormalizeLineEnds(buffer \o SubSeq(wire, 1, n))))
          /\ wire' = SubSeq(wire, n + 1, Len(wire))
    BY <1>5 DEF Receive
  <2> DEFINE pieces == SplitAtBlankLines(NormalizeLineEnds(buffer \o SubSeq(wire, 1, n)))
  <2>2. pieces \in Pieces(Token) /\ SubSeq(wire, n + 1, Len(wire)) \in Seq(Token)
    BY Received
  <2>3. buffer' = pieces.rest /\ chunks' = pieces.whole
    BY <2>1 DEF TakePieces
  <2> HIDE DEF pieces
  <2>4. ReaderOK'
    BY <1>5, <2>1, <2>2, <2>3 DEF Receive, ReaderOK, Pieces
  <2>5. PauseOK'
    BY <1>5, SamePause DEF Receive
  <2> QED BY <1>1, <1>5, <2>4, <2>5 DEF Receive
<1>6. CASE ServerCloses \/ Return
  <2>1. ReaderOK' /\ PauseOK'
    BY <1>6, SameReader, SamePause DEF ServerCloses, Return
  <2> QED BY <1>1, <1>6, <2>1 DEF ServerCloses, Return
<1>7. CASE ConnectionFails
  <2>1. ReaderOK'
    BY <1>7, SameReader DEF ConnectionFails
  <2> QED BY <1>1, <1>7, <2>1, CaughtIs DEF ConnectionFails, ReaderOK
<1>8. CASE ReadAborted
  <2>1. ReaderOK'
    BY <1>8, SameReader DEF ReadAborted
  <2>2. CASE pc' = "finished" /\ UNCHANGED slept
    <3>1. PauseOK'
      BY <1>8, <2>2, SamePause DEF ReadAborted
    <3> QED BY <1>1, <2>1, <2>2, <3>1
  <2>3. CASE Caught(retryDelay)
    BY <1>1, <1>8, <2>1, <2>3, CaughtIs DEF ReadAborted, ReadCancelled, ReaderOK
  <2> QED BY <1>8, <2>2, <2>3 DEF ReadAborted
<1>9. CASE Dispatch
  <2>1. /\ chunks # <<>> /\ chunks' = Tail(chunks) /\ UNCHANGED <<buffer, wire, attempt, slept>>
        /\ lastEventId' = NextEventId(Head(chunks)) /\ retryDelay' = NextDelay(Head(chunks))
        /\ pc = "dispatch" /\ pc' \in {"dispatch", "yield"}
    BY <1>9 DEF Dispatch
  <2>2. ReaderOK'
    BY <2>1, FirstChunk, TakenOver DEF ReaderOK
  <2>3. PauseOK'
    BY <2>1, SamePause
  <2> QED BY <1>1, <2>1, <2>2, <2>3
<1>10. CASE DispatchRejected
  <2>1. /\ chunks # <<>> /\ UNCHANGED <<reading, attempt>>
        /\ lastEventId' = NextEventId(Head(chunks)) /\ retryDelay' = NextDelay(Head(chunks))
        /\ pc = "dispatch" /\ Caught(retryDelay')
    BY <1>10 DEF DispatchRejected
  <2>2. ReaderOK'
    BY <2>1, FirstChunk, TakenOver DEF ReaderOK, reading
  <2>3. retryDelay' \in Nat
    BY <2>2 DEF ReaderOK
  <2>4. PauseOK' /\ (pc' = "sleep" => Grows)
    BY <2>1, <2>3, CaughtIs
  <2> QED BY <1>1, <2>2, <2>4
<1>11. CASE ChunkDone \/ Pull \/ Wake
  <2>1. ReaderOK'
    BY <1>11, SameReader DEF ChunkDone, Pull, Wake
  <2>2. PauseOK'
    BY <1>11, SamePause DEF ChunkDone, Pull, Wake
  <2> QED BY <1>1, <1>11, <2>1, <2>2 DEF ChunkDone, Pull, Wake
<1>12. CASE Abort \/ UNCHANGED vars
  <2>1. UNCHANGED <<retryDelay, lastEventId, reading, attempt, slept, pc>>
    BY <1>12 DEF Abort, vars
  <2>2. ReaderOK' /\ PauseOK'
    BY <2>1, SameReader, SamePause
  <2> QED BY <1>1, <2>1, <2>2
<1> QED BY <1>2, <1>3, <1>4, <1>5, <1>6, <1>7, <1>8, <1>9, <1>10, <1>11, <1>12 DEF Next

(* However many attempts there are, and whatever succeeds or changes in between,
   a pause is within its cap and at least the last one, as long as the delay
   stays. *)
THEOREM PausesGrow == Spec => BackoffGrows
<1>1. BInv /\ [Next]_vars => BInv'
  BY StepBInv
<1>2. BInv /\ [Next]_vars =>
        [pc # "sleep" /\ pc' = "sleep" =>
           /\ slept'.wait \in 0 .. MaxDelay
           /\ slept.delay = slept'.delay => slept'.wait >= slept.wait]_vars
  BY StepBInv DEF Grows
<1> QED BY InitBInv, <1>1, <1>2, PTL DEF Spec, BackoffGrows
--------------------------------------------------------------------------------
(***************************************************************************)
(* The reader gets the events of the log whole, in order and once.  While  *)
(* it reads, its chunks and its buffer are the pieces of a text that began *)
(* after its last event and goes on with what is on the wire.              *)
(***************************************************************************)
EndOf(eol) == IF eol = "LF" THEN LF ELSE CR
OneEnd(text, end) == \A i \in 1 .. Len(text) : text[i] \in {LF, CR} => text[i] = end

Delivery == [data : Seq(Int), id : Int]
TextOK ==
  pc \in {"read", "dispatch", "yield"} =>
    /\ EventPieces([whole |-> chunks, rest |-> buffer], lastEventId, Feeds(wire), EndOf(call.eol))
    /\ OneEnd(wire, EndOf(call.eol))
    /\ pc = "read" => chunks = <<>>
RInv == CallOK /\ ReaderOK /\ TextOK /\ delivered \in Seq(Delivery)

LEMMA OneCharacter ==
  ASSUME "CRLF" \notin LineEnds, CallOK
  PROVE  EndOf(call.eol) \in {LF, CR} /\ LineEnd(call.eol) = <<EndOf(call.eol)>>
<1>1. call.eol \in {"LF", "CR"}
  BY Bounds DEF CallOK
<1> QED BY <1>1 DEF EndOf, LineEnd

LEMMA OneEndIs ==
  ASSUME NEW end \in {LF, CR}, NEW text \in Seq(GoodLine \cup {end})
  PROVE  OneEnd(text, end)
<1> SUFFICES ASSUME NEW i \in 1 .. Len(text), text[i] \in {LF, CR} PROVE text[i] = end
  BY DEF OneEnd
<1>1. text[i] \in GoodLine \cup {end}
  OBVIOUS
<1>2. text[i] \notin GoodLine
  BY DEF GoodLine, Line, LF, CR
<1> QED BY <1>1, <1>2

LEMMA TextAfterEnds ==
  ASSUME NEW end \in {LF, CR}, NEW k \in 0 .. Size
  PROVE  OneEnd(TextAfter(k, <<end>>), end)
<1> DEFINE S == GoodLine \cup {end}
<1>1. \A e \in DOMAIN Log : Log[e] \in Seq(S)
  BY LogIs
<1>2. end \in S
  OBVIOUS
<1> HIDE DEF S
<1>3. <<end>> \in Seq(S)
  BY <1>2
<1>4. \A e \in DOMAIN Log : TextOf(Log[e], <<end>>) \in Seq(S)
  BY <1>1, <1>3, TextType
<1>5. PICK f : Sends(f, Len(Log) - k, <<end>>, S) /\ TextAfter(k, <<end>>) = f[Len(Log) - k]
  BY <1>4, TextAfterIs DEF Size
<1>6. Len(Log) - k \in 0 .. Len(Log) - k
  BY LogIs DEF Size
<1>7. TextAfter(k, <<end>>) \in Seq(S)
  BY <1>5, <1>6 DEF Sends
<1> QED BY <1>7, OneEndIs DEF S

LEMMA Both ==
  ASSUME NEW end, NEW a \in Seq(Token), NEW b \in Seq(Token), OneEnd(a \o b, end)
  PROVE  OneEnd(a, end) /\ OneEnd(b, end)
<1>1. /\ Len(a \o b) = Len(a) + Len(b)
      /\ \A i \in 1 .. Len(a) : (a \o b)[i] = a[i]
      /\ \A i \in 1 .. Len(b) : (a \o b)[Len(a) + i] = b[i]
  BY Joined
<1>2. Len(a) \in Nat /\ Len(b) \in Nat
  OBVIOUS
<1>3. ASSUME NEW i \in 1 .. Len(a), a[i] \in {LF, CR} PROVE a[i] = end
  <2>1. i \in 1 .. Len(a \o b)
    BY <1>1, <1>2
  <2> QED BY <1>1, <1>3, <2>1 DEF OneEnd
<1>4. ASSUME NEW i \in 1 .. Len(b), b[i] \in {LF, CR} PROVE b[i] = end
  <2>1. Len(a) + i \in 1 .. Len(a \o b)
    BY <1>1, <1>2
  <2> QED BY <1>1, <1>4, <2>1 DEF OneEnd
<1> QED BY <1>3, <1>4 DEF OneEnd

(* Of a normalized beginning nothing changes, and after it a carriage return
   and a line feed cannot meet where all line ends are the same. *)
LEMMA NormalAgain ==
  ASSUME NEW end \in {LF, CR}, NEW a \in Seq(Token), NEW b \in Seq(Token),
         \A i \in 1 .. Len(a) : a[i] # CR, OneEnd(b, end)
  PROVE  Feeds(a) = a /\ NormalizeLineEnds(a \o b) = Feeds(a \o b)
<1>1. Feeds(a) = a
  <2>1. Feeds(a) \in Seq(Token) /\ Len(Feeds(a)) = Len(a) /\ \A i \in 1 .. Len(a) : Feeds(a)[i] = a[i]
    BY FeedsType DEF Feed
  <2> QED BY <2>1, SameSeq
<1>2. /\ a \o b \in Seq(Token) /\ Len(a \o b) = Len(a) + Len(b)
      /\ \A i \in 1 .. Len(a) : (a \o b)[i] = a[i]
      /\ \A i \in 1 .. Len(b) : (a \o b)[Len(a) + i] = b[i]
  BY Joined
<1>3. Len(a) \in Nat /\ Len(b) \in Nat
  OBVIOUS
<1>4. ASSUME NEW n \in 2 .. Len(a \o b), (a \o b)[n] = LF, (a \o b)[n - 1] = CR PROVE FALSE
  <2>1. ~ (n - 1 \in 1 .. Len(a))
    BY <1>2, <1>4
  <2>2. /\ n - 1 - Len(a) \in 1 .. Len(b) /\ Len(a) + (n - 1 - Len(a)) = n - 1
        /\ n - Len(a) \in 1 .. Len(b) /\ Len(a) + (n - Len(a)) = n
    BY <1>2, <1>3, <2>1
  <2>3. b[n - 1 - Len(a)] = CR /\ b[n - Len(a)] = LF
    BY <1>2, <1>4, <2>2
  <2>4. CR = end /\ LF = end
    BY <2>2, <2>3 DEF OneEnd
  <2> QED BY <2>4 DEF LF, CR
<1> QED BY <1>1, <1>2, <1>4, NormalText

LEMMA ReadOn ==
  ASSUME "CRLF" \notin LineEnds, RInv, pc = "read", NEW n \in 1 .. Len(wire)
  PROVE  LET text == buffer \o SubSeq(wire, 1, n)
             unread == SubSeq(wire, n + 1, Len(wire))
         IN  /\ EventPieces(SplitAtBlankLines(NormalizeLineEnds(text)), lastEventId, Feeds(unread),
                            EndOf(call.eol))
             /\ OneEnd(unread, EndOf(call.eol))
<1> DEFINE end == EndOf(call.eol)
           a == SubSeq(wire, 1, n)
           b == SubSeq(wire, n + 1, Len(wire))
           k == lastEventId
<1>1. end \in {LF, CR}
  BY OneCharacter DEF RInv
<1>2. /\ a \in Seq(Token) /\ b \in Seq(Token) /\ wire = a \o b
      /\ buffer \in Seq(Token) /\ wire \in Seq(Token) /\ k \in 0 .. Size
  BY Received DEF RInv, ReaderOK
<1>3. /\ EventPieces([whole |-> <<>>, rest |-> buffer], k, Feeds(wire), end)
      /\ OneEnd(wire, end)
  BY DEF RInv, TextOK
<1> HIDE DEF end, a, b, k
<1>4. OneEnd(a, end) /\ OneEnd(b, end)
  BY <1>2, <1>3, Both
<1>5. buffer \o Feeds(wire) = Plain(k, end)
  BY <1>2, <1>3 DEF EventPieces
<1>6. /\ Feeds(wire) \in Seq(Token) /\ Feeds(a) \in Seq(Token) /\ Feeds(b) \in Seq(Token)
      /\ buffer \o a \in Seq(Token) /\ Feeds(buffer \o a) \in Seq(Token)
  <2>1. buffer \o a \in Seq(Token)
    BY <1>2, Joined
  <2> QED BY <1>2, <2>1, FeedsType
<1>7. \A i \in 1 .. Len(buffer) : buffer[i] # CR
  <2> SUFFICES ASSUME NEW i \in 1 .. Len(buffer) PROVE buffer[i] # CR
    OBVIOUS
  <2>1. /\ Len(buffer \o Feeds(wire)) = Len(buffer) + Len(Feeds(wire))
        /\ (buffer \o Feeds(wire))[i] = buffer[i]
    BY <1>2, <1>6, Joined
  <2>2. i \in 1 .. Len(Plain(k, end))
    <3>1. Len(buffer) \in Nat /\ Len(Feeds(wire)) \in Nat
      BY <1>2, <1>6
    <3> QED BY <1>5, <2>1, <3>1
  <2>3. TextAfter(k, <<end>>) \in Seq(Token)
    <3>1. end \in Token
      BY <1>1 DEF Token
    <3>2. <<end>> \in Seq(Token)
      BY <3>1
    <3> QED BY <1>2, <3>2, TextAfterType
  <2>4. Plain(k, end)[i] # CR
    <3> DEFINE text == TextAfter(k, <<end>>)
    <3> HIDE DEF text
    <3>1. text \in Seq(Token) /\ Plain(k, end) = Feeds(text)
      BY <2>3 DEF text, Plain
    <3>2. Len(Feeds(text)) = Len(text) /\ \A j \in 1 .. Len(text) : Feeds(text)[j] # CR
      BY <3>1, FeedsType
    <3> QED BY <2>2, <3>1, <3>2
  <2> QED BY <1>5, <2>1, <2>4
<1>8. Feeds(buffer) = buffer /\ NormalizeLineEnds(buffer \o a) = Feeds(buffer \o a)
  BY <1>1, <1>2, <1>4, <1>7, NormalAgain
<1>9. Feeds(buffer \o a) \o Feeds(b) = Plain(k, end)
  <2>1. Feeds(buffer \o a) = buffer \o Feeds(a)
    BY <1>2, <1>8, FeedsConcat
  <2>2. Feeds(wire) = Feeds(a) \o Feeds(b)
    BY <1>2, FeedsConcat
  <2>3. (buffer \o Feeds(a)) \o Feeds(b) = buffer \o (Feeds(a) \o Feeds(b))
    <3> DEFINE fa == Feeds(a)
               fb == Feeds(b)
    <3>1. fa \in Seq(Token) /\ fb \in Seq(Token)
      BY <1>6
    <3> HIDE DEF fa, fb
    <3>2. (buffer \o fa) \o fb = buffer \o (fa \o fb)
      BY <1>2, <3>1
    <3> QED BY <3>2 DEF fa, fb
  <2> QED BY <1>5, <2>1, <2>2, <2>3
<1>10. EventPieces(SplitAtBlankLines(Feeds(buffer \o a)), k, Feeds(b), end)
  BY <1>1, <1>2, <1>6, <1>9, PrefixSplits
<1> QED BY <1>4, <1>8, <1>10 DEF end, a, b, k

LEMMA SameFields ==
  ASSUME NEW s, NEW k, NEW Y, NEW end, EventPieces(s, k, Y, end)
  PROVE  EventPieces([whole |-> s.whole, rest |-> s.rest], k, Y, end)
<1>1. [whole |-> s.whole, rest |-> s.rest] \in Pieces(Token)
  BY DEF EventPieces, Pieces
<1> DEFINE r == [whole |-> s.whole, rest |-> s.rest]
<1>2. r.whole = s.whole /\ r.rest = s.rest /\ r \in Pieces(Token)
  BY <1>1
<1> HIDE DEF r
<1>3. EventPieces(r, k, Y, end)
  BY <1>2 DEF EventPieces
<1> QED BY <1>3 DEF r

(* The chunk that is dispatched is the next event. *)
LEMMA NextEvent ==
  ASSUME "CRLF" \notin LineEnds, RInv, pc = "dispatch", chunks # <<>>
  PROVE  /\ lastEventId + 1 \in 1 .. Size
         /\ NextEventId(Head(chunks)) = lastEventId + 1
         /\ DataOf(Head(chunks)) = DataOf(Log[lastEventId + 1])
         /\ EventPieces([whole |-> Tail(chunks), rest |-> buffer], lastEventId + 1, Feeds(wire),
                        EndOf(call.eol))
<1> DEFINE end == EndOf(call.eol)
           e == lastEventId + 1
<1>1. end \in {LF, CR} /\ lastEventId \in 0 .. Size
  BY OneCharacter DEF RInv, ReaderOK
<1>2. EventPieces([whole |-> chunks, rest |-> buffer], lastEventId, Feeds(wire), end)
  BY DEF RInv, TextOK
<1> HIDE DEF end
<1>3. /\ e \in 1 .. Size /\ Head(chunks) = Chunk(e, end)
      /\ EventPieces([whole |-> Tail(chunks), rest |-> buffer], e, Feeds(wire), end)
  BY <1>1, <1>2, NextPiece
<1>4. NextEventId(Head(chunks)) = e
  BY <1>1, <1>3, ChunkId DEF NextEventId
<1>5. DataOf(Head(chunks)) = DataOf(Log[e])
  BY <1>1, <1>3, ChunkData
<1> QED BY <1>3, <1>4, <1>5 DEF end

(* Events are told apart by their data. *)
LEMMA Known ==
  ASSUME NEW e \in 1 .. Size, NEW delivery, delivery.data = DataOf(Log[e]), DataOf(Log[e]) # <<>>
  PROVE  /\ EventOf(delivery) = e
         /\ \A f \in 1 .. Size : DataOf(Log[f]) = delivery.data => f = e
<1>1. Events = 1 .. Size
  BY LogIs DEF Events
<1>2. \A f \in 1 .. Size : DataOf(Log[f]) = delivery.data => f = e
  BY <1>1, ServerSentEventsAssumption DEF Events
<1> QED BY <1>1, <1>2 DEF EventOf

LEMMA DataType ==
  ASSUME NEW e \in 1 .. Size
  PROVE  DataOf(Log[e]) \in Seq(Int)
<1>1. Log[e] \in Seq(Token)
  BY LogIs
<1>2. PICK f : Collects(f, Log[e]) /\ DataOf(Log[e]) = f[Len(Log[e])]
  BY <1>1, DataIs
<1>3. Len(Log[e]) \in 0 .. Len(Log[e])
  BY <1>1
<1> QED BY <1>2, <1>3 DEF Collects

LEMMA InitRInv == Init => RInv
<1> SUFFICES ASSUME Init PROVE RInv
  OBVIOUS
<1>1. CallOK /\ ReaderOK
  BY InitBInv DEF BInv
<1> QED BY <1>1 DEF Init, RInv, TextOK

(* The stream: nothing is handed over, and it may end. *)
LEMMA Unmoved ==
  ASSUME UNCHANGED <<call, lastEventId, delivered>>, pc = "finished" => pc' = "finished"
  PROVE  [Stream!Next]_(Stream!vars)
BY DEF Stream!Next, Stream!End, Stream!vars

LEMMA EventOfType ==
  ASSUME NEW delivery
  PROVE  EventOf(delivery) \in 0 .. Size
<1>1. Events = 1 .. Size /\ Size \in Nat
  BY LogIs DEF Events
<1>2. CASE \E e \in Events : DataOf(Log[e]) = delivery.data
  <2>1. (CHOOSE e \in Events : DataOf(Log[e]) = delivery.data) \in Events
    BY <1>2
  <2> QED BY <1>1, <1>2, <2>1 DEF EventOf
<1>3. CASE ~ \E e \in Events : DataOf(Log[e]) = delivery.data
  BY <1>1, <1>3 DEF EventOf
<1> QED BY <1>2, <1>3

(* An event that is handed over. *)
LEMMA HandedOver ==
  ASSUME RInv, lastEventId + 1 \in 1 .. Size, lastEventId' = lastEventId + 1,
         call' = call, pc # "finished", pc' # "finished",
         DataOf(Log[lastEventId + 1]) # <<>>, lastEventId + 1 \notin call.rejects,
         delivered' = Append(delivered, [data |-> DataOf(Log[lastEventId + 1]), id |-> lastEventId'])
  PROVE  delivered' \in Seq(Delivery) /\ [Stream!Next]_(Stream!vars)
<1> DEFINE e == lastEventId + 1
           d == [data |-> DataOf(Log[e]), id |-> e]
           out == [i \in DOMAIN delivered |-> EventOf(delivered[i])]
           more == [i \in DOMAIN delivered' |-> EventOf(delivered'[i])]
<1>1. e \in 1 .. Size /\ e \in Int /\ lastEventId \in 0 .. Size /\ Size \in Nat
  BY LogIs DEF RInv, ReaderOK
<1>2. d \in Delivery /\ delivered \in Seq(Delivery) /\ delivered' = Append(delivered, d)
  BY <1>1, DataType DEF RInv, Delivery
<1>3. EventOf(d) = e
  BY <1>1, Known
<1> HIDE DEF d
<1>4. /\ delivered' \in Seq(Delivery) /\ DOMAIN delivered' = 1 .. Len(delivered) + 1
      /\ DOMAIN delivered = 1 .. Len(delivered) /\ Len(delivered) \in Nat
      /\ \A i \in 1 .. Len(delivered) : delivered'[i] = delivered[i]
      /\ delivered'[Len(delivered) + 1] = d
  BY <1>2
<1>5. more = Append(out, e)
  <2>1. out \in Seq(0 .. Size) /\ Len(out) = Len(delivered)
    BY <1>4, EventOfType
  <2>2. more \in Seq(0 .. Size) /\ Len(more) = Len(delivered) + 1
    BY <1>4, EventOfType
  <2>3. \A i \in 1 .. Len(delivered) : out[i] = EventOf(delivered[i])
    BY <1>4
  <2>4. \A i \in 1 .. Len(delivered) + 1 : more[i] = EventOf(delivered'[i])
    BY <1>4
  <2> HIDE DEF out, more
  <2>5. e \in 0 .. Size
    BY <1>1
  <2>6. /\ Append(out, e) \in Seq(0 .. Size) /\ Len(Append(out, e)) = Len(out) + 1
        /\ \A i \in 1 .. Len(out) : Append(out, e)[i] = out[i]
        /\ Append(out, e)[Len(out) + 1] = e
    <3> HIDE DEF e
    <3> QED BY <2>1, <2>5, AppendProperties
  <2>7. ASSUME NEW i \in 1 .. Len(more) PROVE more[i] = Append(out, e)[i]
    <3>1. CASE i = Len(delivered) + 1
      BY <1>3, <1>4, <2>1, <2>4, <2>6, <3>1
    <3>2. CASE i # Len(delivered) + 1
      <4>1. i \in 1 .. Len(delivered)
        BY <1>4, <2>2, <3>2
      <4> QED BY <1>4, <2>1, <2>2, <2>3, <2>4, <2>6, <4>1
    <3> QED BY <3>1, <3>2
  <2> HIDE DEF e
  <2>8. Len(more) = Len(Append(out, e))
    BY <2>1, <2>2, <2>6
  <2> QED BY <2>2, <2>6, <2>7, <2>8, SameSeq
<1>6. e \notin call.rejects \cup {f \in Events : DataOf(Log[f]) = <<>>}
  OBVIOUS
<1>7. Stream!HandOver
  <2>1. (call.rejects \cup {f \in Events : DataOf(Log[f]) = <<>>})'
          = call.rejects \cup {f \in Events : DataOf(Log[f]) = <<>>}
    BY DEF Events
  <2>2. lastEventId < Len(Log)
    BY <1>1 DEF Size
  <2> HIDE DEF out, more
  <2>3. more = Append(out, lastEventId')
    BY <1>5
  <2> QED BY <1>6, <2>1, <2>2, <2>3 DEF Stream!HandOver, out, more
<1> QED BY <1>4, <1>7 DEF Stream!Next

(* An event without data, or one that is refused. *)
LEMMA Skipped ==
  ASSUME RInv, lastEventId + 1 \in 1 .. Size, lastEventId' = lastEventId + 1,
         UNCHANGED <<call, delivered>>, pc # "finished",
         DataOf(Log[lastEventId + 1]) = <<>> \/ lastEventId + 1 \in call.rejects
  PROVE  [Stream!Next]_(Stream!vars)
<1>1. lastEventId \in 0 .. Size /\ Size \in Nat /\ Events = 1 .. Size /\ lastEventId < Len(Log)
  BY LogIs DEF RInv, ReaderOK, Events, Size
<1>2. lastEventId + 1 \in call.rejects \cup {f \in Events : DataOf(Log[f]) = <<>>}
  BY <1>1
<1>3. Stream!Skip
  BY <1>1, <1>2 DEF Stream!Skip, Events
<1> QED BY <1>3 DEF Stream!Next

(* What TextOK is about stays, or nothing is read any more. *)
LEMMA SameText ==
  ASSUME TextOK, UNCHANGED <<call, lastEventId, buffer, chunks, wire>>,
         pc' \in {"read", "dispatch", "yield"} => pc \in {"read", "dispatch", "yield"},
         pc' = "read" => chunks = <<>>
  PROVE  TextOK'
BY DEF TextOK

LEMMA StepRInv ==
  ASSUME "CRLF" \notin LineEnds, BInv, RInv, [Next]_vars
  PROVE  RInv' /\ [Stream!Next]_(Stream!vars)
<1>1. CallOK' /\ ReaderOK'
  BY StepBInv DEF BInv
<1>2. call' = call
  BY DEF Next, vars, StartAttempt, Connect, FetchFails, Receive, ServerCloses, ConnectionFails,
         ReadAborted, Dispatch, DispatchRejected, ChunkDone, Pull, Wake, Return, Abort
<1>3. CallOK /\ ReaderOK /\ TextOK /\ delivered \in Seq(Delivery)
  BY DEF RInv
<1>4. CASE StartAttempt \/ FetchFails \/ ServerCloses \/ ConnectionFails \/ ReadAborted \/ Wake \/ Return
  <2>1. /\ UNCHANGED <<lastEventId, delivered>> /\ pc # "finished"
        /\ pc' \in {"top", "fetch", "sleep", "finished"}
    BY <1>4 DEF StartAttempt, FetchFails, ServerCloses, ConnectionFails, ReadAborted, ReadCancelled,
                Wake, Return, Caught
  <2>2. RInv'
    BY <1>1, <1>3, <2>1 DEF RInv, TextOK
  <2> QED BY <1>2, <2>1, <2>2, Unmoved
<1>5. CASE Pull \/ ChunkDone \/ Abort \/ UNCHANGED vars
  <2>1. /\ UNCHANGED <<lastEventId, delivered, buffer, chunks, wire>>
        /\ pc = "finished" => pc' = "finished"
        /\ pc' \in {"read", "dispatch", "yield"} => pc \in {"read", "dispatch", "yield"}
        /\ pc' = "read" => chunks = <<>>
    BY <1>3, <1>5 DEF Pull, ChunkDone, Abort, vars, reading, TextOK
  <2>2. RInv'
    BY <1>1, <1>2, <1>3, <2>1, SameText DEF RInv
  <2> QED BY <1>2, <2>1, <2>2, Unmoved
<1>6. CASE Connect
  <2>1. /\ UNCHANGED <<call, lastEventId, delivered>> /\ pc # "finished" /\ pc' = "read"
        /\ chunks' = <<>> /\ buffer' = <<>> /\ wire' = TextAfter(lastEventId, LineEnd(call.eol))
    BY <1>6 DEF Connect
  <2> DEFINE end == EndOf(call.eol)
  <2>2. end \in {LF, CR} /\ LineEnd(call.eol) = <<end>> /\ lastEventId \in 0 .. Size
    BY <1>3, OneCharacter DEF ReaderOK
  <2>3. EventPieces(Begun, lastEventId, Feeds(wire'), end) /\ OneEnd(wire', end)
    <3> HIDE DEF end
    <3>1. wire' = TextAfter(lastEventId, <<end>>)
      BY <2>1, <2>2
    <3>2. EventPieces(Begun, lastEventId, Plain(lastEventId, end), end)
      BY <2>2, NothingYet
    <3>3. OneEnd(TextAfter(lastEventId, <<end>>), end)
      BY <2>2, TextAfterEnds
    <3> QED BY <3>1, <3>2, <3>3 DEF Plain
  <2>4. TextOK'
    BY <2>1, <2>3 DEF TextOK, Begun
  <2> QED BY <1>1, <1>3, <2>1, <2>4, Unmoved DEF RInv
<1>7. CASE Receive
  <2>1. PICK n \in 1 .. Len(wire) :
          /\ TakePieces(SplitAtBlankLines(NormalizeLineEnds(buffer \o SubSeq(wire, 1, n))))
          /\ wire' = SubSeq(wire, n + 1, Len(wire))
    BY <1>7 DEF Receive
  <2>2. pc = "read" /\ pc' = "dispatch" /\ UNCHANGED <<call, lastEventId, delivered>>
    BY <1>7 DEF Receive
  <2> DEFINE pieces == SplitAtBlankLines(NormalizeLineEnds(buffer \o SubSeq(wire, 1, n)))
  <2>3. /\ EventPieces(pieces, lastEventId, Feeds(wire'), EndOf(call.eol))
        /\ OneEnd(wire', EndOf(call.eol))
    BY <2>1, <2>2, ReadOn
  <2>4. buffer' = pieces.rest /\ chunks' = pieces.whole
    BY <2>1 DEF TakePieces
  <2> HIDE DEF pieces
  <2>5. EventPieces([whole |-> pieces.whole, rest |-> pieces.rest], lastEventId, Feeds(wire'), EndOf(call.eol))
    BY <2>3, SameFields
  <2>6. TextOK'
    BY <2>2, <2>3, <2>4, <2>5 DEF TextOK
  <2> QED BY <1>1, <1>3, <2>2, <2>6, Unmoved DEF RInv
<1>8. CASE Dispatch
  <2> DEFINE lines == Head(chunks)
             e == lastEventId + 1
  <2>1. /\ pc = "dispatch" /\ chunks # <<>> /\ chunks' = Tail(chunks) /\ UNCHANGED <<call, buffer, wire>>
        /\ lastEventId' = NextEventId(lines) /\ ~ Rejected(lines)
        /\ \/ /\ DataOf(lines) # <<>> /\ pc' = "yield"
              /\ delivered' = Append(delivered, [data |-> DataOf(lines), id |-> lastEventId'])
           \/ DataOf(lines) = <<>> /\ UNCHANGED <<delivered, pc>>
    BY <1>8 DEF Dispatch
  <2>2. /\ e \in 1 .. Size /\ NextEventId(lines) = e /\ DataOf(lines) = DataOf(Log[e])
        /\ EventPieces([whole |-> Tail(chunks), rest |-> buffer], e, Feeds(wire), EndOf(call.eol))
    BY <2>1, NextEvent
  <2> HIDE DEF lines
  <2>3. TextOK'
    BY <1>3, <2>1, <2>2 DEF TextOK
  <2>4. CASE DataOf(lines) # <<>>
    <3>1. e \notin call.rejects
      BY <2>1, <2>2, <2>4 DEF Rejected
    <3>2. delivered' \in Seq(Delivery) /\ [Stream!Next]_(Stream!vars)
      BY <2>1, <2>2, <2>4, <3>1, HandedOver
    <3> QED BY <1>1, <2>3, <3>2 DEF RInv
  <2>5. CASE DataOf(lines) = <<>>
    <3>1. [Stream!Next]_(Stream!vars)
      BY <2>1, <2>2, <2>5, Skipped
    <3> QED BY <1>1, <1>3, <2>1, <2>3, <2>5, <3>1 DEF RInv
  <2> QED BY <2>4, <2>5
<1>9. CASE DispatchRejected
  <2> DEFINE lines == Head(chunks)
             e == lastEventId + 1
  <2>1. /\ pc = "dispatch" /\ chunks # <<>> /\ UNCHANGED <<call, delivered>>
        /\ lastEventId' = NextEventId(lines) /\ Rejected(lines)
        /\ pc' \in {"sleep", "finished"}
    BY <1>9 DEF DispatchRejected, Caught
  <2>2. e \in 1 .. Size /\ NextEventId(lines) = e /\ DataOf(lines) = DataOf(Log[e])
    BY <2>1, NextEvent
  <2> HIDE DEF lines
  <2>3. e \in call.rejects
    <3>1. PICK f \in call.rejects : DataOf(lines) # <<>> /\ DataOf(lines) = DataOf(Log[f])
      BY <2>1 DEF Rejected
    <3>2. f \in 1 .. Size
      BY <1>3, Bounds DEF CallOK
    <3>3. f = e
      <4>1. [data |-> DataOf(Log[e])].data = DataOf(Log[e])
        OBVIOUS
      <4> QED BY <2>2, <3>1, <3>2, <4>1, Known
    <3> QED BY <3>3
  <2>4. [Stream!Next]_(Stream!vars)
    BY <2>1, <2>2, <2>3, Skipped
  <2> QED BY <1>1, <1>3, <2>1, <2>4 DEF RInv, TextOK
<1> QED BY <1>4, <1>5, <1>6, <1>7, <1>8, <1>9 DEF Next

(* Wherever the network cuts the text, however often requests and connections
   fail and whatever the validator refuses, the events of the log are handed
   over whole, in order and once, if no server ends its lines by CR LF. *)
THEOREM EventsInOrder ==
  ASSUME "CRLF" \notin LineEnds
  PROVE  Spec => RefinesStream
<1>1. Init => Stream!Init
  <2> SUFFICES ASSUME Init PROVE Stream!Init
    OBVIOUS
  <2>1. call.rejects \subseteq 1 .. Size /\ Events = 1 .. Size
    BY InitBInv, Bounds, LogIs DEF BInv, CallOK, Events
  <2>2. [i \in DOMAIN delivered |-> EventOf(delivered[i])] = <<>>
    BY DEF Init
  <2> QED BY <2>1, <2>2 DEF Init, Stream!Init, Size
<1>2. BInv /\ [Next]_vars => BInv'
  BY StepBInv
<1>3. BInv /\ RInv /\ [Next]_vars => RInv'
  BY StepRInv
<1>4. BInv /\ RInv /\ [Next]_vars => [Stream!Next]_(Stream!vars)
  BY StepRInv
<1> QED BY InitBInv, InitRInv, <1>1, <1>2, <1>3, <1>4, PTL DEF Spec, RefinesStream, Stream!Spec
================================================================================
