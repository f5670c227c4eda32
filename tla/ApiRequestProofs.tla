--------------------------- MODULE ApiRequestProofs ----------------------------
(***************************************************************************)
(* What a caller takes for its answer is its answer, for any number of     *)
(* calls, pieces, keys and losses; and a signature verifies, since any     *)
(* text that escapeURL writes comes through the exchange's decoder.        *)
(***************************************************************************)
EXTENDS ApiRequest, SequenceTheorems, SumTheorems

Executed(n) == \E i \in DOMAIN served : served[i] = n

(* A request is executed once at most, since it is once on its way.        *)
ServedInv ==
  /\ call_no \in Nat /\ served \in Seq(Nat)
  /\ \A r \in net : r.no \in 1 .. call_no /\ ~ Executed(r.no)
  /\ \A r, q \in net : r.no = q.no => r = q
  /\ \A i \in DOMAIN served : served[i] \in 1 .. call_no
  /\ \A i, j \in DOMAIN served : served[i] = served[j] => i = j

Piece == [no : {call_no}, piece : Int, ok : BOOLEAN]

AnswerInv ==
  /\ answer = [begun |-> answer.begun, pieces |-> answer.pieces,
               ok |-> answer.ok]
  /\ answer.ok \in BOOLEAN /\ answer.pieces \in Int
  /\ answer.ok => phase # "idle" /\ Executed(call_no)

BufferInv ==
  /\ sBuffer \in Seq(Piece)
  /\ \A i \in DOMAIN sBuffer : sBuffer[i].ok => Executed(call_no)

RInv ==
  /\ phase \in {"idle", "open", "performed", "result"}
  /\ ServedInv /\ AnswerInv
  /\ phase \in {"open", "performed"} => BufferInv
  /\ result = "value" =>
       /\ phase = "result" /\ Executed(call_no)
       /\ BufferInv /\ Len(sBuffer) = Pieces

LEMMA VerifiedIsBoolean == ASSUME NEW u PROVE Verified(u) \in BOOLEAN
  BY DEF Verified

LEMMA RequestInit == ASSUME ApiRequestInit PROVE RInv
  BY DEF ApiRequestInit, RInv, ServedInv, AnswerInv, Executed, NoAnswer

(* a call begins: no request and no answer has its number yet              *)
LEMMA CallSafe ==
  ASSUME RInv, HttpCall \/ ThrowsAtOnce
  PROVE  RInv'
<1>1. /\ phase = "idle" /\ call_no' = call_no + 1 /\ call_no \in Nat
      /\ UNCHANGED <<served, answer>> /\ ~ answer.ok
      /\ phase' \in {"open", "result"}
      /\ result' # "value"
  BY DEF RInv, ServedInv, AnswerInv, HttpCall, ThrowsAtOnce, NextCall
<1>2. ~ Executed(call_no') /\ \A r \in net : r.no # call_no'
  BY <1>1 DEF RInv, ServedInv, Executed
<1>3. \A n \in 1 .. call_no : n \in 1 .. call_no'
  BY <1>1
<1>4. \/ net' = net
      \/ \E u : net' = net \cup {[no |-> call_no', url |-> u]}
  BY DEF HttpCall, ThrowsAtOnce
<1>5. \A n : Executed(n)' = Executed(n)
  BY <1>1 DEF Executed
<1>6. call_no' \in 1 .. call_no' /\ call_no' \in Nat
  BY <1>1
<1>7. ServedInv'
  BY <1>1, <1>2, <1>3, <1>4, <1>5, <1>6 DEF RInv, ServedInv
<1>8. AnswerInv'
  BY <1>1 DEF RInv, AnswerInv
<1>9. phase' = "open" => sBuffer' = <<>>
  BY DEF HttpCall, FreshBuffer, ThrowsAtOnce
<1>10. phase' = "open" => BufferInv'
  BY <1>9 DEF BufferInv
<1> QED
  BY <1>1, <1>7, <1>8, <1>10 DEF RInv

LEMMA ReceiveSafe ==
  ASSUME RInv, Receive
  PROVE  RInv'
<1> DEFINE piece == [no |-> call_no, piece |-> answer.pieces, ok |-> answer.ok]
<1>1. /\ phase = "open" /\ BufferInv
      /\ UNCHANGED <<phase, call_no, net, served, result>>
      /\ result # "value"
      /\ sBuffer' = Append(sBuffer, piece)
      /\ answer' = [answer EXCEPT !.pieces = @ - 1]
  BY DEF RInv, Receive
<1>2. piece \in Piece
  BY DEF RInv, AnswerInv, Piece
<1>3. piece.ok => Executed(call_no)
  BY DEF RInv, AnswerInv
<1>4. sBuffer \in Seq(Piece)
  BY <1>1 DEF BufferInv
<1> HIDE DEF piece
<1>5. /\ sBuffer' \in Seq(Piece)
      /\ DOMAIN sBuffer' = DOMAIN sBuffer \cup {Len(sBuffer) + 1}
      /\ sBuffer'[Len(sBuffer) + 1] = piece
      /\ \A i \in DOMAIN sBuffer : sBuffer'[i] = sBuffer[i]
  <2>1. /\ Len(sBuffer) \in Nat /\ DOMAIN sBuffer = 1 .. Len(sBuffer)
        /\ sBuffer' \in Seq(Piece) /\ Len(sBuffer') = Len(sBuffer) + 1
        /\ \A i \in 1 .. Len(sBuffer) : sBuffer'[i] = sBuffer[i]
        /\ sBuffer'[Len(sBuffer) + 1] = piece
    BY <1>1, <1>2, <1>4, AppendProperties, LenProperties
  <2>2. DOMAIN sBuffer' = 1 .. Len(sBuffer')
    BY <2>1
  <2> QED
    BY <2>1, <2>2
<1>6. BufferInv'
  BY <1>1, <1>3, <1>5 DEF BufferInv, Executed, Piece
<1>7. AnswerInv'
  BY <1>1 DEF RInv, AnswerInv, Executed
<1>8. ServedInv'
  BY <1>1 DEF RInv, ServedInv, Executed
<1> QED
  BY <1>1, <1>6, <1>7, <1>8 DEF RInv

LEMMA SameBuffer ==
  ASSUME UNCHANGED <<call_no, served, sBuffer>>
  PROVE  BufferInv' = BufferInv
  BY DEF BufferInv, Executed, Piece

LEMMA EndsSafe ==
  ASSUME RInv, AnswerEnds \/ Broken \/ TimesOut \/ Return \/ Done \/ Second
               \/ UNCHANGED httpvars
  PROVE  RInv'
<1>1. UNCHANGED <<call_no, net, served, sBuffer>>
  BY DEF AnswerEnds, Broken, TimesOut, Perform, Return, Done, Second, httpvars
<1>2. ServedInv' /\ BufferInv' = BufferInv
  BY <1>1, SameBuffer DEF RInv, ServedInv, Executed
<1>3. CASE \E c : Perform(c)
  BY <1>1, <1>2, <1>3 DEF RInv, AnswerInv, Executed, Perform
<1>4. CASE Return
  <2>1. CASE result' = "value"
    <3>1. Readable /\ sBuffer[1].ok /\ Len(sBuffer) = Pieces
      BY <1>4, <2>1 DEF Return, Readable
    <3>2. sBuffer \in Seq(Piece) /\ 1 \in DOMAIN sBuffer
      BY <1>4, <3>1, PieceAssumption DEF RInv, BufferInv, Return
    <3>3. Executed(call_no)
      BY <1>4, <3>1, <3>2 DEF RInv, BufferInv, Return
    <3> QED
      BY <1>1, <1>2, <1>4, <3>1, <3>3 DEF RInv, AnswerInv, Executed, Return
  <2>2. CASE result' # "value"
    BY <1>1, <1>2, <1>4, <2>2 DEF RInv, AnswerInv, Executed, Return
  <2> QED
    BY <2>1, <2>2
<1>5. CASE Done
  BY <1>1, <1>2, <1>5 DEF RInv, AnswerInv, Done, NoAnswer
<1>6. CASE Second \/ UNCHANGED httpvars
  BY <1>1, <1>2, <1>6 DEF RInv, AnswerInv, Executed, Second, httpvars
<1> QED
  BY <1>3, <1>4, <1>5, <1>6 DEF AnswerEnds, Broken, TimesOut

LEMMA ArriveSafe ==
  ASSUME RInv, NEW r \in net, Arrive(r) \/ Lost(r)
  PROVE  RInv'
<1>1. /\ UNCHANGED <<phase, call_no, sBuffer, result>>
      /\ net' = net \ {r}
  BY DEF Arrive, Lost
<1> DEFINE full(ok) == [begun |-> TRUE, pieces |-> Pieces, ok |-> ok]
<1>2. CASE UNCHANGED served /\ (answer' = answer \/ answer' = full(FALSE))
  <2>1. ServedInv'
    BY <1>1, <1>2 DEF RInv, ServedInv, Executed
  <2>2. BufferInv' = BufferInv
    BY <1>1, <1>2, SameBuffer
  <2>3. CASE answer' = answer
    BY <1>1, <1>2, <2>1, <2>2, <2>3 DEF RInv, AnswerInv, Executed
  <2>4. CASE answer' = full(FALSE)
    <3>1. AnswerInv'
      BY <2>4, PieceAssumption DEF AnswerInv
    <3> QED
      BY <1>1, <1>2, <2>1, <2>2, <3>1 DEF RInv, Executed
  <2> QED
    BY <1>2, <2>3, <2>4
<1>3. CASE /\ served' = Append(served, r.no)
           /\ answer' = IF phase = "open" /\ r.no = call_no
                        THEN full(TRUE) ELSE answer
  <2>1. /\ served \in Seq(Nat) /\ r.no \in Nat /\ call_no \in Nat
        /\ r.no \in 1 .. call_no
    BY DEF RInv, ServedInv
  <2>2. /\ served' \in Seq(Nat)
        /\ DOMAIN served' = DOMAIN served \cup {Len(served) + 1}
        /\ served'[Len(served) + 1] = r.no
        /\ \A i \in DOMAIN served : served'[i] = served[i]
        /\ Len(served) + 1 \notin DOMAIN served
    <3>1. /\ Len(served) \in Nat /\ DOMAIN served = 1 .. Len(served)
          /\ served' \in Seq(Nat) /\ Len(served') = Len(served) + 1
          /\ \A i \in 1 .. Len(served) : served'[i] = served[i]
          /\ served'[Len(served) + 1] = r.no
      BY <1>3, <2>1, AppendProperties, LenProperties
    <3>2. DOMAIN served' = 1 .. Len(served')
      BY <3>1
    <3> QED
      BY <3>1, <3>2
  <2>3. \A n : Executed(n)' <=> Executed(n) \/ n = r.no
    BY <2>2 DEF Executed
  <2>4. ServedInv'
    <3>1. \A q \in net' : q \in net /\ q.no # r.no
      BY <1>1 DEF RInv, ServedInv
    <3> QED
      BY <1>1, <2>1, <2>2, <2>3, <3>1 DEF RInv, ServedInv, Executed
  <2>5. AnswerInv'
    <3>1. CASE phase = "open" /\ r.no = call_no
      <4>1. answer' = full(TRUE)
        BY <1>3, <3>1
      <4>2. Executed(call_no)' /\ phase' = "open"
        BY <1>1, <2>3, <3>1 DEF Executed
      <4> QED
        BY <4>1, <4>2, PieceAssumption DEF AnswerInv
    <3>2. CASE ~ (phase = "open" /\ r.no = call_no)
      <4>1. answer' = answer
        BY <1>3, <3>2
      <4>2. Executed(call_no) => Executed(call_no)'
        BY <1>1, <2>3 DEF Executed
      <4> QED
        BY <1>1, <4>1, <4>2 DEF RInv, AnswerInv
    <3> QED
      BY <3>1, <3>2
  <2>6. BufferInv => BufferInv'
    BY <1>1, <2>3 DEF BufferInv, Piece
  <2> QED
    BY <1>1, <2>3, <2>4, <2>5, <2>6 DEF RInv
<1>4. CASE Arrive(r)
  <2>1. PICK ok \in {Verified(r.url), FALSE} :
          /\ served' = IF ok THEN Append(served, r.no) ELSE served
          /\ answer' = IF phase = "open" /\ r.no = call_no
                       THEN full(ok) ELSE answer
    BY <1>4 DEF Arrive
  <2>2. ok \in BOOLEAN
    BY VerifiedIsBoolean
  <2>3. CASE ok = TRUE
    BY <1>3, <2>1, <2>3
  <2>4. CASE ok = FALSE
    BY <1>2, <2>1, <2>4
  <2> QED
    BY <2>2, <2>3, <2>4
<1>5. CASE Lost(r)
  BY <1>2, <1>5 DEF Lost
<1> QED
  BY <1>4, <1>5

LEMMA RequestInvariance == ApiRequestSpec => []RInv
<1>1. RInv /\ [ApiRequestNext]_httpvars => RInv'
  BY CallSafe, ReceiveSafe, EndsSafe, ArriveSafe
     DEF ApiRequestNext, Calling, Arriving
<1> QED
  BY <1>1, RequestInit, PTL DEF ApiRequestSpec

(* A caller that gets a value gets the whole answer to its own request,    *)
(* and the exchange has executed that request once.                        *)
THEOREM OwnAnswer == ApiRequestSpec => []ValueIsOwnAnswer
<1>1. RInv => ValueIsOwnAnswer
  <2> SUFFICES ASSUME RInv, result = "value"
               PROVE  /\ Executed(call_no) /\ ServedInv /\ Len(sBuffer) = Pieces
                      /\ \A i \in DOMAIN sBuffer : sBuffer[i].no = call_no
    BY DEF ValueIsOwnAnswer, Executed, ServedInv
  <2>1. \A i \in DOMAIN sBuffer : sBuffer[i] \in Piece
    BY DEF RInv, BufferInv
  <2> QED
    BY <2>1 DEF RInv, Piece
<1> QED
  BY <1>1, RequestInvariance, PTL

-----------------------------------------------------------------------------
(* Induction over a sequence, as a fact about sets.                        *)
LEMMA EachSequence ==
  ASSUME NEW S, NEW T \in SUBSET Seq(S), <<>> \in T,
         \A t \in T, e \in S : Append(t, e) \in T
  PROVE  Seq(S) \subseteq T
<1> DEFINE Bad == {n \in Nat : \E t \in Seq(S) : Len(t) = n /\ t \notin T}
<1>1. Bad \subseteq Nat /\ \A t \in Seq(S) : Len(t) \in Nat
  BY LenProperties
<1>2. ASSUME Bad # {} PROVE FALSE
  <2>1. PICK n \in Bad : \A m \in Bad : n <= m
    <3> HIDE DEF Bad
    <3> QED
      BY <1>1, <1>2, LeastNumber
  <2>2. PICK t \in Seq(S) : Len(t) = n /\ t \notin T
    OBVIOUS
  <2>3. PICK s \in Seq(S), e \in S : t = Append(s, e)
    BY <2>2, SequenceEmptyOrAppend
  <2>4. Len(s) \in Nat /\ Len(t) = Len(s) + 1
    BY <2>3, AppendProperties, LenProperties
  <2>5. Len(s) \notin Bad
    <3> HIDE DEF Bad
    <3> QED
      BY <1>1, <2>1, <2>2, <2>4
  <2>6. s \in T
    BY <2>4, <2>5
  <2> QED
    BY <2>2, <2>3, <2>6
<1> QED
  BY <1>1, <1>2

-----------------------------------------------------------------------------
(* FlattenSeq, one member more at a time.                                  *)
Join(f, g, i) == IF i = 1 THEN f[i] ELSE g[i - 1] \o f[i]

Joins(f) == CHOOSE g : g = [i \in 1 .. Len(f) |-> Join(f, g, i)]

LEMMA FlattenUnfold ==
  ASSUME NEW f
  PROVE  FlattenSeq(f) = IF Len(f) = 0 THEN f ELSE Joins(f)[Len(f)]
BY DEF FlattenSeq, Joins, Join

LEMMA EachJoin ==
  ASSUME NEW f, Len(f) \in Nat
  PROVE  \A i \in 1 .. Len(f) : Joins(f)[i] = Join(f, Joins(f), i)
<1> DEFINE Exists(n) == \E g : g = [i \in 1 .. n |-> Join(f, g, i)]
           Bad == {n \in Nat : ~ Exists(n)}
<1>1. ASSUME Bad # {} PROVE FALSE
  <2>1. PICK n \in Bad : \A m \in Bad : n <= m
    <3> HIDE DEF Exists
    <3>1. Bad \in SUBSET Nat
      OBVIOUS
    <3> HIDE DEF Bad
    <3> QED
      BY <1>1, <3>1, LeastNumber
  <2>2. n \in Nat /\ ~ Exists(n)
    OBVIOUS
  <2>3. n # 0
    <3>1. [i \in 1 .. 0 |-> 0] = [i \in 1 .. 0 |-> Join(f, [j \in 1 .. 0 |-> 0], i)]
      OBVIOUS
    <3>2. Exists(0)
      BY <3>1
    <3> HIDE DEF Exists
    <3> QED
      BY <2>2, <3>2
  <2>4. Exists(n - 1)
    <3> HIDE DEF Exists
    <3>1. n - 1 \in Nat /\ ~ (n <= n - 1)
      BY <2>2, <2>3
    <3>2. n - 1 \notin Bad
      <4> HIDE DEF Bad
      <4> QED
        BY <2>1, <3>1
    <3> QED
      BY <3>1, <3>2
  <2>5. PICK g : g = [i \in 1 .. n - 1 |-> Join(f, g, i)]
    BY <2>4
  <2> DEFINE h == [i \in 1 .. n |-> IF i = n THEN Join(f, g, n) ELSE g[i]]
  <2>6. ASSUME NEW i \in 1 .. n PROVE h[i] = Join(f, h, i)
    <3>1. CASE i = n
      BY <2>2, <2>3, <3>1 DEF Join
    <3>2. CASE i # n
      <4>1. i \in 1 .. n - 1 /\ h[i] = g[i] /\ g[i] = Join(f, g, i)
        BY <2>2, <2>5, <3>2
      <4>2. i # 1 => i - 1 \in 1 .. n /\ i - 1 # n
        BY <2>2, <4>1
      <4> QED
        BY <4>1, <4>2 DEF Join
    <3> QED
      BY <3>1, <3>2
  <2>7. h = [i \in 1 .. n |-> Join(f, h, i)]
    BY <2>6
  <2> HIDE DEF h
  <2> QED
    BY <2>2, <2>7
<1>2. Exists(Len(f))
  BY <1>1
<1>3. Joins(f) = [i \in 1 .. Len(f) |-> Join(f, Joins(f), i)]
  BY <1>2 DEF Joins
<1> QED
  BY <1>3

LEMMA FlattenAppend ==
  ASSUME NEW S, NEW f \in Seq(Seq(S)), NEW x \in Seq(S)
  PROVE  FlattenSeq(Append(f, x)) =
           IF f = <<>> THEN x ELSE FlattenSeq(f) \o x
<1> DEFINE n == Len(f)
           h == Append(f, x)
<1>1. /\ n \in Nat /\ Len(h) = n + 1 /\ h[n + 1] = x
      /\ \A i \in 1 .. n : h[i] = f[i]
  BY AppendProperties, LenProperties
<1> HIDE DEF h
<1> DEFINE Bad == {i \in 1 .. n : Joins(h)[i] # Joins(f)[i]}
<1>2. \A i \in 1 .. n + 1 : Joins(h)[i] = Join(h, Joins(h), i)
  BY <1>1, EachJoin
<1>3. \A i \in 1 .. n : Joins(f)[i] = Join(f, Joins(f), i)
  BY <1>1, EachJoin
<1> HIDE DEF n
<1>4. ASSUME Bad # {} PROVE FALSE
  <2>1. PICK i \in Bad : \A j \in Bad : i <= j
    <3>1. Bad \in SUBSET Nat
      OBVIOUS
    <3> HIDE DEF Bad
    <3> QED
      BY <1>4, <3>1, LeastNumber
  <2>2. i \in 1 .. n /\ i \in 1 .. n + 1 /\ Joins(h)[i] # Joins(f)[i]
    BY <1>1
  <2>3. i # 1 => Joins(h)[i - 1] = Joins(f)[i - 1]
    <3>1. ASSUME i # 1 PROVE i - 1 \in 1 .. n /\ ~ (i <= i - 1)
      BY <1>1, <2>2, <3>1
    <3>2. ASSUME i # 1 PROVE i - 1 \notin Bad
      <4> HIDE DEF Bad
      <4> QED
        BY <2>1, <3>1, <3>2
    <3> QED
      BY <3>1, <3>2
  <2> QED
    BY <1>1, <1>2, <1>3, <2>2, <2>3 DEF Join
<1>5. FlattenSeq(h) = Joins(h)[n + 1]
  BY <1>1, FlattenUnfold
<1>6. CASE n = 0
  <2>1. f = <<>>
    BY <1>6 DEF n
  <2> QED
    BY <1>1, <1>2, <1>5, <1>6, <2>1 DEF Join, h
<1>7. CASE n # 0
  <2>1. f # <<>> /\ FlattenSeq(f) = Joins(f)[n]
    BY <1>1, <1>7, FlattenUnfold DEF n
  <2>2. n \in 1 .. n /\ n + 1 \in 1 .. n + 1 /\ n + 1 # 1 /\ (n + 1) - 1 = n
    BY <1>1, <1>7
  <2>3. FlattenSeq(h) = Joins(h)[n] \o x
    BY <1>1, <1>2, <1>5, <2>2 DEF Join
  <2>4. Joins(h)[n] = Joins(f)[n]
    BY <1>4, <2>2
  <2> QED
    BY <2>1, <2>3, <2>4 DEF h
<1> QED
  BY <1>6, <1>7

-----------------------------------------------------------------------------
(* A text whose bytes are written one by one.                              *)
Words(enc, t) == FlattenSeq([i \in DOMAIN t |-> enc[t[i]]])

LEMMA WordsAppend ==
  ASSUME NEW B, NEW C, NEW enc \in [B -> Seq(C)]
  PROVE  /\ Words(enc, <<>>) = <<>>
         /\ \A t \in Seq(B) : Words(enc, t) \in Seq(C)
         /\ \A t \in Seq(B), b \in B :
              Words(enc, Append(t, b)) = Words(enc, t) \o enc[b]
<1> DEFINE Each(t) == [i \in DOMAIN t |-> enc[t[i]]]
<1>1. ASSUME NEW t \in Seq(B)
      PROVE  Each(t) \in Seq(Seq(C)) /\ Len(Each(t)) = Len(t)
  <2>1. Len(t) \in Nat /\ DOMAIN t = 1 .. Len(t) /\ \A i \in 1 .. Len(t) : t[i] \in B
    BY LenProperties, ElementOfSeq
  <2>2. Each(t) \in [1 .. Len(t) -> Seq(C)]
    BY <2>1
  <2> QED
    BY <2>1, <2>2
<1>2. ASSUME NEW t \in Seq(B), NEW b \in B
      PROVE  Each(Append(t, b)) = Append(Each(t), enc[b])
  <2>1. /\ Len(t) \in Nat /\ DOMAIN t = 1 .. Len(t)
        /\ Append(t, b) \in Seq(B) /\ Len(Append(t, b)) = Len(t) + 1
        /\ \A i \in 1 .. Len(t) : Append(t, b)[i] = t[i]
        /\ Append(t, b)[Len(t) + 1] = b
    BY AppendProperties, LenProperties
  <2>2. Each(Append(t, b)) \in Seq(Seq(C)) /\ Append(Each(t), enc[b]) \in Seq(Seq(C))
    BY <1>1, <2>1, AppendProperties
  <2>3. Len(Each(Append(t, b))) = Len(t) + 1 /\ Len(Append(Each(t), enc[b])) = Len(t) + 1
    BY <1>1, <2>1, AppendProperties
  <2>4. ASSUME NEW i \in 1 .. Len(t) + 1
        PROVE  Each(Append(t, b))[i] = Append(Each(t), enc[b])[i]
    <3>1. DOMAIN Append(t, b) = 1 .. Len(t) + 1
      BY <2>1
    <3>2. Each(Append(t, b))[i] = enc[Append(t, b)[i]]
      BY <3>1
    <3>3. CASE i = Len(t) + 1
      <4>1. Append(Each(t), enc[b])[Len(t) + 1] = enc[b]
        BY <1>1, AppendProperties
      <4> QED
        BY <2>1, <3>2, <3>3, <4>1
    <3>4. CASE i # Len(t) + 1
      <4>1. i \in 1 .. Len(t)
        BY <2>1, <3>4
      <4>2. Append(Each(t), enc[b])[i] = Each(t)[i]
        BY <1>1, <4>1, AppendProperties
      <4> QED
        BY <2>1, <3>2, <4>1, <4>2
    <3> QED
      BY <3>3, <3>4
  <2> HIDE DEF Each
  <2> QED
    BY <2>2, <2>3, <2>4, SeqEqual
<1>3. Words(enc, <<>>) = <<>>
  <2>1. Each(<<>>) = <<>>
    OBVIOUS
  <2>2. FlattenSeq(<<>>) = <<>>
    BY FlattenUnfold
  <2> QED
    BY <2>1, <2>2 DEF Words
<1>4. ASSUME NEW t \in Seq(B), NEW b \in B
      PROVE  Words(enc, Append(t, b)) =
               IF t = <<>> THEN enc[b] ELSE Words(enc, t) \o enc[b]
  <2>1. Words(enc, Append(t, b)) = FlattenSeq(Append(Each(t), enc[b]))
    BY <1>2 DEF Words
  <2>2. Each(t) = <<>> <=> t = <<>>
    BY <1>1
  <2>3. Words(enc, t) = FlattenSeq(Each(t))
    BY DEF Words
  <2> HIDE DEF Each
  <2> QED
    BY <1>1, <2>1, <2>2, <2>3, FlattenAppend
<1> DEFINE T == {t \in Seq(B) : Words(enc, t) \in Seq(C)}
<1>5. <<>> \in T
  BY <1>3, EmptySeq
<1>6. ASSUME NEW t \in T, NEW b \in B PROVE Append(t, b) \in T
  <2>1. t \in Seq(B) /\ Append(t, b) \in Seq(B) /\ enc[b] \in Seq(C)
    BY AppendProperties
  <2>2. Words(enc, t) \o enc[b] \in Seq(C)
    BY <2>1, ConcatProperties
  <2> QED
    BY <1>4, <2>1, <2>2
<1>7. T \in SUBSET Seq(B)
  OBVIOUS
<1>8. \A t \in Seq(B) : Words(enc, t) \in Seq(C)
  <2>1. Seq(B) \subseteq T
    <3> HIDE DEF T
    <3> QED
      BY <1>5, <1>6, <1>7, EachSequence
  <2> QED
    BY <2>1
<1>9. \A b \in B : Words(enc, <<>>) \o enc[b] = enc[b]
  BY <1>3, ConcatEmptySeq
<1> QED
  BY <1>3, <1>4, <1>8, <1>9

LEMMA WordsConcat ==
  ASSUME NEW B, NEW C, NEW enc \in [B -> Seq(C)],
         NEW t \in Seq(B), NEW v \in Seq(B)
  PROVE  Words(enc, t \o v) = Words(enc, t) \o Words(enc, v)
<1> DEFINE T == {s \in Seq(B) : Words(enc, t \o s) = Words(enc, t) \o Words(enc, s)}
<1>0. /\ Words(enc, <<>>) = <<>>
      /\ \A s \in Seq(B) : Words(enc, s) \in Seq(C)
      /\ \A s \in Seq(B), b \in B :
           Words(enc, Append(s, b)) = Words(enc, s) \o enc[b]
  BY WordsAppend, Zenon
<1>1. T \in SUBSET Seq(B)
  OBVIOUS
<1>2. <<>> \in T
  BY <1>0, ConcatEmptySeq, EmptySeq
<1>3. ASSUME NEW s \in T, NEW b \in B PROVE Append(s, b) \in T
  <2>1. s \in Seq(B) /\ Append(s, b) \in Seq(B) /\ t \o s \in Seq(B)
    BY AppendProperties, ConcatProperties
  <2>2. t \o Append(s, b) = Append(t \o s, b)
    BY <2>1, ConcatAssociative, AppendIsConcat
  <2>3. Words(enc, t \o Append(s, b)) = Words(enc, t \o s) \o enc[b]
    BY <2>1, <2>2, <1>0
  <2>4. Words(enc, Append(s, b)) = Words(enc, s) \o enc[b]
    BY <2>1, <1>0
  <2>5. Words(enc, t) \in Seq(C) /\ Words(enc, s) \in Seq(C) /\ enc[b] \in Seq(C)
    BY <2>1, <1>0
  <2>6. (Words(enc, t) \o Words(enc, s)) \o enc[b] =
          Words(enc, t) \o (Words(enc, s) \o enc[b])
    BY <2>5, ConcatAssociative
  <2> QED
    BY <2>1, <2>3, <2>4, <2>6
<1>4. Seq(B) \subseteq T
  <2> HIDE DEF T
  <2> QED
    BY <1>1, <1>2, <1>3, EachSequence
<1> QED
  BY <1>4

(* What every byte of which stands for itself is its own writing.          *)
LEMMA WordsPlain ==
  ASSUME NEW B, NEW enc \in [B -> Seq(B)], NEW U \in SUBSET B,
         \A b \in U : enc[b] = <<b>>,
         NEW t \in Seq(U)
  PROVE  Words(enc, t) = t
<1> DEFINE T == {s \in Seq(U) : Words(enc, s) = s}
<1>0. /\ Words(enc, <<>>) = <<>>
      /\ \A s \in Seq(B) : Words(enc, s) \in Seq(B)
      /\ \A s \in Seq(B), b \in B :
           Words(enc, Append(s, b)) = Words(enc, s) \o enc[b]
  BY WordsAppend, Zenon
<1>1. T \in SUBSET Seq(U)
  OBVIOUS
<1>2. <<>> \in T
  BY <1>0, EmptySeq
<1>3. ASSUME NEW s \in T, NEW b \in U PROVE Append(s, b) \in T
  <2>1. s \in Seq(U) /\ s \in Seq(B) /\ b \in B /\ Append(s, b) \in Seq(U)
    BY AppendProperties, SeqMonotonic
  <2>2. Words(enc, Append(s, b)) = s \o <<b>>
    BY <2>1, <1>0
  <2> QED
    BY <2>1, <2>2, AppendIsConcat
<1>4. Seq(U) \subseteq T
  <2> HIDE DEF T
  <2> QED
    BY <1>1, <1>2, <1>3, EachSequence
<1> QED
  BY <1>4

-----------------------------------------------------------------------------
(* The exchange's decoder, one byte more at a time.                        *)
Scanned == [triple |-> <<>>, text |-> <<>>]

Scan(t) == FoldLeft(DecodeByte, Scanned, t)

ScanTurn(t, g, s) ==
  IF s = {} THEN Scanned ELSE DecodeByte(g[s \ {Max(s)}], t[Max(s)])

Scans(t) == CHOOSE g : g = [s \in SUBSET DOMAIN t |-> ScanTurn(t, g, s)]

LEMMA ScanUnfold ==
  ASSUME NEW t
  PROVE  Scan(t) = Scans(t)[DOMAIN t]
BY DEF Scan, FoldLeft, MapThenFoldSet, Scans, ScanTurn, Scanned

LEMMA MaxIsLast ==
  ASSUME NEW n \in Nat, NEW s \in SUBSET (1 .. n + 1), n + 1 \in s
  PROVE  Max(s) = n + 1
<1>1. \A y \in s : y \in 1 .. n + 1
  OBVIOUS
<1>2. \A y \in s : n + 1 >= y
  BY <1>1
<1>3. Max(s) \in s /\ \A y \in s : Max(s) >= y
  BY <1>2 DEF Max
<1>4. Max(s) >= n + 1 /\ Max(s) \in 1 .. n + 1
  BY <1>1, <1>3
<1> QED
  BY <1>4

LEMMA EachScan ==
  ASSUME NEW t, NEW n \in Nat, DOMAIN t = 1 .. n
  PROVE  \A s \in SUBSET (1 .. n) : Scans(t)[s] = ScanTurn(t, Scans(t), s)
<1> DEFINE Exists(m) == \E g : g = [s \in SUBSET (1 .. m) |-> ScanTurn(t, g, s)]
           Bad == {m \in Nat : ~ Exists(m)}
<1>1. ASSUME Bad # {} PROVE FALSE
  <2>1. PICK m \in Bad : \A k \in Bad : m <= k
    <3> HIDE DEF Exists
    <3>1. Bad \in SUBSET Nat
      OBVIOUS
    <3> HIDE DEF Bad
    <3> QED
      BY <1>1, <3>1, LeastNumber
  <2>2. m \in Nat /\ ~ Exists(m)
    OBVIOUS
  <2>3. m # 0
    <3> DEFINE g == [s \in SUBSET (1 .. 0) |-> Scanned]
    <3>1. SUBSET (1 .. 0) = {{}}
      OBVIOUS
    <3>2. g = [s \in SUBSET (1 .. 0) |-> ScanTurn(t, g, s)]
      BY <3>1 DEF ScanTurn
    <3> HIDE DEF g
    <3>3. Exists(0)
      BY <3>2
    <3> HIDE DEF Exists
    <3> QED
      BY <2>2, <3>3
  <2>4. Exists(m - 1)
    <3> HIDE DEF Exists
    <3>1. m - 1 \in Nat /\ ~ (m <= m - 1)
      BY <2>2, <2>3
    <3>2. m - 1 \notin Bad
      <4> HIDE DEF Bad
      <4> QED
        BY <2>1, <3>1
    <3> QED
      BY <3>1, <3>2
  <2>5. PICK g : g = [s \in SUBSET (1 .. m - 1) |-> ScanTurn(t, g, s)]
    BY <2>4
  <2> DEFINE h == [s \in SUBSET (1 .. m) |-> ScanTurn(t, g, s)]
  <2>6. ASSUME NEW s \in SUBSET (1 .. m) PROVE h[s] = ScanTurn(t, h, s)
    <3>1. CASE s = {}
      BY <3>1 DEF ScanTurn
    <3>2. CASE s # {}
      <4> DEFINE r == s \ {Max(s)}
      <4>1. m \notin r
        <5>1. m = (m - 1) + 1 /\ m - 1 \in Nat
          BY <2>2, <2>3
        <5>2. m \in s => Max(s) = m
          BY <5>1, MaxIsLast
        <5> QED
          BY <5>2
      <4>2. \A k \in r : k \in 1 .. m /\ k # m
        BY <4>1
      <4> HIDE DEF r
      <4>3. r \in SUBSET (1 .. m - 1) /\ r \in SUBSET (1 .. m)
        BY <2>2, <2>3, <4>2
      <4>4. g[r] = ScanTurn(t, g, r) /\ h[r] = ScanTurn(t, g, r)
        <5>1. g[r] = ScanTurn(t, g, r)
          BY <2>5, <4>3
        <5> QED
          BY <4>3, <5>1
      <4>5. h[s] = ScanTurn(t, g, s)
        OBVIOUS
      <4> HIDE DEF h
      <4> QED
        BY <3>2, <4>4, <4>5 DEF ScanTurn, r
    <3> QED
      BY <3>1, <3>2
  <2>7. h = [s \in SUBSET (1 .. m) |-> ScanTurn(t, h, s)]
    BY <2>6
  <2> HIDE DEF h
  <2> QED
    BY <2>2, <2>7
<1>2. Exists(n)
  BY <1>1
<1>3. Scans(t) = [s \in SUBSET (1 .. n) |-> ScanTurn(t, Scans(t), s)]
  BY <1>2 DEF Scans
<1> QED
  BY <1>3

LEMMA ScanEmpty == Scan(<<>>) = Scanned
<1>1. DOMAIN <<>> = 1 .. 0 /\ 1 .. 0 = {}
  OBVIOUS
<1>2. Scans(<<>>)[{}] = ScanTurn(<<>>, Scans(<<>>), {})
  BY <1>1, EachScan
<1> QED
  BY <1>1, <1>2, ScanUnfold DEF ScanTurn

LEMMA ScanAppend ==
  ASSUME NEW B, NEW t \in Seq(B), NEW b \in B
  PROVE  Scan(Append(t, b)) = DecodeByte(Scan(t), b)
<1> DEFINE n == Len(t)
           h == Append(t, b)
<1>1. /\ n \in Nat /\ DOMAIN t = 1 .. n /\ DOMAIN h = 1 .. n + 1
      /\ h[n + 1] = b /\ \A i \in 1 .. n : h[i] = t[i]
  <2>1. /\ n \in Nat /\ DOMAIN t = 1 .. n
        /\ h \in Seq(B) /\ Len(h) = n + 1
        /\ h[n + 1] = b /\ \A i \in 1 .. n : h[i] = t[i]
    BY AppendProperties, LenProperties
  <2> HIDE DEF h
  <2>2. DOMAIN h = 1 .. n + 1
    BY <2>1
  <2> QED
    BY <2>1, <2>2
<1> HIDE DEF h, n
<1>2. /\ \A s \in SUBSET (1 .. n + 1) : Scans(h)[s] = ScanTurn(h, Scans(h), s)
      /\ \A s \in SUBSET (1 .. n) : Scans(t)[s] = ScanTurn(t, Scans(t), s)
  BY <1>1, EachScan
<1> DEFINE Bad == {k \in 0 .. n : Scans(h)[1 .. k] # Scans(t)[1 .. k]}
<1>3. ASSUME NEW k \in 1 .. n + 1
      PROVE  Max(1 .. k) = k /\ (1 .. k) \ {k} = 1 .. k - 1 /\ 1 .. k # {}
  <2>1. k \in Nat /\ k - 1 \in Nat /\ (k - 1) + 1 = k /\ k \in 1 .. k
    BY <1>1
  <2>2. ASSUME NEW m \in Nat, m + 1 = k PROVE Max(1 .. k) = k
    BY <2>1, <2>2, MaxIsLast
  <2>3. (1 .. k) \ {k} = 1 .. k - 1
    BY <2>1
  <2> QED
    BY <2>1, <2>2, <2>3
<1>4. ASSUME Bad # {} PROVE FALSE
  <2>1. PICK k \in Bad : \A j \in Bad : k <= j
    <3>1. Bad \in SUBSET Nat
      OBVIOUS
    <3> HIDE DEF Bad
    <3> QED
      BY <1>4, <3>1, LeastNumber
  <2>2. k \in 0 .. n /\ Scans(h)[1 .. k] # Scans(t)[1 .. k]
    OBVIOUS
  <2>3. 1 .. k \in SUBSET (1 .. n) /\ 1 .. k \in SUBSET (1 .. n + 1)
    BY <1>1, <2>2
  <2>4. k # 0
    <3>1. ASSUME k = 0 PROVE 1 .. k = {}
      BY <3>1
    <3> QED
      BY <1>2, <2>2, <2>3, <3>1 DEF ScanTurn
  <2>5. k \in 1 .. n + 1 /\ k \in 1 .. n /\ k - 1 \in 0 .. n /\ ~ (k <= k - 1)
    BY <1>1, <2>2, <2>4
  <2>6. Scans(h)[1 .. k - 1] = Scans(t)[1 .. k - 1]
    <3>1. k - 1 \notin Bad
      <4> HIDE DEF Bad
      <4> QED
        BY <2>1, <2>5
    <3> QED
      BY <2>5, <3>1
  <2>7. Max(1 .. k) = k /\ (1 .. k) \ {k} = 1 .. k - 1 /\ 1 .. k # {}
    BY <1>3, <2>5
  <2>8. Scans(h)[1 .. k] = DecodeByte(Scans(h)[1 .. k - 1], h[k])
    BY <1>2, <2>3, <2>7 DEF ScanTurn
  <2>9. Scans(t)[1 .. k] = DecodeByte(Scans(t)[1 .. k - 1], t[k])
    BY <1>2, <2>3, <2>7 DEF ScanTurn
  <2> QED
    BY <1>1, <2>2, <2>5, <2>6, <2>8, <2>9
<1>5. Scans(h)[1 .. n] = Scans(t)[1 .. n]
  BY <1>1, <1>4
<1>6. n + 1 \in 1 .. n + 1 /\ (n + 1) - 1 = n
  BY <1>1
<1>7. Max(1 .. n + 1) = n + 1 /\ (1 .. n + 1) \ {n + 1} = 1 .. n /\ 1 .. n + 1 # {}
  BY <1>3, <1>6
<1>8. Scans(h)[1 .. n + 1] = DecodeByte(Scans(t)[1 .. n], b)
  BY <1>1, <1>2, <1>5, <1>7 DEF ScanTurn
<1> QED
  BY <1>1, <1>8, ScanUnfold DEF h

-----------------------------------------------------------------------------
(* The two digits of a byte.                                               *)
LEMMA HexOfByte ==
  ASSUME NEW b \in Bytes
  PROVE  /\ dec2hexChar(b \div 16) \in Alphanumeric
         /\ dec2hexChar(b % 16) \in Alphanumeric
         /\ 16 * HexDigit(dec2hexChar(b \div 16)) + HexDigit(dec2hexChar(b % 16)) = b
<1> DEFINE high == b \div 16
           low == b % 16
<1>1. high \in 0 .. 15 /\ low \in 0 .. 15 /\ b = 16 * high + low
  BY DEF Bytes
<1> HIDE DEF high, low
<1>2. \A n \in 0 .. 15 : HexDigit(dec2hexChar(n)) = n /\ dec2hexChar(n) \in Alphanumeric
  BY DEF HexDigit, dec2hexChar, Alphanumeric
<1>3. /\ HexDigit(dec2hexChar(high)) = high /\ dec2hexChar(high) \in Alphanumeric
      /\ HexDigit(dec2hexChar(low)) = low /\ dec2hexChar(low) \in Alphanumeric
  BY <1>1, <1>2
<1> QED
  BY <1>1, <1>3 DEF high, low

(* Of every char, also of one that is negative, escapeURL writes a byte    *)
(* that stands for itself, or "%" and the two digits of its byte.          *)
THEOREM EscapeLosesNothing ==
  \A c \in -128 .. 127 :
    \/ escapeChar(c) = <<c>> /\ c \in Alphanumeric \cup {46, 47}
    \/ /\ Len(escapeChar(c)) = 3 /\ escapeChar(c)[1] = 37
       /\ 16 * HexDigit(escapeChar(c)[2]) + HexDigit(escapeChar(c)[3]) = Byte(c)
<1> SUFFICES ASSUME NEW c \in -128 .. 127,
                    c \notin Alphanumeric \cup {46, 47}
             PROVE  /\ Len(escapeChar(c)) = 3 /\ escapeChar(c)[1] = 37
                    /\ 16 * HexDigit(escapeChar(c)[2])
                         + HexDigit(escapeChar(c)[3]) = Byte(c)
  BY DEF escapeChar
<1>1. Byte(c) \in Bytes
  BY DEF Byte, Bytes
<1>2. escapeChar(c) = <<37, dec2hexChar(Byte(c) \div 16),
                        dec2hexChar(Byte(c) % 16)>>
  BY DEF escapeChar
<1> QED
  BY <1>1, <1>2, HexOfByte

(* What a decoder makes of w is b.                                         *)
StandsFor(w, b) ==
  \/ w = <<b>> /\ b # 37 /\ b # 43
  \/ \E h, l \in Bytes : w = <<37, h, l>> /\ 16 * HexDigit(h) + HexDigit(l) = b

LEMMA AppendThree ==
  ASSUME NEW B, NEW t \in Seq(B), NEW x \in B, NEW y \in B, NEW z \in B
  PROVE  t \o <<x, y, z>> = Append(Append(Append(t, x), y), z)
<1> DEFINE n == Len(t)
           w == <<x, y, z>>
           t1 == Append(t, x)
           t2 == Append(t1, y)
           t3 == Append(t2, z)
<1>1. w \in Seq(B) /\ Len(w) = 3 /\ w[1] = x /\ w[2] = y /\ w[3] = z
  OBVIOUS
<1>2. n \in Nat
  BY LenProperties
<1>9. \A v \in Seq(B) :
        /\ t \o v \in Seq(B) /\ Len(t \o v) = n + Len(v)
        /\ \A i \in 1 .. n + Len(v) :
             (t \o v)[i] = IF i <= n THEN t[i] ELSE v[i - n]
  BY ConcatProperties
<1>3. /\ t1 \in Seq(B) /\ Len(t1) = n + 1 /\ t1[n + 1] = x
      /\ \A i \in 1 .. n : t1[i] = t[i]
  BY AppendProperties
<1> HIDE DEF t1
<1>4. /\ t2 \in Seq(B) /\ Len(t2) = (n + 1) + 1 /\ t2[(n + 1) + 1] = y
      /\ \A i \in 1 .. n + 1 : t2[i] = t1[i]
  BY <1>3, AppendProperties
<1> HIDE DEF t2
<1>5. /\ t3 \in Seq(B) /\ Len(t3) = (n + 2) + 1 /\ t3[(n + 2) + 1] = z
      /\ \A i \in 1 .. n + 2 : t3[i] = t2[i]
  <2>1. Len(t2) = n + 2
    BY <1>2, <1>4
  <2> QED
    BY <1>4, <2>1, AppendProperties
<1> HIDE DEF t3, w
<1>6. /\ t \o w \in Seq(B) /\ Len(t \o w) = n + 3
      /\ \A i \in 1 .. n + 3 : (t \o w)[i] = IF i <= n THEN t[i] ELSE w[i - n]
  <2> HIDE DEF n
  <2> QED
    BY <1>1, <1>9
<1> HIDE DEF n
<1>7. ASSUME NEW i \in 1 .. n + 3 PROVE (t \o w)[i] = t3[i]
  <2>1. CASE i <= n
    <3>1. i \in 1 .. n /\ i \in 1 .. n + 1 /\ i \in 1 .. n + 2
      BY <1>2, <2>1
    <3> QED
      BY <1>3, <1>4, <1>5, <1>6, <2>1, <3>1
  <2>2. CASE i = n + 1
    <3>1. i - n = 1 /\ ~ (i <= n) /\ i \in 1 .. n + 1 /\ i \in 1 .. n + 2
      BY <1>2, <2>2
    <3> QED
      BY <1>1, <1>3, <1>4, <1>5, <1>6, <2>2, <3>1
  <2>3. CASE i = n + 2
    <3>1. i - n = 2 /\ ~ (i <= n) /\ i \in 1 .. n + 2 /\ i = (n + 1) + 1
      BY <1>2, <2>3
    <3> QED
      BY <1>1, <1>4, <1>5, <1>6, <2>3, <3>1
  <2>4. CASE i = n + 3
    <3>1. i - n = 3 /\ ~ (i <= n) /\ i = (n + 2) + 1
      BY <1>2, <2>4
    <3> QED
      BY <1>1, <1>5, <1>6, <2>4, <3>1
  <2>5. i <= n \/ i = n + 1 \/ i = n + 2 \/ i = n + 3
    BY <1>2
  <2> QED
    BY <2>1, <2>2, <2>3, <2>4, <2>5
<1>8. Len(t3) = n + 3
  BY <1>2, <1>5
<1> QED
  BY <1>5, <1>6, <1>7, <1>8, SeqEqual DEF t1, t2, t3, w

(* the decoder between two bytes, after "%", and after one digit           *)
LEMMA DecodeSteps ==
  ASSUME NEW u, NEW b, NEW h
  PROVE  /\ b # 37 /\ b # 43 =>
              DecodeByte([triple |-> <<>>, text |-> u], b) =
                [triple |-> <<>>, text |-> Append(u, b)]
         /\ DecodeByte([triple |-> <<>>, text |-> u], 37) =
              [triple |-> <<37>>, text |-> u]
         /\ DecodeByte([triple |-> <<37>>, text |-> u], h) =
              [triple |-> <<37, h>>, text |-> u]
         /\ DecodeByte([triple |-> <<37, h>>, text |-> u], b) =
              [triple |-> <<>>,
               text |-> Append(u, 16 * HexDigit(h) + HexDigit(b))]
<1>1. Len(<<>>) # 2 /\ Len(<<37>>) # 2 /\ <<37>> # <<>>
  OBVIOUS
<1>3. Append(<<>>, 37) = <<37>>
  OBVIOUS
<1>4. Append(<<37>>, h) = <<37, h>>
  <2>1. <<37>> \in Seq({37, h}) /\ Len(<<37>>) = 1 /\ <<37>>[1] = 37
    OBVIOUS
  <2>2. /\ Append(<<37>>, h) \in Seq({37, h}) /\ Len(Append(<<37>>, h)) = 2
        /\ Append(<<37>>, h)[1] = 37 /\ Append(<<37>>, h)[2] = h
    BY <2>1, AppendProperties
  <2>3. /\ <<37, h>> \in Seq({37, h}) /\ Len(<<37, h>>) = 2
        /\ <<37, h>>[1] = 37 /\ <<37, h>>[2] = h
    OBVIOUS
  <2>4. \A i \in 1 .. 2 : i = 1 \/ i = 2
    OBVIOUS
  <2> QED
    BY <2>2, <2>3, <2>4, SeqEqual
<1>2. Len(<<37, h>>) = 2 /\ <<37, h>>[2] = h
  OBVIOUS
<1> QED
  BY <1>1, <1>2, <1>3, <1>4 DEF DecodeByte

LEMMA DecodeWord ==
  ASSUME NEW t \in Seq(Bytes), NEW u \in Seq(Bytes), NEW b \in Bytes,
         NEW w \in Seq(Bytes), StandsFor(w, b),
         Scan(t) = [triple |-> <<>>, text |-> u]
  PROVE  Scan(t \o w) = [triple |-> <<>>, text |-> Append(u, b)]
<1>1. CASE w = <<b>> /\ b # 37 /\ b # 43
  <2>1. t \o w = Append(t, b)
    BY <1>1, AppendIsConcat
  <2>2. Scan(t \o w) = DecodeByte(Scan(t), b)
    BY <2>1, ScanAppend
  <2> QED
    BY <1>1, <2>2, DecodeSteps
<1>2. ASSUME NEW h \in Bytes, NEW l \in Bytes, w = <<37, h, l>>,
             16 * HexDigit(h) + HexDigit(l) = b
      PROVE  Scan(t \o w) = [triple |-> <<>>, text |-> Append(u, b)]
  <2>1. 37 \in Bytes
    BY DEF Bytes
  <2>2. t \o w = Append(Append(Append(t, 37), h), l)
    BY <1>2, <2>1, AppendThree
  <2>3. Append(t, 37) \in Seq(Bytes) /\ Append(Append(t, 37), h) \in Seq(Bytes)
    BY <2>1, AppendProperties
  <2>4. Scan(Append(t, 37)) = [triple |-> <<37>>, text |-> u]
    <3>1. Scan(Append(t, 37)) = DecodeByte(Scan(t), 37)
      BY <2>1, ScanAppend
    <3> QED
      BY <3>1, DecodeSteps
  <2>5. Scan(Append(Append(t, 37), h)) = [triple |-> <<37, h>>, text |-> u]
    <3>1. Scan(Append(Append(t, 37), h)) = DecodeByte(Scan(Append(t, 37)), h)
      BY <2>3, ScanAppend
    <3> QED
      BY <2>4, <3>1, DecodeSteps
  <2>6. Scan(t \o w) = DecodeByte([triple |-> <<37, h>>, text |-> u], l)
    BY <2>2, <2>3, <2>5, ScanAppend
  <2>7. Scan(t \o w) = [triple |-> <<>>,
                        text |-> Append(u, 16 * HexDigit(h) + HexDigit(l))]
    BY <2>6, DecodeSteps
  <2> QED
    BY <1>2, <2>7
<1> QED
  BY <1>1, <1>2 DEF StandsFor

LEMMA DecodeWords ==
  ASSUME NEW enc \in [Bytes -> Seq(Bytes)],
         \A b \in Bytes : StandsFor(enc[b], b),
         NEW t \in Seq(Bytes)
  PROVE  Decoded(Words(enc, t)) = t
<1> DEFINE T == {s \in Seq(Bytes) :
                   Scan(Words(enc, s)) = [triple |-> <<>>, text |-> s]}
<1>0. /\ Words(enc, <<>>) = <<>>
      /\ \A s \in Seq(Bytes) : Words(enc, s) \in Seq(Bytes)
      /\ \A s \in Seq(Bytes), b \in Bytes :
           Words(enc, Append(s, b)) = Words(enc, s) \o enc[b]
  BY WordsAppend, Zenon
<1>1. T \in SUBSET Seq(Bytes)
  OBVIOUS
<1>2. <<>> \in T
  BY <1>0, ScanEmpty, EmptySeq DEF Scanned
<1>3. ASSUME NEW s \in T, NEW b \in Bytes PROVE Append(s, b) \in T
  <2>1. s \in Seq(Bytes) /\ Append(s, b) \in Seq(Bytes)
        /\ Scan(Words(enc, s)) = [triple |-> <<>>, text |-> s]
    BY AppendProperties
  <2>2. Words(enc, s) \in Seq(Bytes) /\ enc[b] \in Seq(Bytes) /\ StandsFor(enc[b], b)
    BY <1>0, <2>1
  <2>3. Scan(Words(enc, s) \o enc[b]) = [triple |-> <<>>, text |-> Append(s, b)]
    BY <2>1, <2>2, DecodeWord
  <2> QED
    BY <1>0, <2>1, <2>3
<1>4. Seq(Bytes) \subseteq T
  <2> HIDE DEF T
  <2> QED
    BY <1>1, <1>2, <1>3, EachSequence
<1>5. Scan(Words(enc, t)) = [triple |-> <<>>, text |-> t]
  BY <1>4
<1>6. Decoded(Words(enc, t)) = Scan(Words(enc, t)).text
  BY DEF Decoded, Scan, Scanned
<1> QED
  BY <1>5, <1>6

-----------------------------------------------------------------------------
(* The two writings: escapeURL's and the exchange's.                       *)
UrlBytes == Alphanumeric \cup {37, 46, 47}

EscapedBytes == [b \in Bytes |-> escapeChar(b)]
EncodedBytes == [b \in Bytes |-> EncodeChar(b)]

LEMMA WritingOfBytes ==
  /\ EscapedBytes \in [Bytes -> Seq(UrlBytes)]
  /\ EscapedBytes \in [Bytes -> Seq(Bytes)]
  /\ EncodedBytes \in [Bytes -> Seq(Bytes)]
  /\ \A b \in Bytes : StandsFor(EscapedBytes[b], b) /\ StandsFor(EncodedBytes[b], b)
<1> SUFFICES ASSUME NEW b \in Bytes
             PROVE  /\ escapeChar(b) \in Seq(UrlBytes) /\ escapeChar(b) \in Seq(Bytes)
                    /\ EncodeChar(b) \in Seq(Bytes)
                    /\ StandsFor(escapeChar(b), b) /\ StandsFor(EncodeChar(b), b)
  BY DEF EscapedBytes, EncodedBytes
<1> DEFINE high == dec2hexChar(b \div 16)
           low == dec2hexChar(b % 16)
<1>1. Byte(b) = b
  BY DEF Byte, Bytes
<1>2. /\ high \in Alphanumeric /\ low \in Alphanumeric
      /\ 16 * HexDigit(high) + HexDigit(low) = b
  BY HexOfByte
<1>3. /\ escapeChar(b) = IF b \in Alphanumeric \cup {46, 47} THEN <<b>>
                         ELSE <<37, high, low>>
      /\ EncodeChar(b) = IF b \in Unreserved THEN <<b>> ELSE <<37, high, low>>
  BY <1>1 DEF escapeChar, EncodeChar
<1> HIDE DEF high, low
<1>4. /\ Alphanumeric \subseteq Bytes /\ UrlBytes \subseteq Bytes /\ Unreserved \subseteq Bytes
      /\ 37 \notin Alphanumeric /\ 43 \notin Alphanumeric
      /\ 37 \notin Unreserved /\ 43 \notin Unreserved
      /\ Alphanumeric \subseteq UrlBytes /\ 37 \in UrlBytes
  BY DEF Alphanumeric, Bytes, UrlBytes, Unreserved
<1>5. /\ <<37, high, low>> \in Seq(UrlBytes) /\ <<37, high, low>> \in Seq(Bytes)
      /\ StandsFor(<<37, high, low>>, b)
  BY <1>2, <1>4 DEF StandsFor
<1>7. b \in Unreserved => EncodeChar(b) \in Seq(Bytes) /\ StandsFor(EncodeChar(b), b)
  BY <1>3, <1>4 DEF StandsFor
<1>8. /\ escapeChar(b) \in Seq(UrlBytes) /\ escapeChar(b) \in Seq(Bytes)
      /\ StandsFor(escapeChar(b), b)
  <2>1. CASE b \in Alphanumeric \cup {46, 47}
    <3>1. b \in UrlBytes /\ b # 37 /\ b # 43
      BY <1>4, <2>1 DEF UrlBytes
    <3> QED
      BY <1>3, <2>1, <3>1 DEF StandsFor
  <2>2. CASE b \notin Alphanumeric \cup {46, 47}
    BY <1>3, <1>5, <2>2
  <2> QED
    BY <2>1, <2>2
<1> QED
  BY <1>3, <1>5, <1>7, <1>8

LEMMA Writings ==
  ASSUME NEW t \in Seq(Bytes)
  PROVE  escapeURL(t) = Words(EscapedBytes, t) /\ Encoded(t) = Words(EncodedBytes, t)
<1>1. DOMAIN t = 1 .. Len(t) /\ \A i \in DOMAIN t : t[i] \in Bytes
  BY LenProperties, ElementOfSeq
<1>2. /\ [i \in DOMAIN t |-> escapeChar(t[i])] = [i \in DOMAIN t |-> EscapedBytes[t[i]]]
      /\ [i \in DOMAIN t |-> EncodeChar(t[i])] = [i \in DOMAIN t |-> EncodedBytes[t[i]]]
  BY <1>1 DEF EscapedBytes, EncodedBytes
<1> QED
  BY <1>2 DEF escapeURL, Encoded, Words

(* Whatever text goes into the URL escaped, the exchange reads that text.  *)
THEOREM EscapedTextComesThrough ==
  \A text \in Seq(Bytes) : Decoded(escapeURL(text)) = text
BY DecodeWords, WritingOfBytes, Writings

(* A text of unreserved bytes is encoded as it is, that of the time too.   *)
LEMMA UnreservedIsItself ==
  ASSUME NEW t \in Seq(Unreserved)
  PROVE  t \in Seq(Bytes) /\ Encoded(t) = t /\ Decoded(t) = t
<1>1. Unreserved \subseteq Bytes /\ \A b \in Unreserved : EncodedBytes[b] = <<b>>
  BY DEF Unreserved, Alphanumeric, Bytes, EncodedBytes, EncodeChar
<1>2. t \in Seq(Bytes)
  BY <1>1, SeqMonotonic
<1>3. Words(EncodedBytes, t) = t
  BY <1>1, WritingOfBytes, WordsPlain
<1>4. Decoded(Words(EncodedBytes, t)) = t
  BY <1>2, WritingOfBytes, DecodeWords
<1> QED
  BY <1>2, <1>3, <1>4, Writings

-----------------------------------------------------------------------------
(* What is signed is what the exchange recomputes.                         *)
LEMMA TimeComesThrough ==
  ASSUME NEW time \in Times
  PROVE  Encoded(Decoded(timeBuf(time))) = timeBuf(time)
<1> DEFINE h == time.hour
           m == time.minute
           s == time.second
           c == <<58>>
           W(t) == Words(EncodedBytes, t)
<1>1. /\ h \in Seq(Unreserved) /\ m \in Seq(Unreserved) /\ s \in Seq(Unreserved)
  BY RequestTextAssumption
<1>2. /\ h \in Seq(Bytes) /\ m \in Seq(Bytes) /\ s \in Seq(Bytes)
      /\ Encoded(h) = h /\ Encoded(m) = m /\ Encoded(s) = s
  BY <1>1, UnreservedIsItself
<1>3. W(h) = h /\ W(m) = m /\ W(s) = s
  BY <1>2, Writings
<1>4. 58 \in Bytes /\ 58 \notin Unreserved
  BY DEF Bytes, Unreserved, Alphanumeric
<1>5. c \in Seq(Bytes) /\ c = Append(<<>>, 58) /\ <<>> \in Seq(Bytes)
  BY <1>4
<1>0. /\ W(<<>>) = <<>>
      /\ \A t \in Seq(Bytes), b \in Bytes :
           W(Append(t, b)) = W(t) \o EncodedBytes[b]
  <2>1. EncodedBytes \in [Bytes -> Seq(Bytes)]
    BY WritingOfBytes
  <2> QED
    BY <2>1, WordsAppend, Zenon
<1>6. W(c) = Colon
  <2>1. EncodedBytes[58] = Colon
    <3>1. 58 \div 16 = 3 /\ 58 % 16 = 10
      OBVIOUS
    <3>2. dec2hexChar(3) = 51 /\ dec2hexChar(10) = 65
      BY DEF dec2hexChar
    <3> QED
      BY <1>4, <3>1, <3>2 DEF EncodedBytes, EncodeChar, Colon
  <2>2. EncodedBytes \in [Bytes -> Seq(Bytes)]
    BY WritingOfBytes
  <2>3. /\ W(<<>>) = <<>>
        /\ W(Append(<<>>, 58)) = W(<<>>) \o EncodedBytes[58]
    BY <1>0, <1>4, <1>5
  <2>4. Colon \in Seq(Bytes)
    BY <1>4, <2>1, <2>2
  <2> QED
    BY <1>5, <2>1, <2>3, <2>4, ConcatEmptySeq
<1> HIDE DEF W, c, h, m, s
<1>7. ASSUME NEW t \in Seq(Bytes), NEW v \in Seq(Bytes)
      PROVE  t \o v \in Seq(Bytes) /\ W(t \o v) = W(t) \o W(v)
  <2>1. t \o v \in Seq(Bytes)
    BY ConcatProperties
  <2>2. EncodedBytes \in [Bytes -> Seq(Bytes)]
    BY WritingOfBytes
  <2>3. W(t \o v) = W(t) \o W(v)
    BY <2>2, WordsConcat DEF W
  <2> QED
    BY <2>1, <2>3
<1>8. h \o c \in Seq(Bytes) /\ W(h \o c) = h \o Colon
  BY <1>2, <1>3, <1>5, <1>6, <1>7
<1>9. h \o c \o m \in Seq(Bytes) /\ W(h \o c \o m) = h \o Colon \o m
  BY <1>2, <1>3, <1>7, <1>8
<1>10. h \o c \o m \o c \in Seq(Bytes) /\ W(h \o c \o m \o c) = h \o Colon \o m \o Colon
  BY <1>5, <1>6, <1>7, <1>9
<1> DEFINE raw == h \o c \o m \o c \o s
<1>11. raw \in Seq(Bytes) /\ W(raw) = timeBuf(time)
  <2>1. raw \in Seq(Bytes) /\ W(raw) = h \o Colon \o m \o Colon \o s
    BY <1>2, <1>3, <1>7, <1>10
  <2> QED
    BY <2>1 DEF timeBuf, h, m, s
<1> HIDE DEF raw
<1>12. Decoded(W(raw)) = raw /\ Encoded(raw) = W(raw)
  BY <1>11, DecodeWords, WritingOfBytes, Writings DEF W
<1> QED
  BY <1>11, <1>12

LEMMA InOrderOfRanks ==
  ASSUME NEW params, NEW n \in Nat, DOMAIN params = 1 .. n,
         \A i \in 1 .. n : params[i].name = i,
         NEW i \in 1 .. n
  PROVE  InOrder(params, i) = params[i]
<1>1. ASSUME NEW j \in 1 .. n
      PROVE  Cardinality({k \in DOMAIN params : params[k].name < params[j].name}) = j - 1
  <2>1. {k \in DOMAIN params : params[k].name < params[j].name} = 1 .. j - 1
    BY <1>1
  <2>2. Cardinality(1 .. j - 1) = j - 1
    BY <1>1, FS_Interval
  <2> QED
    BY <2>1, <2>2
<1>2. ToSet(params) = {params[j] : j \in 1 .. n}
  BY DEF ToSet
<1>3. ASSUME NEW p \in ToSet(params),
             Cardinality({k \in DOMAIN params : params[k].name < p.name}) = i - 1
      PROVE  p = params[i]
  <2>1. PICK j \in 1 .. n : p = params[j]
    BY <1>2
  <2>2. j - 1 = i - 1
    BY <1>1, <1>3, <2>1
  <2> QED
    BY <2>1, <2>2
<1>4. params[i] \in ToSet(params)
  BY <1>2
<1> QED
  BY <1>1, <1>3, <1>4 DEF InOrder

LEMMA ParamsByName ==
  ASSUME NEW key, NEW time, NEW param
  PROVE  LET p == Params(key, time, param) IN
         \E n \in Nat :
           /\ DOMAIN p = 1 .. n /\ p = [i \in 1 .. n |-> p[i]]
           /\ \A i \in 1 .. n :
                /\ p[i] = [name |-> p[i].name, text |-> p[i].text]
                /\ p[i].name = i
                /\ p[i].text \in {key, Plain, timeBuf(time), param}
<1> DEFINE p == Params(key, time, param)
           four == << [name |-> 1, text |-> key], [name |-> 2, text |-> Plain],
                      [name |-> 3, text |-> Plain],
                      [name |-> 4, text |-> timeBuf(time)] >>
           fifth == [name |-> 5, text |-> param]
           R == [name : 1 .. 5, text : {key, Plain, timeBuf(time), param}]
<1>1. four \in Seq(R) /\ Len(four) = 4 /\ fifth \in R
  OBVIOUS
<1>2. \A i \in 1 .. 4 : four[i].name = i
  <2>1. /\ four[1].name = 1 /\ four[2].name = 2
        /\ four[3].name = 3 /\ four[4].name = 4
    OBVIOUS
  <2>2. \A i \in 1 .. 4 : i = 1 \/ i = 2 \/ i = 3 \/ i = 4
    OBVIOUS
  <2> HIDE DEF four
  <2> QED
    BY <2>1, <2>2
<1>3. p = four \o (IF param = <<>> THEN <<>> ELSE <<fifth>>)
  BY DEF Params
<1>4. fifth.name = 5
  OBVIOUS
<1>7. \A x \in R : /\ x = [name |-> x.name, text |-> x.text]
                   /\ x.text \in {key, Plain, timeBuf(time), param}
  OBVIOUS
<1> HIDE DEF four, fifth, p, R
<1>8. ASSUME NEW n \in Nat, p \in Seq(R), Len(p) = n,
             \A i \in 1 .. n : p[i].name = i
      PROVE  \E m \in Nat :
               /\ DOMAIN p = 1 .. m /\ p = [i \in 1 .. m |-> p[i]]
               /\ \A i \in 1 .. m :
                    /\ p[i] = [name |-> p[i].name, text |-> p[i].text]
                    /\ p[i].name = i
                    /\ p[i].text \in {key, Plain, timeBuf(time), param}
  <2>1. p \in [1 .. n -> R]
    BY <1>8, LenProperties
  <2>2. DOMAIN p = 1 .. n /\ p = [i \in 1 .. n |-> p[i]] /\ \A i \in 1 .. n : p[i] \in R
    BY <2>1
  <2> QED
    BY <1>7, <1>8, <2>2
<1>5. CASE param = <<>>
  <2>1. p = four
    BY <1>1, <1>3, <1>5, ConcatEmptySeq
  <2> QED
    BY <1>1, <1>2, <1>8, <2>1 DEF p
<1>6. CASE param # <<>>
  <2>1. p = Append(four, fifth)
    BY <1>1, <1>3, <1>6, AppendIsConcat
  <2>2. /\ p \in Seq(R) /\ Len(p) = 5 /\ p[5] = fifth
        /\ \A i \in 1 .. 4 : p[i] = four[i]
    <3>1. ASSUME NEW f \in Seq(R), NEW x \in R
          PROVE  /\ Append(f, x) \in Seq(R) /\ Len(Append(f, x)) = Len(f) + 1
                 /\ Append(f, x)[Len(f) + 1] = x
                 /\ \A i \in 1 .. Len(f) : Append(f, x)[i] = f[i]
      BY AppendProperties
    <3>2. /\ p \in Seq(R) /\ Len(p) = Len(four) + 1 /\ p[Len(four) + 1] = fifth
          /\ \A i \in 1 .. Len(four) : p[i] = four[i]
      BY <1>1, <2>1, <3>1
    <3>3. Len(four) = 4 /\ Len(four) + 1 = 5
      BY <1>1
    <3> QED
      BY <3>2, <3>3
  <2>4. \A i \in 1 .. 5 : p[i].name = i
    <3>1. \A i \in 1 .. 5 : i \in 1 .. 4 \/ i = 5
      OBVIOUS
    <3> QED
      BY <1>2, <1>4, <2>2, <3>1
  <2> QED
    BY <1>8, <2>2, <2>4 DEF p
<1> QED
  BY <1>5, <1>6

LEMMA RequestParam ==
  ASSUME NEW r \in Requests
  PROVE  /\ r.param = <<>> \/ r.param \in ClientIds
         /\ r.expired_seconds \in Nat
<1>1. CASE \E target : r = [target |-> target, param |-> <<>>,
                           expired_seconds |-> Expired]
  BY <1>1, ExpiryAssumption
<1>2. CASE \E id \in ClientIds :
             r = [target |-> "GET getClientOrder", param |-> id,
                  expired_seconds |-> Expired + Longer]
  <2>1. PICK id \in ClientIds :
          r = [target |-> "GET getClientOrder", param |-> id,
               expired_seconds |-> Expired + Longer]
    BY <1>2
  <2>2. r.param = id /\ r.expired_seconds = Expired + Longer
    BY <2>1
  <2> QED
    BY <2>2, ExpiryAssumption
<1> QED
  BY <1>1, <1>2, Zenon DEF Requests

(* A URL of the plugin that is signed with the right key.                  *)
LEMMA SignatureVerifies ==
  ASSUME NEW r \in Requests, NEW key \in AccessKeys, NEW time \in Times,
         NEW c \in Codes
  PROVE  Verified(SignedUrl(r, key, TheSecretKey, time, c))
<1> DEFINE u == SignedUrl(r, key, TheSecretKey, time, c)
           p == Params(key, time, r.param)
<1>1. /\ u.target = r.target /\ u.params = p /\ u.signature = escapeURL(c)
      /\ u.mac.code = c /\ u.mac.secret = TheSecretKey
      /\ u.mac.of = [target |-> r.target, params |-> p]
  BY DEF SignedUrl, Canonical
<1>2. c \in Seq(Bytes) /\ key \in Seq(Unreserved)
  BY RequestTextAssumption
<1>3. r.param \in Seq(Unreserved)
  <2>1. r.param = <<>> \/ r.param \in ClientIds
    BY RequestParam
  <2>2. <<>> \in Seq(Unreserved)
    BY EmptySeq
  <2> QED
    BY <2>1, <2>2, RequestTextAssumption
<1>4. Plain \in Seq(Unreserved)
  BY DEF Plain, Unreserved, Alphanumeric
<1>5. \A t \in {key, Plain, timeBuf(time), r.param} : Encoded(Decoded(t)) = t
  BY <1>2, <1>3, <1>4, UnreservedIsItself, TimeComesThrough
<1>6. PICK n \in Nat :
        /\ DOMAIN p = 1 .. n /\ p = [i \in 1 .. n |-> p[i]]
        /\ \A i \in 1 .. n :
             /\ p[i] = [name |-> p[i].name, text |-> p[i].text]
             /\ p[i].name = i
             /\ p[i].text \in {key, Plain, timeBuf(time), r.param}
  BY ParamsByName
<1> HIDE DEF p, u
<1>7. ASSUME NEW i \in 1 .. n
      PROVE  LET q == InOrder(p, i)
             IN  [q EXCEPT !.text = Encoded(Decoded(q.text))] = p[i]
  <2>1. InOrder(p, i) = p[i]
    BY <1>6, InOrderOfRanks
  <2>2. Encoded(Decoded(p[i].text)) = p[i].text
    BY <1>5, <1>6
  <2>3. [p[i] EXCEPT !.text = p[i].text] = p[i]
    BY <1>6
  <2> QED
    BY <2>1, <2>2, <2>3
<1>9. Recomputed(u) = u.mac.of
  BY <1>1, <1>6, <1>7 DEF Recomputed
<1>10. Decoded(escapeURL(c)) = c
  BY <1>2, EscapedTextComesThrough
<1> QED
  BY <1>1, <1>9, <1>10 DEF Verified, u

-----------------------------------------------------------------------------
(* What the URLs are, and how far an answer has come: no more of it is in  *)
(* the buffer and on its way than there are pieces, and while the request  *)
(* of a call has not arrived nothing is.                                   *)
SignedUrls ==
  {SignedUrl(r, key, secret, time, c) :
     r \in Requests, key \in AccessKeys, secret \in SecretKeys,
     time \in Times, c \in Codes}

UrlInv ==
  /\ url \in SignedUrls \cup {NoUrl}
  /\ \A q \in net : q.url \in SignedUrls

Waiting == phase = "open" /\ \E q \in net : q.no = call_no

CallInv ==
  /\ call_no \in 0 .. MaxCalls
  /\ req \in Requests \cup {NoRequest}
  /\ elapsed \in 0 .. req.expired_seconds
  /\ phase = "idle" => answer.pieces = 0 /\ elapsed = 0
  /\ answer.pieces \in 0 .. Pieces
  /\ Len(sBuffer) <= Pieces
  /\ phase = "open" => answer.pieces + Len(sBuffer) <= Pieces
  /\ Waiting => answer.pieces = 0 /\ sBuffer = <<>>
  /\ result \in {"none", "value", "throw"}

TInv == UrlInv /\ CallInv

LEMMA TInit == ASSUME ApiRequestInit PROVE TInv
<1>1. call_no = 0 /\ elapsed = 0 /\ sBuffer = <<>> /\ phase = "idle" /\ net = {}
      /\ req = NoRequest /\ url = NoUrl /\ answer = NoAnswer /\ result = "none"
  BY DEF ApiRequestInit
<1>2. NoRequest.expired_seconds = 0 /\ NoAnswer.pieces = 0
  BY DEF NoRequest, NoAnswer
<1>3. Len(<<>>) = 0
  OBVIOUS
<1> QED
  BY <1>1, <1>2, <1>3, PieceAssumption DEF TInv, UrlInv, CallInv, Waiting

LEMMA ExpiredIsNumber ==
  \A r \in Requests \cup {NoRequest} : r.expired_seconds \in Nat
BY RequestParam DEF NoRequest

LEMMA CallTyped ==
  ASSUME RInv, TInv, HttpCall \/ ThrowsAtOnce
  PROVE  TInv'
<1>1. /\ phase = "idle" /\ call_no' = call_no + 1 /\ call_no < MaxCalls
      /\ answer' = answer /\ answer.pieces = 0
      /\ elapsed' = elapsed /\ elapsed = 0
      /\ call_no \in 0 .. MaxCalls
  BY DEF TInv, CallInv, HttpCall, ThrowsAtOnce, NextCall
<1>2. call_no' \in 0 .. MaxCalls
  BY <1>1, PieceAssumption
<1>3. CASE HttpCall
  <2>1. PICK r \in Requests, key \in AccessKeys \ {<<>>},
             secret \in SecretKeys \ {<<>>}, time \in Times, c \in Codes :
               req' = r /\ url' = SignedUrl(r, key, secret, time, c)
    BY <1>3 DEF HttpCall
  <2>2. /\ sBuffer' = <<>> /\ phase' = "open" /\ result' = result
        /\ net' = net \cup {[no |-> call_no', url |-> url']}
    BY <1>3 DEF HttpCall, FreshBuffer
  <2>3. url' \in SignedUrls
    BY <2>1 DEF SignedUrls
  <2>4. UrlInv'
    BY <2>2, <2>3 DEF TInv, UrlInv
  <2>5. req' \in Requests /\ req'.expired_seconds \in Nat
    BY <2>1, RequestParam
  <2>6. Len(<<>>) = 0
    OBVIOUS
  <2>7. elapsed' \in 0 .. req'.expired_seconds
    BY <1>1, <2>5
  <2>8. 0 \in 0 .. Pieces
    BY PieceAssumption
  <2> QED
    BY <1>1, <1>2, <2>2, <2>4, <2>5, <2>6, <2>7, <2>8, PieceAssumption
       DEF TInv, CallInv
<1>4. CASE ThrowsAtOnce
  <2>1. /\ UNCHANGED <<req, url, net, sBuffer>>
        /\ phase' = "result" /\ result' = "throw"
    BY <1>4 DEF ThrowsAtOnce
  <2> QED
    BY <1>1, <1>2, <2>1 DEF TInv, UrlInv, CallInv, Waiting
<1> QED
  BY <1>3, <1>4

LEMMA ReceiveTyped ==
  ASSUME RInv, TInv, Receive
  PROVE  TInv'
<1> DEFINE piece == [no |-> call_no, piece |-> answer.pieces, ok |-> answer.ok]
<1>1. /\ phase = "open" /\ answer.pieces > 0
      /\ UNCHANGED <<phase, call_no, req, url, net, elapsed, result>>
      /\ sBuffer' = Append(sBuffer, piece)
      /\ answer' = [answer EXCEPT !.pieces = @ - 1]
  BY DEF Receive
<1>2. sBuffer \in Seq(Piece) /\ piece \in Piece
  BY <1>1 DEF RInv, BufferInv, AnswerInv, Piece
<1> HIDE DEF piece
<1>3. Len(sBuffer) \in Nat /\ Len(sBuffer') = Len(sBuffer) + 1
  BY <1>1, <1>2, AppendProperties, LenProperties
<1>4. answer'.pieces = answer.pieces - 1
  BY <1>1 DEF RInv, AnswerInv
<1>5. answer.pieces \in 0 .. Pieces /\ answer.pieces + Len(sBuffer) <= Pieces
      /\ Pieces \in Nat
  BY <1>1, PieceAssumption DEF TInv, CallInv
<1>6. /\ answer'.pieces \in 0 .. Pieces /\ Len(sBuffer') <= Pieces
      /\ answer'.pieces + Len(sBuffer') <= Pieces
  BY <1>1, <1>3, <1>4, <1>5
<1>7. ~ Waiting
  BY <1>1 DEF TInv, CallInv
<1>8. ~ Waiting'
  BY <1>1, <1>7 DEF Waiting
<1> QED
  BY <1>1, <1>6, <1>8 DEF TInv, UrlInv, CallInv

LEMMA EndsTyped ==
  ASSUME RInv, TInv, AnswerEnds \/ Broken \/ TimesOut \/ Return \/ Done \/ Second
                     \/ UNCHANGED httpvars
  PROVE  TInv'
<1>1. UNCHANGED <<call_no, net, sBuffer>>
  BY DEF AnswerEnds, Broken, TimesOut, Perform, Return, Done, Second, httpvars
<1>2. CASE \E c : Perform(c)
  BY <1>1, <1>2 DEF TInv, UrlInv, CallInv, Waiting, Perform
<1>3. CASE Return
  BY <1>1, <1>3 DEF TInv, UrlInv, CallInv, Waiting, Return
<1>4. CASE Done
  <2>1. /\ phase' = "idle" /\ result' = "none" /\ req' = NoRequest
        /\ url' = NoUrl /\ answer' = NoAnswer /\ elapsed' = 0
    BY <1>4 DEF Done
  <2>2. NoRequest.expired_seconds = 0 /\ NoAnswer.pieces = 0
    BY DEF NoRequest, NoAnswer
  <2> QED
    BY <1>1, <2>1, <2>2, PieceAssumption DEF TInv, UrlInv, CallInv, Waiting
<1>5. CASE Second
  <2>1. /\ UNCHANGED <<phase, req, url, answer, result>> /\ phase = "open"
        /\ elapsed' = elapsed + 1 /\ elapsed < req.expired_seconds
    BY <1>5 DEF Second, Limit
  <2>2. elapsed' \in 0 .. req.expired_seconds
    BY <2>1, ExpiredIsNumber DEF TInv, CallInv
  <2> QED
    BY <1>1, <2>1, <2>2 DEF TInv, UrlInv, CallInv, Waiting
<1>6. CASE UNCHANGED httpvars
  BY <1>6 DEF TInv, UrlInv, CallInv, Waiting, httpvars
<1> QED
  BY <1>2, <1>3, <1>4, <1>5, <1>6 DEF AnswerEnds, Broken, TimesOut

LEMMA ArriveTyped ==
  ASSUME RInv, TInv, NEW r \in net, Arrive(r) \/ Lost(r)
  PROVE  TInv'
<1>1. /\ UNCHANGED <<phase, call_no, req, url, sBuffer, elapsed, result>>
      /\ net' = net \ {r}
  BY DEF Arrive, Lost
<1>2. UrlInv'
  BY <1>1 DEF TInv, UrlInv
<1>3. CASE answer' = answer
  BY <1>1, <1>2, <1>3 DEF TInv, CallInv, Waiting
<1>4. ASSUME NEW ok, answer' = [begun |-> TRUE, pieces |-> Pieces, ok |-> ok],
             phase = "open", r.no = call_no
      PROVE  TInv'
  <2>1. Waiting /\ sBuffer = <<>> /\ answer'.pieces = Pieces
    BY <1>4 DEF Waiting, TInv, CallInv
  <2>2. ~ Waiting'
    BY <1>1, <1>4 DEF Waiting, RInv, ServedInv
  <2>3. Len(<<>>) = 0 /\ Pieces \in 0 .. Pieces /\ Pieces + 0 <= Pieces
    BY PieceAssumption
  <2> QED
    BY <1>1, <1>2, <1>4, <2>1, <2>2, <2>3 DEF TInv, CallInv
<1> QED
  BY <1>3, <1>4 DEF Arrive, Lost

LEMMA TypedInvariance == ApiRequestSpec => []TInv
<1>1. RInv /\ TInv /\ [ApiRequestNext]_httpvars => TInv'
  BY CallTyped, ReceiveTyped, EndsTyped, ArriveTyped
     DEF ApiRequestNext, Calling, Arriving
<1> QED
  BY <1>1, TInit, RequestInvariance, PTL DEF ApiRequestSpec

(* The time of a call stays within its limit, no more of an answer comes   *)
(* than there is, and a signature is of characters that a URL takes.       *)
THEOREM RequestTypes == ApiRequestSpec => []ApiRequestTypeOK
<1>1. RInv /\ TInv => ApiRequestTypeOK
  <2> SUFFICES ASSUME RInv, TInv PROVE ApiRequestTypeOK
    OBVIOUS
  <2>1. ToSet(url.signature) \subseteq Alphanumeric \cup {37, 46, 47}
    <3>1. CASE url = NoUrl
      BY <3>1 DEF NoUrl, ToSet
    <3>2. ASSUME NEW c \in Codes, url.signature = escapeURL(c)
          PROVE  ToSet(url.signature) \subseteq Alphanumeric \cup {37, 46, 47}
      <4>1. c \in Seq(Bytes)
        BY RequestTextAssumption
      <4>2. escapeURL(c) \in Seq(UrlBytes)
        <5>1. EscapedBytes \in [Bytes -> Seq(UrlBytes)]
          BY WritingOfBytes
        <5>2. \A t \in Seq(Bytes) : Words(EscapedBytes, t) \in Seq(UrlBytes)
          BY <5>1, WordsAppend, Zenon
        <5> QED
          BY <4>1, <5>2, Writings
      <4>3. \A i \in DOMAIN url.signature : url.signature[i] \in UrlBytes
        BY <3>2, <4>2, LenProperties, ElementOfSeq
      <4> QED
        BY <4>3 DEF ToSet, UrlBytes
    <3>3. url # NoUrl => \E c \in Codes : url.signature = escapeURL(c)
      BY DEF TInv, UrlInv, SignedUrls, SignedUrl
    <3> QED
      BY <3>1, <3>2, <3>3
  <2> QED
    BY <2>1 DEF RInv, ServedInv, TInv, CallInv, ApiRequestTypeOK
<1> QED
  BY <1>1, RequestInvariance, TypedInvariance, PTL

(* With the right key every request of the plugin verifies: what it signs, *)
(* and how it writes it, is what the exchange puts together again.         *)
THEOREM SignaturesVerify == ApiRequestSpec => []RequestVerifies
<1>1. TInv => RequestVerifies
  <2> SUFFICES ASSUME TInv, NEW q \in net, q.url.mac.secret = TheSecretKey
               PROVE  Verified(q.url)
    BY DEF RequestVerifies
  <2>1. PICK r \in Requests, key \in AccessKeys, secret \in SecretKeys,
             time \in Times, c \in Codes :
               q.url = SignedUrl(r, key, secret, time, c)
    BY DEF TInv, UrlInv, SignedUrls
  <2>2. secret = TheSecretKey
    BY <2>1 DEF SignedUrl
  <2> QED
    BY <2>1, <2>2, SignatureVerifies
<1> QED
  BY <1>1, TypedInvariance, PTL

=============================================================================
