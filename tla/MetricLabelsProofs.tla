--------------------------- MODULE MetricLabelsProofs ---------------------------
(***************************************************************************)
(* Proofs about MetricLabels, for any labels, authorities and streams and  *)
(* whatever capacity append gives the plugin's array.                      *)
(***************************************************************************)
EXTENDS MetricLabels, SequenceTheorems, TLAPS

\* What a stream's slice and counter are at each stage.  A stream that appended
\* its authority either has a copy, or has it right behind the plugin's labels,
\* where another stream may overwrite it.
StreamInv(s) ==
  /\ ~Started => stage[s] = "none"
  /\ stage[s] = "none" => slice[s] = NoSlice
  /\ stage[s] = "created" => slice[s] = [own |-> <<>>, len |-> length]
  /\ stage[s] \in {"serving", "interrupted"} =>
       IF serves[s] = Default
       THEN slice[s] = [own |-> <<>>, len |-> length]
       ELSE /\ slice[s].len = length + 1
            /\ slice[s].own # <<>> => slice[s].own = metricLabelsKV \o <<serves[s]>>
  /\ stage[s] = "interrupted" =>
       IF serves[s] = Default
       THEN counted[s] = metricLabelsKV
       ELSE length = Len(array) => counted[s] = Ours(s)

IInv == TypeOK /\ \A s \in Streams : StreamInv(s)

-----------------------------------------------------------------------------
(* The array.                                                              *)

\* A prefix of a sequence.
LEMMA Prefix ==
  ASSUME NEW seq \in Seq(Cells), NEW n \in 0..Len(seq)
  PROVE  /\ SubSeq(seq, 1, n) \in Seq(Cells)
         /\ Len(SubSeq(seq, 1, n)) = n
         /\ \A i \in 1..n : SubSeq(seq, 1, n)[i] = seq[i]
<1>1. n \in Int /\ 1 \in Int /\ \A i \in 1..n : seq[i] \in Cells
  BY ElementOfSeq
<1>2. /\ SubSeq(seq, 1, n) \in Seq(Cells)
      /\ Len(SubSeq(seq, 1, n)) = IF 1 <= n THEN n - 1 + 1 ELSE 0
      /\ \A i \in 1..n - 1 + 1 : SubSeq(seq, 1, n)[i] = seq[1 + i - 1]
  BY <1>1, SubSeqProperties
<1> QED BY <1>1, <1>2

\* Writing behind a prefix of the array leaves the prefix as it was.
LEMMA InPlaceKeeps ==
  ASSUME TypeOK, NEW cell \in Cells, NEW len \in length..Len(array) - 1
  PROVE  /\ InPlace(cell, len) \in Seq(Cells)
         /\ Len(InPlace(cell, len)) = Len(array)
         /\ SubSeq(InPlace(cell, len), 1, length) = metricLabelsKV
<1> DEFINE new == InPlace(cell, len)
<1>1. array \in Seq(Cells) /\ Len(array) \in Nat /\ length \in 0..Len(array)
  BY LenProperties DEF TypeOK
<1>2. len + 1 \in 1..Len(array) /\ len >= length
  BY <1>1
<1>3. /\ new \in Seq(Cells)
      /\ Len(new) = Len(array)
      /\ \A j \in 1..Len(array) : new[j] = IF j = len + 1 THEN cell ELSE array[j]
  BY <1>1, <1>2, ExceptSeq DEF InPlace
<1>4. \A j \in 1..length : new[j] = array[j]
  BY <1>1, <1>2, <1>3
<1>5. /\ SubSeq(new, 1, length) \in Seq(Cells)
      /\ Len(SubSeq(new, 1, length)) = length
      /\ \A i \in 1..length : SubSeq(new, 1, length)[i] = new[i]
  BY <1>1, <1>3, Prefix
<1>6. /\ metricLabelsKV \in Seq(Cells)
      /\ Len(metricLabelsKV) = length
      /\ \A i \in 1..length : metricLabelsKV[i] = array[i]
  BY <1>1, Prefix DEF metricLabelsKV
<1>7. SubSeq(new, 1, length) = metricLabelsKV
  <2>1. \A i \in 1..Len(metricLabelsKV) : SubSeq(new, 1, length)[i] = metricLabelsKV[i]
    BY <1>4, <1>5, <1>6
  <2> HIDE DEF new
  <2> QED BY <1>5, <1>6, <2>1, SeqEqual
<1> QED BY <1>3, <1>7

\* An array that replaces a full one is longer than that.
LEMMA GrownType ==
  ASSUME NEW cell \in Cells, array \in Seq(Cells), NEW new \in Grown(cell)
  PROVE  new \in Seq(Cells) /\ Len(new) >= Len(array) + 1
<1>1. PICK spare \in 0..Len(array) + 1 :
        new = array \o <<cell>> \o [i \in 1..spare |-> Blank]
  BY DEF Grown
<1>2. spare \in Nat /\ Len(array) \in Nat
  BY <1>1, LenProperties
<1>3. [i \in 1..spare |-> Blank] \in Seq(Cells) /\ Len([i \in 1..spare |-> Blank]) = spare
  BY <1>2 DEF Cells
<1>4. <<cell>> \in Seq(Cells) /\ Len(<<cell>>) = 1
  OBVIOUS
<1>5. array \o <<cell>> \in Seq(Cells) /\ Len(array \o <<cell>>) = Len(array) + 1
  BY <1>4, ConcatProperties
<1>6. /\ array \o <<cell>> \o [i \in 1..spare |-> Blank] \in Seq(Cells)
      /\ Len(array \o <<cell>> \o [i \in 1..spare |-> Blank]) = Len(array) + 1 + spare
  BY <1>3, <1>5, ConcatProperties
<1> QED BY <1>1, <1>2, <1>6

\* The plugin's labels, and what a stream sees through its slice.
LEMMA LabelsType ==
  ASSUME TypeOK
  PROVE  /\ metricLabelsKV \in Seq(Cells) /\ Len(metricLabelsKV) = length
         /\ \A s \in Streams : LabelsOf(s) \in Seq(Cells) /\ Len(LabelsOf(s)) = slice[s].len
<1>1. metricLabelsKV \in Seq(Cells) /\ Len(metricLabelsKV) = length
  BY Prefix DEF TypeOK, metricLabelsKV
<1>2. ASSUME NEW s \in Streams
      PROVE  LabelsOf(s) \in Seq(Cells) /\ Len(LabelsOf(s)) = slice[s].len
  <2>1. slice[s].own \in Seq(Cells) /\ slice[s].len \in Nat
    BY DEF TypeOK
  <2>2. CASE slice[s].own = <<>>
    <3>1. slice[s].len \in 0..Len(array) /\ array \in Seq(Cells)
      BY <2>1, <2>2, LenProperties DEF TypeOK
    <3> QED BY <2>2, <3>1, Prefix DEF LabelsOf
  <2>3. CASE slice[s].own # <<>>
    BY <2>1, <2>3 DEF LabelsOf, TypeOK
  <2> QED BY <2>2, <2>3
<1> QED BY <1>1, <1>2

-----------------------------------------------------------------------------
(* The steps, one lemma for each.                                          *)

LEMMA InitHolds == Init => IInv
<1> SUFFICES ASSUME Init PROVE IInv
  OBVIOUS
<1>1. <<>> \in Seq(Cells) /\ Len(<<>>) = 0
  OBVIOUS
<1>2. TypeOK
  BY <1>1 DEF Init, TypeOK, NoSlice
<1>3. \A s \in Streams : StreamInv(s)
  BY DEF Init, StreamInv, Started
<1> QED BY <1>2, <1>3 DEF IInv

\* The plugin appends its labels before any stream is created.
LEMMA AppendLabelStep ==
  ASSUME IInv, NEW label \in Labels, AppendLabel(label)
  PROVE  IInv'
<1>1. TypeOK /\ array \in Seq(Cells) /\ Len(array) \in Nat /\ length \in 0..Len(array)
  BY LenProperties DEF IInv, TypeOK
<1>2. label \in Cells
  BY DEF Cells
<1>3. array' \in Seq(Cells) /\ length' \in 0..Len(array')
  <2>1. CASE length < Len(array)
    <3>1. length \in length..Len(array) - 1 /\ array' = InPlace(label, length)
      BY <1>1, <2>1 DEF AppendLabel
    <3> QED BY <1>1, <1>2, <3>1, InPlaceKeeps DEF AppendLabel
  <2>2. CASE ~(length < Len(array))
    <3>1. array' \in Grown(label)
      BY <2>2 DEF AppendLabel
    <3>2. array' \in Seq(Cells) /\ Len(array') >= Len(array) + 1
      BY <1>1, <1>2, <3>1, GrownType
    <3>3. Len(array') \in Nat
      BY <3>2, LenProperties
    <3> QED BY <1>1, <3>2, <3>3 DEF AppendLabel
  <2> QED BY <2>1, <2>2
<1>4. \A s \in Streams : stage[s] = "none" /\ slice[s] = NoSlice
  BY DEF IInv, StreamInv, Started, AppendLabel
<1>5. TypeOK'
  <2>1. \A s \in Streams : slice'[s].own = <<>> /\ slice'[s].len <= Len(array')
    <3>1. Len(array') \in Nat
      BY <1>3, LenProperties
    <3> QED BY <1>4, <3>1 DEF AppendLabel, NoSlice
  <2>2. \A s \in Streams : stage'[s] = "none"
    BY <1>4 DEF AppendLabel
  <2> QED BY <1>1, <1>3, <2>1, <2>2 DEF TypeOK, AppendLabel
<1>6. \A s \in Streams : StreamInv(s)'
  BY <1>4 DEF AppendLabel, StreamInv
<1> QED BY <1>5, <1>6 DEF IInv

LEMMA NewHttpContextStep ==
  ASSUME IInv, NEW s \in Streams, NewHttpContext(s)
  PROVE  IInv'
<1> USE DEF NewHttpContext
<1>1. TypeOK /\ array \in Seq(Cells) /\ Len(array) \in Nat /\ length \in 0..Len(array)
  BY LenProperties DEF IInv, TypeOK
<1>2. TypeOK'
  <2>1. <<>> \in Seq(Cells)
    OBVIOUS
  <2>2. length \in Nat /\ slice'[s] = [own |-> <<>>, len |-> length]
    BY <1>1 DEF TypeOK
  <2>3. \A t \in Streams : stage'[t] # "none" => slice'[t].len \in length'..length' + 1
    <3>1. ASSUME NEW t \in Streams, t # s, stage'[t] # "none"
          PROVE  slice'[t].len \in length'..length' + 1
      BY <1>1, <3>1 DEF TypeOK
    <3>2. slice'[s].len \in length'..length' + 1
      BY <2>2
    <3> QED BY <3>1, <3>2
  <2>4. \A t \in Streams : IF slice'[t].own = <<>> THEN slice'[t].len <= Len(array')
                                                  ELSE slice'[t].len = Len(slice'[t].own)
    <3>1. ASSUME NEW t \in Streams, t # s
          PROVE  slice'[t] = slice[t]
      BY <1>1, <3>1 DEF TypeOK
    <3> QED BY <1>1, <2>2, <3>1 DEF TypeOK
  <2> QED BY <1>1, <2>1, <2>2, <2>3, <2>4 DEF TypeOK
<1>3. ASSUME NEW t \in Streams
      PROVE  StreamInv(t)'
  <2>1. metricLabelsKV' = metricLabelsKV /\ Ours(t)' = Ours(t)
    BY DEF metricLabelsKV, Ours
  <2>2. StreamInv(t)
    BY DEF IInv
  <2> QED BY <1>1, <2>1, <2>2 DEF StreamInv, Started, TypeOK
<1> QED BY <1>2, <1>3 DEF IInv

\* The request headers of a stream disturb no label of the plugin, and no
\* stream but their own.
LEMMA OnHttpRequestHeadersStep ==
  ASSUME IInv, NEW s \in Streams, NEW a \in Authorities \cup {Default},
         OnHttpRequestHeaders(s, a)
  PROVE  IInv'
<1>1. TypeOK /\ array \in Seq(Cells) /\ Len(array) \in Nat /\ length \in 0..Len(array)
  BY LenProperties DEF IInv, TypeOK
<1>2. /\ slice[s] = [own |-> <<>>, len |-> length]
      /\ Started
      /\ LabelsOf(s) = metricLabelsKV
  <2>1. StreamInv(s) /\ stage[s] = "created"
    BY DEF IInv, OnHttpRequestHeaders
  <2>2. slice[s] = [own |-> <<>>, len |-> length] /\ Started
    BY <2>1 DEF StreamInv
  <2>3. slice[s].own = <<>> /\ slice[s].len = length
    BY <2>2
  <2> QED BY <2>2, <2>3 DEF LabelsOf, metricLabelsKV
<1>3. metricLabelsKV \in Seq(Cells) /\ Len(metricLabelsKV) = length
  BY <1>1, LabelsType
<1>4. a # Default => a \in Cells
  BY DEF Cells
<1> DEFINE copy == metricLabelsKV \o <<a>>
<1>5. a # Default => copy \in Seq(Cells) /\ Len(copy) = length + 1 /\ copy # <<>>
  <2>1. CASE a # Default
    <3>1. <<a>> \in Seq(Cells) /\ Len(<<a>>) = 1
      BY <1>4, <2>1
    <3>2. copy \in Seq(Cells) /\ Len(copy) = length + 1
      BY <1>3, <3>1, ConcatProperties
    <3> HIDE DEF copy
    <3>3. copy # <<>>
      BY <1>1, <3>2, EmptySeq
    <3> QED BY <3>2, <3>3
  <2> QED BY <2>1
<1> HIDE DEF copy
<1>6. /\ array' \in Seq(Cells) /\ Len(array') = Len(array)
      /\ metricLabelsKV' = metricLabelsKV
      /\ a = Default => slice' = slice
      /\ a # Default => \/ slice' = [slice EXCEPT ![s].len = length + 1] /\ length < Len(array)
                        \/ slice' = [slice EXCEPT ![s] = [own |-> copy, len |-> length + 1]]
  <2>1. CASE a = Default
    BY <1>1, <2>1 DEF OnHttpRequestHeaders, AppendsAuthority, metricLabelsKV
  <2>2. CASE a # Default /\ length < Len(array)
    <3>1. array' = InPlace(a, length) /\ slice' = [slice EXCEPT ![s].len = length + 1]
      BY <1>2, <2>2 DEF OnHttpRequestHeaders, AppendsAuthority, AppendAuthority
    <3>2. length \in length..Len(array) - 1
      BY <1>1, <2>2
    <3>3. length' = length
      BY DEF OnHttpRequestHeaders
    <3> QED BY <1>1, <1>4, <2>2, <3>1, <3>2, <3>3, InPlaceKeeps DEF metricLabelsKV
  <2>3. CASE a # Default /\ ~(length < Len(array))
    <3>1. slice[s].len = length
      BY <1>2
    <3>2. /\ slice' = [slice EXCEPT ![s] = [own |-> copy, len |-> length + 1]]
          /\ array' = array /\ length' = length
      BY <1>2, <2>3, <3>1 DEF OnHttpRequestHeaders, AppendsAuthority, AppendAuthority, copy
    <3> QED BY <1>1, <2>3, <3>2 DEF metricLabelsKV
  <2> QED BY <2>1, <2>2, <2>3
<1>7. /\ slice \in [Streams -> [own : Seq(Cells), len : Nat]]
      /\ UNCHANGED <<pending, length, counted>>
      /\ serves' = [serves EXCEPT ![s] = a]
      /\ stage' = [stage EXCEPT ![s] = "serving"]
      /\ serves \in [Streams -> Authorities \cup {Default}]
      /\ stage \in [Streams -> {"none", "created", "serving", "interrupted"}]
  BY <1>1 DEF OnHttpRequestHeaders, TypeOK
<1>8. /\ slice'[s].own \in Seq(Cells) /\ slice'[s].len \in Nat
      /\ IF slice'[s].own = <<>> THEN slice'[s].len <= Len(array) ELSE slice'[s].len = Len(slice'[s].own)
      /\ IF a = Default
         THEN slice'[s] = [own |-> <<>>, len |-> length]
         ELSE /\ slice'[s].len = length + 1
              /\ slice'[s].own # <<>> => slice'[s].own = copy
  <2>1. length \in Nat /\ slice[s].own = <<>> /\ slice[s].own \in Seq(Cells)
    BY <1>1, <1>2, <1>7
  <2>2. CASE a = Default
    <3>1. /\ slice'[s] = [own |-> <<>>, len |-> length]
          /\ slice'[s].own = <<>> /\ slice'[s].len = length
      BY <1>2, <1>6, <2>2
    <3>2. slice'[s].own \in Seq(Cells) /\ length <= Len(array)
      BY <1>1, <2>1, <3>1
    <3> QED BY <2>1, <2>2, <3>1, <3>2
  <2>3. CASE a # Default /\ slice' = [slice EXCEPT ![s].len = length + 1] /\ length < Len(array)
    <3>1. slice'[s].own = <<>> /\ slice'[s].len = length + 1
      BY <1>7, <2>1, <2>3
    <3>2. length + 1 \in Nat /\ length + 1 <= Len(array)
      BY <1>1, <2>1, <2>3
    <3>3. slice'[s].own \in Seq(Cells)
      BY <2>1, <3>1
    <3> QED BY <2>3, <3>1, <3>2, <3>3
  <2>4. CASE a # Default /\ slice' = [slice EXCEPT ![s] = [own |-> copy, len |-> length + 1]]
    <3>1. slice'[s].own = copy /\ slice'[s].len = length + 1
      BY <1>7, <2>4
    <3> QED BY <1>5, <2>1, <2>4, <3>1
  <2> QED BY <1>6, <2>2, <2>3, <2>4
<1>9. \A t \in Streams \ {s} : slice'[t] = slice[t] /\ stage'[t] = stage[t] /\ serves'[t] = serves[t]
  BY <1>6, <1>7
<1>10. slice' \in [Streams -> [own : Seq(Cells), len : Nat]]
  <2>2. CASE a = Default
    BY <1>6, <1>7, <2>2
  <2>3. CASE a # Default /\ slice' = [slice EXCEPT ![s].len = length + 1]
    <3>1. [slice[s] EXCEPT !.len = length + 1] \in [own : Seq(Cells), len : Nat]
      <4>1. length + 1 \in Nat
        BY <1>1
      <4> QED BY <1>7, <4>1
    <3>2. slice' = [slice EXCEPT ![s] = [slice[s] EXCEPT !.len = length + 1]]
      BY <1>7, <2>3
    <3> QED BY <1>7, <3>1, <3>2
  <2>4. CASE a # Default /\ slice' = [slice EXCEPT ![s] = [own |-> copy, len |-> length + 1]]
    BY <1>1, <1>5, <1>7, <2>4
  <2> QED BY <1>6, <2>2, <2>3, <2>4
<1>11. TypeOK'
  <2>1. \A t \in Streams : stage'[t] # "none" => slice'[t].len \in length'..length' + 1
    <3>1. ASSUME NEW t \in Streams \ {s}, stage'[t] # "none"
          PROVE  slice'[t].len \in length'..length' + 1
      BY <1>1, <1>7, <1>9, <3>1 DEF TypeOK
    <3>2. slice'[s].len \in length'..length' + 1
      <4>1. slice'[s].len = length \/ slice'[s].len = length + 1
        BY <1>8
      <4> QED BY <1>1, <1>7, <4>1
    <3> QED BY <3>1, <3>2
  <2>2. \A t \in Streams : IF slice'[t].own = <<>> THEN slice'[t].len <= Len(array')
                                                  ELSE slice'[t].len = Len(slice'[t].own)
    BY <1>1, <1>6, <1>8, <1>9 DEF TypeOK
  <2> QED BY <1>1, <1>6, <1>7, <1>10, <2>1, <2>2 DEF TypeOK
<1>12. ASSUME NEW t \in Streams
       PROVE  StreamInv(t)'
  <2>1. CASE t = s
    <3>1. stage'[s] = "serving" /\ serves'[s] = a
      BY <1>7
    <3> QED BY <1>2, <1>6, <1>7, <1>8, <2>1, <3>1 DEF StreamInv, Started, copy
  <2>2. CASE t # s
    <3>1. StreamInv(t) /\ Ours(t)' = Ours(t)
      BY <1>6, <1>9, <2>2 DEF IInv, Ours
    <3> QED BY <1>6, <1>7, <1>9, <2>2, <3>1 DEF StreamInv, Started
  <2> QED BY <2>1, <2>2
<1> QED BY <1>11, <1>12 DEF IInv

\* What is counted is what the slice shows: the stream's own authority unless it
\* is in an array that is shared.
LEMMA CountTXInterruptionStep ==
  ASSUME IInv, NEW s \in Streams, CountTXInterruption(s)
  PROVE  IInv'
<1> USE DEF CountTXInterruption
<1>1. TypeOK /\ array \in Seq(Cells) /\ Len(array) \in Nat /\ length \in 0..Len(array)
  BY LenProperties DEF IInv, TypeOK
<1>2. metricLabelsKV \in Seq(Cells) /\ Len(metricLabelsKV) = length
  BY <1>1, LabelsType
<1>3. LabelsOf(s) \in Seq(Cells) /\ Len(LabelsOf(s)) = slice[s].len
  BY <1>1, LabelsType
<1>4. TypeOK'
  BY <1>1, <1>3 DEF TypeOK
<1>5. metricLabelsKV' = metricLabelsKV /\ \A t \in Streams : Ours(t)' = Ours(t)
  BY DEF metricLabelsKV, Ours
<1>6. StreamInv(s)'
  <2>1. StreamInv(s) /\ stage[s] = "serving" /\ counted'[s] = LabelsOf(s)
    BY <1>1 DEF IInv, TypeOK
  <2>2. CASE serves[s] = Default
    BY <1>1, <1>5, <2>1, <2>2 DEF StreamInv, LabelsOf, metricLabelsKV, Started, TypeOK
  <2>3. CASE serves[s] # Default
    <3>1. length = Len(array) => LabelsOf(s) = Ours(s)
      <4>1. length = Len(array) => slice[s].own # <<>>
        BY <1>1, <2>1, <2>3 DEF StreamInv, TypeOK
      <4> QED BY <2>1, <2>3, <4>1 DEF StreamInv, LabelsOf, Ours
    <3> QED BY <1>1, <1>5, <2>1, <2>3, <3>1 DEF StreamInv, Started, TypeOK
  <2> QED BY <2>2, <2>3
<1>7. ASSUME NEW t \in Streams, t # s
      PROVE  StreamInv(t)'
  <2>1. StreamInv(t) /\ stage'[t] = stage[t] /\ counted'[t] = counted[t]
    BY <1>1, <1>7 DEF IInv, TypeOK
  <2> QED BY <1>5, <2>1 DEF StreamInv, Started
<1> QED BY <1>4, <1>6, <1>7 DEF IInv

-----------------------------------------------------------------------------
(* The theorems.                                                           *)

LEMMA Invariance == Spec => []IInv
<1>1. IInv /\ [Next]_vars => IInv'
  <2> SUFFICES ASSUME IInv, [Next]_vars PROVE IInv'
    OBVIOUS
  <2>1. ASSUME NEW label \in Labels, AppendLabel(label) PROVE IInv'
    BY <2>1, AppendLabelStep
  <2>2. ASSUME NEW s \in Streams, NewHttpContext(s) PROVE IInv'
    BY <2>2, NewHttpContextStep
  <2>3. ASSUME NEW s \in Streams, NEW a \in Authorities \cup {Default},
               OnHttpRequestHeaders(s, a)
        PROVE  IInv'
    BY <2>3, OnHttpRequestHeadersStep
  <2>4. ASSUME NEW s \in Streams, CountTXInterruption(s) PROVE IInv'
    BY <2>4, CountTXInterruptionStep
  <2>5. CASE UNCHANGED vars
    BY <2>5 DEF vars, IInv, TypeOK, StreamInv, Started, Ours, metricLabelsKV
  <2> QED BY <2>1, <2>2, <2>3, <2>4, <2>5 DEF Next
<1> QED BY <1>1, InitHolds, PTL DEF Spec

\* The slices of all streams lie within the arrays they see.
THEOREM TypeCorrect == Spec => []TypeOK
<1>1. IInv => TypeOK
  BY DEF IInv
<1> QED BY <1>1, Invariance, PTL

\* A stream of the default WAF never shows the authority of another stream.
THEOREM DefaultUnlabelled == Spec => []DefaultCountedWithoutAuthority
<1>1. IInv => DefaultCountedWithoutAuthority
  BY DEF IInv, StreamInv, DefaultCountedWithoutAuthority
<1> QED BY <1>1, Invariance, PTL

\* When the plugin's array has no room left, every interruption is counted under
\* the authority of its stream, however the streams interleave.
THEOREM OwnAuthorityIfFull == Spec => []CountedUnderOwnAuthorityIfFull
<1>1. IInv => CountedUnderOwnAuthorityIfFull
  <2> SUFFICES ASSUME IInv, length = Len(array), NEW s \in Streams, stage[s] = "interrupted"
               PROVE  counted[s] = Ours(s)
    BY DEF CountedUnderOwnAuthorityIfFull, CountedUnderOwnAuthority
  <2>1. CASE serves[s] = Default
    <3>1. TypeOK /\ counted[s] = metricLabelsKV
      BY <2>1 DEF IInv, StreamInv
    <3>2. metricLabelsKV \in Seq(Cells)
      BY <3>1, LabelsType
    <3> QED BY <2>1, <3>1, <3>2, ConcatEmptySeq DEF Ours
  <2>2. CASE serves[s] # Default
    BY <2>2 DEF IInv, StreamInv
  <2> QED BY <2>1, <2>2
<1> QED BY <1>1, Invariance, PTL
=============================================================================
