----------------------- MODULE HttpContextPhaseProofs -----------------------
(***************************************************************************)
(* Proofs about the phases HttpContext evaluates and the answers it gives, *)
(* for every value of its constants.                                       *)
(***************************************************************************)
EXTENDS HttpContextProofs

LEMMA PhaseNumbers ==
  /\ Phases = 1..5 /\ Logging = 5 /\ Logging \in Phases
  /\ BodyPhase("req") = 2 /\ BodyPhase("resp") = 4
  /\ interruptionPhaseHttpRequestHeaders = 1 /\ interruptionPhaseHttpRequestBody = 2
  /\ interruptionPhaseHttpResponseHeaders = 3 /\ interruptionPhaseHttpResponseBody = 4
BY DEF Phases, Logging, BodyPhase, interruptionPhaseHttpRequestHeaders,
       interruptionPhaseHttpRequestBody, interruptionPhaseHttpResponseHeaders,
       interruptionPhaseHttpResponseBody

-----------------------------------------------------------------------------
(* What each callback does to the phase counts and to the two flags.       *)

\* The phases of S, and no other, may be evaluated; the engine stays off.
Counts(S) ==
  /\ \A p \in Phases : phaseCalls'[p] \in phaseCalls[p]..3
  /\ \A p \in Phases \ S : phaseCalls'[p] = phaseCalls[p]
  /\ engine' \in {engine, "off"}

LEMMA EvaluateAfterCounts ==
  ASSUME NEW inner, NEW S, NEW v, EvaluateAfter(inner, S, v), CorazaTypeOK
  PROVE  /\ Counts(inner \cup S)
         /\ \A p \in Phases \cap (inner \cup S) : phaseCalls'[p] > 0
         /\ \A p \in Phases : phaseCalls'[p] <= phaseCalls[p] + 2
         /\ \A p \in Phases \ inner : phaseCalls'[p] <= phaseCalls[p] + 1
         /\ \A p \in Phases \ S : phaseCalls'[p] <= phaseCalls[p] + 1
<1>1. \A T : \A calls \in [Phases -> 0..3] :
        /\ Counted(calls, T) \in [Phases -> 0..3]
        /\ \A p \in Phases : Counted(calls, T)[p] = IF p \in T /\ calls[p] < 3
                                                   THEN calls[p] + 1 ELSE calls[p]
  BY DEF Counted
<1>2. phaseCalls \in [Phases -> 0..3] /\ Counted(phaseCalls, inner) \in [Phases -> 0..3]
  BY <1>1 DEF CorazaTypeOK
<1>3. ASSUME NEW p \in Phases
      PROVE  /\ phaseCalls'[p] \in phaseCalls[p]..3 /\ phaseCalls'[p] <= phaseCalls[p] + 2
             /\ p \notin inner => phaseCalls'[p] <= phaseCalls[p] + 1
             /\ p \notin S => phaseCalls'[p] <= phaseCalls[p] + 1
             /\ p \notin inner \cup S => phaseCalls'[p] = phaseCalls[p]
             /\ p \in inner \cup S => phaseCalls'[p] > 0
  <2> DEFINE once == Counted(phaseCalls, inner)[p]
  <2>1. phaseCalls[p] \in 0..3
    BY <1>2
  <2>2. once = IF p \in inner /\ phaseCalls[p] < 3 THEN phaseCalls[p] + 1 ELSE phaseCalls[p]
    BY <1>1, <1>2
  <2>3. phaseCalls'[p] = IF p \in S /\ once < 3 THEN once + 1 ELSE once
    BY <1>1, <1>2 DEF EvaluateAfter
  <2> HIDE DEF once
  <2> QED BY <2>1, <2>2, <2>3
<1>4. engine' \in {engine, "off"}
  BY DEF EvaluateAfter
<1> QED BY <1>3, <1>4 DEF Counts

LEMMA EvaluateCounts ==
  ASSUME NEW S, NEW v, Evaluate(S, v), CorazaTypeOK
  PROVE  /\ Counts(S)
         /\ \A p \in Phases \cap S : phaseCalls'[p] > 0
         /\ \A p \in Phases : phaseCalls'[p] <= phaseCalls[p] + 1
<1>1. EvaluateAfter({}, S, v) /\ {} \cup S = S
  BY DEF Evaluate
<1> QED BY <1>1, EvaluateAfterCounts

\* The body callback of direction d: it sets its flag and fills its buffer when
\* it has its phase evaluated, or once the buffer was full.
BodyCounts(d) ==
  /\ Counts({BodyPhase(d)})
  /\ \A e \in Dir \ {d} : processed'[e] = processed[e] /\ full'[e] = full[e]
  /\ processed[d] => processed'[d] /\ UNCHANGED <<phaseCalls, full>>
  /\ processed'[d] /\ ~processed[d] => full[d] # "no" \/ phaseCalls'[BodyPhase(d)] > 0
  /\ full'[d] # full[d] => full[d] # "no" \/ phaseCalls'[BodyPhase(d)] > 0
  /\ ~UNCHANGED phaseCalls => ~Inactive /\ ~isInterrupted(interruptedAt)

LEMMA UnchangedCounts ==
  ASSUME NEW d \in Dir, CorazaTypeOK, UNCHANGED <<processed, phaseCalls, engine, full>>
  PROVE  BodyCounts(d)
BY DEF BodyCounts, Counts, CorazaTypeOK

LEMMA SkipBodyCounts ==
  ASSUME NEW d \in Dir, CtxTypeOK, ~processed[d], ~Inactive, ~isInterrupted(interruptedAt),
         NEW bodySize, NEW action, NEW mask, skipBody(d, bodySize, action, mask)
  PROVE  BodyCounts(d)
<1>1. PICK v \in Verdicts :
        /\ Evaluate({BodyPhase(d)}, v)
        /\ processed' = [processed EXCEPT ![d] = d = "req" \/ v # "error"]
        /\ UNCHANGED full
  BY DEF skipBody, written
<1>2. Counts({BodyPhase(d)}) /\ phaseCalls'[BodyPhase(d)] > 0
  BY <1>1, EvaluateCounts, BodyPhaseType DEF CtxTypeOK
<1> QED BY <1>1, <1>2 DEF BodyCounts, CtxTypeOK, FlagsTypeOK

\* A write fills its buffer with the phase evaluated inside it, or finds it full.
LEMMA ReadAndWriteFills ==
  ASSUME NEW d \in Dir, NEW chunkSize, NEW m, NEW n, NEW inner, NEW v, CtxTypeOK,
         ReadAndWrite(d, chunkSize, m, n, inner, v)
  PROVE  /\ \A e \in Dir \ {d} : full'[e] = full[e]
         /\ full'[d] # full[d] => full[d] # "no" \/ inner = {BodyPhase(d)}
         /\ n # m /\ v = "pass" => full[d] # "no" \/ inner = {BodyPhase(d)}
         /\ inner # {} => full[d] = "no" /\ full'[d] = IF n = m THEN "exactly" ELSE "beyond"
         /\ full'[d] # full[d] /\ inner = {} => full'[d] = "beyond" /\ v = "pass" /\ n # m
<1>1. CASE chunkSize = 0
  BY <1>1 DEF ReadAndWrite, written
<1>2. CASE chunkSize # 0
  <2>1. WriteBody(d, m, n, inner, v) /\ m > 0
    BY <1>2 DEF ReadAndWrite
  <2> QED BY <2>1 DEF WriteBody, CtxTypeOK, CorazaTypeOK
<1> QED BY <1>1, <1>2

\* What follows a write that evaluated inner evaluates the body phase, or sets
\* the flag of a body that was not written whole.
WriteCounts(d, whole, inner, v) ==
  /\ Counts({BodyPhase(d)})
  /\ inner = {BodyPhase(d)} => phaseCalls'[BodyPhase(d)] > 0
  /\ \A e \in Dir \ {d} : processed'[e] = processed[e]
  /\ processed'[d] => (~whole /\ v = "pass") \/ phaseCalls'[BodyPhase(d)] > 0

LEMMA AfterWriteCounts ==
  ASSUME NEW d \in Dir, NEW readIndex, NEW endOfStream, NEW whole,
         NEW inner \in SUBSET {BodyPhase(d)}, NEW v, NEW action, NEW mask, CtxTypeOK, ~processed[d],
         AfterWrite(d, readIndex, endOfStream, whole, inner, v, action, mask)
  PROVE  WriteCounts(d, whole, inner, v)
<1>0. BodyPhase(d) \in Phases /\ CorazaTypeOK
  BY BodyPhaseType DEF CtxTypeOK
<1>1. PICK S \in SUBSET {BodyPhase(d)} :
        /\ \E w : EvaluateAfter(inner, S, w)
        /\ \/ UNCHANGED processed
           \/ /\ processed' = [processed EXCEPT ![d] = TRUE]
              /\ (~whole /\ v = "pass") \/ S = {BodyPhase(d)}
  <2>1. CASE /\ EvaluateAfter(inner, {}, v)
             /\ UNCHANGED processed \/ (/\ processed' = [processed EXCEPT ![d] = TRUE]
                                        /\ ~whole /\ v = "pass")
    BY <2>1
  <2>2. CASE /\ \E w : EvaluateAfter(inner, {BodyPhase(d)}, w)
             /\ processed' = [processed EXCEPT ![d] = TRUE]
    BY <2>2
  <2> QED BY <2>1, <2>2 DEF AfterWrite, flags
<1>2. /\ Counts(inner \cup S)
      /\ \A p \in Phases \cap (inner \cup S) : phaseCalls'[p] > 0
  BY <1>0, <1>1, EvaluateAfterCounts
<1>3. Counts({BodyPhase(d)})
  BY <1>2 DEF Counts
<1>4. \A e \in Dir \ {d} : processed'[e] = processed[e]
  BY <1>1 DEF CtxTypeOK, FlagsTypeOK
<1> QED BY <1>0, <1>1, <1>2, <1>3, <1>4 DEF WriteCounts

LEMMA InspectBodyCounts ==
  ASSUME NEW d \in Dir, CtxTypeOK, ~processed[d], ~Inactive, ~isInterrupted(interruptedAt),
         NEW bodySize, NEW endOfStream, NEW action, NEW mask,
         inspectBody(d, bodySize, endOfStream, action, mask)
  PROVE  BodyCounts(d)
<1>1. CASE ReadFails(Unread(bodySize), action, mask)
  BY <1>1, UnchangedCounts DEF ReadFails, flags, written, CtxTypeOK
<1>2. ASSUME NEW m \in 0..Unread(bodySize), NEW n \in 0..m,
             NEW inner \in SUBSET {BodyPhase(d)}, NEW v,
             ReadAndWrite(d, Unread(bodySize), m, n, inner, v),
             AfterWrite(d, ReadIndex(Unread(bodySize), m), endOfStream, n = m, inner, v, action, mask)
      PROVE  BodyCounts(d)
  <2>1. /\ \A e \in Dir \ {d} : full'[e] = full[e]
        /\ full'[d] # full[d] => full[d] # "no" \/ inner = {BodyPhase(d)}
        /\ n # m /\ v = "pass" => full[d] # "no" \/ inner = {BodyPhase(d)}
    BY <1>2, ReadAndWriteFills
  <2> DEFINE whole == n = m
             readIndex == ReadIndex(Unread(bodySize), m)
  <2>2. WriteCounts(d, whole, inner, v)
    <3>1. AfterWrite(d, readIndex, endOfStream, whole, inner, v, action, mask)
      BY <1>2
    <3> HIDE DEF whole, readIndex
    <3> QED BY <3>1, AfterWriteCounts
  <2>3. processed'[d] => full[d] # "no" \/ phaseCalls'[BodyPhase(d)] > 0
    BY <2>1, <2>2 DEF WriteCounts
  <2>4. full'[d] # full[d] => full[d] # "no" \/ phaseCalls'[BodyPhase(d)] > 0
    BY <2>1, <2>2 DEF WriteCounts
  <2>5. \A e \in Dir \ {d} : processed'[e] = processed[e] /\ full'[e] = full[e]
    BY <2>1, <2>2 DEF WriteCounts
  <2> QED BY <2>2, <2>3, <2>4, <2>5 DEF BodyCounts, WriteCounts
<1> QED BY <1>1, <1>2 DEF inspectBody

LEMMA OnBodyCounts ==
  ASSUME NEW d \in Dir, CtxTypeOK, NEW bodySize, NEW endOfStream, NEW action, NEW mask,
         OnBody(d, bodySize, endOfStream, action, mask)
  PROVE  BodyCounts(d) /\ UNCHANGED tx
<1>1. CASE UNCHANGED ctxVars
  BY <1>1, UnchangedCounts DEF CtxTypeOK, ctxVars, flags, corazaVars, written
<1>2. CASE ~UNCHANGED ctxVars
  <2>1. /\ ~processed[d] /\ ~Inactive /\ ~isInterrupted(interruptedAt) /\ UNCHANGED tx
        /\ \/ inspectBody(d, bodySize, endOfStream, action, mask)
           \/ skipBody(d, bodySize, action, mask)
    BY <1>2 DEF OnBody, OnHttpRequestBody, OnHttpResponseBody, processBody, Dir
  <2> QED BY <2>1, InspectBodyCounts, SkipBodyCounts
<1> QED BY <1>1, <1>2

LEMMA OnTrailersCounts ==
  ASSUME NEW d \in Dir, CtxTypeOK, NEW action, NEW mask, OnTrailers(d, action, mask)
  PROVE  BodyCounts(d) /\ UNCHANGED tx
BY OnBodyCounts, UnchangedCounts DEF OnTrailers, CtxTypeOK, flags, corazaVars, written

LEMMA ResponseHeadersCounts ==
  ASSUME CtxTypeOK, NEW action, OnHttpResponseHeaders(action)
  PROVE  /\ Counts({2, 3}) /\ UNCHANGED <<tx, full>>
         /\ processed'["resp"] = processed["resp"]
         /\ processed["req"] => processed'["req"] /\ phaseCalls'[2] = phaseCalls[2]
         /\ processed'["req"] /\ ~processed["req"] => phaseCalls'[2] > 0
         /\ phaseCalls'[2] # phaseCalls[2] =>
              processed'["req"] /\ ~isInterrupted(interruptedAt) /\ phaseCalls'[2] <= phaseCalls[2] + 1
<1>1. CASE UNCHANGED ctxVars
  BY <1>1, PhaseNumbers
  DEF ctxVars, flags, corazaVars, written, Counts, CtxTypeOK, CorazaTypeOK
<1>2. CASE /\ processed' = [processed EXCEPT !["req"] = TRUE]
           /\ \E v : Evaluate(PendingPhases, v) \/ Evaluate(PendingPhases \cup {3}, v)
           /\ UNCHANGED <<tx, full>> /\ ~isInterrupted(interruptedAt)
  <2>1. PICK S \in {PendingPhases, PendingPhases \cup {3}} : \E v : Evaluate(S, v)
    BY <1>2
  <2>2. /\ S \subseteq {2, 3}
        /\ 2 \in S <=> ~processed["req"]
    BY PhaseNumbers DEF PendingPhases
  <2>3. /\ Counts(S) /\ (\A p \in Phases \cap S : phaseCalls'[p] > 0)
        /\ phaseCalls'[2] <= phaseCalls[2] + 1
    BY <2>1, EvaluateCounts, PhaseNumbers DEF CtxTypeOK
  <2>4. Counts({2, 3})
    BY <2>2, <2>3 DEF Counts
  <2>5. 2 \notin S => phaseCalls'[2] = phaseCalls[2]
    BY <2>3, PhaseNumbers DEF Counts
  <2>6. processed'["req"] /\ processed'["resp"] = processed["resp"]
    BY <1>2 DEF CtxTypeOK, FlagsTypeOK, Dir
  <2> QED BY <1>2, <2>2, <2>3, <2>4, <2>5, <2>6, PhaseNumbers
<1> QED BY <1>1, <1>2 DEF OnHttpResponseHeaders, SkipsResponseHeaders, written

LEMMA RequestHeadersCounts ==
  ASSUME CtxTypeOK, NEW action, OnHttpRequestHeaders(action)
  PROVE  /\ Counts({1}) /\ UNCHANGED <<processed, full>>
         /\ tx' = "open" \/ UNCHANGED tx
<1>1. CASE UNCHANGED <<engine, phaseCalls>>
  BY <1>1, PhaseNumbers DEF OnHttpRequestHeaders, Counts, CtxTypeOK, CorazaTypeOK, flags, written
<1>2. CASE \E v : Evaluate({1}, v)
  BY <1>2, EvaluateCounts DEF OnHttpRequestHeaders, CtxTypeOK, flags, written
<1> QED BY <1>1, <1>2 DEF OnHttpRequestHeaders

LEMMA StreamDoneCounts ==
  ASSUME CtxTypeOK, OnHttpStreamDone, phaseCalls[Logging] = 0
  PROVE  /\ Counts({4, 5}) /\ UNCHANGED full
         /\ processed'["req"] = processed["req"]
         /\ processed'["resp"] = (processed["resp"] \/ (ResponseBodyPending /\ tx # "nil"))
         /\ phaseCalls'[4] # phaseCalls[4] =>
              /\ ~processed["resp"] /\ processed'["resp"] /\ ~isInterrupted(interruptedAt)
              /\ phaseCalls'[4] <= phaseCalls[4] + 1
         /\ processed'["resp"] /\ ~processed["resp"] => phaseCalls'[4] > 0
         /\ IF tx = "nil" THEN UNCHANGED tx
                          ELSE tx' = "closed" /\ phaseCalls'[Logging] = 1
         /\ UNCHANGED outcome
<1>1. CASE tx = "nil"
  BY <1>1, PhaseNumbers
  DEF OnHttpStreamDone, ctxVars, flags, corazaVars, written, Counts, CtxTypeOK, CorazaTypeOK,
      FlagsTypeOK, Dir
<1>2. CASE tx # "nil" /\ ResponseBodyPending
  <2>1. /\ tx' = "closed" /\ UNCHANGED <<outcome, full>>
        /\ processed' = [processed EXCEPT !["resp"] = TRUE]
        /\ Evaluate({4, 5}, "pass")
    BY <1>2, PhaseNumbers DEF OnHttpStreamDone, written
  <2>2. /\ Counts({4, 5}) /\ phaseCalls'[4] > 0 /\ phaseCalls'[5] > 0
        /\ phaseCalls'[4] <= phaseCalls[4] + 1 /\ phaseCalls'[5] <= phaseCalls[5] + 1
    BY <2>1, EvaluateCounts, PhaseNumbers DEF CtxTypeOK
  <2>3. phaseCalls'[5] = 1
    <3>1. phaseCalls' \in [Phases -> 0..3]
      BY <2>1, EvaluateType DEF CtxTypeOK
    <3> QED BY <2>2, <3>1, PhaseNumbers
  <2>4. /\ ~processed["resp"] /\ processed'["resp"] /\ processed'["req"] = processed["req"]
        /\ ~isInterrupted(interruptedAt)
    BY <1>2, <2>1 DEF ResponseBodyPending, CtxTypeOK, FlagsTypeOK, Dir
  <2> QED BY <1>2, <2>1, <2>2, <2>3, <2>4, PhaseNumbers
<1>3. CASE tx # "nil" /\ ~ResponseBodyPending
  <2>1. /\ tx' = "closed" /\ UNCHANGED <<outcome, processed, engine, full>>
        /\ phaseCalls' = [phaseCalls EXCEPT ![5] = 1]
    BY <1>3, PhaseNumbers DEF OnHttpStreamDone, written
  <2>2. Counts({4, 5}) /\ phaseCalls'[5] = 1 /\ phaseCalls'[4] = phaseCalls[4]
    BY <2>1, PhaseNumbers DEF Counts, CtxTypeOK, CorazaTypeOK
  <2> QED BY <1>3, <2>1, <2>2, PhaseNumbers DEF CtxTypeOK, FlagsTypeOK, Dir
<1> QED BY <1>1, <1>2, <1>3

-----------------------------------------------------------------------------
(* The transaction is complete when it is closed.                          *)

\* The response flag is set, and a body buffer filled, only when the body phase
\* was evaluated; nothing but the end of the stream closes the transaction or
\* logs.
ClosedInv ==
  /\ ~done => tx # "closed" /\ phaseCalls[Logging] = 0
  /\ processed["resp"] => phaseCalls[4] > 0
  /\ \A d \in Dir : full[d] # "no" => phaseCalls[BodyPhase(d)] > 0
  /\ ClosedTransactionIsComplete

\* What the counts of a step leave of a phase that was evaluated.
LEMMA CountsRise ==
  ASSUME NEW S, Counts(S), CtxTypeOK, NEW p \in Phases, phaseCalls[p] > 0
  PROVE  phaseCalls'[p] > 0
BY DEF Counts, CtxTypeOK, CorazaTypeOK

LEMMA ClosedStep ==
  ASSUME TypeOK, TypeOK', ClosedInv, [Next]_vars
  PROVE  ClosedInv'
<1>0. CtxTypeOK /\ phaseCalls' \in [Phases -> 0..3]
  BY DEF TypeOK, CtxTypeOK, CorazaTypeOK
<1> USE PhaseNumbers DEF ClosedInv, ClosedTransactionIsComplete
<1>1. ASSUME NEW S, Counts(S), UNCHANGED full
      PROVE  \A d \in Dir : full'[d] # "no" => phaseCalls'[BodyPhase(d)] > 0
  BY <1>0, <1>1, CountsRise, BodyPhaseType
<1>2. CASE RequestHeaders
  <2>1. Counts({1}) /\ UNCHANGED <<processed, full, done>> /\ tx' \in {"open", tx} /\ ~done
    BY <1>0, <1>2, RequestHeadersCounts DEF RequestHeaders, Running
  <2>2. phaseCalls'[5] = phaseCalls[5] /\ (phaseCalls[4] > 0 => phaseCalls'[4] > 0)
    BY <1>0, <2>1, CountsRise DEF Counts
  <2> QED BY <1>1, <2>1, <2>2
<1>3. CASE ResponseHeaders
  <2>1. /\ Counts({2, 3}) /\ UNCHANGED <<tx, full, done>> /\ ~done
        /\ processed'["resp"] = processed["resp"]
    BY <1>0, <1>3, ResponseHeadersCounts DEF ResponseHeaders, Running
  <2>2. phaseCalls'[5] = phaseCalls[5] /\ (phaseCalls[4] > 0 => phaseCalls'[4] > 0)
    BY <1>0, <2>1, CountsRise DEF Counts
  <2> QED BY <1>1, <2>1, <2>2
<1>4. ASSUME NEW d \in Dir, Body(d) \/ Trailers(d)
      PROVE  ClosedInv'
  <2>1. BodyCounts(d) /\ UNCHANGED <<tx, done>> /\ ~done
    BY <1>0, <1>4, OnBodyCounts, OnTrailersCounts DEF Body, Trailers, Running
  <2>2. \A p \in Phases : phaseCalls[p] > 0 => phaseCalls'[p] > 0
    BY <1>0, <2>1, CountsRise DEF BodyCounts
  <2>3. phaseCalls'[5] = phaseCalls[5]
    BY <2>1 DEF BodyCounts, Counts, Dir
  <2>4. ASSUME NEW e \in Dir, full'[e] # "no"
        PROVE  phaseCalls'[BodyPhase(e)] > 0
    BY <2>1, <2>2, <2>4, BodyPhaseType DEF BodyCounts
  <2>5. processed'["resp"] => phaseCalls'[4] > 0
    <3>1. "resp" \in Dir
      BY DEF Dir
    <3> QED BY <2>1, <2>2, <3>1 DEF BodyCounts
  <2> QED BY <2>1, <2>3, <2>4, <2>5
<1>5. CASE StreamDone
  <2>1. /\ Counts({4, 5}) /\ UNCHANGED <<full, interruptedAt>> /\ done'
        /\ processed'["resp"] = (processed["resp"] \/ (ResponseBodyPending /\ tx # "nil"))
        /\ processed'["resp"] /\ ~processed["resp"] => phaseCalls'[4] > 0
        /\ IF tx = "nil" THEN UNCHANGED tx ELSE tx' = "closed" /\ phaseCalls'[5] = 1
    BY <1>0, <1>5, StreamDoneCounts DEF StreamDone, Running, outcome
  <2>2. phaseCalls[4] > 0 => phaseCalls'[4] > 0
    BY <1>0, <2>1, CountsRise
  <2>3. engine' = "on" => engine = "on"
    BY <2>1 DEF Counts
  <2>4. tx # "closed"
    BY <1>5 DEF StreamDone, Running
  <2> QED BY <1>1, <2>1, <2>2, <2>3, <2>4 DEF ResponseBodyPending
<1>6. CASE UNCHANGED vars
  BY <1>6 DEF vars, ctxVars, flags, outcome, corazaVars, written, hostVars
<1> QED BY <1>2, <1>3, <1>4, <1>5, <1>6 DEF Next

LEMMA ClosedInvariant == Spec => []ClosedInv
<1>1. Init => ClosedInv
  BY PhaseNumbers DEF Init, ClosedInv, ClosedTransactionIsComplete, Dir
<1>2. ClosedInv /\ TypeOK /\ TypeOK' /\ [Next]_vars => ClosedInv'
  BY ClosedStep
<1> QED BY <1>1, <1>2, TypeCorrect, PTL DEF Spec

\* Wherever a stream is cut off, its transaction is closed after one logging
\* phase and, unless it was interrupted or its engine turned off, after the
\* response body phase.
THEOREM ClosedComplete == Spec => []ClosedTransactionIsComplete
<1>1. ClosedInv => ClosedTransactionIsComplete
  BY DEF ClosedInv
<1> QED BY <1>1, ClosedInvariant, PTL

-----------------------------------------------------------------------------
(* An interrupted stream stays as it is.                                   *)

\* An interrupted stream stays interrupted, in the same phase, and sends no
\* further reply.
Settled == isInterrupted(interruptedAt) => UNCHANGED <<interruptedAt, replies>>

LEMMA OnBodySettled ==
  ASSUME NEW d \in Dir, NEW bodySize, NEW endOfStream, NEW action, NEW mask,
         OnBody(d, bodySize, endOfStream, action, mask)
  PROVE  Settled
BY DEF OnBody, OnHttpRequestBody, OnHttpResponseBody, Settled, ctxVars, outcome

LEMMA NextSettled ==
  ASSUME TypeOK, OnceInv, [Next]_vars
  PROVE  Settled
<1>1. CASE RequestHeaders
  BY <1>1 DEF RequestHeaders, OnceInv, FirstIsUninterrupted, Settled
<1>2. CASE ResponseHeaders
  BY <1>2 DEF ResponseHeaders, OnHttpResponseHeaders, SkipsResponseHeaders, Settled, ctxVars, outcome
<1>3. ASSUME NEW d \in Dir, Body(d) \/ Trailers(d)
      PROVE  Settled
  BY <1>3, OnBodySettled DEF Body, Trailers, OnTrailers, Settled
<1>4. CASE StreamDone
  BY <1>4 DEF StreamDone, OnHttpStreamDone, Settled, ctxVars, outcome
<1>5. CASE UNCHANGED vars
  BY <1>5 DEF vars, ctxVars, outcome, Settled
<1> QED BY <1>1, <1>2, <1>3, <1>4, <1>5 DEF Next

LEMMA OnceInvariant == Spec => []OnceInv
<1>1. Init => OnceInv
  BY DEF Init, OnceInv, NeverInterruptedTwice, FirstIsUninterrupted, Dir,
         isInterrupted, interruptionPhaseNone
<1> QED BY <1>1, OnceStep, TypeCorrect, PTL DEF Spec

-----------------------------------------------------------------------------
(* A body phase is evaluated once.                                         *)

\* A body phase that was evaluated has set the flag of its direction, which
\* keeps every later callback from evaluating it again, or interrupted the
\* stream; but a body that filled its buffer exactly is still to be judged.
Once(d) ==
  /\ phaseCalls[BodyPhase(d)] <= IF full[d] = "exactly" THEN 2 ELSE 1
  /\ ~processed[d] /\ ~isInterrupted(interruptedAt) =>
       /\ phaseCalls[BodyPhase(d)] <= IF full[d] = "exactly" THEN 1 ELSE 0
       /\ full[d] # "beyond"

\* How a body callback evaluates its phase, when the engine does not fail.
LEMMA InspectBodyOnce ==
  ASSUME "waf" \notin Faults, NEW d \in Dir, CtxTypeOK, ~processed[d], ~isInterrupted(interruptedAt),
         Once(d), NEW bodySize, NEW endOfStream, NEW action, NEW mask,
         inspectBody(d, bodySize, endOfStream, action, mask)
  PROVE  Once(d)'
<1>0. BodyPhase(d) \in Phases /\ CorazaTypeOK /\ phaseCalls[BodyPhase(d)] \in 0..3
  BY BodyPhaseType DEF CtxTypeOK, CorazaTypeOK
<1>1. CASE ReadFails(Unread(bodySize), action, mask)
  BY <1>1 DEF ReadFails, handleInternalEngineFailurePolicy, flags, written, Once
<1>2. ASSUME NEW m \in 0..Unread(bodySize), NEW n \in 0..m,
             NEW inner \in SUBSET {BodyPhase(d)}, NEW v,
             ReadAndWrite(d, Unread(bodySize), m, n, inner, v),
             AfterWrite(d, ReadIndex(Unread(bodySize), m), endOfStream, n = m, inner, v, action, mask)
      PROVE  Once(d)'
  <2>1. /\ inner # {} => full[d] = "no" /\ full'[d] = IF n = m THEN "exactly" ELSE "beyond"
        /\ full'[d] # full[d] /\ inner = {} => full'[d] = "beyond" /\ v = "pass" /\ n # m
    BY <1>2, ReadAndWriteFills
  <2>2. PICK S \in SUBSET {BodyPhase(d)} :
          /\ \E w : EvaluateAfter(inner, S, w)
          /\ processed'[d] \/ isInterrupted(interruptedAt') \/ (n = m /\ S = {})
          /\ S # {} => n = m /\ v = "pass" /\ (processed'[d] \/ isInterrupted(interruptedAt'))
    <3>1. CASE v = "error"
      BY <1>2, <3>1 DEF AfterWrite, EvaluateAfter
    <3>2. CASE v = "deny"
      <4>1. EvaluateAfter(inner, {}, v)
        BY <1>2, <3>2 DEF AfterWrite
      <4>2. isInterrupted(interruptedAt')
        BY <1>2, <3>2, BodyPhaseType, Interrupted DEF AfterWrite, handleInterruption
      <4> QED BY <4>1, <4>2
    <3>3. CASE v = "pass" /\ n # m
      <4>1. EvaluateAfter(inner, {}, v) /\ processed' = [processed EXCEPT ![d] = TRUE]
        BY <1>2, <3>3 DEF AfterWrite
      <4> QED BY <4>1 DEF CtxTypeOK, FlagsTypeOK
    <3>4. CASE v = "pass" /\ n = m /\ ~endOfStream
      <4>1. EvaluateAfter(inner, {}, v)
        BY <1>2, <3>4 DEF AfterWrite
      <4> QED BY <3>4, <4>1
    <3>5. CASE v = "pass" /\ n = m /\ endOfStream
      <4>1. /\ processed' = [processed EXCEPT ![d] = TRUE]
            /\ \E w : EvaluateAfter(inner, {BodyPhase(d)}, w)
        BY <1>2, <3>5 DEF AfterWrite
      <4>2. processed'[d]
        BY <4>1 DEF CtxTypeOK, FlagsTypeOK
      <4> QED BY <3>5, <4>1, <4>2
    <3> QED BY <1>2, <3>1, <3>2, <3>3, <3>4, <3>5 DEF AfterWrite
  <2>3. /\ phaseCalls'[BodyPhase(d)] <= phaseCalls[BodyPhase(d)] + 2
        /\ inner = {} => phaseCalls'[BodyPhase(d)] <= phaseCalls[BodyPhase(d)] + 1
        /\ S = {} => phaseCalls'[BodyPhase(d)] <= phaseCalls[BodyPhase(d)] + 1
        /\ inner = {} /\ S = {} => phaseCalls'[BodyPhase(d)] = phaseCalls[BodyPhase(d)]
        /\ phaseCalls'[BodyPhase(d)] \in 0..3
    BY <1>0, <2>2, EvaluateAfterCounts, EvaluateAfterType DEF Counts
  <2>4. /\ inner = {} \/ inner = {BodyPhase(d)}
        /\ S = {} \/ S = {BodyPhase(d)}
        /\ phaseCalls[BodyPhase(d)] <= IF full[d] = "exactly" THEN 1 ELSE 0
        /\ full[d] # "beyond"
    BY <1>2, <2>2 DEF Once
  <2> QED BY <1>0, <2>1, <2>2, <2>3, <2>4 DEF Once
<1> QED BY <1>1, <1>2 DEF inspectBody

LEMMA SkipBodyOnce ==
  ASSUME "waf" \notin Faults, NEW d \in Dir, CtxTypeOK, ~processed[d], ~isInterrupted(interruptedAt),
         Once(d), NEW bodySize, NEW action, NEW mask, skipBody(d, bodySize, action, mask)
  PROVE  Once(d)'
<1>1. PICK v \in Verdicts :
        /\ Evaluate({BodyPhase(d)}, v)
        /\ processed' = [processed EXCEPT ![d] = d = "req" \/ v # "error"]
        /\ UNCHANGED full
  BY DEF skipBody, written
<1>2. v # "error"
  BY <1>1 DEF Evaluate, EvaluateAfter
<1>3. processed'[d]
  BY <1>1, <1>2 DEF CtxTypeOK, FlagsTypeOK
<1>4. /\ phaseCalls'[BodyPhase(d)] <= phaseCalls[BodyPhase(d)] + 1
      /\ phaseCalls[BodyPhase(d)] \in 0..3 /\ phaseCalls'[BodyPhase(d)] \in 0..3
  BY <1>1, EvaluateCounts, EvaluateType, BodyPhaseType DEF CtxTypeOK, CorazaTypeOK
<1> QED BY <1>1, <1>3, <1>4 DEF Once

LEMMA OnBodyKeepsOnce ==
  ASSUME "waf" \notin Faults, NEW d \in Dir, CtxTypeOK, Once(d),
         NEW bodySize, NEW endOfStream, NEW action, NEW mask,
         OnBody(d, bodySize, endOfStream, action, mask)
  PROVE  Once(d)'
<1>1. CASE UNCHANGED ctxVars
  BY <1>1 DEF ctxVars, flags, outcome, corazaVars, written, Once
<1>2. CASE ~UNCHANGED ctxVars
  <2>1. /\ ~processed[d] /\ ~isInterrupted(interruptedAt)
        /\ \/ inspectBody(d, bodySize, endOfStream, action, mask)
           \/ skipBody(d, bodySize, action, mask)
    BY <1>2 DEF OnBody, OnHttpRequestBody, OnHttpResponseBody, processBody, Dir
  <2> QED BY <2>1, InspectBodyOnce, SkipBodyOnce
<1> QED BY <1>1, <1>2

LEMMA OnceKept ==
  ASSUME "waf" \notin Faults, NEW d \in Dir, TypeOK, TypeOK', OnceInv, ClosedInv, Once(d), [Next]_vars
  PROVE  Once(d)'
<1>0. /\ CtxTypeOK /\ (isInterrupted(interruptedAt) => isInterrupted(interruptedAt'))
      /\ phaseCalls[BodyPhase(d)] \in 0..3 /\ phaseCalls'[BodyPhase(d)] \in 0..3
      /\ d = "req" \/ d = "resp"
  BY BodyPhaseType, NextSettled DEF TypeOK, CtxTypeOK, CorazaTypeOK, Dir, Settled
<1> USE PhaseNumbers DEF Once
<1>1. CASE RequestHeaders
  <2>1. Counts({1}) /\ UNCHANGED <<processed, full>>
    BY <1>0, <1>1, RequestHeadersCounts DEF RequestHeaders
  <2> QED BY <1>0, <2>1 DEF Counts
<1>2. CASE ResponseHeaders
  <2>1. /\ Counts({2, 3}) /\ UNCHANGED full
        /\ processed'["resp"] = processed["resp"]
        /\ processed["req"] => processed'["req"] /\ phaseCalls'[2] = phaseCalls[2]
        /\ phaseCalls'[2] # phaseCalls[2] =>
              processed'["req"] /\ ~isInterrupted(interruptedAt) /\ phaseCalls'[2] <= phaseCalls[2] + 1
    BY <1>0, <1>2, ResponseHeadersCounts DEF ResponseHeaders
  <2> QED BY <1>0, <2>1 DEF Counts
<1>3. ASSUME NEW e \in Dir, Body(e) \/ Trailers(e)
      PROVE  Once(d)'
  <2>1. CASE e = d
    <3>1. CASE Body(d)
      BY <1>0, <3>1, OnBodyKeepsOnce DEF Body
    <3>2. CASE Trailers(d) /\ tx # "nil"
      BY <1>0, <3>2, OnBodyKeepsOnce DEF Trailers, OnTrailers
    <3>3. CASE Trailers(d) /\ tx = "nil"
      BY <3>3 DEF Trailers, OnTrailers, flags, corazaVars, written
    <3> QED BY <1>3, <2>1, <3>1, <3>2, <3>3
  <2>2. CASE e # d
    <3>1. BodyCounts(e)
      BY <1>0, <1>3, OnBodyCounts, OnTrailersCounts DEF Body, Trailers
    <3>2. BodyPhase(d) \in Phases \ {BodyPhase(e)}
      BY <2>2 DEF Dir
    <3> QED BY <1>0, <2>2, <3>1, <3>2 DEF BodyCounts, Counts
  <2> QED BY <2>1, <2>2
<1>4. CASE StreamDone
  <2>1. /\ Counts({4, 5}) /\ UNCHANGED <<full, outcome>>
        /\ phaseCalls'[4] # phaseCalls[4] =>
              /\ ~processed["resp"] /\ processed'["resp"] /\ ~isInterrupted(interruptedAt)
              /\ phaseCalls'[4] <= phaseCalls[4] + 1
        /\ processed["resp"] => processed'["resp"]
        /\ processed["req"] => processed'["req"]
    BY <1>0, <1>4, StreamDoneCounts DEF StreamDone, Running, ClosedInv
  <2> QED BY <1>0, <2>1 DEF Counts
<1>5. CASE UNCHANGED vars
  BY <1>0, <1>5 DEF vars, ctxVars, flags, outcome, corazaVars, written
<1> QED BY <1>1, <1>2, <1>3, <1>4, <1>5 DEF Next

\* Unless the engine fails, the body phases are evaluated at most once, and once
\* more when a body fills its buffer exactly: by whichever of the end of the
\* body, its limit, the response headers and the end of the stream comes first.
THEOREM BodyPhasesOnce ==
  ASSUME "waf" \notin Faults
  PROVE  Spec => []BodyPhasesEvaluatedOnce
<1> DEFINE Inv == \A d \in Dir : Once(d)
<1>1. Init => Inv
  BY BodyPhaseType DEF Init, Once
<1>2. Inv /\ TypeOK /\ TypeOK' /\ OnceInv /\ ClosedInv /\ [Next]_vars => Inv'
  BY OnceKept
<1>3. Inv => BodyPhasesEvaluatedOnce
  BY DEF Once, BodyPhasesEvaluatedOnce
<1> QED
  BY <1>1, <1>2, <1>3, TypeCorrect, OnceInvariant, ClosedInvariant, PTL DEF Spec

-----------------------------------------------------------------------------
(* The phases are evaluated in order.                                      *)

\* An active stream had its request headers judged, and once its response
\* headers came without an interruption these were judged as well.
OrderInv ==
  /\ stage["req"] = "idle" => tx = "nil"
  /\ ~Inactive => phaseCalls[1] > 0
  /\ stage["resp"] # "idle" /\ ~isInterrupted(interruptedAt) /\ ~Inactive => phaseCalls[3] > 0
  /\ processed["req"] => phaseCalls[2] > 0
  /\ PhasesInOrder

LEMMA RequestHeadersOrder ==
  ASSUME "headers" \notin Faults, CtxTypeOK, NEW action, OnHttpRequestHeaders(action), Inactive
  PROVE  ~Inactive' => phaseCalls'[1] > 0
BY EvaluateCounts, PhaseNumbers DEF OnHttpRequestHeaders, Inactive, CtxTypeOK

LEMMA ResponseHeadersOrder ==
  ASSUME "headers" \notin Faults, "waf" \notin Faults, CtxTypeOK,
         NEW action, OnHttpResponseHeaders(action), ~SkipsResponseHeaders,
         processed["req"] => phaseCalls[2] > 0
  PROVE  /\ isInterrupted(interruptedAt') \/ phaseCalls'[3] > 0
         /\ phaseCalls'[2] > 0
<1>1. phaseCalls'[2] > 0
  <2>1. processed'["req"]
    BY DEF OnHttpResponseHeaders, CtxTypeOK, FlagsTypeOK, Dir
  <2> QED BY <2>1, ResponseHeadersCounts, PhaseNumbers DEF Counts
<1>2. CASE /\ PendingPhases # {}
           /\ \E v \in {"deny", "error"} :
                /\ Evaluate(PendingPhases, v)
                /\ Conclude(v, interruptionPhaseHttpResponseHeaders, 0, action, NoMask)
  <2>1. Conclude("deny", 3, 0, action, NoMask)
    BY <1>2, PhaseNumbers DEF Evaluate, EvaluateAfter
  <2>2. interruptedAt' = 3
    BY <2>1 DEF Conclude, handleInterruption, SkipsResponseHeaders
  <2> QED BY <1>1, <2>2 DEF isInterrupted, interruptionPhaseNone
<1>3. CASE \E v : Evaluate(PendingPhases \cup {3}, v)
  BY <1>1, <1>3, EvaluateCounts, PhaseNumbers DEF CtxTypeOK
<1> QED BY <1>2, <1>3 DEF OnHttpResponseHeaders

LEMMA OrderStep ==
  ASSUME "headers" \notin Faults, "waf" \notin Faults, TypeOK, OnceInv, ClosedInv, OrderInv,
         [Next]_vars
  PROVE  OrderInv'
<1>0. /\ CtxTypeOK /\ phaseCalls \in [1..5 -> 0..3]
      /\ Settled
  BY NextSettled, PhaseNumbers DEF TypeOK, CtxTypeOK, CorazaTypeOK
<1>1. CASE RequestHeaders
  <2>1. PICK action : OnHttpRequestHeaders(action)
    BY <1>1 DEF RequestHeaders
  <2>2. /\ Inactive /\ ~done /\ UNCHANGED done
        /\ stage'["req"] # "idle" /\ stage'["resp"] = "idle"
    BY <1>1, AdvanceStage
    DEF RequestHeaders, Running, OrderInv, Inactive, OnceInv, FirstIsUninterrupted, Dir
  <2>3. Counts({1}) /\ UNCHANGED processed
    BY <1>0, <2>1, RequestHeadersCounts
  <2>4. ~Inactive' => phaseCalls'[1] > 0
    BY <1>0, <2>1, <2>2, RequestHeadersOrder
  <2> QED BY <1>0, <2>2, <2>3, <2>4, PhaseNumbers DEF Counts, OrderInv, PhasesInOrder
<1>2. CASE ResponseHeaders
  <2>1. PICK action : OnHttpResponseHeaders(action)
    BY <1>2 DEF ResponseHeaders
  <2>2. /\ ~done /\ UNCHANGED done /\ stage'["req"] # "idle"
    BY <1>2, AdvanceStage DEF ResponseHeaders, Running, Dir
  <2>3. CASE SkipsResponseHeaders
    <3>1. UNCHANGED ctxVars
      BY <2>1, <2>3 DEF OnHttpResponseHeaders
    <3> QED BY <2>2, <2>3, <3>1 DEF SkipsResponseHeaders, Inactive, ctxVars, flags, outcome,
                                    corazaVars, OrderInv, PhasesInOrder
  <2>4. CASE ~SkipsResponseHeaders
    <3>1. isInterrupted(interruptedAt') \/ phaseCalls'[3] > 0
      BY <1>0, <2>1, <2>4, ResponseHeadersOrder DEF OrderInv
    <3>2. phaseCalls'[2] > 0
      BY <1>0, <2>1, <2>4, ResponseHeadersOrder DEF OrderInv
    <3>3. Counts({2, 3}) /\ UNCHANGED tx
      BY <1>0, <2>1, ResponseHeadersCounts
    <3>4. phaseCalls'[1] > 0
      BY <2>4, <3>3, PhaseNumbers DEF SkipsResponseHeaders, OrderInv, Counts
    <3>5. phaseCalls[4] > 0 => phaseCalls'[3] > 0
      BY <1>0, <2>2, <3>3, PhaseNumbers DEF OrderInv, PhasesInOrder, Counts
    <3> QED BY <1>0, <2>2, <3>1, <3>2, <3>3, <3>4, <3>5, PhaseNumbers
            DEF OrderInv, PhasesInOrder, Counts
  <2> QED BY <2>3, <2>4
<1>3. ASSUME NEW d \in Dir, Body(d) \/ Trailers(d)
      PROVE  OrderInv'
  <2>1. /\ BodyCounts(d) /\ UNCHANGED <<tx, done>> /\ ~done
        /\ stage[d] = "body" /\ stage'[d] # "idle"
        /\ \A e \in Dir \ {d} : stage'[e] = stage[e]
    BY <1>0, <1>3, OnBodyCounts, OnTrailersCounts, AdvanceStage DEF Body, Trailers, Running
  <2>2. stage["req"] # "idle" /\ stage'["req"] # "idle"
    BY <2>1 DEF Dir, OnceInv, FirstIsUninterrupted
  <2>3. /\ stage'["resp"] # "idle" => stage["resp"] # "idle"
        /\ ~isInterrupted(interruptedAt') => ~isInterrupted(interruptedAt)
        /\ ~Inactive' => ~Inactive
    BY <1>0, <2>1 DEF Dir, Settled, Inactive, BodyCounts, Counts
  <2>4. /\ phaseCalls'[1] = phaseCalls[1] /\ phaseCalls'[3] = phaseCalls[3]
        /\ phaseCalls[2] > 0 => phaseCalls'[2] > 0
        /\ processed'["req"] => processed["req"] \/ phaseCalls'[2] > 0
    <3>1. full["req"] # "no" => phaseCalls[2] > 0
      BY PhaseNumbers DEF ClosedInv, Dir
    <3>2. \A p \in Phases : phaseCalls[p] > 0 => phaseCalls'[p] > 0
      BY <1>0, <2>1, CountsRise DEF BodyCounts
    <3>3. "req" \in Dir
      BY DEF Dir
    <3>4. processed'["req"] => processed["req"] \/ phaseCalls'[2] > 0
      BY <2>1, <3>1, <3>2, <3>3, PhaseNumbers DEF BodyCounts
    <3> QED BY <2>1, <3>2, <3>4, PhaseNumbers DEF BodyCounts, Counts, Dir
  <2>5. phaseCalls'[2] # phaseCalls[2] => phaseCalls[1] > 0
    BY <1>0, <2>1 DEF BodyCounts, OrderInv
  <2>6. phaseCalls'[4] # phaseCalls[4] => phaseCalls[3] > 0
    BY <1>0, <2>1, PhaseNumbers DEF BodyCounts, Counts, OrderInv, Dir
  <2> QED BY <1>0, <2>1, <2>2, <2>3, <2>4, <2>5, <2>6 DEF OrderInv, PhasesInOrder
<1>4. CASE StreamDone
  <2>1. /\ Counts({4, 5}) /\ processed'["req"] = processed["req"] /\ done' /\ UNCHANGED stage
        /\ UNCHANGED interruptedAt /\ stage["req"] # "idle"
        /\ tx' # "nil" => tx # "nil"
    BY <1>0, <1>4, StreamDoneCounts DEF StreamDone, Running, ClosedInv, outcome
  <2> QED BY <1>0, <2>1, PhaseNumbers DEF Counts, OrderInv, PhasesInOrder, Inactive
<1>5. CASE UNCHANGED vars
  BY <1>5 DEF vars, ctxVars, flags, outcome, corazaVars, hostVars, OrderInv, PhasesInOrder, Inactive
<1> QED BY <1>1, <1>2, <1>3, <1>4, <1>5 DEF Next

\* Where neither the engine nor the reading of headers fails, phases are
\* evaluated in order, however requests and responses interleave, local replies
\* are refused, bodies are left unread and the host goes on calling.
THEOREM PhasesOrdered ==
  ASSUME "headers" \notin Faults, "waf" \notin Faults
  PROVE  Spec => []PhasesInOrder
<1>1. Init => OrderInv
  BY PhaseNumbers DEF Init, OrderInv, Inactive, PhasesInOrder, Dir
<1>2. OrderInv /\ TypeOK /\ OnceInv /\ ClosedInv /\ [Next]_vars => OrderInv'
  BY OrderStep
<1>3. OrderInv => PhasesInOrder
  BY DEF OrderInv
<1> QED BY <1>1, <1>2, <1>3, TypeCorrect, OnceInvariant, ClosedInvariant, PTL DEF Spec

-----------------------------------------------------------------------------
(* The reply of an interruption is the last one.                           *)

\* A step sends at most one reply; that of an interruption is recorded with it.
Answers ==
  \/ UNCHANGED replies
  \/ \E status : Reply("failure", status)
  \/ isInterrupted(interruptedAt') /\ \E status : Reply("interruption", status)

LEMMA ConcludeAnswers ==
  ASSUME NEW v, NEW phase \in 1..4, NEW size, NEW action, NEW mask,
         \/ Conclude(v, phase, size, action, mask)
         \/ handleInterruption(phase, size, action, mask)
         \/ handleInternalEngineFailurePolicy(action)
  PROVE  Answers
<1>1. CASE handleInterruption(phase, size, action, mask)
  BY <1>1 DEF handleInterruption, Answers, isInterrupted, interruptionPhaseNone
<1>2. CASE handleInternalEngineFailurePolicy(action)
  BY <1>2 DEF handleInternalEngineFailurePolicy, Answers
<1> QED BY <1>1, <1>2 DEF Conclude, Answers, outcome

\* The ways inspectBody ends.
LEMMA InspectBodyEnds ==
  ASSUME NEW d \in Dir, NEW bodySize, NEW endOfStream, NEW action, NEW mask,
         inspectBody(d, bodySize, endOfStream, action, mask)
  PROVE  \/ handleInternalEngineFailurePolicy(action) /\ mask = NoMask
         \/ UNCHANGED outcome /\ mask = NoMask /\ (action = "continue" \/ ~endOfStream)
         \/ \E size : handleInterruption(BodyPhase(d), size, action, mask)
         \/ \E size, v : Conclude(v, BodyPhase(d), size, action, mask)
<1>1. CASE ReadFails(Unread(bodySize), action, mask)
  BY <1>1 DEF ReadFails
<1>2. CASE \E readIndex, whole, inner, v :
             AfterWrite(d, readIndex, endOfStream, whole, inner, v, action, mask)
  BY <1>2 DEF AfterWrite
<1> QED BY <1>1, <1>2 DEF inspectBody

LEMMA OnBodyAnswers ==
  ASSUME NEW d \in Dir, NEW bodySize, NEW endOfStream, NEW action, NEW mask,
         OnBody(d, bodySize, endOfStream, action, mask)
  PROVE  Answers
<1>1. CASE UNCHANGED outcome
  BY <1>1 DEF Answers, outcome
<1>2. CASE inspectBody(d, bodySize, endOfStream, action, mask)
  BY <1>1, <1>2, InspectBodyEnds, ConcludeAnswers, BodyPhaseType
<1>3. CASE skipBody(d, bodySize, action, mask)
  BY <1>3, ConcludeAnswers, BodyPhaseType DEF skipBody
<1> QED
  BY <1>1, <1>2, <1>3 DEF OnBody, OnHttpRequestBody, OnHttpResponseBody, processBody, ctxVars, outcome, Dir

LEMMA HeadersAnswers ==
  ASSUME NEW action, OnHttpRequestHeaders(action) \/ OnHttpResponseHeaders(action)
  PROVE  Answers
<1>1. CASE UNCHANGED outcome
  BY <1>1 DEF Answers, outcome
<1> QED
  BY <1>1, PhaseNumbers, ConcludeAnswers DEF OnHttpRequestHeaders, OnHttpResponseHeaders, ctxVars

LEMMA NextAnswers ==
  ASSUME [Next]_vars
  PROVE  Answers
<1>1. ASSUME NEW d \in Dir, Body(d) \/ Trailers(d)
      PROVE  Answers
  BY <1>1, OnBodyAnswers DEF Body, Trailers, OnTrailers, Answers
<1>2. CASE RequestHeaders \/ ResponseHeaders
  BY <1>2, HeadersAnswers DEF RequestHeaders, ResponseHeaders
<1>3. CASE StreamDone \/ UNCHANGED vars
  BY <1>3 DEF StreamDone, OnHttpStreamDone, Answers, vars, ctxVars, outcome
<1> QED BY <1>1, <1>2, <1>3 DEF Next

\* Before the stream is interrupted every reply is that of a failure.
FinalInv ==
  /\ ~isInterrupted(interruptedAt) => \A i \in 1..Len(replies) : replies[i].cause = "failure"
  /\ InterruptionReplyIsFinal

LEMMA FinalStep ==
  ASSUME TypeOK, OnceInv, FinalInv, [Next]_vars
  PROVE  FinalInv'
<1>0. replies \in Seq([cause : {"failure", "interruption"}, status : Nat])
  BY DEF TypeOK, OutcomeTypeOK, Replies
<1>1. CASE UNCHANGED replies
  BY <1>1, NextSettled DEF FinalInv, InterruptionReplyIsFinal, Settled
<1>2. CASE ~UNCHANGED replies
  <2>1. PICK cause, status :
          /\ Reply(cause, status)
          /\ cause = "failure" \/ isInterrupted(interruptedAt')
    BY <1>2, NextAnswers DEF Answers
  <2>2. \A i \in 1..Len(replies) : replies[i].cause = "failure"
    BY <1>2, NextSettled DEF FinalInv, Settled
  <2>3. /\ Len(replies') = Len(replies) + 1
        /\ \A i \in 1..Len(replies) : replies'[i] = replies[i]
        /\ replies'[Len(replies) + 1].cause = cause
        /\ Len(replies) \in Nat
    BY <1>0, <2>1, <1>2 DEF Reply
  <2> QED BY <2>1, <2>2, <2>3 DEF FinalInv, InterruptionReplyIsFinal
<1> QED BY <1>1, <1>2

\* No reply follows that of an interruption, whatever fails and however the
\* host goes on calling.
THEOREM ReplyIsFinal == Spec => []InterruptionReplyIsFinal
<1>1. Init => FinalInv
  BY DEF Init, FinalInv, InterruptionReplyIsFinal
<1>2. FinalInv /\ TypeOK /\ OnceInv /\ [Next]_vars => FinalInv'
  BY FinalStep
<1>3. FinalInv => InterruptionReplyIsFinal
  BY DEF FinalInv
<1> QED BY <1>1, <1>2, <1>3, TypeCorrect, OnceInvariant, PTL DEF Spec

-----------------------------------------------------------------------------
(* When local replies succeed, a stream that is held is answered.          *)

LEMMA ReplyAnswers ==
  ASSUME NEW cause, NEW status, Reply(cause, status), OutcomeTypeOK
  PROVE  Answered'
<1>1. replies \in Seq([cause : {"failure", "interruption"}, status : Nat])
  BY DEF OutcomeTypeOK, Replies
<1>2. Len(replies) \in Nat /\ Len(replies') = Len(replies) + 1
  BY <1>1 DEF Reply
<1>3. replies' = << >> => Len(replies') = 0
  OBVIOUS
<1> QED BY <1>2, <1>3 DEF Answered

\* A stream that was answered stays so.
LEMMA AnsweredStays ==
  ASSUME Answered, TypeOK, [Next]_vars
  PROVE  Answered'
BY NextAnswers, ReplyAnswers DEF Answers, Answered, TypeOK

LEMMA FailureAnswers ==
  ASSUME "send" \notin Faults, OutcomeTypeOK, NEW action,
         handleInternalEngineFailurePolicy(action)
  PROVE  IF cfg.policy = "allow" THEN action = "continue" ELSE action = "pause" /\ Answered'
BY ReplyAnswers DEF handleInternalEngineFailurePolicy, BlocksOnFailure, AfterReply

\* What an interruption before the response body answers.
LEMMA InterruptionAnswers ==
  ASSUME "send" \notin Faults, OutcomeTypeOK, NEW phase \in 1..4, NEW size, NEW action, NEW mask,
         handleInterruption(phase, size, action, mask), ~isInterrupted(interruptedAt)
  PROVE  /\ interruptedAt' = phase
         /\ IF phase = 4 THEN action = "continue" ELSE action = "pause" /\ Answered'
BY PhaseNumbers, ReplyAnswers
DEF handleInterruption, replaceResponseBodyWhenInterrupted, AfterReply

LEMMA ConcludeAnswered ==
  ASSUME "send" \notin Faults, OutcomeTypeOK, NEW v, NEW phase \in 1..4, NEW size, NEW action,
         NEW mask, Conclude(v, phase, size, action, mask), ~isInterrupted(interruptedAt)
  PROVE  /\ action = "continue" \/ (action = "pause" /\ Answered')
         /\ UNCHANGED interruptedAt \/ interruptedAt' = phase
         /\ interruptedAt' \in 1..3 => Answered'
BY FailureAnswers, InterruptionAnswers, Interrupted
DEF Conclude, outcome, OutcomeTypeOK, handleInternalEngineFailurePolicy

\* A body callback holds the body only to wait for the rest of it, or because
\* the stream is answered.
LEMMA OnBodyAnswered ==
  ASSUME "send" \notin Faults, CtxTypeOK, NEW d \in Dir, NEW bodySize, NEW endOfStream,
         NEW action, NEW mask, OnBody(d, bodySize, endOfStream, action, mask),
         ~isInterrupted(interruptedAt)
  PROVE  /\ action = "continue" \/ Answered' \/ ~endOfStream
         /\ interruptedAt' \in 1..3 => Answered'
<1>0. /\ OutcomeTypeOK /\ BodyPhase(d) \in 1..4
      /\ interruptedAt \notin 1..3
  BY BodyPhaseType, Interrupted DEF CtxTypeOK, OutcomeTypeOK
<1>1. CASE UNCHANGED outcome /\ (action = "continue" \/ ~endOfStream)
  BY <1>0, <1>1 DEF outcome
<1>2. CASE inspectBody(d, bodySize, endOfStream, action, mask)
  <2>1. CASE handleInternalEngineFailurePolicy(action)
    BY <1>0, <2>1, FailureAnswers DEF handleInternalEngineFailurePolicy
  <2>2. CASE \E size : handleInterruption(BodyPhase(d), size, action, mask)
    BY <1>0, <2>2, InterruptionAnswers
  <2>3. CASE \E size, v : Conclude(v, BodyPhase(d), size, action, mask)
    BY <1>0, <2>3, ConcludeAnswered
  <2> QED BY <1>1, <1>2, <2>1, <2>2, <2>3, InspectBodyEnds
<1>3. CASE skipBody(d, bodySize, action, mask)
  BY <1>0, <1>3, ConcludeAnswered DEF skipBody
<1>4. CASE UNCHANGED ctxVars /\ action = "continue"
  BY <1>1, <1>4 DEF ctxVars, outcome
<1> QED
  BY <1>1, <1>2, <1>3, <1>4
  DEF OnBody, OnHttpRequestBody, OnHttpResponseBody, processBody, Dir

LEMMA RequestHeadersAnswered ==
  ASSUME "send" \notin Faults, CtxTypeOK, NEW action, OnHttpRequestHeaders(action),
         ~isInterrupted(interruptedAt)
  PROVE  /\ action = "continue" \/ Answered'
         /\ tx' = "nil" => Answered' \/ (cfg.policy = "allow" /\ action = "continue")
         /\ interruptedAt' \in 1..3 => Answered'
<1>0. OutcomeTypeOK /\ interruptedAt \notin 1..3
  BY Interrupted DEF CtxTypeOK, OutcomeTypeOK
<1>1. CASE handleInternalEngineFailurePolicy(action)
  BY <1>0, <1>1, FailureAnswers DEF handleInternalEngineFailurePolicy
<1>2. CASE tx' = "open" /\ action = "continue" /\ UNCHANGED outcome
  BY <1>0, <1>2 DEF outcome
<1>3. CASE tx' = "open" /\ \E v : Conclude(v, 1, 0, action, NoMask)
  BY <1>0, <1>3, ConcludeAnswered
<1> QED BY <1>1, <1>2, <1>3, PhaseNumbers DEF OnHttpRequestHeaders

LEMMA ResponseHeadersAnswered ==
  ASSUME "send" \notin Faults, CtxTypeOK, NEW action, OnHttpResponseHeaders(action),
         ~SkipsResponseHeaders
  PROVE  interruptedAt' \in 1..3 => Answered'
<1>0. OutcomeTypeOK /\ interruptedAt \notin 1..3 /\ ~isInterrupted(interruptedAt)
  BY Interrupted DEF CtxTypeOK, OutcomeTypeOK, SkipsResponseHeaders
<1>1. CASE handleInternalEngineFailurePolicy(action)
  BY <1>0, <1>1 DEF handleInternalEngineFailurePolicy
<1>2. CASE \E v : Conclude(v, 3, 0, action, NoMask)
  BY <1>0, <1>2, ConcludeAnswered
<1> QED BY <1>1, <1>2, PhaseNumbers DEF OnHttpResponseHeaders

\* Request headers that are not forwarded, a stream without a transaction that
\* is not allowed to pass and an interruption but that of a response body all
\* come with a reply.
AnsweredInv ==
  /\ stage["req"] # "idle" => upstream \/ Answered
  /\ stage["req"] # "idle" /\ tx = "nil" => Answered \/ (cfg.policy = "allow" /\ upstream)
  /\ interruptedAt \in 1..3 => Answered

LEMMA AnsweredStep ==
  ASSUME "send" \notin Faults, TypeOK, OnceInv, AnsweredInv, [Next]_vars
  PROVE  AnsweredInv'
<1>0. /\ CtxTypeOK /\ (Answered => Answered')
      /\ interruptedAt \in 0..4 /\ Settled
  BY AnsweredStays, NextSettled DEF TypeOK, CtxTypeOK, OutcomeTypeOK
<1>1. isInterrupted(interruptedAt) => (interruptedAt' \in 1..3 => Answered')
  BY <1>0 DEF Settled, AnsweredInv
<1>2. CASE RequestHeaders
  BY <1>0, <1>2, RequestHeadersAnswered
  DEF RequestHeaders, OnceInv, FirstIsUninterrupted, AnsweredInv
<1>3. CASE ResponseHeaders
  <2>1. UNCHANGED <<cfg, upstream, tx>> /\ stage["req"] # "idle"
    BY <1>3 DEF ResponseHeaders, OnHttpResponseHeaders, ctxVars, corazaVars
  <2>2. PICK action : OnHttpResponseHeaders(action)
    BY <1>3 DEF ResponseHeaders
  <2>3. CASE SkipsResponseHeaders
    BY <1>0, <2>1, <2>2, <2>3 DEF OnHttpResponseHeaders, ctxVars, outcome, AnsweredInv
  <2>4. CASE ~SkipsResponseHeaders
    BY <1>0, <2>1, <2>2, <2>4, ResponseHeadersAnswered DEF AnsweredInv
  <2> QED BY <2>3, <2>4
<1>4. ASSUME NEW d \in Dir, Body(d) \/ Trailers(d)
      PROVE  AnsweredInv'
  <2>1. UNCHANGED <<cfg, upstream, tx>> /\ stage["req"] # "idle"
    BY <1>0, <1>4, OnBodyCounts, OnTrailersCounts
    DEF Body, Trailers, OnceInv, FirstIsUninterrupted, Dir
  <2>2. interruptedAt' \in 1..3 => Answered'
    BY <1>0, <1>1, <1>4, OnBodyAnswered DEF Body, Trailers, OnTrailers, AnsweredInv
  <2> QED BY <1>0, <2>1, <2>2 DEF AnsweredInv
<1>5. CASE StreamDone
  BY <1>0, <1>5 DEF StreamDone, OnHttpStreamDone, ctxVars, outcome, corazaVars, AnsweredInv
<1>6. CASE UNCHANGED vars
  BY <1>6 DEF vars, ctxVars, outcome, corazaVars, hostVars, AnsweredInv, Answered
<1> QED BY <1>2, <1>3, <1>4, <1>5, <1>6 DEF Next

LEMMA AnsweredInvariant ==
  ASSUME "send" \notin Faults
  PROVE  Spec => []AnsweredInv
<1>1. Init => AnsweredInv
  BY DEF Init, AnsweredInv, Dir, interruptionPhaseNone
<1>2. AnsweredInv /\ TypeOK /\ OnceInv /\ [Next]_vars => AnsweredInv'
  BY AnsweredStep
<1> QED BY <1>1, <1>2, TypeCorrect, OnceInvariant, PTL DEF Spec

LEMMA ConcludeLogger ==
  ASSUME NEW v, NEW phase, NEW size, NEW action, NEW mask, crashed = "no",
         \/ Conclude(v, phase, size, action, mask)
         \/ handleInterruption(phase, size, action, mask)
         \/ handleInternalEngineFailurePolicy(action)
  PROVE  crashed' # "nil_logger"
BY DEF Conclude, handleInterruption, handleInternalEngineFailurePolicy, outcome

LEMMA OnBodyLogger ==
  ASSUME NEW d \in Dir, NEW bodySize, NEW endOfStream, NEW action, NEW mask,
         OnBody(d, bodySize, endOfStream, action, mask), crashed = "no"
  PROVE  crashed' # "nil_logger"
<1>1. CASE UNCHANGED outcome
  BY <1>1 DEF outcome
<1>2. CASE inspectBody(d, bodySize, endOfStream, action, mask)
  BY <1>1, <1>2, InspectBodyEnds, ConcludeLogger
<1>3. CASE skipBody(d, bodySize, action, mask)
  BY <1>3, ConcludeLogger DEF skipBody
<1> QED
  BY <1>1, <1>2, <1>3
  DEF OnBody, OnHttpRequestBody, OnHttpResponseBody, processBody, ctxVars, outcome, Dir

LEMMA HeadersLogger ==
  ASSUME NEW action, OnHttpRequestHeaders(action) \/ OnHttpResponseHeaders(action), crashed = "no"
  PROVE  crashed' # "nil_logger"
BY ConcludeLogger DEF OnHttpRequestHeaders, OnHttpResponseHeaders, ctxVars, outcome

\* Trailers are the only callbacks that panic for want of a logger, and a host
\* that has answered the stream does not make them.
LEMMA NilLoggerStep ==
  ASSUME HostStopsOnReply, TypeOK, OnceInv, AnsweredInv, NilLoggerOnlyWhenAllowed, [Next]_vars
  PROVE  NilLoggerOnlyWhenAllowed'
<1> SUFFICES ASSUME crashed' = "nil_logger"
             PROVE  cfg'.policy = "allow" /\ upstream'
  BY DEF NilLoggerOnlyWhenAllowed
<1>1. CASE RequestHeaders \/ ResponseHeaders
  BY <1>1, HeadersLogger DEF RequestHeaders, ResponseHeaders, Running
<1>2. ASSUME NEW d \in Dir, Body(d)
      PROVE  FALSE
  BY <1>2, OnBodyLogger DEF Body, Running
<1>3. ASSUME NEW d \in Dir, Trailers(d)
      PROVE  cfg'.policy = "allow" /\ upstream'
  <2>1. tx = "nil" /\ ~Answered
    BY <1>3, OnBodyLogger DEF Trailers, OnTrailers, Running
  <2>2. stage["req"] # "idle"
    BY <1>3 DEF Trailers, OnceInv, FirstIsUninterrupted, Dir
  <2> QED BY <1>3, <2>1, <2>2 DEF Trailers, AnsweredInv
<1>4. CASE StreamDone
  BY <1>4 DEF StreamDone, OnHttpStreamDone, Running, ctxVars, outcome
<1>5. CASE UNCHANGED vars
  BY <1>5 DEF vars, ctxVars, outcome, hostVars, NilLoggerOnlyWhenAllowed
<1> QED BY <1>1, <1>2, <1>3, <1>4, <1>5 DEF Next

\* When local replies succeed and the host respects them, no trailers callback
\* panics for want of a logger but in a stream that failure policy "allow" let
\* through without a WAF.
THEOREM NoNilLoggerUnlessAllowed ==
  ASSUME "send" \notin Faults, HostStopsOnReply
  PROVE  Spec => []NilLoggerOnlyWhenAllowed
<1>1. Init => NilLoggerOnlyWhenAllowed
  BY DEF Init, NilLoggerOnlyWhenAllowed
<1>2. NilLoggerOnlyWhenAllowed /\ TypeOK /\ OnceInv /\ AnsweredInv /\ [Next]_vars
        => NilLoggerOnlyWhenAllowed'
  BY NilLoggerStep
<1>3. Spec => []AnsweredInv
  BY AnsweredInvariant
<1> QED BY <1>1, <1>2, <1>3, TypeCorrect, OnceInvariant, PTL DEF Spec

-----------------------------------------------------------------------------
(* No ended body stays behind.                                             *)

\* Nothing of a body arrives before its headers; an ended body has left the
\* buffer, or the stream is answered.
EndedInv ==
  /\ \A d \in Dir : stage[d] = "idle" => arrived[d] = 0
  /\ \A d \in Dir : stage[d] = "ended" /\ flushed[d] < arrived[d] =>
       \/ Answered
       \/ d = "req" /\ interruptedAt = interruptionPhaseHttpResponseBody
       \/ crashed # "no"

LEMMA FollowReleases ==
  ASSUME NEW d \in Dir, BuffersTypeOK, NEW n \in 0..(MaxBody - arrived[d]), NEW mask,
         Receive(d, n), Follow(d, "continue", mask), HostForwards(d)
  PROVE  flushed'[d] = arrived'[d]
BY DEF Follow, Receive, BuffersTypeOK

LEMMA BodyEnds ==
  ASSUME "send" \notin Faults, TypeOK, OnceInv, AnsweredInv, NEW d \in Dir, Next,
         stage[d] = "body", UNCHANGED upstream,
         NEW n \in 0..(MaxBody - arrived[d]), NEW action \in Actions, NEW bodySize,
         NEW endOfStream, NEW mask \in {NoMask} \cup 0..MaxBody,
         OnBody(d, bodySize, endOfStream, action, mask),
         Receive(d, n), Follow(d, action, mask), Advance(d, endOfStream),
         stage'[d] = "ended", flushed'[d] < arrived'[d]
  PROVE  Answered' \/ (d = "req" /\ interruptedAt' = interruptionPhaseHttpResponseBody)
<1>0. /\ CtxTypeOK /\ BuffersTypeOK /\ (Answered => Answered') /\ Settled
      /\ interruptedAt \in 0..4 /\ stage["req"] # "idle"
  BY AnsweredStays, NextSettled
  DEF TypeOK, CtxTypeOK, OutcomeTypeOK, OnceInv, FirstIsUninterrupted, Dir
<1>1. endOfStream \/ Answered'
  BY DEF Advance, Answered, TypeOK
<1>2. CASE action = "continue"
  <2>1. ~HostForwards(d)
    <3>1. flushed'[d] \in Int
      BY NextType DEF TypeOK, BuffersTypeOK
    <3> QED BY <1>0, <1>2, <3>1, FollowReleases
  <2>2. (d = "req" /\ ~upstream) \/ Answered'
    BY <2>1 DEF HostForwards, Answered
  <2> QED BY <1>0, <2>2 DEF AnsweredInv
<1>3. CASE action = "pause" /\ ~isInterrupted(interruptedAt)
  BY <1>0, <1>1, <1>3, OnBodyAnswered
<1>4. CASE action = "pause" /\ isInterrupted(interruptedAt)
  <2>1. d = "req"
    BY <1>4 DEF OnBody, OnHttpResponseBody, replaceResponseBodyWhenInterrupted, Dir
  <2>2. interruptedAt' = interruptedAt /\ (interruptedAt \in 1..3 \/ interruptedAt = 4)
    BY <1>0, <1>4, Interrupted DEF Settled
  <2> QED BY <1>0, <2>1, <2>2, PhaseNumbers DEF AnsweredInv
<1> QED BY <1>2, <1>3, <1>4 DEF Actions

LEMMA EndedStep ==
  ASSUME "send" \notin Faults, TypeOK, OnceInv, AnsweredInv, EndedInv, [Next]_vars
  PROVE  EndedInv'
<1>0. /\ CtxTypeOK /\ BuffersTypeOK /\ (Answered => Answered') /\ Settled
      /\ (interruptedAt = 4 => interruptedAt' = 4)
  BY AnsweredStays, NextSettled, Interrupted DEF TypeOK, CtxTypeOK, Settled
<1>1. ASSUME UNCHANGED buffers, crashed = "no" \/ UNCHANGED crashed, 
             \A d \in Dir : stage'[d] \in {"idle", "ended"} => stage'[d] = stage[d] \/ (stage[d] = "idle" /\ stage'[d] = "ended")
      PROVE  EndedInv'
  <2>1. ASSUME NEW d \in Dir, stage'[d] = "idle"
        PROVE  arrived'[d] = 0
    BY <1>1, <2>1 DEF EndedInv, buffers
  <2>2. ASSUME NEW d \in Dir, stage'[d] = "ended", flushed'[d] < arrived'[d]
        PROVE  \/ Answered'
               \/ d = "req" /\ interruptedAt' = interruptionPhaseHttpResponseBody
               \/ crashed' # "no"
    BY <1>0, <1>1, <2>2, PhaseNumbers DEF EndedInv, buffers, BuffersTypeOK
  <2> QED BY <2>1, <2>2 DEF EndedInv
<1>2. CASE RequestHeaders
  BY <1>1, <1>2, AdvanceStage DEF RequestHeaders, Running, Dir, TypeOK, Advance
<1>3. CASE ResponseHeaders
  BY <1>1, <1>3, AdvanceStage DEF ResponseHeaders, Running, Dir, TypeOK, Advance
<1>4. ASSUME NEW d \in Dir, Body(d) \/ Trailers(d)
      PROVE  EndedInv'
  <2>1. /\ stage[d] = "body" /\ stage'[d] # "idle" /\ UNCHANGED upstream /\ crashed = "no"
        /\ \A e \in Dir \ {d} : UNCHANGED <<stage[e], arrived[e], flushed[e]>>
    BY <1>4, AdvanceStage DEF Body, Trailers, Receive, Follow, Running, TypeOK, BuffersTypeOK
  <2>2. ASSUME stage'[d] = "ended", flushed'[d] < arrived'[d]
        PROVE  \/ Answered'
               \/ d = "req" /\ interruptedAt' = interruptionPhaseHttpResponseBody
               \/ crashed' # "no"
    <3>1. CASE Body(d)
      BY <2>1, <2>2, <3>1, BodyEnds DEF Body, Next
    <3>2. CASE Trailers(d)
      <4>1. CASE tx = "nil"
        BY <3>2, <4>1 DEF Trailers, OnTrailers
      <4>2. CASE tx # "nil"
        <5>1. 0 \in 0..(MaxBody - arrived[d])
          BY Constants DEF TypeOK, BuffersTypeOK
        <5>2. PICK action \in Actions, mask \in {NoMask} \cup 0..MaxBody :
                /\ OnBody(d, bodyReadIndex, TRUE, action, mask)
                /\ Receive(d, 0) /\ Follow(d, action, mask) /\ Advance(d, TRUE)
          BY <3>2, <4>2 DEF Trailers, OnTrailers, TrailersEndStream
        <5>3. Next
          BY <3>2 DEF Next
        <5> QED BY <2>1, <2>2, <5>1, <5>2, <5>3, BodyEnds
      <4> QED BY <4>1, <4>2
    <3> QED BY <1>4, <3>1, <3>2
  <2>3. ASSUME NEW e \in Dir, e # d, stage'[e] = "ended", flushed'[e] < arrived'[e]
        PROVE  \/ Answered'
               \/ e = "req" /\ interruptedAt' = interruptionPhaseHttpResponseBody
               \/ crashed' # "no"
    BY <1>0, <2>1, <2>3, PhaseNumbers DEF EndedInv
  <2> QED BY <2>1, <2>2, <2>3 DEF EndedInv
<1>5. CASE StreamDone
  BY <1>1, <1>5 DEF StreamDone, Running
<1>6. CASE UNCHANGED vars
  BY <1>1, <1>6 DEF vars, ctxVars, outcome, hostVars
<1> QED BY <1>2, <1>3, <1>4, <1>5, <1>6 DEF Next

\* When local replies succeed, a body that has ended was forwarded or its
\* stream is answered, however the host goes on; only the rest of an early
\* request may stay behind an interrupted response body.
THEOREM EndedBodyLeaves ==
  ASSUME "send" \notin Faults
  PROVE  Spec => []EndedBodyIsReleasedOrAnswered
<1>1. Init => EndedInv
  BY DEF Init, EndedInv
<1>2. EndedInv /\ TypeOK /\ OnceInv /\ AnsweredInv /\ [Next]_vars => EndedInv'
  BY EndedStep
<1>3. EndedInv => EndedBodyIsReleasedOrAnswered
  BY DEF EndedInv, EndedBodyIsReleasedOrAnswered, Dir
<1>4. Spec => []AnsweredInv
  BY AnsweredInvariant
<1> QED BY <1>1, <1>2, <1>3, <1>4, TypeCorrect, OnceInvariant, PTL DEF Spec
=============================================================================
