-------------------------- MODULE HttpContextProofs --------------------------
(***************************************************************************)
(* Proofs about HttpContext, for every value of its constants.             *)
(***************************************************************************)
EXTENDS HttpContext, TLAPS

LEMMA Constants ==
  /\ MaxBody \in Nat /\ RuleStatuses \subseteq Nat
  /\ NoMask \notin Nat /\ NoMask \in Int
BY MaxBodyAssumption, RuleStatusesAssumption DEF NoMask

LEMMA Interrupted == \A phase \in 0..4 : isInterrupted(phase) <=> phase > 0
BY DEF isInterrupted, interruptionPhaseNone

LEMMA BodyPhaseType == \A d \in Dir : BodyPhase(d) \in 1..4 /\ BodyPhase(d) \in Phases
BY DEF Dir, BodyPhase, Phases, interruptionPhaseHttpRequestBody, interruptionPhaseHttpResponseBody

-----------------------------------------------------------------------------
(* The operators the callbacks are built from keep the types.              *)

LEMMA EvaluateAfterType ==
  ASSUME NEW inner, NEW S, NEW v, EvaluateAfter(inner, S, v), CorazaTypeOK
  PROVE  phaseCalls' \in [Phases -> 0..3] /\ engine' \in {"on", "off"}
<1>1. \A T : \A calls \in [Phases -> 0..3] : Counted(calls, T) \in [Phases -> 0..3]
  BY DEF Counted
<1> QED BY <1>1 DEF EvaluateAfter, CorazaTypeOK

LEMMA EvaluateType ==
  ASSUME NEW S, NEW v, Evaluate(S, v), CorazaTypeOK
  PROVE  phaseCalls' \in [Phases -> 0..3] /\ engine' \in {"on", "off"}
BY EvaluateAfterType DEF Evaluate

\* A buffer is read from bodyReadIndex to its end: what is written ends there.
LEMMA UnreadBound ==
  ASSUME NEW bodySize \in 0..MaxBody, bodyReadIndex \in 0..MaxBody
  PROVE  /\ Unread(bodySize) \in 0..MaxBody
         /\ Unread(bodySize) > 0 => bodyReadIndex + Unread(bodySize) = bodySize
         /\ bodyReadIndex + Unread(bodySize) \in 0..MaxBody
BY Constants DEF Unread

\* Positions written lie within the body when the buffer does.
LEMMA WriteType ==
  ASSUME NEW d \in Dir, NEW n \in Nat, Write(d, n), CorazaTypeOK, FlagsTypeOK, BuffersTypeOK,
         n > 0 => flushed[d] + bodyReadIndex + n <= MaxBody
  PROVE  inspected' \in [Dir -> SUBSET (1..MaxBody)]
<1> DEFINE from == flushed[d] + bodyReadIndex
<1>1. from \in Nat
  BY Constants DEF BuffersTypeOK, FlagsTypeOK
<1>2. (from + 1)..(from + n) \subseteq 1..MaxBody
  BY <1>1, Constants
<1>3. inspected' = [inspected EXCEPT ![d] = @ \cup ((from + 1)..(from + n))]
  BY DEF Write
<1> QED BY <1>2, <1>3 DEF CorazaTypeOK

\* So does what the transaction keeps of a body, when the buffer ends within it.
LEMMA ReadAndWriteType ==
  ASSUME NEW d \in Dir, NEW chunkSize \in Nat, NEW m \in 0..chunkSize, NEW n \in 0..m,
         NEW inner, NEW v, ReadAndWrite(d, chunkSize, m, n, inner, v),
         CorazaTypeOK, FlagsTypeOK, BuffersTypeOK,
         chunkSize > 0 => flushed[d] + bodyReadIndex + chunkSize <= MaxBody
  PROVE  /\ inspected' \in [Dir -> SUBSET (1..MaxBody)]
         /\ full' \in [Dir -> {"no", "exactly", "beyond"}]
         /\ cut' \in [Dir -> 0..MaxBody]
         /\ short' \in SUBSET Dir
<1>1. CASE chunkSize = 0
  BY <1>1 DEF ReadAndWrite, written, CorazaTypeOK
<1>2. CASE chunkSize # 0
  <2>1. /\ WriteBody(d, m, n, inner, v)
        /\ short' = IF m < chunkSize THEN short \cup {d} ELSE short \ {d}
    BY <1>2 DEF ReadAndWrite
  <2>2. /\ n \in Nat
        /\ flushed[d] + bodyReadIndex + n \in 0..MaxBody
    BY <1>2, Constants DEF FlagsTypeOK, BuffersTypeOK
  <2>3. inspected' \in [Dir -> SUBSET (1..MaxBody)]
    BY <2>1, <2>2, WriteType DEF WriteBody
  <2>4. full' \in [Dir -> {"no", "exactly", "beyond"}] /\ cut' \in [Dir -> 0..MaxBody]
    BY <2>1, <2>2 DEF WriteBody, CorazaTypeOK
  <2>5. short' \in SUBSET Dir
    BY <2>1 DEF CorazaTypeOK
  <2> QED BY <2>3, <2>4, <2>5
<1> QED BY <1>1, <1>2

LEMMA FailureType ==
  ASSUME NEW action, handleInternalEngineFailurePolicy(action), OutcomeTypeOK
  PROVE  OutcomeTypeOK' /\ UNCHANGED interruptedAt
<1>1. CASE UNCHANGED replies
  BY <1>1 DEF handleInternalEngineFailurePolicy, OutcomeTypeOK
<1>2. CASE Reply("failure", StatusForbidden)
  <2>1. [cause |-> "failure", status |-> StatusForbidden] \in
          [cause : {"failure", "interruption"}, status : Nat]
    BY DEF StatusForbidden
  <2> QED BY <1>2, <2>1 DEF handleInternalEngineFailurePolicy, OutcomeTypeOK, Reply, Replies
<1> QED BY <1>1, <1>2 DEF handleInternalEngineFailurePolicy

LEMMA InterruptionType ==
  ASSUME NEW phase \in 1..4, NEW size, NEW action, NEW mask,
         handleInterruption(phase, size, action, mask), OutcomeTypeOK
  PROVE  OutcomeTypeOK'
<1>1. interruptedAt' \in 0..4
  BY DEF handleInterruption, OutcomeTypeOK
<1>2. crashed' \in Crashes
  BY DEF handleInterruption, OutcomeTypeOK, Crashes
<1>3. replies' \in Replies
  <2>1. CASE UNCHANGED replies
    BY <2>1 DEF OutcomeTypeOK
  <2>2. CASE \E s \in RuleStatuses :
               Reply("interruption", IF s = 0 THEN defaultInterruptionStatusCode ELSE s)
    <3>1. PICK s \in RuleStatuses :
            Reply("interruption", IF s = 0 THEN defaultInterruptionStatusCode ELSE s)
      BY <2>2
    <3>2. [cause |-> "interruption", status |-> IF s = 0 THEN defaultInterruptionStatusCode ELSE s]
            \in [cause : {"failure", "interruption"}, status : Nat]
      BY Constants DEF defaultInterruptionStatusCode
    <3> QED BY <3>1, <3>2 DEF OutcomeTypeOK, Reply, Replies
  <2> QED BY <2>1, <2>2 DEF handleInterruption
<1> QED BY <1>1, <1>2, <1>3 DEF OutcomeTypeOK

LEMMA ConcludeType ==
  ASSUME NEW v, NEW phase \in 1..4, NEW size, NEW action, NEW mask,
         Conclude(v, phase, size, action, mask), OutcomeTypeOK
  PROVE  OutcomeTypeOK'
<1>1. CASE UNCHANGED outcome
  BY <1>1 DEF outcome, OutcomeTypeOK
<1>2. CASE handleInternalEngineFailurePolicy(action)
  BY <1>2, FailureType
<1>3. CASE handleInterruption(phase, size, action, mask)
  BY <1>3, InterruptionType
<1> QED BY <1>1, <1>2, <1>3 DEF Conclude

-----------------------------------------------------------------------------
(* The body callbacks keep the types.                                      *)

CtxTypeOK == OutcomeTypeOK /\ CorazaTypeOK /\ FlagsTypeOK

\* bodySize is the size of a buffer that ends within the body, or has nothing
\* that has not been read.
Fits(d, bodySize) ==
  /\ bodySize \in 0..MaxBody
  /\ bodySize > bodyReadIndex => flushed[d] + bodySize <= MaxBody

LEMMA SkipBodyType ==
  ASSUME NEW d \in Dir, NEW bodySize \in 0..MaxBody, NEW action, NEW mask, CtxTypeOK,
         skipBody(d, bodySize, action, mask), UNCHANGED tx
  PROVE  CtxTypeOK'
<1>1. PICK v \in Verdicts :
        /\ Evaluate({BodyPhase(d)}, v)
        /\ processed' = [processed EXCEPT ![d] = d = "req" \/ v # "error"]
        /\ bodyReadIndex' = IF d = "resp" /\ v = "deny" THEN bodySize ELSE bodyReadIndex
        /\ Conclude(v, BodyPhase(d), bodySize, action, mask)
        /\ UNCHANGED written
  BY DEF skipBody
<1>2. OutcomeTypeOK'
  BY <1>1, ConcludeType, BodyPhaseType DEF CtxTypeOK
<1>3. CorazaTypeOK'
  BY <1>1, EvaluateType DEF CtxTypeOK, CorazaTypeOK, written
<1>4. FlagsTypeOK'
  BY <1>1 DEF CtxTypeOK, FlagsTypeOK
<1> QED BY <1>2, <1>3, <1>4 DEF CtxTypeOK

\* How a callback ends after a write.
LEMMA AfterWriteType ==
  ASSUME NEW d \in Dir, NEW readIndex \in 0..MaxBody, NEW endOfStream, NEW whole, NEW inner,
         NEW v, NEW action, NEW mask, CtxTypeOK,
         AfterWrite(d, readIndex, endOfStream, whole, inner, v, action, mask)
  PROVE  /\ OutcomeTypeOK' /\ FlagsTypeOK'
         /\ phaseCalls' \in [Phases -> 0..3] /\ engine' \in {"on", "off"}
<1>1. phaseCalls' \in [Phases -> 0..3] /\ engine' \in {"on", "off"}
  <2>1. CASE EvaluateAfter(inner, {}, v)
    BY <2>1, EvaluateAfterType DEF CtxTypeOK
  <2>2. CASE \E w \in Verdicts : EvaluateAfter(inner, {BodyPhase(d)}, w)
    BY <2>2, EvaluateAfterType DEF CtxTypeOK
  <2> QED BY <2>1, <2>2 DEF AfterWrite
<1>2. OutcomeTypeOK'
  <2>1. CASE UNCHANGED outcome
    BY <2>1 DEF CtxTypeOK, OutcomeTypeOK, outcome
  <2>2. CASE handleInternalEngineFailurePolicy(action)
    BY <2>2, FailureType DEF CtxTypeOK
  <2>3. CASE handleInterruption(BodyPhase(d), InterruptedSize(readIndex), action, mask)
    BY <2>3, InterruptionType, BodyPhaseType DEF CtxTypeOK
  <2>4. CASE \E w \in Verdicts : Conclude(w, BodyPhase(d), readIndex, action, mask)
    BY <2>4, ConcludeType, BodyPhaseType DEF CtxTypeOK
  <2> QED BY <2>1, <2>2, <2>3, <2>4 DEF AfterWrite
<1>3. /\ bodyReadIndex' \in {0, bodyReadIndex, readIndex}
      /\ processed' = processed \/ processed' = [processed EXCEPT ![d] = TRUE]
  BY DEF AfterWrite, CleanedIndex, flags
<1>4. FlagsTypeOK'
  <2>1. bodyReadIndex \in 0..MaxBody /\ 0 \in 0..MaxBody /\ processed \in [Dir -> BOOLEAN]
    BY Constants DEF CtxTypeOK, FlagsTypeOK
  <2>2. bodyReadIndex' \in 0..MaxBody
    BY <1>3, <2>1
  <2>3. processed' \in [Dir -> BOOLEAN]
    BY <1>3, <2>1
  <2> QED BY <2>2, <2>3 DEF FlagsTypeOK
<1> QED BY <1>1, <1>2, <1>4

\* A read begins at bodyReadIndex and ends within the buffer.
LEMMA ReadBound ==
  ASSUME NEW d \in Dir, NEW bodySize, CtxTypeOK, BuffersTypeOK, Fits(d, bodySize),
         NEW m \in 0..Unread(bodySize)
  PROVE  /\ Unread(bodySize) \in Nat /\ m \in Nat
         /\ Unread(bodySize) > 0 => flushed[d] + bodyReadIndex + Unread(bodySize) <= MaxBody
         /\ ReadIndex(Unread(bodySize), m) = bodyReadIndex + m
         /\ ReadIndex(Unread(bodySize), m) \in 0..MaxBody
BY UnreadBound, Constants
DEF Fits, CtxTypeOK, FlagsTypeOK, BuffersTypeOK, Unread, ReadIndex

LEMMA InspectBodyType ==
  ASSUME NEW d \in Dir, NEW bodySize, NEW endOfStream, NEW action, NEW mask,
         CtxTypeOK, BuffersTypeOK, Fits(d, bodySize), UNCHANGED tx,
         inspectBody(d, bodySize, endOfStream, action, mask)
  PROVE  CtxTypeOK'
<1> DEFINE chunkSize == Unread(bodySize)
<1>1. CASE ReadFails(chunkSize, action, mask)
  BY <1>1, FailureType
  DEF ReadFails, CtxTypeOK, CorazaTypeOK, FlagsTypeOK, flags, written
<1>2. ASSUME NEW m \in 0..chunkSize, NEW n \in 0..m, NEW inner, NEW v,
             ReadAndWrite(d, chunkSize, m, n, inner, v),
             AfterWrite(d, ReadIndex(chunkSize, m), endOfStream, n = m, inner, v, action, mask)
      PROVE  CtxTypeOK'
  <2>1. /\ chunkSize \in Nat /\ ReadIndex(chunkSize, m) \in 0..MaxBody
        /\ chunkSize > 0 => flushed[d] + bodyReadIndex + chunkSize <= MaxBody
    BY ReadBound
  <2> HIDE DEF chunkSize
  <2>2. /\ inspected' \in [Dir -> SUBSET (1..MaxBody)]
        /\ full' \in [Dir -> {"no", "exactly", "beyond"}]
        /\ cut' \in [Dir -> 0..MaxBody]
        /\ short' \in SUBSET Dir
    BY <1>2, <2>1, ReadAndWriteType DEF CtxTypeOK
  <2>3. /\ OutcomeTypeOK' /\ FlagsTypeOK'
        /\ phaseCalls' \in [Phases -> 0..3] /\ engine' \in {"on", "off"}
    BY <1>2, <2>1, AfterWriteType
  <2> QED BY <2>2, <2>3 DEF CtxTypeOK, CorazaTypeOK
<1> QED BY <1>1, <1>2 DEF inspectBody

LEMMA OnBodyType ==
  ASSUME NEW d \in Dir, NEW bodySize, NEW endOfStream, NEW action, NEW mask,
         CtxTypeOK, BuffersTypeOK, Fits(d, bodySize),
         OnBody(d, bodySize, endOfStream, action, mask)
  PROVE  CtxTypeOK'
<1>1. CASE UNCHANGED ctxVars
  BY <1>1 DEF CtxTypeOK, OutcomeTypeOK, CorazaTypeOK, FlagsTypeOK, ctxVars, flags, outcome,
              corazaVars, written
<1>2. CASE inspectBody(d, bodySize, endOfStream, action, mask) /\ UNCHANGED tx
  BY <1>2, InspectBodyType
<1>3. CASE skipBody(d, bodySize, action, mask) /\ UNCHANGED tx
  BY <1>3, SkipBodyType DEF Fits
<1> QED
  BY <1>1, <1>2, <1>3 DEF OnBody, OnHttpRequestBody, OnHttpResponseBody, processBody, Dir

LEMMA OnTrailersType ==
  ASSUME NEW d \in Dir, NEW action, NEW mask, CtxTypeOK, BuffersTypeOK,
         OnTrailers(d, action, mask)
  PROVE  CtxTypeOK'
<1>1. CASE tx = "nil"
  BY <1>1 DEF OnTrailers, CtxTypeOK, OutcomeTypeOK, CorazaTypeOK, FlagsTypeOK, Crashes,
              flags, corazaVars, written
<1>2. CASE tx # "nil"
  <2>1. Fits(d, bodyReadIndex)
    BY DEF Fits, CtxTypeOK, FlagsTypeOK
  <2>2. OnBody(d, bodyReadIndex, TrailersEndStream, action, mask)
    BY <1>2 DEF OnTrailers
  <2> QED BY <2>1, <2>2, OnBodyType
<1> QED BY <1>1, <1>2

-----------------------------------------------------------------------------
(* The other callbacks, the host, and the type invariant.                  *)

LEMMA RequestHeadersType ==
  ASSUME NEW action, CtxTypeOK, OnHttpRequestHeaders(action)
  PROVE  CtxTypeOK'
<1>1. FlagsTypeOK'
  BY DEF OnHttpRequestHeaders, CtxTypeOK, FlagsTypeOK, flags
<1>2. CASE /\ handleInternalEngineFailurePolicy(action)
           /\ UNCHANGED <<engine, phaseCalls>>
           /\ tx' \in {"nil", "open", "closed"}
           /\ UNCHANGED written
  BY <1>1, <1>2, FailureType DEF CtxTypeOK, CorazaTypeOK, written
<1>3. CASE /\ UNCHANGED <<engine, phaseCalls, outcome>>
           /\ tx' = "open"
           /\ UNCHANGED written
  BY <1>1, <1>3 DEF CtxTypeOK, CorazaTypeOK, OutcomeTypeOK, outcome, written
<1>4. CASE /\ \E v \in {"pass", "deny"} :
                /\ Evaluate({1}, v)
                /\ Conclude(v, interruptionPhaseHttpRequestHeaders, 0, action, NoMask)
           /\ tx' = "open"
           /\ UNCHANGED written
  <2>1. PICK v \in {"pass", "deny"} :
                /\ Evaluate({1}, v)
                /\ Conclude(v, interruptionPhaseHttpRequestHeaders, 0, action, NoMask)
    BY <1>4
  <2>2. OutcomeTypeOK'
    BY <2>1, ConcludeType DEF CtxTypeOK, interruptionPhaseHttpRequestHeaders
  <2>3. CorazaTypeOK'
    BY <1>4, <2>1, EvaluateType DEF CtxTypeOK, CorazaTypeOK, written
  <2> QED BY <1>1, <2>2, <2>3 DEF CtxTypeOK
<1> QED
  BY <1>2, <1>3, <1>4 DEF OnHttpRequestHeaders, CtxTypeOK, CorazaTypeOK

LEMMA ResponseHeadersType ==
  ASSUME NEW action, CtxTypeOK, OnHttpResponseHeaders(action)
  PROVE  CtxTypeOK'
<1>1. CASE UNCHANGED ctxVars
  BY <1>1 DEF CtxTypeOK, OutcomeTypeOK, CorazaTypeOK, FlagsTypeOK, ctxVars, flags, outcome,
              corazaVars, written
<1>2. CASE /\ processed' = [processed EXCEPT !["req"] = TRUE]
           /\ \E S, v : Evaluate(S, v)
           /\ \/ handleInternalEngineFailurePolicy(action)
              \/ \E v : Conclude(v, interruptionPhaseHttpResponseHeaders, 0, action, NoMask)
           /\ UNCHANGED <<tx, bodyReadIndex, written>>
  <2>1. OutcomeTypeOK'
    BY <1>2, FailureType, ConcludeType DEF CtxTypeOK, interruptionPhaseHttpResponseHeaders
  <2>2. CorazaTypeOK'
    BY <1>2, EvaluateType DEF CtxTypeOK, CorazaTypeOK, written
  <2>3. FlagsTypeOK'
    BY <1>2 DEF CtxTypeOK, FlagsTypeOK
  <2> QED BY <2>1, <2>2, <2>3 DEF CtxTypeOK
<1> QED BY <1>1, <1>2 DEF OnHttpResponseHeaders

LEMMA StreamDoneType ==
  ASSUME CtxTypeOK, OnHttpStreamDone
  PROVE  CtxTypeOK'
<1>1. CASE UNCHANGED ctxVars
  BY <1>1 DEF CtxTypeOK, OutcomeTypeOK, CorazaTypeOK, FlagsTypeOK, ctxVars, flags, outcome,
              corazaVars, written
<1>2. CASE ~UNCHANGED ctxVars
  <2>1. /\ tx' = "closed"
        /\ UNCHANGED <<outcome, bodyReadIndex, written>>
        /\ \/ /\ processed' = [processed EXCEPT !["resp"] = TRUE]
              /\ Evaluate({interruptionPhaseHttpResponseBody, Logging}, "pass")
           \/ /\ UNCHANGED <<processed, engine>>
              /\ phaseCalls' = [phaseCalls EXCEPT ![Logging] = 1]
    BY <1>2 DEF OnHttpStreamDone
  <2>2. OutcomeTypeOK' /\ FlagsTypeOK'
    BY <2>1 DEF CtxTypeOK, OutcomeTypeOK, FlagsTypeOK, outcome
  <2>3. phaseCalls' \in [Phases -> 0..3] /\ engine' \in {"on", "off"}
    BY <2>1, EvaluateType DEF CtxTypeOK, CorazaTypeOK
  <2>4. CorazaTypeOK'
    BY <2>1, <2>3 DEF CtxTypeOK, CorazaTypeOK, written
  <2> QED BY <2>2, <2>4 DEF CtxTypeOK
<1> QED BY <1>1, <1>2

\* The host forwards what it has received and no more.
LEMMA FollowType ==
  ASSUME NEW d \in Dir, NEW n \in 0..(MaxBody - arrived[d]), NEW action,
         NEW mask \in {NoMask} \cup 0..MaxBody,
         BuffersTypeOK, Receive(d, n), Follow(d, action, mask)
  PROVE  BuffersTypeOK'
<1>1. arrived' \in [Dir -> 0..MaxBody] /\ arrived'[d] = arrived[d] + n
  BY Constants DEF Receive, BuffersTypeOK
<1>2. \A e \in Dir : flushed[e] <= arrived'[e]
  BY <1>1, Constants DEF Receive, BuffersTypeOK
<1>3. CASE UNCHANGED <<flushed, delivered, nulls>>
  BY <1>1, <1>2, <1>3 DEF BuffersTypeOK
<1>4. CASE ~UNCHANGED <<flushed, delivered, nulls>>
  <2>1. flushed' = [flushed EXCEPT ![d] = arrived'[d]]
    BY <1>4 DEF Follow
  <2>2. flushed' \in [Dir -> 0..MaxBody] /\ \A e \in Dir : flushed'[e] <= arrived'[e]
    BY <1>1, <1>2, <2>1 DEF BuffersTypeOK
  <2>3. (flushed[d] + 1)..arrived'[d] \subseteq 1..MaxBody
    BY <1>1, Constants DEF BuffersTypeOK
  <2>4. delivered' \in [Dir -> SUBSET (1..MaxBody)]
    BY <1>4, <2>3 DEF Follow, BuffersTypeOK
  <2>5. nulls' \in Nat
    BY <1>4, Constants DEF Follow, BuffersTypeOK
  <2> QED BY <1>1, <2>2, <2>4, <2>5 DEF BuffersTypeOK
<1> QED BY <1>3, <1>4

LEMMA AdvanceType ==
  ASSUME NEW d \in Dir, NEW endOfStream, Advance(d, endOfStream),
         stage \in [Dir -> {"idle", "body", "ended"}]
  PROVE  stage' \in [Dir -> {"idle", "body", "ended"}]
BY DEF Advance

\* The buffer a body callback sees ends within the body.
LEMMA BufferFits ==
  ASSUME NEW d \in Dir, NEW n \in 0..(MaxBody - arrived[d]), BuffersTypeOK
  PROVE  Fits(d, arrived[d] + n - flushed[d])
BY Constants DEF Fits, BuffersTypeOK

LEMMA InitType == Init => TypeOK
<1> SUFFICES ASSUME Init PROVE TypeOK
  OBVIOUS
<1> USE Constants DEF Init
<1>1. OutcomeTypeOK
  BY DEF OutcomeTypeOK, Replies, Crashes, interruptionPhaseNone
<1>2. CorazaTypeOK /\ FlagsTypeOK /\ BuffersTypeOK
  BY DEF CorazaTypeOK, FlagsTypeOK, BuffersTypeOK
<1> QED BY <1>1, <1>2 DEF TypeOK

LEMMA NextType ==
  ASSUME TypeOK, [Next]_vars
  PROVE  TypeOK'
<1>0. CtxTypeOK /\ BuffersTypeOK
  BY DEF TypeOK, CtxTypeOK
<1> SUFFICES /\ CtxTypeOK' /\ BuffersTypeOK' /\ UNCHANGED cfg
             /\ stage' \in [Dir -> {"idle", "body", "ended"}]
             /\ upstream' \in BOOLEAN /\ done' \in BOOLEAN /\ early' \in BOOLEAN
  BY DEF TypeOK, CtxTypeOK
<1>1. CASE RequestHeaders
  <2>1. BuffersTypeOK'
    BY <1>0, <1>1 DEF RequestHeaders, buffers, BuffersTypeOK
  <2> QED
    BY <1>0, <1>1, <2>1, RequestHeadersType, AdvanceType DEF RequestHeaders, TypeOK, Dir
<1>2. CASE ResponseHeaders
  <2>1. BuffersTypeOK'
    BY <1>0, <1>2 DEF ResponseHeaders, buffers, BuffersTypeOK
  <2> QED
    BY <1>0, <1>2, <2>1, ResponseHeadersType, AdvanceType DEF ResponseHeaders, TypeOK, Dir
<1>3. ASSUME NEW d \in Dir, Body(d)
      PROVE  /\ CtxTypeOK' /\ BuffersTypeOK' /\ UNCHANGED cfg
             /\ stage' \in [Dir -> {"idle", "body", "ended"}]
             /\ upstream' \in BOOLEAN /\ done' \in BOOLEAN /\ early' \in BOOLEAN
  BY <1>0, <1>3, OnBodyType, BufferFits, FollowType, AdvanceType DEF Body, TypeOK
<1>4. ASSUME NEW d \in Dir, Trailers(d)
      PROVE  /\ CtxTypeOK' /\ BuffersTypeOK' /\ UNCHANGED cfg
             /\ stage' \in [Dir -> {"idle", "body", "ended"}]
             /\ upstream' \in BOOLEAN /\ done' \in BOOLEAN /\ early' \in BOOLEAN
  <2>1. 0 \in 0..(MaxBody - arrived[d])
    BY <1>0, Constants DEF BuffersTypeOK
  <2> QED
    BY <1>0, <1>4, <2>1, OnTrailersType, FollowType, AdvanceType DEF Trailers, TypeOK
<1>5. CASE StreamDone
  <2>1. BuffersTypeOK'
    BY <1>0, <1>5 DEF StreamDone, buffers, BuffersTypeOK
  <2> QED BY <1>0, <1>5, <2>1, StreamDoneType DEF StreamDone, TypeOK
<1>6. CASE UNCHANGED vars
  <2>1. BuffersTypeOK'
    BY <1>0, <1>6 DEF vars, hostVars, buffers, BuffersTypeOK
  <2>2. CtxTypeOK'
    BY <1>0, <1>6 DEF vars, ctxVars, flags, outcome, corazaVars, written,
                      CtxTypeOK, OutcomeTypeOK, CorazaTypeOK, FlagsTypeOK
  <2> QED BY <1>6, <2>1, <2>2 DEF vars, hostVars, TypeOK
<1> QED BY <1>1, <1>2, <1>3, <1>4, <1>5, <1>6 DEF Next

\* Every variable keeps its type: bodyReadIndex stays within the body, and the
\* host forwards no more than it received.
THEOREM TypeCorrect == Spec => []TypeOK
BY InitType, NextType, PTL DEF Spec

-----------------------------------------------------------------------------
(* A stream is interrupted at most once.                                   *)

\* The panic of handleInterruption needs a stream that is interrupted already.
LEMMA InterruptionOnce ==
  ASSUME NEW phase, NEW size, NEW action, NEW mask,
         handleInterruption(phase, size, action, mask),
         ~isInterrupted(interruptedAt), crashed = "no"
  PROVE  crashed' # "double_interruption"
BY DEF handleInterruption

LEMMA ConcludeOnce ==
  ASSUME NEW v, NEW phase, NEW size, NEW action, NEW mask,
         Conclude(v, phase, size, action, mask),
         ~isInterrupted(interruptedAt), crashed = "no"
  PROVE  crashed' # "double_interruption"
BY InterruptionOnce DEF Conclude, handleInternalEngineFailurePolicy, outcome

LEMMA OnBodyOnce ==
  ASSUME NEW d \in Dir, NEW bodySize, NEW endOfStream, NEW action, NEW mask,
         OnBody(d, bodySize, endOfStream, action, mask), crashed = "no"
  PROVE  crashed' # "double_interruption"
<1>1. CASE UNCHANGED ctxVars
  BY <1>1 DEF ctxVars, outcome
<1>2. CASE /\ ~isInterrupted(interruptedAt)
           /\ inspectBody(d, bodySize, endOfStream, action, mask)
  <2>1. CASE \E chunkSize : ReadFails(chunkSize, action, mask)
    BY <2>1 DEF ReadFails, handleInternalEngineFailurePolicy
  <2>2. CASE \E readIndex, whole, inner, v :
               AfterWrite(d, readIndex, endOfStream, whole, inner, v, action, mask)
    BY <1>2, <2>2, InterruptionOnce, ConcludeOnce
    DEF AfterWrite, handleInternalEngineFailurePolicy, outcome
  <2> QED BY <1>2, <2>1, <2>2 DEF inspectBody
<1>3. CASE ~isInterrupted(interruptedAt) /\ skipBody(d, bodySize, action, mask)
  BY <1>3, ConcludeOnce DEF skipBody
<1> QED
  BY <1>1, <1>2, <1>3 DEF OnBody, OnHttpRequestBody, OnHttpResponseBody, processBody, Dir

LEMMA OnTrailersOnce ==
  ASSUME NEW d \in Dir, NEW action, NEW mask, OnTrailers(d, action, mask), crashed = "no"
  PROVE  crashed' # "double_interruption"
BY OnBodyOnce DEF OnTrailers

LEMMA RequestHeadersOnce ==
  ASSUME NEW action, OnHttpRequestHeaders(action),
         ~isInterrupted(interruptedAt), crashed = "no"
  PROVE  crashed' # "double_interruption"
BY ConcludeOnce DEF OnHttpRequestHeaders, handleInternalEngineFailurePolicy, outcome

LEMMA ResponseHeadersOnce ==
  ASSUME NEW action, OnHttpResponseHeaders(action), crashed = "no"
  PROVE  crashed' # "double_interruption"
BY ConcludeOnce
DEF OnHttpResponseHeaders, SkipsResponseHeaders, handleInternalEngineFailurePolicy, ctxVars, outcome

\* The request headers callback does not ask whether the stream is interrupted:
\* it is the first, and the host does not call it again.
FirstIsUninterrupted ==
  stage["req"] = "idle" => stage["resp"] = "idle" /\ ~isInterrupted(interruptedAt)

OnceInv == NeverInterruptedTwice /\ FirstIsUninterrupted

LEMMA AdvanceStage ==
  ASSUME NEW d \in Dir, NEW endOfStream, Advance(d, endOfStream), TypeOK
  PROVE  stage'[d] # "idle" /\ \A e \in Dir \ {d} : stage'[e] = stage[e]
BY DEF Advance, TypeOK

LEMMA OnceStep ==
  ASSUME OnceInv, TypeOK, [Next]_vars
  PROVE  OnceInv'
<1> USE DEF OnceInv, NeverInterruptedTwice
<1>1. CASE RequestHeaders
  BY <1>1, RequestHeadersOnce, AdvanceStage
  DEF RequestHeaders, Running, FirstIsUninterrupted, Dir
<1>2. CASE ResponseHeaders
  BY <1>2, ResponseHeadersOnce, AdvanceStage
  DEF ResponseHeaders, Running, FirstIsUninterrupted, Dir
<1>3. ASSUME NEW d \in Dir, Body(d) \/ Trailers(d)
      PROVE  OnceInv'
  <2>1. /\ crashed = "no" /\ stage[d] = "body"
        /\ \E endOfStream : Advance(d, endOfStream)
        /\ crashed' # "double_interruption"
    BY <1>3, OnBodyOnce, OnTrailersOnce DEF Body, Trailers, Running
  <2>2. stage["req"] # "idle"
    BY <2>1 DEF FirstIsUninterrupted, Dir
  <2>3. stage'["req"] # "idle"
    BY <2>1, <2>2, AdvanceStage DEF Dir
  <2> QED BY <2>1, <2>3 DEF FirstIsUninterrupted
<1>4. CASE StreamDone
  BY <1>4 DEF StreamDone, OnHttpStreamDone, FirstIsUninterrupted, ctxVars, outcome
<1>5. CASE UNCHANGED vars
  BY <1>5 DEF vars, ctxVars, outcome, hostVars, FirstIsUninterrupted
<1> QED BY <1>1, <1>2, <1>3, <1>4, <1>5 DEF Next

\* No sequence of callbacks, verdicts and host failures reaches the panic of
\* handleInterruption.
THEOREM InterruptedOnce == Spec => []NeverInterruptedTwice
<1>1. Init => OnceInv
  BY DEF Init, OnceInv, NeverInterruptedTwice, FirstIsUninterrupted, Dir,
         isInterrupted, interruptionPhaseNone
<1>2. OnceInv /\ TypeOK /\ [Next]_vars => OnceInv'
  BY OnceStep
<1>3. OnceInv => NeverInterruptedTwice
  BY DEF OnceInv
<1> QED BY <1>1, <1>2, <1>3, TypeCorrect, PTL DEF Spec

-----------------------------------------------------------------------------
(* Nothing passes an interrupted stream.                                   *)

\* An interruption that is recorded pauses the body or puts a mask in its place.
LEMMA InterruptionBlocks ==
  ASSUME NEW phase, NEW size \in Nat, NEW action, NEW mask, "replace" \notin Faults,
         handleInterruption(phase, size, action, mask)
  PROVE  action = "pause" \/ mask # NoMask
BY Constants DEF handleInterruption, replaceResponseBodyWhenInterrupted, AfterReply

LEMMA ConcludeBlocks ==
  ASSUME NEW v, NEW phase, NEW size \in Nat, NEW action, NEW mask, "replace" \notin Faults,
         Conclude(v, phase, size, action, mask),
         ~isInterrupted(interruptedAt), isInterrupted(interruptedAt')
  PROVE  action = "pause" \/ mask # NoMask
BY InterruptionBlocks DEF Conclude, outcome, handleInternalEngineFailurePolicy

LEMMA AfterWriteBlocks ==
  ASSUME NEW d \in Dir, NEW readIndex \in Nat, NEW endOfStream, NEW whole, NEW inner, NEW v,
         NEW action, NEW mask, "replace" \notin Faults,
         AfterWrite(d, readIndex, endOfStream, whole, inner, v, action, mask),
         ~isInterrupted(interruptedAt), isInterrupted(interruptedAt')
  PROVE  action = "pause" \/ mask # NoMask
<1>1. CASE handleInternalEngineFailurePolicy(action) \/ UNCHANGED outcome
  BY <1>1 DEF handleInternalEngineFailurePolicy, outcome
<1>2. CASE handleInterruption(BodyPhase(d), InterruptedSize(readIndex), action, mask)
  BY <1>2, InterruptionBlocks DEF InterruptedSize
<1>3. CASE \E w \in Verdicts : Conclude(w, BodyPhase(d), readIndex, action, mask)
  BY <1>3, ConcludeBlocks
<1> QED BY <1>1, <1>2, <1>3 DEF AfterWrite

LEMMA OnBodyBlocks ==
  ASSUME NEW d \in Dir, NEW bodySize \in 0..MaxBody, NEW endOfStream, NEW action, NEW mask,
         "replace" \notin Faults, TypeOK,
         OnBody(d, bodySize, endOfStream, action, mask), isInterrupted(interruptedAt')
  PROVE  action = "pause" \/ mask # NoMask
<1>0. bodySize \in Nat
  BY Constants
<1>1. CASE isInterrupted(interruptedAt)
  BY <1>0, <1>1, Constants
  DEF OnBody, OnHttpRequestBody, OnHttpResponseBody, replaceResponseBodyWhenInterrupted
<1>2. CASE ~isInterrupted(interruptedAt) /\ inspectBody(d, bodySize, endOfStream, action, mask)
  <2>1. CASE ReadFails(Unread(bodySize), action, mask)
    BY <1>2, <2>1 DEF ReadFails, handleInternalEngineFailurePolicy
  <2>2. ASSUME NEW m \in 0..Unread(bodySize), NEW whole, NEW inner, NEW v,
               AfterWrite(d, ReadIndex(Unread(bodySize), m), endOfStream, whole, inner, v,
                          action, mask)
        PROVE  action = "pause" \/ mask # NoMask
    <3>1. ReadIndex(Unread(bodySize), m) \in Nat
      BY UnreadBound, Constants DEF TypeOK, FlagsTypeOK, ReadIndex
    <3> QED BY <1>2, <2>2, <3>1, AfterWriteBlocks
  <2> QED BY <1>2, <2>1, <2>2 DEF inspectBody
<1>3. CASE ~isInterrupted(interruptedAt) /\ skipBody(d, bodySize, action, mask)
  BY <1>0, <1>3, ConcludeBlocks DEF skipBody
<1>4. CASE ~isInterrupted(interruptedAt) /\ UNCHANGED ctxVars
  BY <1>4 DEF ctxVars, outcome
<1> QED
  BY <1>1, <1>2, <1>3, <1>4
  DEF OnBody, OnHttpRequestBody, OnHttpResponseBody, processBody, Dir

LEMMA OnTrailersBlocks ==
  ASSUME NEW d \in Dir, NEW action, NEW mask, "replace" \notin Faults, TypeOK,
         OnTrailers(d, action, mask), isInterrupted(interruptedAt')
  PROVE  action = "pause" \/ mask # NoMask
BY OnBodyBlocks DEF OnTrailers, TypeOK, FlagsTypeOK

LEMMA ForwardsNothingStep ==
  ASSUME "replace" \notin Faults, TypeOK, Next, isInterrupted(interruptedAt')
  PROVE  UNCHANGED delivered
<1>1. ASSUME NEW d \in Dir, Body(d)
      PROVE  UNCHANGED delivered
  <2>1. PICK action \in Actions, endOfStream \in BOOLEAN,
             n \in 0..(MaxBody - arrived[d]), mask \in {NoMask} \cup 0..MaxBody :
          /\ OnBody(d, arrived[d] + n - flushed[d], endOfStream, action, mask)
          /\ Follow(d, action, mask)
    BY <1>1 DEF Body
  <2>2. arrived[d] + n - flushed[d] \in 0..MaxBody
    BY BufferFits DEF Fits, TypeOK
  <2>3. action = "pause" \/ mask # NoMask
    BY <2>1, <2>2, OnBodyBlocks
  <2> QED BY <2>1, <2>3 DEF Follow
<1>2. ASSUME NEW d \in Dir, Trailers(d)
      PROVE  UNCHANGED delivered
  <2>1. PICK action \in Actions, mask \in {NoMask} \cup 0..MaxBody :
          OnTrailers(d, action, mask) /\ Follow(d, action, mask)
    BY <1>2 DEF Trailers
  <2> QED BY <2>1, OnTrailersBlocks DEF Follow
<1> QED
  BY <1>1, <1>2 DEF Next, RequestHeaders, ResponseHeaders, StreamDone, buffers

\* Unless the host refuses to replace a body, nothing more of either body is
\* forwarded as it is once the stream is interrupted, even by a host that goes
\* on calling and forwarding after a local reply.
THEOREM InterruptionHolds ==
  ASSUME "replace" \notin Faults
  PROVE  Spec => InterruptedStreamForwardsNothing
<1>1. TypeOK /\ [Next]_vars => [isInterrupted(interruptedAt') => UNCHANGED delivered]_vars
  BY ForwardsNothingStep
<1> QED BY <1>1, TypeCorrect, PTL DEF Spec, InterruptedStreamForwardsNothing
=============================================================================
