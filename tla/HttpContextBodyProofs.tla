------------------------ MODULE HttpContextBodyProofs ------------------------
(***************************************************************************)
(* Proofs about the bodies of HttpContext: what the host forwards was      *)
(* judged, inspected or replaced, for every value of the constants.        *)
(***************************************************************************)
EXTENDS HttpContextPhaseProofs, FiniteSetTheorems

-----------------------------------------------------------------------------
(* Where the two halves of a stream stand.                                 *)

\* Nothing happens to a half before its headers; a response has a body only
\* behind forwarded request headers, which failure policy "fail" forwards for
\* a transaction only; a response that comes before the end of its request is
\* early, or the stream was answered.
HeadersInv ==
  /\ stage["req"] = "idle" =>
       /\ stage["resp"] = "idle" /\ ~upstream /\ ~Answered
       /\ bodyReadIndex = 0 /\ ~processed["req"]
  /\ stage["resp"] = "idle" =>
       ~early /\ (processed["resp"] => done) /\ interruptedAt # 4
  /\ \A d \in Dir : stage[d] = "idle" => arrived[d] = 0 /\ flushed[d] = 0 /\ full[d] = "no"
  /\ stage["resp"] = "body" => upstream
  /\ upstream /\ cfg.policy = "fail" => tx # "nil"
  /\ stage["req"] = "body" /\ ~early /\ ~Answered => stage["resp"] = "idle"

LEMMA FailBlocks ==
  ASSUME cfg.policy = "fail", NEW action, handleInternalEngineFailurePolicy(action)
  PROVE  action = "pause"
BY DEF handleInternalEngineFailurePolicy, BlocksOnFailure, AfterReply

\* A body callback of a stream that is not interrupted.
LEMMA OnBodyCases ==
  ASSUME NEW d \in Dir, NEW bodySize, NEW endOfStream, NEW action, NEW mask,
         OnBody(d, bodySize, endOfStream, action, mask), ~isInterrupted(interruptedAt)
  PROVE  \/ /\ processed[d] \/ Inactive
            /\ action = "continue" /\ mask = NoMask /\ UNCHANGED ctxVars
         \/ /\ ~processed[d] /\ ~Inactive /\ UNCHANGED tx
            /\ \/ d \in cfg.bodyAccess /\ inspectBody(d, bodySize, endOfStream, action, mask)
               \/ d \notin cfg.bodyAccess /\ skipBody(d, bodySize, action, mask)
BY DEF OnBody, OnHttpRequestBody, OnHttpResponseBody, processBody, Dir

\* Only a response body is interrupted in the response body phase.
LEMMA HeadersPhase ==
  ASSUME NEW action, OnHttpRequestHeaders(action) \/ OnHttpResponseHeaders(action),
         interruptedAt # 4
  PROVE  interruptedAt' # 4
<1>1. ASSUME NEW v, NEW phase \in {1, 3}, Conclude(v, phase, 0, action, NoMask)
      PROVE  interruptedAt' # 4
  BY <1>1 DEF Conclude, handleInterruption, handleInternalEngineFailurePolicy, outcome
<1>2. CASE handleInternalEngineFailurePolicy(action) \/ UNCHANGED outcome
  BY <1>2 DEF handleInternalEngineFailurePolicy, outcome
<1> QED BY <1>1, <1>2, PhaseNumbers DEF OnHttpRequestHeaders, OnHttpResponseHeaders, ctxVars, outcome

LEMMA RequestBodyPhase ==
  ASSUME NEW bodySize, NEW endOfStream, NEW action, NEW mask,
         OnBody("req", bodySize, endOfStream, action, mask), interruptedAt # 4
  PROVE  interruptedAt' # 4 /\ mask = NoMask
<1>1. ASSUME NEW size,
             \/ \E v : Conclude(v, 2, size, action, mask)
             \/ handleInterruption(2, size, action, mask)
      PROVE  interruptedAt' # 4 /\ mask = NoMask
  BY <1>1, PhaseNumbers DEF Conclude, handleInterruption, handleInternalEngineFailurePolicy, outcome
<1>2. CASE /\ handleInternalEngineFailurePolicy(action) \/ UNCHANGED outcome
           /\ mask = NoMask
  BY <1>2 DEF handleInternalEngineFailurePolicy, outcome
<1>3. CASE inspectBody("req", bodySize, endOfStream, action, mask)
  BY <1>1, <1>2, <1>3, InspectBodyEnds, PhaseNumbers DEF Dir
<1>4. CASE skipBody("req", bodySize, action, mask)
  BY <1>1, <1>4, PhaseNumbers DEF skipBody
<1> QED BY <1>2, <1>3, <1>4 DEF OnBody, OnHttpRequestBody, processBody, ctxVars, outcome

LEMMA HeadersStep ==
  ASSUME TypeOK, OnceInv, HeadersInv, [Next]_vars
  PROVE  HeadersInv'
<1>0. /\ CtxTypeOK /\ (Answered => Answered') /\ Settled
      /\ stage \in [Dir -> {"idle", "body", "ended"}]
  BY AnsweredStays, NextSettled DEF TypeOK, CtxTypeOK
<1>1. CASE RequestHeaders
  <2>1. PICK action \in Actions, endOfStream \in BOOLEAN :
          /\ OnHttpRequestHeaders(action)
          /\ upstream' = (action = "continue")
          /\ Advance("req", endOfStream)
    BY <1>1 DEF RequestHeaders
  <2>2. /\ UNCHANGED <<cfg, arrived, flushed, early, processed, full>> /\ stage["req"] = "idle"
        /\ stage'["req"] # "idle" /\ stage'["resp"] = stage["resp"] /\ interruptedAt' # 4
    BY <1>1, <2>1, AdvanceStage, HeadersPhase
    DEF RequestHeaders, buffers, OnHttpRequestHeaders, flags, written, HeadersInv, Dir
  <2>3. cfg.policy = "fail" /\ upstream' => tx' # "nil"
    BY <2>1, FailBlocks DEF OnHttpRequestHeaders
  <2> QED BY <1>1, <2>2, <2>3 DEF HeadersInv, Dir, RequestHeaders, Running
<1>2. CASE ResponseHeaders
  <2>1. PICK action \in Actions, endOfStream \in BOOLEAN :
          /\ Answered => endOfStream
          /\ OnHttpResponseHeaders(action)
          /\ Advance("resp", endOfStream)
    BY <1>2 DEF ResponseHeaders
  <2>2. /\ UNCHANGED <<cfg, arrived, flushed, upstream, tx, full>> /\ stage["req"] # "idle"
        /\ stage'["resp"] # "idle" /\ stage'["req"] = stage["req"]
        /\ upstream \/ Answered
        /\ early' = (~Answered /\ stage["req"] = "body")
    BY <1>2, <2>1, AdvanceStage
    DEF ResponseHeaders, buffers, OnHttpResponseHeaders, ctxVars, corazaVars, written, Dir
  <2>3. stage'["resp"] = "body" => upstream
    BY <2>1, <2>2 DEF Advance, TypeOK, Dir
  <2> QED BY <1>0, <2>2, <2>3 DEF HeadersInv, Dir
<1>3. ASSUME NEW d \in Dir, Body(d) \/ Trailers(d)
      PROVE  HeadersInv'
  <2>1. /\ UNCHANGED <<cfg, upstream, early, tx, done>> /\ stage[d] = "body" /\ stage'[d] # "idle"
        /\ \A e \in Dir \ {d} : UNCHANGED <<stage[e], arrived[e], flushed[e], full[e]>>
    <3>1. /\ UNCHANGED <<cfg, upstream, early, tx, done>> /\ stage[d] = "body" /\ stage'[d] # "idle"
          /\ \A e \in Dir \ {d} : stage'[e] = stage[e]
      BY <1>0, <1>3, AdvanceStage, OnBodyCounts, OnTrailersCounts DEF Body, Trailers
    <3>2. \A e \in Dir \ {d} : UNCHANGED <<arrived[e], flushed[e]>>
      BY <1>3 DEF Body, Trailers, Receive, Follow, TypeOK, BuffersTypeOK
    <3>3. \A e \in Dir \ {d} : full'[e] = full[e]
      BY <1>0, <1>3, OnBodyCounts, OnTrailersCounts DEF Body, Trailers, BodyCounts
    <3> QED BY <3>1, <3>2, <3>3
  <2>2. stage["req"] # "idle" /\ stage'["req"] # "idle"
    BY <2>1 DEF HeadersInv, Dir
  <2>3. stage'["resp"] = "body" => stage["resp"] = "body"
    BY <2>1 DEF Dir
  <2>4. CASE d = "req"
    <3>1. interruptedAt # 4 => interruptedAt' # 4
      BY <1>3, <2>4, RequestBodyPhase DEF Body, Trailers, OnTrailers
    <3>2. processed'["resp"] = processed["resp"]
      BY <1>0, <1>3, <2>4, OnBodyCounts, OnTrailersCounts DEF Body, Trailers, BodyCounts, Dir
    <3> QED BY <1>0, <2>1, <2>2, <2>3, <2>4, <3>1, <3>2 DEF HeadersInv, Dir
  <2>5. CASE d = "resp"
    BY <1>0, <2>1, <2>2, <2>3, <2>5 DEF HeadersInv, Dir
  <2> QED BY <2>4, <2>5 DEF Dir
<1>4. CASE StreamDone
  <2>1. /\ UNCHANGED <<cfg, stage, upstream, arrived, flushed, early, bodyReadIndex, interruptedAt,
                       replies, full>>
        /\ processed'["req"] = processed["req"] /\ done' /\ stage["req"] # "idle"
        /\ tx' = "nil" => tx = "nil"
    BY <1>0, <1>4
    DEF StreamDone, OnHttpStreamDone, buffers, outcome, ctxVars, flags, corazaVars, written,
        CtxTypeOK, FlagsTypeOK, Dir
  <2> QED BY <2>1 DEF HeadersInv, Answered
<1>5. CASE UNCHANGED vars
  BY <1>5
  DEF vars, ctxVars, flags, outcome, corazaVars, written, hostVars, buffers, HeadersInv, Answered
<1> QED BY <1>1, <1>2, <1>3, <1>4, <1>5 DEF Next

LEMMA HeadersInvariant == Spec => []HeadersInv
<1>1. Init => HeadersInv
  BY DEF Init, HeadersInv, Answered, Dir, interruptionPhaseNone
<1>2. HeadersInv /\ TypeOK /\ OnceInv /\ [Next]_vars => HeadersInv'
  BY HeadersStep
<1> QED BY <1>1, <1>2, TypeCorrect, OnceInvariant, PTL DEF Spec

-----------------------------------------------------------------------------
(* A body callback that lets a body go has judged it.                      *)

LEMMA OnBodyContinues ==
  ASSUME NEW d \in Dir, NEW bodySize, NEW endOfStream, NEW mask, CtxTypeOK,
         OnBody(d, bodySize, endOfStream, "continue", mask),
         cfg.policy = "fail", tx # "nil", engine' = "on", ~isInterrupted(interruptedAt),
         ~isInterrupted(interruptedAt')
  PROVE  processed'[d]
<1>0. processed' = [processed EXCEPT ![d] = TRUE] => processed'[d]
  BY DEF CtxTypeOK, FlagsTypeOK
<1>1. CASE (processed[d] \/ Inactive) /\ UNCHANGED ctxVars
  BY <1>1 DEF Inactive, ctxVars, flags, corazaVars
<1>2. ~handleInternalEngineFailurePolicy("continue")
  BY FailBlocks
<1>3. CASE inspectBody(d, bodySize, endOfStream, "continue", mask)
  <2>1. \A size : ~handleInterruption(BodyPhase(d), size, "continue", mask)
    BY Interrupted, BodyPhaseType DEF handleInterruption
  <2>2. ~ReadFails(Unread(bodySize), "continue", mask)
    BY <1>2 DEF ReadFails
  <2>3. ASSUME NEW readIndex, NEW whole, NEW inner, NEW v,
               AfterWrite(d, readIndex, endOfStream, whole, inner, v, "continue", mask)
        PROVE  processed'[d]
    BY <1>0, <1>2, <2>1, <2>3 DEF AfterWrite, AwaitEndOfStream
  <2> QED BY <1>3, <2>2, <2>3 DEF inspectBody
<1>4. CASE skipBody(d, bodySize, "continue", mask)
  <2>1. PICK v \in Verdicts :
          /\ processed' = [processed EXCEPT ![d] = d = "req" \/ v # "error"]
          /\ Conclude(v, BodyPhase(d), bodySize, "continue", mask)
    BY <1>4 DEF skipBody
  <2>2. v # "error"
    BY <1>2, <2>1 DEF Conclude
  <2> QED BY <1>0, <2>1, <2>2 DEF CtxTypeOK, FlagsTypeOK
<1> QED BY <1>1, <1>3, <1>4, OnBodyCases

\* What has left the buffer of a body came out by a callback that continued.
LEMMA Forwarded ==
  ASSUME TypeOK, HeadersInv, NEW d \in Dir, stage[d] = "body", cfg.policy = "fail",
         NEW action \in Actions, NEW mask, Follow(d, action, mask), UNCHANGED upstream,
         ~UNCHANGED <<flushed, delivered, nulls>>
  PROVE  /\ action = "continue" /\ tx # "nil" /\ HostForwards(d)
         /\ \A e \in Dir \ {d} : flushed'[e] = flushed[e] /\ delivered'[e] = delivered[e]
BY DEF Follow, HostForwards, HeadersInv, Dir, TypeOK, BuffersTypeOK

\* Bodies are flushed by the callbacks of their own direction only.
LEMMA BodyFlushes ==
  ASSUME TypeOK, HeadersInv, NEW d \in Dir, Body(d) \/ Trailers(d), cfg.policy = "fail",
         ~UNCHANGED <<flushed, delivered, nulls>>
  PROVE  /\ HostForwards(d) /\ tx # "nil"
         /\ \A e \in Dir \ {d} : flushed'[e] = flushed[e] /\ delivered'[e] = delivered[e]
         /\ \E bodySize \in 0..MaxBody, endOfStream \in BOOLEAN, mask \in {NoMask} \cup 0..MaxBody :
              /\ OnBody(d, bodySize, endOfStream, "continue", mask)
              /\ Follow(d, "continue", mask)
<1>1. CASE Body(d)
  <2>1. PICK action \in Actions, endOfStream \in BOOLEAN,
             n \in 0..(MaxBody - arrived[d]), mask \in {NoMask} \cup 0..MaxBody :
          /\ OnBody(d, arrived[d] + n - flushed[d], endOfStream, action, mask)
          /\ Follow(d, action, mask)
    BY <1>1 DEF Body
  <2>2. arrived[d] + n - flushed[d] \in 0..MaxBody
    BY BufferFits DEF Fits, TypeOK
  <2>3. stage[d] = "body" /\ UNCHANGED upstream
    BY <1>1 DEF Body
  <2>4. /\ action = "continue" /\ HostForwards(d) /\ tx # "nil"
        /\ \A e \in Dir \ {d} : flushed'[e] = flushed[e] /\ delivered'[e] = delivered[e]
    BY <2>1, <2>3, Forwarded
  <2>5. OnBody(d, arrived[d] + n - flushed[d], endOfStream, "continue", mask)
    BY <2>1, <2>4
  <2>6. Follow(d, "continue", mask)
    BY <2>1, <2>4
  <2> QED BY <2>2, <2>4, <2>5, <2>6
<1>2. CASE Trailers(d)
  <2>1. PICK action \in Actions, mask \in {NoMask} \cup 0..MaxBody :
          OnTrailers(d, action, mask) /\ Follow(d, action, mask)
    BY <1>2 DEF Trailers
  <2>2. stage[d] = "body" /\ UNCHANGED upstream /\ bodyReadIndex \in 0..MaxBody
    BY <1>2 DEF Trailers, TypeOK, FlagsTypeOK
  <2>3. /\ action = "continue" /\ HostForwards(d) /\ tx # "nil"
        /\ \A e \in Dir \ {d} : flushed'[e] = flushed[e] /\ delivered'[e] = delivered[e]
    BY <2>1, <2>2, Forwarded
  <2>4. OnBody(d, bodyReadIndex, TrailersEndStream, "continue", mask)
    BY <2>1, <2>3 DEF OnTrailers
  <2>5. Follow(d, "continue", mask)
    BY <2>1, <2>3
  <2> QED BY <2>2, <2>3, <2>4, <2>5 DEF TrailersEndStream
<1> QED BY <1>1, <1>2

\* A flag stays set, the engine stays off, and so on: what every step keeps.
LEMMA NextKeeps ==
  ASSUME TypeOK, OnceInv, ClosedInv, HeadersInv, [Next]_vars
  PROVE  /\ UNCHANGED cfg
         /\ \A d \in Dir : processed[d] => processed'[d]
         /\ engine' = "on" => engine = "on"
         /\ ~isInterrupted(interruptedAt') => ~isInterrupted(interruptedAt)
         /\ ~early' => ~early
         /\ ~Answered' => ~Answered
         /\ ~done' => ~done
<1>0. /\ CtxTypeOK /\ Settled /\ (Answered => Answered')
  BY NextSettled, AnsweredStays DEF TypeOK, CtxTypeOK
<1>1. ~isInterrupted(interruptedAt') => ~isInterrupted(interruptedAt)
  BY <1>0 DEF Settled
<1>2. CASE RequestHeaders
  BY <1>0, <1>1, <1>2, RequestHeadersCounts DEF RequestHeaders, Counts
<1>3. CASE ResponseHeaders
  BY <1>0, <1>1, <1>3, ResponseHeadersCounts DEF ResponseHeaders, Counts, Dir, HeadersInv
<1>4. ASSUME NEW d \in Dir, Body(d) \/ Trailers(d)
      PROVE  /\ UNCHANGED <<cfg, early, done>>
             /\ \A e \in Dir : processed[e] => processed'[e]
             /\ engine' = "on" => engine = "on"
  BY <1>0, <1>4, OnBodyCounts, OnTrailersCounts DEF Body, Trailers, BodyCounts, Counts
<1>5. CASE StreamDone
  BY <1>0, <1>1, <1>5, StreamDoneCounts DEF StreamDone, Running, Counts, ClosedInv, Dir
<1>6. CASE UNCHANGED vars
  BY <1>0, <1>1, <1>6 DEF vars, ctxVars, flags, corazaVars, hostVars
<1> QED BY <1>0, <1>1, <1>2, <1>3, <1>4, <1>5, <1>6 DEF Next

\* Headers and the end of the stream move no body.
LEMMA HeadersMoveNothing ==
  ASSUME RequestHeaders \/ ResponseHeaders \/ StreamDone \/ UNCHANGED vars
  PROVE  UNCHANGED <<arrived, flushed, delivered, nulls>>
BY DEF RequestHeaders, ResponseHeaders, StreamDone, vars, hostVars, buffers

LEMMA BufferStep ==
  ASSUME TypeOK, OnceInv, ClosedInv, HeadersInv, BufferIsWholeBodyUnlessAllowed, [Next]_vars
  PROVE  BufferIsWholeBodyUnlessAllowed'
<1> SUFFICES ASSUME cfg'.policy = "fail", engine' = "on", ~isInterrupted(interruptedAt'),
                    NEW e \in Dir, e \in cfg'.bodyAccess, ~processed'[e]
             PROVE  flushed'[e] = 0
  BY DEF BufferIsWholeBodyUnlessAllowed, Dir
<1>1. /\ CtxTypeOK /\ cfg.policy = "fail" /\ engine = "on" /\ ~isInterrupted(interruptedAt)
      /\ e \in cfg.bodyAccess /\ ~processed[e]
  BY NextKeeps DEF TypeOK, CtxTypeOK
<1>2. flushed[e] = 0
  BY <1>1 DEF BufferIsWholeBodyUnlessAllowed, Dir
<1>3. CASE UNCHANGED flushed
  BY <1>2, <1>3
<1>4. ASSUME NEW d \in Dir, Body(d) \/ Trailers(d), ~UNCHANGED flushed
      PROVE  flushed'[e] = 0
  <2>1. /\ tx # "nil" /\ (e # d => flushed'[e] = flushed[e])
        /\ \E bodySize, endOfStream, mask : OnBody(d, bodySize, endOfStream, "continue", mask)
    BY <1>1, <1>4, BodyFlushes
  <2>2. CASE e = d
    BY <1>1, <2>1, <2>2, OnBodyContinues
  <2> QED BY <1>2, <2>1, <2>2
<1> QED BY <1>3, <1>4, HeadersMoveNothing DEF Next

\* Under failure policy "fail", whatever fails and however the host goes on, the
\* buffer a body callback inspects is the whole body received so far.
THEOREM BufferIsWholeBody == Spec => []BufferIsWholeBodyUnlessAllowed
<1>1. Init => BufferIsWholeBodyUnlessAllowed
  BY DEF Init, BufferIsWholeBodyUnlessAllowed, Dir
<1>2. BufferIsWholeBodyUnlessAllowed /\ TypeOK /\ OnceInv /\ ClosedInv /\ HeadersInv /\ [Next]_vars
        => BufferIsWholeBodyUnlessAllowed'
  BY BufferStep
<1> QED
  BY <1>1, <1>2, TypeCorrect, OnceInvariant, ClosedInvariant, HeadersInvariant, PTL DEF Spec

-----------------------------------------------------------------------------
(* The phases come before what they judge.                                 *)

\* Each flag stands for an evaluation of its phase.
FlagsInv == \A d \in Dir : processed[d] => phaseCalls[BodyPhase(d)] > 0

LEMMA NextRises ==
  ASSUME TypeOK, ClosedInv, [Next]_vars, NEW p \in Phases, phaseCalls[p] > 0
  PROVE  phaseCalls'[p] > 0
<1>0. CtxTypeOK
  BY DEF TypeOK, CtxTypeOK
<1>1. CASE \E S : Counts(S)
  BY <1>0, <1>1, CountsRise
<1>2. CASE UNCHANGED vars
  BY <1>2 DEF vars, ctxVars, corazaVars
<1>3. Next => \E S : Counts(S)
  BY <1>0, RequestHeadersCounts, ResponseHeadersCounts, OnBodyCounts, OnTrailersCounts, StreamDoneCounts
  DEF Next, RequestHeaders, ResponseHeaders, Body, Trailers, StreamDone, Running, BodyCounts, ClosedInv
<1> QED BY <1>1, <1>2, <1>3

LEMMA FlagsStep ==
  ASSUME TypeOK, ClosedInv, FlagsInv, [Next]_vars
  PROVE  FlagsInv'
<1> SUFFICES ASSUME NEW d \in Dir, processed'[d] PROVE phaseCalls'[BodyPhase(d)] > 0
  BY DEF FlagsInv
<1>0. CtxTypeOK /\ BodyPhase(d) \in Phases /\ (d = "req" \/ d = "resp")
  BY BodyPhaseType DEF TypeOK, CtxTypeOK, Dir
<1>1. CASE processed[d]
  BY <1>0, <1>1, NextRises DEF FlagsInv
<1>2. CASE ~processed[d] /\ RequestHeaders
  BY <1>0, <1>2, RequestHeadersCounts DEF RequestHeaders
<1>3. CASE ~processed[d] /\ ResponseHeaders
  BY <1>0, <1>3, ResponseHeadersCounts, PhaseNumbers DEF ResponseHeaders
<1>4. ASSUME ~processed[d], NEW e \in Dir, Body(e) \/ Trailers(e)
      PROVE  phaseCalls'[BodyPhase(d)] > 0
  <2>1. BodyCounts(e)
    BY <1>0, <1>4, OnBodyCounts, OnTrailersCounts DEF Body, Trailers
  <2>2. full[d] # "no" => phaseCalls'[BodyPhase(d)] > 0
    BY <1>0, NextRises DEF ClosedInv
  <2>3. e = d
    BY <1>4, <2>1 DEF BodyCounts
  <2> QED BY <1>4, <2>1, <2>2, <2>3 DEF BodyCounts
<1>5. CASE ~processed[d] /\ StreamDone
  BY <1>0, <1>5, StreamDoneCounts, PhaseNumbers DEF StreamDone, Running, ClosedInv
<1>6. CASE ~processed[d] /\ UNCHANGED vars
  BY <1>6 DEF vars, ctxVars, flags
<1> QED BY <1>1, <1>2, <1>3, <1>4, <1>5, <1>6 DEF Next

\* Response headers that failure policy "fail" lets a body follow were judged,
\* or they interrupted the stream.
LEMMA ResponseHeadersPrecede ==
  ASSUME "send" \notin Faults, HostStopsOnReply, TypeOK, HeadersInv, cfg.policy = "fail",
         NEW action, NEW endOfStream, OnHttpResponseHeaders(action), Advance("resp", endOfStream),
         upstream \/ Answered, Answered => endOfStream, Answered => Answered',
         stage'["resp"] = "body", engine' = "on", ~isInterrupted(interruptedAt')
  PROVE  phaseCalls'[3] > 0
<1>0. CtxTypeOK /\ OutcomeTypeOK /\ ~Answered /\ ~Answered' /\ tx # "nil"
  BY DEF TypeOK, CtxTypeOK, Advance, Answered, HeadersInv, Dir
<1>1. ~SkipsResponseHeaders
  BY <1>0 DEF OnHttpResponseHeaders, SkipsResponseHeaders, Inactive, ctxVars, outcome, corazaVars
<1>2. ~handleInternalEngineFailurePolicy(action)
  BY <1>0, FailureAnswers
<1>3. ASSUME NEW v \in {"deny", "error"}
      PROVE  ~Conclude(v, 3, 0, action, NoMask)
  BY <1>1, <1>2, <1>3, Interrupted DEF Conclude, handleInterruption, SkipsResponseHeaders
<1>4. \E v : Evaluate(PendingPhases \cup {3}, v)
  BY <1>1, <1>2, <1>3, PhaseNumbers DEF OnHttpResponseHeaders
<1> QED BY <1>0, <1>4, EvaluateCounts, PhaseNumbers DEF CtxTypeOK

LEMMA RequestHeadersPrecede ==
  ASSUME CtxTypeOK, cfg.policy = "fail", OnHttpRequestHeaders("continue"), engine' = "on"
  PROVE  phaseCalls'[1] > 0
BY FailBlocks, EvaluateCounts, PhaseNumbers DEF OnHttpRequestHeaders, CtxTypeOK

PrecedeInv ==
  cfg.policy = "fail" /\ engine = "on" =>
    /\ upstream => phaseCalls[1] > 0
    /\ delivered["req"] # {} => phaseCalls[2] > 0
    /\ delivered["resp"] # {} => phaseCalls[3] > 0 /\ phaseCalls[4] > 0
    /\ stage["resp"] = "body" /\ ~isInterrupted(interruptedAt) => phaseCalls[3] > 0

LEMMA PrecedeStep ==
  ASSUME "send" \notin Faults, "replace" \notin Faults, HostStopsOnReply,
         TypeOK, OnceInv, ClosedInv, HeadersInv, FlagsInv', PrecedeInv, [Next]_vars
  PROVE  PrecedeInv'
<1> SUFFICES ASSUME cfg'.policy = "fail", engine' = "on"
             PROVE  /\ upstream' => phaseCalls'[1] > 0
                    /\ delivered'["req"] # {} => phaseCalls'[2] > 0
                    /\ delivered'["resp"] # {} => phaseCalls'[3] > 0 /\ phaseCalls'[4] > 0
                    /\ stage'["resp"] = "body" /\ ~isInterrupted(interruptedAt') => phaseCalls'[3] > 0
  BY DEF PrecedeInv
<1>0. /\ CtxTypeOK /\ cfg.policy = "fail" /\ engine = "on"
      /\ ~isInterrupted(interruptedAt') => ~isInterrupted(interruptedAt)
      /\ Answered => Answered'
  BY NextKeeps, AnsweredStays DEF TypeOK, CtxTypeOK
<1>1. /\ upstream => phaseCalls'[1] > 0
      /\ delivered["req"] # {} => phaseCalls'[2] > 0
      /\ delivered["resp"] # {} => phaseCalls'[3] > 0 /\ phaseCalls'[4] > 0
      /\ stage["resp"] = "body" /\ ~isInterrupted(interruptedAt) => phaseCalls'[3] > 0
  BY <1>0, NextRises, PhaseNumbers DEF PrecedeInv
<1>2. CASE RequestHeaders
  <2>1. upstream' => phaseCalls'[1] > 0
    BY <1>0, <1>2, RequestHeadersPrecede DEF RequestHeaders
  <2>2. stage'["resp"] = stage["resp"]
    BY <1>2, AdvanceStage DEF RequestHeaders, Dir
  <2> QED BY <1>0, <1>1, <1>2, <2>1, <2>2, HeadersMoveNothing
<1>3. CASE ResponseHeaders
  <2>1. stage'["resp"] = "body" /\ ~isInterrupted(interruptedAt') => phaseCalls'[3] > 0
    BY <1>0, <1>3, ResponseHeadersPrecede DEF ResponseHeaders
  <2> QED BY <1>0, <1>1, <1>3, <2>1, HeadersMoveNothing DEF ResponseHeaders
<1>4. ASSUME NEW d \in Dir, Body(d) \/ Trailers(d)
      PROVE  /\ upstream' => phaseCalls'[1] > 0
             /\ delivered'["req"] # {} => phaseCalls'[2] > 0
             /\ delivered'["resp"] # {} => phaseCalls'[3] > 0 /\ phaseCalls'[4] > 0
             /\ stage'["resp"] = "body" /\ ~isInterrupted(interruptedAt') => phaseCalls'[3] > 0
  <2>1. /\ UNCHANGED upstream /\ stage[d] = "body"
        /\ stage'["resp"] = "body" => stage["resp"] = "body"
    BY <1>4, AdvanceStage DEF Body, Trailers, Dir
  <2>2. CASE UNCHANGED delivered
    BY <1>0, <1>1, <2>1, <2>2
  <2>3. CASE ~UNCHANGED delivered
    <3>1. ~isInterrupted(interruptedAt') /\ ~isInterrupted(interruptedAt)
      BY <1>0, <1>4, <2>3, ForwardsNothingStep DEF Next
    <3>2. /\ tx # "nil" /\ (\A e \in Dir \ {d} : delivered'[e] = delivered[e])
          /\ \E bodySize, endOfStream, mask : OnBody(d, bodySize, endOfStream, "continue", mask)
      BY <1>0, <1>4, <2>3, BodyFlushes
    <3>3. phaseCalls'[BodyPhase(d)] > 0
      BY <1>0, <3>1, <3>2, OnBodyContinues DEF FlagsInv
    <3>4. d = "resp" => phaseCalls'[3] > 0
      BY <1>1, <2>1, <3>1
    <3> QED BY <1>0, <1>1, <2>1, <3>1, <3>2, <3>3, <3>4, PhaseNumbers DEF Dir
  <2> QED BY <2>2, <2>3
<1>5. CASE StreamDone \/ UNCHANGED vars
  <2>1. UNCHANGED upstream /\ UNCHANGED stage
    BY <1>5 DEF StreamDone, vars, hostVars
  <2>2. UNCHANGED delivered
    BY <1>5, HeadersMoveNothing
  <2> QED BY <1>0, <1>1, <2>1, <2>2
<1> QED BY <1>2, <1>3, <1>4, <1>5 DEF Next

\* Under failure policy "fail", when local replies and replacements succeed and
\* the host respects a reply, no byte of a body is forwarded before the phase
\* that judges it: whatever of the engine, the headers and the bodies fails.
THEOREM ForwardedAfterPhases ==
  ASSUME "send" \notin Faults, "replace" \notin Faults, HostStopsOnReply
  PROVE  Spec => []PhasesPrecedeForwarding
<1>1. Init => FlagsInv /\ PrecedeInv
  BY DEF Init, FlagsInv, PrecedeInv, Dir
<1>2. FlagsInv /\ PrecedeInv /\ TypeOK /\ OnceInv /\ ClosedInv /\ HeadersInv /\ [Next]_vars
        => FlagsInv' /\ PrecedeInv'
  BY FlagsStep, PrecedeStep
<1>3. PrecedeInv => PhasesPrecedeForwarding
  BY PhaseNumbers DEF PrecedeInv, PhasesPrecedeForwarding, Dir
<1> QED
  BY <1>1, <1>2, <1>3, TypeCorrect, OnceInvariant, ClosedInvariant, HeadersInvariant, PTL DEF Spec

-----------------------------------------------------------------------------
(* What is written to the transaction only grows.                          *)

\* A body buffer that was not filled exempts nothing.
CutInv == \A d \in Dir : full[d] = "no" => cut[d] = MaxBody

\* No position loses its inspection, and only a limit that was not reached yet
\* exempts positions.
Grows(d) ==
  /\ \A e \in Dir : inspected[e] \subseteq inspected'[e]
  /\ \A e \in Dir : cut'[e] = cut[e] \/ (full[e] = "no" /\ full'[e] # "no")
  /\ \A e \in Dir \ {d} : full'[e] = full[e]
  /\ \A e \in Dir : full[e] # "no" => full'[e] # "no"
  /\ \A e \in Dir : full[e] = "beyond" => full'[e] = "beyond"

\* Only a callback that inspects its body, of a stream that is not interrupted,
\* falls short or makes up for it.
ShortOf(d) ==
  /\ \A e \in Dir \ {d} : (e \in short') <=> (e \in short)
  /\ \/ (d \in short') <=> (d \in short)
     \/ ~processed[d] /\ ~isInterrupted(interruptedAt) /\ ~Inactive /\ d \in cfg.bodyAccess

LEMMA WrittenGrows ==
  ASSUME NEW d \in Dir, UNCHANGED written
  PROVE  Grows(d) /\ ShortOf(d)
BY DEF Grows, ShortOf, written

LEMMA WriteGrows ==
  ASSUME NEW d \in Dir, NEW n, Write(d, n), CtxTypeOK
  PROVE  \A e \in Dir : inspected[e] \subseteq inspected'[e]
BY DEF Write, CtxTypeOK, CorazaTypeOK

LEMMA ReadAndWriteGrows ==
  ASSUME NEW d \in Dir, NEW chunkSize, NEW m, NEW n, NEW inner, NEW v, CtxTypeOK,
         ReadAndWrite(d, chunkSize, m, n, inner, v)
  PROVE  Grows(d)
<1>1. CASE UNCHANGED written
  BY <1>1, WrittenGrows
<1>2. CASE WriteBody(d, m, n, inner, v)
  <2>1. \A e \in Dir : inspected[e] \subseteq inspected'[e]
    BY <1>2, WriteGrows DEF WriteBody
  <2>2. \/ UNCHANGED <<full, cut>>
        \/ /\ full[d] = "no" /\ \E k \in {"exactly", "beyond"} : full' = [full EXCEPT ![d] = k]
           /\ \E k : cut' = [cut EXCEPT ![d] = k]
        \/ full' = [full EXCEPT ![d] = "beyond"] /\ UNCHANGED cut
    BY <1>2 DEF WriteBody
  <2> QED BY <2>1, <2>2 DEF Grows, CtxTypeOK, CorazaTypeOK
<1> QED BY <1>1, <1>2 DEF ReadAndWrite

LEMMA OnBodyGrows ==
  ASSUME NEW d \in Dir, NEW bodySize, NEW endOfStream, NEW action, NEW mask,
         CtxTypeOK, OnBody(d, bodySize, endOfStream, action, mask)
  PROVE  Grows(d) /\ ShortOf(d)
<1>1. CASE UNCHANGED written
  BY <1>1, WrittenGrows
<1>2. ASSUME ~isInterrupted(interruptedAt), ~processed[d], ~Inactive, d \in cfg.bodyAccess,
             inspectBody(d, bodySize, endOfStream, action, mask), ~UNCHANGED written
      PROVE  Grows(d) /\ ShortOf(d)
  <2>1. PICK m, n, inner, v : ReadAndWrite(d, Unread(bodySize), m, n, inner, v)
    BY <1>2 DEF inspectBody, ReadFails
  <2>2. Grows(d)
    BY <2>1, ReadAndWriteGrows
  <2>3. short' \in {short \cup {d}, short \ {d}}
    BY <1>2, <2>1 DEF ReadAndWrite
  <2> QED BY <1>2, <2>2, <2>3 DEF ShortOf
<1>3. CASE skipBody(d, bodySize, action, mask)
  BY <1>1, <1>3 DEF skipBody
<1>4. CASE UNCHANGED ctxVars
  BY <1>1, <1>4 DEF ctxVars, corazaVars
<1>5. CASE isInterrupted(interruptedAt)
  BY <1>4, <1>5 DEF OnBody, OnHttpRequestBody, OnHttpResponseBody
<1> QED BY <1>1, <1>2, <1>3, <1>4, <1>5, OnBodyCases

LEMMA NextGrows ==
  ASSUME TypeOK, [Next]_vars
  PROVE  \/ UNCHANGED written
         \/ \E d \in Dir : (Body(d) \/ Trailers(d)) /\ Grows(d) /\ ShortOf(d)
<1>0. CtxTypeOK
  BY DEF TypeOK, CtxTypeOK
<1>1. CASE RequestHeaders \/ ResponseHeaders
  BY <1>1
  DEF RequestHeaders, ResponseHeaders, OnHttpRequestHeaders, OnHttpResponseHeaders, ctxVars, corazaVars
<1>2. ASSUME NEW d \in Dir, Body(d) \/ Trailers(d)
      PROVE  UNCHANGED written \/ (Grows(d) /\ ShortOf(d))
  <2>1. CASE tx = "nil" /\ Trailers(d)
    BY <2>1 DEF Trailers, OnTrailers, corazaVars
  <2> QED BY <1>0, <1>2, <2>1, OnBodyGrows DEF Body, Trailers, OnTrailers
<1>3. CASE StreamDone \/ UNCHANGED vars
  BY <1>3 DEF StreamDone, OnHttpStreamDone, vars, ctxVars, corazaVars
<1> QED BY <1>1, <1>2, <1>3 DEF Next

\* The same for every direction.
LEMMA EachGrows ==
  ASSUME TypeOK, CutInv, [Next]_vars, NEW e \in Dir
  PROVE  /\ inspected[e] \subseteq inspected'[e]
         /\ cut'[e] = cut[e] \/ (cut[e] = MaxBody /\ full'[e] # "no")
         /\ full[e] # "no" => full'[e] # "no"
         /\ full[e] = "beyond" => full'[e] = "beyond"
         /\ \/ (e \in short') <=> (e \in short)
            \/ ~processed[e] /\ ~isInterrupted(interruptedAt) /\ ~Inactive /\ e \in cfg.bodyAccess
<1>1. CASE UNCHANGED written
  BY <1>1 DEF written
<1>2. ASSUME NEW d \in Dir, Grows(d), ShortOf(d)
      PROVE  /\ inspected[e] \subseteq inspected'[e]
             /\ cut'[e] = cut[e] \/ (cut[e] = MaxBody /\ full'[e] # "no")
             /\ full[e] # "no" => full'[e] # "no"
             /\ full[e] = "beyond" => full'[e] = "beyond"
             /\ \/ (e \in short') <=> (e \in short)
                \/ ~processed[e] /\ ~isInterrupted(interruptedAt) /\ ~Inactive /\ e \in cfg.bodyAccess
  BY <1>2 DEF Grows, ShortOf, CutInv
<1> QED BY <1>1, <1>2, NextGrows

LEMMA CutInvariant == Spec => []CutInv
<1>1. Init => CutInv
  BY DEF Init, CutInv
<1>2. CutInv /\ TypeOK /\ [Next]_vars => CutInv'
  BY EachGrows DEF CutInv
<1> QED BY <1>1, <1>2, TypeCorrect, PTL DEF Spec

-----------------------------------------------------------------------------
(* One callback of a body that is being read.                              *)

\* The body of direction d is being read: all of it is still in the buffer and
\* bodyReadIndex is the end of what has been written, which is the end of what
\* has arrived unless the last read fell short.
Reading(d) ==
  /\ ~processed[d] /\ flushed[d] = 0
  /\ bodyReadIndex <= arrived[d]
  /\ d \notin short => bodyReadIndex = arrived[d]
  /\ 1..bodyReadIndex \subseteq inspected[d]
  /\ full[d] # "beyond"
  /\ full[d] = "exactly" => cut[d] = bodyReadIndex

\* What was not exempt of it has been written.
WasRead(d) == processed[d] /\ 1..cut[d] \subseteq inspected[d]

LEMMA ReceiveType ==
  ASSUME TypeOK, NEW d \in Dir, NEW n \in 0..(MaxBody - arrived[d]), Receive(d, n)
  PROVE  arrived'[d] = arrived[d] + n /\ arrived[d] \in 0..MaxBody /\ arrived'[d] \in 0..MaxBody
BY Constants DEF Receive, TypeOK, BuffersTypeOK

LEMMA WriteReads ==
  ASSUME TypeOK, NEW d \in Dir, Reading(d), NEW n \in Nat, Write(d, n)
  PROVE  1..(bodyReadIndex + n) \subseteq inspected'[d]
<1>1. bodyReadIndex \in Nat /\ flushed[d] + bodyReadIndex = bodyReadIndex
  BY Constants DEF Reading, TypeOK, BuffersTypeOK, FlagsTypeOK
<1>2. inspected'[d] = inspected[d] \cup ((bodyReadIndex + 1)..(bodyReadIndex + n))
  BY <1>1 DEF Write, TypeOK, CorazaTypeOK
<1>3. 1..(bodyReadIndex + n) \subseteq (1..bodyReadIndex) \cup ((bodyReadIndex + 1)..(bodyReadIndex + n))
  BY <1>1
<1> QED BY <1>2, <1>3 DEF Reading

\* The size a body callback is called with while the body is being read: that of
\* what has arrived, or of trailers what was read last.
Sized(d, n, bodySize) ==
  \/ bodySize = arrived[d] + n
  \/ bodySize = bodyReadIndex /\ n = 0

\* How far a read takes a body that is being read.
LEMMA ReadReaches ==
  ASSUME TypeOK, NEW d \in Dir, Reading(d), NEW n \in 0..(MaxBody - arrived[d]), Receive(d, n),
         NEW bodySize, Sized(d, n, bodySize), NEW m \in 0..Unread(bodySize), NEW k, NEW inner, NEW v,
         ReadAndWrite(d, Unread(bodySize), m, k, inner, v)
  PROVE  LET readIndex == ReadIndex(Unread(bodySize), m)
         IN  /\ readIndex = bodyReadIndex + m /\ m \in Nat
             /\ readIndex <= arrived'[d]
             /\ d \notin short' => readIndex = arrived'[d]
<1>1. /\ arrived'[d] = arrived[d] + n /\ arrived[d] \in Nat /\ n \in Nat
      /\ bodyReadIndex \in Nat /\ bodyReadIndex <= arrived[d]
  BY ReceiveType, Constants DEF TypeOK, FlagsTypeOK, Reading
<1>2. CASE Unread(bodySize) = 0
  <2>1. m = 0 /\ UNCHANGED short
    BY <1>2 DEF ReadAndWrite, written
  <2>2. d \notin short => bodyReadIndex = arrived'[d]
    BY <1>1, <1>2 DEF Reading, Unread, Sized
  <2> QED BY <1>1, <2>1, <2>2 DEF ReadIndex
<1>3. CASE Unread(bodySize) # 0
  <2>1. bodyReadIndex + Unread(bodySize) = arrived'[d] /\ Unread(bodySize) \in Nat
    BY <1>1, <1>3 DEF Unread, Sized
  <2>2. d \notin short' => ~(m < Unread(bodySize))
    BY <1>3 DEF ReadAndWrite
  <2> QED BY <1>1, <2>1, <2>2 DEF ReadIndex
<1> QED BY <1>2, <1>3

\* A write that was whole has taken the body as far as it was read, any other
\* up to its limit.
LEMMA WriteReaches ==
  ASSUME TypeOK, NEW d \in Dir, Reading(d), NEW chunkSize, NEW m \in Nat, NEW k \in 0..m,
         NEW inner, ReadAndWrite(d, chunkSize, m, k, inner, "pass")
  PROVE  IF k = m
         THEN /\ 1..(bodyReadIndex + m) \subseteq inspected'[d]
              /\ full'[d] # "beyond"
              /\ full'[d] = "exactly" => cut'[d] = bodyReadIndex + m
         ELSE full'[d] = "beyond" /\ 1..cut'[d] \subseteq inspected'[d]
<1>1. /\ bodyReadIndex \in Nat /\ flushed[d] = 0 /\ k \in Nat
      /\ full[d] # "beyond" /\ (full[d] = "exactly" => cut[d] = bodyReadIndex)
      /\ 1..bodyReadIndex \subseteq inspected[d]
      /\ full \in [Dir -> {"no", "exactly", "beyond"}] /\ cut \in [Dir -> 0..MaxBody]
  BY Constants DEF Reading, TypeOK, FlagsTypeOK, CorazaTypeOK
<1>2. CASE chunkSize = 0
  BY <1>1, <1>2 DEF ReadAndWrite, written
<1>3. CASE chunkSize # 0
  <2>1. WriteBody(d, m, k, inner, "pass") /\ m > 0
    BY <1>3 DEF ReadAndWrite
  <2>2. 1..(bodyReadIndex + k) \subseteq inspected'[d]
    BY <1>1, <2>1, WriteReads DEF WriteBody
  <2>3. CASE full[d] = "no" /\ k = m /\ UNCHANGED <<full, cut>>
    BY <2>2, <2>3
  <2>4. CASE /\ full' = [full EXCEPT ![d] = IF k = m THEN "exactly" ELSE "beyond"]
             /\ cut' = [cut EXCEPT ![d] = flushed[d] + bodyReadIndex + k]
    <3>1. full'[d] = IF k = m THEN "exactly" ELSE "beyond"
      BY <1>1, <2>4
    <3>2. cut'[d] = bodyReadIndex + k
      BY <1>1, <2>4
    <3> QED BY <2>2, <3>1, <3>2
  <2>5. CASE /\ full[d] # "no" /\ k = 0
             /\ full' = [full EXCEPT ![d] = "beyond"] /\ UNCHANGED cut
    <3>1. full'[d] = "beyond" /\ cut'[d] = bodyReadIndex /\ k # m
      BY <1>1, <2>1, <2>5
    <3>2. bodyReadIndex + k = bodyReadIndex
      BY <1>1, <2>5
    <3> QED BY <2>2, <3>1, <3>2
  <2> QED BY <2>1, <2>3, <2>4, <2>5 DEF WriteBody
<1> QED BY <1>2, <1>3

\* What becomes of a body that is being read: the stream is answered, the
\* response is interrupted and all of it replaced, the limit is reached, the
\* rest is waited for, or the whole of it has been written; but that a read
\* which fell short leaves some of it out.
BodyReads(d, endOfStream, action, mask) ==
  \/ Answered'
  \/ /\ d = "resp" /\ interruptedAt' = 4 /\ UNCHANGED replies
     /\ action = "continue" /\ (mask \in {arrived'[d], NoMask} \/ d \in short')
  \/ WasRead(d)' /\ full'[d] = "beyond" /\ UNCHANGED interruptedAt
  \/ /\ ~endOfStream /\ action = "pause" /\ UNCHANGED interruptedAt
     /\ ~processed'[d] /\ bodyReadIndex' <= arrived'[d]
     /\ d \notin short' => bodyReadIndex' = arrived'[d]
     /\ 1..bodyReadIndex' \subseteq inspected'[d]
     /\ full'[d] # "beyond" /\ (full'[d] = "exactly" => cut'[d] = bodyReadIndex')
  \/ /\ endOfStream /\ UNCHANGED interruptedAt
     /\ d = "req" => bodyReadIndex' = 0
     /\ 1..arrived'[d] \subseteq inspected'[d] \/ d \in short'
     /\ full'[d] # "beyond"

LEMMA InterruptionReads ==
  ASSUME "send" \notin Faults, TypeOK, NEW d \in Dir, ~isInterrupted(interruptedAt),
         NEW endOfStream, NEW size, NEW action, NEW mask,
         handleInterruption(BodyPhase(d), size, action, mask),
         d \notin short' => size = arrived'[d]
  PROVE  BodyReads(d, endOfStream, action, mask)
<1>0. /\ OutcomeTypeOK /\ BodyPhase(d) \in 1..4
      /\ BodyPhase(d) = 4 => d = "resp"
  BY BodyPhaseType, PhaseNumbers DEF TypeOK, Dir
<1>1. BodyPhase(d) # 4 => Answered'
  BY <1>0, InterruptionAnswers
<1>2. BodyPhase(d) = 4 => /\ interruptedAt' = 4 /\ UNCHANGED replies
                          /\ action = "continue" /\ mask \in {size, NoMask}
  BY PhaseNumbers DEF handleInterruption, replaceResponseBodyWhenInterrupted
<1> QED BY <1>0, <1>1, <1>2 DEF BodyReads

LEMMA InspectReads ==
  ASSUME "send" \notin Faults, TypeOK, NEW d \in Dir, Reading(d),
         cfg.policy = "fail", ~isInterrupted(interruptedAt),
         NEW n \in 0..(MaxBody - arrived[d]), Receive(d, n),
         NEW bodySize, Sized(d, n, bodySize), NEW endOfStream \in BOOLEAN, NEW action, NEW mask,
         inspectBody(d, bodySize, endOfStream, action, mask)
  PROVE  BodyReads(d, endOfStream, action, mask)
<1>0. OutcomeTypeOK /\ CtxTypeOK
  BY DEF TypeOK, CtxTypeOK
<1>1. CASE handleInternalEngineFailurePolicy(action)
  BY <1>0, <1>1, FailureAnswers DEF BodyReads
<1>2. ASSUME NEW m \in 0..Unread(bodySize), NEW k \in 0..m, NEW inner, NEW v,
             ReadAndWrite(d, Unread(bodySize), m, k, inner, v),
             AfterWrite(d, ReadIndex(Unread(bodySize), m), endOfStream, k = m, inner, v, action, mask)
      PROVE  BodyReads(d, endOfStream, action, mask)
  <2> DEFINE readIndex == ReadIndex(Unread(bodySize), m)
  <2>1. /\ readIndex = bodyReadIndex + m /\ m \in Nat
        /\ readIndex <= arrived'[d]
        /\ d \notin short' => readIndex = arrived'[d]
    BY <1>2, ReadReaches
  <2>2. v = "pass" =>
          IF k = m
          THEN /\ 1..readIndex \subseteq inspected'[d]
               /\ full'[d] # "beyond"
               /\ full'[d] = "exactly" => cut'[d] = readIndex
          ELSE full'[d] = "beyond" /\ 1..cut'[d] \subseteq inspected'[d]
    <3> SUFFICES ASSUME v = "pass"
                 PROVE  IF k = m
                        THEN /\ 1..readIndex \subseteq inspected'[d]
                             /\ full'[d] # "beyond"
                             /\ full'[d] = "exactly" => cut'[d] = readIndex
                        ELSE full'[d] = "beyond" /\ 1..cut'[d] \subseteq inspected'[d]
      OBVIOUS
    <3>1. ReadAndWrite(d, Unread(bodySize), m, k, inner, "pass")
      BY <1>2
    <3> HIDE DEF readIndex
    <3> QED BY <1>2, <2>1, <3>1, WriteReaches
  <2> HIDE DEF readIndex
  <2>3. CASE v = "error"
    BY <1>1, <1>2, <2>3 DEF AfterWrite
  <2>4. CASE v = "deny"
    <3>1. handleInterruption(BodyPhase(d), readIndex, action, mask)
      BY <1>2, <2>4 DEF AfterWrite, InterruptedSize, readIndex
    <3> QED BY <2>1, <3>1, InterruptionReads
  <2>5. CASE v = "pass" /\ k # m
    <3>1. processed' = [processed EXCEPT ![d] = TRUE] /\ UNCHANGED outcome
      BY <1>2, <2>5 DEF AfterWrite
    <3>2. processed'[d] /\ UNCHANGED interruptedAt
      BY <1>0, <3>1 DEF CtxTypeOK, FlagsTypeOK, outcome
    <3> QED BY <2>2, <2>5, <3>2 DEF BodyReads, WasRead
  <2>6. CASE v = "pass" /\ k = m /\ ~endOfStream
    <3>1. /\ bodyReadIndex' = readIndex /\ action = "pause"
          /\ UNCHANGED <<interruptedAt, processed>>
      BY <1>2, <2>6 DEF AfterWrite, AwaitEndOfStream, outcome, readIndex
    <3> QED BY <2>1, <2>2, <2>6, <3>1 DEF BodyReads, Reading
  <2>7. CASE v = "pass" /\ k = m /\ endOfStream
    <3>1. /\ bodyReadIndex' = CleanedIndex(d, readIndex)
          /\ \E w : Conclude(w, BodyPhase(d), readIndex, action, mask)
      BY <1>2, <2>7 DEF AfterWrite, readIndex
    <3>2. CASE handleInternalEngineFailurePolicy(action)
      BY <1>1, <3>2
    <3>3. CASE handleInterruption(BodyPhase(d), readIndex, action, mask)
      BY <2>1, <3>3, InterruptionReads
    <3>4. CASE UNCHANGED outcome
      <4>1. d = "req" => bodyReadIndex' = 0
        BY <3>1 DEF CleanedIndex
      <4>2. 1..arrived'[d] \subseteq inspected'[d] \/ d \in short'
        BY <2>1, <2>2, <2>7
      <4>3. full'[d] # "beyond"
        BY <2>2, <2>7
      <4> QED BY <2>7, <3>4, <4>1, <4>2, <4>3 DEF BodyReads, outcome
    <3> QED BY <3>1, <3>2, <3>3, <3>4 DEF Conclude
  <2> QED BY <1>2, <2>3, <2>4, <2>5, <2>6, <2>7 DEF AfterWrite
<1> QED BY <1>1, <1>2 DEF inspectBody, ReadFails

-----------------------------------------------------------------------------
(* What of a body has been read, from the headers to the end.              *)

\* A body callback or the trailers of a stream that has a transaction: trailers
\* end the stream with the size that was read last.
Moves(d, n, bodySize, endOfStream, action, mask) ==
  /\ OnBody(d, bodySize, endOfStream, action, mask)
  /\ Receive(d, n)
  /\ Follow(d, action, mask)
  /\ Advance(d, endOfStream)
  /\ \/ bodySize = arrived[d] + n - flushed[d]
     \/ bodySize = bodyReadIndex /\ n = 0 /\ endOfStream

LEMMA BodyMoves ==
  ASSUME TypeOK, NEW d \in Dir, Body(d) \/ (Trailers(d) /\ tx # "nil")
  PROVE  \E action \in Actions, endOfStream \in BOOLEAN, n \in 0..(MaxBody - arrived[d]),
            mask \in {NoMask} \cup 0..MaxBody, bodySize \in Int :
           Moves(d, n, bodySize, endOfStream, action, mask)
<1>1. arrived[d] \in 0..MaxBody /\ flushed[d] \in 0..MaxBody /\ bodyReadIndex \in 0..MaxBody
  BY DEF TypeOK, BuffersTypeOK, FlagsTypeOK
<1>2. CASE Body(d)
  <2>1. PICK action \in Actions, endOfStream \in BOOLEAN, n \in 0..(MaxBody - arrived[d]),
             mask \in {NoMask} \cup 0..MaxBody :
          /\ OnBody(d, arrived[d] + n - flushed[d], endOfStream, action, mask)
          /\ Receive(d, n) /\ Follow(d, action, mask) /\ Advance(d, endOfStream)
    BY <1>2 DEF Body
  <2>2. arrived[d] + n - flushed[d] \in Int
    BY <1>1, Constants
  <2>3. Moves(d, n, arrived[d] + n - flushed[d], endOfStream, action, mask)
    BY <2>1 DEF Moves
  <2> QED BY <2>2, <2>3
<1>3. CASE Trailers(d) /\ tx # "nil"
  <2>1. PICK action \in Actions, mask \in {NoMask} \cup 0..MaxBody :
          /\ OnBody(d, bodyReadIndex, TRUE, action, mask)
          /\ Receive(d, 0) /\ Follow(d, action, mask) /\ Advance(d, TRUE)
    BY <1>3 DEF Trailers, OnTrailers, TrailersEndStream
  <2>2. 0 \in 0..(MaxBody - arrived[d]) /\ bodyReadIndex \in Int
    BY <1>1, Constants
  <2>3. Moves(d, 0, bodyReadIndex, TRUE, action, mask)
    BY <2>1 DEF Moves
  <2> QED BY <2>2, <2>3
<1> QED BY <1>2, <1>3

\* The reading of a stream that is answered or over, or that began its response
\* before its request ended, no longer matters.
Watched == ~done /\ cfg.policy = "fail" /\ engine = "on" /\ ~early /\ ~Answered

\* A response that is not early begins after its request has ended.
LocalInv == stage["resp"] = "body" /\ ~early => stage["req"] = "ended" /\ ~Answered

\* A request that goes on is being read, or went beyond its limit; one that did
\* not and has ended leaves bodyReadIndex cleaned for the response.
RequestReadInv ==
  /\ Watched /\ stage["req"] = "body" =>
       IF "req" \in cfg.bodyAccess
       THEN Reading("req") \/ (WasRead("req") /\ full["req"] = "beyond")
       ELSE bodyReadIndex = 0
  /\ Watched /\ stage["req"] = "ended" /\ stage["resp"] = "idle" /\ full["req"] # "beyond" =>
       bodyReadIndex = 0

\* A response that goes on is being read or was exempted, unless it inherited
\* the bodyReadIndex of a request that went beyond its limit.
ResponseReadInv ==
  Watched /\ stage["resp"] = "body" /\ full["req"] # "beyond" /\ ~isInterrupted(interruptedAt) =>
    IF "resp" \in cfg.bodyAccess
    THEN Reading("resp") \/ WasRead("resp")
    ELSE processed["resp"] \/ arrived["resp"] = 0

LEMMA LocalStep ==
  ASSUME HostStopsOnReply, TypeOK, OnceInv, HeadersInv, LocalInv, [Next]_vars
  PROVE  LocalInv'
<1>0. Answered => Answered'
  BY AnsweredStays DEF TypeOK
<1>1. CASE RequestHeaders
  BY <1>1, AdvanceStage DEF RequestHeaders, LocalInv, HeadersInv, Dir
<1>2. CASE ResponseHeaders
  <2>1. PICK endOfStream \in BOOLEAN : (Answered => endOfStream) /\ Advance("resp", endOfStream)
    BY <1>2 DEF ResponseHeaders
  <2>2. stage'["resp"] = "body" => ~Answered'
    BY <2>1 DEF Advance, TypeOK, Dir, Answered
  <2>3. /\ stage["req"] \in {"body", "ended"} /\ stage'["req"] = stage["req"]
        /\ early' = (~Answered /\ stage["req"] = "body")
    BY <1>2, <2>1, AdvanceStage DEF ResponseHeaders, TypeOK, Dir
  <2> QED BY <1>0, <2>2, <2>3 DEF LocalInv
<1>3. ASSUME NEW d \in Dir, Body(d) \/ Trailers(d)
      PROVE  LocalInv'
  <2>1. PICK endOfStream \in BOOLEAN : Advance(d, endOfStream)
    BY <1>3 DEF Body, Trailers
  <2>2. stage[d] = "body" /\ UNCHANGED early
    BY <1>3 DEF Body, Trailers
  <2>3. CASE d = "req"
    BY <2>1, <2>2, <2>3, AdvanceStage DEF LocalInv, Dir
  <2>4. CASE d = "resp"
    <3>1. stage'["resp"] = "body" => ~Answered'
      BY <2>1, <2>4 DEF Advance, TypeOK, Dir, Answered
    <3> QED BY <2>1, <2>2, <2>4, <3>1, AdvanceStage DEF LocalInv, Dir
  <2> QED BY <2>3, <2>4 DEF Dir
<1>4. CASE StreamDone \/ UNCHANGED vars
  BY <1>4
  DEF StreamDone, OnHttpStreamDone, vars, hostVars, ctxVars, outcome, LocalInv, Answered
<1> QED BY <1>1, <1>2, <1>3, <1>4 DEF Next

\* What becomes of a body that is being read or was exempted.
LEMMA ReadMoves ==
  ASSUME "send" \notin Faults, TypeOK, NEW d \in Dir, d \in cfg.bodyAccess,
         Reading(d) \/ WasRead(d), ~Inactive, cfg.policy = "fail", ~isInterrupted(interruptedAt),
         NEW action \in Actions, NEW endOfStream \in BOOLEAN, NEW n \in 0..(MaxBody - arrived[d]),
         NEW mask, NEW bodySize \in Int, Moves(d, n, bodySize, endOfStream, action, mask)
  PROVE  \/ Answered'
         \/ /\ d = "resp" /\ interruptedAt' = 4 /\ Reading(d)
            /\ action = "continue" /\ (mask \in {arrived'[d], NoMask} \/ d \in short')
         \/ /\ WasRead(d)' /\ ((WasRead(d) /\ UNCHANGED full) \/ full'[d] = "beyond")
            /\ UNCHANGED interruptedAt
         \/ Reading(d)' /\ action = "pause" /\ ~endOfStream /\ UNCHANGED interruptedAt
         \/ /\ endOfStream /\ UNCHANGED interruptedAt
            /\ d = "req" => bodyReadIndex' = 0
            /\ 1..arrived'[d] \subseteq inspected'[d] \/ d \in short'
            /\ full'[d] # "beyond"
<1>1. CASE WasRead(d)
  <2>1. UNCHANGED ctxVars
    BY <1>1, OnBodyCases DEF Moves, WasRead
  <2> QED BY <1>1, <2>1 DEF ctxVars, flags, outcome, corazaVars, written, WasRead
<1>2. CASE Reading(d)
  <2>1. inspectBody(d, bodySize, endOfStream, action, mask) /\ Receive(d, n)
    BY <1>2, OnBodyCases DEF Moves, Reading
  <2>2. Sized(d, n, bodySize)
    BY <1>2, ReceiveType DEF Moves, Reading, Sized
  <2>3. action = "pause" => flushed'[d] = 0
    BY <1>2 DEF Moves, Follow, Reading
  <2>4. BodyReads(d, endOfStream, action, mask)
    BY <1>2, <2>1, <2>2, InspectReads
  <2> QED BY <1>2, <2>3, <2>4 DEF BodyReads, Reading
<1> QED BY <1>1, <1>2

\* The callbacks of a request body that is not inspected leave bodyReadIndex.
LEMMA SkippedRequest ==
  ASSUME NEW bodySize, NEW endOfStream, NEW action, NEW mask, "req" \notin cfg.bodyAccess,
         OnBody("req", bodySize, endOfStream, action, mask)
  PROVE  UNCHANGED <<bodyReadIndex, full>>
BY DEF OnBody, OnHttpRequestBody, processBody, skipBody, ctxVars, flags, corazaVars, written

\* Watched streams with a request to come are not interrupted.
LEMMA WatchedRequest ==
  ASSUME TypeOK, HeadersInv, AnsweredInv, Watched, stage["req"] = "body"
  PROVE  /\ stage["resp"] = "idle" /\ ~isInterrupted(interruptedAt)
         /\ tx # "nil" /\ ~Inactive
<1>1. stage["resp"] = "idle" /\ interruptedAt \in 0..4
  BY DEF HeadersInv, Watched, TypeOK, OutcomeTypeOK
<1>2. interruptedAt \notin 1..4 /\ tx # "nil"
  BY <1>1 DEF HeadersInv, AnsweredInv, Watched
<1> QED BY <1>1, <1>2, Interrupted DEF Watched, Inactive

LEMMA RequestReadStep ==
  ASSUME "send" \notin Faults, TypeOK, OnceInv, ClosedInv, HeadersInv, AnsweredInv,
         RequestReadInv, [Next]_vars
  PROVE  RequestReadInv'
<1> SUFFICES ASSUME Watched'
             PROVE  /\ stage'["req"] = "body" =>
                         IF "req" \in cfg'.bodyAccess
                         THEN Reading("req")' \/ (WasRead("req")' /\ full'["req"] = "beyond")
                         ELSE bodyReadIndex' = 0
                    /\ stage'["req"] = "ended" /\ stage'["resp"] = "idle" /\ full'["req"] # "beyond"
                         => bodyReadIndex' = 0
  BY DEF RequestReadInv
<1>0. Watched /\ UNCHANGED cfg
  BY NextKeeps DEF Watched
<1>1. CASE RequestHeaders
  <2>1. /\ UNCHANGED <<arrived, flushed, bodyReadIndex, processed, full>>
        /\ stage["req"] = "idle"
    BY <1>1, HeadersMoveNothing DEF RequestHeaders, OnHttpRequestHeaders, flags, written
  <2>2. /\ arrived["req"] = 0 /\ flushed["req"] = 0 /\ bodyReadIndex = 0 /\ ~processed["req"]
        /\ full["req"] = "no"
    BY <2>1 DEF HeadersInv, Dir
  <2> QED BY <2>1, <2>2 DEF Reading
<1>2. CASE ResponseHeaders
  <2>1. stage["req"] # "body"
    BY <1>2, <1>0 DEF ResponseHeaders, Watched
  <2>2. stage'["resp"] # "idle" /\ stage'["req"] = stage["req"]
    BY <1>2, AdvanceStage DEF ResponseHeaders, Dir
  <2> QED BY <2>1, <2>2
<1>3. CASE Body("req") \/ Trailers("req")
  <2>1. stage["req"] = "body" /\ stage["resp"] = "idle" /\ "req" \in Dir
    BY <1>0, <1>3, WatchedRequest DEF Body, Trailers, Dir
  <2>2. ~isInterrupted(interruptedAt) /\ tx # "nil" /\ ~Inactive
    BY <1>0, <2>1, WatchedRequest
  <2>3. PICK action \in Actions, endOfStream \in BOOLEAN, n \in 0..(MaxBody - arrived["req"]),
             mask \in {NoMask} \cup 0..MaxBody, bodySize \in Int :
          Moves("req", n, bodySize, endOfStream, action, mask)
    BY <1>3, <2>1, <2>2, BodyMoves
  <2>4. endOfStream => stage'["req"] # "body"
    BY <2>3 DEF Moves, Advance, TypeOK, Dir
  <2>5. CASE "req" \in cfg.bodyAccess
    <3>1. Reading("req") \/ (WasRead("req") /\ full["req"] = "beyond")
      BY <1>0, <2>1, <2>5 DEF RequestReadInv
    <3>2. \/ WasRead("req")' /\ full'["req"] = "beyond"
          \/ Reading("req")' /\ ~endOfStream
          \/ endOfStream /\ bodyReadIndex' = 0
      <4>1. "req" # "resp" /\ ~Answered'
        BY DEF Watched
      <4>2. ~(WasRead("req") /\ Reading("req"))
        BY DEF WasRead, Reading
      <4> QED BY <1>0, <2>1, <2>2, <2>3, <2>5, <3>1, <4>1, <4>2, ReadMoves DEF Watched
    <3>3. ~endOfStream => stage'["req"] # "ended"
      BY <2>3 DEF Moves, Advance, TypeOK, Dir
    <3> QED BY <1>0, <2>4, <2>5, <3>2, <3>3
  <2>6. CASE "req" \notin cfg.bodyAccess
    BY <1>0, <2>1, <2>3, <2>6, SkippedRequest DEF Moves, RequestReadInv
  <2> QED BY <2>5, <2>6
<1>4. CASE Body("resp") \/ Trailers("resp")
  <2>1. stage["resp"] = "body" /\ stage'["resp"] # "idle" /\ stage'["req"] = stage["req"]
    BY <1>4, AdvanceStage DEF Body, Trailers, Dir
  <2>2. stage["req"] # "body"
    BY <1>0, <2>1 DEF HeadersInv, Watched
  <2> QED BY <2>1, <2>2
<1>5. CASE StreamDone
  BY <1>5 DEF StreamDone, Watched
<1>6. CASE UNCHANGED vars
  BY <1>0, <1>6
  DEF vars, hostVars, buffers, ctxVars, flags, corazaVars, written, RequestReadInv, Reading, WasRead
<1> QED BY <1>1, <1>2, <1>3, <1>4, <1>5, <1>6 DEF Next, Dir

\* A body callback of the response that interrupts leaves the replies alone;
\* any other forwards what it forwards as it was.
LEMMA ResponseBodyPhase ==
  ASSUME NEW bodySize, NEW endOfStream, NEW action, NEW mask, "send" \notin Faults, CtxTypeOK,
         OnBody("resp", bodySize, endOfStream, action, mask), ~isInterrupted(interruptedAt)
  PROVE  \/ interruptedAt' = 4 /\ UNCHANGED replies /\ action = "continue"
         \/ UNCHANGED interruptedAt /\ mask = NoMask
<1>1. ASSUME NEW size, handleInterruption(4, size, action, mask)
      PROVE  interruptedAt' = 4 /\ UNCHANGED replies /\ action = "continue"
  BY <1>1, PhaseNumbers DEF handleInterruption, replaceResponseBodyWhenInterrupted
<1>2. CASE /\ handleInternalEngineFailurePolicy(action) \/ UNCHANGED outcome
           /\ mask = NoMask
  BY <1>2 DEF handleInternalEngineFailurePolicy, outcome
<1>3. ASSUME NEW size, NEW v, Conclude(v, 4, size, action, mask)
      PROVE  \/ interruptedAt' = 4 /\ UNCHANGED replies /\ action = "continue"
             \/ UNCHANGED interruptedAt /\ mask = NoMask
  BY <1>1, <1>2, <1>3 DEF Conclude
<1>4. CASE inspectBody("resp", bodySize, endOfStream, action, mask)
  <2>1. BodyPhase("resp") = 4 /\ "resp" \in Dir
    BY PhaseNumbers DEF Dir
  <2>2. \/ /\ handleInternalEngineFailurePolicy(action) \/ UNCHANGED outcome
           /\ mask = NoMask
        \/ \E size : handleInterruption(4, size, action, mask)
        \/ \E size, v : Conclude(v, 4, size, action, mask)
    BY <1>4, <2>1, InspectBodyEnds
  <2> QED BY <1>1, <1>2, <1>3, <2>2
<1>5. CASE skipBody("resp", bodySize, action, mask)
  BY <1>3, <1>5, PhaseNumbers DEF skipBody
<1>6. CASE UNCHANGED ctxVars /\ mask = NoMask
  BY <1>6 DEF ctxVars, outcome
<1> QED BY <1>4, <1>5, <1>6, OnBodyCases DEF Dir

\* The first callback of a response body that is not inspected sets its flag,
\* unless the stream is answered.
LEMMA SkippedResponse ==
  ASSUME "send" \notin Faults, CtxTypeOK, "resp" \notin cfg.bodyAccess, cfg.policy = "fail",
         ~Inactive, ~isInterrupted(interruptedAt),
         NEW bodySize, NEW endOfStream, NEW action, NEW mask,
         OnBody("resp", bodySize, endOfStream, action, mask)
  PROVE  processed'["resp"] \/ Answered'
<1>1. CASE processed["resp"] /\ UNCHANGED ctxVars
  BY <1>1 DEF ctxVars, flags
<1>2. CASE skipBody("resp", bodySize, action, mask)
  <2>1. PICK v \in Verdicts :
          /\ processed' = [processed EXCEPT !["resp"] = "resp" = "req" \/ v # "error"]
          /\ Conclude(v, BodyPhase("resp"), bodySize, action, mask)
    BY <1>2 DEF skipBody
  <2>2. CASE v = "error"
    BY <2>1, <2>2, FailureAnswers DEF Conclude, CtxTypeOK
  <2> QED BY <2>1, <2>2 DEF CtxTypeOK, FlagsTypeOK, Dir
<1> QED BY <1>1, <1>2, OnBodyCases DEF Dir

LEMMA ResponseReadStep ==
  ASSUME "send" \notin Faults, TypeOK, OnceInv, ClosedInv, HeadersInv, AnsweredInv, CutInv,
         RequestReadInv, ResponseReadInv, [Next]_vars
  PROVE  ResponseReadInv'
<1> SUFFICES ASSUME Watched', stage'["resp"] = "body", full'["req"] # "beyond",
                    ~isInterrupted(interruptedAt')
             PROVE  IF "resp" \in cfg'.bodyAccess
                    THEN Reading("resp")' \/ WasRead("resp")'
                    ELSE processed'["resp"] \/ arrived'["resp"] = 0
  BY DEF ResponseReadInv
<1>0. /\ Watched /\ UNCHANGED cfg /\ ~isInterrupted(interruptedAt) /\ CtxTypeOK
      /\ processed["resp"] => processed'["resp"]
      /\ full["req"] # "beyond"
  BY NextKeeps, EachGrows DEF Watched, TypeOK, CtxTypeOK, Dir
<1>1. CASE RequestHeaders
  BY <1>1, AdvanceStage DEF RequestHeaders, HeadersInv, Dir
<1>2. CASE ResponseHeaders
  <2>1. /\ UNCHANGED <<arrived, flushed, bodyReadIndex, full>>
        /\ processed'["resp"] = processed["resp"]
        /\ stage["resp"] = "idle" /\ stage["req"] \in {"body", "ended"}
    BY <1>0, <1>2, HeadersMoveNothing
    DEF ResponseHeaders, OnHttpResponseHeaders, ctxVars, flags, corazaVars, written, TypeOK, CtxTypeOK, FlagsTypeOK, Dir
  <2>2. stage["req"] = "ended"
    BY <1>0, <1>2, <2>1 DEF ResponseHeaders, Watched
  <2>3. bodyReadIndex = 0
    BY <1>0, <2>1, <2>2 DEF RequestReadInv
  <2>4. /\ arrived["resp"] = 0 /\ flushed["resp"] = 0 /\ ~processed["resp"]
        /\ full["resp"] = "no"
    BY <1>0, <2>1 DEF HeadersInv, Watched, Dir
  <2> QED BY <2>1, <2>3, <2>4 DEF Reading
<1>3. CASE Body("req") \/ Trailers("req")
  <2>1. stage["req"] = "body" /\ stage'["resp"] = stage["resp"]
    BY <1>3, AdvanceStage DEF Body, Trailers, Dir
  <2> QED BY <1>0, <2>1, WatchedRequest
<1>4. CASE Body("resp") \/ Trailers("resp")
  <2>1. stage["resp"] = "body" /\ "resp" \in Dir
    BY <1>4 DEF Body, Trailers, Dir
  <2>2. tx # "nil" /\ ~Inactive
    BY <1>0, <2>1 DEF HeadersInv, Watched, Inactive
  <2>3. PICK action \in Actions, endOfStream \in BOOLEAN, n \in 0..(MaxBody - arrived["resp"]),
             mask \in {NoMask} \cup 0..MaxBody, bodySize \in Int :
          Moves("resp", n, bodySize, endOfStream, action, mask)
    BY <1>4, <2>1, <2>2, BodyMoves
  <2>4. ~endOfStream
    BY <2>3 DEF Moves, Advance, TypeOK, Dir
  <2>6. CASE "resp" \in cfg.bodyAccess
    <3>1. Reading("resp") \/ WasRead("resp")
      BY <1>0, <2>1, <2>6 DEF ResponseReadInv
    <3>2. interruptedAt' # 4 /\ ~Answered'
      BY Interrupted DEF Watched, isInterrupted, interruptionPhaseNone
    <3> QED BY <1>0, <2>1, <2>2, <2>3, <2>4, <2>6, <3>1, <3>2, ReadMoves DEF Watched
  <2>7. CASE "resp" \notin cfg.bodyAccess
    BY <1>0, <2>2, <2>3, <2>7, SkippedResponse DEF Moves, Watched
  <2> QED BY <2>6, <2>7
<1>5. CASE StreamDone
  BY <1>5 DEF StreamDone, Watched
<1>6. CASE UNCHANGED vars
  BY <1>0, <1>6
  DEF vars, hostVars, buffers, ctxVars, flags, corazaVars, written, ResponseReadInv, Reading, WasRead
<1> QED BY <1>1, <1>2, <1>3, <1>4, <1>5, <1>6 DEF Next, Dir

\* The callbacks of a body that goes on read it as far as it has arrived.
ReadInv == LocalInv /\ RequestReadInv /\ ResponseReadInv

LEMMA ReadInvariant ==
  ASSUME "send" \notin Faults, HostStopsOnReply
  PROVE  Spec => []ReadInv
<1>1. Init => ReadInv
  BY DEF Init, ReadInv, LocalInv, RequestReadInv, ResponseReadInv, Dir
<1>2. ReadInv /\ TypeOK /\ OnceInv /\ ClosedInv /\ HeadersInv /\ AnsweredInv /\ CutInv /\ [Next]_vars
        => ReadInv'
  BY LocalStep, RequestReadStep, ResponseReadStep DEF ReadInv
<1>3. Spec => []AnsweredInv
  BY AnsweredInvariant
<1> QED
  BY <1>1, <1>2, <1>3, TypeCorrect, OnceInvariant, ClosedInvariant, HeadersInvariant, CutInvariant,
     PTL DEF Spec

-----------------------------------------------------------------------------
(* What is forwarded was inspected.                                        *)

\* What is delivered has left the buffer.
DeliveredInv == \A d \in Dir : delivered[d] \subseteq 1..flushed[d]

LEMMA FollowDelivers ==
  ASSUME TypeOK, DeliveredInv, NEW d \in Dir, NEW n \in 0..(MaxBody - arrived[d]),
         Receive(d, n), NEW action, NEW mask, Follow(d, action, mask)
  PROVE  DeliveredInv'
<1>1. arrived'[d] \in 0..MaxBody /\ flushed[d] \in 0..MaxBody /\ flushed[d] <= arrived'[d]
  <2>1. arrived[d] \in 0..MaxBody /\ flushed[d] \in 0..MaxBody /\ flushed[d] <= arrived[d]
    BY DEF TypeOK, BuffersTypeOK
  <2> QED BY <2>1, ReceiveType, Constants
<1>2. CASE UNCHANGED <<flushed, delivered, nulls>>
  BY <1>2 DEF DeliveredInv
<1>3. CASE flushed' = [flushed EXCEPT ![d] = arrived'[d]] /\ UNCHANGED delivered
  BY <1>1, <1>3 DEF DeliveredInv, TypeOK, BuffersTypeOK
<1>4. CASE /\ flushed' = [flushed EXCEPT ![d] = arrived'[d]]
           /\ delivered' = [delivered EXCEPT ![d] = @ \cup ((flushed[d] + 1)..arrived'[d])]
  <2>1. \A e \in Dir \ {d} : delivered'[e] = delivered[e] /\ flushed'[e] = flushed[e]
    BY <1>4 DEF TypeOK, BuffersTypeOK
  <2>2. flushed'[d] = arrived'[d]
    BY <1>4 DEF TypeOK, BuffersTypeOK
  <2>3. delivered'[d] = delivered[d] \cup ((flushed[d] + 1)..arrived'[d])
    BY <1>4 DEF TypeOK, BuffersTypeOK
  <2>4. delivered[d] \subseteq 1..arrived'[d] /\ (flushed[d] + 1)..arrived'[d] \subseteq 1..arrived'[d]
    BY <1>1 DEF DeliveredInv
  <2> QED BY <2>1, <2>2, <2>3, <2>4 DEF DeliveredInv
<1> QED BY <1>2, <1>3, <1>4 DEF Follow

LEMMA DeliveredInvariant == Spec => []DeliveredInv
<1>1. Init => DeliveredInv
  BY DEF Init, DeliveredInv
<1>2. DeliveredInv /\ TypeOK /\ [Next]_vars => DeliveredInv'
  <2> SUFFICES ASSUME DeliveredInv, TypeOK, [Next]_vars PROVE DeliveredInv'
    OBVIOUS
  <2>1. ASSUME NEW d \in Dir, Body(d)
        PROVE  DeliveredInv'
    BY <2>1, FollowDelivers DEF Body
  <2>2. ASSUME NEW d \in Dir, Trailers(d)
        PROVE  DeliveredInv'
    <3>1. 0 \in 0..(MaxBody - arrived[d])
      BY Constants DEF TypeOK, BuffersTypeOK
    <3> QED BY <2>2, <3>1, FollowDelivers DEF Trailers
  <2>3. CASE UNCHANGED <<arrived, flushed, delivered, nulls>>
    BY <2>3 DEF DeliveredInv
  <2> QED BY <2>1, <2>2, <2>3, HeadersMoveNothing DEF Next
<1> QED BY <1>1, <1>2, TypeCorrect, PTL DEF Spec

\* Once the forwarding of direction d stands still, it stays inspected.
LEMMA StaysInspected ==
  ASSUME TypeOK, CutInv, NEW d \in Dir, Inspected(d), [Next]_vars, delivered'[d] = delivered[d]
  PROVE  Inspected(d)'
<1>1. inspected[d] \subseteq inspected'[d] /\ (cut'[d] = cut[d] \/ cut[d] = MaxBody)
  BY EachGrows
<1>2. cut[d] = MaxBody => (cut[d] + 1)..MaxBody = {}
  BY Constants
<1> QED BY <1>1, <1>2 DEF Inspected

\* A body that is being read, or was, is inspected as far as it is forwarded.
LEMMA ReadIsInspected ==
  ASSUME TypeOK', DeliveredInv', NEW d \in Dir,
         1..arrived'[d] \subseteq inspected'[d] \/ 1..cut'[d] \subseteq inspected'[d]
  PROVE  Inspected(d)'
<1>1. /\ arrived'[d] \in 0..MaxBody /\ flushed'[d] \in 0..MaxBody /\ flushed'[d] <= arrived'[d]
      /\ cut'[d] \in 0..MaxBody
  BY DEF TypeOK, BuffersTypeOK, CorazaTypeOK
<1>2. delivered'[d] \subseteq 1..arrived'[d] /\ delivered'[d] \subseteq 1..MaxBody
  BY <1>1, Constants DEF DeliveredInv
<1>3. 1..MaxBody \subseteq (1..cut'[d]) \cup ((cut'[d] + 1)..MaxBody)
  BY <1>1, Constants
<1> QED BY <1>2, <1>3 DEF Inspected

\* A callback that forwards a body that is being read has inspected it, unless
\* its last read fell short.
LEMMA ReadForwards ==
  ASSUME "send" \notin Faults, TypeOK, TypeOK', DeliveredInv', NEW d \in Dir,
         Body(d) \/ Trailers(d), tx # "nil", d \in cfg.bodyAccess, d \notin short',
         Reading(d) \/ WasRead(d), ~Inactive, cfg.policy = "fail", ~isInterrupted(interruptedAt),
         interruptedAt' # 4 \/ d = "req", ~Answered',
         delivered'[d] # delivered[d]
  PROVE  Inspected(d)'
<1>1. PICK action \in Actions, endOfStream \in BOOLEAN, n \in 0..(MaxBody - arrived[d]),
           mask \in {NoMask} \cup 0..MaxBody, bodySize \in Int :
        Moves(d, n, bodySize, endOfStream, action, mask)
  BY BodyMoves
<1>2. action # "pause"
  BY <1>1 DEF Moves, Follow
<1>3. 1..arrived'[d] \subseteq inspected'[d] \/ 1..cut'[d] \subseteq inspected'[d]
  BY <1>1, <1>2, ReadMoves DEF WasRead
<1> QED BY <1>3, ReadIsInspected

\* A read that fell short is made up for while nothing was forwarded yet.
LEMMA ShortForwardsNothing ==
  ASSUME TypeOK, CutInv, DeliveredInv, BufferIsWholeBodyUnlessAllowed, [Next]_vars, NEW d \in Dir,
         cfg.policy = "fail", d \in short, d \notin short'
  PROVE  Inspected(d)
<1>1. ~processed[d] /\ ~isInterrupted(interruptedAt) /\ ~Inactive /\ d \in cfg.bodyAccess
  BY EachGrows
<1>2. engine = "on"
  BY <1>1 DEF Inactive, TypeOK, CorazaTypeOK
<1>3. flushed[d] = 0
  BY <1>1, <1>2 DEF BufferIsWholeBodyUnlessAllowed, Dir
<1> QED BY <1>3 DEF DeliveredInv, Inspected

LEMMA RequestInspectedStep ==
  ASSUME "send" \notin Faults, HostStopsOnReply, TypeOK, TypeOK', OnceInv, ClosedInv, HeadersInv,
         AnsweredInv, CutInv, RequestReadInv, DeliveredInv, DeliveredInv',
         BufferIsWholeBodyUnlessAllowed, RequestBodyInspectedUnlessEarly, [Next]_vars
  PROVE  RequestBodyInspectedUnlessEarly'
<1> SUFFICES ASSUME cfg'.policy = "fail", "req" \in cfg'.bodyAccess, engine' = "on", ~early',
                    "req" \notin short'
             PROVE  Inspected("req")'
  BY DEF RequestBodyInspectedUnlessEarly
<1>1. /\ cfg.policy = "fail" /\ "req" \in cfg.bodyAccess /\ engine = "on" /\ ~early
      /\ ~Answered' => ~Answered
      /\ "req" \in Dir
  BY NextKeeps DEF Dir
<1>2. CASE delivered'["req"] = delivered["req"]
  BY <1>1, <1>2, ShortForwardsNothing, StaysInspected DEF RequestBodyInspectedUnlessEarly
<1>3. ASSUME NEW d \in Dir, Body(d) \/ Trailers(d), delivered'["req"] # delivered["req"]
      PROVE  Inspected("req")'
  <2>1. d = "req" /\ HostForwards("req")
    BY <1>1, <1>3, BodyFlushes
  <2>2. Watched /\ stage["req"] = "body" /\ ~Answered'
    BY <1>1, <1>3, <2>1 DEF Watched, Body, Trailers, Running, HostForwards, Answered
  <2>3. Reading("req") \/ WasRead("req")
    BY <1>1, <2>2 DEF RequestReadInv
  <2> QED BY <1>1, <1>3, <2>1, <2>2, <2>3, WatchedRequest, ReadForwards
<1> QED BY <1>2, <1>3, HeadersMoveNothing DEF Next

\* Under failure policy "fail", when local replies succeed and the host respects
\* them, no request position reaches the upstream uninspected, however the body
\* is split, however much each read but the last one brings and whatever of its
\* reading or the engine fails, but beyond the body limit or when the response
\* began early.
THEOREM RequestInspected ==
  ASSUME "send" \notin Faults, HostStopsOnReply
  PROVE  Spec => []RequestBodyInspectedUnlessEarly
<1>1. Init => RequestBodyInspectedUnlessEarly
  BY DEF Init, RequestBodyInspectedUnlessEarly, Inspected, Dir
<1>2. ReadInv => RequestReadInv
  BY DEF ReadInv
<1>3. RequestBodyInspectedUnlessEarly /\ TypeOK /\ TypeOK' /\ OnceInv /\ ClosedInv /\ HeadersInv
        /\ AnsweredInv /\ CutInv /\ RequestReadInv /\ DeliveredInv /\ DeliveredInv'
        /\ BufferIsWholeBodyUnlessAllowed /\ [Next]_vars
        => RequestBodyInspectedUnlessEarly'
  BY RequestInspectedStep
<1>4. Spec => []AnsweredInv /\ []ReadInv /\ []BufferIsWholeBodyUnlessAllowed
  BY AnsweredInvariant, ReadInvariant, BufferIsWholeBody
<1> QED
  BY <1>1, <1>2, <1>3, <1>4, TypeCorrect, OnceInvariant, ClosedInvariant, HeadersInvariant,
     CutInvariant, DeliveredInvariant, PTL DEF Spec

LEMMA ResponseInspectedStep ==
  ASSUME "send" \notin Faults, "replace" \notin Faults, HostStopsOnReply, TypeOK, TypeOK', OnceInv,
         ClosedInv, HeadersInv, CutInv, ResponseReadInv, DeliveredInv, DeliveredInv',
         BufferIsWholeBodyUnlessAllowed, ResponseBodyInspectedUnlessInherited, [Next]_vars
  PROVE  ResponseBodyInspectedUnlessInherited'
<1> SUFFICES ASSUME cfg'.policy = "fail", "resp" \in cfg'.bodyAccess, engine' = "on", ~early',
                    ~RequestLimitExceeded', "resp" \notin short'
             PROVE  Inspected("resp")'
  BY DEF ResponseBodyInspectedUnlessInherited
<1>1. /\ cfg.policy = "fail" /\ "resp" \in cfg.bodyAccess /\ engine = "on" /\ ~early
      /\ ~Answered' => ~Answered
      /\ ~isInterrupted(interruptedAt') => ~isInterrupted(interruptedAt)
      /\ "resp" \in Dir /\ "req" \in Dir
  BY NextKeeps DEF Dir
<1>2. full["req"] # "beyond" /\ ~RequestLimitExceeded
  BY <1>1, EachGrows DEF RequestLimitExceeded
<1>3. CASE delivered'["resp"] = delivered["resp"]
  BY <1>1, <1>2, <1>3, ShortForwardsNothing, StaysInspected DEF ResponseBodyInspectedUnlessInherited
<1>4. ASSUME NEW d \in Dir, Body(d) \/ Trailers(d), delivered'["resp"] # delivered["resp"]
      PROVE  Inspected("resp")'
  <2>1. d = "resp" /\ HostForwards("resp") /\ tx # "nil"
    BY <1>1, <1>4, BodyFlushes
  <2>2. Watched /\ stage["resp"] = "body" /\ ~Answered'
    BY <1>1, <1>4, <2>1 DEF Watched, Body, Trailers, Running, HostForwards, Answered
  <2>3. ~isInterrupted(interruptedAt')
    BY <1>4, ForwardsNothingStep DEF Next
  <2>4. Reading("resp") \/ WasRead("resp")
    BY <1>1, <1>2, <2>2, <2>3 DEF ResponseReadInv
  <2>5. ~Inactive /\ interruptedAt' # 4
    BY <2>1, <2>2, <2>3 DEF Watched, Inactive, isInterrupted, interruptionPhaseNone
  <2> QED BY <1>1, <1>4, <2>1, <2>2, <2>3, <2>4, <2>5, ReadForwards
<1> QED BY <1>3, <1>4, HeadersMoveNothing DEF Next

\* The same for the response, when replacing it succeeds too and its request did
\* not exceed its body limit: bodyReadIndex is an index into the response then.
THEOREM ResponseInspected ==
  ASSUME "send" \notin Faults, "replace" \notin Faults, HostStopsOnReply
  PROVE  Spec => []ResponseBodyInspectedUnlessInherited
<1>1. Init => ResponseBodyInspectedUnlessInherited
  BY DEF Init, ResponseBodyInspectedUnlessInherited, Inspected, Dir
<1>2. ReadInv => ResponseReadInv
  BY DEF ReadInv
<1>3. ResponseBodyInspectedUnlessInherited /\ TypeOK /\ TypeOK' /\ OnceInv /\ ClosedInv /\ HeadersInv
        /\ CutInv /\ ResponseReadInv /\ DeliveredInv /\ DeliveredInv'
        /\ BufferIsWholeBodyUnlessAllowed /\ [Next]_vars
        => ResponseBodyInspectedUnlessInherited'
  BY ResponseInspectedStep
<1>4. Spec => []ReadInv /\ []BufferIsWholeBodyUnlessAllowed
  BY ReadInvariant, BufferIsWholeBody
<1> QED
  BY <1>1, <1>2, <1>3, <1>4, TypeCorrect, OnceInvariant, ClosedInvariant, HeadersInvariant,
     CutInvariant, DeliveredInvariant, PTL DEF Spec

-----------------------------------------------------------------------------
(* A response that is replaced keeps its length.                           *)

\* What the client has of the response has the length of what left the buffer.
KeepsLength == Cardinality(delivered["resp"]) + nulls = flushed["resp"]

\* Until a response is interrupted all of it was forwarded as it was; from then
\* on the host holds nothing of it back, so that the size of its buffer is what
\* the next callback replaces.
MaskInv ==
  /\ interruptedAt # 4 => nulls = 0 /\ delivered["resp"] = 1..flushed["resp"]
  /\ cfg.policy = "fail" /\ interruptedAt = 4 /\ ~early /\ full["req"] # "beyond"
       /\ "resp" \notin short =>
       KeepsLength /\ (stage["resp"] = "body" => flushed["resp"] = arrived["resp"])

LEMMA IntervalLength ==
  ASSUME NEW n \in Nat
  PROVE  Cardinality(1..n) = n
BY FS_Interval

\* Forwarding as it was, or replacing exactly what left the buffer.
LEMMA FollowKeepsLength ==
  ASSUME TypeOK, DeliveredInv, KeepsLength, NEW n \in 0..(MaxBody - arrived["resp"]),
         Receive("resp", n), NEW mask \in Int, Follow("resp", "continue", mask),
         HostForwards("resp"),
         \/ mask = NoMask
         \/ arrived'["resp"] = flushed["resp"]
         \/ mask = arrived'["resp"] - flushed["resp"]
  PROVE  KeepsLength' /\ flushed'["resp"] = arrived'["resp"]
<1> DEFINE from == flushed["resp"]
           to == arrived'["resp"]
           old == delivered["resp"]
           new == (from + 1)..to
<1>1. /\ from \in Nat /\ to \in Nat /\ from <= to /\ nulls \in Nat /\ "resp" \in Dir
      /\ flushed \in [Dir -> 0..MaxBody] /\ delivered \in [Dir -> SUBSET (1..MaxBody)]
  BY ReceiveType, Constants DEF TypeOK, BuffersTypeOK, Dir
<1>2. flushed'["resp"] = to
  BY <1>1 DEF Follow
<1>3. IsFiniteSet(old) /\ Cardinality(old) \in Nat
  <2>1. IsFiniteSet(1..from) /\ old \in SUBSET (1..from)
    BY <1>1, FS_Interval DEF DeliveredInv
  <2> HIDE DEF old, from
  <2>2. IsFiniteSet(old)
    BY <2>1, FS_Subset
  <2> QED BY <2>2, FS_CardinalityType
<1>4. CASE mask = NoMask
  <2>1. delivered'["resp"] = old \cup new /\ nulls' = nulls
    BY <1>1, <1>4 DEF Follow
  <2>2. IsFiniteSet(new) /\ Cardinality(new) = to - from
    <3> HIDE DEF to, from
    <3>1. /\ from + 1 \in Int /\ to \in Int
          /\ (IF from + 1 > to THEN 0 ELSE to - (from + 1) + 1) = to - from
      BY <1>1
    <3>2. /\ IsFiniteSet(new)
          /\ Cardinality(new) = IF from + 1 > to THEN 0 ELSE to - (from + 1) + 1
      BY <3>1, FS_Interval
    <3> QED BY <3>1, <3>2
  <2>3. old \cap new = {}
    BY <1>1 DEF DeliveredInv
  <2>4. Cardinality(old \cup new) = Cardinality(old) + Cardinality(new)
    <3> HIDE DEF old, new
    <3>1. Cardinality(old \cup new) = Cardinality(old) + Cardinality(new) - Cardinality(old \cap new)
      BY <1>3, <2>2, FS_Union
    <3>2. Cardinality(old \cap new) = 0
      BY <2>3, FS_EmptySet
    <3> HIDE DEF to, from
    <3> QED BY <1>1, <1>3, <2>2, <3>1, <3>2
  <2> QED BY <1>1, <1>2, <1>3, <2>1, <2>2, <2>4 DEF KeepsLength
<1>5. CASE mask # NoMask
  <2>1. delivered'["resp"] = old /\ nulls' = IF to > from THEN nulls + mask ELSE nulls
    BY <1>1, <1>5 DEF Follow
  <2> QED BY <1>1, <1>2, <1>3, <1>5, <2>1 DEF KeepsLength
<1> QED BY <1>4, <1>5

\* Trailers without a transaction panic: the host gets no answer.
LEMMA TrailersPanic ==
  ASSUME NEW d \in Dir, Trailers(d), tx = "nil"
  PROVE  UNCHANGED <<flushed, delivered, nulls, interruptedAt>>
BY DEF Trailers, OnTrailers, Follow

LEMMA ClearStep ==
  ASSUME "send" \notin Faults, HostStopsOnReply, TypeOK, OnceInv, AnsweredInv, MaskInv, DeliveredInv,
         [Next]_vars, interruptedAt' # 4
  PROVE  nulls' = 0 /\ delivered'["resp"] = 1..flushed'["resp"]
<1>0. CtxTypeOK /\ (Answered => Answered') /\ interruptedAt \in 0..4
  BY AnsweredStays DEF TypeOK, CtxTypeOK, OutcomeTypeOK
<1>1. interruptedAt # 4 /\ nulls = 0 /\ delivered["resp"] = 1..flushed["resp"]
  <2>1. interruptedAt # 4
    BY <1>0, NextSettled DEF Settled, isInterrupted, interruptionPhaseNone
  <2> QED BY <2>1 DEF MaskInv
<1>2. CASE UNCHANGED <<flushed, delivered, nulls>>
  BY <1>1, <1>2
<1>3. ASSUME NEW d \in Dir, Body(d) \/ Trailers(d), ~UNCHANGED <<flushed, delivered, nulls>>
      PROVE  nulls' = 0 /\ delivered'["resp"] = 1..flushed'["resp"]
  <2>1. PICK action \in Actions, endOfStream \in BOOLEAN, n \in 0..(MaxBody - arrived[d]),
             mask \in {NoMask} \cup 0..MaxBody, bodySize \in Int :
          Moves(d, n, bodySize, endOfStream, action, mask)
    BY <1>3, BodyMoves, TrailersPanic
  <2>2. /\ OnBody(d, bodySize, endOfStream, action, mask) /\ Receive(d, n)
        /\ action = "continue" /\ HostForwards(d) /\ Follow(d, "continue", mask)
    BY <1>3, <2>1 DEF Moves, Follow
  <2>3. CASE d = "req"
    <3>1. mask = NoMask
      BY <1>1, <2>2, <2>3, RequestBodyPhase
    <3>2. UNCHANGED nulls /\ flushed'["resp"] = flushed["resp"] /\ delivered'["resp"] = delivered["resp"]
      BY <2>2, <2>3, <3>1 DEF Follow, TypeOK, BuffersTypeOK, Dir
    <3> QED BY <1>1, <3>2
  <2>4. CASE d = "resp"
    <3>1. ~Answered'
      BY <2>2 DEF HostForwards, Answered
    <3>2. ~isInterrupted(interruptedAt)
      BY <1>0, <1>1, <3>1, Interrupted DEF AnsweredInv
    <3>3. mask = NoMask
      BY <1>0, <2>2, <2>4, <3>2, ResponseBodyPhase
    <3>4. /\ nulls' = nulls /\ flushed'["resp"] = arrived'["resp"]
          /\ delivered'["resp"] = delivered["resp"] \cup ((flushed["resp"] + 1)..arrived'["resp"])
      BY <2>2, <2>4, <3>3 DEF Follow, TypeOK, BuffersTypeOK, Dir
    <3>5. flushed["resp"] \in Nat /\ arrived'["resp"] \in Nat /\ flushed["resp"] <= arrived'["resp"]
      BY <2>2, <2>4, ReceiveType, Constants DEF TypeOK, BuffersTypeOK, Dir
    <3> QED BY <1>1, <3>4, <3>5
  <2> QED BY <2>3, <2>4 DEF Dir
<1> QED BY <1>2, <1>3, HeadersMoveNothing DEF Next

\* A callback of a response that is interrupted replaces what it receives.
LEMMA ReplacedKeepsLength ==
  ASSUME TypeOK, DeliveredInv, KeepsLength, NEW n \in 0..(MaxBody - arrived["resp"]),
         NEW mask \in {NoMask} \cup 0..MaxBody, NEW bodySize \in Int, NEW endOfStream, NEW action,
         Moves("resp", n, bodySize, endOfStream, action, mask), action = "continue", ~Answered',
         flushed["resp"] = arrived["resp"] \/ arrived["resp"] = 0, upstream,
         mask \in {bodySize, NoMask}
  PROVE  KeepsLength' /\ flushed'["resp"] = arrived'["resp"]
<1>1. /\ arrived["resp"] \in Nat /\ flushed["resp"] \in Nat /\ flushed["resp"] <= arrived["resp"]
      /\ arrived'["resp"] = arrived["resp"] + n /\ n \in Nat
  BY ReceiveType, Constants DEF Moves, TypeOK, BuffersTypeOK, Dir
<1>2. arrived["resp"] = 0 => flushed["resp"] = 0
  BY <1>1
<1>3. \/ bodySize = arrived'["resp"] - flushed["resp"]
      \/ arrived'["resp"] = flushed["resp"]
  BY <1>1, <1>2 DEF Moves
<1>4. mask \in Int
  BY Constants DEF NoMask
<1>5. HostForwards("resp")
  BY DEF HostForwards, Answered
<1> QED BY <1>3, <1>4, <1>5, FollowKeepsLength DEF Moves

\* A response that is interrupted already.
LEMMA InterruptedLength ==
  ASSUME HostStopsOnReply, TypeOK, HeadersInv, LocalInv, MaskInv, DeliveredInv, [Next]_vars,
         cfg.policy = "fail", interruptedAt = 4, ~early, full["req"] # "beyond", "resp" \notin short
  PROVE  KeepsLength' /\ (stage'["resp"] = "body" => flushed'["resp"] = arrived'["resp"])
<1>1. /\ KeepsLength /\ stage["resp"] # "idle" /\ stage["req"] # "idle"
      /\ stage["resp"] = "body" => flushed["resp"] = arrived["resp"]
      /\ isInterrupted(interruptedAt)
  BY DEF MaskInv, HeadersInv, isInterrupted, interruptionPhaseNone
<1>2. CASE RequestHeaders \/ ResponseHeaders
  BY <1>1, <1>2 DEF RequestHeaders, ResponseHeaders
<1>3. CASE StreamDone \/ UNCHANGED vars
  BY <1>1, <1>3, HeadersMoveNothing DEF StreamDone, vars, hostVars, KeepsLength
<1>4. CASE Body("req") \/ Trailers("req")
  <2>1. UNCHANGED <<flushed, delivered, nulls>>
    BY <1>1, <1>4 DEF Body, Trailers, OnTrailers, OnBody, OnHttpRequestBody, Follow
  <2>2. stage'["resp"] = stage["resp"] /\ arrived'["resp"] = arrived["resp"]
    BY <1>4, AdvanceStage DEF Body, Trailers, Receive, TypeOK, BuffersTypeOK, Dir
  <2> QED BY <1>1, <2>1, <2>2 DEF KeepsLength
<1>5. CASE Body("resp") \/ Trailers("resp")
  <2>1. stage["resp"] = "body" /\ ~Answered /\ upstream /\ tx # "nil" /\ "resp" \in Dir
    BY <1>5 DEF Body, Trailers, LocalInv, HeadersInv, Dir
  <2>2. PICK action \in Actions, endOfStream \in BOOLEAN, n \in 0..(MaxBody - arrived["resp"]),
             mask \in {NoMask} \cup 0..MaxBody, bodySize \in Int :
          Moves("resp", n, bodySize, endOfStream, action, mask)
    BY <1>5, <2>1, BodyMoves
  <2>3. replaceResponseBodyWhenInterrupted(bodySize, action, mask) /\ UNCHANGED ctxVars
    BY <1>1, <2>2 DEF Moves, OnBody, OnHttpResponseBody
  <2>4. action = "continue" /\ ~Answered' /\ mask \in {bodySize, NoMask}
    BY <2>1, <2>3 DEF replaceResponseBodyWhenInterrupted, ctxVars, outcome, Answered
  <2> QED BY <1>1, <2>1, <2>2, <2>4, ReplacedKeepsLength
<1> QED BY <1>2, <1>3, <1>4, <1>5 DEF Next, Dir

\* A response that a callback interrupts: it was being read from its beginning,
\* or this is its first callback.
LEMMA InterruptingLength ==
  ASSUME "send" \notin Faults, HostStopsOnReply, TypeOK, HeadersInv, CutInv, LocalInv,
         ResponseReadInv, MaskInv, DeliveredInv, Next, cfg.policy = "fail", ~early,
         full["req"] # "beyond", "resp" \notin short', interruptedAt' = 4, ~isInterrupted(interruptedAt)
  PROVE  KeepsLength' /\ flushed'["resp"] = arrived'["resp"]
<1>0. CtxTypeOK /\ interruptedAt # 4 /\ flushed["resp"] \in Nat /\ arrived["resp"] \in Nat
  BY Constants DEF TypeOK, CtxTypeOK, BuffersTypeOK, Dir, isInterrupted, interruptionPhaseNone
<1>1. KeepsLength
  <2>1. nulls = 0 /\ delivered["resp"] = 1..flushed["resp"]
    BY <1>0 DEF MaskInv
  <2> QED BY <1>0, <2>1, IntervalLength DEF KeepsLength
<1>2. CASE RequestHeaders \/ ResponseHeaders
  BY <1>0, <1>2, HeadersPhase DEF RequestHeaders, ResponseHeaders
<1>3. CASE StreamDone
  BY <1>0, <1>3 DEF StreamDone, OnHttpStreamDone, ctxVars, outcome
<1>4. CASE Body("req") \/ Trailers("req")
  BY <1>0, <1>4, RequestBodyPhase DEF Body, Trailers, OnTrailers
<1>5. CASE Body("resp") \/ Trailers("resp")
  <2>1. /\ stage["resp"] = "body" /\ ~Answered /\ ~done /\ upstream /\ tx # "nil"
        /\ "resp" \in Dir
    BY <1>5 DEF Body, Trailers, Running, LocalInv, HeadersInv, Dir
  <2>2. PICK action \in Actions, endOfStream \in BOOLEAN, n \in 0..(MaxBody - arrived["resp"]),
             mask \in {NoMask} \cup 0..MaxBody, bodySize \in Int :
          Moves("resp", n, bodySize, endOfStream, action, mask)
    BY <1>5, <2>1, BodyMoves
  <2>3. OnBody("resp", bodySize, endOfStream, action, mask)
    BY <2>2 DEF Moves
  <2>4. action = "continue" /\ ~Answered'
    BY <1>0, <2>1, <2>3, ResponseBodyPhase DEF Answered
  <2>5. /\ ~processed["resp"] /\ ~Inactive
        /\ \/ "resp" \in cfg.bodyAccess
           \/ "resp" \notin cfg.bodyAccess /\ skipBody("resp", bodySize, action, mask)
    BY <1>0, <2>1, <2>3, OnBodyCases DEF ctxVars, outcome
  <2>6. Watched
    BY <2>1, <2>5 DEF Watched, Inactive, TypeOK, CorazaTypeOK
  <2>7. CASE "resp" \in cfg.bodyAccess
    <3>1. Reading("resp") \/ WasRead("resp")
      BY <2>1, <2>6, <2>7 DEF ResponseReadInv
    <3>2. mask \in {arrived'["resp"], NoMask} /\ flushed["resp"] = 0
      BY <1>0, <2>1, <2>2, <2>4, <2>5, <2>7, <3>1, ReadMoves DEF Reading, WasRead
    <3>3. arrived'["resp"] = arrived["resp"] + n
      BY <2>1, <2>2, ReceiveType DEF Moves
    <3>4. mask \in Int /\ arrived'["resp"] - flushed["resp"] = arrived'["resp"]
      BY <1>0, <3>2, <3>3, Constants DEF NoMask
    <3>5. HostForwards("resp")
      BY <2>1, <2>4 DEF HostForwards, Answered
    <3> QED BY <1>1, <2>2, <2>4, <3>2, <3>4, <3>5, FollowKeepsLength DEF Moves
  <2>8. CASE "resp" \notin cfg.bodyAccess
    <3>1. arrived["resp"] = 0
      BY <2>1, <2>5, <2>6, <2>8 DEF ResponseReadInv
    <3>2. mask \in {bodySize, NoMask}
      BY <1>0, <2>5, <2>8
      DEF skipBody, Conclude, handleInternalEngineFailurePolicy, handleInterruption,
          replaceResponseBodyWhenInterrupted, outcome
    <3> QED BY <1>1, <2>1, <2>2, <2>4, <3>1, <3>2, ReplacedKeepsLength
  <2> QED BY <2>7, <2>8
<1> QED BY <1>2, <1>3, <1>4, <1>5 DEF Next, Dir

LEMMA MaskStep ==
  ASSUME "send" \notin Faults, HostStopsOnReply, TypeOK, TypeOK', OnceInv, ClosedInv, HeadersInv,
         AnsweredInv, CutInv, LocalInv, ResponseReadInv, DeliveredInv, MaskInv, [Next]_vars
  PROVE  MaskInv'
<1>1. ASSUME interruptedAt' # 4
      PROVE  nulls' = 0 /\ delivered'["resp"] = 1..flushed'["resp"]
  BY <1>1, ClearStep
<1>2. ASSUME cfg'.policy = "fail", interruptedAt' = 4, ~early', full'["req"] # "beyond",
             "resp" \notin short'
      PROVE  KeepsLength' /\ (stage'["resp"] = "body" => flushed'["resp"] = arrived'["resp"])
  <2>1. cfg.policy = "fail" /\ ~early /\ Settled
    BY <1>2, NextKeeps, NextSettled
  <2>2. full["req"] # "beyond" /\ (isInterrupted(interruptedAt) => "resp" \notin short)
    BY <1>2, EachGrows DEF Dir
  <2>3. CASE isInterrupted(interruptedAt)
    BY <1>2, <2>1, <2>2, <2>3, InterruptedLength DEF Settled
  <2>4. CASE ~isInterrupted(interruptedAt) /\ Next
    BY <1>2, <2>1, <2>2, <2>4, InterruptingLength
  <2>5. CASE ~isInterrupted(interruptedAt) /\ UNCHANGED vars
    BY <1>2, <2>5 DEF vars, ctxVars, outcome, isInterrupted, interruptionPhaseNone
  <2> QED BY <2>3, <2>4, <2>5
<1> QED BY <1>1, <1>2 DEF MaskInv

\* Under failure policy "fail", when local replies succeed and the host respects
\* them, an interrupted response whose last read brought all that was buffered
\* keeps the length of what left the buffer, even when the host cannot replace
\* it: each callback replaces exactly what it releases, from the first chunk of
\* the response to its trailers.
THEOREM LengthKept ==
  ASSUME "send" \notin Faults, HostStopsOnReply
  PROVE  Spec => []MaskKeepsLength
<1>1. Init => MaskInv
  BY DEF Init, MaskInv, Dir, interruptionPhaseNone
<1>2. ReadInv => LocalInv /\ ResponseReadInv
  BY DEF ReadInv
<1>3. MaskInv /\ TypeOK /\ TypeOK' /\ OnceInv /\ ClosedInv /\ HeadersInv /\ AnsweredInv /\ CutInv
        /\ LocalInv /\ ResponseReadInv /\ DeliveredInv /\ [Next]_vars
        => MaskInv'
  BY MaskStep
<1>4. MaskInv => MaskKeepsLength
  BY DEF MaskInv, MaskKeepsLength, KeepsLength, RequestLimitExceeded,
      interruptionPhaseHttpResponseBody
<1>5. Spec => []AnsweredInv /\ []ReadInv
  BY AnsweredInvariant, ReadInvariant
<1> QED
  BY <1>1, <1>2, <1>3, <1>4, <1>5, TypeCorrect, OnceInvariant, ClosedInvariant, HeadersInvariant,
     CutInvariant, DeliveredInvariant, PTL DEF Spec
=============================================================================
