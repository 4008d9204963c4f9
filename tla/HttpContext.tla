----------------------------- MODULE HttpContext -----------------------------
(***************************************************************************)
(* One HTTP stream of the filter (httpContext of wasmplugin/plugin.go).    *)
(* The callbacks On... are operators; the host (Envoy), which invokes them *)
(* and buffers the two bodies, and the Coraza transaction, which answers   *)
(* with any verdict, are the environment.                                  *)
(*                                                                         *)
(* A body is the sequence of positions 1, 2, ...: a position is a piece of *)
(* data that is read, inspected and forwarded as a whole.  The host hands  *)
(* a body callback the size of its buffer, which starts after the          *)
(* positions already flushed.                                              *)
(***************************************************************************)
EXTENDS Integers, Sequences, FiniteSets

CONSTANTS
  MaxBody,           \* bound: the most positions of each body
  Policies,          \* values of failure_policy to start from
  Faults,            \* what may fail, see FaultKinds
  RuleStatuses,      \* status codes of the rules that interrupt, 0: none given
  HostStopsOnReply   \* does the host forward nothing after a local reply?

\* Header reads, body reads, body reads that bring less than was asked for,
\* the engine, local replies and replacements of a body.
FaultKinds == {"headers", "body", "short", "waf", "send", "replace"}

ASSUME MaxBodyAssumption == MaxBody \in Nat
ASSUME PoliciesAssumption == Policies \subseteq {"fail", "allow"}
ASSUME FaultsAssumption == Faults \subseteq FaultKinds
ASSUME RuleStatusesAssumption == RuleStatuses \subseteq Nat
ASSUME HostAssumption == HostStopsOnReply \in BOOLEAN

Dir == {"req", "resp"}
Actions == {"continue", "pause"}
Verdicts == {"pass", "deny", "error"}
NoMask == -1

interruptionPhaseNone == 0
interruptionPhaseHttpRequestHeaders == 1
interruptionPhaseHttpRequestBody == 2
interruptionPhaseHttpResponseHeaders == 3
interruptionPhaseHttpResponseBody == 4
Logging == 5
Phases == 1..5

\* The phase a body callback evaluates and may interrupt in.
BodyPhase(d) == IF d = "req" THEN interruptionPhaseHttpRequestBody
                             ELSE interruptionPhaseHttpResponseBody

VARIABLES
  cfg,            \* the plugin's configuration, as this stream sees it
  tx,             \* "nil", "open" or "closed"; the logger is set with it
  engine,         \* SecRuleEngine of the transaction, "on" or "off"
  phaseCalls,     \* how often each phase was evaluated (3: or more)
  processed,      \* processedRequestBody and processedResponseBody
  bodyReadIndex,  \* shared by the two directions
  interruptedAt,
  inspected,      \* positions written to the transaction
  full,           \* were the transaction's body buffers filled, and written on?
  cut,            \* last position before the body limit
  replies,        \* local replies sent, in order
  crashed,        \* why the VM panicked, or "no"
  stage,          \* progress of the two halves of the stream
  upstream,       \* have the request headers been forwarded?
  arrived,        \* how much of each body the host has received,
  flushed,        \* and how much of that left its buffer
  delivered,      \* positions forwarded as they were
  nulls,          \* null bytes forwarded instead of a response
  done,           \* has the stream been destroyed?
  early,          \* history: a response began before the request ended
  short           \* history: directions whose last read fell short

flags == <<processed, bodyReadIndex>>
outcome == <<interruptedAt, replies, crashed>>
written == <<inspected, full, cut, short>>
corazaVars == <<tx, engine, phaseCalls, written>>
ctxVars == <<flags, outcome, corazaVars>>
buffers == <<arrived, flushed, delivered, nulls>>
hostVars == <<stage, upstream, buffers, done, early>>
vars == <<cfg, ctxVars, hostVars>>

Init ==
  /\ cfg \in [policy : Policies, ready : BOOLEAN, bodyAccess : SUBSET Dir]
  /\ tx = "nil"
  /\ engine \in {"on", "off"}
  /\ phaseCalls = [p \in Phases |-> 0]
  /\ processed = [d \in Dir |-> FALSE]
  /\ bodyReadIndex = 0
  /\ interruptedAt = interruptionPhaseNone
  /\ inspected = [d \in Dir |-> {}]
  /\ full = [d \in Dir |-> "no"]
  /\ cut = [d \in Dir |-> MaxBody]
  /\ replies = << >>
  /\ crashed = "no"
  /\ stage = [d \in Dir |-> "idle"]
  /\ upstream = FALSE
  /\ arrived = [d \in Dir |-> 0]
  /\ flushed = [d \in Dir |-> 0]
  /\ delivered = [d \in Dir |-> {}]
  /\ nulls = 0
  /\ done = FALSE
  /\ early = FALSE
  /\ short = {}

-----------------------------------------------------------------------------
(* The transaction.                                                        *)

\* The operators named Bug... are wrong variants of the definition that
\* follows them; nothing uses them but the mutants of the runs.
BugIsInterrupted(phase) == phase > interruptionPhaseHttpRequestHeaders
isInterrupted(phase) == phase # interruptionPhaseNone

\* No transaction, or its rule engine is off: the callbacks let everything pass.
Inactive == tx = "nil" \/ engine = "off"

BugUnread(bodySize) == bodySize
\* How much of a buffer of bodySize has not been read yet.
Unread(bodySize) ==
  IF bodySize > bodyReadIndex THEN bodySize - bodyReadIndex ELSE 0

Counted(calls, S) ==
  [p \in Phases |-> IF p \in S /\ calls[p] < 3 THEN calls[p] + 1 ELSE calls[p]]

\* A callback has the phases inner evaluated inside a write and then the phases
\* S, the last of them with verdict v.  A rule may turn the engine off; then
\* nothing interrupts.
EvaluateAfter(inner, S, v) ==
  /\ v = "error" => "waf" \in Faults
  /\ phaseCalls' = Counted(Counted(phaseCalls, inner), S)
  /\ engine' \in IF v = "pass" /\ inner \cup S # {} THEN {engine, "off"} ELSE {engine}

Evaluate(S, v) == EvaluateAfter({}, S, v)

\* The first n positions from bodyReadIndex on are written to the transaction.
Write(d, n) ==
  LET from == flushed[d] + bodyReadIndex
  IN  inspected' = [inspected EXCEPT ![d] = @ \cup ((from + 1) .. (from + n))]

\* The transaction is given m positions, takes n, evaluates the phases inner
\* and answers v.  It evaluates its phase when they fill its buffer, be it
\* exactly; once the buffer is full it takes no more and evaluates nothing.
WriteBody(d, m, n, inner, v) ==
  /\ \/ /\ full[d] = "no" /\ n = m /\ inner = {} /\ v = "pass"
        /\ UNCHANGED <<full, cut>>
     \/ /\ full[d] = "no" /\ inner = {BodyPhase(d)}
        /\ full' = [full EXCEPT ![d] = IF n = m THEN "exactly" ELSE "beyond"]
        /\ cut' = [cut EXCEPT ![d] = flushed[d] + bodyReadIndex + n]
     \/ /\ full[d] = "no" /\ n = 0 /\ inner = {} /\ v # "pass"   \* refused, or failed
        /\ UNCHANGED <<full, cut>>
     \/ /\ full[d] # "no" /\ n = 0 /\ inner = {} /\ v = "pass"
        /\ full' = [full EXCEPT ![d] = "beyond"]
        /\ UNCHANGED cut
  /\ Write(d, n)

-----------------------------------------------------------------------------
(* Ways to end a callback.                                                 *)

defaultInterruptionStatusCode == 403
StatusForbidden == 403

BugAfterReply == "continue"
\* What a callback answers once it has sent a reply.
AfterReply == "pause"

BugAwaitEndOfStream == "continue"
\* What a body callback answers while the rest of the body is to come.
AwaitEndOfStream == "pause"

Reply(cause, status) ==
  replies' = Append(replies, [cause |-> cause, status |-> status])

BugBlocksOnFailure == cfg.policy = ""
BlocksOnFailure == cfg.policy # "allow"

handleInternalEngineFailurePolicy(action) ==
  /\ UNCHANGED <<interruptedAt, crashed>>
  /\ IF BlocksOnFailure
     THEN /\ action = AfterReply
          /\ \/ Reply("failure", StatusForbidden)
             \/ "send" \in Faults /\ UNCHANGED replies
     ELSE /\ action = "continue"
          /\ UNCHANGED replies

\* The host puts size null bytes in place of what it has buffered.
replaceResponseBodyWhenInterrupted(size, action, mask) ==
  /\ action = "continue"
  /\ mask = size \/ ("replace" \in Faults /\ mask = NoMask)

handleInterruption(phase, size, action, mask) ==
  IF isInterrupted(interruptedAt)
  THEN /\ crashed' = "double_interruption"
       /\ action = "pause" /\ mask = NoMask
       /\ UNCHANGED <<interruptedAt, replies>>
  ELSE /\ interruptedAt' = phase
       /\ IF phase = interruptionPhaseHttpResponseBody
          THEN /\ replaceResponseBodyWhenInterrupted(size, action, mask)
               /\ UNCHANGED <<replies, crashed>>
          ELSE /\ action = AfterReply /\ mask = NoMask
               /\ \/ /\ \E s \in RuleStatuses :
                          Reply("interruption", IF s = 0 THEN defaultInterruptionStatusCode ELSE s)
                     /\ UNCHANGED crashed
                  \/ /\ "send" \in Faults
                     /\ crashed' = "send_failed"
                     /\ UNCHANGED replies

\* What every callback does with the verdict of an evaluation.
Conclude(v, phase, size, action, mask) ==
  \/ /\ v = "pass" /\ action = "continue" /\ mask = NoMask
     /\ UNCHANGED outcome
  \/ /\ v = "error" /\ mask = NoMask
     /\ handleInternalEngineFailurePolicy(action)
  \/ /\ v = "deny"
     /\ handleInterruption(phase, size, action, mask)

-----------------------------------------------------------------------------
(* The callbacks.  Each is a relation between the state before, the        *)
(* context after, the action answered and the size of the mask, if any.    *)

OnHttpRequestHeaders(action) ==
  /\ UNCHANGED <<flags, written>>
  /\ \/ /\ ~cfg.ready \/ "headers" \in Faults    \* no authority, or no WAF for it
        /\ handleInternalEngineFailurePolicy(action)
        /\ UNCHANGED <<tx, engine, phaseCalls>>
     \/ /\ cfg.ready
        /\ tx' = "open"
        /\ \/ /\ engine = "off"
              /\ action = "continue"
              /\ UNCHANGED <<engine, phaseCalls, outcome>>
           \/ /\ engine = "on" /\ "headers" \in Faults   \* no method, path or headers
              /\ handleInternalEngineFailurePolicy(action)
              /\ UNCHANGED <<engine, phaseCalls>>
           \/ /\ engine = "on"
              /\ \E v \in {"pass", "deny"} :
                   /\ Evaluate({1}, v)
                   /\ Conclude(v, interruptionPhaseHttpRequestHeaders, 0, action, NoMask)

\* No body access, or a content type that is not inspected: the phase is
\* evaluated on the first callback.  The request counts as processed even when
\* that fails; the response stores the size to replace.
skipBody(d, bodySize, action, mask) ==
  \E v \in Verdicts :
    /\ Evaluate({BodyPhase(d)}, v)
    /\ processed' = [processed EXCEPT ![d] = d = "req" \/ v # "error"]
    /\ bodyReadIndex' = IF d = "resp" /\ v = "deny" THEN bodySize ELSE bodyReadIndex
    /\ Conclude(v, BodyPhase(d), bodySize, action, mask)
    /\ UNCHANGED written

BugCleanedIndex(d, readIndex) == readIndex
\* bodyReadIndex after the last chunk: the request's is cleaned for further usage.
CleanedIndex(d, readIndex) == IF d = "req" THEN 0 ELSE readIndex

BugInterruptedSize(readIndex) == bodyReadIndex
\* What is replaced when a write interrupts: the chunk just read included.
InterruptedSize(readIndex) == readIndex

BugReadIndex(chunkSize, m) == bodyReadIndex + chunkSize
\* Where the next read begins: after the m positions this one brought, which
\* may be fewer than the chunkSize it asked for.
ReadIndex(chunkSize, m) == bodyReadIndex + m

\* What the buffer holds unread, if anything, is read and written.
ReadAndWrite(d, chunkSize, m, n, inner, v) ==
  IF chunkSize = 0
  THEN /\ m = 0 /\ n = 0 /\ inner = {} /\ v = "pass"
       /\ UNCHANGED written
  ELSE /\ m > 0 /\ (m < chunkSize => "short" \in Faults)
       /\ WriteBody(d, m, n, inner, v)
       /\ short' = IF m < chunkSize THEN short \cup {d} ELSE short \ {d}

ReadFails(chunkSize, action, mask) ==
  /\ chunkSize > 0 /\ "body" \in Faults
  /\ handleInternalEngineFailurePolicy(action) /\ mask = NoMask
  /\ UNCHANGED <<flags, engine, phaseCalls, written>>

\* When the write fails nothing has advanced; when it interrupts or goes beyond
\* the limit (not whole), only the response has advanced bodyReadIndex.
AfterWrite(d, readIndex, endOfStream, whole, inner, v, action, mask) ==
  LET advanced == IF d = "req" THEN bodyReadIndex ELSE readIndex
  IN \/ /\ v = "error"
        /\ EvaluateAfter(inner, {}, v)
        /\ handleInternalEngineFailurePolicy(action) /\ mask = NoMask
        /\ UNCHANGED flags
     \/ /\ v = "deny"
        /\ EvaluateAfter(inner, {}, v)
        /\ bodyReadIndex' = advanced
        /\ handleInterruption(BodyPhase(d), InterruptedSize(readIndex), action, mask)
        /\ UNCHANGED processed
     \/ /\ v = "pass" /\ ~whole
        /\ EvaluateAfter(inner, {}, v)
        /\ bodyReadIndex' = advanced
        /\ processed' = [processed EXCEPT ![d] = TRUE]
        /\ action = "continue" /\ mask = NoMask
        /\ UNCHANGED outcome
     \/ /\ v = "pass" /\ whole /\ ~endOfStream
        /\ EvaluateAfter(inner, {}, v)
        /\ bodyReadIndex' = readIndex
        /\ action = AwaitEndOfStream /\ mask = NoMask
        /\ UNCHANGED <<outcome, processed>>
     \/ /\ v = "pass" /\ whole /\ endOfStream
        /\ processed' = [processed EXCEPT ![d] = TRUE]
        /\ bodyReadIndex' = CleanedIndex(d, readIndex)
        /\ \E w \in Verdicts :
             /\ EvaluateAfter(inner, {BodyPhase(d)}, w)
             /\ Conclude(w, BodyPhase(d), readIndex, action, mask)

\* A read that falls short is taken for the whole chunk.
inspectBody(d, bodySize, endOfStream, action, mask) ==
  LET chunkSize == Unread(bodySize)
  IN  \/ ReadFails(chunkSize, action, mask)
      \/ \E m \in 0..chunkSize : \E n \in 0..m, inner \in SUBSET {BodyPhase(d)}, v \in Verdicts :
           /\ ReadAndWrite(d, chunkSize, m, n, inner, v)
           /\ AfterWrite(d, ReadIndex(chunkSize, m), endOfStream, n = m, inner, v, action, mask)

\* A body callback of a stream that is not interrupted.
processBody(d, bodySize, endOfStream, action, mask) ==
  IF processed[d] \/ Inactive
  THEN /\ action = "continue" /\ mask = NoMask
       /\ UNCHANGED ctxVars
  ELSE /\ IF d \in cfg.bodyAccess THEN inspectBody(d, bodySize, endOfStream, action, mask)
                                  ELSE skipBody(d, bodySize, action, mask)
       /\ UNCHANGED tx

OnHttpRequestBody(bodySize, endOfStream, action, mask) ==
  IF isInterrupted(interruptedAt)
  THEN /\ action = "pause" /\ mask = NoMask
       /\ UNCHANGED ctxVars
  ELSE processBody("req", bodySize, endOfStream, action, mask)

OnHttpResponseBody(bodySize, endOfStream, action, mask) ==
  IF isInterrupted(interruptedAt)
  THEN /\ replaceResponseBodyWhenInterrupted(bodySize, action, mask)
       /\ UNCHANGED ctxVars
  ELSE processBody("resp", bodySize, endOfStream, action, mask)

OnBody(d, bodySize, endOfStream, action, mask) ==
  IF d = "req" THEN OnHttpRequestBody(bodySize, endOfStream, action, mask)
               ELSE OnHttpResponseBody(bodySize, endOfStream, action, mask)

BugTrailersEndStream == FALSE
\* Trailers stand for the end of the stream.
TrailersEndStream == TRUE

\* The logger is read before anything else.
OnTrailers(d, action, mask) ==
  IF tx = "nil"
  THEN /\ crashed' = "nil_logger"
       /\ action = "pause" /\ mask = NoMask
       /\ UNCHANGED <<flags, interruptedAt, replies, corazaVars>>
  ELSE OnBody(d, bodyReadIndex, TrailersEndStream, action, mask)

BugSkipsResponseHeaders == Inactive
SkipsResponseHeaders == isInterrupted(interruptedAt) \/ Inactive

BugPendingPhases == {}
\* The request body phase, when no callback has evaluated it yet.
PendingPhases == IF processed["req"] THEN {} ELSE {interruptionPhaseHttpRequestBody}

OnHttpResponseHeaders(action) ==
  \/ /\ SkipsResponseHeaders
     /\ action = "continue"
     /\ UNCHANGED ctxVars
  \/ /\ ~SkipsResponseHeaders
     /\ processed' = [processed EXCEPT !["req"] = TRUE]
     /\ \/ /\ PendingPhases # {}                      \* the request body phase fails
           /\ \E v \in {"deny", "error"} :
                /\ Evaluate(PendingPhases, v)
                /\ Conclude(v, interruptionPhaseHttpResponseHeaders, 0, action, NoMask)
        \/ /\ "headers" \in Faults                    \* no status or headers
           /\ Evaluate(PendingPhases, "pass")
           /\ handleInternalEngineFailurePolicy(action)
        \/ \E v \in {"pass", "deny"} :
             /\ Evaluate(PendingPhases \cup {3}, v)
             /\ Conclude(v, interruptionPhaseHttpResponseHeaders, 0, action, NoMask)
     /\ UNCHANGED <<tx, bodyReadIndex, written>>

BugResponseBodyPending == engine = "on" /\ ~isInterrupted(interruptedAt) /\ processed["resp"]
ResponseBodyPending == engine = "on" /\ ~isInterrupted(interruptedAt) /\ ~processed["resp"]

\* A verdict of the response body phase is ignored here.
OnHttpStreamDone ==
  IF tx = "nil"
  THEN UNCHANGED ctxVars
  ELSE /\ tx' = "closed"
       /\ IF ResponseBodyPending
          THEN /\ processed' = [processed EXCEPT !["resp"] = TRUE]
               /\ Evaluate({interruptionPhaseHttpResponseBody, Logging}, "pass")
          ELSE /\ UNCHANGED <<processed, engine>>
               /\ phaseCalls' = [phaseCalls EXCEPT ![Logging] = 1]
       /\ UNCHANGED <<outcome, bodyReadIndex, written>>

-----------------------------------------------------------------------------
(* The host: it buffers a body while the callbacks answer "pause" and      *)
(* forwards what it has buffered when one answers "continue".              *)

Running == crashed = "no" /\ ~done
Answered == replies # << >>

Receive(d, n) == arrived' = [arrived EXCEPT ![d] = @ + n]

\* Is direction d open, whatever the callback answers?
HostForwards(d) ==
  /\ d = "req" => upstream
  /\ HostStopsOnReply => replies' = << >>

Follow(d, action, mask) ==
  IF action = "continue" /\ HostForwards(d)
  THEN /\ flushed' = [flushed EXCEPT ![d] = arrived'[d]]
       /\ IF mask = NoMask
          THEN /\ delivered' = [delivered EXCEPT ![d] = @ \cup ((flushed[d] + 1)..arrived'[d])]
               /\ UNCHANGED nulls
          ELSE /\ nulls' = IF arrived'[d] > flushed[d] THEN nulls + mask ELSE nulls
               /\ UNCHANGED delivered
  ELSE UNCHANGED <<flushed, delivered, nulls>>

Advance(d, endOfStream) ==
  stage' = [stage EXCEPT ![d] =
    IF endOfStream \/ (d = "resp" /\ HostStopsOnReply /\ replies' # << >>)
    THEN "ended" ELSE "body"]

RequestHeaders ==
  /\ Running /\ stage["req"] = "idle"
  /\ \E action \in Actions, endOfStream \in BOOLEAN :
       /\ OnHttpRequestHeaders(action)
       /\ upstream' = (action = "continue")
       /\ Advance("req", endOfStream)
  /\ UNCHANGED <<cfg, buffers, done, early>>

\* The response of the upstream, which may begin before the request has ended,
\* or a local reply, which has no body.
ResponseHeaders ==
  /\ Running /\ stage["req"] # "idle" /\ stage["resp"] = "idle"
  /\ upstream \/ Answered
  /\ \E action \in Actions, endOfStream \in BOOLEAN :
       /\ Answered => endOfStream
       /\ OnHttpResponseHeaders(action)
       /\ Advance("resp", endOfStream)
  /\ early' = (~Answered /\ stage["req"] = "body")
  /\ UNCHANGED <<cfg, upstream, buffers, done>>

\* A callback may bring nothing new, unless the stream was answered.
Body(d) ==
  /\ Running /\ stage[d] = "body"
  /\ \E action \in Actions, endOfStream \in BOOLEAN,
        n \in 0..(MaxBody - arrived[d]), mask \in {NoMask} \cup 0..MaxBody :
       /\ n > 0 \/ endOfStream \/ ~Answered
       /\ OnBody(d, arrived[d] + n - flushed[d], endOfStream, action, mask)
       /\ Receive(d, n)
       /\ Follow(d, action, mask)
       /\ Advance(d, endOfStream)
  /\ UNCHANGED <<cfg, upstream, done, early>>

Trailers(d) ==
  /\ Running /\ stage[d] = "body"
  /\ HostStopsOnReply => ~Answered
  /\ \E action \in Actions, mask \in {NoMask} \cup 0..MaxBody :
       /\ OnTrailers(d, action, mask)
       /\ Receive(d, 0)
       /\ Follow(d, action, mask)
  /\ Advance(d, TRUE)
  /\ UNCHANGED <<cfg, upstream, done, early>>

StreamDone ==
  /\ Running /\ stage["req"] # "idle"
  /\ OnHttpStreamDone
  /\ done' = TRUE
  /\ UNCHANGED <<cfg, stage, upstream, buffers, early>>

Next ==
  \/ RequestHeaders \/ ResponseHeaders
  \/ \E d \in Dir : Body(d) \/ Trailers(d)
  \/ StreamDone

Spec == Init /\ [][Next]_vars

-----------------------------------------------------------------------------
(* Properties.                                                             *)

Replies == Seq([cause : {"failure", "interruption"}, status : Nat])
Crashes == {"no", "nil_logger", "send_failed", "double_interruption"}

OutcomeTypeOK ==
  /\ interruptedAt \in 0..4
  /\ replies \in Replies
  /\ crashed \in Crashes

CorazaTypeOK ==
  /\ tx \in {"nil", "open", "closed"}
  /\ engine \in {"on", "off"}
  /\ phaseCalls \in [Phases -> 0..3]
  /\ inspected \in [Dir -> SUBSET (1..MaxBody)]
  /\ full \in [Dir -> {"no", "exactly", "beyond"}]
  /\ cut \in [Dir -> 0..MaxBody]
  /\ short \in SUBSET Dir

FlagsTypeOK ==
  /\ processed \in [Dir -> BOOLEAN]
  /\ bodyReadIndex \in 0..MaxBody

BuffersTypeOK ==
  /\ arrived \in [Dir -> 0..MaxBody]
  /\ flushed \in [Dir -> 0..MaxBody]
  /\ \A d \in Dir : flushed[d] <= arrived[d]
  /\ delivered \in [Dir -> SUBSET (1..MaxBody)]
  /\ nulls \in Nat

\* The variables hold values the code and the host can give them: bodyReadIndex
\* stays within the body and the host forwards no more than it received.
TypeOK ==
  /\ OutcomeTypeOK /\ CorazaTypeOK /\ FlagsTypeOK /\ BuffersTypeOK
  /\ cfg \in [policy : Policies, ready : BOOLEAN, bodyAccess : SUBSET Dir]
  /\ stage \in [Dir -> {"idle", "body", "ended"}]
  /\ upstream \in BOOLEAN
  /\ done \in BOOLEAN
  /\ early \in BOOLEAN

\* Once a stream is interrupted, nothing more of either body is forwarded as
\* it is: request bytes stay with the host and response bytes are replaced,
\* whatever callbacks the host still makes ("SendHttpResponse must be followed
\* by ActionPause in order to stop malicious content", "Interruption happened,
\* we don't want to send response body data").
InterruptedStreamForwardsNothing ==
  [][isInterrupted(interruptedAt') => UNCHANGED delivered]_vars

\* handleInterruption "should never be called more than once": its panic is
\* out of reach of every sequence of callbacks.
NeverInterruptedTwice == crashed # "double_interruption"

\* A stream gets a second local reply only after failure blocks: these do not
\* set interruptedAt, so the reply itself is evaluated as a response and may be
\* blocked in turn.  The reply of an interruption is the last one.
InterruptionReplyIsFinal ==
  \A i \in 1..(Len(replies) - 1) : replies[i].cause = "failure"

\* With failure policy "fail" and the engine on, the bytes of a body leave only
\* after the phase that judges it: a failure before it blocks, and a callback
\* that comes too soon for it waits.  Streams without a transaction, and headers
\* that cannot be read, are excepted: the code blocks them, but three tests
\* (TestBadRequest, TestBadResponse, TestPerAuthorityDirectives) expect them to
\* pass.
PhasesPrecedeForwarding ==
  cfg.policy = "fail" /\ engine = "on" /\ tx # "nil" =>
    \A d \in Dir : delivered[d] # {} => phaseCalls[BodyPhase(d)] > 0

Inspected(d) == delivered[d] \subseteq inspected[d] \cup ((cut[d] + 1)..MaxBody)

\* With policy "fail" and body access, every request position that reached
\* the upstream had been written to the transaction first, or lies beyond the
\* body limit: bodyReadIndex never skips one, however the body is split and
\* however much each read brings.  It needs a request that ends before the
\* response begins, and a last read that brings all that was left: a read that
\* falls short is made up for by the next callback only.
RequestBodyInspectedUnlessEarly ==
  cfg.policy = "fail" /\ "req" \in cfg.bodyAccess /\ engine = "on" /\ ~early /\ "req" \notin short
    => Inspected("req")

RequestLimitExceeded == full["req"] = "beyond"

\* The same for the response, when the request ended first and did not exceed
\* its body limit: then bodyReadIndex was cleaned for the response.
ResponseBodyInspectedUnlessInherited ==
  cfg.policy = "fail" /\ "resp" \in cfg.bodyAccess /\ engine = "on"
    /\ ~early /\ ~RequestLimitExceeded /\ "resp" \notin short
      => Inspected("resp")

\* An interrupted response keeps its length, when its last read brought all
\* that was buffered: whatever part of it the host has forwarded is what was
\* clear before plus as many null bytes as it replaces.
MaskKeepsLength ==
  cfg.policy = "fail" /\ interruptedAt = interruptionPhaseHttpResponseBody
    /\ ~early /\ ~RequestLimitExceeded /\ "resp" \notin short
      => Cardinality(delivered["resp"]) + nulls = flushed["resp"]

\* "bodySize is the size of the whole body received so far": while a body is
\* being inspected the host has flushed nothing of it, so that bodyReadIndex
\* is an index into the whole body.  It is not so under policy "allow", where a
\* failure in the middle of a body lets the host flush what it has.
BufferIsWholeBodyUnlessAllowed ==
  cfg.policy = "fail" /\ engine = "on" /\ ~isInterrupted(interruptedAt) =>
    /\ "req" \in cfg.bodyAccess /\ ~processed["req"] => flushed["req"] = 0
    /\ "resp" \in cfg.bodyAccess /\ ~processed["resp"] => flushed["resp"] = 0

\* A body that has ended is not left in the host's buffer: it was forwarded or
\* the stream was answered.  Trailers and empty last chunks included.  (An
\* interrupted response body also holds back the rest of an early request.)
EndedBodyIsReleasedOrAnswered ==
  crashed = "no" =>
    /\ stage["req"] = "ended" /\ flushed["req"] < arrived["req"] =>
         Answered \/ interruptedAt = interruptionPhaseHttpResponseBody
    /\ stage["resp"] = "ended" /\ flushed["resp"] < arrived["resp"] => Answered

\* While the stream lives, a phase is evaluated only after the ones before it,
\* though requests and responses without a body skip the body callbacks.
PhasesInOrder ==
  ~done => \A p \in 2..4 : phaseCalls[p] > 0 => phaseCalls[p - 1] > 0

\* The body phases are evaluated at most once: by the end of the body, by its
\* limit, by the response headers or by the end of the stream.  Only a body that
\* fills its limit exactly has its phase evaluated inside the write and again
\* after it.
BodyPhasesEvaluatedOnce ==
  \A d \in Dir : phaseCalls[BodyPhase(d)] <= IF full[d] = "exactly" THEN 2 ELSE 1

\* When the stream ends, its transaction is closed after exactly one logging
\* phase, and unless the stream was interrupted or the engine turned off the
\* response body phase was evaluated, whenever the stream was cut off.
ClosedTransactionIsComplete ==
  done => /\ tx # "open"
          /\ tx = "closed" => phaseCalls[Logging] = 1
          /\ tx = "closed" /\ engine = "on" /\ ~isInterrupted(interruptedAt)
               => phaseCalls[4] > 0

\* Only a stream that an unresolved WAF was allowed to pass has no logger in
\* the trailers callbacks.
NilLoggerOnlyWhenAllowed == crashed = "nil_logger" => cfg.policy = "allow" /\ upstream

-----------------------------------------------------------------------------
(* What comments and tests say, and the code does not do.                  *)

\* "FailurePolicyAllow allows traffic through when the WAF is not ready or
\* encounters errors": no callback panics for want of a logger.
AllowedStreamSurvives == crashed # "nil_logger"

\* The request body is not sent "upstream prior to being inspected".
RequestBodyInspected ==
  cfg.policy = "fail" /\ "req" \in cfg.bodyAccess /\ engine = "on" => Inspected("req")

\* The response body "has to be buffered in order to check that it is fully
\* legit before sending it downstream".  Only the request body limit is at work.
ResponseBodyInspected ==
  cfg.policy = "fail" /\ "resp" \in cfg.bodyAccess /\ engine = "on" /\ ~early => Inspected("resp")
=============================================================================
