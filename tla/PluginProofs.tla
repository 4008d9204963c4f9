----------------------------- MODULE PluginProofs -----------------------------
(***************************************************************************)
(* Proofs about Plugin, for every value of its constants.                  *)
(***************************************************************************)
EXTENDS Plugin, RuleSetCacheProofs

ContextType == [perAuthorityWAFs : 0..MaxVersion,
                stage : {"created", "served", "failed"},
                tx : 0..MaxVersion]

\* The copies of the table are no newer than the table, and ordered like the
\* streams; the WAF of a stream is that of its copy.
ContextsOrdered ==
  /\ \A s \in DOMAIN contexts :
       /\ contexts[s].perAuthorityWAFs <= defaultWAF
       /\ contexts[s].stage # "created" => contexts[s].tx = contexts[s].perAuthorityWAFs
  /\ \A s, t \in DOMAIN contexts :
       s < t => contexts[s].perAuthorityWAFs <= contexts[t].perAuthorityWAFs

\* A call that the server has answered with its latest version, or may still.
Useful(c) == ~c.answered \/ c.version = served

\* When the latest rules are due, there is time left either for the rest of a
\* period or for the calls that bring them.
OnTheWay ==
  Behind => \/ lag + tickIn <= Period
            \/ \E c \in calls : Useful(c) /\ lag + c.left + Reserve(c) <= Period + 2 * cacheTimeout

LagInv ==
  /\ lag \in Nat
  /\ tickIn <= Period
  /\ ~Behind => lag = 0
  /\ OnTheWay

PInv == IInv /\ LagInv /\ contexts \in Seq(ContextType) /\ ContextsOrdered

\* Each step is one of the cache client or leaves its variables alone.
LEMMA CacheStepOrNot == PluginNext \/ UNCHANGED pluginSpecVars => [Next]_vars
BY DEF PluginNext, CacheStep, NewHttpContext, OnHttpRequestHeaders, pluginSpecVars, Next

\* With its streams, the plugin is still the client of the rule set cache: what
\* is proved of RuleSetCache holds of it.
THEOREM RefinesCache == PluginSafety => Safety
<1>1. PluginInit => Init
  BY DEF PluginInit
<1>2. [PluginNext]_pluginSpecVars => [Next]_vars
  BY CacheStepOrNot
<1> QED BY <1>1, <1>2, PTL DEF PluginSafety, Safety

LEMMA PluginInitInvariant == PluginInit => PInv
<1> SUFFICES ASSUME PluginInit PROVE PInv
  OBVIOUS
<1>1. IInv /\ ruleSetReloadIntervalSeconds \in ReloadIntervals
  BY InitInvariant DEF PluginInit, Init
<1>2. Period \in Nat /\ tickIn = Period /\ lag = 0 /\ contexts = <<>>
  BY <1>1, PeriodBound DEF PluginInit, Init
<1>3. LagInv
  BY <1>2 DEF LagInv, OnTheWay
<1>4. contexts \in Seq(ContextType) /\ ContextsOrdered
  BY <1>2 DEF ContextsOrdered
<1> QED BY <1>1, <1>3, <1>4 DEF PInv

\* A clock that starts over leaves the whole period.
LEMMA ResetClock ==
  ASSUME lag' = 0, tickIn' \in Nat, tickIn' <= Period, UNCHANGED ruleSetReloadIntervalSeconds
  PROVE  LagInv'
<1>1. Period' = Period
  BY DEF Period
<1> QED BY <1>1 DEF LagInv, OnTheWay

LEMMA StepLag ==
  ASSUME IInv, LagInv, Step, IInv', UNCHANGED contexts,
         lag' = IF Behind' /\ UNCHANGED <<served, faults>> THEN lag ELSE 0
  PROVE  LagInv'
<1> USE Constants DEF ConstantAssumptions
<1> DEFINE CallType == [kind : {"latest", "fetch"}, left : 0..cacheTimeout,
                        answered : BOOLEAN, version : 0..MaxVersion]
<1>1. /\ TypeOK /\ OneCallAtATime /\ UUIDIsOfActiveWAF /\ TypeOK'
      /\ lag \in Nat /\ tickIn \in Nat /\ tickIn' \in Nat /\ tickIn <= Period
      /\ calls \subseteq CallType /\ served \in Nat
      /\ currentRuleSetUUID = defaultWAF /\ defaultWAF \in Nat /\ defaultWAF' \in Nat
      /\ Period \in Nat
  BY PeriodBound DEF IInv, TypeOK, LagInv, UUIDIsOfActiveWAF
<1>2. UNCHANGED ruleSetReloadIntervalSeconds /\ Period' = Period
  BY DEF Step, OnTick, Callback, Answer, AnswerBadly, Publish, Period
<1>3. tickIn' <= Period
  BY <1>1 DEF Step, OnTick, Callback, Answer, AnswerBadly, Publish
<1>4. CASE ~(Behind' /\ UNCHANGED <<served, faults>>)
  BY <1>1, <1>2, <1>3, <1>4, ResetClock
<1>5. CASE Behind' /\ UNCHANGED <<served, faults>>
  <2>1. lag' = lag
    BY <1>5
  <2>2. Behind
    <3>1. defaultWAF <= defaultWAF'
      BY <1>1, LoadedRules DEF Next
    <3> QED BY <1>1, <1>2, <1>5, <3>1 DEF Behind, ruleSetReloadEnabled
  <2>3. OnTheWay'
    <3>1. CASE OnTick
      <4>1. calls = {} /\ tickIn = 0 /\ lag <= Period
        BY <1>1, <2>2, <3>1, NoCallAtTick DEF OnTick, LagInv, OnTheWay
      <4>2. calls' = {Call("latest")} \/ faults' = faults + 1
        BY <3>1, <4>1 DEF OnTick, Dispatch, Fault
      <4>3. calls' = {Call("latest")}
        BY <1>1, <1>5, <4>2 DEF TypeOK
      <4>4. Call("latest").left = cacheTimeout /\ ~Call("latest").answered /\ Call("latest").kind = "latest"
        BY DEF Call
      <4>5. lag + Call("latest").left + Reserve(Call("latest")) <= Period + 2 * cacheTimeout
        BY <1>1, <4>1, <4>4 DEF Reserve
      <4> QED BY <1>2, <2>1, <4>3, <4>4, <4>5 DEF OnTheWay, Useful, Reserve
    <3>2. ASSUME NEW c \in calls, Callback(c)
          PROVE  OnTheWay'
      <4>1. calls = {c} /\ c.answered /\ UNCHANGED <<served, tickIn>> /\ c \in CallType
        BY <1>1, <3>2 DEF Callback, OneCallAtATime
      <4>2. CASE lag + tickIn <= Period
        BY <1>2, <2>1, <4>1, <4>2 DEF OnTheWay
      <4>3. CASE ~(lag + tickIn <= Period)
        <5>1. c.version = served /\ lag + c.left + Reserve(c) <= Period + 2 * cacheTimeout
          BY <2>2, <4>1, <4>3 DEF LagInv, OnTheWay, Useful
        <5>2. c.version # NoVersion /\ c.version \notin Broken /\ c.version # currentRuleSetUUID
          BY <1>1, <2>2, <5>1 DEF Behind, NoVersion
        <5>3. ~onRuleSetCacheServerResponse(c)
          BY <1>1, <1>5, <4>1, <5>1, <5>2 DEF onRuleSetCacheServerResponse, Behind
        <5>4. onLatestRuleSetResponse(c)
          BY <3>2, <5>3 DEF Callback
        <5>5. calls' = {Call("fetch")} \/ faults' = faults + 1
          BY <4>1, <5>2, <5>4 DEF onLatestRuleSetResponse, Newer, Dispatch, Fault
        <5>6. calls' = {Call("fetch")}
          BY <1>1, <1>5, <5>5 DEF TypeOK
        <5>7. /\ Call("fetch").left = cacheTimeout /\ ~Call("fetch").answered
              /\ Call("fetch").kind = "fetch"
          BY DEF Call
        <5>8. lag + Call("fetch").left + Reserve(Call("fetch")) <= Period + 2 * cacheTimeout
          BY <1>1, <4>1, <5>1, <5>4, <5>7 DEF Reserve, onLatestRuleSetResponse
        <5> QED BY <1>2, <2>1, <5>6, <5>7, <5>8 DEF OnTheWay, Useful, Reserve
      <4> QED BY <4>2, <4>3
    <3>3. ASSUME NEW c \in calls, Answer(c)
          PROVE  OnTheWay'
      <4> DEFINE d == [c EXCEPT !.answered = TRUE, !.version = served]
      <4>1. calls = {c} /\ UNCHANGED <<served, tickIn>> /\ c \in CallType
        BY <1>1, <3>3 DEF Answer, OneCallAtATime
      <4>2. calls' = {d}
        BY <3>3, <4>1 DEF Answer, AnswerWith
      <4>3. d.left = c.left /\ d.kind = c.kind /\ d.version = served
        BY <4>1
      <4> HIDE DEF d
      <4> QED BY <1>2, <2>1, <2>2, <4>1, <4>2, <4>3 DEF LagInv, OnTheWay, Useful, Reserve
    <3>4. ASSUME NEW c \in calls, AnswerBadly(c)
          PROVE  OnTheWay'
      <4>1. faults' = faults + 1
        BY <3>4 DEF AnswerBadly, Fault
      <4> QED BY <1>1, <1>5, <4>1 DEF TypeOK
    <3>5. CASE Publish
      BY <1>1, <1>5, <3>5 DEF Publish
    <3> QED BY <3>1, <3>2, <3>3, <3>4, <3>5 DEF Step
  <2> QED BY <1>1, <1>2, <1>3, <1>5, <2>1, <2>3 DEF LagInv
<1> QED BY <1>4, <1>5

LEMMA TimeLag ==
  ASSUME IInv, LagInv, TimePasses, IInv',
         lag' = CASE ~Behind -> 0 [] Behind /\ Late -> lag [] OTHER -> lag + 1
  PROVE  LagInv'
<1> USE Constants DEF ConstantAssumptions
<1> DEFINE Older(c) == [c EXCEPT !.left = @ - 1]
<1>1. /\ lag \in Nat /\ tickIn \in Nat /\ tickIn' \in Nat /\ tickIn <= Period /\ Period \in Nat
      /\ calls \subseteq [kind : {"latest", "fetch"}, left : 0..cacheTimeout,
                          answered : BOOLEAN, version : 0..MaxVersion]
  BY PeriodBound DEF IInv, TypeOK, LagInv
<1>2. /\ UNCHANGED <<ruleSetReloadIntervalSeconds, served, defaultWAF>>
      /\ Period' = Period
      /\ Behind' = Behind
      /\ tickIn' = IF ruleSetReloadEnabled THEN tickIn - 1 ELSE tickIn
  BY DEF TimePasses, pluginVars, Period, Behind, ruleSetReloadEnabled
<1>3. CASE ~Behind
  BY <1>1, <1>2, <1>3, ResetClock
<1>4. CASE Behind
  <2>1. lag' \in Nat /\ lag' <= lag + 1 /\ tickIn' = tickIn - 1
    <3>1. lag' = lag \/ lag' = lag + 1
      BY <1>4
    <3> QED BY <1>1, <1>2, <1>4, <3>1 DEF Behind
  <2>2. CASE lag + tickIn <= Period
    BY <1>1, <1>2, <1>4, <2>1, <2>2 DEF LagInv, OnTheWay
  <2>3. ASSUME NEW c \in calls, Useful(c), lag + c.left + Reserve(c) <= Period + 2 * cacheTimeout
        PROVE  LagInv'
    <3>1. Older(c) \in calls'
      BY DEF TimePasses
    <3>2. /\ Older(c).left = c.left - 1 /\ Older(c).kind = c.kind
          /\ Older(c).answered = c.answered /\ Older(c).version = c.version
      BY <1>1
    <3> HIDE DEF Older
    <3>3. Useful(Older(c))'
      BY <1>2, <2>3, <3>2 DEF Useful
    <3>4. Reserve(Older(c)) = Reserve(c) /\ Reserve(c) \in Nat /\ c.left \in Nat
      BY <1>1, <3>2 DEF Reserve
    <3>5. lag' + Older(c).left + Reserve(Older(c)) <= Period + 2 * cacheTimeout
      BY <1>1, <2>1, <2>3, <3>2, <3>4
    <3>6. OnTheWay'
      BY <1>2, <3>1, <3>3, <3>5 DEF OnTheWay, Reserve
    <3> QED BY <1>1, <1>2, <1>4, <2>1, <3>6 DEF LagInv
  <2> QED BY <1>4, <2>2, <2>3 DEF LagInv, OnTheWay
<1> QED BY <1>3, <1>4

\* Reloading replaces the table of the plugin by newer rules only, and leaves
\* the copies alone.
LEMMA CacheStepContexts ==
  ASSUME IInv, Next, contexts \in Seq(ContextType), ContextsOrdered, UNCHANGED contexts
  PROVE  ContextsOrdered'
<1>1. defaultWAF \in Nat /\ defaultWAF' \in Nat /\ defaultWAF <= defaultWAF'
  BY LoadedRules, MaxVersionAssumption DEF IInv, TypeOK
<1>2. \A s \in DOMAIN contexts : contexts[s].perAuthorityWAFs \in Nat
  <2> SUFFICES ASSUME NEW s \in DOMAIN contexts PROVE contexts[s].perAuthorityWAFs \in Nat
    OBVIOUS
  <2>1. contexts[s] \in ContextType
    OBVIOUS
  <2> QED BY <2>1, MaxVersionAssumption DEF ContextType
<1> QED BY <1>1, <1>2 DEF ContextsOrdered

LEMMA NewContext ==
  ASSUME IInv, contexts \in Seq(ContextType), ContextsOrdered, NewHttpContext
  PROVE  contexts' \in Seq(ContextType) /\ ContextsOrdered'
<1> DEFINE n == Len(contexts)
           c == Context(defaultWAF)
<1>1. defaultWAF \in 0..MaxVersion /\ defaultWAF' = defaultWAF
  BY DEF IInv, TypeOK, NewHttpContext, vars, pluginVars
<1>2. c \in ContextType /\ c.perAuthorityWAFs = defaultWAF /\ c.stage = "created"
  BY <1>1, MaxVersionAssumption DEF Context, ContextType, NoVersion
<1> HIDE DEF c
<1>3. contexts' = Append(contexts, c)
  BY DEF NewHttpContext, c
<1>4. contexts' \in Seq(ContextType)
  BY <1>2, <1>3
<1>5. /\ n \in Nat /\ DOMAIN contexts = 1..n /\ DOMAIN contexts' = 1..(n + 1)
      /\ \A s \in 1..n : contexts'[s] = contexts[s]
      /\ contexts'[n + 1] = c
  BY <1>2, <1>3
<1>6. \A s \in DOMAIN contexts' :
        /\ contexts'[s].perAuthorityWAFs <= defaultWAF'
        /\ contexts'[s].stage # "created" => contexts'[s].tx = contexts'[s].perAuthorityWAFs
  BY <1>1, <1>2, <1>5, MaxVersionAssumption DEF ContextsOrdered
<1>7. ASSUME NEW s \in DOMAIN contexts', NEW t \in DOMAIN contexts', s < t
      PROVE  contexts'[s].perAuthorityWAFs <= contexts'[t].perAuthorityWAFs
  <2>1. CASE t = n + 1
    BY <1>1, <1>2, <1>5, <1>6, <2>1
  <2>2. CASE t # n + 1
    <3>1. s \in 1..n /\ t \in 1..n
      BY <1>5, <1>7, <2>2
    <3> QED BY <1>5, <1>7, <3>1 DEF ContextsOrdered
  <2> QED BY <2>1, <2>2
<1> QED BY <1>4, <1>6, <1>7 DEF ContextsOrdered

LEMMA ContextHeaders ==
  ASSUME contexts \in Seq(ContextType), ContextsOrdered,
         NEW s \in DOMAIN contexts, OnHttpRequestHeaders(s)
  PROVE  contexts' \in Seq(ContextType) /\ ContextsOrdered'
<1> DEFINE waf == contexts[s].perAuthorityWAFs
           c == [contexts[s] EXCEPT !.stage = IF waf = NoVersion THEN "failed" ELSE "served",
                                    !.tx = waf]
<1>1. contexts[s] \in ContextType
  OBVIOUS
<1>2. waf \in 0..MaxVersion
  BY <1>1 DEF ContextType
<1>3. c \in ContextType /\ c.perAuthorityWAFs = waf /\ c.tx = waf
  BY <1>1, <1>2 DEF ContextType
<1>4. contexts' = [contexts EXCEPT ![s] = c] /\ defaultWAF' = defaultWAF
  BY DEF OnHttpRequestHeaders, getWAFOrDefault, vars, pluginVars
<1> HIDE DEF c
<1>5. /\ DOMAIN contexts' = DOMAIN contexts
      /\ \A t \in DOMAIN contexts : contexts'[t] = IF t = s THEN c ELSE contexts[t]
  BY <1>4
<1>6. contexts' \in Seq(ContextType)
  BY <1>3, <1>4
<1> QED BY <1>3, <1>4, <1>5, <1>6 DEF ContextsOrdered

LEMMA PluginStepInvariant == PInv /\ [PluginNext]_pluginSpecVars => PInv'
<1> SUFFICES ASSUME PInv, PluginNext \/ UNCHANGED pluginSpecVars PROVE PInv'
  OBVIOUS
<1>1. IInv'
  BY CacheStepOrNot, StepInvariant, StutterInvariant DEF PInv
<1>2. CASE CacheStep
  <2>1. Next /\ UNCHANGED contexts
    BY <1>2 DEF CacheStep, Next
  <2>2. LagInv'
    BY <1>1, <1>2, StepLag, TimeLag DEF PInv, CacheStep
  <2>3. ContextsOrdered'
    BY <2>1, CacheStepContexts DEF PInv
  <2> QED BY <1>1, <2>1, <2>2, <2>3 DEF PInv
<1>3. ASSUME UNCHANGED <<vars, lag>> PROVE LagInv'
  BY <1>3 DEF PInv, LagInv, OnTheWay, Behind, Useful, Reserve, Period, ruleSetReloadEnabled,
              vars, pluginVars
<1>4. CASE NewHttpContext
  BY <1>1, <1>3, <1>4, NewContext DEF PInv, NewHttpContext
<1>5. ASSUME NEW s \in DOMAIN contexts, OnHttpRequestHeaders(s) PROVE PInv'
  BY <1>1, <1>3, <1>5, ContextHeaders DEF PInv, OnHttpRequestHeaders
<1>6. CASE UNCHANGED pluginSpecVars
  BY <1>1, <1>3, <1>6 DEF PInv, ContextsOrdered, pluginSpecVars, vars, pluginVars
<1> QED BY <1>2, <1>4, <1>5, <1>6 DEF PluginNext

THEOREM PluginInvariance == PluginSafety => []PInv
<1>1. PluginInit => PInv
  BY PluginInitInvariant
<1> QED BY <1>1, PluginStepInvariant, PTL DEF PluginSafety

\* The variables of the plugin and of its streams keep their types.
THEOREM PluginTypeCorrect == PluginSafety => []PluginTypeOK
<1>1. PInv => PluginTypeOK
  BY DEF PInv, IInv, LagInv, ContextType, PluginTypeOK
<1> QED BY <1>1, PluginInvariance, PTL

\* However reloads and request headers interleave, a stream is judged by rules
\* at least as new as those of the streams before it, and has a WAF if they had.
THEOREM RulesFollowStreams == PluginSafety => []RulesFollowCreation
<1>1. PInv => RulesFollowCreation
  BY DEF PInv, ContextsOrdered, RulesFollowCreation
<1> QED BY <1>1, PluginInvariance, PTL

\* Whatever the interval, the timeout and the length of a second: one period
\* and two timeouts after they are published, the latest rules are loaded,
\* unless a call fails meanwhile.
THEOREM Freshness == PluginSafety => []RulesStayFresh
<1>1. PInv => RulesStayFresh
  <2> SUFFICES ASSUME PInv PROVE RulesStayFresh
    OBVIOUS
  <2>1. /\ lag \in Nat /\ tickIn \in Nat /\ Period \in Nat
        /\ cacheTimeout \in Nat
        /\ \A c \in calls : c.left \in Nat
    BY PeriodBound, Constants DEF PInv, IInv, LagInv, TypeOK, ConstantAssumptions
  <2>2. \A c \in calls : Reserve(c) \in Nat
    BY <2>1 DEF Reserve
  <2> QED BY <2>1, <2>2 DEF PInv, LagInv, OnTheWay, RulesStayFresh, Late
<1> QED BY <1>1, PluginInvariance, PTL
=============================================================================
