-------------------------- MODULE RuleSetCacheProofs --------------------------
(***************************************************************************)
(* Proofs about RuleSetCache, for every value of its constants.            *)
(***************************************************************************)
EXTENDS RuleSetCache, TLAPS

\* What may still follow the call: after a check, a fetch of its own.
Reserve(c) == IF c.kind = "latest" THEN cacheTimeout ELSE 0

\* The calls under way, and those that follow them, end before the next tick.
CallsEndBeforeTick ==
  ruleSetReloadEnabled => \A c \in calls : c.left + Reserve(c) < tickIn

\* The loaded rules are not newer than the answers under way, nor these than
\* what the server has.
VersionsOrdered ==
  /\ currentRuleSetUUID <= served
  /\ \A c \in calls : c.version # NoVersion =>
       /\ c.answered
       /\ currentRuleSetUUID <= c.version
       /\ c.version <= served

\* Without reloading there is but the initial fetch, and nothing before it.
OnlyInitialFetch ==
  ~ruleSetReloadEnabled => \A c \in calls : c.kind = "fetch" /\ currentRuleSetUUID = NoVersion

IInv ==
  /\ TypeOK
  /\ OneCallAtATime
  /\ CallsEndBeforeTick
  /\ UUIDIsOfActiveWAF
  /\ VersionsOrdered
  /\ OnlyInitialFetch

ConstantAssumptions ==
  /\ MaxVersion \in Nat /\ MaxFaults \in Nat /\ ReloadIntervals \subseteq Nat
  /\ Second \in Nat /\ Second > 0
  /\ cacheTimeout \in Nat /\ cacheTimeout > 0

LEMMA Constants == ConstantAssumptions
BY MaxVersionAssumption, MaxFaultsAssumption, ReloadAssumption, TimeAssumption
   DEF ConstantAssumptions

\* Whatever the configured interval, and however it wraps, a period leaves room
\* for two timeouts.
LEMMA PeriodBound ==
  ASSUME ruleSetReloadIntervalSeconds \in ReloadIntervals
  PROVE  Period \in Nat /\ Period > 2 * cacheTimeout
<1>1. (ruleSetReloadIntervalSeconds * Second) % UintModulus \in Nat
  <2>1. ruleSetReloadIntervalSeconds * Second \in Int
    BY ReloadAssumption, TimeAssumption
  <2>2. \A a \in Int : \A b \in Nat \ {0} : a % b \in Nat
    BY SMT
  <2> QED BY <2>1, <2>2, TimeAssumption
<1>2. 2 * cacheTimeout + Second \in Nat /\ 2 * cacheTimeout + Second > 2 * cacheTimeout
  BY TimeAssumption
<1> QED BY <1>1, <1>2, TimeAssumption DEF Period

\* A call that is just dispatched has the whole timeout and no answer.
LEMMA NewCall ==
  ASSUME NEW kind \in {"latest", "fetch"}
  PROVE  /\ Call(kind) \in [kind : {"latest", "fetch"}, left : 0..cacheTimeout,
                            answered : BOOLEAN, version : 0..MaxVersion]
         /\ Call(kind).kind = kind
         /\ Call(kind).left = cacheTimeout
         /\ Call(kind).version = NoVersion
BY Constants DEF Call, NoVersion, ConstantAssumptions

LEMMA InitInvariant == Init => IInv
<1> SUFFICES ASSUME Init PROVE IInv
  OBVIOUS
<1> USE Constants DEF ConstantAssumptions
<1>1. calls = {} \/ calls = {Call("fetch")}
  BY DEF Init
<1>2. TypeOK
  BY <1>1, NewCall, PeriodBound DEF Init, TypeOK, NoVersion
<1>3. OneCallAtATime
  BY <1>1 DEF OneCallAtATime
<1>4. CallsEndBeforeTick
  BY <1>1, NewCall, PeriodBound DEF Init, CallsEndBeforeTick, Reserve
<1>5. UUIDIsOfActiveWAF
  BY DEF Init, UUIDIsOfActiveWAF
<1>6. VersionsOrdered
  BY <1>1, NewCall DEF Init, VersionsOrdered, NoVersion
<1>7. OnlyInitialFetch
  BY <1>1, NewCall DEF Init, OnlyInitialFetch
<1> QED BY <1>2, <1>3, <1>4, <1>5, <1>6, <1>7 DEF IInv

\* A tick finds no call under way.
LEMMA NoCallAtTick ==
  ASSUME IInv, ruleSetReloadEnabled, tickIn = 0
  PROVE  calls = {}
BY Constants DEF IInv, TypeOK, CallsEndBeforeTick, Reserve, ConstantAssumptions

\* The parts of the invariant speak of each call alone, except that there is
\* one: it is enough that each call after a step is well typed, in time and in
\* order, and that there is one.
LEMMA StepInvariant ==
  ASSUME IInv, Next
  PROVE  IInv'
<1> USE Constants DEF ConstantAssumptions
<1> DEFINE CallType == [kind : {"latest", "fetch"}, left : 0..cacheTimeout,
                        answered : BOOLEAN, version : 0..MaxVersion]
<1>0. /\ TypeOK /\ OneCallAtATime /\ CallsEndBeforeTick /\ UUIDIsOfActiveWAF /\ VersionsOrdered
      /\ OnlyInitialFetch
      /\ calls \subseteq CallType
      /\ ruleSetReloadIntervalSeconds \in ReloadIntervals
  BY DEF IInv, TypeOK
<1>1. CASE OnTick
  <2>1. calls = {}
    BY <1>1, NoCallAtTick DEF OnTick
  <2>2. calls' = {} \/ calls' = {Call("latest")}
    BY <1>1, <2>1 DEF OnTick, Dispatch
  <2>3. faults' \in 0..MaxFaults
    BY <1>0, <1>1 DEF OnTick, Dispatch, Fault, TypeOK
  <2>4. tickIn' = Period /\ UNCHANGED <<ruleSetReloadIntervalSeconds, served, currentRuleSetUUID, defaultWAF>>
    BY <1>1 DEF OnTick, pluginVars
  <2>5. TypeOK'
    BY <1>0, <2>2, <2>3, <2>4, NewCall, PeriodBound DEF TypeOK, NoVersion
  <2>6. OneCallAtATime'
    BY <2>2 DEF OneCallAtATime
  <2>7. CallsEndBeforeTick'
    BY <1>0, <2>2, <2>4, NewCall, PeriodBound DEF CallsEndBeforeTick, Reserve
  <2>8. UUIDIsOfActiveWAF'
    BY <1>0, <2>4 DEF UUIDIsOfActiveWAF
  <2>9. VersionsOrdered'
    BY <1>0, <2>2, <2>4, NewCall DEF VersionsOrdered
  <2>10. OnlyInitialFetch'
    BY <1>1, <2>4 DEF OnTick, OnlyInitialFetch, ruleSetReloadEnabled
  <2> QED BY <2>5, <2>6, <2>7, <2>8, <2>9, <2>10 DEF IInv
<1>2. ASSUME NEW c \in calls, Callback(c)
      PROVE  IInv'
  <2>1. calls = {c}
    BY <1>0 DEF OneCallAtATime
  <2>2. c \in CallType /\ c.answered
    BY <1>0, <1>2 DEF Callback
  <2>3. UNCHANGED <<ruleSetReloadIntervalSeconds, served, tickIn>>
    BY <1>2 DEF Callback
  <2>4. CASE onLatestRuleSetResponse(c)
    <3>1. calls' = {} \/ calls' = {Call("fetch")}
      BY <2>1, <2>4 DEF onLatestRuleSetResponse, Dispatch
    <3>2. faults' \in 0..MaxFaults
      BY <1>0, <2>4 DEF onLatestRuleSetResponse, Dispatch, Fault, TypeOK
    <3>3. UNCHANGED <<currentRuleSetUUID, defaultWAF>> /\ c.kind = "latest"
      BY <2>4 DEF onLatestRuleSetResponse, pluginVars
    <3>4. TypeOK'
      BY <1>0, <2>3, <3>1, <3>2, <3>3, NewCall DEF TypeOK
    <3>5. ruleSetReloadEnabled => cacheTimeout < tickIn
      BY <1>0, <2>2, <3>3 DEF CallsEndBeforeTick, Reserve, TypeOK
    <3>6. CallsEndBeforeTick'
      BY <2>3, <3>1, <3>5, NewCall DEF CallsEndBeforeTick, Reserve, ruleSetReloadEnabled
    <3>7. OneCallAtATime' /\ UUIDIsOfActiveWAF' /\ VersionsOrdered'
      BY <1>0, <2>3, <3>1, <3>3, NewCall DEF OneCallAtATime, UUIDIsOfActiveWAF, VersionsOrdered
    <3>8. OnlyInitialFetch'
      BY <1>0, <2>1, <2>3, <3>3 DEF OnlyInitialFetch, ruleSetReloadEnabled
    <3> QED BY <3>4, <3>6, <3>7, <3>8 DEF IInv
  <2>5. CASE onRuleSetCacheServerResponse(c)
    <3>1. calls' = {} /\ UNCHANGED faults
      BY <2>1, <2>5 DEF onRuleSetCacheServerResponse
    <3>2. \/ UNCHANGED <<currentRuleSetUUID, defaultWAF>>
          \/ /\ c.version # NoVersion
             /\ currentRuleSetUUID' = c.version /\ defaultWAF' = c.version
      BY <2>5 DEF onRuleSetCacheServerResponse, pluginVars
    <3>3. TypeOK'
      BY <1>0, <2>2, <2>3, <3>1, <3>2 DEF TypeOK
    <3>4. OneCallAtATime' /\ CallsEndBeforeTick' /\ OnlyInitialFetch'
      BY <3>1 DEF OneCallAtATime, CallsEndBeforeTick, OnlyInitialFetch
    <3>5. UUIDIsOfActiveWAF' /\ VersionsOrdered'
      BY <1>0, <2>3, <3>1, <3>2 DEF UUIDIsOfActiveWAF, VersionsOrdered
    <3> QED BY <3>3, <3>4, <3>5 DEF IInv
  <2> QED BY <1>2, <2>4, <2>5 DEF Callback
<1>3. ASSUME NEW c \in calls, Answer(c) \/ AnswerBadly(c)
      PROVE  IInv'
  <2>1. calls = {c} /\ c \in CallType
    BY <1>0 DEF OneCallAtATime
  <2>2. PICK v \in {served, NoVersion} :
          calls' = {[c EXCEPT !.answered = TRUE, !.version = v]}
    BY <1>3, <2>1 DEF Answer, AnswerBadly, AnswerWith
  <2>3. UNCHANGED <<ruleSetReloadIntervalSeconds, served, currentRuleSetUUID, defaultWAF, tickIn>>
    BY <1>3 DEF Answer, AnswerBadly, pluginVars
  <2>4. faults' \in 0..MaxFaults
    BY <1>0, <1>3 DEF Answer, AnswerBadly, Fault, TypeOK
  <2> DEFINE d == [c EXCEPT !.answered = TRUE, !.version = v]
  <2>5. /\ d \in CallType
        /\ d.kind = c.kind /\ d.left = c.left /\ d.answered /\ d.version = v
    <3>1. v \in 0..MaxVersion
      BY <1>0 DEF TypeOK, NoVersion
    <3>2. c \in CallType
      BY <2>1
    <3> QED BY <3>1, <3>2
  <2> HIDE DEF d
  <2>6. calls' = {d}
    BY <2>2 DEF d
  <2>7. TypeOK'
    BY <1>0, <2>3, <2>4, <2>5, <2>6 DEF TypeOK
  <2>8. OneCallAtATime' /\ UUIDIsOfActiveWAF'
    BY <1>0, <2>3, <2>6 DEF OneCallAtATime, UUIDIsOfActiveWAF
  <2>9. CallsEndBeforeTick'
    BY <1>0, <2>1, <2>3, <2>5, <2>6 DEF CallsEndBeforeTick, Reserve, ruleSetReloadEnabled
  <2>10. VersionsOrdered'
    BY <1>0, <2>2, <2>3, <2>5, <2>6 DEF VersionsOrdered, TypeOK
  <2>11. OnlyInitialFetch'
    BY <1>0, <2>1, <2>3, <2>5, <2>6 DEF OnlyInitialFetch, ruleSetReloadEnabled
  <2> QED BY <2>7, <2>8, <2>9, <2>10, <2>11 DEF IInv
<1>4. CASE Publish
  BY <1>0, <1>4 DEF Publish, pluginVars, IInv, TypeOK, OneCallAtATime, CallsEndBeforeTick,
                    UUIDIsOfActiveWAF, VersionsOrdered, OnlyInitialFetch, Reserve,
                    ruleSetReloadEnabled
<1>5. CASE TimePasses
  <2> DEFINE Older(c) == [c EXCEPT !.left = @ - 1]
  <2>1. calls' = {Older(c) : c \in calls}
    BY <1>5 DEF TimePasses
  <2>2. \A c \in calls : /\ Older(c) \in CallType
                         /\ Older(c).kind = c.kind /\ Older(c).left = c.left - 1
                         /\ Older(c).answered = c.answered /\ Older(c).version = c.version
    BY <1>0, <1>5 DEF TimePasses
  <2>3. /\ UNCHANGED <<ruleSetReloadIntervalSeconds, served, currentRuleSetUUID, defaultWAF, faults>>
        /\ tickIn' = IF ruleSetReloadEnabled THEN tickIn - 1 ELSE tickIn
        /\ ruleSetReloadEnabled => tickIn > 0
    BY <1>5 DEF TimePasses, pluginVars
  <2> HIDE DEF Older
  <2>4. TypeOK'
    BY <1>0, <2>1, <2>2, <2>3 DEF TypeOK
  <2>5. OneCallAtATime' /\ UUIDIsOfActiveWAF'
    BY <1>0, <2>1, <2>3 DEF OneCallAtATime, UUIDIsOfActiveWAF
  <2>6. CallsEndBeforeTick'
    <3> SUFFICES ASSUME ruleSetReloadEnabled, NEW c \in calls
                 PROVE  Older(c).left + Reserve(Older(c)) < tickIn'
      BY <2>1, <2>3 DEF CallsEndBeforeTick, ruleSetReloadEnabled
    <3>1. c.left + Reserve(c) < tickIn
      BY <1>0 DEF CallsEndBeforeTick
    <3>2. Reserve(Older(c)) = Reserve(c) /\ Reserve(c) \in Nat
      BY <2>2 DEF Reserve
    <3> QED BY <1>0, <2>2, <2>3, <3>1, <3>2 DEF TypeOK
  <2>7. VersionsOrdered'
    BY <1>0, <2>1, <2>2, <2>3 DEF VersionsOrdered
  <2>8. OnlyInitialFetch'
    BY <1>0, <2>1, <2>2, <2>3 DEF OnlyInitialFetch, ruleSetReloadEnabled
  <2> QED BY <2>4, <2>5, <2>6, <2>7, <2>8 DEF IInv
<1> QED BY <1>1, <1>2, <1>3, <1>4, <1>5 DEF Next, Step

LEMMA StutterInvariant ==
  ASSUME IInv, UNCHANGED vars
  PROVE  IInv'
BY DEF IInv, vars, pluginVars, TypeOK, OneCallAtATime, CallsEndBeforeTick, UUIDIsOfActiveWAF,
       VersionsOrdered, OnlyInitialFetch, Reserve, ruleSetReloadEnabled

THEOREM Invariance == Safety => []IInv
<1>1. Init => IInv
  BY InitInvariant
<1>2. IInv /\ [Next]_vars => IInv'
  BY StepInvariant, StutterInvariant
<1> QED BY <1>1, <1>2, PTL DEF Safety

\* The variables of the client keep their types.
THEOREM TypeCorrect == Safety => []TypeOK
<1>1. IInv => TypeOK
  BY DEF IInv
<1> QED BY <1>1, Invariance, PTL

\* However long the configured interval is and however it wraps, a tick never
\* finds the check or the fetch of an earlier tick under way.
THEOREM OneCall == Safety => []OneCallAtATime
<1>1. IInv => OneCallAtATime
  BY DEF IInv
<1> QED BY <1>1, Invariance, PTL

\* The identifier the client compares with the server's is that of the rules
\* its WAF was built from.
THEOREM UUIDMatches == Safety => []UUIDIsOfActiveWAF
<1>1. IInv => UUIDIsOfActiveWAF
  BY DEF IInv
<1> QED BY <1>1, Invariance, PTL

\* What a step can do to the loaded rules: nothing, or replace them by rules
\* that are not older, that compile and that the server has published.
LEMMA LoadedRules ==
  ASSUME IInv, [Next]_vars
  PROVE  \/ UNCHANGED <<currentRuleSetUUID, defaultWAF>>
         \/ /\ UNCHANGED <<ruleSetReloadIntervalSeconds, served>>
            /\ ruleSetReloadEnabled \/ defaultWAF = NoVersion
            /\ defaultWAF' = currentRuleSetUUID'
            /\ defaultWAF' \in (defaultWAF..served) \ Broken
<1>1. ASSUME NEW c \in calls, onRuleSetCacheServerResponse(c),
             UNCHANGED <<ruleSetReloadIntervalSeconds, served>>
      PROVE  \/ UNCHANGED <<currentRuleSetUUID, defaultWAF>>
             \/ /\ UNCHANGED <<ruleSetReloadIntervalSeconds, served>>
                /\ ruleSetReloadEnabled \/ defaultWAF = NoVersion
                /\ defaultWAF' = currentRuleSetUUID'
                /\ defaultWAF' \in (defaultWAF..served) \ Broken
  <2>1. CASE c.version = NoVersion \/ c.version \in Broken
    BY <1>1, <2>1 DEF onRuleSetCacheServerResponse, pluginVars
  <2>2. CASE ~(c.version = NoVersion \/ c.version \in Broken)
    <3>1. defaultWAF' = c.version /\ currentRuleSetUUID' = c.version
      BY <1>1, <2>2 DEF onRuleSetCacheServerResponse
    <3>2. c.version \in Nat /\ defaultWAF \in Nat /\ served \in Nat
      BY MaxVersionAssumption DEF IInv, TypeOK
    <3>3. defaultWAF <= c.version /\ c.version <= served
      BY <2>2 DEF IInv, VersionsOrdered, UUIDIsOfActiveWAF
    <3>4. ruleSetReloadEnabled \/ defaultWAF = NoVersion
      BY DEF IInv, OnlyInitialFetch, UUIDIsOfActiveWAF
    <3> QED BY <1>1, <2>2, <3>1, <3>2, <3>3, <3>4
  <2> QED BY <2>1, <2>2
<1> QED
  BY <1>1 DEF Next, Step, vars, pluginVars, OnTick, Callback, onLatestRuleSetResponse,
              Answer, AnswerBadly, Publish, TimePasses

\* A late answer never replaces rules by older ones, and loaded rules are never
\* dropped, whatever fails.
THEOREM NoRollback == Safety => RulesNeverGoBack
<1>1. IInv /\ [Next]_vars =>
        [currentRuleSetUUID' >= currentRuleSetUUID /\ defaultWAF' >= defaultWAF]_vars
  <2> SUFFICES ASSUME IInv, [Next]_vars
               PROVE  currentRuleSetUUID' >= currentRuleSetUUID /\ defaultWAF' >= defaultWAF
    OBVIOUS
  <2>1. /\ currentRuleSetUUID \in Nat /\ defaultWAF \in Nat /\ served \in Nat
        /\ currentRuleSetUUID = defaultWAF
    BY MaxVersionAssumption DEF IInv, TypeOK, UUIDIsOfActiveWAF
  <2> QED BY <2>1, LoadedRules
<1> QED BY <1>1, Invariance, PTL DEF Safety, RulesNeverGoBack

\* Every behaviour of the client, its server and its host is one of the
\* register: what becomes active was published, compiles and is newer.
THEOREM RefinesRegister == Safety => Register!RegisterSafety
<1>1. Init => Register!RegisterInit
  BY DEF Init, NoVersion, ruleSetReloadEnabled, Register!RegisterInit
<1>2. ASSUME IInv, [Next]_vars
      PROVE  [Register!RegisterNext]_(Register!RegisterVars)
  <2>1. defaultWAF \in Nat /\ served \in Nat
    BY <1>2, MaxVersionAssumption DEF IInv, TypeOK
  <2>2. CASE UNCHANGED <<currentRuleSetUUID, defaultWAF>>
    <3>1. /\ UNCHANGED served \/ Publish
          /\ UNCHANGED ruleSetReloadIntervalSeconds
      BY <1>2 DEF Next, Step, vars, OnTick, Callback, Answer, AnswerBadly, TimePasses, Publish
    <3> QED
      BY <2>2, <3>1 DEF Publish, ruleSetReloadEnabled, Register!RegisterNext, Register!Publish, Register!RegisterVars
  <2>3. CASE /\ UNCHANGED <<ruleSetReloadIntervalSeconds, served>>
             /\ ruleSetReloadEnabled \/ defaultWAF = NoVersion
             /\ defaultWAF' \in (defaultWAF..served) \ Broken
    <3>1. defaultWAF' = defaultWAF \/ defaultWAF' \in (defaultWAF + 1)..served
      BY <2>1, <2>3
    <3> QED
      BY <2>3, <3>1 DEF NoVersion, ruleSetReloadEnabled, Register!RegisterNext,
                        Register!Activate, Register!RegisterVars
  <2> QED BY <1>2, <2>2, <2>3, LoadedRules
<1> QED BY <1>1, <1>2, Invariance, PTL DEF Safety, Register!RegisterSafety
=============================================================================
