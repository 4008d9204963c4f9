----------------------------- MODULE RuleSetCache -----------------------------
(***************************************************************************)
(* Rule loading from the rule set cache server (OnPluginStart with a       *)
(* cluster, OnTick and the two HTTP callbacks of wasmplugin/plugin.go).    *)
(* Time is counted in units; the timers of the host (the tick and the      *)
(* timeout of each call) count down to 0 and time stops until a timer at 0 *)
(* has fired.  Rule sets are numbered in the order they are published.     *)
(***************************************************************************)
EXTENDS Integers

CONSTANTS
  MaxVersion,       \* bound: the last rule set the server publishes
  Broken,           \* the versions whose directives Coraza rejects
  MaxFaults,        \* bound: calls that are refused, time out or answer nonsense
  ReloadIntervals,  \* values of rule_reload_interval_seconds, 0: no reloading
  Second,           \* units of time in a second
  cacheTimeout,     \* timeout of a call, in units (cacheTimeoutMs)
  UintModulus       \* the width of the tick period, in units (2^32 ms)

ASSUME MaxVersionAssumption == MaxVersion \in Nat
ASSUME BrokenAssumption == Broken \subseteq 1..MaxVersion
ASSUME MaxFaultsAssumption == MaxFaults \in Nat
ASSUME ReloadAssumption == ReloadIntervals \subseteq Nat
ASSUME TimeAssumption ==
  /\ Second \in Nat \ {0}
  /\ cacheTimeout \in Nat \ {0}
  /\ UintModulus \in Nat \ {0}

Versions == 1..MaxVersion
NoVersion == 0

VARIABLES
  ruleSetReloadIntervalSeconds,
  served,               \* the version the server has
  currentRuleSetUUID,   \* the version of the loaded rules, NoVersion: none
  defaultWAF,           \* the version the WAF was built from, NoVersion: nil
  calls,                \* HTTP calls whose callback has not run
  tickIn,               \* time to the next tick
  faults                \* faults so far

pluginVars == <<currentRuleSetUUID, defaultWAF>>
vars == <<ruleSetReloadIntervalSeconds, served, pluginVars, calls, tickIn, faults>>

BugPeriod == (ruleSetReloadIntervalSeconds * Second) % UintModulus
\* "up to 2 round trips": at least two timeouts and a second.
Period ==
  LET intervalMs == (ruleSetReloadIntervalSeconds * Second) % UintModulus
      floor == 2 * cacheTimeout + Second
  IN  IF intervalMs > floor THEN intervalMs ELSE floor

ruleSetReloadEnabled == ruleSetReloadIntervalSeconds > 0

Fault == faults < MaxFaults /\ faults' = faults + 1

BugCall(kind) == [kind |-> kind, left |-> 2 * cacheTimeout, answered |-> FALSE, version |-> NoVersion]
Call(kind) == [kind |-> kind, left |-> cacheTimeout, answered |-> FALSE, version |-> NoVersion]

\* A call of that kind joins the others, or the host refuses it.
Dispatch(kind, others) ==
  \/ calls' = others \cup {Call(kind)} /\ UNCHANGED faults
  \/ calls' = others /\ Fault

\* The plugin just after OnPluginStart, which fetches the rules before
\* it starts the ticks.
Init ==
  /\ ruleSetReloadIntervalSeconds \in ReloadIntervals
  /\ served \in 0..MaxVersion
  /\ currentRuleSetUUID = NoVersion
  /\ defaultWAF = NoVersion
  /\ tickIn = Period
  /\ \/ calls = {Call("fetch")} /\ faults = 0
     \/ calls = {} /\ faults = 1 /\ MaxFaults > 0

\* checkLatestRuleSet is dispatched whatever calls are still under way.
OnTick ==
  /\ ruleSetReloadEnabled /\ tickIn = 0
  /\ tickIn' = Period
  /\ Dispatch("latest", calls)
  /\ UNCHANGED <<ruleSetReloadIntervalSeconds, served, pluginVars>>

BugNewer(version) == version = currentRuleSetUUID
\* Is the version the server announces another one than the loaded one?
Newer(version) == version # currentRuleSetUUID

\* Any answer that is not a version, a timeout included, is only logged.
onLatestRuleSetResponse(c) ==
  /\ c.kind = "latest"
  /\ IF c.version # NoVersion /\ Newer(c.version)
     THEN Dispatch("fetch", calls \ {c})
     ELSE calls' = calls \ {c} /\ UNCHANGED faults
  /\ UNCHANGED pluginVars

BugOnRuleSetCacheServerResponse(c) ==
  /\ c.kind = "fetch"
  /\ calls' = calls \ {c}
  /\ IF c.version = NoVersion
     THEN UNCHANGED pluginVars
     ELSE /\ currentRuleSetUUID' = c.version
          /\ defaultWAF' = IF c.version \in Broken THEN defaultWAF ELSE c.version
  /\ UNCHANGED faults
\* The loaded rules are kept unless new ones arrive and compile.
onRuleSetCacheServerResponse(c) ==
  /\ c.kind = "fetch"
  /\ calls' = calls \ {c}
  /\ IF c.version = NoVersion \/ c.version \in Broken
     THEN UNCHANGED pluginVars
     ELSE defaultWAF' = c.version /\ currentRuleSetUUID' = c.version
  /\ UNCHANGED faults

Callback(c) ==
  /\ c.answered
  /\ onLatestRuleSetResponse(c) \/ onRuleSetCacheServerResponse(c)
  /\ UNCHANGED <<ruleSetReloadIntervalSeconds, served, tickIn>>

-----------------------------------------------------------------------------
(* The server and the host.                                                *)

Publish ==
  /\ served < MaxVersion
  /\ served' = served + 1
  /\ UNCHANGED <<ruleSetReloadIntervalSeconds, pluginVars, calls, tickIn, faults>>

AnswerWith(c, version) ==
  calls' = (calls \ {c}) \cup {[c EXCEPT !.answered = TRUE, !.version = version]}

\* The server reads its version now; the callback runs later.
Answer(c) ==
  /\ ~c.answered
  /\ AnswerWith(c, served)
  /\ UNCHANGED <<ruleSetReloadIntervalSeconds, served, pluginVars, tickIn, faults>>

\* A status other than 200, a body that does not parse, or, when the time is
\* up, no answer at all.  Assumed of the server: an answer with status 200 that
\* parses names its version; the code takes an empty uuid for one like others.
AnswerBadly(c) ==
  /\ ~c.answered
  /\ AnswerWith(c, NoVersion)
  /\ Fault
  /\ UNCHANGED <<ruleSetReloadIntervalSeconds, served, pluginVars, tickIn>>

TimePasses ==
  /\ \A c \in calls : c.left > 0
  /\ ruleSetReloadEnabled => tickIn > 0
  /\ calls' = {[c EXCEPT !.left = @ - 1] : c \in calls}
  /\ tickIn' = IF ruleSetReloadEnabled THEN tickIn - 1 ELSE tickIn
  /\ UNCHANGED <<ruleSetReloadIntervalSeconds, served, pluginVars, faults>>

\* What takes no time.
Step ==
  \/ OnTick
  \/ \E c \in calls : Callback(c) \/ Answer(c) \/ AnswerBadly(c)
  \/ Publish

Next == Step \/ TimePasses

\* The host runs callbacks and ticks, the server answers and time passes.
\* Nothing obliges the server to publish or a call to fail.
Fairness ==
  /\ WF_vars(OnTick)
  /\ WF_vars(\E c \in calls : Callback(c))
  /\ WF_vars(\E c \in calls : Answer(c))
  /\ WF_vars(TimePasses)

Safety == Init /\ [][Next]_vars
Spec == Safety /\ Fairness

-----------------------------------------------------------------------------
(* Properties.                                                             *)

\* The variables hold values the plugin, its host and the server can give them.
TypeOK ==
  /\ ruleSetReloadIntervalSeconds \in ReloadIntervals
  /\ served \in 0..MaxVersion
  /\ currentRuleSetUUID \in 0..MaxVersion
  /\ defaultWAF \in 0..MaxVersion
  /\ calls \subseteq [kind : {"latest", "fetch"}, left : 0..cacheTimeout,
                      answered : BOOLEAN, version : 0..MaxVersion]
  /\ tickIn \in Nat
  /\ faults \in 0..MaxFaults

\* No tick finds the check or the fetch of an earlier one under way: the period
\* gives them "at least time to either succeed or timeout".
OneCallAtATime == \A c, d \in calls : c = d

\* The plugin remembers the identifier of the rules it runs, of no others.
UUIDIsOfActiveWAF == currentRuleSetUUID = defaultWAF

\* A late answer never replaces rules by older ones, and rules that are loaded
\* are never dropped, though a reload may be refused, time out, answer nonsense
\* or deliver rules that do not compile.
RulesNeverGoBack == [][currentRuleSetUUID' >= currentRuleSetUUID /\ defaultWAF' >= defaultWAF]_vars

Register == INSTANCE RuleSetRegister WITH
  reloading <- ruleSetReloadEnabled, published <- served, active <- defaultWAF

\* The plugin implements the register, its liveness included: once the server
\* publishes no more and calls fail no more, the published rules get loaded,
\* if they compile.  With reloading off there is but the initial fetch.
ImplementsRegister == Register!RegisterSpec

\* "how often to reload rules from the cache server": the period is no shorter
\* than the interval configured.
PeriodIsAtLeastInterval ==
  tickIn = Period => tickIn >= ruleSetReloadIntervalSeconds * Second
=============================================================================
