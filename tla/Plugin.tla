-------------------------------- MODULE Plugin --------------------------------
(***************************************************************************)
(* The plugin with a rule set cache and its streams: NewHttpContext copies *)
(* the WAF table of the plugin, which the cache client goes on replacing,  *)
(* and the request headers of the stream resolve their WAF in the copy.    *)
(***************************************************************************)
EXTENDS RuleSetCache, Sequences

CONSTANT MaxContexts   \* bound: streams that are created

ASSUME MaxContextsAssumption == MaxContexts \in Nat

VARIABLES
  contexts,   \* the streams, in the order they were created
  lag         \* how long the latest rules have been due without any fault

pluginSpecVars == <<vars, contexts, lag>>

\* The stages of a stream: "served" has a transaction of its WAF, "failed" found
\* none and was left to the failure policy.
Context(waf) == [perAuthorityWAFs |-> waf, stage |-> "created", tx |-> NoVersion]

PluginInit == Init /\ contexts = <<>> /\ lag = 0

\* The newest rules are due to be loaded: they compile, and reloading is on.
Behind == ruleSetReloadEnabled /\ defaultWAF < served /\ served \notin Broken

\* More than a period and the timeouts of a check and a fetch have passed.
Late == lag > Period + 2 * cacheTimeout

\* The clock of lag starts over at each publication and at each fault, and stops
\* when it is too late.
CacheStep ==
  /\ \/ /\ TimePasses
        /\ lag' = CASE ~Behind -> 0 [] Behind /\ Late -> lag [] OTHER -> lag + 1
     \/ /\ Step
        /\ lag' = IF Behind' /\ UNCHANGED <<served, faults>> THEN lag ELSE 0
  /\ UNCHANGED contexts

NewHttpContext ==
  /\ Len(contexts) < MaxContexts
  /\ contexts' = Append(contexts, Context(defaultWAF))
  /\ UNCHANGED <<vars, lag>>

BugGetWAFOrDefault(s) == defaultWAF
\* The WAF of a stream, in its own copy of the table, where a cache leaves all
\* authorities to the default WAF.
getWAFOrDefault(s) == contexts[s].perAuthorityWAFs

OnHttpRequestHeaders(s) ==
  /\ contexts[s].stage = "created"
  /\ contexts' = [contexts EXCEPT
       ![s].stage = IF getWAFOrDefault(s) = NoVersion THEN "failed" ELSE "served",
       ![s].tx = getWAFOrDefault(s)]
  /\ UNCHANGED <<vars, lag>>

PluginNext ==
  \/ CacheStep
  \/ NewHttpContext
  \/ \E s \in DOMAIN contexts : OnHttpRequestHeaders(s)

\* No stream has to be created, nor its headers to arrive.
PluginSafety == PluginInit /\ [][PluginNext]_pluginSpecVars
PluginSpec == PluginSafety /\ Fairness

-----------------------------------------------------------------------------
(* Properties.                                                             *)

\* The variables of the plugin and of its streams keep their types.
PluginTypeOK ==
  /\ TypeOK
  /\ contexts \in Seq([perAuthorityWAFs : 0..MaxVersion,
                       stage : {"created", "served", "failed"},
                       tx : 0..MaxVersion])
  /\ lag \in Nat

\* A stream is never judged by older rules than a stream created before it, and
\* never left to the failure policy after one that was served, whenever their
\* headers arrive and the rules are reloaded.
RulesFollowCreation ==
  \A s, t \in DOMAIN contexts :
    s < t /\ contexts[s].stage # "created" /\ contexts[t].stage # "created"
      => contexts[s].tx <= contexts[t].tx

\* New streams get the latest rules within one period and the timeouts of the
\* check and the fetch, unless a call fails or newer rules supersede them: the
\* period leaves time for both, and no answer on the way is lost.
RulesStayFresh == ~Late
=============================================================================
