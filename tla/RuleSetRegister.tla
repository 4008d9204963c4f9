-------------------------- MODULE RuleSetRegister --------------------------
(***************************************************************************)
(* What the rule set cache promises to the streams: an active rule set     *)
(* that only moves forward, is always one that was published and can be    *)
(* compiled, and catches up with the published one.  Without reloading it  *)
(* promises no more than one rule set, and not even that.                  *)
(***************************************************************************)
EXTENDS Naturals

CONSTANTS
  MaxVersion,   \* bound: the last rule set the server publishes
  Broken        \* the versions whose directives Coraza rejects

VARIABLES
  reloading,    \* are rules reloaded periodically?
  published,
  active        \* 0: no WAF yet

RegisterInit ==
  /\ reloading \in BOOLEAN
  /\ published \in 0..MaxVersion
  /\ active = 0

Publish ==
  /\ published < MaxVersion
  /\ published' = published + 1
  /\ UNCHANGED <<reloading, active>>

Activate ==
  /\ reloading \/ active = 0
  /\ \E v \in (active + 1)..published : v \notin Broken /\ active' = v
  /\ UNCHANGED <<reloading, published>>

\* Activation of the latest version is due when it can be compiled.
Due == reloading /\ active < published /\ published \notin Broken

RegisterNext == Publish \/ Activate

RegisterVars == <<reloading, published, active>>

RegisterSafety == RegisterInit /\ [][RegisterNext]_RegisterVars

RegisterSpec == RegisterSafety /\ WF_RegisterVars(Activate /\ Due)
=============================================================================
