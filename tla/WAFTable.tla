------------------------------- MODULE WAFTable -------------------------------
(***************************************************************************)
(* What starting the plugin promises: a configuration is refused or taken  *)
(* as a whole, and which of the two, and the directives each authority is  *)
(* served by, depend on the configuration alone.  Only when rules come     *)
(* from a rule set cache, and are reloaded, may the host refuse as well.   *)
(***************************************************************************)
CONSTANTS
  Names,         \* names of directives
  Authorities,
  NoName,        \* the empty name
  NoAuthority,   \* the empty authority
  RulesName,     \* the name of the directives of the deprecated field "rules"
  None           \* absent, no WAF

VARIABLES
  doc,           \* the configuration
  status,        \* "configured", "started" or "failed"
  servedBy       \* the directives each authority is served by

\* The field "rules" counts when there is no other directive.
OnlyRules == doc.directivesMap = {} /\ doc.rules
Declared == IF OnlyRules THEN {RulesName} ELSE doc.directivesMap

\* Without default_directives, the default is the empty name.
DefaultName ==
  IF OnlyRules THEN RulesName
  ELSE IF doc.default = None THEN NoName ELSE doc.default

InUse(name) == name = DefaultName \/ \E a \in Authorities : doc.perAuthority[a] = name

\* With a cache, the directives only have to be declared.
Accepted ==
  /\ doc.default \in doc.directivesMap \cup {None}
  /\ \A a \in Authorities : doc.perAuthority[a] \in doc.directivesMap \cup {None}
  /\ doc.cache = "none" =>
       /\ \A name \in Declared : InUse(name) => name \notin doc.rejected
       /\ doc.perAuthority[NoAuthority] \in {None, DefaultName}

\* The directives an authority names, else the default if it is declared.  With
\* a cache, none: every authority waits for the rules of the server.
Intended(a) ==
  CASE doc.cache # "none" -> None
    [] doc.cache = "none" /\ doc.perAuthority[a] # None -> doc.perAuthority[a]
    [] OTHER -> IF DefaultName \in Declared THEN DefaultName ELSE None

TableInit ==
  /\ status = "configured"
  /\ servedBy = [a \in Authorities |-> None]

Take ==
  /\ Accepted
  /\ status' = "started"
  /\ servedBy' = [a \in Authorities |-> Intended(a)]

Refuse ==
  /\ ~Accepted \/ doc.cache = "reloading"
  /\ status' = "failed"
  /\ UNCHANGED servedBy

TableNext == status = "configured" /\ (Take \/ Refuse) /\ UNCHANGED doc

tableVars == <<doc, status, servedBy>>
TableSafety == TableInit /\ [][TableNext]_tableVars
TableSpec == TableSafety /\ WF_tableVars(TableNext)
=============================================================================
