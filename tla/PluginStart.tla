------------------------------ MODULE PluginStart ------------------------------
(***************************************************************************)
(* Starting the plugin: parsing the configuration (wasmplugin/config.go)   *)
(* and OnPluginStart (wasmplugin/plugin.go), either with a rule set cache  *)
(* or with the loop over directives of its own, a map visited in any order.*)
(* A WAF is known by the name of the directives it was built from.  Maps   *)
(* are total functions: None, or {}, stands for a missing key.             *)
(***************************************************************************)
CONSTANTS
  Names,         \* bound: names of directives
  Authorities,   \* bound: keys of per_authority_directives
  NoName,        \* ""
  NoAuthority,   \* ""
  RulesName,     \* "default"
  None           \* absent, nil

ASSUME NamesAssumption ==
  /\ {NoName, RulesName} \subseteq Names
  /\ NoAuthority \in Authorities
  /\ None \notin Names

VARIABLES
  doc,                        \* the configuration document
  status,
  toVisit,                    \* directives the loop has not visited
  directivesAuthoritiesMap,   \* the authorities that reference each directives
  building,                   \* the table of OnPluginStart
  perAuthorityWAFs            \* the table of the plugin

vars == <<doc, status, toVisit, directivesAuthoritiesMap, building, perAuthorityWAFs>>

\* What a document may say, and which of its directives Coraza rejects.  Rules
\* come from a rule set cache, "once" or "reloading", or from the document.
Documents ==
  [directivesMap : SUBSET Names, default : Names \cup {None},
   perAuthority : [Authorities -> Names \cup {None}], rules : BOOLEAN,
   rejected : SUBSET Names, cache : {"none", "once", "reloading"}]

newWAFMap == [kv |-> [a \in Authorities |-> None], defaultWAF |-> None]

\* The WAF of an authority; None: "no default WAF".
getWAFOrDefault(table, key) ==
  IF table.kv[key] # None THEN table.kv[key] ELSE table.defaultWAF

-----------------------------------------------------------------------------
(* parsePluginConfiguration.                                               *)

BugParseFails ==
  \E a \in Authorities : doc.perAuthority[a] \notin doc.directivesMap \cup {None}
\* A name is used that is not declared.
ParseFails ==
  \/ doc.default \notin doc.directivesMap \cup {None}
  \/ \E a \in Authorities : doc.perAuthority[a] \notin doc.directivesMap \cup {None}

UsesRulesField == doc.directivesMap = {} /\ doc.rules
directivesMap == IF UsesRulesField THEN {RulesName} ELSE doc.directivesMap
defaultDirectives ==
  CASE UsesRulesField -> RulesName
    [] ~UsesRulesField /\ doc.default = None -> NoName
    [] OTHER -> doc.default

-----------------------------------------------------------------------------
(* OnPluginStart.                                                          *)

Init ==
  /\ doc \in Documents
  /\ status = "configured"
  /\ toVisit = {}
  /\ directivesAuthoritiesMap = [n \in Names |-> {}]
  /\ building = newWAFMap
  /\ perAuthorityWAFs = newWAFMap

References(name) == {a \in Authorities : doc.perAuthority[a] = name}

RefuseDocument ==
  /\ status = "configured" /\ ParseFails
  /\ status' = "failed"
  /\ UNCHANGED <<doc, toVisit, directivesAuthoritiesMap, building, perAuthorityWAFs>>

\* The directives of the document are never looked at: the table stays empty
\* until the rules that are fetched arrive.  The host may refuse the tick; the
\* fetch under way by then is left alone, and not modelled after a failed start.
StartWithCache ==
  /\ status = "configured" /\ ~ParseFails
  /\ doc.cache # "none"
  /\ status' \in IF doc.cache = "reloading" THEN {"started", "failed"} ELSE {"started"}
  /\ perAuthorityWAFs' = newWAFMap
  /\ UNCHANGED <<doc, toVisit, directivesAuthoritiesMap, building>>

AcceptDocument ==
  /\ status = "configured" /\ ~ParseFails
  /\ doc.cache = "none"
  /\ status' = "building"
  /\ toVisit' = directivesMap
  /\ directivesAuthoritiesMap' = [n \in Names |-> References(n)]
  /\ UNCHANGED <<doc, building, perAuthorityWAFs>>

Visits(name) ==
  /\ status = "building" /\ name \in toVisit
  /\ toVisit' = toVisit \ {name}
  /\ UNCHANGED <<doc, perAuthorityWAFs>>

Unreferenced(name) == name # defaultDirectives /\ directivesAuthoritiesMap[name] = {}

\* No authority references them: the WAF would be a waste.
Skip(name) ==
  /\ Visits(name) /\ Unreferenced(name)
  /\ UNCHANGED <<status, directivesAuthoritiesMap, building>>

BugAuthoritiesOf(name) == directivesAuthoritiesMap[name]
\* The authorities are not looked up for the default directives.
AuthoritiesOf(name) ==
  IF name = defaultDirectives THEN {} ELSE directivesAuthoritiesMap[name]

\* The directives do not compile, or the key of the table would be empty.
Unusable(name) == name \in doc.rejected \/ NoAuthority \in AuthoritiesOf(name)

Fail(name) ==
  /\ Visits(name) /\ ~Unreferenced(name) /\ Unusable(name)
  /\ status' = "failed"
  /\ UNCHANGED <<directivesAuthoritiesMap, building>>

BugDelete(name) == directivesAuthoritiesMap
Delete(name) == [directivesAuthoritiesMap EXCEPT ![name] = {}]

\* setDefaultWAF when no authority is found, put for each that is.
Register(name) ==
  /\ Visits(name) /\ ~Unreferenced(name) /\ ~Unusable(name)
  /\ building' =
       [kv |-> [a \in Authorities |-> IF a \in AuthoritiesOf(name) THEN name ELSE building.kv[a]],
        defaultWAF |-> IF AuthoritiesOf(name) = {} THEN name ELSE building.defaultWAF]
  /\ directivesAuthoritiesMap' = Delete(name)
  /\ UNCHANGED status

\* Directives that are still referenced were not declared.
Finish ==
  /\ status = "building" /\ toVisit = {}
  /\ IF \A n \in Names : directivesAuthoritiesMap[n] = {}
     THEN status' = "started" /\ perAuthorityWAFs' = building
     ELSE status' = "failed" /\ UNCHANGED perAuthorityWAFs
  /\ UNCHANGED <<doc, toVisit, directivesAuthoritiesMap, building>>

Next ==
  \/ RefuseDocument
  \/ StartWithCache
  \/ AcceptDocument
  \/ \E name \in Names : Skip(name) \/ Fail(name) \/ Register(name)
  \/ Finish

\* A call of OnPluginStart runs to its end.
Safety == Init /\ [][Next]_vars
Spec == Safety /\ WF_vars(Next)

-----------------------------------------------------------------------------
(* Properties.                                                             *)

Tables == [kv : [Authorities -> Names \cup {None}], defaultWAF : Names \cup {None}]

\* The variables have their types, and a document that was accepted declares its
\* default directives, unless it has none.
TypeOK ==
  /\ doc \in Documents
  /\ status \in {"configured", "building", "started", "failed"}
  /\ toVisit \subseteq directivesMap
  /\ directivesAuthoritiesMap \in [Names -> SUBSET Authorities]
  /\ building \in Tables
  /\ perAuthorityWAFs \in Tables
  /\ status \in {"building", "started"} =>
       defaultDirectives \in directivesMap \cup {NoName}

\* The loop leaves no reference behind: the refusal of "Unknown directives" at
\* its end is never taken, parsing has refused such documents already.
ReferencesAreVisited ==
  \A n \in Names : directivesAuthoritiesMap[n] # {} /\ status = "building" => n \in toVisit

Table == INSTANCE WAFTable WITH
  status <- IF status = "building" THEN "configured" ELSE status,
  servedBy <- [a \in Authorities |-> getWAFOrDefault(perAuthorityWAFs, a)]

\* Whatever order the map is visited in, the document alone decides whether the
\* start fails and which WAF serves an authority; the plugin's table is replaced
\* as a whole; and the start comes to an end.
ImplementsWAFTable == Table!TableSpec
=============================================================================
