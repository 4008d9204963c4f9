--------------------------- MODULE PluginStartProofs ---------------------------
(***************************************************************************)
(* Proofs about PluginStart, for any names, authorities and documents.     *)
(***************************************************************************)
EXTENDS PluginStart, TLAPS

Visited == directivesMap \ toVisit

Used(name) == name = defaultDirectives \/ References(name) # {}

\* The key of the table that register would refuse.
KeyRefused(name) == name # defaultDirectives /\ NoAuthority \in References(name)

\* The table is that of the directives visited so far, the references left are
\* those of the directives to visit, and nothing that was visited is unusable.
BuildingInv ==
  /\ ~ParseFails /\ doc.cache = "none"
  /\ toVisit \subseteq directivesMap
  /\ \A n \in Names :
       directivesAuthoritiesMap[n] = IF n \in toVisit THEN References(n) ELSE {}
  /\ \A a \in Authorities :
       building.kv[a] = IF doc.perAuthority[a] \in Visited /\ doc.perAuthority[a] # defaultDirectives
                        THEN doc.perAuthority[a] ELSE None
  /\ building.defaultWAF = IF defaultDirectives \in Visited THEN defaultDirectives ELSE None
  /\ \A n \in Names : n \in Visited /\ Used(n) => n \notin doc.rejected /\ ~KeyRefused(n)

\* The loop's verdict, and the table it publishes, are those of the document.
IInv ==
  /\ TypeOK
  /\ status = "building" => BuildingInv
  /\ status = "configured" => building = newWAFMap
  /\ status # "started" => perAuthorityWAFs = newWAFMap

-----------------------------------------------------------------------------
(* The document.                                                           *)

\* Only declared names are referenced, and names are not None.
LEMMA Referenced ==
  ASSUME doc \in Documents, ~ParseFails, NEW a \in Authorities
  PROVE  doc.perAuthority[a] \in directivesMap \cup {None}
BY DEF ParseFails, directivesMap, UsesRulesField

LEMMA DocumentType ==
  ASSUME doc \in Documents
  PROVE  /\ directivesMap \subseteq Names
         /\ defaultDirectives \in Names
         /\ None \notin directivesMap
         /\ doc.perAuthority \in [Authorities -> Names \cup {None}]
<1>1. doc.directivesMap \subseteq Names /\ doc.default \in Names \cup {None}
  BY DEF Documents
<1>2. directivesMap \subseteq Names
  BY <1>1, NamesAssumption DEF directivesMap
<1>3. defaultDirectives \in Names
  BY <1>1, NamesAssumption DEF defaultDirectives
<1> QED BY <1>2, <1>3, NamesAssumption DEF Documents

\* The abstract table reads the document as the parser does.
LEMMA SameReading ==
  /\ Table!Declared = directivesMap
  /\ Table!DefaultName = defaultDirectives
  /\ \A name \in Names : Table!InUse(name) <=> Used(name)
BY DEF Table!Declared, Table!OnlyRules, directivesMap, UsesRulesField,
       Table!DefaultName, defaultDirectives, Table!InUse, Used, References

-----------------------------------------------------------------------------
(* The invariant.                                                          *)

LEMMA NewTable == newWAFMap \in Tables
BY DEF newWAFMap, Tables

LEMMA InitHolds == Init => IInv
BY NewTable DEF Init, IInv, TypeOK

LEMMA AcceptDocumentStep ==
  ASSUME IInv, AcceptDocument
  PROVE  IInv'
<1> USE DEF AcceptDocument
<1>1. doc \in Documents /\ building = newWAFMap /\ ~ParseFails
  BY DEF IInv, TypeOK
<1>2. /\ directivesMap' = directivesMap /\ defaultDirectives' = defaultDirectives
      /\ ParseFails' = ParseFails /\ \A n \in Names : References(n)' = References(n)
  BY DEF directivesMap, defaultDirectives, UsesRulesField, ParseFails, References
<1>3. defaultDirectives \in directivesMap \cup {NoName}
  BY <1>1 DEF directivesMap, defaultDirectives, UsesRulesField, ParseFails
<1>4. \A n \in Names : References(n) \in SUBSET Authorities
  BY DEF References
<1>5. Visited' = {}
  BY <1>2 DEF Visited
<1>6. \A n \in Names \ directivesMap : References(n) = {}
  BY <1>1, Referenced, DocumentType, NamesAssumption DEF References
<1>7. TypeOK'
  BY <1>1, <1>2, <1>3, <1>4 DEF IInv, TypeOK
<1>8. BuildingInv'
  BY <1>1, <1>2, <1>5, <1>6 DEF BuildingInv, newWAFMap
<1> QED BY <1>7, <1>8 DEF IInv

\* What a visit leaves alone.
LEMMA VisitFrame ==
  ASSUME IInv, NEW name \in Names, Visits(name)
  PROVE  /\ doc \in Documents /\ BuildingInv /\ name \in directivesMap
         /\ directivesMap' = directivesMap /\ defaultDirectives' = defaultDirectives
         /\ ParseFails' = ParseFails
         /\ \A n \in Names : /\ References(n)' = References(n) /\ Used(n)' = Used(n)
                             /\ KeyRefused(n)' = KeyRefused(n)
         /\ Visited' = Visited \cup {name}
         /\ directivesAuthoritiesMap[name] = References(name)
<1> USE DEF Visits
<1>1. doc \in Documents /\ BuildingInv /\ name \in directivesMap
  BY DEF IInv, TypeOK, BuildingInv
<1>2. /\ directivesMap' = directivesMap /\ defaultDirectives' = defaultDirectives
      /\ ParseFails' = ParseFails
  BY DEF directivesMap, defaultDirectives, UsesRulesField, ParseFails
<1>3. \A n : References(n)' = References(n)
  BY DEF References
<1>4. \A n \in Names : Used(n)' = Used(n) /\ KeyRefused(n)' = KeyRefused(n)
  BY <1>2, <1>3 DEF Used, KeyRefused
<1>5. Visited' = Visited \cup {name}
  BY <1>1, <1>2 DEF Visited
<1>6. directivesAuthoritiesMap[name] = References(name)
  BY <1>1 DEF BuildingInv
<1> QED BY <1>1, <1>2, <1>3, <1>4, <1>5, <1>6

LEMMA SkipStep ==
  ASSUME IInv, NEW name \in Names, Skip(name)
  PROVE  IInv'
<1>1. Visits(name) /\ Unreferenced(name) /\ UNCHANGED <<status, directivesAuthoritiesMap, building>>
  BY DEF Skip
<1>2. status = "building" /\ toVisit' = toVisit \ {name} /\ UNCHANGED <<doc, perAuthorityWAFs>>
  BY <1>1 DEF Visits
<1>3. name # defaultDirectives /\ References(name) = {}
  BY <1>1, VisitFrame DEF Unreferenced
<1>4. TypeOK'
  BY <1>1, <1>2, VisitFrame DEF IInv, TypeOK
<1>5. BuildingInv'
  <2>1. \A a \in Authorities : doc.perAuthority[a] # name
    BY <1>3 DEF References
  <2>2. \A n \in Names :
          directivesAuthoritiesMap'[n] = IF n \in toVisit' THEN References(n)' ELSE {}
    BY <1>1, <1>2, <1>3, VisitFrame DEF BuildingInv
  <2>3. \A a \in Authorities : doc.perAuthority[a] \in Visited' <=> doc.perAuthority[a] \in Visited
    BY <1>1, <1>2, <2>1, VisitFrame
  <2>4. defaultDirectives \in Visited' <=> defaultDirectives \in Visited
    BY <1>1, <1>3, VisitFrame
  <2>5. ~Used(name)
    BY <1>3 DEF Used
  <2> QED BY <1>1, <1>2, <2>2, <2>3, <2>4, <2>5, VisitFrame DEF BuildingInv
<1> QED BY <1>1, <1>2, <1>4, <1>5 DEF IInv

LEMMA FailStep ==
  ASSUME IInv, NEW name \in Names, Fail(name)
  PROVE  IInv'
<1>1. Visits(name) /\ status' = "failed" /\ UNCHANGED <<directivesAuthoritiesMap, building>>
  BY DEF Fail
<1>2. status = "building" /\ toVisit' = toVisit \ {name} /\ UNCHANGED <<doc, perAuthorityWAFs>>
  BY <1>1 DEF Visits
<1>3. TypeOK'
  BY <1>1, <1>2, VisitFrame DEF IInv, TypeOK
<1> QED BY <1>1, <1>2, <1>3 DEF IInv

LEMMA RegisterStep ==
  ASSUME IInv, NEW name \in Names, Register(name)
  PROVE  IInv'
<1> DEFINE owners == AuthoritiesOf(name)
<1>1. /\ Visits(name) /\ ~Unreferenced(name) /\ ~Unusable(name) /\ UNCHANGED status
      /\ directivesAuthoritiesMap' = [directivesAuthoritiesMap EXCEPT ![name] = {}]
      /\ building'.kv = [a \in Authorities |-> IF a \in owners THEN name ELSE building.kv[a]]
      /\ building'.defaultWAF = IF owners = {} THEN name ELSE building.defaultWAF
  BY DEF Register, Delete
<1>2. status = "building" /\ toVisit' = toVisit \ {name} /\ UNCHANGED <<doc, perAuthorityWAFs>>
  BY <1>1 DEF Visits
<1>3. doc \in Documents /\ BuildingInv /\ name \in directivesMap /\ name \notin Visited
      /\ directivesAuthoritiesMap[name] = References(name)
  BY <1>1, VisitFrame DEF Visits, Visited
<1>4. /\ owners \subseteq Authorities
      /\ owners = {} <=> name = defaultDirectives
      /\ name # defaultDirectives => owners = References(name)
  BY <1>1, <1>3 DEF AuthoritiesOf, Unreferenced, References
<1>5. TypeOK'
  <2>1. /\ directivesAuthoritiesMap \in [Names -> SUBSET Authorities]
        /\ building \in Tables
    BY DEF IInv, TypeOK
  <2>2. directivesAuthoritiesMap' \in [Names -> SUBSET Authorities]
    BY <1>1, <2>1
  <2>3. building' \in Tables
    <3>1. building' = [kv |-> building'.kv, defaultWAF |-> building'.defaultWAF]
      BY DEF Register
    <3>2. building'.kv \in [Authorities -> Names \cup {None}]
      BY <1>1, <2>1 DEF Tables
    <3>3. building'.defaultWAF \in Names \cup {None}
      BY <1>1, <2>1 DEF Tables
    <3> QED BY <3>1, <3>2, <3>3 DEF Tables
  <2> QED BY <1>1, <1>2, <2>2, <2>3, VisitFrame DEF IInv, TypeOK
<1>6. BuildingInv'
  <2>1. \A n \in Names :
          directivesAuthoritiesMap'[n] = IF n \in toVisit' THEN References(n)' ELSE {}
    <3>1. directivesAuthoritiesMap \in [Names -> SUBSET Authorities]
      BY DEF IInv, TypeOK
    <3> QED BY <1>1, <1>2, <1>3, <3>1, VisitFrame DEF BuildingInv
  <2>2. \A a \in Authorities :
          building'.kv[a] =
            IF doc'.perAuthority[a] \in Visited' /\ doc'.perAuthority[a] # defaultDirectives'
            THEN doc'.perAuthority[a] ELSE None
    <3> SUFFICES ASSUME NEW a \in Authorities
                 PROVE  building'.kv[a] =
                          IF doc.perAuthority[a] \in Visited' /\ doc.perAuthority[a] # defaultDirectives
                          THEN doc.perAuthority[a] ELSE None
      BY <1>1, <1>2, VisitFrame
    <3>1. doc.perAuthority[a] \in Visited' <=> doc.perAuthority[a] \in Visited \/ doc.perAuthority[a] = name
      BY <1>1, VisitFrame
    <3>2. building.kv[a] =
            IF doc.perAuthority[a] \in Visited /\ doc.perAuthority[a] # defaultDirectives
            THEN doc.perAuthority[a] ELSE None
      BY <1>3 DEF BuildingInv
    <3>3. a \in owners <=> doc.perAuthority[a] = name /\ name # defaultDirectives
      BY <1>4 DEF References
    <3>4. building'.kv[a] = IF a \in owners THEN name ELSE building.kv[a]
      BY <1>1
    <3> HIDE DEF owners
    <3> QED BY <3>1, <3>2, <3>3, <3>4
  <2>3. building'.defaultWAF = IF defaultDirectives' \in Visited' THEN defaultDirectives' ELSE None
    <3>1. defaultDirectives \in Visited' <=> defaultDirectives \in Visited \/ defaultDirectives = name
      BY <1>1, VisitFrame
    <3>2. defaultDirectives' = defaultDirectives
      BY <1>1, VisitFrame
    <3> HIDE DEF owners
    <3> QED BY <1>1, <1>3, <1>4, <3>1, <3>2 DEF BuildingInv
  <2>4. Used(name) => name \notin doc.rejected /\ ~KeyRefused(name)
    BY <1>1, <1>4 DEF Unusable, KeyRefused
  <2>5. toVisit' \subseteq directivesMap' /\ ~ParseFails' /\ doc'.cache = "none"
    BY <1>1, <1>2, <1>3, VisitFrame DEF BuildingInv
  <2>6. \A n \in Names : n \in Visited' /\ Used(n)' => n \notin doc'.rejected /\ ~KeyRefused(n)'
    BY <1>1, <1>2, <1>3, <2>4, VisitFrame DEF BuildingInv
  <2> QED BY <2>1, <2>2, <2>3, <2>5, <2>6 DEF BuildingInv
<1> QED BY <1>1, <1>2, <1>5, <1>6 DEF IInv

LEMMA StartWithCacheStep ==
  ASSUME IInv, StartWithCache
  PROVE  IInv'
<1> USE DEF StartWithCache
<1>1. doc \in Documents /\ building = newWAFMap /\ ~ParseFails
  BY DEF IInv, TypeOK
<1>2. directivesMap' = directivesMap /\ defaultDirectives' = defaultDirectives
  BY DEF directivesMap, defaultDirectives, UsesRulesField
<1>3. defaultDirectives \in directivesMap \cup {NoName}
  BY <1>1 DEF directivesMap, defaultDirectives, UsesRulesField, ParseFails
<1> QED BY <1>1, <1>2, <1>3, NewTable DEF IInv, TypeOK

LEMMA OtherSteps ==
  ASSUME IInv, RefuseDocument \/ Finish \/ UNCHANGED vars
  PROVE  IInv'
<1>1. CASE RefuseDocument
  BY <1>1 DEF RefuseDocument, IInv, TypeOK, directivesMap, UsesRulesField
<1>2. CASE Finish
  <2>1. /\ UNCHANGED <<doc, toVisit, directivesAuthoritiesMap, building>>
        /\ \/ status' = "started" /\ perAuthorityWAFs' = building
           \/ status' = "failed" /\ UNCHANGED perAuthorityWAFs
        /\ status = "building"
    BY <1>2 DEF Finish
  <2>2. directivesMap' = directivesMap /\ defaultDirectives' = defaultDirectives
    BY <2>1 DEF directivesMap, defaultDirectives, UsesRulesField
  <2> QED BY <2>1, <2>2 DEF IInv, TypeOK
<1>3. CASE UNCHANGED vars
  <2>1. UNCHANGED <<doc, status, toVisit, directivesAuthoritiesMap, building, perAuthorityWAFs>>
    BY <1>3 DEF vars
  <2>2. /\ directivesMap' = directivesMap /\ defaultDirectives' = defaultDirectives
        /\ ParseFails' = ParseFails
        /\ Visited' = Visited
        /\ \A n : References(n)' = References(n)
    BY <2>1 DEF directivesMap, defaultDirectives, UsesRulesField, ParseFails, References, Visited
  <2>3. \A n : Used(n)' = Used(n) /\ KeyRefused(n)' = KeyRefused(n)
    BY <2>2 DEF Used, KeyRefused
  <2>4. TypeOK'
    BY <2>1, <2>2 DEF IInv, TypeOK
  <2>5. BuildingInv => BuildingInv'
    BY <2>1, <2>2, <2>3 DEF BuildingInv
  <2> QED BY <2>1, <2>4, <2>5 DEF IInv
<1> QED BY <1>1, <1>2, <1>3

LEMMA Invariance == Safety => []IInv
<1>1. IInv /\ [Next]_vars => IInv'
  BY StartWithCacheStep, AcceptDocumentStep, SkipStep, FailStep, RegisterStep, OtherSteps DEF Next
<1> QED BY <1>1, InitHolds, PTL DEF Safety

-----------------------------------------------------------------------------
(* The theorems.                                                           *)

\* The tables, references and names keep their types, and an accepted document
\* declares its default.
THEOREM TypeCorrect == Safety => []TypeOK
<1>1. IInv => TypeOK
  BY DEF IInv
<1> QED BY <1>1, Invariance, PTL

\* Directives that were never declared do not reach the end of the loop.
THEOREM ReferencesVisited == Safety => []ReferencesAreVisited
<1>1. IInv => ReferencesAreVisited
  BY DEF IInv, BuildingInv, ReferencesAreVisited
<1> QED BY <1>1, Invariance, PTL

\* A document the loop fails on is one that must be refused.
LEMMA FailRefuses ==
  ASSUME IInv, NEW name \in Names, Fail(name)
  PROVE  ~Table!Accepted
<1>1. Visits(name) /\ ~Unreferenced(name) /\ Unusable(name)
  BY DEF Fail
<1>2. name \in directivesMap /\ directivesAuthoritiesMap[name] = References(name) /\ doc.cache = "none"
  BY <1>1, VisitFrame DEF BuildingInv
<1>3. Used(name)
  BY <1>1, <1>2 DEF Unreferenced, Used
<1>4. CASE name \in doc.rejected
  BY <1>2, <1>3, <1>4, SameReading DEF Table!Accepted
<1>5. CASE NoAuthority \in AuthoritiesOf(name)
  <2>1. name # defaultDirectives /\ doc.perAuthority[NoAuthority] = name
    BY <1>2, <1>5 DEF AuthoritiesOf, References
  <2> QED BY <1>2, <2>1, NamesAssumption, SameReading DEF Table!Accepted
<1> QED BY <1>1, <1>4, <1>5 DEF Unusable

\* The table that is complete is the one intended, for a document that must not
\* be refused.
LEMMA FinishTakes ==
  ASSUME IInv, Finish
  PROVE  /\ Table!Accepted
         /\ status' = "started"
         /\ \A a \in Authorities : getWAFOrDefault(perAuthorityWAFs', a) = Table!Intended(a)
<1>1. doc \in Documents /\ BuildingInv /\ Visited = directivesMap /\ doc.cache = "none"
  BY DEF IInv, TypeOK, Finish, Visited, BuildingInv
<1>2. status' = "started" /\ perAuthorityWAFs' = building
  <2>1. \A n \in Names : directivesAuthoritiesMap[n] = {}
    BY <1>1 DEF BuildingInv, Finish
  <2> QED BY <2>1 DEF Finish
<1>3. /\ \A a \in Authorities : doc.perAuthority[a] \in directivesMap \cup {None}
      /\ directivesMap \subseteq Names /\ None \notin directivesMap
      /\ defaultDirectives \in Names
  BY <1>1, Referenced, DocumentType DEF BuildingInv
<1>4. Table!Accepted
  <2>1. doc.default \in doc.directivesMap \cup {None}
        /\ \A a \in Authorities : doc.perAuthority[a] \in doc.directivesMap \cup {None}
    BY <1>1 DEF BuildingInv, ParseFails
  <2>2. \A name \in directivesMap : Used(name) => name \notin doc.rejected
    BY <1>1, <1>3 DEF BuildingInv
  <2>3. doc.perAuthority[NoAuthority] \in {None, defaultDirectives}
    <3> SUFFICES ASSUME doc.perAuthority[NoAuthority] \notin {None, defaultDirectives}
                 PROVE  FALSE
      OBVIOUS
    <3> DEFINE name == doc.perAuthority[NoAuthority]
    <3>1. name \in directivesMap /\ name # defaultDirectives
      BY <1>3, NamesAssumption
    <3>2. NoAuthority \in References(name)
      BY NamesAssumption DEF References
    <3>3. Used(name) /\ KeyRefused(name)
      BY <3>1, <3>2 DEF Used, KeyRefused
    <3> HIDE DEF name
    <3> QED BY <1>1, <1>3, <3>1, <3>3 DEF BuildingInv
  <2> QED BY <1>3, <2>1, <2>2, <2>3, SameReading DEF Table!Accepted
<1>5. ASSUME NEW a \in Authorities
      PROVE  getWAFOrDefault(building, a) = Table!Intended(a)
  <2>1. /\ building.kv[a] = IF doc.perAuthority[a] \in directivesMap
                               /\ doc.perAuthority[a] # defaultDirectives
                            THEN doc.perAuthority[a] ELSE None
        /\ building.defaultWAF = IF defaultDirectives \in directivesMap
                                 THEN defaultDirectives ELSE None
    BY <1>1 DEF BuildingInv
  <2>2. Table!Intended(a) =
          IF doc.perAuthority[a] # None THEN doc.perAuthority[a]
          ELSE IF defaultDirectives \in directivesMap THEN defaultDirectives ELSE None
    BY <1>1, SameReading DEF Table!Intended
  <2> QED BY <1>3, <2>1, <2>2 DEF getWAFOrDefault
<1> QED BY <1>2, <1>4, <1>5

\* The start implements the safety part of the abstract table: the order in which
\* the map is visited decides neither the outcome nor the table.
THEOREM RefinesWAFTable == Safety => Table!TableSafety
<1> DEFINE mappedStatus == IF status = "building" THEN "configured" ELSE status
           mappedTable == [a \in Authorities |-> getWAFOrDefault(perAuthorityWAFs, a)]
<1>1. Init => Table!TableInit
  BY DEF Init, Table!TableInit, newWAFMap, getWAFOrDefault
<1>2. IInv /\ [Next]_vars => [Table!TableNext]_Table!tableVars
  <2> SUFFICES ASSUME IInv, [Next]_vars PROVE [Table!TableNext]_Table!tableVars
    OBVIOUS
  <2>1. CASE RefuseDocument
    <3>1. ~Table!Accepted
      BY <2>1 DEF RefuseDocument, ParseFails, Table!Accepted
    <3> QED BY <2>1, <3>1 DEF RefuseDocument, Table!TableNext, Table!Refuse
  <2>2. CASE AcceptDocument
    BY <2>2 DEF AcceptDocument, Table!tableVars
  <2>3. ASSUME NEW name \in Names, Skip(name) \/ Register(name)
        PROVE  UNCHANGED Table!tableVars
    BY <2>3 DEF Skip, Register, Visits, Table!tableVars
  <2>4. ASSUME NEW name \in Names, Fail(name)
        PROVE  Table!TableNext
    <3>1. ~Table!Accepted
      BY <2>4, FailRefuses
    <3> QED BY <2>4, <3>1 DEF Fail, Visits, Table!TableNext, Table!Refuse
  <2>5. CASE Finish
    <3>1. /\ Table!Accepted /\ status' = "started"
          /\ mappedTable' = [a \in Authorities |-> Table!Intended(a)]
      BY <2>5, FinishTakes
    <3> QED BY <2>5, <3>1 DEF Finish, Table!TableNext, Table!Take
  <2>6. CASE UNCHANGED vars
    BY <2>6 DEF vars, Table!tableVars
  <2>7. CASE StartWithCache
    <3>1. Table!Accepted /\ \A a \in Authorities : Table!Intended(a) = None
      BY <2>7 DEF StartWithCache, ParseFails, Table!Accepted, Table!Intended
    <3>2. mappedTable' = [a \in Authorities |-> None] /\ mappedTable = mappedTable'
      BY <2>7 DEF StartWithCache, IInv, newWAFMap, getWAFOrDefault
    <3> QED BY <2>7, <3>1, <3>2 DEF StartWithCache, Table!TableNext, Table!Take, Table!Refuse
  <2> QED BY <2>1, <2>2, <2>3, <2>4, <2>5, <2>6, <2>7 DEF Next
<1> QED BY <1>1, <1>2, Invariance, PTL DEF Safety, Table!TableSafety
=============================================================================
