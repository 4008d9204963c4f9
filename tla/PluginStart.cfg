\* Three names, of which one is empty and one that of the field "rules"; three
\* authorities, of which one is empty and two may share their directives.
SPECIFICATION Spec
CONSTANTS
  Names = {empty, default, rs1}
  Authorities = {emptyKey, foo, bar}
  NoName = empty
  NoAuthority = emptyKey
  RulesName = default
  None = none
INVARIANTS
  TypeOK
  ReferencesAreVisited
PROPERTY ImplementsWAFTable
CHECK_DEADLOCK FALSE
