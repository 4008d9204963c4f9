\* Three streams, two authorities, up to four labels: every capacity that two
\* toolchains give such a slice.
SPECIFICATION Spec
CONSTANTS
  Labels = {l1, l2, l3, l4}
  Authorities = {a, b}
  Default = other
  Streams = {s1, s2, s3}
  Blank = blank
INVARIANTS
  TypeOK
  DefaultCountedWithoutAuthority
  CountedUnderOwnAuthorityIfFull
CHECK_DEADLOCK FALSE
