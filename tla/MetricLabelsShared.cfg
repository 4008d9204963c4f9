\* Two streams of two authorities.
SPECIFICATION Spec
CONSTANTS
  Labels = {l1}
  Authorities = {a, b}
  Default = other
  Streams = {s1, s2}
  Blank = blank
INVARIANT CountedUnderOwnAuthority
CHECK_DEADLOCK FALSE
