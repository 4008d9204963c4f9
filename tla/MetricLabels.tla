----------------------------- MODULE MetricLabels -----------------------------
(***************************************************************************)
(* The labels under which interruptions are counted (metricLabelsKV in     *)
(* wasmplugin/plugin.go, CountTXInterruption in wasmplugin/metrics.go).    *)
(* A plugin builds one slice of labels when it starts; every stream gets a *)
(* copy of the slice, not of the array behind it, and appends its          *)
(* authority.  A key and its value are appended together and are one cell. *)
(* Go promises that append replaces an array that is full, and not by how  *)
(* long a one: the Go and the TinyGo toolchains differ.                    *)
(***************************************************************************)
EXTENDS Naturals, Sequences

CONSTANTS
  Labels,        \* labels a configuration may have
  Authorities,   \* authorities with directives of their own
  Default,       \* any other authority: the default WAF serves it
  Streams,       \* bound: the streams of the plugin
  Blank          \* a cell that was never written

ASSUME LabelsAssumption ==
  /\ Labels \cap Authorities = {}
  /\ Default \notin Labels \cup Authorities
  /\ Blank \notin Labels \cup Authorities

Cells == Labels \cup Authorities \cup {Blank}

VARIABLES
  pending,   \* labels of config.metricLabels still to be appended
  array,     \* the array behind the plugin's slice, as long as its capacity
  length,    \* the length of the plugin's slice
  stage,     \* how far each stream is
  slice,     \* each stream's slice: its length, and its array unless it is the plugin's
  serves,    \* the authority of each stream
  counted    \* the labels of the counter that each stream has incremented

vars == <<pending, array, length, stage, slice, serves, counted>>

metricLabelsKV == SubSeq(array, 1, length)

\* What a stream finds in its slice now.
LabelsOf(s) ==
  IF slice[s].own = <<>> THEN SubSeq(array, 1, slice[s].len) ELSE slice[s].own

NoSlice == [own |-> <<>>, len |-> 0]

\* A configuration has any labels.
Init ==
  /\ pending \in SUBSET Labels
  /\ array = <<>>
  /\ length = 0
  /\ stage = [s \in Streams |-> "none"]
  /\ slice = [s \in Streams |-> NoSlice]
  /\ serves = [s \in Streams |-> Default]
  /\ counted = [s \in Streams |-> <<>>]

\* The arrays that may replace a full one, with the new cell behind the others.
Grown(cell) ==
  {array \o <<cell>> \o [i \in 1..spare |-> Blank] : spare \in 0..Len(array) + 1}

\* The array after a cell was appended to a slice of it that leaves room.
InPlace(cell, len) == [array EXCEPT ![len + 1] = cell]

\* An iteration of the loop over config.metricLabels, in the order of the map.
AppendLabel(label) ==
  /\ label \in pending
  /\ pending' = pending \ {label}
  /\ IF length < Len(array) THEN array' = InPlace(label, length) ELSE array' \in Grown(label)
  /\ length' = length + 1
  /\ UNCHANGED <<stage, slice, serves, counted>>

\* OnPluginStart has returned.
Started == pending = {}

\* A stream that is not given the labels starts from an empty slice.
BugNewHttpContext(s) ==
  /\ Started /\ stage[s] = "none"
  /\ stage' = [stage EXCEPT ![s] = "created"]
  /\ UNCHANGED <<pending, array, length, slice, serves, counted>>

NewHttpContext(s) ==
  /\ Started /\ stage[s] = "none"
  /\ stage' = [stage EXCEPT ![s] = "created"]
  /\ slice' = [slice EXCEPT ![s] = [own |-> <<>>, len |-> length]]
  /\ UNCHANGED <<pending, array, length, serves, counted>>

BugAppendsAuthority(a) == a = Default
\* The authority becomes a label unless the default WAF serves it.
AppendsAuthority(a) == a # Default

\* Appends to the array of the plugin while there is room in it.
AppendAuthority(s, a) ==
  LET len == slice[s].len
  IN  IF len < Len(array)
      THEN /\ array' = InPlace(a, len)
           /\ slice' = [slice EXCEPT ![s].len = len + 1]
      ELSE /\ slice' = [slice EXCEPT ![s] = [own |-> LabelsOf(s) \o <<a>>, len |-> len + 1]]
           /\ UNCHANGED array

OnHttpRequestHeaders(s, a) ==
  /\ stage[s] = "created"
  /\ stage' = [stage EXCEPT ![s] = "serving"]
  /\ serves' = [serves EXCEPT ![s] = a]
  /\ IF AppendsAuthority(a) THEN AppendAuthority(s, a) ELSE UNCHANGED <<array, slice>>
  /\ UNCHANGED <<pending, length, counted>>

\* handleInterruption, at most once in a stream, in any phase.
CountTXInterruption(s) ==
  /\ stage[s] = "serving"
  /\ stage' = [stage EXCEPT ![s] = "interrupted"]
  /\ counted' = [counted EXCEPT ![s] = LabelsOf(s)]
  /\ UNCHANGED <<pending, array, length, slice, serves>>

Next ==
  \/ \E label \in Labels : AppendLabel(label)
  \/ \E s \in Streams :
       \/ NewHttpContext(s)
       \/ \E a \in Authorities \cup {Default} : OnHttpRequestHeaders(s, a)
       \/ CountTXInterruption(s)

Spec == Init /\ [][Next]_vars

-----------------------------------------------------------------------------
(* Properties.                                                             *)

\* The slices lie within the array, the array of a stream is never empty, and
\* the slice of a stream has the labels of the plugin and at most one more.
TypeOK ==
  /\ pending \subseteq Labels
  /\ array \in Seq(Cells)
  /\ length \in 0..Len(array)
  /\ stage \in [Streams -> {"none", "created", "serving", "interrupted"}]
  /\ slice \in [Streams -> [own : Seq(Cells), len : Nat]]
  /\ \A s \in Streams : IF slice[s].own = <<>> THEN slice[s].len <= Len(array)
                                               ELSE slice[s].len = Len(slice[s].own)
  /\ \A s \in Streams : stage[s] # "none" => slice[s].len \in length..length + 1
  /\ serves \in [Streams -> Authorities \cup {Default}]
  /\ counted \in [Streams -> Seq(Cells)]

\* A stream of the default WAF is counted under no authority at all.
DefaultCountedWithoutAuthority ==
  \A s \in Streams : stage[s] = "interrupted" /\ serves[s] = Default =>
    counted[s] = metricLabelsKV

Ours(s) == metricLabelsKV \o (IF serves[s] = Default THEN <<>> ELSE <<serves[s]>>)

\* An interruption is counted under the authority of its own stream.
CountedUnderOwnAuthority ==
  \A s \in Streams : stage[s] = "interrupted" => counted[s] = Ours(s)

\* So it is when the array of the plugin has no room left: appending copies it.
CountedUnderOwnAuthorityIfFull ==
  Started /\ length = Len(array) => CountedUnderOwnAuthority
=============================================================================
