------------------------------- MODULE Lookups -------------------------------
(***************************************************************************)
(* The stateless lookups of the plugin, one call each: the rule file       *)
(* system (RulesFS) and the peer of a connection (Address).                *)
(***************************************************************************)
EXTENDS RulesFS, Address

CONSTANTS
  Components,      \* bound: the components of names that are looked up
  MaxDepth,        \* bound: how many components a name has
  AddressPorts     \* bound: the ports an address names, with either sign

ASSUME MaxDepthAssumption == MaxDepth \in Nat
ASSUME AddressPortsAssumption == AddressPorts \subseteq Nat

VARIABLES query, answer

\* The files of wasmplugin/rules; of its directory, two.
EmbeddedFiles == {
  <<"coraza.conf-recommended.conf">>, <<"coraza-demo.conf">>,
  <<"crs-setup.conf.example">>, <<"ftw-config.conf">>,
  <<"crs", "REQUEST-901-INITIALIZATION.conf">>, <<"crs", "unix-shell.data">>}

Names == UNION {[1..n -> Components] : n \in 1..MaxDepth}

Portless == {Missing, Malformed, HostPort(Missing), HostPort(NotANumber)}
Addresses ==
  Portless \cup {HostPort(n) : n \in AddressPorts} \cup {HostPort(-n) : n \in AddressPorts}

\* What a host may say of a port: nothing, eight bytes, or another number of them.
Forms == {"missing", "short", "uint64", "long"}
PortProperty(form, n) ==
  CASE form = "missing" -> Missing
    [] form = "short" -> SubSeq(PutUint64(n), 1, 7)
    [] form = "uint64" -> PutUint64(n)
    [] form = "long" -> Append(PutUint64(n), 1)

Pending == <<>>

Init ==
  /\ answer = Pending
  /\ \/ query \in [kind : {"rules"}, name : Names]
     \/ query \in [kind : {"address"}, address : Addresses, form : Forms, n : 0..(UintModulus * UintModulus - 1)]

Join(directory, entry) == IF directory = Root THEN <<entry>> ELSE Append(directory, entry)

\* What an Include does: read a file, or list a directory and read its entries.
LookupRules ==
  /\ query.kind = "rules"
  /\ answer' = <<[file |-> ReadFile(query.name),
                  opened |-> [e \in ReadDir(query.name) |-> Open(Join(query.name, e))],
                  read |-> [e \in ReadDir(query.name) |-> ReadFile(Join(query.name, e))]]>>

LookupAddress ==
  /\ query.kind = "address"
  /\ answer' = <<retrieveAddressInfo(query.address, PortProperty(query.form, query.n))>>

Next == answer = Pending /\ (LookupRules \/ LookupAddress) /\ UNCHANGED query

Spec == Init /\ [][Next]_<<query, answer>>

-----------------------------------------------------------------------------
(* Properties.                                                             *)

Answered(kind) == query.kind = kind /\ answer # Pending
Directories == UNION {{SubSeq(f, 1, n) : n \in 0..(Len(f) - 1)} : f \in Files}

\* ReadDir maps names with code of its own, Open and ReadFile with mapPath: what
\* the one lists under a name, the others find under it, the same files of one
\* directory.  An Include of a directory reads what it lists.
ListedIsReadable ==
  Answered("rules") /\ DOMAIN answer[1].read # {} =>
    \E d \in Directories :
      /\ DOMAIN answer[1].read = Children(d)
      /\ \A e \in Children(d) :
           /\ answer[1].opened[e] = Append(d, e)
           /\ answer[1].read[e] = IF Append(d, e) \in Files THEN Append(d, e) ELSE NoFile

\* An alias stands for a file, or a directory, that is embedded.
AliasesAreEmbedded ==
  Answered("rules") /\ Len(query.name) = 1 =>
    /\ query.name[1] \in DOMAIN filesMapping => answer[1].file \in Files
    /\ query.name[1] \in DOMAIN dirsMapping => DOMAIN answer[1].read # {}

\* A port that fits an int is exactly the number the host wrote, another one is
\* dropped: no number of eight bytes becomes a negative port or a smaller one.
PortIsExact ==
  Answered("address") /\ query.form \in {"uint64", "long"} =>
    answer[1].port = IF query.n <= MaxInt THEN query.n ELSE NoPort

\* A host that tells the truth in both properties, as far as it has them, gets
\* the peer's own port, or none, and none only when the port property cannot be
\* read, or is missing and the address has no port that is a number.
PeerIsReported ==
  LET truthful ==
        \/ query.address \in Portless
        \/ query.address = HostPort(query.n) /\ query.n <= MaxInt
      lost == \/ query.form = "short" \/ query.n > MaxInt
              \/ query.form = "missing" /\ query.address # HostPort(query.n)
  IN  Answered("address") /\ truthful =>
        /\ answer[1].port = IF lost THEN NoPort ELSE query.n
        /\ answer[1].ip = IF query.address \in {Missing, Malformed} THEN Missing ELSE Host
=============================================================================
