---------------------------- MODULE LookupsProofs ----------------------------
(***************************************************************************)
(* Proofs about Lookups: the file system of the embedded rules agrees with *)
(* itself under every name, whatever files are embedded, and the peer of a *)
(* connection is the one the host reports, for every width of a byte.      *)
(***************************************************************************)
EXTENDS Lookups, SequenceTheorems, TLAPS

LEMMA Aliases ==
  /\ DOMAIN dirsMapping = {"@owasp_crs"} /\ dirsMapping["@owasp_crs"] = <<"crs">>
  /\ DOMAIN filesMapping = {"@recommended-conf", "@demo-conf", "@ftw-conf",
                            "@crs-setup-demo-conf", "@crs-setup-conf"}
BY DEF dirsMapping, filesMapping

LEMMA PlainName ==
  ASSUME NEW e \in PlainNames
  PROVE  e \notin {"", ".", ".."} /\ e \notin DOMAIN dirsMapping /\ e \notin DOMAIN filesMapping
BY DEF PlainNames

\* What is listed in a directory is below it, a file or a directory with files.
LEMMA ChildrenCases ==
  ASSUME NEW S, NEW d \in Seq(S), NEW e \in Children(d)
  PROVE  /\ e \in PlainNames /\ d \in Seq(PlainNames) /\ d \in Directories
         /\ Append(d, e) \in Files \/ Children(Append(d, e)) # {}
<1>1. PICK f \in Files : Len(f) > Len(d) /\ SubSeq(f, 1, Len(d)) = d /\ e = f[Len(d) + 1]
  BY DEF Children, Under
<1>2. f \in Seq(PlainNames) /\ Len(d) \in Nat /\ Len(d) + 1 \in 1..Len(f)
  BY <1>1, FilesAssumption
<1>3. e \in PlainNames
  BY <1>1, <1>2, ElementOfSeq
<1>4. d \in Seq(PlainNames)
  <2>1. \A i \in 1..Len(d) : f[i] \in PlainNames
    BY <1>1, <1>2, ElementOfSeq
  <2> QED BY <1>1, <1>2, <2>1, SubSeqProperties
<1>5. d \in Directories
  <2>1. Len(d) \in 0..(Len(f) - 1)
    BY <1>1, <1>2
  <2>2. d \in {SubSeq(f, 1, n) : n \in 0..(Len(f) - 1)}
    BY <1>1, <2>1
  <2> QED BY <2>2 DEF Directories
<1>6. SubSeq(f, 1, Len(d) + 1) = Append(d, e)
  <2>1. SubSeq(f, 1, Len(d) + 1) = SubSeq(f, 1, Len(d) + 1 - 1) \o <<f[Len(d) + 1]>>
    BY <1>2, SubSeqRecursiveSecond
  <2>2. Len(d) + 1 - 1 = Len(d)
    BY <1>2
  <2> QED BY <1>1, <1>3, <1>4, <2>1, <2>2, AppendIsConcat
<1>7. Append(d, e) \in Files \/ Children(Append(d, e)) # {}
  <2>1. Len(Append(d, e)) = Len(d) + 1
    BY <1>3, <1>4, AppendProperties
  <2>2. CASE Len(f) = Len(d) + 1
    BY <1>2, <1>6, <2>2, SubSeqFull
  <2>3. CASE Len(f) # Len(d) + 1
    <3>1. Len(f) > Len(Append(d, e))
      BY <1>1, <1>2, <2>1, <2>3
    <3> QED BY <1>6, <2>1, <3>1 DEF Children, Under
  <2> QED BY <2>2, <2>3
<1> QED BY <1>3, <1>4, <1>5, <1>7

\* Everything a path is made of.
Parts == Components \cup PlainNames \cup {"crs"}

LEMMA NameParts ==
  ASSUME NEW name \in Names
  PROVE  name \in Seq(Parts) /\ name # <<>> /\ Head(name) \in Parts /\ Tail(name) \in Seq(Parts)
<1>1. name \in Seq(Parts) /\ name # <<>>
  BY MaxDepthAssumption DEF Names, Parts
<1> QED BY <1>1, HeadTailProperties

LEMMA AppendDeepens ==
  ASSUME NEW S, NEW p \in Seq(S), p # <<>>, NEW e \in S
  PROVE  /\ Len(Append(p, e)) > 1 /\ Len(Append(p, e)) # 1
         /\ Head(Append(p, e)) = Head(p) /\ Tail(Append(p, e)) = Append(Tail(p), e)
OBVIOUS

\* ReadDir and mapPath agree: what the one lists, the other looks for in the
\* same directory.
LEMMA ListingMaps ==
  ASSUME NEW name \in Names, ReadDir(name) # {}
  PROVE  \E d \in Seq(Parts) :
           /\ ReadDir(name) = Children(d)
           /\ \A e \in PlainNames : mapPath(Join(name, e)) = Append(d, e)
<1>0. /\ name \in Seq(Parts) /\ name # <<>> /\ Head(name) \in Parts /\ Tail(name) \in Seq(Parts)
      /\ PlainNames \subseteq Parts /\ "crs" \in Parts
  BY NameParts DEF Parts
<1>1. CASE name = Root
  <2>1. Head(name) \notin DOMAIN dirsMapping
    BY <1>1, Aliases DEF Root
  <2>2. ReadDir(name) = Children(<<>>)
    BY <1>1, <2>1 DEF ReadDir, fsReadDir, ValidPath, Location
  <2>3. ASSUME NEW e \in PlainNames
        PROVE  mapPath(Join(name, e)) = Append(<<>>, e)
    <3>1. Join(name, e) = <<e>> /\ Append(<<>>, e) = <<e>> /\ Len(<<e>>) = 1 /\ Head(<<e>>) = e
      BY <1>1 DEF Join
    <3> QED BY <3>1, PlainName DEF mapPath
  <2>4. <<>> \in Seq(Parts)
    OBVIOUS
  <2> QED BY <2>2, <2>3, <2>4
<1>2. CASE name # Root /\ Head(name) \in DOMAIN dirsMapping
  <2> DEFINE p == <<"crs">> \o Tail(name)
  <2>1. p \in Seq(Parts) /\ p # Root
    <3>1. p \in Seq(Parts) /\ p[1] = "crs"
      BY <1>0
    <3>2. Root[1] = "."
      BY DEF Root
    <3> HIDE DEF p
    <3> QED BY <3>1, <3>2
  <2>2. ReadDir(name) = Children(p)
    BY <1>0, <1>2, <2>1, Aliases DEF ReadDir, fsReadDir, Location
  <2>3. ASSUME NEW e \in PlainNames
        PROVE  mapPath(Join(name, e)) = Append(p, e)
    <3>1. Join(name, e) = Append(name, e) /\ e \in Parts
      BY <1>0, <1>2 DEF Join
    <3>2. /\ Len(Append(name, e)) > 1 /\ Head(Append(name, e)) = Head(name)
          /\ Tail(Append(name, e)) = Append(Tail(name), e)
        BY <1>0, <3>1, AppendDeepens
    <3>3. <<"crs">> \o Append(Tail(name), e) = Append(p, e)
      BY <1>0, <3>1
    <3> QED BY <1>2, <3>1, <3>2, <3>3, Aliases DEF mapPath
  <2> QED BY <2>1, <2>2, <2>3
<1>3. CASE name # Root /\ Head(name) \notin DOMAIN dirsMapping
  <2>1. ReadDir(name) = Children(name)
    BY <1>0, <1>3 DEF ReadDir, fsReadDir, Location
  <2>2. ASSUME NEW e \in PlainNames
        PROVE  mapPath(Join(name, e)) = Append(name, e)
    <3>1. Join(name, e) = Append(name, e) /\ e \in Parts
      BY <1>0, <1>3 DEF Join
    <3>2. Len(Append(name, e)) # 1 /\ Head(Append(name, e)) = Head(name)
      BY <1>0, <3>1, AppendDeepens
    <3> QED BY <1>3, <3>1, <3>2 DEF mapPath
  <2> QED BY <1>0, <2>1, <2>2
<1> QED BY <1>1, <1>2, <1>3

\* Under the path of an entry the embedded file system has the entry.
LEMMA EntryFound ==
  ASSUME NEW d \in Seq(Parts), NEW e \in Children(d)
  PROVE  /\ fsOpen(Append(d, e)) = Append(d, e)
         /\ fsReadFile(Append(d, e)) = IF Append(d, e) \in Files THEN Append(d, e) ELSE NoFile
<1> DEFINE q == Append(d, e)
<1>1. /\ e \in PlainNames /\ d \in Seq(PlainNames)
      /\ q \in Files \/ Children(q) # {}
  BY ChildrenCases
<1>2. q \in Seq(PlainNames) /\ q # <<>> /\ Len(q) = Len(d) + 1 /\ q[Len(d) + 1] = e
  BY <1>1, AppendProperties
<1>3. \A i \in DOMAIN q : q[i] \notin {"", ".", ".."}
  <2> HIDE DEF q
  <2>1. \A i \in DOMAIN q : q[i] \in PlainNames
    BY <1>2
  <2> QED BY <2>1, PlainName
<1>4. ValidPath(q)
  BY <1>2, <1>3 DEF ValidPath
<1>5. q # Root
  <2> HIDE DEF q
  <2>1. Root[1] = "." /\ 1 \in DOMAIN Root
    BY DEF Root
  <2> QED BY <1>3, <2>1
<1> QED BY <1>1, <1>4, <1>5 DEF fsOpen, fsReadFile, fsReadDir, Location

LEMMA ListedStep ==
  ASSUME query.kind = "rules" => query.name \in Names, LookupRules
  PROVE  ListedIsReadable'
<1> SUFFICES ASSUME ReadDir(query.name) # {}
             PROVE  \E d \in Directories :
                      /\ ReadDir(query.name) = Children(d)
                      /\ \A e \in Children(d) :
                           /\ Open(Join(query.name, e)) = Append(d, e)
                           /\ ReadFile(Join(query.name, e))
                                = IF Append(d, e) \in Files THEN Append(d, e) ELSE NoFile
  BY DEF ListedIsReadable, LookupRules
<1>1. PICK d \in Seq(Parts) :
        /\ ReadDir(query.name) = Children(d)
        /\ \A e \in PlainNames : mapPath(Join(query.name, e)) = Append(d, e)
  BY ListingMaps DEF LookupRules
<1>2. \A e \in Children(d) : e \in PlainNames /\ d \in Directories
  BY ChildrenCases
<1>3. \A e \in Children(d) : mapPath(Join(query.name, e)) = Append(d, e)
  BY <1>1, <1>2
<1> QED BY <1>1, <1>2, <1>3, EntryFound DEF Open, ReadFile

-----------------------------------------------------------------------------
(* The embedded files.                                                     *)

\* An alias of a file is read as the file, an embedded one.
LEMMA FileAlias ==
  ASSUME EmbeddedFiles \subseteq Files, NEW name, name \in Seq(Parts), Len(name) = 1,
         name[1] \in DOMAIN filesMapping
  PROVE  ReadFile(name) \in Files
<1>1. Head(name) = name[1]
  OBVIOUS
<1>2. filesMapping[name[1]] \in EmbeddedFiles
  BY Aliases DEF filesMapping, EmbeddedFiles
<1>3. mapPath(name) = filesMapping[name[1]]
  BY <1>1 DEF mapPath
<1>4. ValidPath(mapPath(name))
  <2>1. \A f \in Files : f # <<>> /\ \A i \in DOMAIN f : f[i] \in PlainNames
    BY FilesAssumption, ElementOfSeq
  <2> QED BY <1>2, <1>3, <2>1, PlainName DEF ValidPath
<1> QED BY <1>2, <1>3, <1>4 DEF ReadFile, fsReadFile

\* The alias of the directory lists what the directory has.
LEMMA DirectoryAlias ==
  ASSUME EmbeddedFiles \subseteq Files, NEW name, name \in Seq(Parts), Len(name) = 1,
         name[1] \in DOMAIN dirsMapping
  PROVE  ReadDir(name) # {}
<1>1. Head(name) = name[1] /\ Tail(name) \in Seq(Parts) /\ Len(Tail(name)) = 0 /\ name # <<>>
  <2>1. name # <<>> /\ Head(name) = name[1]
    OBVIOUS
  <2> QED BY <2>1, HeadTailProperties
<1>2. dirsMapping[Head(name)] \o Tail(name) = <<"crs">>
  <2>1. Tail(name) = <<>>
    BY <1>1, EmptySeq
  <2>2. <<"crs">> \o <<>> = <<"crs">>
    OBVIOUS
  <2> QED BY <1>1, <2>1, <2>2, Aliases
<1>3. ReadDir(name) = fsReadDir(<<"crs">>)
  BY <1>1, <1>2 DEF ReadDir
<1>4. ValidPath(<<"crs">>) /\ <<"crs">> # Root
  <2>1. <<"crs">> # <<>> /\ DOMAIN <<"crs">> = 1..1 /\ <<"crs">>[1] = "crs" /\ Root[1] = "."
    BY DEF Root
  <2>2. \A i \in 1..1 : i = 1
    OBVIOUS
  <2> QED BY <2>1, <2>2 DEF ValidPath
<1>5. <<"crs", "unix-shell.data">> \in Under(<<"crs">>)
  <2>1. <<"crs", "unix-shell.data">> \in Files
    BY DEF EmbeddedFiles
  <2>2. SubSeq(<<"crs", "unix-shell.data">>, 1, 1) = <<"crs">>
    <3> DEFINE g == SubSeq(<<"crs", "unix-shell.data">>, 1, 1)
    <3>1. \A i \in 1..1 : <<"crs", "unix-shell.data">>[i] = "crs"
      OBVIOUS
    <3>2. g \in Seq({"crs"}) /\ Len(g) = 1
      BY <3>1, SubSeqProperties
    <3> HIDE DEF g
    <3>3. g = <<"crs">>
      BY <3>2
    <3> QED BY <3>3 DEF g
  <2> QED BY <2>1, <2>2 DEF Under
<1> QED BY <1>3, <1>4, <1>5 DEF fsReadDir, Location, Children

-----------------------------------------------------------------------------
(* Ports.                                                                  *)

LEMMA Widths ==
  /\ Base \in Nat \ {0} /\ Square \in Nat \ {0} /\ UintModulus \in Nat \ {0}
  /\ MaxInt \in Nat /\ MaxInt < UintModulus
<1>1. \A a, b \in Nat \ {0} : a * b \in Nat \ {0}
  OBVIOUS
<1>2. Base \in Nat \ {0} /\ Base > 1
  BY BaseAssumption
<1>3. Square \in Nat \ {0} /\ Square > 1
  BY <1>1, <1>2 DEF Square
<1>4. UintModulus \in Nat \ {0} /\ UintModulus > 1
  BY <1>1, <1>3 DEF UintModulus
<1> QED BY <1>2, <1>3, <1>4 DEF MaxInt

LEMMA Division ==
  ASSUME NEW n \in Nat, NEW c \in Nat \ {0}
  PROVE  n % c \in Nat /\ n \div c \in Nat /\ n = (n % c) + c * (n \div c)
OBVIOUS

LEMMA Joined ==
  ASSUME NEW a \in Seq(Nat), NEW b \in Seq(Nat)
  PROVE  /\ a \o b \in Seq(Nat) /\ Len(a \o b) = Len(a) + Len(b)
         /\ \A i \in 1..Len(a) : (a \o b)[i] = a[i]
         /\ \A i \in 1..Len(b) : (a \o b)[Len(a) + i] = b[i]
BY ConcatProperties

LEMMA TwoBytes ==
  ASSUME NEW n \in Nat
  PROVE  /\ PutUint16(n) \in Seq(Nat) /\ Len(PutUint16(n)) = 2
         /\ n = PutUint16(n)[1] + Base * PutUint16(n)[2]
BY Widths, Division DEF PutUint16

LEMMA FourBytes ==
  ASSUME NEW n \in Nat
  PROVE  /\ PutUint32(n) \in Seq(Nat) /\ Len(PutUint32(n)) = 4
         /\ n = Uint32(PutUint32(n), 1)
<1> DEFINE low == n % Square  high == n \div Square
           a == PutUint16(low)  b == PutUint16(high)  c == PutUint32(n)
<1>1. low \in Nat /\ high \in Nat /\ n = low + Square * high
  BY Widths, Division
<1>2. c = a \o b
  BY DEF PutUint32
<1> HIDE DEF low, high, c
<1>3. /\ a \in Seq(Nat) /\ Len(a) = 2 /\ b \in Seq(Nat) /\ Len(b) = 2
      /\ low = a[1] + Base * a[2] /\ high = b[1] + Base * b[2]
  BY <1>1, TwoBytes
<1> HIDE DEF a, b
<1>4. /\ c \in Seq(Nat) /\ Len(c) = 4
      /\ \A i \in 1..2 : c[i] = a[i] /\ c[2 + i] = b[i]
  <2>1. /\ c \in Seq(Nat) /\ Len(c) = Len(a) + Len(b)
        /\ \A i \in 1..Len(a) : c[i] = a[i]
        /\ \A i \in 1..Len(b) : c[Len(a) + i] = b[i]
    BY <1>2, <1>3, Joined
  <2> QED BY <1>3, <2>1
<1>5. c[1] = a[1] /\ c[2] = a[2] /\ c[3] = b[1] /\ c[4] = b[2]
  BY <1>4
<1>6. Uint16(c, 1) = low /\ Uint16(c, 3) = high
  BY <1>3, <1>5 DEF Uint16
<1>7. n = Uint32(c, 1)
  BY <1>1, <1>6 DEF Uint32
<1> QED BY <1>4, <1>7 DEF c

\* What the host writes is what parsePort reads, bytes after the eighth or not.
LEMMA EightBytes ==
  ASSUME NEW n \in Nat
  PROVE  /\ PutUint64(n) \in Seq(Nat) /\ Len(PutUint64(n)) = 8
         /\ Uint64(PutUint64(n)) = n
         /\ Uint64(Append(PutUint64(n), 1)) = n
<1> DEFINE low == n % UintModulus  high == n \div UintModulus
           a == PutUint32(low)  b == PutUint32(high)  c == PutUint64(n)  d == Append(c, 1)
<1>1. low \in Nat /\ high \in Nat /\ n = low + UintModulus * high
  BY Widths, Division
<1>2. c = a \o b
  BY DEF PutUint64
<1> HIDE DEF low, high, c
<1>3. /\ a \in Seq(Nat) /\ Len(a) = 4 /\ b \in Seq(Nat) /\ Len(b) = 4
      /\ low = Uint32(a, 1) /\ high = Uint32(b, 1)
  BY <1>1, FourBytes
<1> HIDE DEF a, b
<1>4. /\ c \in Seq(Nat) /\ Len(c) = 8
      /\ \A i \in 1..4 : c[i] = a[i] /\ c[4 + i] = b[i]
  <2>1. /\ c \in Seq(Nat) /\ Len(c) = Len(a) + Len(b)
        /\ \A i \in 1..Len(a) : c[i] = a[i]
        /\ \A i \in 1..Len(b) : c[Len(a) + i] = b[i]
    BY <1>2, <1>3, Joined
  <2> QED BY <1>3, <2>1
<1>5. ASSUME NEW p, \A i \in 1..8 : p[i] = c[i]
      PROVE  Uint64(p) = n
  <2>1. /\ p[1] = a[1] /\ p[2] = a[2] /\ p[3] = a[3] /\ p[4] = a[4]
        /\ p[5] = b[1] /\ p[6] = b[2] /\ p[7] = b[3] /\ p[8] = b[4]
    BY <1>4, <1>5
  <2>2. Uint32(p, 1) = Uint32(a, 1) /\ Uint32(p, 5) = Uint32(b, 1)
    BY <2>1 DEF Uint32, Uint16
  <2> QED BY <1>1, <1>3, <2>2 DEF Uint64
<1>6. \A i \in 1..8 : d[i] = c[i]
  <2>1. \A i \in 1..Len(c) : d[i] = c[i]
    <3>1. 1 \in Nat /\ c \in Seq(Nat)
      BY <1>4
    <3> QED BY <3>1, AppendProperties
  <2> QED BY <1>4, <2>1
<1> HIDE DEF d
<1>7. Uint64(c) = n /\ Uint64(d) = n
  BY <1>5, <1>6
<1> QED BY <1>4, <1>7 DEF c, d

\* parsePort gives the number that was written, or no port.
LEMMA PortRead ==
  ASSUME NEW form \in Forms, NEW n \in Nat
  PROVE  /\ PortProperty(form, n) = Missing <=> form = "missing"
         /\ form = "short" => parsePort(PortProperty(form, n)) = NoPort
         /\ form \in {"uint64", "long"} =>
              parsePort(PortProperty(form, n)) = IF n <= MaxInt THEN n ELSE NoPort
<1> DEFINE b == PutUint64(n)
<1>1. /\ b \in Seq(Nat) /\ Len(b) = 8
      /\ Uint64(b) = n /\ Uint64(Append(b, 1)) = n
  BY EightBytes
<1> HIDE DEF b
<1>2. n <= MaxInt => ToInt(n) = n
  BY Widths DEF ToInt
<1>3. CASE form = "missing"
  BY <1>3 DEF PortProperty
<1>4. CASE form = "short"
  <2>1. SubSeq(b, 1, 7) \in Seq(Nat) /\ Len(SubSeq(b, 1, 7)) = 7
    <3>1. \A i \in 1..Len(b) : b[i] \in Nat
      <4>1. b \in Seq(Nat)
        BY <1>1
      <4> QED BY <4>1, ElementOfSeq
    <3>2. \A i \in 1..7 : b[i] \in Nat
      BY <1>1, <3>1
    <3> QED BY <3>2, SubSeqProperties
  <2>2. PortProperty(form, n) = SubSeq(b, 1, 7)
    BY <1>4 DEF PortProperty, b
  <2>3. parsePort(SubSeq(b, 1, 7)) = NoPort
    BY <2>1 DEF parsePort
  <2> QED BY <1>4, <2>1, <2>2, <2>3, MissingAssumption
<1>5. CASE form = "uint64"
  <2>1. PortProperty(form, n) = b
    BY <1>5 DEF PortProperty, b
  <2>2. parsePort(b) = IF n <= MaxInt THEN n ELSE NoPort
    BY <1>1, <1>2 DEF parsePort, Fits
  <2> QED BY <1>1, <1>5, <2>1, <2>2, MissingAssumption
<1>6. CASE form = "long"
  <2>1. Append(b, 1) \in Seq(Nat) /\ Len(Append(b, 1)) >= 8
    <3>1. 1 \in Nat /\ b \in Seq(Nat)
      BY <1>1
    <3>2. Append(b, 1) \in Seq(Nat) /\ Len(Append(b, 1)) = Len(b) + 1
      BY <3>1, AppendProperties
    <3> QED BY <1>1, <3>2
  <2>2. PortProperty(form, n) = Append(b, 1)
    BY <1>6 DEF PortProperty, b
  <2>3. parsePort(Append(b, 1)) = IF n <= MaxInt THEN n ELSE NoPort
    BY <1>1, <1>2, <2>1 DEF parsePort, Fits
  <2> QED BY <1>6, <2>1, <2>2, <2>3, MissingAssumption
<1> QED BY <1>3, <1>4, <1>5, <1>6 DEF Forms

\* The four kinds of address differ, and each gives its own port.
LEMMA AddressRead ==
  ASSUME NEW address \in Addresses, NEW n \in Nat
  PROVE  LET target == IF address = Missing THEN [host |-> Missing, port |-> Missing]
                       ELSE SplitHostPort(address)
         IN  /\ target.host = IF address \in {Missing, Malformed} THEN Missing ELSE Host
             /\ address \in Portless =>
                  address # HostPort(n) /\ AddressPort(target.port) = NoPort
             /\ address = HostPort(n) /\ n <= MaxInt => AddressPort(target.port) = n
<1>1. /\ \A k \in Int \cup {Missing, NotANumber} : Missing # HostPort(k) /\ Malformed # HostPort(k)
      /\ Missing # Malformed
      /\ \A k \in Int : HostPort(k) # HostPort(Missing) /\ HostPort(k) # HostPort(NotANumber)
  <2> DEFINE Records == [host : {Host}, port : Int \cup {Missing, NotANumber}, malformed : BOOLEAN]
  <2>1. ASSUME NEW k \in Int \cup {Missing, NotANumber}
        PROVE  /\ HostPort(k) \in Records /\ HostPort(k).port = k
               /\ HostPort(k).malformed = FALSE
    BY DEF HostPort
  <2>2. Malformed \in Records /\ Malformed.malformed = TRUE
    BY DEF Malformed
  <2>3. Missing \notin Int /\ NotANumber \notin Int /\ Missing \notin Records
    BY MissingAssumption
  <2> HIDE DEF Records
  <2>4. \A k \in Int \cup {Missing, NotANumber} : Missing # HostPort(k) /\ Malformed # HostPort(k)
    BY <2>1, <2>2, <2>3
  <2>5. \A k \in Int : HostPort(k) # HostPort(Missing) /\ HostPort(k) # HostPort(NotANumber)
    BY <2>1, <2>3
  <2> QED BY <2>2, <2>3, <2>4, <2>5
<1>2. CASE address \in {Missing, Malformed}
  BY <1>1, <1>2 DEF SplitHostPort, Malformed, AddressPort
<1>3. CASE address \in {HostPort(Missing), HostPort(NotANumber)}
  <2>1. AddressPort(Missing) = NoPort /\ AddressPort(NotANumber) = NoPort
    BY MissingAssumption DEF AddressPort, Atoi, NoPort
  <2> QED BY <1>1, <1>3, <2>1 DEF SplitHostPort, HostPort
<1>4. CASE \E k \in AddressPorts : address = HostPort(k) \/ address = HostPort(-k)
  <2>1. PICK k \in Int : address = HostPort(k)
    BY <1>4, AddressPortsAssumption
  <2>2. /\ address # Missing /\ address # Malformed
        /\ address # HostPort(Missing) /\ address # HostPort(NotANumber)
        /\ address.host = Host /\ address.port = k /\ address.malformed = FALSE
    BY <1>1, <2>1 DEF HostPort
  <2>3. address = HostPort(n) => k = n
    BY <2>2 DEF HostPort
  <2>4. k # Missing /\ k # NotANumber
    BY MissingAssumption
  <2>5. SplitHostPort(address) = [host |-> Host, port |-> k]
    BY <2>2 DEF SplitHostPort
  <2>6. k \in Nat /\ k <= MaxInt => AddressPort(k) = k
    BY <2>4, Widths DEF AddressPort, Atoi
  <2> QED BY <2>2, <2>3, <2>5, <2>6 DEF Portless
<1> QED BY <1>2, <1>3, <1>4 DEF Addresses, Portless

-----------------------------------------------------------------------------
(* The specification.                                                      *)

\* What is looked up is a name with components, or what a host may say.
QueryInv ==
  /\ query.kind = "rules" => query.name \in Names
  /\ query.kind = "address" => query.address \in Addresses /\ query.form \in Forms /\ query.n \in Nat

LEMMA QueryInitial ==
  ASSUME Init
  PROVE  QueryInv /\ answer = Pending
<1> DEFINE last == UintModulus * UintModulus - 1
<1>1. 0..last \subseteq Nat
  OBVIOUS
<1> HIDE DEF last
<1>2. \/ query \in [kind : {"rules"}, name : Names]
      \/ query \in [kind : {"address"}, address : Addresses, form : Forms, n : 0..last]
  BY DEF Init, last
<1>3. answer = Pending
  BY DEF Init
<1>4. CASE query \in [kind : {"rules"}, name : Names]
  BY <1>3, <1>4 DEF QueryInv
<1>5. CASE query \in [kind : {"address"}, address : Addresses, form : Forms, n : 0..last]
  BY <1>1, <1>3, <1>5 DEF QueryInv
<1> QED BY <1>2, <1>4, <1>5

LEMMA QueryStep ==
  ASSUME QueryInv, [Next]_<<query, answer>>
  PROVE  QueryInv'
BY DEF QueryInv, Next

LEMMA AddressStep ==
  ASSUME QueryInv, LookupAddress, UNCHANGED query
  PROVE  PortIsExact' /\ PeerIsReported'
<1> DEFINE address == query.address  form == query.form  n == query.n
           target == IF address = Missing THEN [host |-> Missing, port |-> Missing]
                     ELSE SplitHostPort(address)
           port == PortProperty(form, n)
<1>1. address \in Addresses /\ form \in Forms /\ n \in Nat
  BY DEF QueryInv, LookupAddress
<1>2. /\ query' = query
      /\ answer'[1].ip = target.host
      /\ answer'[1].port = IF port # Missing THEN parsePort(port) ELSE AddressPort(target.port)
  BY DEF LookupAddress, retrieveAddressInfo
<1>3. /\ port = Missing <=> form = "missing"
      /\ form = "short" => parsePort(port) = NoPort
      /\ form \in {"uint64", "long"} => parsePort(port) = IF n <= MaxInt THEN n ELSE NoPort
  BY <1>1, PortRead
<1>4. /\ target.host = IF address \in {Missing, Malformed} THEN Missing ELSE Host
      /\ address \in Portless =>
           address # HostPort(n) /\ AddressPort(target.port) = NoPort
      /\ address = HostPort(n) /\ n <= MaxInt => AddressPort(target.port) = n
  BY <1>1, AddressRead
<1> HIDE DEF target, port
<1>5. PortIsExact'
  <2>1. form \in {"uint64", "long"} => answer'[1].port = IF n <= MaxInt THEN n ELSE NoPort
    BY <1>2, <1>3
  <2> QED BY <1>2, <2>1 DEF PortIsExact
<1>6. PeerIsReported'
  <2> DEFINE lost == \/ form = "short" \/ n > MaxInt
                     \/ form = "missing" /\ address # HostPort(n)
  <2>1. answer'[1].ip = IF address \in {Missing, Malformed} THEN Missing ELSE Host
    BY <1>2, <1>4
  <2>2. n > MaxInt <=> ~(n <= MaxInt)
    BY <1>1, Widths
  <2>3. ASSUME \/ address \in Portless
               \/ address = HostPort(n) /\ n <= MaxInt
        PROVE  answer'[1].port = IF lost THEN NoPort ELSE n
    <3>1. CASE form = "missing"
      BY <1>2, <1>3, <1>4, <2>2, <2>3, <3>1
    <3>2. CASE form # "missing"
      BY <1>1, <1>2, <1>3, <2>2, <3>2 DEF Forms
    <3> QED BY <3>1, <3>2
  <2> QED BY <1>2, <2>1, <2>3 DEF PeerIsReported
<1> QED BY <1>5, <1>6

\* What an Include lists it can read, whatever files are embedded and whatever
\* name it gives: ReadDir, which maps names by itself, agrees with mapPath.
THEOREM ListedReadable == Spec => []ListedIsReadable
<1>1. Init => QueryInv /\ ListedIsReadable
  BY QueryInitial DEF ListedIsReadable, Answered
<1>2. QueryInv /\ ListedIsReadable /\ [Next]_<<query, answer>> => QueryInv' /\ ListedIsReadable'
  <2> SUFFICES ASSUME QueryInv, ListedIsReadable, [Next]_<<query, answer>>
               PROVE  ListedIsReadable'
    BY QueryStep
  <2>1. CASE Next /\ LookupRules
    BY <2>1, ListedStep DEF QueryInv
  <2>2. CASE Next /\ LookupAddress
    <3>1. query'.kind # "rules"
      BY <2>2 DEF Next, LookupAddress
    <3> QED BY <3>1 DEF ListedIsReadable, Answered
  <2>3. CASE UNCHANGED <<query, answer>>
    BY <2>3 DEF ListedIsReadable, Answered
  <2> QED BY <2>1, <2>2, <2>3 DEF Next
<1> QED BY <1>1, <1>2, PTL DEF Spec

\* Every alias of the two tables stands for a file or a directory that is there,
\* as long as the files of wasmplugin/rules the tables name are embedded.
THEOREM AliasesEmbedded ==
  ASSUME EmbeddedFiles \subseteq Files
  PROVE  Spec => []AliasesAreEmbedded
<1>1. Init => QueryInv /\ AliasesAreEmbedded
  BY QueryInitial DEF AliasesAreEmbedded, Answered
<1>2. QueryInv /\ AliasesAreEmbedded /\ [Next]_<<query, answer>> => QueryInv' /\ AliasesAreEmbedded'
  <2> SUFFICES ASSUME QueryInv, AliasesAreEmbedded, [Next]_<<query, answer>>
               PROVE  AliasesAreEmbedded'
    BY QueryStep
  <2>1. CASE Next /\ LookupRules
    <3>1. query' = query /\ query.name \in Seq(Parts)
      BY <2>1, NameParts DEF QueryInv, Next, LookupRules
    <3>2. /\ answer'[1].file = ReadFile(query.name)
          /\ DOMAIN answer'[1].read = ReadDir(query.name)
      BY <2>1 DEF LookupRules
    <3> QED BY <3>1, <3>2, FileAlias, DirectoryAlias DEF AliasesAreEmbedded
  <2>2. CASE Next /\ LookupAddress
    <3>1. query'.kind # "rules"
      BY <2>2 DEF Next, LookupAddress
    <3> QED BY <3>1 DEF AliasesAreEmbedded, Answered
  <2>3. CASE UNCHANGED <<query, answer>>
    BY <2>3 DEF AliasesAreEmbedded, Answered
  <2> QED BY <2>1, <2>2, <2>3 DEF Next
<1> QED BY <1>1, <1>2, PTL DEF Spec

LEMMA PeerInductive ==
  /\ Init => QueryInv /\ PortIsExact /\ PeerIsReported
  /\ QueryInv /\ PortIsExact /\ PeerIsReported /\ [Next]_<<query, answer>> =>
       QueryInv' /\ PortIsExact' /\ PeerIsReported'
<1>1. Init => QueryInv /\ PortIsExact /\ PeerIsReported
  BY QueryInitial DEF PortIsExact, PeerIsReported, Answered
<1>2. ASSUME QueryInv, PortIsExact, PeerIsReported, [Next]_<<query, answer>>
      PROVE  PortIsExact' /\ PeerIsReported'
  <2>1. CASE Next /\ LookupAddress
    BY <1>2, <2>1, AddressStep DEF Next
  <2>2. CASE Next /\ LookupRules
    <3>1. query'.kind # "address"
      BY <2>2 DEF Next, LookupRules
    <3> QED BY <3>1 DEF PortIsExact, PeerIsReported, Answered
  <2>3. CASE UNCHANGED <<query, answer>>
    BY <1>2, <2>3 DEF PortIsExact, PeerIsReported, Answered
  <2> QED BY <1>2, <2>1, <2>2, <2>3 DEF Next
<1> QED BY <1>1, <1>2, QueryStep

\* A port of eight bytes, of any even number of values each, is the number the
\* host wrote, or none when an int of four such bytes cannot hold it: never a
\* truncated one, never a negative one.
THEOREM PortExact == Spec => []PortIsExact
BY PeerInductive, PTL DEF Spec

\* A host that tells the truth gets the peer's own address and port, from
\* whichever of the two properties it has.
THEOREM PeerReported == Spec => []PeerIsReported
BY PeerInductive, PTL DEF Spec
=============================================================================
