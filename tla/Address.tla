------------------------------- MODULE Address -------------------------------
(***************************************************************************)
(* The peer of a connection, from two properties of the host:              *)
(* retrieveAddressInfo and parsePort of wasmplugin/plugin.go.  A byte has  *)
(* Base values, so that eight of them stay within TLC's integers.          *)
(***************************************************************************)
EXTENDS Integers, Sequences

CONSTANTS
  Base,        \* the values of a byte
  Missing,     \* no such property, an empty string
  NotANumber,  \* a string that is no decimal number
  Host         \* an IP address

ASSUME BaseAssumption == Base \in Nat /\ Base > 1 /\ Base % 2 = 0
\* The empty string is no number, no bytes and no address.
ASSUME MissingAssumption ==
  /\ Missing \notin Int /\ Missing \notin Seq(Nat)
  /\ Missing \notin [host : {Host}, port : Int \cup {Missing, NotANumber}, malformed : BOOLEAN]
  /\ NotANumber \notin Int \cup {Missing}

Square == Base * Base
UintModulus == Square * Square   \* the width of int and uint32
MaxInt == UintModulus \div 2 - 1

NoPort == 0

-----------------------------------------------------------------------------
(* External: encoding/binary, net and strconv.                             *)

\* The little-endian bytes of a number that fits two, four or eight of them.
PutUint16(n) == <<n % Base, n \div Base>>
PutUint32(n) == PutUint16(n % Square) \o PutUint16(n \div Square)
PutUint64(n) == PutUint32(n % UintModulus) \o PutUint32(n \div UintModulus)

\* The number in the two, four or eight bytes of b from i on.
Uint16(b, i) == b[i] + Base * b[i + 1]
Uint32(b, i) == Uint16(b, i) + Square * Uint16(b, i + 2)
Uint64(b) == Uint32(b, 1) + UintModulus * Uint32(b, 5)

\* int(n) keeps the low bits.
ToInt(n) ==
  LET low == n % UintModulus IN IF low > MaxInt THEN low - UintModulus ELSE low

\* A number that does not fit becomes the nearest that does, and what is no
\* number 0, each with an error.  A sign is part of a number.
Atoi(n) ==
  CASE n = NotANumber -> 0
    [] n # NotANumber /\ n > MaxInt -> MaxInt
    [] n # NotANumber /\ n < -MaxInt - 1 -> -MaxInt - 1
    [] OTHER -> n

\* An address is Missing, Malformed (no port, say) or a host and a port, which
\* may be empty, no number or negative.  An error comes with two empty strings.
Malformed == [host |-> Host, port |-> Missing, malformed |-> TRUE]
HostPort(port) == [host |-> Host, port |-> port, malformed |-> FALSE]
SplitHostPort(address) ==
  IF address.malformed THEN [host |-> Missing, port |-> Missing]
  ELSE [host |-> address.host, port |-> address.port]

-----------------------------------------------------------------------------

BugFits(n) == n < UintModulus
Fits(n) == n <= MaxInt

\* Errors leave the port at 0; bytes after the eighth are not looked at.
parsePort(b) ==
  IF Len(b) >= 8 /\ Fits(Uint64(b)) THEN ToInt(Uint64(b)) ELSE NoPort

BugAddressPort(port) == NoPort
\* The port in the address, if there is any; no error changes what Atoi gave.
AddressPort(port) == IF port = Missing THEN NoPort ELSE Atoi(port)

\* The port property counts whenever the host has it, readable or not.
retrieveAddressInfo(address, port) ==
  LET target == IF address = Missing THEN [host |-> Missing, port |-> Missing]
                ELSE SplitHostPort(address)
  IN  [ip |-> target.host,
       port |-> IF port # Missing THEN parsePort(port) ELSE AddressPort(target.port)]
=============================================================================
