------------------------------ MODULE ProxyLine ------------------------------
(***************************************************************************)
(* parseProxyLine and the address checks it makes: which client a PROXY    *)
(* header names, if any.                                                   *)
(*                                                                         *)
(* A header is the sequence of fields that single spaces separate.  Of a   *)
(* field the code asks whether it is a certain word or empty, which        *)
(* address netip.ParseAddr reads in it (4 or 16 octets; none: <<>>), with  *)
(* a zone or without, and which number strconv.Atoi reads in it (or NaN).  *)
(*                                                                         *)
(* A definition that ends in "_" is a faulty variant of the one after it.  *)
(***************************************************************************)
EXTENDS Integers, Sequences

Octets == 0..255
NaN    == -1
Field  == [word : STRING, ip : Seq(Octets), zone : BOOLEAN, num : Int]

Zeros(n)  == [i \in 1..n |-> 0]
Loopback6 == [i \in 1..16 |-> IF i = 16 THEN 1 ELSE 0]

parseProxyAddr(network, f) ==
    {ip \in {f.ip} : ~f.zone /\ \/ network = "TCP4" /\ Len(ip) = 4
                                \/ network = "TCP6" /\ Len(ip) = 16}

parseProxyPort(f) == f.num >= 1 /\ f.num <= 65535

\* Addr.Unmap: ::ffff:a.b.c.d becomes a.b.c.d.
Mapped    == <<0, 0, 0, 0, 0, 0, 0, 0, 0, 0, 255, 255>>
Unmap(ip) == IF Len(ip) = 16 /\ SubSeq(ip, 1, 12) = Mapped THEN SubSeq(ip, 13, 16) ELSE ip

\* Addr.IsLoopback, IsPrivate, IsLinkLocalUnicast, IsMulticast (with
\* IsLinkLocalMulticast) and IsUnspecified.
LocalOrGroup4(b) ==
    \/ b[1] = 127
    \/ b[1] = 10 \/ (b[1] = 172 /\ b[2] \div 16 = 1) \/ (b[1] = 192 /\ b[2] = 168)
    \/ b[1] = 169 /\ b[2] = 254
    \/ b[1] \div 16 = 14
    \/ b = Zeros(4)

LocalOrGroup6(b) ==
    \/ b = Loopback6
    \/ b[1] \div 2 = 126
    \/ b[1] = 254 /\ b[2] \div 64 = 2
    \/ b[1] = 255
    \/ b = Zeros(16)

Special4(b) ==
    \/ b = <<255, 255, 255, 255>>
    \/ b[1] = 100 /\ b[2] >= 64 /\ b[2] <= 127
    \/ b[1] = 198 /\ b[2] \in {18, 19}
    \/ b[1] = 192 /\ b[2] = 0 /\ b[3] \in {0, 2}
    \/ b[1] = 198 /\ b[2] = 51 /\ b[3] = 100
    \/ b[1] = 203 /\ b[2] = 0 /\ b[3] = 113

Special6(b) == b[1] = 32 /\ b[2] = 1 /\ b[3] = 13 /\ b[4] = 184

isPublicUnicastIP_(ip) ==       \* without Unmap
    IF Len(ip) = 4 THEN ~LocalOrGroup4(ip) /\ ~Special4(ip)
                   ELSE ~LocalOrGroup6(ip) /\ ~Special6(ip)

isPublicUnicastIP(ip) ==
    LET b == Unmap(ip)
    IN  IF Len(b) = 4 THEN ~LocalOrGroup4(b) /\ ~Special4(b)
                      ELSE ~LocalOrGroup6(b) /\ ~Special6(b)

\* The address that a header names: none when it is invalid.
parseProxyLine(fields) ==
    IF /\ Len(fields) = 6
       /\ \A i \in 1..6 : fields[i].word # ""
       /\ fields[1].word = "PROXY" /\ fields[2].word \in {"TCP4", "TCP6"}
       /\ parseProxyAddr(fields[2].word, fields[4]) # {}
       /\ parseProxyPort(fields[5]) /\ parseProxyPort(fields[6])
    THEN {ip \in parseProxyAddr(fields[2].word, fields[3]) : isPublicUnicastIP(ip)}
    ELSE {}
-----------------------------------------------------------------------------
(* The address blocks that isPublicUnicastIP's comment names, as they are  *)
(* registered: a prefix whose last octet counts in steps of unit.          *)

Block(net, unit) == [net |-> net, unit |-> unit]

Blocks4 ==
    {Block(<<127>>, 1), Block(<<10>>, 1), Block(<<172, 16>>, 16), Block(<<192, 168>>, 1),
     Block(<<169, 254>>, 1), Block(<<224>>, 16), Block(<<0, 0, 0, 0>>, 1),
     Block(<<255, 255, 255, 255>>, 1), Block(<<100, 64>>, 64), Block(<<198, 18>>, 2),
     Block(<<192, 0, 0>>, 1), Block(<<192, 0, 2>>, 1), Block(<<198, 51, 100>>, 1),
     Block(<<203, 0, 113>>, 1)}

Blocks6 ==
    {Block(Loopback6, 1), Block(<<252>>, 2), Block(<<254, 128>>, 64),
     Block(<<255>>, 1), Block(Zeros(16), 1), Block(<<32, 1, 13, 184>>, 1)}
    \cup {Block(Mapped \o b.net, b.unit) : b \in Blocks4}

InBlock(ip, b) ==
    LET n == Len(b.net)
    IN  /\ \A i \in 1..(n - 1) : ip[i] = b.net[i]
        /\ ip[n] \div b.unit = b.net[n] \div b.unit

Public(ip) == \A b \in IF Len(ip) = 4 THEN Blocks4 ELSE Blocks6 : ~InBlock(ip, b)
=============================================================================
