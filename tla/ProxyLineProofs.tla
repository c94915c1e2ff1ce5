--------------------------- MODULE ProxyLineProofs ---------------------------
(***************************************************************************)
(* Proofs about ProxyLine, for every address and every header: the checks  *)
(* of isPublicUnicastIP, made octet by octet on an address whose IPv4 form *)
(* was uncovered first, leave no address of the blocks set aside.          *)
(***************************************************************************)
EXTENDS ProxyLine, SequenceTheorems, TLAPS

\* What lying in a block of one to four octets means.
LEMMA OneOctet ==
    ASSUME NEW ip, NEW o, NEW u, InBlock(ip, Block(<<o>>, u))
    PROVE  ip[1] \div u = o \div u
BY DEF InBlock, Block

\* What it means to lie in a block that ends inside the second octet.
LEMMA TwoOctets ==
    ASSUME NEW ip, NEW o, NEW p, NEW u, InBlock(ip, Block(<<o, p>>, u))
    PROVE  ip[1] = o /\ ip[2] \div u = p \div u
<1>1. Len(<<o, p>>) = 2 /\ 1 \in 1..1  OBVIOUS
<1> QED  BY <1>1 DEF InBlock, Block

\* The same for the third octet.
LEMMA ThreeOctets ==
    ASSUME NEW ip, NEW o, NEW p, NEW q, NEW u, InBlock(ip, Block(<<o, p, q>>, u))
    PROVE  ip[1] = o /\ ip[2] = p /\ ip[3] \div u = q \div u
<1>1. Len(<<o, p, q>>) = 3 /\ 1 \in 1..2 /\ 2 \in 1..2  OBVIOUS
<1> QED  BY <1>1 DEF InBlock, Block

\* The same for the fourth octet.
LEMMA FourOctets ==
    ASSUME NEW ip, NEW o, NEW p, NEW q, NEW r, NEW u, InBlock(ip, Block(<<o, p, q, r>>, u))
    PROVE  ip[1] = o /\ ip[2] = p /\ ip[3] = q /\ ip[4] \div u = r \div u
<1>1. Len(<<o, p, q, r>>) = 4 /\ 1 \in 1..3 /\ 2 \in 1..3 /\ 3 \in 1..3  OBVIOUS
<1> QED  BY <1>1 DEF InBlock, Block

\* An IPv4 address of a block is caught by one of the checks.
LEMMA Caught4 ==
    ASSUME NEW ip \in Seq(Octets), Len(ip) = 4, NEW b \in Blocks4, InBlock(ip, b)
    PROVE  LocalOrGroup4(ip) \/ Special4(ip)
<1>1. ip[1] \in Octets /\ ip[2] \in Octets /\ ip[3] \in Octets /\ ip[4] \in Octets
  <2>1. \A i \in 1..4 : ip[i] \in Octets  BY ElementOfSeq
  <2> QED  BY <2>1
<1>0. /\ \A x \in Octets : x \div 64 = 64 \div 64 => x >= 64 /\ x <= 127
      /\ \A x \in Octets : x \div 2 = 18 \div 2 => x \in {18, 19}
  BY DEF Octets
<1>17. ip \in [1..4 -> Octets]
  BY LenProperties
<1>3. CASE b = Block(<<127>>, 1)
  <2>1. ip[1] \div 1 = 127 \div 1
    BY <1>3, OneOctet
  <2>2. \A x \in Octets : x \div 1 = 127 \div 1 => x = 127  BY DEF Octets
  <2>3. ip[1] = 127  BY <1>1, <2>1, <2>2
  <2> QED  BY <2>1, <2>3 DEF LocalOrGroup4
<1>4. CASE b = Block(<<10>>, 1)
  <2>1. ip[1] \div 1 = 10 \div 1
    BY <1>4, OneOctet
  <2>2. \A x \in Octets : x \div 1 = 10 \div 1 => x = 10  BY DEF Octets
  <2>3. ip[1] = 10  BY <1>1, <2>1, <2>2
  <2> QED  BY <2>1, <2>3 DEF LocalOrGroup4
<1>5. CASE b = Block(<<172, 16>>, 16)
  <2>1. ip[1] = 172 /\ ip[2] \div 16 = 16 \div 16
    BY <1>5, TwoOctets
  <2> QED  BY <1>1, <2>1 DEF LocalOrGroup4, Octets
<1>6. CASE b = Block(<<192, 168>>, 1)
  <2>1. ip[1] = 192 /\ ip[2] \div 1 = 168 \div 1
    BY <1>6, TwoOctets
  <2>2. \A x \in Octets : x \div 1 = 168 \div 1 => x = 168  BY DEF Octets
  <2>3. ip[2] = 168  BY <1>1, <2>1, <2>2
  <2> QED  BY <2>1, <2>3 DEF LocalOrGroup4
<1>7. CASE b = Block(<<169, 254>>, 1)
  <2>1. ip[1] = 169 /\ ip[2] \div 1 = 254 \div 1
    BY <1>7, TwoOctets
  <2>2. \A x \in Octets : x \div 1 = 254 \div 1 => x = 254  BY DEF Octets
  <2>3. ip[2] = 254  BY <1>1, <2>1, <2>2
  <2> QED  BY <2>1, <2>3 DEF LocalOrGroup4
<1>8. CASE b = Block(<<224>>, 16)
  <2>1. ip[1] \div 16 = 224 \div 16
    BY <1>8, OneOctet
  <2> QED  BY <1>1, <2>1 DEF LocalOrGroup4, Octets
<1>9. CASE b = Block(<<0, 0, 0, 0>>, 1)
  <2>1. ip[1] = 0 /\ ip[2] = 0 /\ ip[3] = 0 /\ ip[4] \div 1 = 0 \div 1
    BY <1>9, FourOctets
  <2>2. \A x \in Octets : x \div 1 = 0 \div 1 => x = 0  BY DEF Octets
  <2>3. ip[4] = 0  BY <1>1, <2>1, <2>2
  <2>4. ip = Zeros(4)  BY <1>17, <2>1, <2>3 DEF Zeros
  <2> QED  BY <2>4 DEF LocalOrGroup4
<1>10. CASE b = Block(<<255, 255, 255, 255>>, 1)
  <2>1. ip[1] = 255 /\ ip[2] = 255 /\ ip[3] = 255 /\ ip[4] \div 1 = 255 \div 1
    BY <1>10, FourOctets
  <2>2. \A x \in Octets : x \div 1 = 255 \div 1 => x = 255  BY DEF Octets
  <2>3. ip[4] = 255  BY <1>1, <2>1, <2>2
  <2>4. ip = <<255, 255, 255, 255>>  BY <1>17, <2>1, <2>3 DEF Zeros
  <2> QED  BY <2>4 DEF Special4
<1>11. CASE b = Block(<<100, 64>>, 64)
  <2>1. ip[1] = 100 /\ ip[2] \div 64 = 64 \div 64
    BY <1>11, TwoOctets
  <2>2. ip[2] >= 64 /\ ip[2] <= 127  BY <1>0, <1>1, <2>1, Zenon
  <2> QED  BY <2>1, <2>2 DEF Special4
<1>12. CASE b = Block(<<198, 18>>, 2)
  <2>1. ip[1] = 198 /\ ip[2] \div 2 = 18 \div 2
    BY <1>12, TwoOctets
  <2>2. ip[2] \in {18, 19}  BY <1>0, <1>1, <2>1, Zenon
  <2> QED  BY <2>1, <2>2 DEF Special4
<1>13. CASE b = Block(<<192, 0, 0>>, 1)
  <2>1. ip[1] = 192 /\ ip[2] = 0 /\ ip[3] \div 1 = 0 \div 1
    BY <1>13, ThreeOctets
  <2>2. \A x \in Octets : x \div 1 = 0 \div 1 => x = 0  BY DEF Octets
  <2>3. ip[3] = 0  BY <1>1, <2>1, <2>2
  <2> QED  BY <2>1, <2>3 DEF Special4
<1>14. CASE b = Block(<<192, 0, 2>>, 1)
  <2>1. ip[1] = 192 /\ ip[2] = 0 /\ ip[3] \div 1 = 2 \div 1
    BY <1>14, ThreeOctets
  <2>2. \A x \in Octets : x \div 1 = 2 \div 1 => x = 2  BY DEF Octets
  <2>3. ip[3] = 2  BY <1>1, <2>1, <2>2
  <2> QED  BY <2>1, <2>3 DEF Special4
<1>15. CASE b = Block(<<198, 51, 100>>, 1)
  <2>1. ip[1] = 198 /\ ip[2] = 51 /\ ip[3] \div 1 = 100 \div 1
    BY <1>15, ThreeOctets
  <2>2. \A x \in Octets : x \div 1 = 100 \div 1 => x = 100  BY DEF Octets
  <2>3. ip[3] = 100  BY <1>1, <2>1, <2>2
  <2> QED  BY <2>1, <2>3 DEF Special4
<1>16. CASE b = Block(<<203, 0, 113>>, 1)
  <2>1. ip[1] = 203 /\ ip[2] = 0 /\ ip[3] \div 1 = 113 \div 1
    BY <1>16, ThreeOctets
  <2>2. \A x \in Octets : x \div 1 = 113 \div 1 => x = 113  BY DEF Octets
  <2>3. ip[3] = 113  BY <1>1, <2>1, <2>2
  <2> QED  BY <2>1, <2>3 DEF Special4
<1> QED  BY <1>3, <1>4, <1>5, <1>6, <1>7, <1>8, <1>9, <1>10, <1>11, <1>12,
            <1>13, <1>14, <1>15, <1>16 DEF Blocks4
-----------------------------------------------------------------------------
\* Sixteen octets.

\* The prefix of a mapped address.
LEMMA MappedSeq == /\ Mapped \in Seq(Octets) /\ Len(Mapped) = 12
                   /\ Mapped[1] = 0 /\ Mapped[11] = 255
BY DEF Mapped, Octets

\* The registered IPv4 blocks have one to four octets.
LEMMA NetSeq == ASSUME NEW b \in Blocks4
                PROVE  b.net \in Seq(Octets) /\ Len(b.net) \in 1..4
<1>1. b.net \in {<<127>>, <<10>>, <<172, 16>>, <<192, 168>>, <<169, 254>>, <<224>>,
                 <<0, 0, 0, 0>>, <<255, 255, 255, 255>>, <<100, 64>>, <<198, 18>>,
                 <<192, 0, 0>>, <<192, 0, 2>>, <<198, 51, 100>>, <<203, 0, 113>>}
  BY DEF Blocks4, Block
<1> DEFINE Good(s) == s \in Seq(Octets) /\ Len(s) \in 1..4
<1>2. Good(<<127>>) /\ Good(<<10>>) /\ Good(<<224>>)
  BY DEF Octets
<1>3. /\ Good(<<172, 16>>) /\ Good(<<192, 168>>) /\ Good(<<169, 254>>)
      /\ Good(<<100, 64>>) /\ Good(<<198, 18>>)
  BY DEF Octets
<1>4. /\ Good(<<192, 0, 0>>) /\ Good(<<192, 0, 2>>) /\ Good(<<198, 51, 100>>)
      /\ Good(<<203, 0, 113>>)
  BY DEF Octets
<1>5. Good(<<0, 0, 0, 0>>) /\ Good(<<255, 255, 255, 255>>)
  BY DEF Octets
<1> HIDE DEF Good
<1>6. Good(b.net)  BY <1>1, <1>2, <1>3, <1>4, <1>5
<1> QED  BY <1>6 DEF Good

\* An address in the IPv6 image of an IPv4 block is one that Unmap uncovers,
\* and what it uncovers lies in the IPv4 block.
LEMMA Uncovered ==
    ASSUME NEW ip \in Seq(Octets), Len(ip) = 16, NEW c \in Blocks4,
           InBlock(ip, Block(Mapped \o c.net, c.unit))
    PROVE  /\ Unmap(ip) \in Seq(Octets) /\ Len(Unmap(ip)) = 4
           /\ InBlock(Unmap(ip), c)
<1> DEFINE k == Len(c.net)
           n == c.net
           w == Mapped \o n
           head == SubSeq(ip, 1, 12)
           t == SubSeq(ip, 13, 16)
<1>1. k \in 1..4 /\ n \in Seq(Octets) /\ Len(n) = k  BY NetSeq
<1>2. /\ Len(w) = 12 + k
      /\ \A i \in 1..(12 + k) : w[i] = IF i <= 12 THEN Mapped[i] ELSE n[i - 12]
  <2> HIDE DEF n, k
  <2>1. /\ Len(Mapped \o n) = Len(Mapped) + Len(n)
        /\ \A i \in 1..(Len(Mapped) + Len(n)) :
              (Mapped \o n)[i] = IF i <= Len(Mapped) THEN Mapped[i] ELSE n[i - Len(Mapped)]
    <3>1. Mapped \in Seq(Octets) /\ n \in Seq(Octets)  BY <1>1, MappedSeq
    <3> QED  BY <3>1, ConcatProperties
  <2>2. Len(Mapped) + Len(n) = 12 + k  BY <1>1, MappedSeq
  <2> QED  BY <2>1, <2>2, <1>1, MappedSeq
<1>3. /\ \A i \in 1..(Len(w) - 1) : ip[i] = w[i]
      /\ ip[Len(w)] \div c.unit = w[Len(w)] \div c.unit
  BY DEF InBlock, Block
<1>4. \A i \in 1..16 : ip[i] \in Octets  BY ElementOfSeq
<1>5. /\ head \in Seq(Octets) /\ Len(head) = 12
      /\ \A i \in 1..12 : head[i] = ip[i]
  <2>1. /\ head \in Seq(Octets) /\ Len(head) = IF 1 <= 12 THEN 12 - 1 + 1 ELSE 0
        /\ \A i \in 1..(12 - 1 + 1) : head[i] = ip[1 + i - 1]
    BY <1>4, SubSeqProperties
  <2> HIDE DEF head
  <2> QED  BY <2>1
<1>6. /\ t \in Seq(Octets) /\ Len(t) = 4
      /\ \A i \in 1..4 : t[i] = ip[12 + i]
  <2>1. /\ t \in Seq(Octets) /\ Len(t) = IF 13 <= 16 THEN 16 - 13 + 1 ELSE 0
        /\ \A i \in 1..(16 - 13 + 1) : t[i] = ip[13 + i - 1]
    BY <1>4, SubSeqProperties
  <2> HIDE DEF t
  <2> QED  BY <2>1
<1>7. head = Mapped
  <2> HIDE DEF head, w, n, k
  <2>1. \A i \in 1..12 : head[i] = Mapped[i]
    BY <1>1, <1>2, <1>3, <1>5
  <2>2. Len(head) = Len(Mapped) /\ \A i \in 1..Len(head) : head[i] = Mapped[i]
    BY <2>1, <1>5, MappedSeq
  <2>3. head \in Seq(Octets) /\ Mapped \in Seq(Octets)
    BY <1>5, MappedSeq
  <2> QED  BY <2>2, <2>3, SeqEqual
<1>8. Unmap(ip) = t  BY <1>7 DEF Unmap
<1>9. InBlock(t, c)
  <2>1. /\ \A i \in 1..(k - 1) : t[i] = n[i]
        /\ t[k] \div c.unit = n[k] \div c.unit
    <3> HIDE DEF t, w, n, k
    <3>1. \A i \in 1..(k - 1) : 12 + i \in 1..(Len(w) - 1) /\ w[12 + i] = n[i]
      BY <1>1, <1>2
    <3>2. Len(w) = 12 + k /\ w[12 + k] = n[k]
      BY <1>1, <1>2
    <3> QED  BY <1>1, <1>3, <1>6, <3>1, <3>2
  <2> QED  BY <2>1 DEF InBlock
<1> QED  BY <1>6, <1>8, <1>9

\* An IPv6 address that Unmap leaves alone is caught if one of the blocks of
\* IPv6 itself holds it.
LEMMA Caught6 ==
    ASSUME NEW ip \in Seq(Octets), Len(ip) = 16,
           NEW b \in Blocks6, \A c \in Blocks4 : b # Block(Mapped \o c.net, c.unit),
           InBlock(ip, b)
    PROVE  Unmap(ip) = ip /\ (LocalOrGroup6(ip) \/ Special6(ip))
<1>1. \A i \in 1..16 : ip[i] \in Octets  BY ElementOfSeq
<1>2. ASSUME ip[1] # 0 \/ ip[11] # 255 PROVE Unmap(ip) = ip
  <2>1. /\ SubSeq(ip, 1, 12)[1] = ip[1]
        /\ SubSeq(ip, 1, 12)[11] = ip[11]
    <3>1. \A i \in 1..(12 - 1 + 1) : SubSeq(ip, 1, 12)[i] = ip[1 + i - 1]
      BY <1>1, SubSeqProperties
    <3> QED  BY <3>1
  <2> QED  BY <1>2, <2>1, MappedSeq DEF Unmap
<1>3. CASE b = Block(Loopback6, 1)
  <2>1. /\ \A i \in 1..15 : ip[i] = Loopback6[i]
        /\ ip[16] \div 1 = Loopback6[16] \div 1
    <3>1. Len(Loopback6) = 16  BY DEF Loopback6
    <3>2. b.net = Loopback6 /\ b.unit = 1  BY <1>3 DEF Block
    <3>3. /\ \A i \in 1..(Len(b.net) - 1) : ip[i] = (b.net)[i]
          /\ ip[Len(b.net)] \div b.unit = (b.net)[Len(b.net)] \div b.unit
      BY DEF InBlock
    <3>4. Len(b.net) = 16  BY <3>1, <3>2
    <3>5. /\ \A i \in 1..(16 - 1) : ip[i] = Loopback6[i]
          /\ ip[16] \div 1 = Loopback6[16] \div 1
      BY <3>2, <3>3, <3>4, Zenon
    <3> QED  BY <3>5
  <2>2. \A x \in Octets : x \div 1 = 1 \div 1 => x = 1  BY DEF Octets
  <2>3. /\ \A i \in 1..15 : ip[i] = 0
        /\ ip[16] = 1
    BY <1>1, <2>1, <2>2 DEF Loopback6
  <2>4. ip = Loopback6  BY <2>3, LenProperties DEF Loopback6
  <2> QED  BY <1>2, <2>3, <2>4 DEF LocalOrGroup6
<1>4. CASE b = Block(Zeros(16), 1)
  <2>1. /\ \A i \in 1..15 : ip[i] = 0
        /\ ip[16] \div 1 = 0 \div 1
    BY <1>4 DEF InBlock, Block, Zeros
  <2>2. \A x \in Octets : x \div 1 = 0 \div 1 => x = 0  BY DEF Octets
  <2>3. ip[16] = 0  BY <1>1, <2>1, <2>2
  <2>4. ip = Zeros(16)  BY <2>1, <2>3, LenProperties DEF Zeros
  <2> QED  BY <1>2, <2>1, <2>4 DEF LocalOrGroup6
<1>5. CASE b = Block(<<252>>, 2)
  <2>1. ip[1] \div 2 = 252 \div 2  BY <1>5, OneOctet
  <2>2. \A x \in Octets : x \div 2 = 252 \div 2 => x # 0 /\ x \div 2 = 126  BY DEF Octets
  <2> QED  BY <1>1, <1>2, <2>1, <2>2 DEF LocalOrGroup6
<1>6. CASE b = Block(<<254, 128>>, 64)
  <2>1. ip[1] = 254 /\ ip[2] \div 64 = 128 \div 64  BY <1>6, TwoOctets
  <2> QED  BY <1>2, <2>1 DEF LocalOrGroup6
<1>7. CASE b = Block(<<255>>, 1)
  <2>1. ip[1] \div 1 = 255 \div 1  BY <1>7, OneOctet
  <2>2. \A x \in Octets : x \div 1 = 255 \div 1 => x = 255  BY DEF Octets
  <2>3. ip[1] = 255  BY <1>1, <2>1, <2>2
  <2> QED  BY <1>2, <2>3 DEF LocalOrGroup6
<1>8. CASE b = Block(<<32, 1, 13, 184>>, 1)
  <2>1. ip[1] = 32 /\ ip[2] = 1 /\ ip[3] = 13 /\ ip[4] \div 1 = 184 \div 1
    BY <1>8, FourOctets
  <2>2. \A x \in Octets : x \div 1 = 184 \div 1 => x = 184  BY DEF Octets
  <2>3. ip[4] = 184  BY <1>1, <2>1, <2>2
  <2> QED  BY <1>2, <2>1, <2>3 DEF Special6
<1> QED  BY <1>3, <1>4, <1>5, <1>6, <1>7, <1>8 DEF Blocks6

\* Whatever isPublicUnicastIP accepts is outside every block set aside, be it
\* written as an IPv4 address, as an IPv6 one, or as the one in the other.
THEOREM AcceptedIsPublic ==
    ASSUME NEW ip \in Seq(Octets), Len(ip) \in {4, 16}, isPublicUnicastIP(ip)
    PROVE  Public(ip)
<1>1. CASE Len(ip) = 4
  <2>1. Unmap(ip) = ip  BY <1>1 DEF Unmap
  <2> QED  BY <1>1, <2>1, Caught4 DEF isPublicUnicastIP, Public
<1>2. CASE Len(ip) = 16
  <2> SUFFICES ASSUME NEW b \in Blocks6, InBlock(ip, b) PROVE FALSE
    BY <1>2 DEF Public
  <2>1. CASE \E c \in Blocks4 : b = Block(Mapped \o c.net, c.unit)
    <3>1. PICK c \in Blocks4 : b = Block(Mapped \o c.net, c.unit)  BY <2>1
    <3>2. /\ Unmap(ip) \in Seq(Octets) /\ Len(Unmap(ip)) = 4
          /\ InBlock(Unmap(ip), c)
      BY <1>2, <3>1, Uncovered
    <3> QED  BY <3>2, Caught4 DEF isPublicUnicastIP
  <2>2. CASE \A c \in Blocks4 : b # Block(Mapped \o c.net, c.unit)
    <3>1. Unmap(ip) = ip /\ (LocalOrGroup6(ip) \/ Special6(ip))
      BY <1>2, <2>2, Caught6
    <3>2. Unmap(ip) = ip  BY <3>1
    <3>3. Len(Unmap(ip)) = 16  BY <1>2, <3>2, Zenon
    <3>4. Len(Unmap(ip)) # 4  BY <3>3
    <3> QED  BY <3>1, <3>2, <3>4 DEF isPublicUnicastIP
  <2> QED  BY <2>1, <2>2
<1> QED  BY <1>1, <1>2

\* A header that is accepted names one address, a public one of the family
\* that it states.
THEOREM HeaderIsPublic ==
    ASSUME NEW h \in Seq(Field), parseProxyLine(h) # {}
    PROVE  /\ parseProxyLine(h) = {h[3].ip} /\ Public(h[3].ip)
           /\ Len(h[3].ip) = IF h[2].word = "TCP4" THEN 4 ELSE 16
<1>1. /\ Len(h) = 6
      /\ parseProxyLine(h) = {ip \in parseProxyAddr(h[2].word, h[3]) : isPublicUnicastIP(ip)}
  BY DEF parseProxyLine
<1>2. PICK ip \in parseProxyAddr(h[2].word, h[3]) : isPublicUnicastIP(ip)
  BY <1>1
<1>3. /\ ip = h[3].ip
      /\ \/ h[2].word = "TCP4" /\ Len(ip) = 4
         \/ h[2].word = "TCP6" /\ Len(ip) = 16
  BY <1>2 DEF parseProxyAddr
<1>4. parseProxyLine(h) = {h[3].ip}
  BY <1>1, <1>2, <1>3 DEF parseProxyAddr
<1>5. h[3].ip \in Seq(Octets)
  <2>1. 3 \in 1..Len(h)  BY <1>1
  <2>2. h[3] \in Field  BY <2>1, ElementOfSeq
  <2> QED  BY <2>2 DEF Field
<1>6. Len(h[3].ip) \in {4, 16} /\ isPublicUnicastIP(h[3].ip)
  BY <1>2, <1>3
<1>7. Public(h[3].ip)  BY <1>5, <1>6, AcceptedIsPublic
<1> QED  BY <1>3, <1>4, <1>7
=============================================================================
