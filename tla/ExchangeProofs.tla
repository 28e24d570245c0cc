--------------------------- MODULE ExchangeProofs ---------------------------
(***************************************************************************)
(* The safety of a connection, for every pair of ends, every sequence of   *)
(* frames and every segmentation: what is accepted as a handshake is all   *)
(* of what the other end described, the frames after it are read as they   *)
(* were written, and none of them crosses from one network into another.   *)
(***************************************************************************)
EXTENDS Exchange, CodecProofs

\* First-order reasoning is enough for most leaves; the ones that need arithmetic, or
\* what the backend knows of sequences, cite SMT.
USE ZenonT(30)

\* Input that is put together of three parts.
Joined(s, t, u) == s \o t \in Seq(Unit) /\ (s \o t) \o u = s \o (t \o u)

\* How it is put together does not matter.
LEMMA JoinUnits ==
    ASSUME NEW s \in Seq(Unit), NEW t \in Seq(Unit), NEW u \in Seq(Unit)
    PROVE  Joined(s, t, u)
BY UnitsAssociative DEF Joined

----------------------------------------------------------------------------
(* The address of a handshake *)

\* What parse_address may return.
Addresses == {None} \cup {Some(a) : a \in [ip : Seq(Unit), port : Nat]}

\* A failed read fails the reads after it (the ? of handshake.rs:157-175).
LEMMA IdentityFails ==
    /\ \A reader : Then(Failed, reader) = Failed
    /\ ParseAddress(Failed) = Failed
    /\ ReadIdentity(Failed) = Failed
<1>1. \A reader : Then(Failed, reader) = Failed
  BY CursorLaws DEF Then
<1>2. ParseAddress(Failed) = Failed
  BY CursorLaws DEF ParseAddress
<1>3. ReadIdentity(Failed) = Failed
  BY <1>1, CursorLaws, SMTT(30) DEF ReadIdentity
<1> QED  BY <1>1, <1>2, <1>3

\* parse_address returns the same on more input (handshake.rs:207-228).
LEMMA ParseAddressExtends ==
    ASSUME NEW s \in Seq(Unit), NEW u \in Seq(Unit), NEW x
    PROVE  Extends(ParseAddress(Cursor(x, s)), ParseAddress(Cursor(x, s \o u)), s, u, Addresses)
<1> DEFINE length == ReadUnit(Cursor(x, s))  lengthu == ReadUnit(Cursor(x, s \o u))
           size(l) == IF l > AddressOverhead THEN l - AddressOverhead ELSE 0
           ip == IF length.ok /\ length.value > AddressOverhead
                 THEN ReadExact(length, length.value - AddressOverhead)
                 ELSE ReadExact(length, 0)
           ipu == IF lengthu.ok /\ lengthu.value > AddressOverhead
                  THEN ReadExact(lengthu, lengthu.value - AddressOverhead)
                  ELSE ReadExact(lengthu, 0)
           port == ReadVlq(ip)  portu == ReadVlq(ipu)
           Result(i, p) == IF ~p.ok THEN Failed
                           ELSE Cursor(IF Len(i.value) \in {4, 16}
                                       THEN Some([ip |-> i.value, port |-> p.value % Pow2[PortBits]])
                                       ELSE None,
                                       p.rest)
           r == ParseAddress(Cursor(x, s))  q == ParseAddress(Cursor(x, s \o u))
<1>1. r = Result(ip, port) /\ q = Result(ipu, portu)
  BY DEF ParseAddress
<1>2. Extends(length, lengthu, s, u, Unit)
  BY UnitExtends
<1> HIDE DEF r, q
<1> SUFFICES ASSUME r # Failed
             PROVE  Extends(r, q, s, u, Addresses)
  BY DEF Extends, r, q
<1>3. port # Failed
  <2> HIDE DEF port, portu, ip, ipu
  <2> QED  BY <1>1, CursorLaws
<1>4. ip # Failed
  <2> HIDE DEF ip
  <2> QED  BY <1>3, CursorLaws
<1>5. length # Failed
  <2> HIDE DEF length
  <2> QED  BY <1>4, CursorLaws
<1>6. PICK l \in Unit, t1 \in Seq(Unit) :
         Len(t1) <= Len(s) /\ length = Cursor(l, t1) /\ lengthu = Cursor(l, t1 \o u)
  BY <1>2, <1>5 DEF Extends
<1> HIDE DEF length, lengthu
<1> DEFINE n == size(l)
<1>7. n \in Nat /\ ip = ReadExact(Cursor(l, t1), n) /\ ipu = ReadExact(Cursor(l, t1 \o u), n)
  BY <1>6, CursorLaws, SMTT(30) DEF AddressOverhead, Unit
<1> HIDE DEF n
<1>8. Extends(ip, ipu, t1, u, {w \in Seq(Unit) : Len(w) = n})
  <2> HIDE DEF ip, ipu
  <2> QED  BY <1>7, ExactExtends
<1>9. PICK w \in {w \in Seq(Unit) : Len(w) = n}, t2 \in Seq(Unit) :
         Len(t2) <= Len(t1) /\ ip = Cursor(w, t2) /\ ipu = Cursor(w, t2 \o u)
  BY <1>4, <1>8 DEF Extends
<1> HIDE DEF ip, ipu
<1>10. Extends(port, portu, t2, u, Word)
  BY <1>9, VlqConsumes
<1>11. PICK p \in Word, t3 \in Seq(Unit) :
          Len(t3) <= Len(t2) /\ port = Cursor(p, t3) /\ portu = Cursor(p, t3 \o u)
  BY <1>3, <1>10 DEF Extends
<1> HIDE DEF port, portu
<1>12. p % Pow2[PortBits] \in Nat
  <2>1. PortBits \in Nat
    BY HandshakeAssumption, VlqAssumption, SMTT(30)
  <2>2. Pow2[PortBits] \in Nat /\ Pow2[PortBits] >= 1
    BY <2>1, Pow2Laws
  <2>3. p \in Nat
    BY GroupsHoldWord, SMTT(30) DEF Word
  <2> QED  BY <2>2, <2>3, SMTT(30)
<1> DEFINE a == IF Len(w) \in {4, 16} THEN Some([ip |-> w, port |-> p % Pow2[PortBits]]) ELSE None
<1>13. a \in Addresses
  BY <1>12 DEF Addresses
<1>14. r = Cursor(a, t3) /\ q = Cursor(a, t3 \o u)
  BY <1>1, <1>9, <1>11, CursorLaws
<1>15. Len(t3) <= Len(s)
  BY <1>6, <1>9, <1>11, SMTT(30)
<1> HIDE DEF a
<1> QED  BY <1>13, <1>14, <1>15 DEF Extends

\* So does the address with the flag before it (handshake.rs:168-175).
LEMMA AddressExtends ==
    ASSUME NEW s \in Seq(Unit), NEW u \in Seq(Unit)
    PROVE  Extends(AddressAt[s], AddressAt[s \o u], s, u, Addresses)
<1> DEFINE flag == ReadUnit(Start(s))  flagu == ReadUnit(Start(s \o u))
           Result(f) == IF f.ok /\ f.value = 0 THEN Cursor(None, f.rest) ELSE ParseAddress(f)
<1>1. AddressAt[s] = Result(flag) /\ AddressAt[s \o u] = Result(flagu)
  <2>1. s \o u \in Seq(Unit)
    BY UnitsConcat
  <2> QED  BY <2>1 DEF AddressAt
<1>2. Extends(flag, flagu, s, u, Unit)
  BY UnitExtends DEF Start
<1> HIDE DEF flag, flagu
<1>3. CASE flag = Failed
  BY <1>1, <1>3, IdentityFails, CursorLaws DEF Extends
<1>4. CASE flag # Failed
  <2>1. PICK a \in Unit, t \in Seq(Unit) :
           Len(t) <= Len(s) /\ flag = Cursor(a, t) /\ flagu = Cursor(a, t \o u)
    BY <1>2, <1>4 DEF Extends
  <2>2. CASE a = 0
    <3>1. AddressAt[s] = Cursor(None, t) /\ AddressAt[s \o u] = Cursor(None, t \o u)
      BY <1>1, <2>1, <2>2, CursorLaws, SMTT(30)
    <3> QED  BY <2>1, <3>1 DEF Extends, Addresses
  <2>3. CASE a # 0
    <3>1. /\ AddressAt[s] = ParseAddress(Cursor(a, t))
          /\ AddressAt[s \o u] = ParseAddress(Cursor(a, t \o u))
      BY <1>1, <2>1, <2>3, CursorLaws, SMTT(30)
    <3>2. Extends(AddressAt[s], AddressAt[s \o u], t, u, Addresses)
      BY <3>1, ParseAddressExtends
    <3>3. ASSUME NEW w \in Seq(Unit), Len(w) <= Len(t) PROVE Len(w) <= Len(s)
      BY <2>1, <3>3, SMTT(30)
    <3> QED  BY <3>2, <3>3 DEF Extends
  <2> QED  BY <2>2, <2>3
<1> QED  BY <1>3, <1>4

\* An address that `build` writes is read back (handshake.rs:70-84 and 207-228).
LEMMA PresentAddressReadBack ==
    ASSUME NEW ip \in Seq(Unit), Len(ip) \in {4, 16}, NEW port \in 0..Pow2[PortBits] - 1,
           NEW u \in Seq(Unit)
    PROVE  LET address == Some([ip |-> ip, port |-> port])
           IN  /\ WriteAddress(address) \in Seq(Unit)
               /\ AddressAt[WriteAddress(address) \o u] = Cursor(address, u)
<1> DEFINE address == Some([ip |-> ip, port |-> port])  l == Len(ip) + AddressOverhead
           one == <<1>>  length == <<l>>  both == <<1, l>>  tail == WriteVlq[port]
           t2 == tail \o u  t1 == ip \o t2  t0 == length \o t1
           at == WriteAddress(address) \o u
<1>1. port \in Word /\ port % Pow2[PortBits] = port
  <2>1. PortBits \in Nat /\ WordBits \in Nat /\ PortBits <= WordBits
    BY HandshakeAssumption, VlqAssumption, SMTT(30)
  <2>2. Pow2[PortBits] \in Nat /\ Pow2[PortBits] <= Pow2[WordBits] /\ Pow2[WordBits] \in Nat
    BY <2>1, Pow2Laws, Pow2Monotone
  <2>3. ASSUME NEW P \in Nat, NEW W \in Nat, NEW p \in 0..P - 1, P <= W
        PROVE  p \in 0..W - 1 /\ p % P = p
    BY <2>3, SMTT(30)
  <2> QED  BY <2>2, <2>3 DEF Word
<1>2. tail \in Seq(Unit) /\ \A x : ReadVlq(Cursor(x, t2)) = Cursor(port, u)
  BY <1>1, VlqReadBack
<1>3. l \in Unit /\ 1 \in Unit /\ l > AddressOverhead /\ l - AddressOverhead = Len(ip)
  <2>1. ASSUME NEW k \in {4, 16}
        PROVE  k + 4 \in Nat /\ 1 \in Nat /\ k + 4 > 4 /\ (k + 4) - 4 = k
    BY SMTT(30)
  <2> QED  BY <2>1 DEF Unit, AddressOverhead
<1>4. address # None /\ Head(address) = [ip |-> ip, port |-> port]
  BY SMTT(30) DEF Some, None
<1>5. WriteAddress(address) = (both \o ip) \o tail
  <2> DEFINE a == [ip |-> ip, port |-> port]
  <2>1. a.ip = ip /\ a.port = port /\ Head(address) = a
    BY <1>4
  <2> HIDE DEF a, address
  <2> QED  BY <1>4, <2>1 DEF WriteAddress
<1> HIDE DEF l
<1>6. one \in Seq(Unit) /\ length \in Seq(Unit) /\ both \in Seq(Unit)
  BY <1>3, SMTT(30)
<1>7. both = one \o length
  BY SMTT(30)
<1> HIDE DEF address, tail
<1>8. t2 \in Seq(Unit)
  BY <1>2, UnitsConcat
<1> HIDE DEF t2
<1>9. t1 \in Seq(Unit)
  BY <1>8, UnitsConcat
<1>10. at = one \o t0 /\ WriteAddress(address) \in Seq(Unit)
  <2> HIDE DEF one, length, both
  <2> DEFINE x == both \o ip
  <2>1. x \in Seq(Unit)
    BY <1>6, UnitsConcat
  <2>2. Joined(both, ip, t2) /\ Joined(one, length, t1)
    <3> HIDE DEF t1
    <3> QED  BY <1>6, <1>8, <1>9, JoinUnits
  <2>3. Joined(x, tail, u)
    <3> HIDE DEF x
    <3> QED  BY <1>2, <2>1, JoinUnits
  <2> QED  BY <1>5, <1>7, <2>2, <2>3 DEF Joined, t2
<1> HIDE DEF t1
<1>11. t0 \in Seq(Unit)
  BY <1>6, <1>9, UnitsConcat
<1>12. ReadUnit(Cursor(1, t0)) = Cursor(l, t1)
  BY <1>3, <1>9, UnitReadBack
<1> HIDE DEF t0
<1>13. at \in Seq(Unit) /\ ReadUnit(Start(at)) = Cursor(1, t0)
  BY <1>3, <1>6, <1>10, <1>11, UnitReadBack, UnitsConcat, SMTT(30) DEF Start
<1>14. ReadExact(Cursor(l, t1), Len(ip)) = Cursor(ip, t2)
  BY <1>8, ExactReadBack DEF t1
<1>15. ParseAddress(Cursor(1, t0)) = Cursor(address, u)
  <2>1. ReadExact(Cursor(l, t1), l - AddressOverhead) = Cursor(ip, t2)
    BY <1>3, <1>14
  <2>2. ReadVlq(Cursor(ip, t2)) = Cursor(port, u)
    BY <1>2
  <2> DEFINE read == ReadUnit(Cursor(1, t0))
             i == IF read.ok /\ read.value > AddressOverhead
                  THEN ReadExact(read, read.value - AddressOverhead)
                  ELSE ReadExact(read, 0)
             p == ReadVlq(i)
  <2>3. i = Cursor(ip, t2)
    BY <1>3, <1>12, <2>1, CursorLaws, SMTT(30)
  <2> HIDE DEF i
  <2>4. p = Cursor(port, u)
    BY <2>2, <2>3
  <2> HIDE DEF p
  <2>5. i.value = ip /\ p.ok /\ p.value % Pow2[PortBits] = port /\ p.rest = u
    BY <1>1, <2>3, <2>4, CursorLaws, SMTT(30)
  <2> QED  BY <2>5 DEF ParseAddress, address, i, p
<1> HIDE DEF at
<1>16. AddressAt[at] = ParseAddress(Cursor(1, t0))
  BY <1>13, CursorLaws, SMTT(30) DEF AddressAt
<1> QED  BY <1>10, <1>15, <1>16 DEF at, address

\* So is the absence of one.
LEMMA AddressReadBack ==
    ASSUME NEW address, OptionalAddress(address), NEW u \in Seq(Unit)
    PROVE  /\ WriteAddress(address) \in Seq(Unit)
           /\ AddressAt[WriteAddress(address) \o u] = Cursor(address, u)
<1>1. CASE address = None
  <2> DEFINE at == WriteAddress(address) \o u
  <2>1. WriteAddress(address) = <<0>> /\ 0 \in Unit
    BY <1>1 DEF WriteAddress, Unit
  <2>2. WriteAddress(address) \in Seq(Unit) /\ at \in Seq(Unit)
    BY <2>1, ConsLaws, SMTT(30)
  <2>3. ReadUnit(Start(at)) = Cursor(0, u)
    BY <2>1, UnitReadBack DEF Start
  <2> HIDE DEF at
  <2>4. AddressAt[at] = Cursor(None, u)
    BY <2>2, <2>3, CursorLaws, SMTT(30) DEF AddressAt
  <2> QED  BY <1>1, <2>2, <2>4 DEF at
<1>2. CASE address # None
  <2> DEFINE a == address[1]
  <2>1. address = Some(a) /\ a.ip \in Seq(Unit) /\ Len(a.ip) \in {4, 16}
          /\ a.port \in 0..Pow2[PortBits] - 1 /\ a = [ip |-> a.ip, port |-> a.port]
    BY <1>2 DEF OptionalAddress, Addressable
  <2> HIDE DEF a
  <2> QED  BY <2>1, PresentAddressReadBack, SMTT(30)
<1> QED  BY <1>1, <1>2

----------------------------------------------------------------------------
(* The handshake *)

\* What is read before the features.
Identities ==
    [agent : Seq(Unit), version : Unit, name : Seq(Unit), address : Addresses,
     features : {<<>>}]

\* The fields before the features are read the same on more input
\* (handshake.rs:157-175).
LEMMA IdentityExtends ==
    ASSUME NEW s \in Seq(Unit), NEW u \in Seq(Unit), NEW x
    PROVE  Extends(ReadIdentity(Cursor(x, s)), ReadIdentity(Cursor(x, s \o u)), s, u, Identities)
<1> DEFINE agent == ReadShortString(Cursor(x, s))  agentu == ReadShortString(Cursor(x, s \o u))
           version == ReadUnit(agent)              versionu == ReadUnit(agentu)
           name == ReadShortString(version)        nameu == ReadShortString(versionu)
           address == Then(name, AddressAt)        addressu == Then(nameu, AddressAt)
           Result(a, v, n, d) ==
              IF d.ok
              THEN Cursor([agent |-> a.value, version |-> v.value, name |-> n.value,
                           address |-> d.value, features |-> <<>>], d.rest)
              ELSE Failed
           r == ReadIdentity(Cursor(x, s))  q == ReadIdentity(Cursor(x, s \o u))
<1>1. r = Result(agent, version, name, address) /\ q = Result(agentu, versionu, nameu, addressu)
  BY DEF ReadIdentity
<1> HIDE DEF r, q
<1> SUFFICES ASSUME r # Failed
             PROVE  Extends(r, q, s, u, Identities)
  BY DEF Extends, r, q
<1>2. address # Failed
  <2> HIDE DEF address, addressu, agent, version, name
  <2> QED  BY <1>1, CursorLaws
<1>3. name # Failed
  <2> HIDE DEF name
  <2> QED  BY <1>2, IdentityFails
<1>4. version # Failed
  <2> HIDE DEF version
  <2> QED  BY <1>3, CursorLaws
<1>5. agent # Failed
  <2> HIDE DEF agent
  <2> QED  BY <1>4, CursorLaws
<1>6. Extends(agent, agentu, s, u, Seq(Unit))
  BY ShortStringExtends
<1>7. PICK a \in Seq(Unit), t1 \in Seq(Unit) :
         Len(t1) <= Len(s) /\ agent = Cursor(a, t1) /\ agentu = Cursor(a, t1 \o u)
  BY <1>5, <1>6 DEF Extends
<1> HIDE DEF agent, agentu
<1>8. Extends(version, versionu, t1, u, Unit)
  BY <1>7, UnitExtends
<1>9. PICK v \in Unit, t2 \in Seq(Unit) :
         Len(t2) <= Len(t1) /\ version = Cursor(v, t2) /\ versionu = Cursor(v, t2 \o u)
  BY <1>4, <1>8 DEF Extends
<1> HIDE DEF version, versionu
<1>10. Extends(name, nameu, t2, u, Seq(Unit))
  BY <1>9, ShortStringExtends
<1>11. PICK n \in Seq(Unit), t3 \in Seq(Unit) :
          Len(t3) <= Len(t2) /\ name = Cursor(n, t3) /\ nameu = Cursor(n, t3 \o u)
  BY <1>3, <1>10 DEF Extends
<1> HIDE DEF name, nameu
<1>12. address = AddressAt[t3] /\ addressu = AddressAt[t3 \o u]
  BY <1>11, CursorLaws DEF Then
<1>13. Extends(address, addressu, t3, u, Addresses)
  BY <1>12, AddressExtends
<1>14. PICK d \in Addresses, t4 \in Seq(Unit) :
          Len(t4) <= Len(t3) /\ address = Cursor(d, t4) /\ addressu = Cursor(d, t4 \o u)
  BY <1>2, <1>13 DEF Extends
<1> HIDE DEF address, addressu
<1> DEFINE i == [agent |-> a, version |-> v, name |-> n, address |-> d, features |-> <<>>]
<1>15. i \in Identities
  BY DEF Identities
<1>16. r = Cursor(i, t4) /\ q = Cursor(i, t4 \o u)
  <2>1. agent.value = a /\ agentu.value = a /\ version.value = v /\ versionu.value = v
    BY <1>7, <1>9, CursorLaws
  <2>2. name.value = n /\ nameu.value = n /\ address.value = d /\ addressu.value = d
    BY <1>11, <1>14, CursorLaws
  <2>3. address.ok /\ addressu.ok /\ address.rest = t4 /\ addressu.rest = t4 \o u
    BY <1>14, CursorLaws
  <2> QED  BY <1>1, <2>1, <2>2, <2>3
<1>17. Len(t4) <= Len(s)
  BY <1>7, <1>9, <1>11, <1>14, SMTT(30)
<1> HIDE DEF i
<1> QED  BY <1>15, <1>16, <1>17 DEF Extends

\* Input that is put together of the seven parts of a handshake and what follows it.
AllJoined(a, b, c, d, e, f, g, u) ==
    LET all == a \o b \o c \o d \o e \o f \o g
    IN  all \in Seq(Unit) /\ all \o u = a \o (b \o (c \o (d \o (e \o (f \o (g \o u))))))

\* The parts of a handshake may be read one after the other.
LEMMA JoinSeven ==
    ASSUME NEW a \in Seq(Unit), NEW b \in Seq(Unit), NEW c \in Seq(Unit), NEW d \in Seq(Unit),
           NEW e \in Seq(Unit), NEW f \in Seq(Unit), NEW g \in Seq(Unit), NEW u \in Seq(Unit)
    PROVE  AllJoined(a, b, c, d, e, f, g, u)
<1> DEFINE p2 == a \o b  p3 == p2 \o c  p4 == p3 \o d  p5 == p4 \o e  p6 == p5 \o f
           all == p6 \o g
           u1 == g \o u  u2 == f \o u1  u3 == e \o u2  u4 == d \o u3  u5 == c \o u4
           u6 == b \o u5
<1>1. u1 \in Seq(Unit)  BY JoinUnits DEF Joined
<1> HIDE DEF u1
<1>2. u2 \in Seq(Unit)  BY <1>1, UnitsConcat
<1> HIDE DEF u2
<1>3. u3 \in Seq(Unit)  BY <1>2, UnitsConcat
<1> HIDE DEF u3
<1>4. u4 \in Seq(Unit)  BY <1>3, UnitsConcat
<1> HIDE DEF u4
<1>5. u5 \in Seq(Unit)  BY <1>4, UnitsConcat
<1> HIDE DEF u5
<1>6. Joined(a, b, u5)  BY <1>5, JoinUnits
<1>7. p2 \in Seq(Unit)  BY <1>6 DEF Joined
<1> HIDE DEF p2
<1>8. Joined(p2, c, u4)  BY <1>4, <1>7, JoinUnits
<1>9. p3 \in Seq(Unit)  BY <1>8 DEF Joined
<1> HIDE DEF p3
<1>10. Joined(p3, d, u3)  BY <1>3, <1>9, JoinUnits
<1>11. p4 \in Seq(Unit)  BY <1>10 DEF Joined
<1> HIDE DEF p4
<1>12. Joined(p4, e, u2)  BY <1>2, <1>11, JoinUnits
<1>13. p5 \in Seq(Unit)  BY <1>12 DEF Joined
<1> HIDE DEF p5
<1>14. Joined(p5, f, u1)  BY <1>1, <1>13, JoinUnits
<1>15. p6 \in Seq(Unit)  BY <1>14 DEF Joined
<1> HIDE DEF p6
<1>16. Joined(p6, g, u)  BY <1>15, JoinUnits
<1>17. all \in Seq(Unit) /\ all \o u = p6 \o u1
  BY <1>16 DEF Joined, u1
<1>18. p6 \o u1 = p5 \o u2  BY <1>14 DEF Joined, p6, u2
<1>19. p5 \o u2 = p4 \o u3  BY <1>12 DEF Joined, p5, u3
<1>20. p4 \o u3 = p3 \o u4  BY <1>10 DEF Joined, p4, u4
<1>21. p3 \o u4 = p2 \o u5  BY <1>8 DEF Joined, p3, u5
<1>22. p2 \o u5 = a \o u6  BY <1>6 DEF Joined, p2
<1>23. all \o u = a \o u6
  BY <1>17, <1>18, <1>19, <1>20, <1>21, <1>22
<1> QED  BY <1>17, <1>23 DEF AllJoined, p2, p3, p4, p5, p6, u1, u2, u3, u4, u5

\* What is left of a handshake when the identity has been read, and u after it.
FeatureBytes(peer, u) == <<Len(peer.features)>> \o (WriteBlocks(peer.features) \o u)

\* The identity of a PeerSpec.
Identity(peer) ==
    [agent |-> peer.agent, version |-> peer.version, name |-> peer.name,
     address |-> peer.address, features |-> <<>>]

\* The features that `build` writes are within what parse_features reads.
LEMMA FeaturesWritable ==
    ASSUME NEW peer, Expressible(peer)
    PROVE  peer.features \in Seq(Writable) /\ Len(peer.features) \in Unit
<1>1. \A i \in 1..Len(peer.features) : peer.features[i] \in Writable
  BY SMTT(30) DEF Expressible, Writable
<1> QED  BY <1>1, SMTT(30) DEF Expressible, Unit

\* The identity that `build` writes is read back (handshake.rs:59-84 and 157-175).
LEMMA IdentityReadBack ==
    ASSUME NEW now \in Word, NEW peer, Expressible(peer), NEW u \in Seq(Unit)
    PROVE  /\ Serialize(now, peer) \in Seq(Unit)
           /\ FeatureBytes(peer, u) \in Seq(Unit)
           /\ ReadIdentity(ReadVlq(Start(Serialize(now, peer) \o u))) =
                 Cursor(Identity(peer), FeatureBytes(peer, u))
<1> DEFINE time == WriteVlq[now]  agent == WriteShortString(peer.agent)
           version == <<peer.version>>  name == WriteShortString(peer.name)
           address == WriteAddress(peer.address)  count == <<Len(peer.features)>>
           features == WriteBlocks(peer.features)
           t6 == features \o u  t5 == count \o t6  t4 == address \o t5  t3 == name \o t4
           t2 == version \o t3  t1 == agent \o t2
<1>1. /\ Short(peer.agent) /\ peer.version \in Unit /\ Short(peer.name)
      /\ OptionalAddress(peer.address)
  BY DEF Expressible
<1>2. time \in Seq(Unit)
  BY VlqReadBack
<1>3. agent \in Seq(Unit) /\ name \in Seq(Unit)
  BY <1>1, ShortStringReadBack DEF Short
<1>4. version \in Seq(Unit) /\ count \in Seq(Unit)
  BY <1>1, FeaturesWritable, SMTT(30)
<1>5. address \in Seq(Unit)
  BY <1>1, AddressReadBack
<1>6. features \in Seq(Unit)
  BY FeaturesWritable, WriteBlocksLaws
<1>7. Serialize(now, peer) = time \o agent \o version \o name \o address \o count \o features
  BY DEF Serialize
<1> HIDE DEF time, agent, name, address, features
<1>8. t6 \in Seq(Unit)
  BY <1>6, UnitsConcat
<1> HIDE DEF t6
<1>9. t5 \in Seq(Unit) /\ t5 = FeatureBytes(peer, u)
  BY <1>4, <1>8, UnitsConcat DEF FeatureBytes, t6, features
<1> HIDE DEF t5, version, count
<1>10. t4 \in Seq(Unit) /\ AddressAt[t4] = Cursor(peer.address, t5)
  BY <1>1, <1>5, <1>9, AddressReadBack, UnitsConcat DEF address
<1> HIDE DEF t4
<1>11. t3 \in Seq(Unit) /\ \A x : ReadShortString(Cursor(x, t3)) = Cursor(peer.name, t4)
  BY <1>1, <1>3, <1>10, ShortStringReadBack, UnitsConcat DEF Short, name
<1> HIDE DEF t3
<1>12. t2 \in Seq(Unit) /\ \A x : ReadUnit(Cursor(x, t2)) = Cursor(peer.version, t3)
  BY <1>1, <1>4, <1>11, UnitReadBack, UnitsConcat DEF version
<1> HIDE DEF t2
<1>13. t1 \in Seq(Unit) /\ \A x : ReadShortString(Cursor(x, t1)) = Cursor(peer.agent, t2)
  BY <1>1, <1>3, <1>12, ShortStringReadBack, UnitsConcat DEF Short, agent
<1> HIDE DEF t1
<1>14. ReadVlq(Start(time \o t1)) = Cursor(now, t1)
  BY <1>13, VlqReadBack DEF time, Start
<1>15. Serialize(now, peer) \in Seq(Unit) /\ Serialize(now, peer) \o u = time \o t1
  <2>1. AllJoined(time, agent, version, name, address, count, features, u)
    BY <1>2, <1>3, <1>4, <1>5, <1>6, JoinSeven
  <2> QED  BY <1>7, <2>1 DEF AllJoined, t1, t2, t3, t4, t5, t6
<1>16. ReadIdentity(Cursor(now, t1)) = Cursor(Identity(peer), t5)
  <2>1. ReadShortString(Cursor(now, t1)) = Cursor(peer.agent, t2)
    BY <1>13
  <2>2. ReadUnit(Cursor(peer.agent, t2)) = Cursor(peer.version, t3)
    BY <1>12
  <2>3. ReadShortString(Cursor(peer.version, t3)) = Cursor(peer.name, t4)
    BY <1>11
  <2>4. Then(Cursor(peer.name, t4), AddressAt) = Cursor(peer.address, t5)
    BY <1>10, CursorLaws DEF Then
  <2> QED  BY <2>1, <2>2, <2>3, <2>4, CursorLaws, SMTT(30) DEF ReadIdentity, Identity
<1> QED  BY <1>9, <1>14, <1>15, <1>16

\* The same input, cut in two ways.
Same(w, v, s, u) == w \o v = s \o u

\* What both inputs end in may be left away.
LEMMA CancelEnd ==
    ASSUME NEW s \in Seq(Unit), NEW t \in Seq(Unit), NEW v \in Seq(Unit), s \o v = t \o v
    PROVE  s = t
<1>1. Len(s) + Len(v) = Len(t) + Len(v)
  <2>1. Len(s \o v) = Len(s) + Len(v) /\ Len(t \o v) = Len(t) + Len(v)
    BY SMTT(30)
  <2> QED  BY <2>1
<1>2. Len(s) \in Nat /\ Len(t) \in Nat /\ Len(v) \in Nat
  BY SMTT(30)
<1>3. Len(s) = Len(t)
  BY <1>1, <1>2, SMTT(30)
<1>4. SubSeq(s \o v, 1, Len(s)) = s /\ SubSeq(t \o v, 1, Len(t)) = t
  BY CutBetween
<1> QED  BY <1>3, <1>4

\* w is s and then rest.
Parts(w, s, rest) == w = s \o rest /\ Len(w) - Len(rest) = Len(s)

\* A segment w of an input is cut after s, when the input after s is rest and v.
LEMMA CutAfter ==
    ASSUME NEW w \in Seq(Unit), NEW v \in Seq(Unit), NEW s \in Seq(Unit), NEW u \in Seq(Unit),
           NEW rest \in Seq(Unit), Same(w, v, s, u), rest \o v = u
    PROVE  Parts(w, s, rest)
<1> DEFINE x == s \o rest
<1>1. Joined(s, rest, v)
  BY JoinUnits
<1>2. x \in Seq(Unit) /\ x \o v = w \o v
  BY <1>1 DEF Joined, Same
<1>3. Len(x) = Len(s) + Len(rest) /\ Len(s) \in Nat /\ Len(rest) \in Nat
  BY UnitsConcat, SMTT(30)
<1> HIDE DEF x
<1>4. w = x
  BY <1>2, CancelEnd
<1>5. Len(w) - Len(rest) = Len(s)
  BY <1>3, <1>4, SMTT(30)
<1> QED  BY <1>4, <1>5 DEF x, Parts

\* `parse` returns peer, and measure_size where in w the frames begin.
Recognised(w, v, now, peer, u) ==
    /\ Parse(w) = Cursor(peer, <<>>)
    /\ MeasureSize(w).value = Len(Serialize(now, peer))
    /\ \E rest \in Seq(Unit) : w = Serialize(now, peer) \o rest /\ rest \o v = u

\* What `parse` and measure_size make of a segment w of a stream that begins with a
\* handshake, if measure_size accepts it (connection.rs:126-134): the segment holds all
\* of the handshake, `parse` returns all of what was described, and measure_size the
\* place where the frames begin.  Neither of them is so alone: `parse` accepts a
\* handshake whose features are cut off.
THEOREM HandshakeOfPrefix ==
    ASSUME NEW now \in Word, NEW peer, Expressible(peer), NEW u \in Seq(Unit),
           NEW w \in Seq(Unit), NEW v \in Seq(Unit), Same(w, v, Serialize(now, peer), u),
           MeasureSize(w).ok
    PROVE  Recognised(w, v, now, peer, u)
<1> DEFINE B == Serialize(now, peer)  whole == w \o v
           time == ReadVlq(Start(w))        timev == ReadVlq(Start(whole))
           identity == ReadIdentity(time)   identityv == ReadIdentity(timev)
           count == ReadUnit(identity)      countv == ReadUnit(identityv)
           features == ReadBlocks[count.value][count.rest]
           bytes == FeatureBytes(peer, u)
<1>1. whole = B \o u
  BY DEF Same
<1>2. B \in Seq(Unit) /\ bytes \in Seq(Unit) /\ identityv = Cursor(Identity(peer), bytes)
  BY <1>1, IdentityReadBack
<1>3. MeasureSize(w) = IF count.ok /\ features.missing = 0
                       THEN Cursor(Len(w) - Len(features.rest), features.rest) ELSE Failed
  BY DEF MeasureSize
<1>4. count.ok /\ features.missing = 0
        /\ MeasureSize(w).value = Len(w) - Len(features.rest)
  <2> HIDE DEF count, features
  <2> QED  BY <1>3, CursorLaws
<1>5. identity # Failed /\ time # Failed
  <2> HIDE DEF time
  <2>1. count # Failed
    <3> HIDE DEF count
    <3> QED  BY <1>4, CursorLaws
  <2>2. identity # Failed
    <3> HIDE DEF identity
    <3> QED  BY <2>1, CursorLaws
  <2> QED  BY <2>2, IdentityFails
<1>6. Extends(time, timev, w, v, Word)
  BY VlqConsumes DEF Start
<1>7. PICK n \in Word, t1 \in Seq(Unit) : time = Cursor(n, t1) /\ timev = Cursor(n, t1 \o v)
  BY <1>5, <1>6 DEF Extends
<1> HIDE DEF time, timev, B, whole
<1>8. Extends(identity, identityv, t1, v, Identities)
  BY <1>7, IdentityExtends
<1>9. PICK i \in Identities, t2 \in Seq(Unit) :
         identity = Cursor(i, t2) /\ identityv = Cursor(i, t2 \o v)
  BY <1>5, <1>8 DEF Extends
<1>10. i = Identity(peer) /\ t2 \o v = bytes
  <2> HIDE DEF identity, identityv, bytes
  <2>1. identityv.value = i /\ identityv.rest = t2 \o v
    BY <1>9, CursorLaws
  <2>2. identityv.value = Identity(peer) /\ identityv.rest = bytes
    BY <1>2, CursorLaws
  <2> QED  BY <2>1, <2>2
<1> HIDE DEF identity, identityv, bytes
<1>11. Extends(count, countv, t2, v, Unit)
  BY <1>9, UnitExtends
<1>12. count # Failed
  <2> HIDE DEF count
  <2> QED  BY <1>4, CursorLaws
<1>13. PICK k \in Unit, t3 \in Seq(Unit) : count = Cursor(k, t3) /\ countv = Cursor(k, t3 \o v)
  BY <1>11, <1>12 DEF Extends
<1> DEFINE more == WriteBlocks(peer.features) \o u
<1>14. more \in Seq(Unit) /\ countv = Cursor(Len(peer.features), more)
  <2>1. WriteBlocks(peer.features) \in Seq(Unit) /\ Len(peer.features) \in Unit
    BY FeaturesWritable, WriteBlocksLaws
  <2>2. more \in Seq(Unit)
    BY <2>1, UnitsConcat
  <2> HIDE DEF more
  <2>3. ReadUnit(Cursor(i, <<Len(peer.features)>> \o more)) = Cursor(Len(peer.features), more)
    BY <2>1, <2>2, UnitReadBack
  <2>4. identityv = Cursor(i, <<Len(peer.features)>> \o more)
    BY <1>9, <1>10 DEF bytes, FeatureBytes, more
  <2> QED  BY <2>2, <2>3, <2>4
<1> HIDE DEF more
<1>15. k = Len(peer.features) /\ t3 \o v = more
  <2> HIDE DEF countv
  <2>1. countv.value = k /\ countv.rest = t3 \o v
    BY <1>13, CursorLaws
  <2>2. countv.value = Len(peer.features) /\ countv.rest = more
    BY <1>14, CursorLaws
  <2> QED  BY <2>1, <2>2
<1>16. count.value = k /\ count.rest = t3 /\ count.ok
  <2> HIDE DEF count
  <2> QED  BY <1>13, CursorLaws
<1> HIDE DEF count, countv
<1>17. features = ReadBlocks[k][t3] /\ ReadBlocks[k][t3].missing = 0
  BY <1>4, <1>16
<1>18. AllRead(features, ReadBlocks[k][t3 \o v], k, t3, v)
  BY <1>17, BlocksExtend DEF Unit
<1>19. ReadBlocks[k][t3 \o v] = [blocks |-> peer.features, missing |-> 0, rest |-> u]
  BY <1>15, FeaturesWritable, BlocksReadBack DEF more
<1> HIDE DEF features
<1>20. features.blocks = peer.features /\ features.rest \in Seq(Unit) /\ features.rest \o v = u
  <2> DEFINE all == ReadBlocks[k][t3 \o v]
  <2>1. all.blocks = peer.features /\ all.rest = u
    BY <1>19, SMTT(30)
  <2> HIDE DEF all
  <2>2. all = [blocks |-> features.blocks, missing |-> 0, rest |-> features.rest \o v]
          /\ features.rest \in Seq(Unit)
    BY <1>18 DEF AllRead, all
  <2>3. all.blocks = features.blocks /\ all.rest = features.rest \o v
    BY <2>2
  <2> QED  BY <2>1, <2>2, <2>3
<1>21. w = B \o features.rest /\ Len(w) - Len(features.rest) = Len(B)
  <2> DEFINE rest == features.rest
  <2>1. rest \in Seq(Unit) /\ rest \o v = u /\ Same(w, v, B, u)
    BY <1>20 DEF B
  <2> HIDE DEF rest
  <2>2. Parts(w, B, rest)
    BY <1>2, <2>1, CutAfter
  <2> QED  BY <2>2 DEF rest, Parts
<1>22. ParseFeatures(identity) = peer.features
  BY <1>16, <1>17, <1>20 DEF ParseFeatures, count, features
<1>23. Parse(w) = Cursor([i EXCEPT !.features = peer.features], <<>>)
  <2>1. Parse(w) = ParsePeerEntry(time)
    BY DEF Parse, time
  <2>2. identity.ok /\ identity.value = i
    BY <1>9, CursorLaws
  <2> QED  BY <1>22, <2>1, <2>2 DEF ParsePeerEntry, identity
<1>24. [i EXCEPT !.features = peer.features] = peer
  BY <1>10, SMTT(30) DEF Identity, Expressible
<1> QED  BY <1>4, <1>20, <1>21, <1>23, <1>24 DEF B, Recognised

\* What a proxy says of itself is always expressible: its features are short enough for
\* the limit that every reader enforces (handshake.rs:86-132).
LEMMA OwnSpecExpressible ==
    ASSUME NEW config, ConfigValid(config), NEW random \in SignedWord
    PROVE  Expressible(OwnSpec(config, random))
<1> DEFINE own == OwnSpec(config, random)
           mode == [id |-> FeatureMode, body |-> BuildModeBody(config.mode)]
           session == [id |-> FeatureSession, body |-> BuildSessionBody(config.magic, random)]
           proxy == [id |-> FeatureProxy, body |-> <<1>>]
           features == <<mode, session, proxy>>
<1>1. MaxVlqLength \in Nat /\ 5 <= MaxVlqLength /\ 1 + MaxGroups <= MaxVlqLength
        /\ MaxGroups \in Nat
  BY HandshakeAssumption, LengthsAreWords, GroupsHoldWord
<1>2. mode \in Block /\ Len(mode.body) <= MaxVlqLength
  <2> DEFINE body == BuildModeBody(config.mode)  n == Len(body)
  <2>1. body \in Seq(Nat) /\ (n = 4 \/ n = 5)
    BY SMTT(30) DEF BuildModeBody
  <2> HIDE DEF n
  <2>2. n <= MaxVlqLength
    BY <1>1, <2>1, SMTT(30)
  <2> HIDE DEF body
  <2> QED  BY <2>1, <2>2 DEF Block, Unit, FeatureMode, n, body
<1>3. session \in Block /\ Len(session.body) <= MaxVlqLength
  <2> DEFINE number == WriteVlq[ZigzagEncode(random)]  body == <<config.magic>> \o number
  <2>1. ZigzagEncode(random) \in Word
    BY ZigzagReadBack
  <2>2. number \in Seq(Unit) /\ Len(number) \in 1..MaxGroups
    <3>1. <<>> \in Seq(Unit)
      BY SMTT(30)
    <3> QED  BY <2>1, <3>1, VlqReadBack
  <2> HIDE DEF number
  <2>3. body \in Seq(Unit) /\ Len(body) = Len(number) + 1
    BY <2>2, ConsLaws DEF ConfigValid
  <2> HIDE DEF body
  <2>4. Len(body) <= MaxVlqLength
    BY <1>1, <2>2, <2>3, SMTT(30)
  <2>5. session = [id |-> FeatureSession, body |-> body]
    BY DEF BuildSessionBody, body, number
  <2> QED  BY <2>3, <2>4, <2>5 DEF Block, Unit, FeatureSession
<1>4. proxy \in Block /\ Len(proxy.body) <= MaxVlqLength
  BY <1>1, SMTT(30) DEF Block, Unit, FeatureProxy
<1>5. own = [agent |-> config.agent_name, version |-> config.version, name |-> config.peer_name,
             address |-> config.declared_address, features |-> features]
  BY DEF OwnSpec
<1> HIDE DEF own, mode, session, proxy
<1>6. /\ own.agent = config.agent_name /\ own.version = config.version
      /\ own.name = config.peer_name /\ own.address = config.declared_address
      /\ own.features = features
  BY <1>5
<1>7. features \in Seq(Block) /\ \A i \in DOMAIN features : Len(features[i].body) <= MaxVlqLength
  BY <1>2, <1>3, <1>4, SMTT(30)
<1> HIDE DEF features
<1>8. own = [agent |-> own.agent, version |-> own.version, name |-> own.name,
             address |-> own.address, features |-> own.features]
  BY <1>5, <1>6
<1>9. Expressible(own)
  BY <1>6, <1>7, <1>8 DEF Expressible, ConfigValid
<1> QED  BY <1>9 DEF own

----------------------------------------------------------------------------
(* Frames *)

\* The bytes of all frames but the first k.
Pending(magic, frames, k) == EncodeAll(magic, SubSeq(frames, k + 1, Len(frames)))

\* write_frame adds to the end of what was written, read_frame takes from its start.
LEMMA EncodeAllLaws ==
    ASSUME NEW m \in Unit
    PROVE  /\ EncodeAll(m, <<>>) = <<>>
           /\ \A fs \in Seq(Frame) : EncodeAll(m, fs) \in Seq(Unit)
           /\ \A fs \in Seq(Frame) : \A f \in Frame :
                 EncodeAll(m, Append(fs, f)) = EncodeAll(m, fs) \o Encode(m, f)
           /\ \A fs \in Seq(Frame) : fs # <<>> =>
                 EncodeAll(m, fs) = Encode(m, Head(fs)) \o EncodeAll(m, Tail(fs))
<1> DEFINE W(fs) == [i \in DOMAIN fs |-> Encode(m, fs[i])]
           T == Seq(Unit)
<1>1. EncodeAll(m, <<>>) = <<>>
  <2>1. W(<<>>) = <<>>
    BY SMTT(30)
  <2> QED  BY <2>1, FlattenAppend DEF EncodeAll
<1>2. \A f \in Frame : Encode(m, f) \in T
  BY EncodeLaws
<1>3. ASSUME NEW fs \in Seq(Frame)
      PROVE  /\ W(fs) \in Seq(T) /\ Len(W(fs)) = Len(fs)
             /\ \A i \in 1..Len(fs) : W(fs)[i] = Encode(m, fs[i])
  <2>1. \A i \in 1..Len(fs) : fs[i] \in Frame /\ Encode(m, fs[i]) \in T
    <3>1. \A i \in 1..Len(fs) : fs[i] \in Frame
      BY SMTT(30)
    <3> QED  BY <1>2, <3>1
  <2> HIDE DEF T
  <2>2. DOMAIN fs = 1..Len(fs) /\ Len(fs) \in Nat
    BY SMTT(30)
  <2> QED  BY <2>1, <2>2, SMTT(30)
<1>4. \A fs : EncodeAll(m, fs) = Flatten(W(fs))
  BY DEF EncodeAll
<1>5. ASSUME NEW fs \in Seq(Frame), NEW f \in Frame
      PROVE  EncodeAll(m, Append(fs, f)) = EncodeAll(m, fs) \o Encode(m, f)
  <2> DEFINE gs == Append(fs, f)
  <2>1. /\ gs \in Seq(Frame) /\ Len(gs) = Len(fs) + 1 /\ gs[Len(fs) + 1] = f
        /\ \A i \in 1..Len(fs) : gs[i] = fs[i]
        /\ Len(fs) \in Nat
    BY SMTT(30)
  <2> HIDE DEF gs
  <2>2. Encode(m, f) \in T
    BY <1>2
  <2>3. /\ W(fs) \in Seq(T) /\ Len(W(fs)) = Len(fs)
        /\ \A i \in 1..Len(fs) : W(fs)[i] = Encode(m, fs[i])
        /\ W(gs) \in Seq(T) /\ Len(W(gs)) = Len(gs)
        /\ \A i \in 1..Len(gs) : W(gs)[i] = Encode(m, gs[i])
    BY <1>3, <2>1
  <2> HIDE DEF W, T
  <2> DEFINE ws == Append(W(fs), Encode(m, f))
  <2>4. /\ ws \in Seq(T) /\ Len(ws) = Len(fs) + 1 /\ ws[Len(fs) + 1] = Encode(m, f)
        /\ \A i \in 1..Len(fs) : ws[i] = W(fs)[i]
    BY <2>2, <2>3, AppendProperties, SMTT(30)
  <2> HIDE DEF ws
  <2>5. \A i \in 1..Len(ws) : ws[i] = W(gs)[i]
    <3> SUFFICES ASSUME NEW i \in 1..Len(ws) PROVE ws[i] = W(gs)[i]
      OBVIOUS
    <3>1. i \in 1..Len(gs) /\ (i \in 1..Len(fs) \/ i = Len(fs) + 1)
      BY <2>1, <2>4, SMTT(30)
    <3> QED  BY <2>1, <2>3, <2>4, <3>1
  <2>6. W(gs) = ws
    BY <2>1, <2>3, <2>4, <2>5, SeqEqual
  <2>7. Flatten(ws) = Flatten(W(fs)) \o Encode(m, f)
    BY <2>2, <2>3, FlattenAppend DEF T, ws, Pieces
  <2> QED  BY <1>4, <2>6, <2>7 DEF gs
<1>6. ASSUME NEW fs \in Seq(Frame), fs # <<>>
      PROVE  EncodeAll(m, fs) = Encode(m, Head(fs)) \o EncodeAll(m, Tail(fs))
  <2> DEFINE gs == Tail(fs)
  <2>1. /\ gs \in Seq(Frame) /\ Len(gs) = Len(fs) - 1 /\ Len(fs) \in Nat \ {0}
        /\ \A i \in 1..Len(fs) - 1 : gs[i] = fs[i + 1]
        /\ Head(fs) = fs[1]
    BY <1>6, SMTT(30)
  <2> HIDE DEF gs
  <2>2. /\ W(fs) \in Seq(T) /\ Len(W(fs)) = Len(fs)
        /\ \A i \in 1..Len(fs) : W(fs)[i] = Encode(m, fs[i])
        /\ W(gs) \in Seq(T) /\ Len(W(gs)) = Len(gs)
        /\ \A i \in 1..Len(gs) : W(gs)[i] = Encode(m, gs[i])
    BY <1>3, <2>1
  <2> HIDE DEF W, T
  <2>3. W(fs) # <<>>
    BY <2>1, <2>2
  <2>4. /\ Head(W(fs)) = W(fs)[1] /\ Tail(W(fs)) \in Seq(T)
        /\ Len(Tail(W(fs))) = Len(fs) - 1
        /\ \A i \in 1..Len(fs) - 1 : Tail(W(fs))[i] = W(fs)[i + 1]
    BY <2>1, <2>2, <2>3, HeadTailProperties, SMTT(30)
  <2>5. \A i \in 1..Len(fs) - 1 : Tail(W(fs))[i] = W(gs)[i]
    <3> SUFFICES ASSUME NEW i \in 1..Len(fs) - 1 PROVE Tail(W(fs))[i] = W(gs)[i]
      OBVIOUS
    <3>1. i + 1 \in 1..Len(fs) /\ i \in 1..Len(gs)
      BY <2>1, SMTT(30)
    <3> QED  BY <2>1, <2>2, <2>4, <3>1
  <2>6. Tail(W(fs)) = W(gs)
    BY <2>1, <2>2, <2>4, <2>5, SeqEqual
  <2>7. Head(W(fs)) = Encode(m, Head(fs))
    BY <2>1, <2>2, <2>4, SMTT(30)
  <2>8. Flatten(W(fs)) = Head(W(fs)) \o Flatten(Tail(W(fs)))
    BY <2>2, <2>3, FlattenHead DEF T, Pieces
  <2> QED  BY <1>4, <2>6, <2>7, <2>8 DEF gs
<1>7. \A fs \in Seq(Frame) : EncodeAll(m, fs) \in Seq(Unit)
  BY <1>3, <1>4, FlattenAppend DEF Pieces
<1> QED  BY <1>1, <1>5, <1>6, <1>7

\* One more frame written, and one more frame read.
LEMMA PendingLaws ==
    ASSUME NEW m \in Unit, NEW fs \in Seq(Frame), NEW k \in 0..Len(fs)
    PROVE  /\ Pending(m, fs, k) \in Seq(Unit)
           /\ Pending(m, fs, 0) = EncodeAll(m, fs)
           /\ k = Len(fs) => Pending(m, fs, k) = <<>>
           /\ \A f \in Frame : Pending(m, Append(fs, f), k) = Pending(m, fs, k) \o Encode(m, f)
           /\ k < Len(fs) =>
                 Pending(m, fs, k) = Encode(m, fs[k + 1]) \o Pending(m, fs, k + 1)
<1>1. Len(fs) \in Nat /\ k \in Nat /\ k <= Len(fs)
  BY SMTT(30)
<1> DEFINE ps == SubSeq(fs, k + 1, Len(fs))
<1>2. /\ ps \in Seq(Frame) /\ Len(ps) = Len(fs) - k
      /\ \A i \in 1..Len(fs) - k : ps[i] = fs[k + i]
  BY <1>1, SMTT(30)
<1>3. Pending(m, fs, k) = EncodeAll(m, ps)
  BY DEF Pending
<1>4. Pending(m, fs, k) \in Seq(Unit)
  BY <1>2, <1>3, EncodeAllLaws
<1>5. Pending(m, fs, 0) = EncodeAll(m, fs)
  <2>1. SubSeq(fs, 1, Len(fs)) = fs
    BY SMTT(30)
  <2>2. 0 + 1 = 1
    BY SMTT(30)
  <2> QED  BY <2>1, <2>2 DEF Pending
<1>6. k = Len(fs) => Pending(m, fs, k) = <<>>
  <2> SUFFICES ASSUME k = Len(fs) PROVE Pending(m, fs, k) = <<>>
    OBVIOUS
  <2>1. Len(ps) = 0
    BY <1>1, <1>2, SMTT(30)
  <2> HIDE DEF ps
  <2>2. ps = <<>>
    BY <1>2, <2>1, SMTT(30)
  <2> QED  BY <1>3, <2>2, EncodeAllLaws
<1>7. ASSUME NEW f \in Frame
      PROVE  Pending(m, Append(fs, f), k) = Pending(m, fs, k) \o Encode(m, f)
  <2> DEFINE gs == Append(fs, f)  qs == SubSeq(gs, k + 1, Len(gs))  ws == Append(ps, f)
  <2>1. /\ gs \in Seq(Frame) /\ Len(gs) = Len(fs) + 1 /\ gs[Len(fs) + 1] = f
        /\ \A i \in 1..Len(fs) : gs[i] = fs[i]
    BY SMTT(30)
  <2> HIDE DEF gs
  <2>2. /\ qs \in Seq(Frame) /\ Len(qs) = Len(fs) + 1 - k
        /\ \A i \in 1..Len(fs) + 1 - k : qs[i] = gs[k + i]
    BY <1>1, <2>1, SMTT(30)
  <2> HIDE DEF qs, ps
  <2>3. /\ ws \in Seq(Frame) /\ Len(ws) = Len(fs) - k + 1 /\ ws[Len(fs) - k + 1] = f
        /\ \A i \in 1..Len(fs) - k : ws[i] = ps[i]
    BY <1>2, SMTT(30)
  <2> HIDE DEF ws
  <2>4. \A i \in 1..Len(qs) : qs[i] = ws[i]
    <3> SUFFICES ASSUME NEW i \in 1..Len(qs) PROVE qs[i] = ws[i]
      OBVIOUS
    <3>1. CASE i = Len(fs) - k + 1
      <4>1. k + i = Len(fs) + 1
        BY <1>1, <3>1, SMTT(30)
      <4>2. qs[i] = gs[k + i]
        BY <2>2
      <4> QED  BY <2>1, <2>3, <3>1, <4>1, <4>2
    <3>2. CASE i # Len(fs) - k + 1
      <4>1. i \in 1..Len(fs) - k /\ k + i \in 1..Len(fs)
        BY <1>1, <2>2, <3>2, SMTT(30)
      <4>2. qs[i] = gs[k + i] /\ gs[k + i] = fs[k + i] /\ ps[i] = fs[k + i] /\ ws[i] = ps[i]
        BY <1>2, <2>1, <2>2, <2>3, <4>1
      <4> QED  BY <4>2
    <3> QED  BY <3>1, <3>2
  <2>5. qs = ws
    <3>1. Len(qs) = Len(ws)
      BY <1>1, <2>2, <2>3, SMTT(30)
    <3> QED  BY <2>2, <2>3, <2>4, <3>1, SeqEqual
  <2>6. EncodeAll(m, ws) = EncodeAll(m, ps) \o Encode(m, f)
    BY <1>2, EncodeAllLaws DEF ws
  <2>7. Pending(m, gs, k) = EncodeAll(m, qs)
    BY DEF Pending, qs
  <2> QED  BY <1>3, <2>5, <2>6, <2>7 DEF gs
<1>8. ASSUME k < Len(fs)
      PROVE  Pending(m, fs, k) = Encode(m, fs[k + 1]) \o Pending(m, fs, k + 1)
  <2> DEFINE qs == SubSeq(fs, k + 2, Len(fs))
  <2>1. /\ qs \in Seq(Frame) /\ Len(qs) = Len(fs) - k - 1
        /\ \A i \in 1..Len(fs) - k - 1 : qs[i] = fs[k + 1 + i]
    BY <1>1, <1>8, SMTT(30)
  <2>2. Pending(m, fs, k + 1) = EncodeAll(m, qs)
    <3>1. (k + 1) + 1 = k + 2
      BY <1>1, SMTT(30)
    <3> QED  BY <3>1 DEF Pending
  <2> HIDE DEF qs, ps
  <2>3. ps # <<>> /\ Len(ps) > 0
    BY <1>1, <1>2, <1>8, SMTT(30)
  <2>4. /\ Head(ps) = ps[1] /\ Tail(ps) \in Seq(Frame) /\ Len(Tail(ps)) = Len(ps) - 1
        /\ \A i \in 1..Len(ps) - 1 : Tail(ps)[i] = ps[i + 1]
    BY <1>2, <2>3, SMTT(30)
  <2>5. Head(ps) = fs[k + 1]
    <3>1. 1 \in 1..Len(fs) - k
      BY <1>1, <1>8, SMTT(30)
    <3> QED  BY <1>2, <2>4, <3>1
  <2>6. \A i \in 1..Len(qs) : qs[i] = Tail(ps)[i]
    <3> SUFFICES ASSUME NEW i \in 1..Len(qs) PROVE qs[i] = Tail(ps)[i]
      OBVIOUS
    <3>1. i \in 1..Len(fs) - k - 1 /\ i \in 1..Len(ps) - 1 /\ i + 1 \in 1..Len(fs) - k
            /\ k + (i + 1) = k + 1 + i
      BY <1>1, <1>2, <2>1, SMTT(30)
    <3>2. qs[i] = fs[k + 1 + i] /\ Tail(ps)[i] = ps[i + 1] /\ ps[i + 1] = fs[k + (i + 1)]
      BY <1>2, <2>1, <2>4, <3>1
    <3> QED  BY <3>1, <3>2
  <2>7. Tail(ps) = qs
    <3>1. Len(qs) = Len(Tail(ps))
      BY <1>1, <1>2, <2>1, <2>4
    <3> QED  BY <2>1, <2>4, <2>6, <3>1, SeqEqual
  <2>8. EncodeAll(m, ps) = Encode(m, Head(ps)) \o EncodeAll(m, Tail(ps))
    BY <1>2, <2>3, EncodeAllLaws
  <2> QED  BY <1>3, <2>2, <2>5, <2>7, <2>8
<1> QED  BY <1>4, <1>5, <1>6, <1>7, <1>8

\* A prefix is what some rest completes.
LEMMA PrefixLaw ==
    ASSUME NEW s \in Seq(Unit), NEW t \in Seq(Unit)
    PROVE  IsPrefix(s, t) <=> \E v \in Seq(Unit) : s \o v = t
<1>1. Len(s) \in Nat /\ Len(t) \in Nat
  BY SMTT(30)
<1>2. ASSUME IsPrefix(s, t) PROVE \E v \in Seq(Unit) : s \o v = t
  <2> DEFINE v == SubSeq(t, Len(s) + 1, Len(t))
  <2>1. Len(s) <= Len(t)
    BY <1>2 DEF IsPrefix
  <2>2. \A i \in 1..Len(s) : s[i] = t[i]
    BY <1>2 DEF IsPrefix
  <2>3. /\ v \in Seq(Unit) /\ Len(v) = Len(t) - Len(s)
        /\ \A i \in 1..Len(t) - Len(s) : v[i] = t[Len(s) + i]
    BY <1>1, <2>1, SMTT(30)
  <2> HIDE DEF v
  <2> DEFINE w == s \o v
  <2>4. /\ w \in Seq(Unit) /\ Len(w) = Len(s) + Len(v)
        /\ \A i \in 1..Len(s) : w[i] = s[i]
        /\ \A i \in 1..Len(v) : w[Len(s) + i] = v[i]
    BY <2>3, UnitsConcat
  <2> HIDE DEF w
  <2>5. \A i \in 1..Len(w) : w[i] = t[i]
    <3> SUFFICES ASSUME NEW i \in 1..Len(w) PROVE w[i] = t[i]
      OBVIOUS
    <3>1. CASE i <= Len(s)
      BY <1>1, <2>2, <2>4, <3>1, SMTT(30)
    <3>2. CASE ~(i <= Len(s))
      <4> DEFINE j == i - Len(s)
      <4>1. j \in 1..Len(v) /\ Len(s) + j = i /\ j \in 1..Len(t) - Len(s)
        BY <1>1, <2>1, <2>3, <2>4, <3>2, SMTT(30)
      <4> HIDE DEF j
      <4> QED  BY <2>3, <2>4, <4>1
    <3> QED  BY <3>1, <3>2
  <2>6. Len(w) = Len(t)
    BY <1>1, <2>1, <2>3, <2>4, SMTT(30)
  <2>7. w = t
    BY <2>4, <2>5, <2>6, SeqEqual
  <2> QED  BY <2>3, <2>7 DEF w
<1>3. ASSUME NEW v \in Seq(Unit), s \o v = t PROVE IsPrefix(s, t)
  <2>1. /\ Len(v) \in Nat /\ Len(s \o v) = Len(s) + Len(v)
        /\ \A i \in 1..Len(s) : (s \o v)[i] = s[i]
    BY UnitsConcat, SMTT(30)
  <2>2. Len(t) = Len(s) + Len(v) /\ \A i \in 1..Len(s) : t[i] = s[i]
    BY <1>3, <2>1
  <2> QED  BY <1>1, <2>1, <2>2, SMTT(30) DEF IsPrefix
<1> QED  BY <1>2, <1>3

\* An input may be cut anywhere.
LEMMA CutAnywhere ==
    ASSUME NEW s \in Seq(Unit), NEW n \in 0..Len(s)
    PROVE  LET a == SubSeq(s, 1, n)
               b == SubSeq(s, n + 1, Len(s))
           IN  a \in Seq(Unit) /\ b \in Seq(Unit) /\ s = a \o b
<1> DEFINE a == SubSeq(s, 1, n)  b == SubSeq(s, n + 1, Len(s))  l == Len(s)
<1>1. l \in Nat /\ n \in Nat /\ n <= l
  BY SMTT(30)
<1>2. /\ a \in Seq(Unit) /\ Len(a) = n /\ \A i \in 1..n : a[i] = s[i]
      /\ b \in Seq(Unit) /\ Len(b) = l - n /\ \A i \in 1..l - n : b[i] = s[n + i]
  BY <1>1, SMTT(30)
<1> HIDE DEF a, b
<1> DEFINE w == a \o b
<1>3. /\ w \in Seq(Unit) /\ Len(w) = Len(a) + Len(b)
      /\ \A i \in 1..Len(a) : w[i] = a[i]
      /\ \A i \in 1..Len(b) : w[Len(a) + i] = b[i]
  BY <1>2, UnitsConcat
<1> HIDE DEF w
<1>4. \A i \in 1..Len(w) : w[i] = s[i]
  <2> SUFFICES ASSUME NEW i \in 1..Len(w) PROVE w[i] = s[i]
    OBVIOUS
  <2>1. CASE i <= n
    BY <1>1, <1>2, <1>3, <2>1, SMTT(30)
  <2>2. CASE ~(i <= n)
    <3> DEFINE j == i - n
    <3>1. j \in 1..Len(b) /\ n + j = i /\ j \in 1..l - n
      BY <1>1, <1>2, <1>3, <2>2, SMTT(30)
    <3> HIDE DEF j
    <3> QED  BY <1>2, <1>3, <3>1
  <2> QED  BY <2>1, <2>2
<1>5. Len(w) = Len(s)
  BY <1>1, <1>2, <1>3, SMTT(30)
<1>6. w = s
  BY <1>3, <1>4, <1>5, SeqEqual
<1> QED  BY <1>2, <1>6 DEF a, b, w

\* s begins t: what was lost of t is its end.
Begins(s, t) == \E v \in Seq(Unit) : s \o v = t

\* Reading the start of an input, and losing its end.
LEMMA BeginsLaws ==
    ASSUME NEW s \in Seq(Unit)
    PROVE  /\ Begins(s, s)
           /\ Begins(<<>>, s)
           /\ \A n \in 0..Len(s) : \A t \in Seq(Unit) :
                 Begins(s, t) => Begins(SubSeq(s, 1, n), t)
           /\ Begins(s, <<>>) => s = <<>>
<1>1. Begins(s, s) /\ Begins(<<>>, s)
  <2>1. <<>> \in Seq(Unit) /\ s \o <<>> = s /\ <<>> \o s = s
    BY SMTT(30)
  <2> QED  BY <2>1 DEF Begins
<1>2. ASSUME NEW n \in 0..Len(s), NEW t \in Seq(Unit), Begins(s, t)
      PROVE  Begins(SubSeq(s, 1, n), t)
  <2>1. PICK v \in Seq(Unit) : s \o v = t
    BY <1>2 DEF Begins
  <2> DEFINE a == SubSeq(s, 1, n)  b == SubSeq(s, n + 1, Len(s))
  <2>2. a \in Seq(Unit) /\ b \in Seq(Unit) /\ s = a \o b
    BY CutAnywhere
  <2> HIDE DEF a, b
  <2>3. Joined(a, b, v) /\ Joined(b, v, v)
    BY <2>2, JoinUnits
  <2>4. b \o v \in Seq(Unit) /\ a \o (b \o v) = t
    BY <2>1, <2>2, <2>3 DEF Joined
  <2> QED  BY <2>4 DEF Begins, a
<1>3. ASSUME Begins(s, <<>>) PROVE s = <<>>
  <2>1. PICK v \in Seq(Unit) : s \o v = <<>>
    BY <1>3 DEF Begins
  <2>2. Len(s) + Len(v) = 0 /\ Len(s) \in Nat /\ Len(v) \in Nat
    <3>1. Len(s \o v) = Len(s) + Len(v) /\ Len(<<>>) = 0
      BY SMTT(30)
    <3> QED  BY <2>1, <3>1, SMTT(30)
  <2>3. Len(s) = 0
    BY <2>2, SMTT(30)
  <2> QED  BY <2>3, SMTT(30)
<1> QED  BY <1>1, <1>2, <1>3

\* What read_handshake leaves of the input (connection.rs:134-135): rest, of a stream of
\* the handshake and the bytes of the frames.
Consumed(w, n, now, peer, bytes) ==
    LET segment == SubSeq(w, 1, n)
        rest    == SubSeq(w, MeasureSize(segment).value + 1, Len(w))
    IN  /\ Parse(segment) = Cursor(peer, <<>>)
        /\ rest \in Seq(Unit)
        /\ Begins(rest, bytes)
        /\ w = Serialize(now, peer) \o bytes => rest = bytes

\* "no bytes are lost between handshake and first frame" (connection.rs:15): whatever
\* part of the input has arrived, exactly the handshake is consumed.
LEMMA HandshakeConsumed ==
    ASSUME NEW now \in Word, NEW peer, Expressible(peer), NEW bytes \in Seq(Unit),
           NEW w \in Seq(Unit), Begins(w, Serialize(now, peer) \o bytes),
           NEW n \in 1..Len(w), MeasureSize(SubSeq(w, 1, n)).ok
    PROVE  Consumed(w, n, now, peer, bytes)
<1> DEFINE B == Serialize(now, peer)
           segment == SubSeq(w, 1, n)  later == SubSeq(w, n + 1, Len(w))
           rest == SubSeq(w, MeasureSize(segment).value + 1, Len(w))
<1>1. B \in Seq(Unit)
  BY IdentityReadBack
<1>2. segment \in Seq(Unit) /\ later \in Seq(Unit) /\ w = segment \o later
  <2>1. n \in 0..Len(w)
    BY SMTT(30)
  <2> QED  BY <2>1, CutAnywhere
<1>3. PICK v \in Seq(Unit) : w \o v = B \o bytes
  BY DEF Begins
<1> HIDE DEF B, later
<1> DEFINE following == later \o v
<1>4. following \in Seq(Unit) /\ Same(segment, following, B, bytes)
  <2> HIDE DEF segment
  <2>1. Joined(segment, later, v) /\ Joined(later, v, v)
    BY <1>2, JoinUnits
  <2> QED  BY <1>2, <1>3, <2>1 DEF Joined, Same
<1> HIDE DEF following
<1>5. /\ Parse(segment) = Cursor(peer, <<>>)
      /\ MeasureSize(segment).value = Len(B)
      /\ \E r \in Seq(Unit) : segment = B \o r /\ r \o following = bytes
  <2> HIDE DEF segment
  <2>1. MeasureSize(segment).ok
    BY DEF segment
  <2>2. Recognised(segment, following, now, peer, bytes)
    BY <1>2, <1>4, <2>1, HandshakeOfPrefix DEF B
  <2> QED  BY <2>2 DEF Recognised, B
<1>6. PICK r \in Seq(Unit) : segment = B \o r /\ r \o following = bytes
  BY <1>5
<1> HIDE DEF segment
<1> DEFINE x == r \o later
<1>7. x \in Seq(Unit) /\ w = B \o x /\ x \o v = bytes
  <2>1. Joined(B, r, later) /\ Joined(r, later, v)
    BY <1>1, <1>2, JoinUnits
  <2> QED  BY <1>2, <1>6, <2>1 DEF Joined, following
<1> HIDE DEF x
<1>8. rest = x
  <2>1. SubSeq(B \o x, Len(B) + 1, Len(B \o x)) = x
    BY <1>1, <1>7, CutBetween
  <2> QED  BY <1>5, <1>7, <2>1
<1>9. ASSUME w = B \o bytes PROVE x = bytes
  <2>1. SubSeq(B \o x, Len(B) + 1, Len(B \o x)) = x
    BY <1>1, <1>7, CutBetween
  <2>2. SubSeq(B \o bytes, Len(B) + 1, Len(B \o bytes)) = bytes
    BY <1>1, CutBetween
  <2> QED  BY <1>7, <1>9, <2>1, <2>2
<1>10. Begins(x, bytes)
  BY <1>7 DEF Begins
<1> QED  BY <1>5, <1>7, <1>8, <1>9, <1>10 DEF Consumed, segment, B

\* frame was written in the network of m, and it is what is read in that of magic.
FrameRead(magic, m, frame, w, v, u) ==
    LET r == ReadFrame(magic, w)
    IN  m = magic /\ r.frame = frame /\ r.rest \in Seq(Unit) /\ r.rest \o v = u

\* What read_frame returns of an input that begins like an encoded frame, as far as the
\* input goes (frame.rs:92-129).
LEMMA FrameOfPrefix ==
    ASSUME NEW magic \in Unit, NEW m \in Unit, NEW frame \in Frame, NEW u \in Seq(Unit),
           NEW w \in Seq(Unit), NEW v \in Seq(Unit), Same(w, v, Encode(m, frame), u),
           ReadFrame(magic, w).outcome = "frame"
    PROVE  FrameRead(magic, m, frame, w, v, u)
<1> DEFINE e == Encode(m, frame)
           n == Len(frame.body)
           r == ReadFrame(magic, w)
           total == HeaderSize + w[3]
           body == SubSeq(w, HeaderSize + 1, total)
<1>1. /\ n \in Nat /\ e \in Seq(Unit) /\ Len(e) = 4 + n
      /\ e[1] = m /\ e[2] = frame.code /\ e[3] = n
      /\ \A i \in 1..n : e[4 + i] = frame.body[i]
  BY EncodeLaws DEF HeaderSize
<1>2. Len(w) >= 4 /\ w[1] = magic /\ total <= Len(w)
        /\ r = [outcome |-> "frame", frame |-> [code |-> w[2], body |-> body],
                rest |-> SubSeq(w, total + 1, Len(w))]
  <2>1. Incomplete.outcome # "frame" /\ Malformed.outcome # "frame"
    BY DEF Incomplete, Malformed
  <2>2. \A i \in 1..Len(w) : w[i] \in Nat
    BY SMTT(30) DEF Unit
  <2>3. Len(w) \in Nat
    BY SMTT(30)
  <2>4. ~(Len(w) < HeaderSize) /\ w[1] = magic /\ ~(Len(w) < total)
          /\ r = [outcome |-> "frame", frame |-> [code |-> w[2], body |-> body],
                  rest |-> SubSeq(w, total + 1, Len(w))]
    BY <2>1 DEF ReadFrame
  <2>5. Len(w) >= 4 /\ w[3] \in Nat
    BY <2>2, <2>3, <2>4, SMTT(30) DEF HeaderSize
  <2> QED  BY <2>3, <2>4, <2>5, SMTT(30) DEF HeaderSize
<1> HIDE DEF e, r
<1>3. \A i \in 1..Len(w) : i \in 1..Len(e) => w[i] = e[i]
  <2> SUFFICES ASSUME NEW i \in 1..Len(w), i \in 1..Len(e) PROVE w[i] = e[i]
    OBVIOUS
  <2>1. (w \o v)[i] = w[i] /\ (e \o u)[i] = e[i]
    BY <1>1, UnitsConcat, SMTT(30)
  <2> QED  BY <2>1 DEF e, Same
<1>4. m = magic /\ w[2] = frame.code /\ w[3] = n
  <2>1. \A i \in 1..4 : i \in 1..Len(w) /\ i \in 1..Len(e)
    <3>1. Len(w) \in Nat
      BY SMTT(30)
    <3> QED  BY <1>1, <1>2, <3>1, SMTT(30)
  <2>2. \A i \in 1..4 : w[i] = e[i]
    BY <1>3, <2>1
  <2> QED  BY <1>1, <1>2, <2>2, SMTT(30)
<1>5. total = Len(e) /\ total \in 0..Len(w)
  BY <1>1, <1>2, <1>4, SMTT(30) DEF HeaderSize
<1>6. body = frame.body
  <2>1. frame.body \in Seq(Unit)
    BY DEF Frame
  <2>2. body = SubSeq(w, 5, 4 + n)
    BY <1>4, SMTT(30) DEF HeaderSize
  <2>3. 4 + n <= Len(w)
    BY <1>1, <1>5, SMTT(30)
  <2>4. SubSeq(w, 5, 4 + n) \in Seq(Unit) /\ Len(SubSeq(w, 5, 4 + n)) = n
          /\ \A i \in 1..n : SubSeq(w, 5, 4 + n)[i] = w[4 + i]
    BY <1>1, <2>3, SMTT(30)
  <2>5. \A i \in 1..n : w[4 + i] = frame.body[i]
    <3> SUFFICES ASSUME NEW i \in 1..n PROVE w[4 + i] = frame.body[i]
      OBVIOUS
    <3>1. 4 + i \in 1..Len(w) /\ 4 + i \in 1..Len(e)
      BY <1>1, <2>3, SMTT(30)
    <3> QED  BY <1>1, <1>3, <3>1
  <2> HIDE DEF body
  <2> QED  BY <1>1, <2>1, <2>2, <2>4, <2>5, SeqEqual, SMTT(30)
<1>7. r.frame = frame
  <2>1. frame = [code |-> frame.code, body |-> frame.body]
    BY DEF Frame
  <2>2. r.frame = [code |-> w[2], body |-> body]
    BY <1>2
  <2> QED  BY <1>4, <1>6, <2>1, <2>2
<1>8. r.rest = SubSeq(w, Len(e) + 1, Len(w)) /\ Len(e) \in 0..Len(w)
  BY <1>2, <1>5
<1>9. SubSeq(w \o v, Len(e) + 1, Len(w \o v)) = SubSeq(w, Len(e) + 1, Len(w)) \o v
        /\ SubSeq(w, Len(e) + 1, Len(w)) \in Seq(Unit)
  BY <1>8, CutConcat
<1>10. SubSeq(e \o u, Len(e) + 1, Len(e \o u)) = u
  BY <1>1, CutBetween
<1> QED  BY <1>4, <1>7, <1>8, <1>9, <1>10 DEF e, r, Same, FrameRead

\* What read_frame leaves when fs were written and gs have been read.
Received(magic, m, gs, fs, w) ==
    LET read == ReadFrame(magic, w)
        hs   == Append(gs, read.frame)
    IN  /\ m = magic
        /\ hs \in Seq(Frame) /\ IsPrefix(hs, fs)
        /\ read.rest \in Seq(Unit)
        /\ Begins(read.rest, Pending(m, fs, Len(hs)))
        /\ w = Pending(m, fs, Len(gs)) => read.rest = Pending(m, fs, Len(hs))

\* A frame that read_frame returns is the next that was written, and it comes from the
\* reader's own network (frame.rs:92-129).
LEMMA FrameReceived ==
    ASSUME NEW magic \in Unit, NEW m \in Unit, NEW gs \in Seq(Frame), NEW fs \in Seq(Frame),
           IsPrefix(gs, fs), NEW w \in Seq(Unit), Begins(w, Pending(m, fs, Len(gs))),
           ReadFrame(magic, w).outcome = "frame"
    PROVE  Received(magic, m, gs, fs, w)
<1> DEFINE k == Len(gs)  read == ReadFrame(magic, w)
<1>1. k \in Nat /\ k <= Len(fs) /\ Len(fs) \in Nat
  BY SMTT(30) DEF IsPrefix
<1>2. k < Len(fs)
  <2> SUFFICES ASSUME k = Len(fs) PROVE FALSE
    BY <1>1, SMTT(30)
  <2>1. Pending(m, fs, k) = <<>>
    <3>1. k \in 0..Len(fs)
      BY <1>1, SMTT(30)
    <3> HIDE DEF k
    <3> QED  BY <3>1, PendingLaws
  <2>2. w = <<>>
    BY <2>1, BeginsLaws
  <2>3. Len(w) < HeaderSize
    BY <2>2, SMTT(30) DEF HeaderSize
  <2>4. read.outcome = "incomplete"
    BY <2>3 DEF ReadFrame, Incomplete
  <2> QED  BY <2>4
<1> DEFINE frame == fs[k + 1]  u == Pending(m, fs, k + 1)
<1>3. frame \in Frame /\ u \in Seq(Unit) /\ Pending(m, fs, k) = Encode(m, frame) \o u
  <2>1. k \in 0..Len(fs) /\ k + 1 \in 0..Len(fs) /\ k + 1 \in 1..Len(fs)
    BY <1>1, <1>2, SMTT(30)
  <2>2. frame \in Frame
    BY <2>1, SMTT(30)
  <2> HIDE DEF k
  <2> QED  BY <1>2, <2>1, <2>2, PendingLaws
<1>4. Begins(w, Encode(m, frame) \o u)
  BY <1>3
<1> HIDE DEF frame, u
<1>5. ASSUME NEW v \in Seq(Unit), w \o v = Encode(m, frame) \o u
      PROVE  m = magic /\ read.frame = frame /\ read.rest \in Seq(Unit) /\ read.rest \o v = u
  <2>1. Same(w, v, Encode(m, frame), u)
    BY <1>5 DEF Same
  <2>2. FrameRead(magic, m, frame, w, v, u)
    BY <1>3, <2>1, FrameOfPrefix
  <2> QED  BY <2>2 DEF FrameRead
<1>6. PICK v \in Seq(Unit) : w \o v = Encode(m, frame) \o u
  BY <1>4 DEF Begins
<1>7. m = magic /\ read.frame = frame /\ read.rest \in Seq(Unit) /\ read.rest \o v = u
  BY <1>5, <1>6
<1>8. Begins(read.rest, u)
  BY <1>7 DEF Begins
<1>9. ASSUME w = Pending(m, fs, k) PROVE read.rest = u
  <2> DEFINE none == <<>>
  <2>1. none \in Seq(Unit) /\ w \o none = w
    BY SMTT(30)
  <2> HIDE DEF none
  <2>2. w \o none = Encode(m, frame) \o u
    BY <1>3, <1>9, <2>1
  <2>3. read.rest \o none = u
    BY <1>5, <2>1, <2>2
  <2>4. read.rest \o <<>> = read.rest
    <3> DEFINE rest == read.rest
    <3>1. rest \in Seq(Unit)
      BY <1>7
    <3> HIDE DEF rest
    <3>2. rest \o <<>> = rest
      BY <3>1, SMTT(30)
    <3> QED  BY <3>2 DEF rest
  <2> QED  BY <2>3, <2>4 DEF none
<1> DEFINE hs == Append(gs, frame)
<1>10. hs \in Seq(Frame) /\ IsPrefix(hs, fs) /\ Len(hs) = k + 1
  <2>1. /\ hs \in Seq(Frame) /\ Len(hs) = k + 1 /\ hs[k + 1] = frame
        /\ \A i \in 1..k : hs[i] = gs[i]
    BY <1>3, SMTT(30)
  <2> HIDE DEF hs
  <2>2. \A i \in 1..Len(hs) : hs[i] = fs[i]
    <3> SUFFICES ASSUME NEW i \in 1..Len(hs) PROVE hs[i] = fs[i]
      OBVIOUS
    <3>1. i \in 1..k \/ i = k + 1
      BY <1>1, <2>1, SMTT(30)
    <3> QED  BY <2>1, <3>1 DEF IsPrefix, frame
  <2> QED  BY <1>1, <1>2, <2>1, <2>2, SMTT(30) DEF IsPrefix
<1>11. hs = Append(gs, read.frame)
  BY <1>7
<1> HIDE DEF hs, read
<1>12. u = Pending(m, fs, Len(hs))
  BY <1>10 DEF u
<1> QED  BY <1>7, <1>8, <1>9, <1>10, <1>11, <1>12 DEF Received, read

----------------------------------------------------------------------------
(* The inductive invariant *)

\* The handshake of an end has not been written yet.
Unwritten(e) == pc[e] = "writing" \/ (pc[e] = "reading" /\ e = "responder")

\* All that an end has written.
Stream(e) == HelloBytes(e) \o EncodeAll(MagicOf(e), sent[e])

ExchangeTypeOK ==
    /\ DOMAIN end = Ends /\ \A e \in Ends : WellFormed(end[e])
    /\ pc \in [Ends -> {"writing", "reading", "active"} \cup Gone]
    /\ wire \in [Ends -> Seq(Unit)]
    /\ spec = [e \in Ends |-> spec[e]]
    /\ sent \in [Ends -> Seq(Frame)]
    /\ got \in [Ends -> Seq(Frame)]

\* A proxy has a PeerSpec exactly from when it has read the handshake to when it closes,
\* nobody accepts a handshake before it is written, and frames come after handshakes.
Phases(e) ==
    /\ Proxy(e) /\ Open(e) =>
          (spec[e] = None <=> pc[e] = "reading" \/ (pc[e] = "writing" /\ e = "initiator"))
    /\ ~Proxy(e) => pc[e] \in {"writing", "active", "closed"} /\ spec[e] = None
    /\ Unwritten(e) => sent[e] = <<>> /\ spec[Other(e)] = None
    /\ pc[e] = "reading" => sent[e] = <<>>
    /\ spec[e] = None => got[e] = <<>>

\* Before a proxy has read the handshake, all that was written is there, and the end of
\* it may only be lost when the writer has closed.
BeforeHandshake(e) ==
    Proxy(e) /\ Open(e) /\ spec[e] = None =>
        /\ Begins(wire[e], Stream(Other(e)))
        /\ Open(Other(e)) => wire[e] = IF Unwritten(Other(e)) THEN <<>> ELSE Stream(Other(e))

\* After it, the frames that were not read are there.
AfterHandshake(e) ==
    spec[e] # None =>
        /\ spec[e] = Some(Hello(Other(e)))
        /\ IsPrefix(got[e], sent[Other(e)])
        /\ Begins(wire[e], Unread(e))
        /\ Open(Other(e)) => wire[e] = Unread(e)

EndInv(e) ==
    /\ Phases(e)
    /\ BeforeHandshake(e)
    /\ AfterHandshake(e)
    /\ got[e] # <<>> => MagicOf(e) = MagicOf(Other(e))

ExchangeInv == ExchangeTypeOK /\ \A e \in Ends : EndInv(e)

\* The two ends.
LEMMA TwoEnds ==
    ASSUME NEW e \in Ends
    PROVE  /\ Other(e) \in Ends /\ Other(e) # e /\ Other(Other(e)) = e
           /\ \A x \in Ends : x = e \/ x = Other(e)
BY DEF Ends, Other

\* What an end writes at first, and all that it writes.
LEMMA EndLaws ==
    ASSUME ExchangeTypeOK, NEW e \in Ends
    PROVE  /\ MagicOf(e) \in Unit /\ end[e].now \in Word /\ Expressible(Hello(e))
           /\ HelloBytes(e) = Serialize(end[e].now, Hello(e))
           /\ HelloBytes(e) \in Seq(Unit)
           /\ EncodeAll(MagicOf(e), sent[e]) \in Seq(Unit)
           /\ Stream(e) \in Seq(Unit)
<1>1. WellFormed(end[e]) /\ sent[e] \in Seq(Frame)
  BY DEF ExchangeTypeOK
<1>2. MagicOf(e) \in Unit /\ end[e].now \in Word
  BY <1>1 DEF MagicOf, WellFormed, Proxy, ConfigValid
<1>3. Expressible(Hello(e))
  <2>1. CASE Proxy(e)
    <3>1. ConfigValid(end[e].config) /\ end[e].random \in SignedWord
      BY <1>1, <2>1 DEF WellFormed, Proxy
    <3> DEFINE config == end[e].config  random == end[e].random
    <3> HIDE DEF config, random
    <3>2. Expressible(OwnSpec(config, random))
      BY <3>1, OwnSpecExpressible DEF config, random
    <3> QED  BY <2>1, <3>2 DEF Hello, config, random
  <2>2. CASE ~Proxy(e)
    BY <1>1, <2>2 DEF Hello, WellFormed, Proxy
  <2> QED  BY <2>1, <2>2
<1>4. HelloBytes(e) = Serialize(end[e].now, Hello(e))
  BY DEF HelloBytes, Hello, Build
<1>5. HelloBytes(e) \in Seq(Unit)
  <2> DEFINE now == end[e].now  peer == Hello(e)
  <2>1. now \in Word /\ Expressible(peer) /\ <<>> \in Seq(Unit)
    BY <1>2, <1>3, SMTT(30)
  <2> HIDE DEF now, peer
  <2>2. Serialize(now, peer) \in Seq(Unit)
    BY <2>1, IdentityReadBack
  <2> QED  BY <1>4, <2>2 DEF now, peer
<1>6. EncodeAll(MagicOf(e), sent[e]) \in Seq(Unit)
  BY <1>1, <1>2, EncodeAllLaws
<1>7. Stream(e) \in Seq(Unit)
  <2> DEFINE hello == HelloBytes(e)  frames == EncodeAll(MagicOf(e), sent[e])
  <2> HIDE DEF hello, frames
  <2>1. hello \o frames \in Seq(Unit)
    BY <1>5, <1>6, UnitsConcat DEF hello, frames
  <2> QED  BY <2>1 DEF Stream, hello, frames
<1> QED  BY <1>2, <1>3, <1>4, <1>5, <1>6, <1>7

\* Who is at an end does not change.
LEMMA EndsStay ==
    ASSUME end' = end, NEW e
    PROVE  /\ (Proxy(e) => Proxy(e)') /\ (Proxy(e)' => Proxy(e))
           /\ Hello(e)' = Hello(e) /\ HelloBytes(e)' = HelloBytes(e)
           /\ MagicOf(e)' = MagicOf(e)
BY DEF Proxy, Hello, HelloBytes, MagicOf

\* An end closes: its own input no longer matters, and the input of the other may from
\* now on be cut short (connection.rs:42-93, and the reader loop of run_peer).
LEMMA CloseStep ==
    ASSUME ExchangeInv, NEW e \in Ends, NEW g \in Gone, ~Proxy(e) => g = "closed",
           pc' = [pc EXCEPT ![e] = g], UNCHANGED <<end, wire, spec, sent, got>>
    PROVE  ExchangeInv'
<1> DEFINE o == Other(e)
<1>1. o \in Ends /\ o # e /\ Other(o) = e /\ Other(e) = o /\ \A x \in Ends : x = e \/ x = o
  BY TwoEnds
<1>2. /\ ExchangeTypeOK'
      /\ pc'[e] = g /\ pc'[o] = pc[o]
  BY <1>1 DEF ExchangeInv, ExchangeTypeOK, Gone
<1>3. /\ EndInv(e) /\ EndInv(o)
      /\ wire' = wire /\ spec' = spec /\ sent' = sent /\ got' = got
  BY <1>1 DEF ExchangeInv
<1>4. ~Open(e)' /\ (Open(o)' => Open(o)) /\ ~Unwritten(e)' /\ (Unwritten(o)' => Unwritten(o))
  BY <1>2 DEF Open, Gone, Unwritten
<1>5. Stream(e)' = Stream(e) /\ Stream(o)' = Stream(o)
  BY <1>3, EndsStay DEF Stream
<1>6. Unread(e)' = Unread(e) /\ Unread(o)' = Unread(o)
  BY <1>3, EndsStay DEF Unread
<1>7. EndInv(e)'
  <2>1. Phases(e)'
    BY <1>2, <1>3, <1>4, EndsStay DEF Phases, EndInv, Gone
  <2>2. BeforeHandshake(e)'
    BY <1>4 DEF BeforeHandshake
  <2>3. AfterHandshake(e)'
    BY <1>1, <1>2, <1>3, <1>4, <1>6, EndsStay DEF AfterHandshake, EndInv
  <2> QED  BY <1>3, <2>1, <2>2, <2>3, EndsStay DEF EndInv
<1>8. EndInv(o)'
  <2>1. Phases(o)'
    BY <1>1, <1>2, <1>3, <1>4, EndsStay DEF Phases, EndInv, Open
  <2>2. BeforeHandshake(o)'
    BY <1>1, <1>3, <1>4, <1>5, EndsStay DEF BeforeHandshake, EndInv
  <2>3. AfterHandshake(o)'
    BY <1>1, <1>3, <1>4, <1>6, EndsStay DEF AfterHandshake, EndInv
  <2> QED  BY <1>3, <2>1, <2>2, <2>3, EndsStay DEF EndInv
<1> QED  BY <1>1, <1>2, <1>7, <1>8 DEF ExchangeInv

\* The end of what a closed end wrote is lost.
LEMMA LoseTailStep ==
    ASSUME ExchangeInv, NEW e \in Ends, LoseTail(e)
    PROVE  ExchangeInv'
<1> DEFINE o == Other(e)
<1>1. o \in Ends /\ o # e /\ Other(o) = e /\ Other(e) = o /\ \A x \in Ends : x = e \/ x = o
  BY TwoEnds
<1>2. PICK n \in 0..Len(wire[e]) - 1 : wire' = [wire EXCEPT ![e] = SubSeq(@, 1, n)]
  BY DEF LoseTail
<1>3. /\ EndInv(e) /\ EndInv(o) /\ ~Open(o) /\ ExchangeTypeOK /\ wire[e] \in Seq(Unit)
      /\ end' = end /\ pc' = pc /\ spec' = spec /\ sent' = sent /\ got' = got
  BY <1>1 DEF ExchangeInv, ExchangeTypeOK, LoseTail
<1> DEFINE w == wire[e]  cut == SubSeq(w, 1, n)
<1>4. cut \in Seq(Unit) /\ \A t \in Seq(Unit) : Begins(w, t) => Begins(cut, t)
  <2>1. w \in Seq(Unit)
    BY <1>3
  <2> HIDE DEF w
  <2>2. n \in 0..Len(w)
    <3>1. Len(w) \in Nat
      BY <2>1, SMTT(30)
    <3> QED  BY <1>2, <3>1, SMTT(30) DEF w
  <2>3. cut \in Seq(Unit)
    BY <2>1, <2>2, SMTT(30)
  <2> QED  BY <2>1, <2>2, <2>3, BeginsLaws
<1> HIDE DEF cut
<1>5. ExchangeTypeOK' /\ wire'[e] = cut /\ wire'[o] = wire[o]
  BY <1>1, <1>2, <1>3, <1>4 DEF ExchangeTypeOK, cut
<1> HIDE DEF w
<1>6. Stream(e)' = Stream(e) /\ Stream(o)' = Stream(o) /\ Stream(o) \in Seq(Unit)
  BY <1>1, <1>3, EndsStay, EndLaws DEF Stream
<1>7. Unread(e)' = Unread(e) /\ Unread(o)' = Unread(o)
  BY <1>3, EndsStay DEF Unread
<1>8. spec[e] # None => Unread(e) \in Seq(Unit)
  <2> SUFFICES ASSUME spec[e] # None PROVE Unread(e) \in Seq(Unit)
    OBVIOUS
  <2> DEFINE m == MagicOf(o)  fs == sent[o]  k == Len(got[e])
  <2>1. m \in Unit /\ fs \in Seq(Frame) /\ got[e] \in Seq(Frame) /\ k <= Len(fs)
    BY <1>1, <1>3, EndLaws DEF EndInv, AfterHandshake, IsPrefix, ExchangeTypeOK
  <2>2. k \in 0..Len(fs)
    BY <2>1, SMTT(30)
  <2>3. Unread(e) = Pending(m, fs, k)
    BY DEF Unread, Pending
  <2> HIDE DEF m, fs, k
  <2> QED  BY <2>1, <2>2, <2>3, PendingLaws
<1>9. /\ (Open(o)' => Open(o)) /\ (Open(o) => Open(o)') /\ (Open(e)' => Open(e))
      /\ (Open(e) => Open(e)')
      /\ (Unwritten(e)' => Unwritten(e)) /\ (Unwritten(o)' => Unwritten(o))
      /\ (Unwritten(e) => Unwritten(e)')
  BY <1>3 DEF Open, Unwritten
<1>10. EndInv(e)'
  <2>1. Phases(e)'
    BY <1>1, <1>3, <1>9, EndsStay DEF Phases, EndInv
  <2>2. BeforeHandshake(e)'
    BY <1>1, <1>3, <1>4, <1>5, <1>6, <1>9, EndsStay DEF BeforeHandshake, EndInv, w
  <2>3. AfterHandshake(e)'
    BY <1>1, <1>3, <1>4, <1>5, <1>7, <1>8, <1>9, EndsStay DEF AfterHandshake, EndInv, w
  <2> QED  BY <1>3, <2>1, <2>2, <2>3, EndsStay DEF EndInv
<1>11. EndInv(o)'
  <2>1. Phases(o)'
    BY <1>1, <1>3, <1>9, EndsStay DEF Phases, EndInv
  <2>2. BeforeHandshake(o)'
    BY <1>1, <1>3, <1>5, <1>6, <1>9, EndsStay DEF BeforeHandshake, EndInv
  <2>3. AfterHandshake(o)'
    BY <1>1, <1>3, <1>5, <1>7, <1>9, EndsStay DEF AfterHandshake, EndInv
  <2> QED  BY <1>3, <2>1, <2>2, <2>3, EndsStay DEF EndInv
<1> QED  BY <1>1, <1>5, <1>10, <1>11 DEF ExchangeInv

\* Setting one entry of a table leaves the others: `wire`, `pc` and `spec` are per-end state.
LEMMA OneReplaced ==
    ASSUME NEW S, NEW T, NEW f \in [S -> T], NEW x \in S, NEW y \in S, y # x, NEW v \in T
    PROVE  LET g == [f EXCEPT ![x] = v] IN  g \in [S -> T] /\ g[x] = v /\ g[y] = f[y]
OBVIOUS

\* What is delivered to the other end.
LEMMA Delivered ==
    ASSUME ExchangeTypeOK, NEW o \in Ends, NEW bytes \in Seq(Unit), WriteTo(o, bytes)
    PROVE  /\ wire' \in [Ends -> Seq(Unit)]
           /\ Proxy(o) => wire'[o] = wire[o] \o bytes
           /\ \A x \in Ends : x # o => wire'[x] = wire[x]
<1> DEFINE w == wire[o]
<1>1. w \in Seq(Unit) /\ wire \in [Ends -> Seq(Unit)]
  BY DEF ExchangeTypeOK
<1>2. w \o bytes \in Seq(Unit)
  <2> HIDE DEF w
  <2> QED  BY <1>1, UnitsConcat
<1> DEFINE T == Seq(Unit)  wb == w \o bytes
<1>3. wb \in T /\ wire \in [Ends -> T] /\ wire' = IF Proxy(o) THEN [wire EXCEPT ![o] = wb] ELSE wire
  BY <1>1, <1>2 DEF WriteTo
<1> HIDE DEF T, wb
<1>4. wire' \in [Ends -> T] /\ (Proxy(o) => wire'[o] = wb) /\ \A x \in Ends : x # o => wire'[x] = wire[x]
  BY <1>3
<1> QED  BY <1>4 DEF T, wb

\* A handshake is written (connection.rs:50-53 and 87-90).
LEMMA WriteHandshakeStep ==
    ASSUME ExchangeInv, NEW e \in Ends, WriteHandshake(e)
    PROVE  ExchangeInv'
<1> DEFINE o == Other(e)  hello == HelloBytes(e)
           next == IF Proxy(e) /\ e = "initiator" THEN "reading" ELSE "active"
<1>1. o \in Ends /\ o # e /\ Other(o) = e /\ Other(e) = o /\ \A x \in Ends : x = e \/ x = o
  BY TwoEnds
<1>2. /\ EndInv(e) /\ EndInv(o) /\ ExchangeTypeOK /\ pc[e] = "writing"
      /\ end' = end /\ spec' = spec /\ sent' = sent /\ got' = got
      /\ WriteTo(o, hello) /\ pc' = [pc EXCEPT ![e] = next]
  BY <1>1 DEF ExchangeInv, WriteHandshake
<1>3. hello \in Seq(Unit) /\ MagicOf(e) \in Unit
  BY <1>2, EndLaws
<1> HIDE DEF hello
<1>4. /\ wire' \in [Ends -> Seq(Unit)] /\ (Proxy(o) => wire'[o] = wire[o] \o hello)
      /\ wire'[e] = wire[e]
  BY <1>1, <1>2, <1>3, Delivered
<1>5. pc'[e] = next /\ pc'[o] = pc[o] /\ next \in {"reading", "active"}
  BY <1>1, <1>2 DEF ExchangeTypeOK
<1>6. ExchangeTypeOK'
  BY <1>2, <1>4, <1>5 DEF ExchangeTypeOK
<1>7. Stream(e)' = Stream(e) /\ Stream(o)' = Stream(o)
  BY <1>2, EndsStay DEF Stream
<1>8. Unread(e)' = Unread(e)
  BY <1>2, EndsStay DEF Unread
<1>9. /\ Open(e) /\ Open(e)' /\ Unwritten(e) /\ ~Unwritten(e)'
      /\ (Open(o)' => Open(o)) /\ (Open(o) => Open(o)')
      /\ (Unwritten(o)' => Unwritten(o)) /\ (Unwritten(o) => Unwritten(o)')
  BY <1>2, <1>5, EndsStay DEF Open, Unwritten, Gone
<1>10. sent[e] = <<>> /\ spec[o] = None
  BY <1>1, <1>2, <1>9 DEF EndInv, Phases
<1>11. Stream(e) = hello
  <2>1. EncodeAll(MagicOf(e), <<>>) = <<>>
    BY <1>3, EncodeAllLaws
  <2>2. hello \o <<>> = hello
    BY <1>3, SMTT(30)
  <2> QED  BY <1>10, <2>1, <2>2 DEF Stream, hello
<1>12. EndInv(e)'
  <2>1. Phases(e)'
    BY <1>1, <1>2, <1>5, <1>9, <1>10, EndsStay DEF Phases, EndInv, Ends
  <2>2. BeforeHandshake(e)'
    BY <1>1, <1>2, <1>4, <1>7, <1>9, EndsStay DEF BeforeHandshake, EndInv
  <2>3. AfterHandshake(e)'
    BY <1>1, <1>2, <1>4, <1>8, <1>9, EndsStay DEF AfterHandshake, EndInv
  <2> QED  BY <1>2, <2>1, <2>2, <2>3, EndsStay DEF EndInv
<1>13. EndInv(o)'
  <2>1. Phases(o)'
    BY <1>1, <1>2, <1>5, <1>9, EndsStay DEF Phases, EndInv
  <2>2. BeforeHandshake(o)'
    <3> SUFFICES ASSUME Proxy(o)', Open(o)', spec'[o] = None
                 PROVE  wire'[o] = Stream(e)' /\ Begins(wire'[o], Stream(e)')
      BY <1>1, <1>9 DEF BeforeHandshake
    <3>1. wire[o] = <<>> /\ Proxy(o)
      BY <1>1, <1>2, <1>9, EndsStay DEF BeforeHandshake, EndInv
    <3>2. <<>> \o hello = hello
      BY <1>3, SMTT(30)
    <3>3. wire'[o] = hello
      BY <1>4, <3>1, <3>2
    <3> QED  BY <1>3, <1>7, <1>11, <3>3, BeginsLaws
  <2>3. AfterHandshake(o)'
    BY <1>2, <1>10 DEF AfterHandshake
  <2> QED  BY <1>1, <1>2, <2>1, <2>2, <2>3, EndsStay DEF EndInv
<1> QED  BY <1>1, <1>6, <1>12, <1>13 DEF ExchangeInv

\* A frame is written (frame.rs:135-143).
LEMMA WriteFrameStep ==
    ASSUME ExchangeInv, NEW e \in Ends, NEW f \in Frames, WriteFrame(e, f)
    PROVE  ExchangeInv'
<1> DEFINE o == Other(e)  m == MagicOf(e)  bytes == Encode(m, f)  fs == sent[e]
<1>1. o \in Ends /\ o # e /\ Other(o) = e /\ Other(e) = o /\ \A x \in Ends : x = e \/ x = o
  BY TwoEnds
<1>2. /\ EndInv(e) /\ EndInv(o) /\ ExchangeTypeOK /\ pc[e] = "active"
      /\ end' = end /\ pc' = pc /\ spec' = spec /\ got' = got
      /\ WriteTo(o, bytes) /\ sent' = [sent EXCEPT ![e] = Append(@, f)]
  BY <1>1 DEF ExchangeInv, WriteFrame
<1>3. m \in Unit /\ f \in Frame /\ fs \in Seq(Frame) /\ HelloBytes(e) \in Seq(Unit)
        /\ EncodeAll(m, fs) \in Seq(Unit)
  BY <1>2, EndLaws, ExchangeAssumption DEF Frame, ExchangeTypeOK
<1>4. bytes \in Seq(Unit)
  <2> HIDE DEF m
  <2> QED  BY <1>3, EncodeLaws
<1>5. /\ wire' \in [Ends -> Seq(Unit)] /\ (Proxy(o) => wire'[o] = wire[o] \o bytes)
      /\ wire'[e] = wire[e]
  <2> HIDE DEF bytes
  <2> QED  BY <1>1, <1>2, <1>4, Delivered
<1> HIDE DEF m
<1>6. Append(fs, f) \in Seq(Frame) /\ sent'[e] = Append(fs, f) /\ sent'[o] = sent[o]
        /\ sent' \in [Ends -> Seq(Frame)]
  BY <1>1, <1>2, <1>3, SMTT(30) DEF ExchangeTypeOK
<1>7. ExchangeTypeOK'
  BY <1>2, <1>5, <1>6 DEF ExchangeTypeOK
<1> HIDE DEF bytes
<1>8. /\ Open(e) /\ Open(e)' /\ ~Unwritten(e) /\ ~Unwritten(e)'
      /\ (Open(o)' => Open(o)) /\ (Open(o) => Open(o)')
      /\ (Unwritten(o)' => Unwritten(o)) /\ (Unwritten(o) => Unwritten(o)')
  BY <1>2 DEF Open, Unwritten, Gone
<1>9. MagicOf(e)' = m /\ MagicOf(o)' = MagicOf(o) /\ HelloBytes(e)' = HelloBytes(e)
        /\ HelloBytes(o)' = HelloBytes(o)
  BY <1>2, EndsStay DEF m
<1>10. Stream(o)' = Stream(o) /\ Unread(e)' = Unread(e)
  BY <1>1, <1>2, <1>6, <1>9 DEF Stream, Unread
<1>11. Stream(e)' = Stream(e) \o bytes
  <2> DEFINE hello == HelloBytes(e)  frames == EncodeAll(m, fs)
  <2>1. EncodeAll(m, Append(fs, f)) = frames \o bytes
    BY <1>3, EncodeAllLaws DEF bytes
  <2>2. Joined(hello, frames, bytes)
    <3> HIDE DEF hello, frames
    <3> QED  BY <1>3, <1>4, JoinUnits DEF hello, frames
  <2>3. Stream(e)' = hello \o EncodeAll(m, Append(fs, f))
    BY <1>6, <1>9 DEF Stream
  <2> QED  BY <2>1, <2>2, <2>3 DEF Stream, Joined, m
<1>12. EndInv(e)'
  <2>1. Phases(e)'
    BY <1>1, <1>2, <1>8, EndsStay DEF Phases, EndInv
  <2>2. BeforeHandshake(e)'
    BY <1>1, <1>2, <1>5, <1>8, <1>10, EndsStay DEF BeforeHandshake, EndInv
  <2>3. AfterHandshake(e)'
    BY <1>1, <1>2, <1>5, <1>6, <1>8, <1>10, EndsStay DEF AfterHandshake, EndInv
  <2> QED  BY <1>1, <1>2, <2>1, <2>2, <2>3, EndsStay DEF EndInv
<1>13. EndInv(o)'
  <2>1. Phases(o)'
    BY <1>1, <1>2, <1>6, <1>8, EndsStay DEF Phases, EndInv
  <2>2. BeforeHandshake(o)'
    <3> SUFFICES ASSUME Proxy(o)', Open(o)', spec'[o] = None
                 PROVE  wire'[o] = Stream(e)' /\ Begins(wire'[o], Stream(e)')
      BY <1>1, <1>8 DEF BeforeHandshake
    <3>1. wire[o] = Stream(e) /\ Proxy(o)
      BY <1>1, <1>2, <1>8, EndsStay DEF BeforeHandshake, EndInv
    <3>2. wire'[o] = Stream(e)' /\ wire'[o] \in Seq(Unit)
      BY <1>1, <1>5, <1>11, <3>1
    <3> QED  BY <3>2, BeginsLaws
  <2>3. AfterHandshake(o)'
    <3> SUFFICES ASSUME spec[o] # None
                 PROVE  AfterHandshake(o)'
      BY <1>2 DEF AfterHandshake
    <3> DEFINE gs == got[o]  k == Len(gs)
    <3>1. /\ spec[o] = Some(Hello(e)) /\ IsPrefix(gs, fs) /\ wire[o] = Unread(o) /\ Proxy(o)
          /\ gs \in Seq(Frame)
      BY <1>1, <1>2, <1>8 DEF EndInv, AfterHandshake, Phases, ExchangeTypeOK
    <3>2. k \in 0..Len(fs)
      BY <1>3, <3>1, SMTT(30) DEF IsPrefix
    <3>3. IsPrefix(gs, Append(fs, f))
      <4>1. Len(Append(fs, f)) = Len(fs) + 1 /\ \A i \in 1..Len(fs) : Append(fs, f)[i] = fs[i]
        BY <1>3, SMTT(30)
      <4> HIDE DEF gs, fs
      <4>2. \A i \in 1..Len(gs) : i \in 1..Len(fs)
        BY <3>1, <3>2, SMTT(30)
      <4>3. Len(gs) <= Len(fs) + 1
        BY <1>3, <3>1, SMTT(30) DEF IsPrefix
      <4> QED  BY <3>1, <4>1, <4>2, <4>3 DEF IsPrefix
    <3>4. Unread(o) = Pending(m, fs, k) /\ Unread(o)' = Pending(m, Append(fs, f), k)
      BY <1>1, <1>2, <1>6, <1>9 DEF Unread, Pending, m
    <3> HIDE DEF fs, gs, k
    <3>5. Pending(m, Append(fs, f), k) = Pending(m, fs, k) \o bytes
      BY <1>3, <3>2, PendingLaws DEF bytes
    <3>6. wire'[o] = Unread(o)' /\ wire'[o] \in Seq(Unit)
      BY <1>1, <1>5, <3>1, <3>4, <3>5
    <3>7. Begins(wire'[o], Unread(o)')
      BY <3>6, BeginsLaws
    <3> QED  BY <1>1, <1>2, <1>6, <3>1, <3>3, <3>6, <3>7, EndsStay DEF AfterHandshake, gs
  <2> QED  BY <1>1, <1>2, <2>1, <2>2, <2>3, EndsStay DEF EndInv
<1> QED  BY <1>1, <1>7, <1>12, <1>13 DEF ExchangeInv

\* A frame is read (frame.rs:92-129, and the reader loop of run_peer).
LEMMA FrameStep ==
    ASSUME ExchangeInv, NEW e \in Ends, pc[e] = "active", Proxy(e),
           ReadFrame(MagicOf(e), wire[e]).outcome = "frame",
           got' = [got EXCEPT ![e] = Append(@, ReadFrame(MagicOf(e), wire[e]).frame)],
           wire' = [wire EXCEPT ![e] = ReadFrame(MagicOf(e), wire[e]).rest],
           UNCHANGED <<end, pc, spec, sent>>
    PROVE  ExchangeInv'
<1> DEFINE o == Other(e)  magic == MagicOf(e)  m == MagicOf(o)  w == wire[e]
           gs == got[e]  fs == sent[o]  read == ReadFrame(magic, w)
           hs == Append(gs, read.frame)
<1>1. o \in Ends /\ o # e /\ Other(o) = e /\ Other(e) = o /\ \A x \in Ends : x = e \/ x = o
  BY TwoEnds
<1>2. /\ EndInv(e) /\ EndInv(o) /\ ExchangeTypeOK
      /\ end' = end /\ pc' = pc /\ spec' = spec /\ sent' = sent
  BY <1>1 DEF ExchangeInv
<1>3. /\ magic \in Unit /\ m \in Unit /\ w \in Seq(Unit) /\ gs \in Seq(Frame)
      /\ fs \in Seq(Frame)
  BY <1>1, <1>2, EndLaws DEF ExchangeTypeOK
<1>4. spec[e] # None
  BY <1>2 DEF EndInv, Phases, Open, Gone
<1>5. /\ spec[e] = Some(Hello(o)) /\ IsPrefix(gs, fs) /\ Begins(w, Unread(e))
      /\ Open(o) => w = Unread(e)
  BY <1>1, <1>2, <1>4 DEF EndInv, AfterHandshake
<1>6. Unread(e) = Pending(m, fs, Len(gs))
  BY DEF Unread, Pending
<1>7. read.outcome = "frame" /\ got' = [got EXCEPT ![e] = hs] /\ wire' = [wire EXCEPT ![e] = read.rest]
  OBVIOUS
<1> HIDE DEF magic, m, w, gs, fs
<1>8. Received(magic, m, gs, fs, w)
  BY <1>3, <1>5, <1>6, <1>7, FrameReceived
<1>9. /\ m = magic /\ hs \in Seq(Frame) /\ IsPrefix(hs, fs) /\ read.rest \in Seq(Unit)
      /\ Begins(read.rest, Pending(m, fs, Len(hs)))
      /\ w = Pending(m, fs, Len(gs)) => read.rest = Pending(m, fs, Len(hs))
  BY <1>8 DEF Received
<1> HIDE DEF hs, read
<1>10. /\ got' \in [Ends -> Seq(Frame)] /\ got'[e] = hs /\ got'[o] = got[o]
       /\ wire' \in [Ends -> Seq(Unit)] /\ wire'[e] = read.rest /\ wire'[o] = wire[o]
  BY <1>1, <1>2, <1>7, <1>9, SMTT(30) DEF ExchangeTypeOK
<1>11. ExchangeTypeOK'
  BY <1>2, <1>10 DEF ExchangeTypeOK
<1>12. Unread(e)' = Pending(m, fs, Len(hs))
  BY <1>2, <1>10, EndsStay DEF Unread, Pending, m, fs
<1>13. Stream(e)' = Stream(e) /\ Stream(o)' = Stream(o) /\ Unread(o)' = Unread(o)
  BY <1>1, <1>2, <1>10, EndsStay DEF Stream, Unread
<1>14. \A x : /\ (Open(x)' => Open(x)) /\ (Open(x) => Open(x)')
              /\ (Unwritten(x)' => Unwritten(x)) /\ (Unwritten(x) => Unwritten(x)')
  BY <1>2 DEF Open, Unwritten
<1>15. EndInv(e)'
  <2>1. Phases(e)'
    BY <1>1, <1>2, <1>4, <1>14, EndsStay DEF Phases, EndInv
  <2>2. BeforeHandshake(e)'
    BY <1>2, <1>4 DEF BeforeHandshake
  <2>3. AfterHandshake(e)'
    BY <1>1, <1>2, <1>5, <1>6, <1>9, <1>10, <1>12, <1>14, EndsStay DEF AfterHandshake, fs
  <2>4. MagicOf(e)' = MagicOf(o)'
    BY <1>2, <1>9, EndsStay DEF m, magic
  <2> QED  BY <1>1, <2>1, <2>2, <2>3, <2>4 DEF EndInv
<1>16. EndInv(o)'
  <2>1. Phases(o)'
    BY <1>1, <1>2, <1>10, <1>14, EndsStay DEF Phases, EndInv
  <2>2. BeforeHandshake(o)'
    BY <1>1, <1>2, <1>10, <1>13, <1>14, EndsStay DEF BeforeHandshake, EndInv
  <2>3. AfterHandshake(o)'
    BY <1>1, <1>2, <1>10, <1>13, <1>14, EndsStay DEF AfterHandshake, EndInv
  <2> QED  BY <1>1, <1>2, <1>10, <2>1, <2>2, <2>3, EndsStay DEF EndInv
<1> QED  BY <1>1, <1>11, <1>15, <1>16 DEF ExchangeInv

\* A handshake is accepted or rejected: in both cases all of it is consumed
\* (connection.rs:55-62 and 78-85).
LEMMA JudgedStep ==
    ASSUME ExchangeInv, NEW e \in Ends, pc[e] = "reading", Proxy(e), spec[e] = None,
           NEW n \in 1..Len(wire[e]), MeasureSize(SubSeq(wire[e], 1, n)).ok,
           NEW valid \in BOOLEAN, NEW next,
           next = IF valid THEN AfterReading(e, Hello(Other(e))) ELSE "rejected",
           pc' = [pc EXCEPT ![e] = next],
           spec' = [spec EXCEPT ![e] = IF valid THEN Some(Hello(Other(e))) ELSE @],
           wire' = [wire EXCEPT ![e] =
                       SubSeq(@, MeasureSize(SubSeq(wire[e], 1, n)).value + 1, Len(@))],
           UNCHANGED <<end, sent, got>>,
           Consumed(wire[e], n, end[Other(e)].now, Hello(Other(e)),
                    EncodeAll(MagicOf(Other(e)), sent[Other(e)]))
    PROVE  ExchangeInv'
<1> DEFINE o == Other(e)  w == wire[e]  peer == Hello(o)  bytes == EncodeAll(MagicOf(o), sent[o])
           rest == SubSeq(w, MeasureSize(SubSeq(w, 1, n)).value + 1, Len(w))
<1>1. o \in Ends /\ o # e /\ Other(o) = e /\ Other(e) = o /\ \A x \in Ends : x = e \/ x = o
  BY TwoEnds
<1>2. /\ EndInv(e) /\ EndInv(o) /\ ExchangeTypeOK
      /\ end' = end /\ sent' = sent /\ got' = got
  BY <1>1 DEF ExchangeInv
<1>3. /\ Begins(w, Stream(o)) /\ w # <<>>
      /\ Open(o) => w = IF Unwritten(o) THEN <<>> ELSE Stream(o)
  <2>1. w # <<>>
    BY SMTT(30)
  <2> QED  BY <1>1, <1>2, <2>1 DEF EndInv, BeforeHandshake, Open, Gone
<1>4. ~Unwritten(o)
  <2>1. Unwritten(o) => Open(o)
    BY DEF Unwritten, Open, Gone
  <2> QED  BY <1>3, <2>1
<1>5. wire' = [wire EXCEPT ![e] = rest]
  OBVIOUS
<1>6. /\ rest \in Seq(Unit) /\ Begins(rest, bytes)
      /\ w = Serialize(end[o].now, peer) \o bytes => rest = bytes
  BY DEF Consumed
<1> HIDE DEF rest, w
<1>7. Open(o) => rest = bytes
  BY <1>1, <1>2, <1>3, <1>4, <1>6, EndLaws DEF Stream
<1>8. /\ spec'[e] = (IF valid THEN Some(peer) ELSE None) /\ spec'[o] = spec[o]
      /\ spec' = [x \in Ends |-> spec'[x]]
  BY <1>1, <1>2 DEF ExchangeTypeOK
<1>9. /\ next \in {"rejected", "skipped", "writing", "active"}
      /\ next = "writing" => valid /\ e = "responder"
      /\ next = "active" => valid /\ e = "initiator"
      /\ next = "skipped" => valid
      /\ next = "rejected" => ~valid
  <2>1. AfterReading(e, peer) \in {"skipped", "writing", "active"}
          /\ (AfterReading(e, peer) = "writing" => e = "responder")
          /\ (AfterReading(e, peer) = "active" => e # "responder")
    BY DEF AfterReading
  <2>2. e = "initiator" \/ e = "responder"
    BY DEF Ends
  <2> HIDE DEF peer
  <2> QED  BY <2>1, <2>2 DEF peer
<1> HIDE DEF peer
<1>10. /\ pc' \in [Ends -> {"writing", "reading", "active"} \cup Gone]
       /\ pc'[e] = next /\ pc'[o] = pc[o]
  BY <1>1, <1>2, <1>9 DEF ExchangeTypeOK, Gone
<1>11. wire' \in [Ends -> Seq(Unit)] /\ wire'[e] = rest /\ wire'[o] = wire[o]
  <2>1. e \in Ends /\ wire \in [Ends -> Seq(Unit)]
    BY <1>2 DEF ExchangeTypeOK
  <2> QED  BY ONLY <1>1, <1>5, <1>6, <2>1, OneReplaced, ZenonT(30)
<1>12. ExchangeTypeOK'
  BY <1>2, <1>8, <1>10, <1>11 DEF ExchangeTypeOK
<1>13. sent[e] = <<>> /\ got[e] = <<>>
  BY <1>2 DEF EndInv, Phases
<1>14. Unread(e)' = bytes
  <2> DEFINE m == MagicOf(o)  fs == sent[o]
  <2>1. m \in Unit /\ fs \in Seq(Frame)
    BY <1>1, <1>2, EndLaws DEF ExchangeTypeOK
  <2>2. Unread(e)' = Pending(m, fs, 0)
    <3>1. got'[e] = <<>> /\ Len(<<>>) = 0
      BY <1>2, <1>13
    <3> QED  BY <1>2, <3>1, EndsStay DEF Unread, Pending
  <2> HIDE DEF m, fs
  <2>3. Pending(m, fs, 0) = EncodeAll(m, fs)
    <3>1. 0 \in 0..Len(fs)
      BY <2>1, SMTT(30)
    <3> QED  BY <2>1, <3>1, PendingLaws
  <2> QED  BY <2>2, <2>3 DEF m, fs
<1>15. /\ Unread(o)' = Unread(o) /\ Stream(e)' = Stream(e) /\ Stream(o)' = Stream(o)
  BY <1>1, <1>2, EndsStay DEF Unread, Stream
<1>16. /\ (Open(o)' => Open(o)) /\ (Open(o) => Open(o)') /\ ~Unwritten(o)'
       /\ Open(e) /\ (Open(e)' => next \in {"writing", "active"})
       /\ (Unwritten(e)' => Unwritten(e))
       /\ (Open(e)' /\ Unwritten(e) => Unwritten(e)')
  BY <1>4, <1>9, <1>10 DEF Open, Unwritten, Gone, Ends
<1>17. EndInv(e)'
  <2>1. Phases(e)'
    <3>1. Unwritten(e)' => spec'[o] = None
      BY <1>1, <1>2, <1>8, <1>16 DEF Phases, EndInv
    <3>2. Some(peer) # None
      BY DEF Some, None
    <3>3. Open(e)' => spec'[e] # None /\ (pc'[e] = "active" \/ (pc'[e] = "writing" /\ e # "initiator"))
      BY <1>8, <1>9, <1>10, <1>16, <3>2
    <3>4. pc'[e] # "reading" /\ sent'[e] = <<>> /\ got'[e] = <<>> /\ Proxy(e)'
      BY <1>2, <1>9, <1>10, <1>13, EndsStay
    <3> QED  BY <1>1, <3>1, <3>3, <3>4 DEF Phases
  <2>2. BeforeHandshake(e)'
    <3>1. Open(e)' => spec'[e] # None
      <4>1. Some(peer) # None
        BY DEF Some, None
      <4> QED  BY <1>8, <1>9, <1>16, <4>1
    <3> QED  BY <3>1 DEF BeforeHandshake
  <2>3. AfterHandshake(e)'
    <3>1. spec'[e] # None => spec'[e] = Some(Hello(o)')
      BY <1>2, <1>8, EndsStay DEF peer
    <3>2. IsPrefix(got[e], sent[o])
      <4>1. Len(sent[o]) \in Nat /\ Len(got[e]) = 0
        BY <1>1, <1>2, <1>13, SMTT(30) DEF ExchangeTypeOK
      <4> QED  BY <4>1, SMTT(30) DEF IsPrefix
    <3> QED  BY <1>1, <1>2, <1>6, <1>7, <1>11, <1>14, <1>16, <3>1, <3>2 DEF AfterHandshake
  <2> QED  BY <1>2, <1>13, <2>1, <2>2, <2>3 DEF EndInv
<1>18. EndInv(o)'
  <2>1. Phases(o)'
    BY <1>1, <1>2, <1>4, <1>8, <1>10, <1>16, EndsStay DEF Phases, EndInv
  <2>2. BeforeHandshake(o)'
    BY <1>1, <1>2, <1>8, <1>11, <1>15, <1>16, EndsStay DEF BeforeHandshake, EndInv
  <2>3. AfterHandshake(o)'
    BY <1>1, <1>2, <1>8, <1>11, <1>15, <1>16, EndsStay DEF AfterHandshake, EndInv
  <2> QED  BY <1>1, <1>2, <2>1, <2>2, <2>3, EndsStay DEF EndInv
<1> QED  BY <1>1, <1>12, <1>17, <1>18 DEF ExchangeInv

\* read_handshake and validate_peer, for whatever has arrived (connection.rs:118-138).
LEMMA ReadHandshakeStep ==
    ASSUME ExchangeInv, NEW e \in Ends, ReadHandshake(e)
    PROVE  ExchangeInv'
<1> DEFINE o == Other(e)  w == wire[e]  bytes == EncodeAll(MagicOf(o), sent[o])
<1>1. o \in Ends /\ EndInv(e) /\ ExchangeTypeOK /\ w \in Seq(Unit) /\ pc[e] = "reading"
  BY TwoEnds DEF ExchangeInv, ExchangeTypeOK, ReadHandshake
<1>2. Proxy(e) /\ spec[e] = None
  BY <1>1 DEF EndInv, Phases, Open, Gone
<1>3. PICK n \in 1..Len(w) :
         \E parsed \in {Parse(SubSeq(w, 1, n))}, size \in {MeasureSize(SubSeq(w, 1, n))} :
            LET valid == ValidatePeer(parsed.value, MagicOf(e))
            IN  /\ pc' = [pc EXCEPT ![e] = IF ~parsed.ok \/ ~size.ok THEN "malformed"
                                           ELSE IF ~valid THEN "rejected"
                                           ELSE AfterReading(e, parsed.value)]
                /\ spec' = [spec EXCEPT ![e] = IF parsed.ok /\ size.ok /\ valid
                                               THEN Some(parsed.value) ELSE @]
                /\ wire' = [wire EXCEPT ![e] = IF parsed.ok /\ size.ok
                                               THEN SubSeq(@, size.value + 1, Len(@)) ELSE @]
  BY DEF ReadHandshake
<1> DEFINE segment == SubSeq(w, 1, n)  parsed == Parse(segment)  size == MeasureSize(segment)
           valid == ValidatePeer(parsed.value, MagicOf(e))
<1>4. /\ pc' = [pc EXCEPT ![e] = IF ~parsed.ok \/ ~size.ok THEN "malformed"
                                 ELSE IF ~valid THEN "rejected"
                                 ELSE AfterReading(e, parsed.value)]
      /\ spec' = [spec EXCEPT ![e] = IF parsed.ok /\ size.ok /\ valid
                                     THEN Some(parsed.value) ELSE @]
      /\ wire' = [wire EXCEPT ![e] = IF parsed.ok /\ size.ok
                                     THEN SubSeq(@, size.value + 1, Len(@)) ELSE @]
  BY <1>3
<1>5. end' = end /\ sent' = sent /\ got' = got
  BY DEF ReadHandshake
<1>6. CASE ~(parsed.ok /\ size.ok)
  <2> HIDE DEF parsed, size, valid
  <2>1. /\ pc' = [pc EXCEPT ![e] = "malformed"]
        /\ spec' = [spec EXCEPT ![e] = spec[e]] /\ wire' = [wire EXCEPT ![e] = wire[e]]
    BY <1>4, <1>6
  <2>2. spec' = spec /\ wire' = wire
    <3>1. spec = [x \in Ends |-> spec[x]] /\ wire \in [Ends -> Seq(Unit)]
      BY <1>1 DEF ExchangeTypeOK
    <3> QED  BY <2>1, <3>1
  <2> QED  BY <1>2, <1>5, <2>1, <2>2, CloseStep DEF Gone
<1>7. CASE parsed.ok /\ size.ok
  <2> DEFINE now == end[o].now  peer == Hello(o)
  <2>1. /\ now \in Word /\ Expressible(peer) /\ bytes \in Seq(Unit)
        /\ Stream(o) = Serialize(now, peer) \o bytes
    BY <1>1, EndLaws DEF Stream
  <2>2. Begins(w, Stream(o))
    BY <1>1, <1>2 DEF EndInv, BeforeHandshake, Open, Gone
  <2>3. Consumed(w, n, now, peer, bytes)
    <3> HIDE DEF now, peer, bytes, w
    <3>1. Begins(w, Serialize(now, peer) \o bytes) /\ MeasureSize(SubSeq(w, 1, n)).ok
      BY <1>7, <2>1, <2>2
    <3> QED  BY <1>1, <2>1, <3>1, HandshakeConsumed
  <2>4. parsed = Cursor(peer, <<>>)
    BY <2>3 DEF Consumed
  <2> HIDE DEF parsed
  <2>5. parsed.value = peer
    BY <2>4, CursorLaws
  <2> DEFINE good == ValidatePeer(peer, MagicOf(e))
             next == IF good THEN AfterReading(e, peer) ELSE "rejected"
  <2>6. valid <=> good
    BY <2>5
  <2> HIDE DEF size, peer, valid, good
  <2>7. /\ pc' = [pc EXCEPT ![e] = next]
        /\ spec' = [spec EXCEPT ![e] = IF good THEN Some(peer) ELSE @]
        /\ wire' = [wire EXCEPT ![e] = SubSeq(@, size.value + 1, Len(@))]
    <3>1. CASE good
      BY <1>4, <1>7, <2>5, <2>6, <3>1
    <3>2. CASE ~good
      BY <1>4, <1>7, <2>5, <2>6, <3>2
    <3> QED  BY <3>1, <3>2
  <2>8. good \in BOOLEAN
    BY DEF good, ValidatePeer
  <2> DEFINE nx == next
  <2>9. nx = IF good THEN AfterReading(e, peer) ELSE "rejected"
    OBVIOUS
  <2> HIDE DEF nx
  <2>10. /\ MeasureSize(SubSeq(wire[e], 1, n)).ok
         /\ pc' = [pc EXCEPT ![e] = nx]
         /\ wire' = [wire EXCEPT ![e] =
                        SubSeq(@, MeasureSize(SubSeq(wire[e], 1, n)).value + 1, Len(@))]
    BY <1>7, <2>7 DEF nx, size
  <2> QED  BY <1>1, <1>2, <1>5, <2>3, <2>7, <2>8, <2>9, <2>10, JudgedStep DEF peer
<1> QED  BY <1>6, <1>7

\* All connections begin with nothing written.
LEMMA ExchangeInitial ==
    ExchangeInit => ExchangeInv
<1> SUFFICES ASSUME ExchangeInit PROVE ExchangeInv
  OBVIOUS
<1>1. ExchangeTypeOK
  <2>1. end.initiator \in Initiators /\ end.responder \in Responders /\ DOMAIN end = Ends
    BY DEF ExchangeInit, Ends
  <2>2. \A e \in Ends : end[e] \in Initiators \cup Responders
    BY <2>1 DEF Ends
  <2>3. \A e \in Ends : WellFormed(end[e])
    BY <2>2, ExchangeAssumption
  <2>4. <<>> \in Seq(Unit) /\ <<>> \in Seq(Frame)
    BY SMTT(30)
  <2> QED  BY <2>1, <2>3, <2>4 DEF ExchangeTypeOK, ExchangeInit
<1>2. ASSUME NEW e \in Ends PROVE EndInv(e)
  <2>1. /\ Other(e) \in Ends
        /\ pc[e] = IF e = "responder" /\ Proxy(e) THEN "reading" ELSE "writing"
        /\ pc[Other(e)] = IF Other(e) = "responder" /\ Proxy(Other(e)) THEN "reading" ELSE "writing"
        /\ wire[e] = <<>> /\ spec[e] = None /\ spec[Other(e)] = None /\ sent[e] = <<>>
        /\ got[e] = <<>>
    BY TwoEnds DEF ExchangeInit
  <2>2. Unwritten(Other(e))
    BY <2>1 DEF Unwritten
  <2>3. Phases(e)
    <3>1. CASE e = "responder" /\ Proxy(e)
      BY <2>1, <3>1 DEF Phases, Open
    <3>2. CASE ~(e = "responder" /\ Proxy(e))
      BY <2>1, <3>2 DEF Phases, Open, Ends
    <3> QED  BY <3>1, <3>2
  <2>4. Begins(<<>>, Stream(Other(e)))
    BY <1>1, <2>1, EndLaws, BeginsLaws
  <2>5. BeforeHandshake(e)
    BY <2>1, <2>2, <2>4 DEF BeforeHandshake
  <2>6. AfterHandshake(e)
    BY <2>1 DEF AfterHandshake
  <2> QED  BY <2>1, <2>3, <2>5, <2>6 DEF EndInv
<1> QED  BY <1>1, <1>2 DEF ExchangeInv

\* Every step of the connection keeps the invariant.
LEMMA ExchangeStep ==
    ExchangeInv /\ [ExchangeNext]_exchangeVars => ExchangeInv'
<1> SUFFICES ASSUME ExchangeInv, [ExchangeNext]_exchangeVars PROVE ExchangeInv'
  OBVIOUS
<1>1. CASE UNCHANGED exchangeVars
  <2>1. /\ end' = end /\ pc' = pc /\ wire' = wire /\ spec' = spec /\ sent' = sent
        /\ got' = got
    BY <1>1 DEF exchangeVars
  <2>2. \A x : /\ Proxy(x)' = Proxy(x) /\ Hello(x)' = Hello(x) /\ MagicOf(x)' = MagicOf(x)
               /\ Stream(x)' = Stream(x) /\ Unread(x)' = Unread(x)
               /\ Open(x)' = Open(x) /\ Unwritten(x)' = Unwritten(x)
    BY <2>1 DEF Proxy, Hello, MagicOf, Stream, HelloBytes, Unread, Open, Unwritten
  <2>3. ExchangeTypeOK'
    BY <2>1 DEF ExchangeInv, ExchangeTypeOK
  <2>4. ASSUME NEW x \in Ends PROVE EndInv(x)'
    BY <2>1, <2>2 DEF ExchangeInv, EndInv, Phases, BeforeHandshake, AfterHandshake
  <2> QED  BY <2>3, <2>4 DEF ExchangeInv
<1>2. ASSUME NEW e \in Ends, WriteHandshake(e) PROVE ExchangeInv'
  BY <1>2, WriteHandshakeStep
<1>3. ASSUME NEW e \in Ends, ReadHandshake(e) PROVE ExchangeInv'
  BY <1>3, ReadHandshakeStep
<1>4. ASSUME NEW e \in Ends, pc[e] = "reading" PROVE Proxy(e)
  BY <1>4 DEF ExchangeInv, EndInv, Phases
<1>5. ASSUME NEW e \in Ends, ReadEmpty(e) PROVE ExchangeInv'
  BY <1>5, CloseStep DEF ReadEmpty, Gone
<1>6. ASSUME NEW e \in Ends, Timeout(e) PROVE ExchangeInv'
  BY <1>4, <1>6, CloseStep DEF Timeout, Gone
<1>7. ASSUME NEW e \in Ends, NEW f \in Frames, WriteFrame(e, f) PROVE ExchangeInv'
  BY <1>7, WriteFrameStep
<1>8. ASSUME NEW e \in Ends, ReceiveFrame(e) PROVE ExchangeInv'
  <2>1. CASE ReadFrame(MagicOf(e), wire[e]).outcome = "frame" /\ pc' = pc
    BY <1>8, <2>1, FrameStep DEF ReceiveFrame
  <2>2. CASE ~(ReadFrame(MagicOf(e), wire[e]).outcome = "frame" /\ pc' = pc)
    BY <1>8, <2>2, CloseStep DEF ReceiveFrame, Gone
  <2> QED  BY <2>1, <2>2
<1>9. ASSUME NEW e \in Ends, HangUp(e) PROVE ExchangeInv'
  BY <1>9, CloseStep DEF HangUp, Gone
<1>10. ASSUME NEW e \in Ends, LoseTail(e) PROVE ExchangeInv'
  BY <1>10, LoseTailStep
<1> QED  BY <1>1, <1>2, <1>3, <1>5, <1>6, <1>7, <1>8, <1>9, <1>10 DEF ExchangeNext

----------------------------------------------------------------------------
(* The theorems *)

\* What the invariant says of the properties that are checked.
LEMMA ExchangeInvImplies ==
    ExchangeInv => AcceptedIsComplete /\ StreamIntact /\ NetworksNeverMix
<1> SUFFICES ASSUME ExchangeInv
             PROVE  AcceptedIsComplete /\ StreamIntact /\ NetworksNeverMix
  OBVIOUS
<1>1. ASSUME NEW e \in Ends, spec[e] # None
      PROVE  /\ spec[e] = Some(Hello(Other(e)))
             /\ IsPrefix(got[e], sent[Other(e)])
             /\ IsPrefix(wire[e], Unread(e))
             /\ Open(Other(e)) => wire[e] = Unread(e)
  <2> DEFINE o == Other(e)  gs == got[e]  fs == sent[o]  m == MagicOf(o)  k == Len(gs)
             w == wire[e]
  <2>1. /\ o \in Ends /\ ExchangeTypeOK /\ AfterHandshake(e)
        /\ gs \in Seq(Frame) /\ fs \in Seq(Frame) /\ w \in Seq(Unit)
    BY TwoEnds DEF ExchangeInv, EndInv, ExchangeTypeOK
  <2>2. /\ spec[e] = Some(Hello(o)) /\ IsPrefix(gs, fs) /\ Begins(w, Unread(e))
        /\ Open(o) => w = Unread(e)
    BY <1>1, <2>1 DEF AfterHandshake
  <2>3. m \in Unit
    BY <2>1, EndLaws
  <2>4. k \in 0..Len(fs)
    BY <2>1, <2>2, SMTT(30) DEF IsPrefix
  <2>5. Unread(e) = Pending(m, fs, k)
    BY DEF Unread, Pending
  <2> HIDE DEF gs, fs, m, w
  <2>6. Pending(m, fs, k) \in Seq(Unit)
    <3> HIDE DEF k
    <3> QED  BY <2>1, <2>3, <2>4, PendingLaws
  <2>7. IsPrefix(w, Unread(e))
    BY <2>1, <2>2, <2>5, <2>6, PrefixLaw DEF Begins
  <2> QED  BY <2>2, <2>7 DEF gs, fs, w
<1>2. \A e \in Ends : got[e] # <<>> => MagicOf(e) = MagicOf(Other(e))
  BY DEF ExchangeInv, EndInv
<1> QED  BY <1>1, <1>2 DEF AcceptedIsComplete, StreamIntact, NetworksNeverMix

\* The inductive invariant of a connection (connection.rs and the reader loop of
\* run_peer): for all ends, frames and segmentations, what waits to be read is a part of
\* what the other end wrote that begins where the reader stopped.
THEOREM ExchangeInvariant == ExchangeSpec => []ExchangeInv
<1>1. ExchangeInit => ExchangeInv
  BY ExchangeInitial
<1>2. ExchangeInv /\ [ExchangeNext]_exchangeVars => ExchangeInv'
  BY ExchangeStep
<1> QED  BY <1>1, <1>2, PTL DEF ExchangeSpec

\* "Postcondition: all fields populated" (handshake.rs:9): read_handshake parses what a
\* single fill_buf returns, yet a PeerSpec it accepts is all of what the other end wrote.
THEOREM AcceptedHandshakesComplete == ExchangeSpec => []AcceptedIsComplete
BY ExchangeInvariant, ExchangeInvImplies, PTL

\* "no bytes are lost between handshake and first frame" (connection.rs:15): a proxy
\* reads the frames that the other end wrote, in order, and has the rest in its buffer.
THEOREM StreamsIntact == ExchangeSpec => []StreamIntact
BY ExchangeInvariant, ExchangeInvImplies, PTL

\* validate_peer lets a peer of another network in if it sends no Session feature
\* (handshake.rs:269); no frame of that network is ever accepted from it.
THEOREM NetworksStayApart == ExchangeSpec => []NetworksNeverMix
BY ExchangeInvariant, ExchangeInvImplies, PTL

=============================================================================
