------------------------ MODULE LoaderUpgrade_proofs ------------------------
(***************************************************************************)
(* What upgrade-loader may leave on the storage, and what the board starts *)
(* from it: proofs for all loader files, payloads and layouts, any number  *)
(* of attempts, and any failures.                                          *)
(***************************************************************************)
EXTENDS LoaderUpgrade, LbaTransfer_proofs

IsSeq(s) == s \in Seq(Elements(s))

LEMMA SeqFacts ==
  ASSUME NEW s, IsSeq(s)
  PROVE  Len(s) \in Nat /\ DOMAIN s = 1..Len(s) /\ s = [k \in 1..Len(s) |-> s[k]]
BY DEF IsSeq

LEMMA IsSeqIntro ==
  ASSUME NEW n \in Nat, NEW s, s = [k \in 1..n |-> s[k]]
  PROVE  IsSeq(s) /\ Len(s) = n
<1>1. DOMAIN s = 1..n
  OBVIOUS
<1>2. \A k \in 1..n : s[k] \in Elements(s)
  BY <1>1 DEF Elements
<1>3. s \in [1..n -> Elements(s)]
  BY <1>2
<1>. QED
  BY <1>3 DEF IsSeq

\* c is a, then b.
IsJoin(c, a, b) ==
  /\ IsSeq(c) /\ Len(c) = Len(a) + Len(b)
  /\ \A k \in 1..Len(a) : c[k] = a[k]
  /\ \A k \in 1..Len(b) : c[Len(a) + k] = b[k]

LEMMA Joined ==
  ASSUME NEW a, NEW b, IsSeq(a), IsSeq(b)
  PROVE  IsJoin(a \o b, a, b)
<1> DEFINE S == Elements(a) \cup Elements(b)
<1>1. a \in Seq(S) /\ b \in Seq(S)
  <2>1. a = [k \in 1..Len(a) |-> a[k]] /\ Len(a) \in Nat /\ DOMAIN a = 1..Len(a)
    BY SeqFacts
  <2>2. b = [k \in 1..Len(b) |-> b[k]] /\ Len(b) \in Nat /\ DOMAIN b = 1..Len(b)
    BY SeqFacts
  <2>3. \A k \in 1..Len(a) : a[k] \in S
    BY <2>1 DEF Elements
  <2>4. \A k \in 1..Len(b) : b[k] \in S
    BY <2>2 DEF Elements
  <2> HIDE DEF S
  <2>. QED
    BY <2>1, <2>2, <2>3, <2>4
<1> HIDE DEF S
<1>2. Len(a) \in Nat /\ Len(b) \in Nat
  BY <1>1
<1>3. a \o b \in Seq(S) /\ Len(a \o b) = Len(a) + Len(b)
  BY <1>1
<1>4. \A k \in 1..Len(a) + Len(b) :
        (a \o b)[k] = IF k <= Len(a) THEN a[k] ELSE b[k - Len(a)]
  BY <1>1
<1>5. IsSeq(a \o b)
  BY <1>3, SeqOfElements DEF IsSeq
<1>6. \A k \in 1..Len(a) : (a \o b)[k] = a[k]
  BY <1>2, <1>4
<1>7. \A k \in 1..Len(b) : (a \o b)[Len(a) + k] = b[k]
  BY <1>2, <1>4
<1>. QED
  BY <1>3, <1>5, <1>6, <1>7 DEF IsJoin

-----------------------------------------------------------------------------
(* The two layouts.                                                        *)

\* What sector k of an area holds, under the cipher or not.
Held(payload, k) == IF k <= Len(payload) THEN payload[k] ELSE [kind |-> "zero"]
Sealed(content, rc4) == [content |-> content, coded |-> rc4]
\* a holds the payload, padded, under the cipher or not.
IsArea(a, payload, rc4) ==
  /\ IsSeq(a) /\ Len(a) = Padded(Len(payload))
  /\ \A k \in 1..Len(a) : a[k] = Sealed(Held(payload, k), rc4)

LEMMA RoundUp ==
  ASSUME NEW n \in Nat, NEW s \in Nat \ {0}
  PROVE  LET q == (n + s - 1) \div s IN q * s \in Nat /\ n <= q * s
<1> DEFINE m == n + s - 1
<1>1. m \in Nat
  OBVIOUS
<1> HIDE DEF m
<1>2. /\ m \div s \in Nat /\ m % s \in 0..s - 1
      /\ m = (m \div s) * s + (m % s)
  BY <1>1, DivMod
<1> DEFINE q == m \div s
           r == m % s
           p == q * s
<1>3. p \in Nat
  BY <1>2
<1>4. m = p + r /\ r \in 0..s - 1
  BY <1>2
<1> HIDE DEF p, r
<1>5. n <= p
  BY <1>3, <1>4 DEF m
<1>. QED
  BY <1>3, <1>5 DEF p, m

LEMMA PaddedSize ==
  ASSUME NEW n \in Nat
  PROVE  Padded(n) \in Nat /\ n <= Padded(n)
BY LayoutAssumption, RoundUp DEF Padded

LEMMA AreaIsSeq ==
  ASSUME NEW p, IsSeq(p)
  PROVE  IsSeq(Area(p)) /\ Len(Area(p)) = Padded(Len(p))
<1> DEFINE n == Padded(Len(p))
<1>1. n \in Nat
  BY SeqFacts, PaddedSize
<1> HIDE DEF n
<1>2. Area(p) = [k \in 1..n |-> Area(p)[k]]
  BY DEF Area, n
<1>. QED
  BY <1>1, <1>2, IsSeqIntro DEF n

LEMMA OneTuple ==
  ASSUME NEW x, NEW s, s = <<x>>
  PROVE  IsSeq(s) /\ Len(s) = 1 /\ s[1] = x
<1>1. s \in Seq({x})
  OBVIOUS
<1>. QED
  BY <1>1, SeqOfElements DEF IsSeq

LEMMA TwoTuple ==
  ASSUME NEW x, NEW y, NEW s, s = <<x, y>>
  PROVE  IsSeq(s) /\ Len(s) = 2 /\ s[1] = x /\ s[2] = y
<1>1. s \in Seq({x, y})
  OBVIOUS
<1>. QED
  BY <1>1, SeqOfElements DEF IsSeq

\* a is s, under the cipher or not.
IsCoded(a, s, rc4) ==
  /\ IsSeq(a) /\ Len(a) = Len(s)
  /\ \A k \in 1..Len(s) : \A c : s[k] = Plain(c) => a[k] = Sealed(c, rc4)

LEMMA CodedSeq ==
  ASSUME NEW s, IsSeq(s), NEW rc4 \in BOOLEAN
  PROVE  IsCoded(Coded(s, rc4), s, rc4)
<1> DEFINE a == Coded(s, rc4)
<1>1. Len(s) \in Nat /\ DOMAIN s = 1..Len(s)
  BY SeqFacts
<1>2. a = [k \in 1..Len(s) |-> [s[k] EXCEPT !.coded = IF rc4 THEN ~@ ELSE @]]
  BY <1>1 DEF Coded
<1> HIDE DEF a
<1>3. ASSUME NEW k \in 1..Len(s), NEW c, s[k] = Plain(c)
      PROVE  a[k] = Sealed(c, rc4)
  <2>1. a[k] = [Plain(c) EXCEPT !.coded = IF rc4 THEN ~@ ELSE @]
    BY <1>2, <1>3
  <2>2. CASE rc4 = TRUE
    BY <2>1, <2>2 DEF Sealed, Plain
  <2>3. CASE rc4 = FALSE
    BY <2>1, <2>3 DEF Sealed, Plain
  <2>. QED
    BY <2>2, <2>3
<1>4. IsSeq(a) /\ Len(a) = Len(s)
  <2>1. a = [k \in 1..Len(s) |-> a[k]]
    BY <1>2
  <2>. QED
    BY <1>1, <2>1, IsSeqIntro
<1>. QED
  BY <1>3, <1>4 DEF a, IsCoded

LEMMA CodedAt ==
  ASSUME NEW a, NEW s, NEW rc4 \in BOOLEAN, IsCoded(a, s, rc4), NEW k \in 1..Len(s), NEW c,
         s[k] = Plain(c)
  PROVE  a[k] = Sealed(c, rc4)
BY DEF IsCoded

LEMMA CodedOne ==
  ASSUME NEW c, NEW rc4 \in BOOLEAN, NEW u, u = Coded(<<Plain(c)>>, rc4)
  PROVE  IsSeq(u) /\ Len(u) = 1 /\ u[1] = Sealed(c, rc4)
<1>1. PICK s : s = <<Plain(c)>>
  OBVIOUS
<1>2. IsSeq(s) /\ Len(s) = 1 /\ s[1] = Plain(c) /\ 1 \in 1..Len(s)
  <2>1. IsSeq(s) /\ Len(s) = 1 /\ s[1] = Plain(c)
    BY <1>1, OneTuple
  <2>. QED
    BY <2>1
<1>3. IsCoded(u, s, rc4)
  BY <1>1, <1>2, CodedSeq
<1>4. u[1] = Sealed(c, rc4)
  BY <1>2, <1>3, CodedAt
<1>. QED
  BY <1>2, <1>3, <1>4 DEF IsCoded

LEMMA CodedTwo ==
  ASSUME NEW c, NEW d, NEW rc4 \in BOOLEAN, NEW u, u = Coded(<<Plain(c), Plain(d)>>, rc4)
  PROVE  IsSeq(u) /\ Len(u) = 2 /\ u[1] = Sealed(c, rc4) /\ u[2] = Sealed(d, rc4)
<1>1. PICK s : s = <<Plain(c), Plain(d)>>
  OBVIOUS
<1>2. /\ IsSeq(s) /\ Len(s) = 2 /\ 1 \in 1..Len(s) /\ 2 \in 1..Len(s)
      /\ s[1] = Plain(c) /\ s[2] = Plain(d)
  <2>1. IsSeq(s) /\ Len(s) = 2 /\ s[1] = Plain(c) /\ s[2] = Plain(d)
    BY <1>1, TwoTuple
  <2>. QED
    BY <2>1
<1>3. IsCoded(u, s, rc4)
  BY <1>1, <1>2, CodedSeq
<1>4. u[1] = Sealed(c, rc4)
  BY <1>2, <1>3, CodedAt
<1>5. u[2] = Sealed(d, rc4)
  BY <1>2, <1>3, CodedAt
<1>. QED
  BY <1>2, <1>3, <1>4, <1>5 DEF IsCoded

LEMMA CodedArea ==
  ASSUME NEW p, IsSeq(p), NEW rc4 \in BOOLEAN
  PROVE  IsArea(Coded(Area(p), rc4), p, rc4)
<1>1. IsSeq(Area(p)) /\ Len(Area(p)) = Padded(Len(p))
  BY AreaIsSeq
<1>2. \A k \in 1..Padded(Len(p)) : Area(p)[k] = Plain(Held(p, k))
  BY DEF Area, Held, ZeroSector
<1>3. IsCoded(Coded(Area(p), rc4), Area(p), rc4)
  BY <1>1, CodedSeq
<1>. QED
  BY <1>1, <1>2, <1>3 DEF IsArea, IsCoded

\* The cipher is applied sector by sector.
LEMMA CodedJoin ==
  ASSUME NEW a, NEW b, IsSeq(a), IsSeq(b), NEW rc4 \in BOOLEAN
  PROVE  Coded(a \o b, rc4) = Coded(a, rc4) \o Coded(b, rc4)
<1> DEFINE c == Coded(a \o b, rc4)
           x == Coded(a, rc4)
           y == Coded(b, rc4)
           On(s) == [s EXCEPT !.coded = IF rc4 THEN ~@ ELSE @]
<1>1. Len(a) \in Nat /\ Len(b) \in Nat /\ DOMAIN a = 1..Len(a) /\ DOMAIN b = 1..Len(b)
  BY SeqFacts
<1>2. /\ IsSeq(a \o b) /\ Len(a \o b) = Len(a) + Len(b)
      /\ \A k \in 1..Len(a) : (a \o b)[k] = a[k]
      /\ \A k \in 1..Len(b) : (a \o b)[Len(a) + k] = b[k]
  BY Joined DEF IsJoin
<1>3. DOMAIN (a \o b) = 1..Len(a) + Len(b)
  BY <1>2, SeqFacts
<1>4. c = [k \in 1..Len(a) + Len(b) |-> On((a \o b)[k])]
  BY <1>3 DEF Coded
<1>5. x = [k \in 1..Len(a) |-> On(a[k])] /\ y = [k \in 1..Len(b) |-> On(b[k])]
  BY <1>1 DEF Coded
<1> HIDE DEF c, x, y, On
<1>6. IsSeq(x) /\ Len(x) = Len(a) /\ IsSeq(y) /\ Len(y) = Len(b)
  <2>1. x = [k \in 1..Len(a) |-> x[k]] /\ y = [k \in 1..Len(b) |-> y[k]]
    BY <1>5
  <2>. QED
    BY <1>1, <2>1, IsSeqIntro
<1>7. /\ IsSeq(x \o y) /\ Len(x \o y) = Len(a) + Len(b)
      /\ \A k \in 1..Len(a) : (x \o y)[k] = x[k]
      /\ \A k \in 1..Len(b) : (x \o y)[Len(a) + k] = y[k]
  BY <1>6, Joined DEF IsJoin
<1>8. x \o y = [k \in 1..Len(a) + Len(b) |-> (x \o y)[k]]
  BY <1>7, SeqFacts
<1>9. ASSUME NEW k \in 1..Len(a) + Len(b)
      PROVE  c[k] = (x \o y)[k]
  <2>1. CASE k <= Len(a)
    <3>1. k \in 1..Len(a)
      BY <1>1, <2>1
    <3>2. (a \o b)[k] = a[k] /\ (x \o y)[k] = x[k]
      BY <1>2, <1>7, <3>1
    <3>. QED
      BY <1>4, <1>5, <3>1, <3>2
  <2>2. CASE k > Len(a)
    <3>1. k - Len(a) \in 1..Len(b) /\ Len(a) + (k - Len(a)) = k
      BY <1>1, <2>2
    <3>2. (a \o b)[k] = b[k - Len(a)] /\ (x \o y)[k] = y[k - Len(a)]
      BY <1>2, <1>7, <3>1
    <3>. QED
      BY <1>4, <1>5, <3>1, <3>2
  <2>3. k <= Len(a) \/ k > Len(a)
    BY <1>1
  <2>. QED
    BY <2>1, <2>2, <2>3
<1>10. c = x \o y
  BY <1>4, <1>8, <1>9
<1>. QED
  BY <1>10 DEF c, x, y

\* s is the areas of a and b.
TwoAreas(s, a, b, rc4) ==
  /\ IsSeq(s) /\ Len(s) = Padded(Len(a)) + Padded(Len(b))
  /\ \A k \in 1..Padded(Len(a)) : s[k] = Sealed(Held(a, k), rc4)
  /\ \A k \in 1..Padded(Len(b)) : s[Padded(Len(a)) + k] = Sealed(Held(b, k), rc4)

LEMMA JoinedAreas ==
  ASSUME NEW a, NEW b, IsSeq(a), IsSeq(b), NEW rc4 \in BOOLEAN
  PROVE  TwoAreas(Coded(Area(a) \o Area(b), rc4), a, b, rc4)
<1> DEFINE x == Coded(Area(a), rc4)
           y == Coded(Area(b), rc4)
<1>1. IsArea(x, a, rc4) /\ IsArea(y, b, rc4)
  BY CodedArea
<1>2. Coded(Area(a) \o Area(b), rc4) = x \o y
  BY AreaIsSeq, CodedJoin
<1> HIDE DEF x, y
<1>3. IsSeq(x) /\ IsSeq(y) /\ Len(x) = Padded(Len(a)) /\ Len(y) = Padded(Len(b))
  BY <1>1 DEF IsArea
<1>4. /\ IsSeq(x \o y) /\ Len(x \o y) = Len(x) + Len(y)
      /\ \A k \in 1..Len(x) : (x \o y)[k] = x[k]
      /\ \A k \in 1..Len(y) : (x \o y)[Len(x) + k] = y[k]
  BY <1>3, Joined DEF IsJoin
<1>5. TwoAreas(x \o y, a, b, rc4)
  BY <1>1, <1>3, <1>4 DEF TwoAreas, IsArea
<1>. QED
  BY <1>2, <1>5

\* The old layout: four header sectors and the payload.
OldPayload(ddr, loader, rc4) == Coded(Area(ddr) \o Area(loader), rc4)
OldTag(ddr, loader, rc4) ==
  [kind |-> "tag", rc4 |-> rc4, data |-> Padded(Len(ddr)),
   code |-> Padded(Len(ddr)) + Padded(Len(loader))]
OldCrc(ddr, loader, rc4) ==
  [kind |-> "crc", crc0 |-> Plain(OldTag(ddr, loader, rc4)), crc1 |-> Sector1,
   boot |-> OldPayload(ddr, loader, rc4), crc3 |-> ZeroSector]

OldShape(b, ddr, loader, rc4) ==
  /\ IsSeq(b)
  /\ Len(b) = HeaderSectors + Padded(Len(ddr)) + Padded(Len(loader))
  /\ b[1] = Sealed(OldTag(ddr, loader, rc4), rc4)
  /\ b[2] = Sector1
  /\ b[3] = Sealed(OldCrc(ddr, loader, rc4), rc4)
  /\ b[4] = Sealed([kind |-> "zero"], rc4)
  /\ \A k \in 1..Padded(Len(ddr)) + Padded(Len(loader)) :
       b[HeaderSectors + k] = OldPayload(ddr, loader, rc4)[k]

IsFour(f, u, v, w, p) ==
  /\ IsSeq(f) /\ Len(f) = 4 + Len(p)
  /\ f[1] = u[1] /\ f[2] = v[1] /\ f[3] = w[1] /\ f[4] = w[2]
  /\ \A k \in 1..Len(p) : f[4 + k] = p[k]

LEMMA FourParts ==
  ASSUME NEW u, NEW v, NEW w, NEW p, IsSeq(u), IsSeq(v), IsSeq(w), IsSeq(p),
         Len(u) = 1, Len(v) = 1, Len(w) = 2,
         NEW f, f = ((u \o v) \o w) \o p
  PROVE  IsFour(f, u, v, w, p)
<1>1. PICK g, h : g = u \o v /\ h = g \o w
  OBVIOUS
<1>2. IsJoin(g, u, v)
  BY <1>1, Joined
<1>3. IsSeq(g) /\ Len(g) = 2 /\ g[1] = u[1] /\ g[2] = v[1]
  BY <1>2 DEF IsJoin
<1>4. IsJoin(h, g, w)
  BY <1>1, <1>3, Joined
<1>5. IsSeq(h) /\ Len(h) = 4
  BY <1>3, <1>4 DEF IsJoin
<1>6. (\A k \in 1..2 : h[k] = g[k]) /\ \A k \in 1..2 : h[2 + k] = w[k]
  BY <1>3, <1>4 DEF IsJoin
<1>7. h[1] = g[1] /\ h[2] = g[2] /\ h[2 + 1] = w[1] /\ h[2 + 2] = w[2]
  BY <1>6
<1>8. h[1] = u[1] /\ h[2] = v[1] /\ h[3] = w[1] /\ h[4] = w[2]
  BY <1>3, <1>7
<1>9. IsJoin(f, h, p)
  BY <1>1, <1>5, Joined
<1>10. \A k \in 1..4 : f[k] = h[k]
  BY <1>5, <1>9 DEF IsJoin
<1>11. f[1] = h[1] /\ f[2] = h[2] /\ f[3] = h[3] /\ f[4] = h[4]
  <2>1. 1 \in 1..4 /\ 2 \in 1..4 /\ 3 \in 1..4 /\ 4 \in 1..4
    OBVIOUS
  <2>. QED
    BY <1>10, <2>1
<1>12. IsSeq(f) /\ Len(f) = 4 + Len(p) /\ \A k \in 1..Len(p) : f[4 + k] = p[k]
  BY <1>5, <1>9 DEF IsJoin
<1>. QED
  BY <1>8, <1>11, <1>12 DEF IsFour

LEMMA OldLayout ==
  ASSUME NEW ddr, NEW loader, IsSeq(ddr), IsSeq(loader), NEW rc4 \in BOOLEAN
  PROVE  OldShape(OldBlock(ddr, loader, rc4), ddr, loader, rc4)
<1>1. PICK p : p = OldPayload(ddr, loader, rc4)
  OBVIOUS
<1>2. IsSeq(p) /\ Len(p) = Padded(Len(ddr)) + Padded(Len(loader))
  BY <1>1, JoinedAreas DEF OldPayload, TwoAreas
<1>3. PICK t, c, z : /\ t = OldTag(ddr, loader, rc4) /\ c = OldCrc(ddr, loader, rc4)
                     /\ z = [kind |-> "zero"]
  OBVIOUS
<1>4. PICK u, v, w : /\ u = Coded(<<Plain(t)>>, rc4) /\ v = <<Sector1>>
                     /\ w = Coded(<<Plain(c), Plain(z)>>, rc4)
  OBVIOUS
<1>5. Len(Area(ddr)) = Padded(Len(ddr)) /\ Padded(Len(ddr)) \in Nat /\ Padded(Len(loader)) \in Nat
  BY AreaIsSeq, SeqFacts, PaddedSize
<1>6. OldBlock(ddr, loader, rc4) = ((u \o v) \o w) \o p
  BY <1>1, <1>2, <1>3, <1>4, <1>5
     DEF OldBlock, OldPayload, OldTag, OldCrc, Sector0, Sector2, ZeroSector
<1>7. IsSeq(u) /\ Len(u) = 1 /\ u[1] = Sealed(t, rc4)
  BY <1>4, CodedOne
<1>8. IsSeq(v) /\ Len(v) = 1 /\ v[1] = Sector1
  BY <1>4, OneTuple
<1>9. IsSeq(w) /\ Len(w) = 2 /\ w[1] = Sealed(c, rc4) /\ w[2] = Sealed(z, rc4)
  BY <1>4, CodedTwo
<1>10. PICK f : f = OldBlock(ddr, loader, rc4)
  OBVIOUS
<1>11. IsFour(f, u, v, w, p)
  <2>1. f = ((u \o v) \o w) \o p
    BY <1>6, <1>10
  <2>. QED
    BY <1>2, <1>7, <1>8, <1>9, <2>1, FourParts
<1>12. Len(f) = HeaderSectors + Padded(Len(ddr)) + Padded(Len(loader))
  BY <1>2, <1>5, <1>11 DEF HeaderSectors, IsFour
<1>. QED
  BY <1>1, <1>2, <1>3, <1>7, <1>8, <1>9, <1>10, <1>11, <1>12 DEF OldShape, HeaderSectors, IsFour

\* The new layout: the areas of its three parts.
ThreeAreas(s, a, b, c, rc4) ==
  LET n0 == Padded(Len(a))
      n1 == Padded(Len(b))
      n2 == Padded(Len(c))
  IN  /\ IsSeq(s) /\ Len(s) = n0 + n1 + n2
      /\ \A k \in 1..n0 : s[k] = Sealed(Held(a, k), rc4)
      /\ \A k \in 1..n1 : s[n0 + k] = Sealed(Held(b, k), rc4)
      /\ \A k \in 1..n2 : s[n0 + n1 + k] = Sealed(Held(c, k), rc4)

LEMMA NewLayout ==
  ASSUME NEW a, NEW b, NEW c, IsSeq(a), IsSeq(b), IsSeq(c), NEW rc4 \in BOOLEAN
  PROVE  ThreeAreas(NewBlock(a, b, c, rc4), a, b, c, rc4)
<1>1. PICK x, y, s : /\ x = Coded(Area(a) \o Area(b), rc4) /\ y = Coded(Area(c), rc4)
                     /\ s = NewBlock(a, b, c, rc4)
  OBVIOUS
<1>2. PICK n0, n1, n2 : n0 = Padded(Len(a)) /\ n1 = Padded(Len(b)) /\ n2 = Padded(Len(c))
  OBVIOUS
<1>3. n0 \in Nat /\ n1 \in Nat /\ n2 \in Nat
  BY <1>2, SeqFacts, PaddedSize
<1>4. /\ IsSeq(x) /\ Len(x) = n0 + n1
      /\ \A k \in 1..n0 : x[k] = Sealed(Held(a, k), rc4)
      /\ \A k \in 1..n1 : x[n0 + k] = Sealed(Held(b, k), rc4)
  <2>1. TwoAreas(x, a, b, rc4)
    BY <1>1, JoinedAreas
  <2>. QED
    BY <1>2, <2>1 DEF TwoAreas
<1>5. IsSeq(y) /\ Len(y) = n2 /\ \A k \in 1..n2 : y[k] = Sealed(Held(c, k), rc4)
  <2>1. IsArea(y, c, rc4)
    BY <1>1, CodedArea
  <2>. QED
    BY <1>2, <2>1 DEF IsArea
<1>6. s = x \o y
  <2>1. IsSeq(Area(a)) /\ IsSeq(Area(b)) /\ IsSeq(Area(c))
    BY AreaIsSeq
  <2>2. IsSeq(Area(a) \o Area(b))
    BY <2>1, Joined DEF IsJoin
  <2>. QED
    BY <1>1, <2>1, <2>2, CodedJoin DEF NewBlock
<1>7. IsJoin(s, x, y)
  BY <1>4, <1>5, <1>6, Joined
<1>8. /\ IsSeq(s) /\ Len(s) = n0 + n1 + n2
      /\ \A k \in 1..n0 + n1 : s[k] = x[k]
      /\ \A k \in 1..n2 : s[n0 + n1 + k] = y[k]
  BY <1>4, <1>5, <1>7 DEF IsJoin
<1>9. \A k \in 1..n0 : s[k] = Sealed(Held(a, k), rc4)
  BY <1>3, <1>4, <1>8
<1>10. ASSUME NEW k \in 1..n1 PROVE s[n0 + k] = Sealed(Held(b, k), rc4)
  <2>1. n0 + k \in 1..n0 + n1
    BY <1>3
  <2>. QED
    BY <1>4, <1>8, <2>1
<1>11. \A k \in 1..n2 : s[n0 + n1 + k] = Sealed(Held(c, k), rc4)
  BY <1>5, <1>8
<1>. QED
  BY <1>1, <1>2, <1>8, <1>9, <1>10, <1>11 DEF ThreeAreas

-----------------------------------------------------------------------------
(* The blocks of the images.                                               *)

FlashHead(f) == Payload[f]["FlashHead"]
Ddr(f) == Payload[f]["FlashData"]
Boot(f) == Payload[f]["FlashBoot"]
Cipher(f) == File[f].rc4
IsNew(f) == HasEntry(f, "FlashHead")

\* No sector of a payload looks like one of a header of the old layout.
IsStage(s) == IsSeq(s) /\ \A k \in DOMAIN s : s[k].kind \notin {"tag", "crc"}

LEMMA Payloads ==
  ASSUME NEW f \in Images, NEW name, HasEntry(f, name)
  PROVE  IsStage(Payload[f][name])
<1>1. PICK i \in DOMAIN File[f].loader.entries : File[f].loader.entries[i].name = name
  BY DEF HasEntry, Named, Entries
<1> DEFINE s == Payload[f][File[f].loader.entries[i].name]
<1>2. \A j \in DOMAIN File[f].loader.entries :
        IsStage(Payload[f][File[f].loader.entries[j].name])
  BY ImagesAssumption, Zenon DEF IsStage, IsSeq, Elements
<1>3. IsStage(s)
  BY <1>1, <1>2
<1>. QED
  BY <1>1, <1>3

HasBlock(f) ==
  /\ f \in Images /\ Cipher(f) \in BOOLEAN /\ IsStage(Ddr(f)) /\ IsStage(Boot(f))
  /\ IsNew(f) =>
       /\ IsStage(FlashHead(f)) /\ Describes(FlashHead(f), Ddr(f), Boot(f))
       /\ ThreeAreas(Block[f], FlashHead(f), Ddr(f), Boot(f), Cipher(f))
  /\ ~IsNew(f) => OldShape(Block[f], Ddr(f), Boot(f), Cipher(f))

LEMMA Blocks ==
  ASSUME NEW f \in DOMAIN Block
  PROVE  HasBlock(f)
<1>1. f \in Images /\ HasEntry(f, "FlashBoot") /\ HasEntry(f, "FlashData") /\ Block[f] = Build(f)
  BY DEF Block
<1>2. IsStage(Ddr(f)) /\ IsStage(Boot(f)) /\ (IsNew(f) => IsStage(FlashHead(f)))
  BY <1>1, Payloads DEF Ddr, Boot, FlashHead, IsNew
<1>3. Cipher(f) \in BOOLEAN
  <2>1. File[f] \in Loader
    BY <1>1, ImagesAssumption
  <2>. QED
    BY <2>1 DEF Loader, Cipher
<1>4. CASE IsNew(f)
  <2>1. Block[f] = NewBlock(FlashHead(f), Ddr(f), Boot(f), Cipher(f))
    BY <1>1, <1>4 DEF Build, IsNew, FlashHead, Ddr, Boot, Cipher
  <2>2. Describes(FlashHead(f), Ddr(f), Boot(f))
    BY <1>4, BlocksAssumption DEF IsNew, FlashHead, Ddr, Boot
  <2>3. ThreeAreas(Block[f], FlashHead(f), Ddr(f), Boot(f), Cipher(f))
    BY <1>2, <1>3, <1>4, <2>1, NewLayout DEF IsStage
  <2>. QED
    BY <1>1, <1>2, <1>3, <1>4, <2>2, <2>3 DEF HasBlock
<1>5. CASE ~IsNew(f)
  <2>1. Block[f] = OldBlock(Ddr(f), Boot(f), Cipher(f))
    BY <1>1, <1>5 DEF Build, IsNew, Ddr, Boot, Cipher
  <2>2. OldShape(Block[f], Ddr(f), Boot(f), Cipher(f))
    BY <1>2, <1>3, <2>1, OldLayout DEF IsStage
  <2>. QED
    BY <1>1, <1>2, <1>3, <1>5, <2>2 DEF HasBlock
<1>. QED
  BY <1>4, <1>5

LEMMA BlockIsSeq ==
  ASSUME NEW f \in DOMAIN Block
  PROVE  /\ f \in Images /\ Len(Block[f]) \in Nat /\ DOMAIN Block[f] = 1..Len(Block[f])
         /\ IsSeq(Block[f])
<1>1. HasBlock(f)
  BY Blocks
<1>2. IsSeq(Block[f])
  BY <1>1 DEF HasBlock, ThreeAreas, OldShape
<1>. QED
  BY <1>1, <1>2, SeqFacts DEF HasBlock

-----------------------------------------------------------------------------
(* What the boot ROM accepts.                                              *)

Other == Plain([kind |-> "other"])

\* Sector k of region r is that of one of the blocks, or something else.
IsOf(r, k, blocks) ==
  r[k] = Other \/ \E f \in blocks : k \in DOMAIN Block[f] /\ r[k] = Block[f][k]

LEMMA FirstSectors ==
  ASSUME NEW f \in DOMAIN Block
  PROVE  /\ IsNew(f) /\ 1 \in DOMAIN Block[f] =>
              Block[f][1] = Sealed(FlashHead(f)[1], Cipher(f)) /\ FlashHead(f)[1].kind = "RKNS"
         /\ ~IsNew(f) =>
              Block[f][1] = Sealed(OldTag(Ddr(f), Boot(f), Cipher(f)), Cipher(f))
<1>1. HasBlock(f)
  BY Blocks
<1>2. CASE IsNew(f) /\ 1 \in DOMAIN Block[f]
  <2>1. /\ Describes(FlashHead(f), Ddr(f), Boot(f)) /\ IsSeq(FlashHead(f))
        /\ ThreeAreas(Block[f], FlashHead(f), Ddr(f), Boot(f), Cipher(f))
    BY <1>1, <1>2 DEF HasBlock, IsStage
  <2>2. Len(FlashHead(f)) \in Nat /\ Len(FlashHead(f)) >= 1
    <3>1. FlashHead(f) # <<>> /\ FlashHead(f) \in Seq(Elements(FlashHead(f)))
      BY <2>1 DEF Describes, IsSeq
    <3>. QED
      BY <3>1
  <2>3. Padded(Len(FlashHead(f))) \in Nat /\ 1 <= Padded(Len(FlashHead(f)))
    BY <2>2, PaddedSize
  <2>4. 1 \in 1..Padded(Len(FlashHead(f)))
    BY <2>3
  <2>5. Block[f][1] = Sealed(Held(FlashHead(f), 1), Cipher(f))
    BY <2>1, <2>4 DEF ThreeAreas
  <2>6. Held(FlashHead(f), 1) = FlashHead(f)[1]
    BY <2>2 DEF Held
  <2>. QED
    BY <1>2, <2>1, <2>5, <2>6 DEF Describes
<1>3. CASE ~IsNew(f)
  BY <1>1, <1>3 DEF HasBlock, OldShape
<1>. QED
  BY <1>2, <1>3

\* What a payload puts into a sector is no header of the old layout.
LEMMA HeldKind ==
  ASSUME NEW s, IsStage(s), NEW k \in Nat \ {0}
  PROVE  Held(s, k).kind \notin {"tag", "crc"}
<1>1. Len(s) \in Nat /\ DOMAIN s = 1..Len(s)
  BY SeqFacts DEF IsStage
<1>2. CASE k <= Len(s)
  BY <1>1, <1>2 DEF Held, IsStage
<1>3. CASE ~(k <= Len(s))
  BY <1>3 DEF Held
<1>. QED
  BY <1>2, <1>3

LEMMA ThirdSector ==
  ASSUME NEW f \in DOMAIN Block, 3 \in DOMAIN Block[f]
  PROVE  /\ IsNew(f) => \E c : Block[f][3] = Sealed(c, Cipher(f)) /\ c.kind # "crc"
         /\ ~IsNew(f) =>
              Block[f][3] = Sealed(OldCrc(Ddr(f), Boot(f), Cipher(f)), Cipher(f))
<1>1. HasBlock(f)
  BY Blocks
<1>2. CASE IsNew(f)
  <2>1. PICK a, b, c, rc4 : a = FlashHead(f) /\ b = Ddr(f) /\ c = Boot(f) /\ rc4 = Cipher(f)
    OBVIOUS
  <2>2. IsStage(a) /\ IsStage(b) /\ IsStage(c) /\ ThreeAreas(Block[f], a, b, c, rc4)
    BY <1>1, <1>2, <2>1 DEF HasBlock
  <2>3. PICK n0, n1, n2 : n0 = Padded(Len(a)) /\ n1 = Padded(Len(b)) /\ n2 = Padded(Len(c))
    OBVIOUS
  <2>4. n0 \in Nat /\ n1 \in Nat /\ n2 \in Nat
    BY <2>2, <2>3, SeqFacts, PaddedSize DEF IsStage
  <2>5. /\ 3 <= n0 + n1 + n2
        /\ \A k \in 1..n0 : Block[f][k] = Sealed(Held(a, k), rc4)
        /\ \A k \in 1..n1 : Block[f][n0 + k] = Sealed(Held(b, k), rc4)
        /\ \A k \in 1..n2 : Block[f][n0 + n1 + k] = Sealed(Held(c, k), rc4)
    BY <2>2, <2>3, <2>4, BlockIsSeq DEF ThreeAreas
  <2>6. CASE 3 <= n0
    <3>1. Block[f][3] = Sealed(Held(a, 3), rc4)
      BY <2>4, <2>5, <2>6
    <3>2. Held(a, 3).kind # "crc"
      BY <2>2, HeldKind
    <3>. QED
      BY <1>2, <2>1, <3>1, <3>2
  <2>7. CASE n0 < 3 /\ 3 <= n0 + n1
    <3>1. 3 - n0 \in 1..n1 /\ n0 + (3 - n0) = 3 /\ 3 - n0 \in Nat \ {0}
      BY <2>4, <2>7
    <3>2. Block[f][3] = Sealed(Held(b, 3 - n0), rc4)
      BY <2>5, <3>1
    <3>3. Held(b, 3 - n0).kind # "crc"
      BY <2>2, <3>1, HeldKind
    <3>. QED
      BY <1>2, <2>1, <3>2, <3>3
  <2>8. CASE n0 + n1 < 3
    <3>1. 3 - (n0 + n1) \in 1..n2 /\ n0 + n1 + (3 - (n0 + n1)) = 3 /\ 3 - (n0 + n1) \in Nat \ {0}
      BY <2>4, <2>5, <2>8
    <3>2. Block[f][3] = Sealed(Held(c, 3 - (n0 + n1)), rc4)
      BY <2>5, <3>1
    <3>3. Held(c, 3 - (n0 + n1)).kind # "crc"
      BY <2>2, <3>1, HeldKind
    <3>. QED
      BY <1>2, <2>1, <3>2, <3>3
  <2>. QED
    BY <1>2, <2>4, <2>6, <2>7, <2>8
<1>3. CASE ~IsNew(f)
  BY <1>1, <1>3 DEF HasBlock, OldShape
<1>. QED
  BY <1>2, <1>3

\* A sector that the ROM reads as a kind of content was written with its cipher.
LEMMA ReadsAs ==
  ASSUME NEW r, NEW k, NEW c \in BOOLEAN, NEW x, NEW rc4 \in BOOLEAN, r[k] = Sealed(x, rc4)
  PROVE  /\ Content(r, k, c).kind # "noise" => rc4 = c /\ Content(r, k, c) = x
         /\ rc4 = c => Content(r, k, c) = x
BY DEF Content, Sealed

LEMMA OtherContent ==
  ASSUME NEW r, NEW k, NEW c \in BOOLEAN, r[k] = Other
  PROVE  Content(r, k, c).kind \notin {"tag", "crc", "RKNS"}
<1> DEFINE x == [kind |-> "other"]
<1>1. r[k] = Sealed(x, FALSE)
  BY DEF Other, Plain, Sealed
<1>2. x.kind = "other"
  OBVIOUS
<1> HIDE DEF x
<1>3. Content(r, k, c).kind # "noise" => Content(r, k, c) = x
  BY <1>1, ReadsAs
<1>4. CASE Content(r, k, c).kind = "noise"
  BY <1>4
<1>5. CASE Content(r, k, c) = x
  BY <1>2, <1>5
<1>. QED
  BY <1>3, <1>4, <1>5

\* The n sectors of r behind from are the payload, up to padding.
Holds(r, from, n, p, c) == \A k \in 1..n : r[from + k] = Sealed(Held(p, k), c)

LEMMA StageIs ==
  ASSUME NEW r, NEW from, NEW c \in BOOLEAN, NEW p, IsSeq(p), NEW n, n = Padded(Len(p)),
         Holds(r, from, n, p, c)
  PROVE  IsPayload(Contents(r, from, n, c), p)
<1>1. PICK s : s = Contents(r, from, n, c)
  OBVIOUS
<1>2. n \in Nat /\ Len(p) \in Nat /\ Len(p) <= n
  BY <1>1, SeqFacts, PaddedSize
<1>3. s = [k \in 1..n |-> Content(r, from + k, c)]
  BY <1>1 DEF Contents
<1>4. ASSUME NEW k \in 1..n PROVE s[k] = Held(p, k)
  <2>1. r[from + k] = Sealed(Held(p, k), c)
    BY DEF Holds
  <2>2. Content(r, from + k, c) = Held(p, k)
    BY <2>1, ReadsAs
  <2>. QED
    BY <1>3, <2>2
<1>5. s = [k \in 1..n |-> s[k]]
  BY <1>3
<1>6. Len(s) = n
  BY <1>2, <1>5, IsSeqIntro
<1>. QED
  BY <1>1, <1>2, <1>4, <1>6 DEF IsPayload, Held

\* What starts by the old layout is the image of the block that the checksums
\* come from.
LEMMA OldBoots ==
  ASSUME NEW r, IsSeq(r), NEW blocks \in SUBSET DOMAIN Block, NEW c \in BOOLEAN,
         OldAccepted(r, c), IsOf(r, 1, blocks), Len(r) >= 3 => IsOf(r, 3, blocks)
  PROVE  \E f \in blocks : IsImage(OldStages(r, c), f)
<1>1. PICK head, crc :
        /\ head = Content(r, 1, c) /\ crc = Content(r, 3, c)
        /\ head.kind = "tag" /\ crc.kind = "crc"
        /\ HeaderSectors + head.code <= Len(r)
        /\ crc.crc0 = Plain(head)
        /\ crc.boot = SubSeq(r, HeaderSectors + 1, HeaderSectors + head.code)
  BY DEF OldAccepted
<1>2. PICK f \in blocks : 1 \in DOMAIN Block[f] /\ r[1] = Block[f][1]
  BY <1>1, OtherContent DEF IsOf
<1>3. f \in DOMAIN Block /\ HasBlock(f)
  BY <1>2, Blocks
<1>4. Cipher(f) \in BOOLEAN
  BY <1>3 DEF HasBlock
<1>5. ~IsNew(f) /\ head = OldTag(Ddr(f), Boot(f), Cipher(f)) /\ Cipher(f) = c
  <2>1. CASE IsNew(f)
    <3>1. r[1] = Sealed(FlashHead(f)[1], Cipher(f)) /\ FlashHead(f)[1].kind = "RKNS"
      BY <1>2, <1>3, <2>1, FirstSectors
    <3>. QED
      BY <1>1, <1>4, <3>1, ReadsAs
  <2>2. CASE ~IsNew(f)
    <3>1. r[1] = Sealed(OldTag(Ddr(f), Boot(f), Cipher(f)), Cipher(f))
      BY <1>2, <1>3, <2>2, FirstSectors
    <3>. QED
      BY <1>1, <1>4, <2>2, <3>1, ReadsAs
  <2>. QED
    BY <2>1, <2>2
<1>6. head.code = Padded(Len(Ddr(f))) + Padded(Len(Boot(f))) /\ head.code \in Nat
  <2>1. Padded(Len(Ddr(f))) \in Nat /\ Padded(Len(Boot(f))) \in Nat
    BY <1>3, SeqFacts, PaddedSize DEF HasBlock, IsStage
  <2>. QED
    BY <1>5, <2>1 DEF OldTag
<1>7. PICK g \in blocks : 3 \in DOMAIN Block[g] /\ r[3] = Block[g][3]
  <2>1. Len(r) \in Nat /\ Len(r) >= 3
    BY <1>1, <1>6, SeqFacts DEF HeaderSectors
  <2>. QED
    BY <1>1, <2>1, OtherContent DEF IsOf
<1>8. g \in DOMAIN Block /\ HasBlock(g)
  BY <1>7, Blocks
<1>9. Cipher(g) \in BOOLEAN
  BY <1>8 DEF HasBlock
<1>10. ~IsNew(g) /\ crc = OldCrc(Ddr(g), Boot(g), c) /\ Cipher(g) = c
  <2>1. CASE IsNew(g)
    <3>1. PICK x : r[3] = Sealed(x, Cipher(g)) /\ x.kind # "crc"
      BY <1>7, <1>8, <2>1, ThirdSector
    <3>. QED
      BY <1>1, <1>9, <3>1, ReadsAs
  <2>2. CASE ~IsNew(g)
    <3>1. r[3] = Sealed(OldCrc(Ddr(g), Boot(g), Cipher(g)), Cipher(g))
      BY <1>7, <1>8, <2>2, ThirdSector
    <3>. QED
      BY <1>1, <1>9, <2>2, <3>1, ReadsAs
  <2>. QED
    BY <2>1, <2>2
<1>11. PICK n1, n2, p : n1 = Padded(Len(Ddr(g))) /\ n2 = Padded(Len(Boot(g)))
                        /\ p = OldPayload(Ddr(g), Boot(g), c)
  OBVIOUS
<1>12. /\ n1 \in Nat /\ n2 \in Nat /\ IsSeq(Ddr(g)) /\ IsSeq(Boot(g))
       /\ IsSeq(p) /\ Len(p) = n1 + n2
       /\ \A k \in 1..n1 : p[k] = Sealed(Held(Ddr(g), k), c)
       /\ \A k \in 1..n2 : p[n1 + k] = Sealed(Held(Boot(g), k), c)
  <2>1. IsSeq(Ddr(g)) /\ IsSeq(Boot(g))
    BY <1>8 DEF HasBlock, IsStage
  <2>2. TwoAreas(p, Ddr(g), Boot(g), c)
    BY <1>11, <2>1, JoinedAreas DEF OldPayload
  <2>. QED
    BY <1>11, <2>1, <2>2, SeqFacts, PaddedSize DEF TwoAreas
<1>13. head.data = n1 /\ head.code = n1 + n2
  <2>1. Plain(head) = Plain(OldTag(Ddr(g), Boot(g), c))
    BY <1>1, <1>10 DEF OldCrc
  <2>2. head = OldTag(Ddr(g), Boot(g), c)
    BY <2>1 DEF Plain
  <2>. QED
    BY <1>11, <2>2 DEF OldTag
<1>14. \A k \in 1..n1 + n2 : r[4 + k] = p[k]
  <2>1. p = SubSeq(r, 5, 4 + (n1 + n2))
    BY <1>1, <1>10, <1>11, <1>13 DEF OldCrc, HeaderSectors
  <2>2. r \in Seq(Elements(r)) /\ 4 + (n1 + n2) <= Len(r) /\ Len(r) \in Nat
    BY <1>1, <1>13, SeqFacts DEF IsSeq, HeaderSectors
  <2>3. ASSUME NEW k \in 1..n1 + n2 PROVE SubSeq(r, 5, 4 + (n1 + n2))[k] = r[4 + k]
    BY <1>12, <2>2
  <2>. QED
    BY <2>1, <2>3
<1>15. PICK stages : stages = OldStages(r, c)
  OBVIOUS
<1>16. /\ stages[1] = Contents(r, 4, n1, c)
       /\ stages[2] = Contents(r, 4 + n1, n2, c)
  <2>1. (n1 + n2) - n1 = n2
    BY <1>12
  <2>. QED
    BY <1>1, <1>13, <1>15, <2>1 DEF OldStages, HeaderSectors
<1>17. \A k \in 1..n1 : r[4 + k] = Sealed(Held(Ddr(g), k), c)
  BY <1>12, <1>14
<1>18. ASSUME NEW k \in 1..n2 PROVE r[(4 + n1) + k] = Sealed(Held(Boot(g), k), c)
  <2>1. n1 + k \in 1..n1 + n2 /\ 4 + (n1 + k) = (4 + n1) + k
    BY <1>12
  <2>. QED
    BY <1>12, <1>14, <2>1
<1>19. IsPayload(stages[1], Ddr(g))
  <2>1. Holds(r, 4, n1, Ddr(g), c)
    BY <1>17 DEF Holds
  <2>. QED
    BY <1>11, <1>12, <1>16, <2>1, StageIs
<1>20. IsPayload(stages[2], Boot(g))
  <2>1. Holds(r, 4 + n1, n2, Boot(g), c)
    BY <1>18 DEF Holds
  <2>. QED
    BY <1>11, <1>12, <1>16, <2>1, StageIs
<1>. QED
  BY <1>7, <1>15, <1>19, <1>20 DEF IsImage, Ddr, Boot

\* What starts by the new layout is the image of the block the header is from.
LEMMA NewBoots ==
  ASSUME NEW r, IsSeq(r), NEW blocks \in SUBSET DOMAIN Block, NEW c \in BOOLEAN,
         NewAccepted(r, c), IsOf(r, 1, blocks)
  PROVE  \E f \in blocks : IsImage(NewStages(r, c), f)
<1>1. PICK head : head = Content(r, 1, c)
  OBVIOUS
<1>2. /\ head.kind = "RKNS"
      /\ \A i \in {1, 2} :
           head.images[i].hash = Contents(r, head.images[i].offset, head.images[i].count, c)
  BY <1>1 DEF NewAccepted
<1>3. PICK f \in blocks : 1 \in DOMAIN Block[f] /\ r[1] = Block[f][1]
  BY <1>1, <1>2, OtherContent DEF IsOf
<1>4. f \in DOMAIN Block /\ HasBlock(f)
  BY <1>3, Blocks
<1>5. Cipher(f) \in BOOLEAN
  BY <1>4 DEF HasBlock
<1>6. IsNew(f) /\ head = FlashHead(f)[1]
  <2>1. CASE IsNew(f)
    <3>1. r[1] = Sealed(FlashHead(f)[1], Cipher(f))
      BY <1>3, <1>4, <2>1, FirstSectors
    <3>. QED
      BY <1>1, <1>2, <1>5, <2>1, <3>1, ReadsAs
  <2>2. CASE ~IsNew(f)
    <3>1. r[1] = Sealed(OldTag(Ddr(f), Boot(f), Cipher(f)), Cipher(f))
      BY <1>3, <1>4, <2>2, FirstSectors
    <3>2. OldTag(Ddr(f), Boot(f), Cipher(f)).kind = "tag"
      BY DEF OldTag
    <3>. QED
      BY <1>1, <1>2, <1>5, <3>1, <3>2, ReadsAs
  <2>. QED
    BY <2>1, <2>2
<1>7. head.images[1].hash = Ddr(f) /\ head.images[2].hash = Boot(f)
  BY <1>4, <1>6 DEF HasBlock, Describes
<1>8. PICK stages : stages = NewStages(r, c)
  OBVIOUS
<1>9. stages[1] = Ddr(f) /\ stages[2] = Boot(f)
  <2>1. stages = [i \in {1, 2} |-> Contents(r, head.images[i].offset, head.images[i].count, c)]
    BY <1>1, <1>8 DEF NewStages
  <2>2. \A i \in {1, 2} : stages[i] = head.images[i].hash
    BY <1>2, <2>1
  <2>. QED
    BY <1>7, <2>2
<1>10. ASSUME NEW s, IsSeq(s) PROVE IsPayload(s, s)
  BY <1>10, SeqFacts DEF IsPayload
<1>. QED
  BY <1>3, <1>4, <1>8, <1>9, <1>10 DEF IsImage, Ddr, Boot, HasBlock, IsStage

\* r begins with the whole of s.
Begins(r, s) == IsSeq(r) /\ Len(s) <= Len(r) /\ \A k \in 1..Len(s) : r[k] = s[k]

\* A block of the old layout is accepted, whatever is behind it.
LEMMA OldStarts ==
  ASSUME NEW r, NEW f \in DOMAIN Block, ~IsNew(f), Begins(r, Block[f])
  PROVE  OldAccepted(r, Cipher(f))
<1>1. PICK ddr, boot, c : ddr = Ddr(f) /\ boot = Boot(f) /\ c = Cipher(f)
  OBVIOUS
<1>2. PICK n1, n2, p, b : /\ n1 = Padded(Len(ddr)) /\ n2 = Padded(Len(boot))
                          /\ p = OldPayload(ddr, boot, c) /\ b = Block[f]
  OBVIOUS
<1>3. IsSeq(ddr) /\ IsSeq(boot) /\ c \in BOOLEAN /\ OldShape(b, ddr, boot, c)
  BY <1>1, <1>2, Blocks DEF HasBlock, IsStage
<1>4. n1 \in Nat /\ n2 \in Nat /\ IsSeq(p) /\ Len(p) = n1 + n2
  <2>1. TwoAreas(p, ddr, boot, c)
    BY <1>2, <1>3, JoinedAreas DEF OldPayload
  <2>. QED
    BY <1>2, <1>3, <2>1, SeqFacts, PaddedSize DEF TwoAreas
<1>5. PICK t, crc, z : /\ t = OldTag(ddr, boot, c) /\ crc = OldCrc(ddr, boot, c)
                       /\ z = [kind |-> "zero"]
  OBVIOUS
<1>6. /\ Len(b) = 4 + (n1 + n2)
      /\ b[1] = Sealed(t, c) /\ b[2] = Sector1 /\ b[3] = Sealed(crc, c) /\ b[4] = Sealed(z, c)
      /\ \A k \in 1..n1 + n2 : b[4 + k] = p[k]
  <2>1. /\ Len(b) = 4 + n1 + n2
        /\ b[1] = Sealed(t, c) /\ b[2] = Sector1 /\ b[3] = Sealed(crc, c)
        /\ b[4] = Sealed(z, c)
    BY <1>2, <1>3, <1>5 DEF OldShape, HeaderSectors
  <2>2. \A k \in 1..n1 + n2 : b[4 + k] = p[k]
    BY <1>2, <1>3 DEF OldShape, HeaderSectors
  <2>. QED
    BY <1>4, <2>1, <2>2
<1>7. Len(r) \in Nat /\ 4 + (n1 + n2) <= Len(r) /\ \A k \in 1..4 + (n1 + n2) : r[k] = b[k]
  BY <1>2, <1>6, SeqFacts DEF Begins
<1>8. 1 \in 1..4 + (n1 + n2) /\ 2 \in 1..4 + (n1 + n2) /\ 3 \in 1..4 + (n1 + n2) /\ 4 \in 1..4 + (n1 + n2)
  BY <1>4
<1>9. Content(r, 1, c) = t
  BY <1>3, <1>6, <1>7, <1>8, ReadsAs
<1>10. Content(r, 3, c) = crc
  BY <1>3, <1>6, <1>7, <1>8, ReadsAs
<1>11. Content(r, 4, c) = z
  BY <1>3, <1>6, <1>7, <1>8, ReadsAs
<1>12. r[2] = Sector1
  BY <1>6, <1>7, <1>8
<1>13. t.kind = "tag" /\ t.data = n1 /\ t.code = n1 + n2
  BY <1>2, <1>5 DEF OldTag
<1>14. /\ crc.kind = "crc" /\ crc.crc0 = Plain(t) /\ crc.crc1 = Sector1
       /\ crc.boot = p /\ crc.crc3 = Plain(z)
  BY <1>2, <1>5 DEF OldCrc, ZeroSector
<1>15. p = SubSeq(r, 5, 4 + (n1 + n2))
  <2>1. PICK n : n = n1 + n2
    OBVIOUS
  <2>2. n \in Nat /\ 4 + n <= Len(r) /\ r \in Seq(Elements(r))
    BY <1>4, <1>7, <2>1 DEF Begins, IsSeq
  <2>3. SubSeq(r, 5, 4 + n) = [k \in 1..n |-> r[4 + k]]
    BY <2>2
  <2>4. p = [k \in 1..n |-> p[k]]
    BY <1>4, <2>1, SeqFacts
  <2>5. ASSUME NEW k \in 1..n PROVE p[k] = r[4 + k]
    <3>1. 4 + k \in 1..4 + n
      BY <2>2
    <3>. QED
      BY <1>6, <1>7, <2>1, <3>1
  <2>. QED
    BY <2>1, <2>3, <2>4, <2>5
<1>16. n1 <= n1 + n2
  BY <1>4
<1>17. OldAccepted(r, c)
  BY <1>7, <1>9, <1>10, <1>11, <1>12, <1>13, <1>14, <1>15, <1>16 DEF OldAccepted, HeaderSectors
<1>. QED
  BY <1>1, <1>17

\* So is a block of the new layout.
LEMMA NewStarts ==
  ASSUME NEW r, NEW f \in DOMAIN Block, IsNew(f), Begins(r, Block[f])
  PROVE  NewAccepted(r, Cipher(f))
<1>1. PICK head, ddr, boot, c : /\ head = FlashHead(f) /\ ddr = Ddr(f) /\ boot = Boot(f)
                                /\ c = Cipher(f)
  OBVIOUS
<1>2. PICK n0, n1, n2, b : /\ n0 = Padded(Len(head)) /\ n1 = Padded(Len(ddr))
                           /\ n2 = Padded(Len(boot)) /\ b = Block[f]
  OBVIOUS
<1>3. /\ IsSeq(head) /\ IsSeq(ddr) /\ IsSeq(boot) /\ c \in BOOLEAN
      /\ Describes(head, ddr, boot) /\ ThreeAreas(b, head, ddr, boot, c)
  BY <1>1, <1>2, Blocks DEF HasBlock, IsStage
<1>4. /\ n0 \in Nat /\ n1 \in Nat /\ n2 \in Nat /\ Len(ddr) \in Nat /\ Len(boot) \in Nat
      /\ Len(ddr) <= n1 /\ Len(boot) <= n2
  BY <1>2, <1>3, SeqFacts, PaddedSize
<1>5. /\ IsSeq(b) /\ Len(b) = n0 + n1 + n2
      /\ \A k \in 1..n1 : b[n0 + k] = Sealed(Held(ddr, k), c)
      /\ \A k \in 1..n2 : b[n0 + n1 + k] = Sealed(Held(boot, k), c)
  BY <1>2, <1>3 DEF ThreeAreas
<1>6. Len(r) \in Nat /\ n0 + n1 + n2 <= Len(r) /\ \A k \in 1..n0 + n1 + n2 : r[k] = b[k]
  BY <1>2, <1>5, SeqFacts DEF Begins
<1>7. ASSUME NEW from \in Nat, NEW p, IsSeq(p), from + Len(p) <= n0 + n1 + n2,
             \A k \in 1..Len(p) : b[from + k] = Sealed(p[k], c)
      PROVE  Contents(r, from, Len(p), c) = p
  <2>1. ASSUME NEW k \in 1..Len(p) PROVE Content(r, from + k, c) = p[k]
    <3>1. from + k \in 1..n0 + n1 + n2
      BY <1>4, <1>7, SeqFacts
    <3>2. r[from + k] = Sealed(p[k], c)
      BY <1>6, <1>7, <3>1
    <3>. QED
      BY <1>3, <3>2, ReadsAs
  <2>2. p = [k \in 1..Len(p) |-> p[k]]
    BY <1>7, SeqFacts
  <2>. QED
    BY <2>1, <2>2 DEF Contents
<1>8. \A k \in 1..Len(ddr) : b[n0 + k] = Sealed(ddr[k], c)
  BY <1>4, <1>5 DEF Held
<1>9. \A k \in 1..Len(boot) : b[(n0 + n1) + k] = Sealed(boot[k], c)
  BY <1>4, <1>5 DEF Held
<1>10. Contents(r, n0, Len(ddr), c) = ddr /\ Contents(r, n0 + n1, Len(boot), c) = boot
  <2>1. n0 + Len(ddr) <= n0 + n1 + n2 /\ (n0 + n1) + Len(boot) <= n0 + n1 + n2 /\ n0 + n1 \in Nat
    BY <1>4
  <2>. QED
    BY <1>3, <1>4, <1>7, <1>8, <1>9, <2>1
<1>11. Content(r, 1, c) = head[1] /\ head[1].kind = "RKNS"
  <2>1. head # <<>> /\ head \in Seq(Elements(head)) /\ head[1].kind = "RKNS"
    BY <1>3 DEF Describes, IsSeq
  <2>2. 1 <= Len(head) /\ Len(head) \in Nat
    BY <2>1
  <2>3. 1 \in 1..n0 /\ 1 \in 1..n0 + n1 + n2
    <3>1. Len(head) <= n0
      BY <1>2, <2>2, PaddedSize
    <3>. QED
      BY <1>4, <2>2, <3>1
  <2>4. r[1] = Sealed(head[1], c)
    BY <1>2, <1>3, <1>6, <2>2, <2>3 DEF ThreeAreas, Held
  <2>. QED
    BY <1>3, <2>1, <2>4, ReadsAs
<1>12. PICK h, images : h = head[1] /\ images = h.images
  OBVIOUS
<1>13. /\ images[1].offset = n0 /\ images[1].count = Len(ddr) /\ images[1].hash = ddr
       /\ images[2].offset = n0 + n1 /\ images[2].count = Len(boot) /\ images[2].hash = boot
  BY <1>2, <1>3, <1>12 DEF Describes
<1>14. ASSUME NEW i \in {1, 2}
       PROVE  /\ images[i].offset + images[i].count <= Len(r)
              /\ images[i].hash = Contents(r, images[i].offset, images[i].count, c)
  <2>1. CASE i = 1
    BY <1>4, <1>6, <1>10, <1>13, <2>1, SMTT(30)
  <2>2. CASE i = 2
    BY <1>4, <1>6, <1>10, <1>13, <2>2, SMTT(30)
  <2>. QED
    BY <2>1, <2>2
<1>15. NewAccepted(r, c)
  BY <1>11, <1>12, <1>14 DEF NewAccepted
<1>. QED
  BY <1>1, <1>15

-----------------------------------------------------------------------------
(* The state of an attempt.                                                *)

LbaInv == TypeOK /\ InStep /\ Clean /\ WriteInv

\* The call that runs, or was the last, writes the block of the image.
Writing ==
  /\ call.op = "write" /\ call.pos = IdbLba /\ call.id > 0
  /\ written[call.id] = image /\ image \in DOMAIN Block /\ call.len = Len(Block[image])

AttemptInv ==
  /\ step \in {"idle", "file", "capability", "build", "write"}
  /\ image \in Images /\ supported \in BOOLEAN
  /\ written \in Seq(Images) /\ Len(written) = call.id
  /\ pc # "idle" => step = "write"
  /\ step \in {"file", "capability", "build"} => call.op = "none"
  /\ step = "write" \/ outcome = "Ok" =>
       /\ Writing
       /\ next <= DiskSectors /\ (result = "Ok" => next = IdbLba + call.len)
  /\ outcome = "Ok" => step = "idle" /\ result = "Ok"

\* The lookups of the file have passed.
Checked(f) ==
  /\ \A name \in {"FlashBoot", "FlashData"} : HasEntry(f, name)
  /\ \A name \in {"FlashBoot", "FlashData", "FlashHead"} :
       \A i \in Visited(f, name) : InFile(File[f], Entries(f)[i])

SuitInv ==
  /\ step \in {"capability", "build"} => Checked(image)
  /\ step = "build" /\ HasEntry(image, "FlashHead") => supported
  /\ \A id \in 1..Len(written) : Suitable(written[id])

\* Byte v is what one of the writes so far has for sector b.
OfWrite(v, b) ==
  \E id \in 1..Len(written) :
    b - IdbLba \in 0..Len(Block[written[id]]) - 1 /\ v = Byte(id, b - IdbLba)

\* A command carries what one of the writes has for its sectors.
Owed(m) ==
  /\ m.op = "write" /\ m.pos \in Nat /\ m.count \in Nat
  /\ \A k \in 0..m.count - 1 : OfWrite(m.data[k], m.pos + k)

OwedInv == IsSeq(pending) /\ \A i \in 1..Len(pending) : Owed(pending[i])
PlacedInv == \A b \in Disk : disk[b] = Spoiled \/ disk[b] = Byte(0, b) \/ OfWrite(disk[b], b)

ProgramInv == AttemptInv /\ SuitInv /\ OwedInv /\ PlacedInv
UpgradeInv == LbaInv /\ ProgramInv

-----------------------------------------------------------------------------
(* The transfers below: every step of the program is one of LbaTransfer,   *)
(* or a read of the capabilities that failed.                              *)

\* What a failed command that is no part of a transfer leaves.
QueryFails == ReadFails /\ UNCHANGED <<call, sector, buf, history>>

LEMMA Sectored ==
  /\ SectorSize = 1 /\ IdbLba \in Nat /\ IdbLba < DiskSectors /\ IdbLba \in 0..LbaLimit - 1
  /\ Disk = 0..DiskSectors - 1 /\ Disk \subseteq Int
  /\ DiskSectors \in Nat /\ LbaLimit \in Nat /\ DiskSectors <= LbaLimit
  /\ \A n \in Int : B(n) = n
BY IdbAssumption, SizesAssumption DEF B, Disk, Bytes

LEMMA Sized ==
  ASSUME NEW f \in DOMAIN Block, BuildError(f) = "Ok"
  PROVE  Len(Block[f]) \in 0..MaxLen
BY BlockIsSeq, BlocksAssumption, Sizes

\* A file of which an entry was looked up, and one that can be built, is in Block.
LEMMA CheckedHasBlock ==
  ASSUME NEW f \in Images, Checked(f)
  PROVE  f \in DOMAIN Block
BY DEF Checked, Block

LEMMA UpgradeIsTransfer ==
  ASSUME AttemptInv, SuitInv, UpgradeNext
  PROVE  [Next]_vars \/ (step = "capability" /\ QueryFails)
<1>1. ASSUME StartWrite, BuildError(image) = "Ok", Call("write", IdbLba, Len(Block[image]))
      PROVE  Next
  <2>1. image \in DOMAIN Block
    BY <1>1, CheckedHasBlock DEF StartWrite, SuitInv, AttemptInv
  <2>2. PICK len : len = Len(Block[image])
    OBVIOUS
  <2>3. len \in 0..MaxLen
    BY <1>1, <2>1, <2>2, Sized
  <2>4. IdbLba \in 0..(LbaLimit - 1) /\ Call("write", IdbLba, len)
    BY <1>1, <2>2, Sectored
  <2>. QED
    BY <2>3, <2>4 DEF Next
<1>2. StartWrite => [Next]_vars
  BY <1>1 DEF StartWrite
<1>3. ReadFile \/ Finish => UNCHANGED vars
  BY DEF ReadFile, Finish
<1>4. ReadCapability => UNCHANGED vars \/ (step = "capability" /\ QueryFails)
  BY DEF ReadCapability, QueryFails
<1>5. Write => Next
  BY DEF Write, Next, Step
<1>6. Start => Next
  BY DEF Start, Next
<1>7. Late => Next
  BY DEF Next
<1>. QED
  BY <1>2, <1>3, <1>4, <1>5, <1>6, <1>7 DEF UpgradeNext, Run

LEMMA LbaInit == UpgradeInit => LbaInv
BY ShapeInit, CleanInit, WriteInit DEF UpgradeInit, LbaInv

LEMMA QueryLba ==
  ASSUME LbaInv, call.op = "none", QueryFails
  PROVE  LbaInv'
<1>1. /\ pc' = "idle" /\ result' \in {"Usb", "CommandFailed"}
      /\ UNCHANGED <<next, moved, disk, call, sector, asked>>
      /\ UNCHANGED <<pending, dirty>> \/ dirty' = TRUE
  BY ReadFailsHow DEF QueryFails, history
<1>2. TypeOK'
  BY <1>1 DEF LbaInv, TypeOK, Results
<1>3. InStep'
  BY <1>1 DEF InStep
<1>4. Clean'
  BY <1>1 DEF LbaInv, Clean
<1>5. IsStorage(disk)'
  BY <1>1 DEF LbaInv, WriteInv, IsStorage, Disk
<1>6. call'.op = "none"
  BY <1>1
<1>7. WriteInv'
  BY <1>1, <1>5, <1>6 DEF WriteInv, ChangeIsPrefix, OkMeansComplete
<1>. QED
  BY <1>2, <1>3, <1>4, <1>7 DEF LbaInv

LEMMA LbaStep ==
  ASSUME LbaInv, AttemptInv, SuitInv, [UpgradeNext]_upgradeVars
  PROVE  LbaInv'
<1>1. [Next]_vars => LbaInv'
  BY ShapeStep, CleanStep, WriteStep DEF LbaInv
<1>2. step = "capability" /\ QueryFails => LbaInv'
  BY QueryLba DEF AttemptInv
<1>3. UNCHANGED upgradeVars => [Next]_vars
  BY DEF upgradeVars
<1>. QED
  BY <1>1, <1>2, <1>3, UpgradeIsTransfer

-----------------------------------------------------------------------------
(* The steps of the program.                                               *)

LEMMA ThenOk == \A a, b : (a ?? b) = "Ok" => a = "Ok" /\ b = "Ok"
BY DEF ??

LEMMA LookUpOk ==
  ASSUME NEW f, NEW name, NEW missing, LookUp(f, name, missing) = "Ok"
  PROVE  /\ \A i \in Visited(f, name) : InFile(File[f], Entries(f)[i])
         /\ missing # "Ok" => HasEntry(f, name)
<1>1. PICK found : found <=> \A i \in Visited(f, name) : InFile(File[f], Entries(f)[i])
  OBVIOUS
<1>2. Check(\A i \in Visited(f, name) : InFile(File[f], Entries(f)[i]), "panic") = "Ok"
      /\ Check(HasEntry(f, name), missing) = "Ok"
  BY ThenOk DEF LookUp
<1>. QED
  BY <1>2 DEF Check

\* A file that passes its checks can be looked up.
LEMMA ChecksPass ==
  ASSUME NEW f, FileChecks(f) = "Ok"
  PROVE  Checked(f)
<1>1. /\ LookUp(f, "FlashBoot", "MissingEntry") = "Ok"
      /\ LookUp(f, "FlashData", "MissingEntry") = "Ok"
      /\ LookUp(f, "FlashHead", "Ok") = "Ok"
  <2>1. PICK a, b, c, d, e :
          /\ a = ParseLoader(File[f])
          /\ b = LookUp(f, "FlashBoot", "MissingEntry")
          /\ c = LookUp(f, "FlashData", "MissingEntry")
          /\ d = LookUp(f, "FlashHead", "Ok")
          /\ e = Check(HeaderHolds(File[f].len, HeaderLen), "panic")
    OBVIOUS
  <2>2. ((((a ?? b) ?? c) ?? d) ?? e) = "Ok"
    BY <2>1 DEF FileChecks
  <2>3. (((a ?? b) ?? c) ?? d) = "Ok"
    BY <2>2, ThenOk
  <2>4. ((a ?? b) ?? c) = "Ok" /\ d = "Ok"
    BY <2>3, ThenOk
  <2>5. (a ?? b) = "Ok" /\ c = "Ok"
    BY <2>4, ThenOk
  <2>6. b = "Ok"
    BY <2>5, ThenOk
  <2>. QED
    BY <2>1, <2>4, <2>5, <2>6
<1>2. HasEntry(f, "FlashBoot") /\ HasEntry(f, "FlashData")
  BY <1>1, LookUpOk
<1>3. \A i \in Visited(f, "FlashBoot") : InFile(File[f], Entries(f)[i])
  BY <1>1, LookUpOk
<1>4. \A i \in Visited(f, "FlashData") : InFile(File[f], Entries(f)[i])
  BY <1>1, LookUpOk
<1>5. \A i \in Visited(f, "FlashHead") : InFile(File[f], Entries(f)[i])
  BY <1>1, LookUpOk
<1>. QED
  BY <1>2, <1>3, <1>4, <1>5 DEF Checked

LEMMA Kept ==
  ASSUME OwedInv, PlacedInv, UNCHANGED <<disk, pending, written>>
  PROVE  OwedInv' /\ PlacedInv'
<1>1. OwedInv'
  BY DEF OwedInv, Owed, OfWrite, IsSeq, Elements
<1>2. PlacedInv'
  BY DEF PlacedInv, OfWrite, Disk
<1>. QED
  BY <1>1, <1>2

LEMMA SuitKept ==
  ASSUME SuitInv, UNCHANGED <<written, supported>>, step' \notin {"capability", "build"}
  PROVE  SuitInv'
BY DEF SuitInv, Suitable

LEMMA ReadFileStep == ASSUME ProgramInv, ReadFile PROVE ProgramInv'
<1>1. /\ UNCHANGED <<vars, image, supported, written>> /\ step = "file"
      /\ \/ step' = "idle" /\ outcome' # "Ok"
         \/ /\ FileChecks(image) = "Ok" /\ outcome' = outcome
            /\ step' = IF HasEntry(image, "FlashHead") THEN "capability" ELSE "build"
  BY DEF ReadFile, End
<1>2. UNCHANGED <<pc, call, next, result, disk, pending>>
  BY <1>1 DEF vars, session
<1>3. AttemptInv'
  BY <1>1, <1>2 DEF ProgramInv, AttemptInv
<1>4. SuitInv'
  <2>1. FileChecks(image) = "Ok" => Checked(image)
    BY ChecksPass
  <2>2. \A id \in 1..Len(written) : Suitable(written[id])
    BY DEF ProgramInv, SuitInv
  <2>3. (\A id \in 1..Len(written) : Suitable(written[id]))'
    BY <1>1, <2>2 DEF Suitable
  <2>4. Checked(image)' <=> Checked(image)
    BY <1>1 DEF Checked
  <2>. QED
    BY <1>1, <2>1, <2>3, <2>4 DEF SuitInv
<1>. QED
  BY <1>1, <1>2, <1>3, <1>4, Kept DEF ProgramInv

LEMMA ReadCapabilityStep == ASSUME ProgramInv, ReadCapability PROVE ProgramInv'
<1>1. /\ UNCHANGED <<call, disk, image, supported, written>> /\ step = "capability"
      /\ \/ /\ UNCHANGED vars
            /\ \/ supported /\ step' = "build" /\ outcome' = outcome
               \/ step' = "idle" /\ outcome' # "Ok"
         \/ step' = "idle" /\ outcome' # "Ok" /\ ReadFails
  <2>1. /\ step = "capability" /\ UNCHANGED <<image, supported, written>>
        /\ \/ supported /\ step' = "build" /\ UNCHANGED outcome /\ UNCHANGED vars
           \/ End("FlashHeadNotSupported") /\ UNCHANGED vars
           \/ ReadFails /\ End("Usb") /\ UNCHANGED call
    BY Zenon DEF ReadCapability
  <2>2. ReadFails => UNCHANGED disk
    BY ReadFailsHow
  <2>. QED
    BY <2>1, <2>2 DEF End, vars
<1>2. \/ UNCHANGED <<pc, pending>>
      \/ pc' = "idle" /\ (pending' = pending \/ pending' = pending \o <<>>)
  BY <1>1, ReadFailsHow DEF vars, session
<1>3. pending' = pending
  <2>1. pending \o <<>> = pending
    <3>1. pending \in Seq(Elements(pending))
      BY DEF ProgramInv, OwedInv, IsSeq
    <3>. QED
      BY <3>1
  <2>. QED
    BY <1>2, <2>1
<1>4. AttemptInv'
  BY <1>1, <1>2 DEF ProgramInv, AttemptInv
<1>5. SuitInv'
  <2>1. (\A id \in 1..Len(written) : Suitable(written[id]))'
    BY <1>1 DEF Suitable, ProgramInv, SuitInv
  <2>2. Checked(image)'
    BY <1>1 DEF Checked, ProgramInv, SuitInv
  <2>. QED
    BY <1>1, <2>1, <2>2 DEF SuitInv
<1>. QED
  BY <1>1, <1>3, <1>4, <1>5, Kept DEF ProgramInv

LEMMA StartStep == ASSUME ProgramInv, Start PROVE ProgramInv'
<1>1. /\ step' = "file" /\ outcome' = "none" /\ image' \in Images
      /\ UNCHANGED <<supported, written, disk>>
      /\ pc' = "idle" /\ call' = [NoCall EXCEPT !.id = call.id]
      /\ pending' = <<>> \/ pending' = pending
  BY Resumed DEF Start, Open
<1>2. call'.id = call.id /\ call'.op = "none"
  BY <1>1 DEF NoCall
<1>3. AttemptInv'
  BY <1>1, <1>2 DEF ProgramInv, AttemptInv
<1>4. SuitInv'
  BY <1>1, SuitKept DEF ProgramInv
<1>5. OwedInv'
  <2>1. CASE pending' = <<>>
    <3>1. IsSeq(<<>>) /\ Len(<<>>) = 0
      BY DEF IsSeq
    <3>2. IsSeq(pending)' /\ Len(pending') = 0
      BY <2>1, <3>1 DEF IsSeq, Elements
    <3>. QED
      BY <3>2 DEF OwedInv
  <2>2. CASE pending' = pending
    BY <1>1, <2>2, Kept DEF ProgramInv
  <2>. QED
    BY <1>1, <2>1, <2>2
<1>6. PlacedInv'
  BY <1>1 DEF ProgramInv, PlacedInv, OfWrite, Disk
<1>. QED
  BY <1>3, <1>4, <1>5, <1>6 DEF ProgramInv

LEMMA FinishStep == ASSUME ProgramInv, Finish PROVE ProgramInv'
<1>1. /\ step = "write" /\ step' = "idle" /\ outcome' = result /\ pc = "idle"
      /\ UNCHANGED <<pc, call, next, result, disk, pending, image, supported, written>>
  BY DEF Finish, End, vars, session
<1>2. Writing' <=> Writing
  BY <1>1 DEF Writing
<1>3. AttemptInv'
  BY <1>1, <1>2 DEF ProgramInv, AttemptInv
<1>4. SuitInv'
  BY <1>1, SuitKept DEF ProgramInv
<1>. QED
  BY <1>1, <1>3, <1>4, Kept DEF ProgramInv

\* What a write has for a sector stays, whatever writes come after it.
LEMMA WriteAdded ==
  ASSUME written \in Seq(Images), NEW f \in Images, written' = Append(written, f)
  PROVE  /\ Len(written') = Len(written) + 1 /\ Len(written) \in Nat
         /\ written'[Len(written) + 1] = f /\ written' \in Seq(Images)
         /\ \A id \in 1..Len(written) : written'[id] = written[id]
         /\ \A v, b : OfWrite(v, b) => OfWrite(v, b)'
<1>1. /\ Len(written') = Len(written) + 1 /\ Len(written) \in Nat
      /\ written'[Len(written) + 1] = f /\ written' \in Seq(Images)
      /\ \A id \in 1..Len(written) : written'[id] = written[id]
  OBVIOUS
<1>2. ASSUME NEW v, NEW b, OfWrite(v, b) PROVE OfWrite(v, b)'
  <2>1. PICK id \in 1..Len(written) :
          b - IdbLba \in 0..Len(Block[written[id]]) - 1 /\ v = Byte(id, b - IdbLba)
    BY <1>2 DEF OfWrite
  <2>2. id \in 1..Len(written') /\ written'[id] = written[id]
    BY <1>1, <2>1
  <2>. QED
    BY <2>1, <2>2 DEF OfWrite
<1>. QED
  BY <1>1, <1>2

LEMMA StartWriteStep == ASSUME TypeOK, ProgramInv, StartWrite PROVE ProgramInv'
<1>1. step = "build" /\ UNCHANGED <<image, supported>> /\ image \in Images
  BY DEF StartWrite, ProgramInv, AttemptInv
<1>2. CASE step' = "idle" /\ outcome' # "Ok" /\ UNCHANGED <<vars, written>>
  <2>1. UNCHANGED <<pc, call, next, result, disk, pending>>
    BY <1>2 DEF vars, session
  <2>2. AttemptInv'
    BY <1>1, <1>2, <2>1 DEF ProgramInv, AttemptInv
  <2>3. SuitInv'
    BY <1>1, <1>2, SuitKept DEF ProgramInv
  <2>. QED
    BY <1>2, <2>1, <2>2, <2>3, Kept DEF ProgramInv
<1>3. CASE /\ BuildError(image) = "Ok" /\ Call("write", IdbLba, Len(Block[image]))
           /\ written' = Append(written, image) /\ step' = "write" /\ outcome' = outcome
  <2>1. image \in DOMAIN Block
    BY <1>1, CheckedHasBlock DEF ProgramInv, SuitInv
  <2>2. PICK len : len = Len(Block[image])
    OBVIOUS
  <2>3. /\ call' = [id |-> call.id + 1, op |-> "write", pos |-> IdbLba, len |-> len]
        /\ next' = IdbLba /\ (result' = "Ok" => len = 0) /\ UNCHANGED <<disk, pending>>
    BY <1>3, <2>2, Resumed DEF Call, Return
  <2>4. len \in Nat /\ call.id \in Nat
    BY <2>1, <2>2, BlockIsSeq, Sizes DEF TypeOK
  <2>5. /\ call'.id = call.id + 1 /\ call'.op = "write" /\ call'.pos = IdbLba
        /\ call'.len = len
    BY <2>3
  <2>6. /\ written \in Seq(Images) /\ Len(written) = call.id
        /\ Len(written') = Len(written) + 1 /\ Len(written) \in Nat
        /\ written'[Len(written) + 1] = image /\ written' \in Seq(Images)
        /\ \A id \in 1..Len(written) : written'[id] = written[id]
        /\ \A v, b : OfWrite(v, b) => OfWrite(v, b)'
    BY <1>1, <1>3, WriteAdded DEF ProgramInv, AttemptInv
  <2>7. Writing'
    BY <1>1, <2>1, <2>2, <2>4, <2>5, <2>6 DEF Writing
  <2>8. next' <= DiskSectors /\ (result' = "Ok" => next' = IdbLba + call'.len)
    BY <2>3, <2>4, <2>5, Sectored
  <2>9. AttemptInv'
    BY <1>1, <1>3, <2>5, <2>6, <2>7, <2>8 DEF ProgramInv, AttemptInv
  <2>10. SuitInv'
    <3>1. Suitable(image)
      BY <1>1 DEF ProgramInv, SuitInv, Suitable, Checked
    <3>2. ASSUME NEW id \in 1..Len(written') PROVE Suitable(written'[id])
      <4>1. id \in 1..Len(written) \/ id = Len(written) + 1
        BY <2>6
      <4>2. CASE id \in 1..Len(written)
        BY <2>6, <4>2 DEF ProgramInv, SuitInv
      <4>3. CASE id = Len(written) + 1
        BY <2>6, <3>1, <4>3
      <4>. QED
        BY <4>1, <4>2, <4>3
    <3>3. (\A id \in 1..Len(written) : Suitable(written[id]))'
      BY <1>1, <3>2 DEF Suitable
    <3>. QED
      BY <1>3, <3>3 DEF SuitInv
  <2>11. OwedInv'
    <3>1. \A m : Owed(m) => Owed(m)'
      BY <2>6 DEF Owed
    <3>2. IsSeq(pending)'
      BY <2>3 DEF ProgramInv, OwedInv, IsSeq, Elements
    <3>. QED
      BY <2>3, <3>1, <3>2 DEF ProgramInv, OwedInv
  <2>12. PlacedInv'
    BY <2>3, <2>6 DEF ProgramInv, PlacedInv, Disk
  <2>. QED
    BY <2>9, <2>10, <2>11, <2>12 DEF ProgramInv
<1>. QED
  BY <1>1, <1>2, <1>3 DEF StartWrite, End

\* A command puts on the storage what it is owed.
LEMMA OwedPlaced ==
  ASSUME DOMAIN disk = Disk, PlacedInv, NEW m, Owed(m), NEW k \in 0..m.count,
         disk' = Applied(disk, m, k), UNCHANGED written
  PROVE  PlacedInv'
<1>1. /\ m.pos \in Nat /\ m.count \in Nat /\ \A j \in 0..m.count - 1 : OfWrite(m.data[j], m.pos + j)
  BY DEF Owed
<1>2. disk' = Overlay(disk, m.pos, m.data, k) /\ k \in Nat
  <2>1. m.pos * SectorSize = m.pos /\ k * SectorSize = k /\ k \in Nat
    BY <1>1, Sectored
  <2>. QED
    BY <2>1 DEF Applied
<1>3. ASSUME NEW b \in Disk
      PROVE  disk'[b] = Spoiled \/ disk'[b] = Byte(0, b) \/ OfWrite(disk'[b], b)
  <2>1. disk'[b] = IF m.pos <= b /\ b < m.pos + k THEN m.data[b - m.pos] ELSE disk[b]
    BY <1>2 DEF Overlay
  <2>2. CASE m.pos <= b /\ b < m.pos + k
    <3>1. b - m.pos \in 0..m.count - 1 /\ m.pos + (b - m.pos) = b
      BY <1>1, <1>2, <2>2, Sectored
    <3>. QED
      BY <1>1, <2>1, <2>2, <3>1
  <2>3. CASE ~(m.pos <= b /\ b < m.pos + k)
    BY <2>1, <2>3 DEF PlacedInv
  <2>. QED
    BY <2>2, <2>3
<1>4. (\A b \in Disk : disk[b] = Spoiled \/ disk[b] = Byte(0, b) \/ OfWrite(disk[b], b))'
  BY <1>3 DEF OfWrite, Disk
<1>. QED
  BY <1>4 DEF PlacedInv

\* The command of a chunk carries the sectors of the block that are next.
LEMMA ChunkOwed ==
  ASSUME LbaInv, ProgramInv, pc = "chunk", NEW n, n = ChunkSectors,
         NEW m, m = Cmd("write", next, Slice(Data(call), moved, n * SectorSize), n)
  PROVE  /\ Owed(m) /\ m.count = n /\ n \in Nat /\ next + n = IdbLba + (Behind + n)
         /\ AfterChunks(call, moved + n * SectorSize) = "return" => next + n = IdbLba + call.len
<1>1. Writing /\ Len(written) = call.id
  BY DEF ProgramInv, AttemptInv
<1>2. /\ n \in Chunks /\ moved + n * SectorSize = B(Behind + n) /\ moved = B(Behind)
      /\ AfterChunks(call, B(Behind + n)) =
           IF Behind + n < WholeOf(call) THEN "chunk"
           ELSE IF TailLen(call) # 0 THEN "tail" ELSE "return"
  BY ChunkIsWithin DEF LbaInv
<1>3. /\ call.len \in Nat /\ call.pos = IdbLba /\ call.op = "write" /\ call.id \in Nat /\ call.id > 0
      /\ next \in Nat /\ Behind \in Int /\ next = IdbLba + Behind
  BY <1>1, Typed, Sizes DEF LbaInv, Writing, TypeOK
<1>4. WholeOf(call) = call.len /\ TailLen(call) = 0
  <2>1. /\ WholeOf(call) \in Nat /\ TailLen(call) \in 0..SectorSize - 1
        /\ call.len = B(WholeOf(call)) + TailLen(call)
    BY <1>3, CallSizes, Sectored
  <2>2. B(WholeOf(call)) = WholeOf(call)
    BY <2>1, Sectored
  <2>3. TailLen(call) = 0
    BY <2>1, Sectored
  <2>. QED
    BY <1>3, <2>1, <2>2, <2>3
<1>5. Behind \in Nat
  BY <1>3 DEF LbaInv, InStep
<1>6. n \in Nat /\ n >= 1 /\ Behind + n <= call.len
  BY <1>2, <1>3, <1>4 DEF Chunks
<1>7. moved = Behind /\ B(Behind + n) = Behind + n /\ n * SectorSize = n
  BY <1>2, <1>5, <1>6, Sectored
<1>8. m.op = "write" /\ m.pos = next /\ m.count = n /\ m.data = Slice(Data(call), Behind, n)
  BY <1>7 DEF Cmd
<1>9. ASSUME NEW k \in 0..n - 1 PROVE OfWrite(m.data[k], next + k)
  <2>1. m.data[k] = Data(call)[Behind + k]
    BY <1>6, <1>8 DEF Slice, Bytes
  <2>2. Behind + k \in 0..call.len - 1
    BY <1>3, <1>5, <1>6
  <2>3. m.data[k] = Byte(call.id, Behind + k)
    BY <2>1, <2>2 DEF Data, CallData, Bytes
  <2>4. (next + k) - IdbLba = Behind + k
    BY <1>3, <1>5, <1>6, Sectored
  <2>5. call.id \in 1..Len(written) /\ written[call.id] = image /\ call.len = Len(Block[image])
    BY <1>1, <1>3 DEF Writing
  <2>. QED
    BY <2>2, <2>3, <2>4, <2>5 DEF OfWrite
<1>10. Owed(m)
  BY <1>3, <1>6, <1>8, <1>9 DEF Owed
<1>11. AfterChunks(call, moved + n * SectorSize) = "return" => Behind + n = call.len
  BY <1>2, <1>4, <1>6, <1>3, <1>5
<1>. QED
  BY <1>3, <1>5, <1>6, <1>8, <1>10, <1>11, Sectored

\* Commands that were owed before one is added to the pipes still are.
LEMMA OwedAdded ==
  ASSUME OwedInv, NEW m, Owed(m), UNCHANGED written,
         pending' = pending \/ pending' = pending \o <<m>>
  PROVE  OwedInv'
<1>1. \A x : Owed(x)' <=> Owed(x)
  BY DEF Owed, OfWrite
<1>2. CASE pending' = pending
  BY <1>1, <1>2 DEF OwedInv, IsSeq, Elements
<1>3. CASE pending' = pending \o <<m>>
  <2>1. PICK one, all : one = <<m>> /\ all = pending \o one
    OBVIOUS
  <2>2. IsSeq(one) /\ Len(one) = 1 /\ one[1] = m
    BY <2>1, OneTuple
  <2>3. IsJoin(all, pending, one) /\ Len(pending) \in Nat
    BY <2>1, <2>2, Joined, SeqFacts DEF OwedInv
  <2>4. IsSeq(all) /\ Len(all) = Len(pending) + 1
    BY <2>2, <2>3 DEF IsJoin
  <2>5. ASSUME NEW i \in 1..Len(all) PROVE Owed(all[i])
    <3>1. CASE i \in 1..Len(pending)
      BY <2>3, <3>1 DEF IsJoin, OwedInv
    <3>2. CASE i = Len(pending) + 1
      <4>1. 1 \in 1..Len(one)
        BY <2>2
      <4>. QED
        BY <2>2, <2>3, <3>2, <4>1 DEF IsJoin
    <3>. QED
      BY <2>3, <2>4, <3>1, <3>2
  <2>6. IsSeq(pending)'
    BY <1>3, <2>1, <2>4 DEF IsSeq, Elements
  <2>. QED
    BY <1>1, <1>3, <2>1, <2>5, <2>6 DEF OwedInv
<1>. QED
  BY <1>2, <1>3

LEMMA WriteOn == ASSUME LbaInv, ProgramInv, Write PROVE ProgramInv'
<1>1. PICK n, m, stage :
        /\ n = ChunkSectors /\ m = Cmd("write", next, Slice(Data(call), moved, n * SectorSize), n)
        /\ stage = AfterChunks(call, moved + n * SectorSize)
  OBVIOUS
<1>2. /\ step = "write" /\ pc = "chunk" /\ UNCHANGED <<call, step, image, supported, written, outcome>>
      /\ \/ /\ Fits(next, n) /\ disk' = Applied(disk, m, n) /\ UNCHANGED pending
            /\ Advance(n, moved + n * SectorSize, stage)
         \/ WriteFails(m)
  BY <1>1 DEF Write, WriteChunk, Succeeds, session, attempt
<1>3. /\ Owed(m) /\ m.count = n /\ n \in Nat
      /\ stage = "return" => next + n = IdbLba + call.len
  BY <1>1, <1>2, ChunkOwed
<1>4. /\ pending' = pending \/ pending' = pending \o <<m>>
      /\ disk' = disk \/ \E k \in 0..m.count : disk' = Applied(disk, m, k)
      /\ \/ next' = next + n /\ Fits(next, n) /\ (result' = "Ok" => stage = "return" \/ result = "Ok")
         \/ next' = next /\ result' # "Ok"
  <2>1. CASE /\ Fits(next, n) /\ disk' = Applied(disk, m, n) /\ UNCHANGED pending
             /\ Advance(n, moved + n * SectorSize, stage)
    <3>1. n \in 0..m.count
      BY <1>3
    <3>2. \/ next' = next + n /\ (result' = "Ok" => stage = "return" \/ result = "Ok")
          \/ next' = next /\ result' # "Ok"
      BY <2>1 DEF Advance, Goto, Return
    <3>. QED
      BY <2>1, <3>1, <3>2
  <2>2. CASE WriteFails(m)
    <3>1. /\ result' \in {"Usb", "CommandFailed"} /\ UNCHANGED next
          /\ \/ UNCHANGED <<disk, pending>>
             \/ UNCHANGED pending /\ \E k \in 0..m.count : disk' = Applied(disk, m, k)
             \/ disk' = disk /\ pending' = pending \o <<m>>
      BY <2>2, WriteFailsHow
    <3>. QED
      BY <3>1
  <2>. QED
    BY <1>2, <2>1, <2>2
<1>5. AttemptInv'
  <2>1. result # "Ok"
    BY <1>2 DEF LbaInv, InStep
  <2>2. next' <= DiskSectors /\ (result' = "Ok" => next' = IdbLba + call.len)
    BY <1>2, <1>3, <1>4, <2>1 DEF Fits, ProgramInv, AttemptInv
  <2>3. Writing'
    BY <1>2 DEF Writing, ProgramInv, AttemptInv
  <2>4. outcome # "Ok"
    BY <1>2 DEF ProgramInv, AttemptInv
  <2>. QED
    BY <1>2, <2>2, <2>3, <2>4 DEF ProgramInv, AttemptInv
<1>6. SuitInv'
  BY <1>2, SuitKept DEF ProgramInv
<1>7. OwedInv'
  BY <1>2, <1>3, <1>4, OwedAdded DEF ProgramInv
<1>8. PlacedInv'
  <2>1. CASE disk' = disk
    BY <1>2, <2>1 DEF ProgramInv, PlacedInv, OfWrite, Disk
  <2>2. CASE \E k \in 0..m.count : disk' = Applied(disk, m, k)
    BY <1>2, <1>3, <2>2, OwedPlaced, Typed DEF LbaInv, ProgramInv
  <2>. QED
    BY <1>4, <2>1, <2>2
<1>. QED
  BY <1>5, <1>6, <1>7, <1>8 DEF ProgramInv

LEMMA LateStep == ASSUME LbaInv, ProgramInv, Late, UNCHANGED attempt PROVE ProgramInv'
<1>1. PICK m, k : /\ m = Head(pending) /\ k \in 0..m.count
                  /\ \/ disk' = Applied(disk, m, k)
                     \/ disk' = Overlay(disk, m.pos * SectorSize,
                                        Fill(Spoiled, k * SectorSize), k * SectorSize)
  BY DEF Late
<1>2. /\ pending # <<>> /\ pending' = Tail(pending)
      /\ UNCHANGED <<pc, call, next, result, step, image, supported, written, outcome>>
  BY DEF Late, attempt
<1>3. /\ pending \in Seq(Elements(pending)) /\ Len(pending) \in Nat /\ Len(pending) >= 1
      /\ \A i \in 1..Len(pending) : Owed(pending[i])
  BY <1>2 DEF ProgramInv, OwedInv, IsSeq
<1>4. Owed(m)
  BY <1>1, <1>3
<1>5. AttemptInv'
  <2>1. Writing' <=> Writing
    BY <1>2 DEF Writing
  <2>. QED
    BY <1>2, <2>1 DEF ProgramInv, AttemptInv
<1>6. SuitInv'
  BY <1>2 DEF ProgramInv, SuitInv, Suitable, Checked
<1>7. OwedInv'
  <2>1. /\ Tail(pending) \in Seq(Elements(pending)) /\ Len(Tail(pending)) = Len(pending) - 1
        /\ \A i \in 1..Len(pending) - 1 : Tail(pending)[i] = pending[i + 1]
    BY <1>2, <1>3
  <2>2. IsSeq(Tail(pending))
    BY <2>1, SeqOfElements DEF IsSeq
  <2>3. ASSUME NEW i \in 1..Len(Tail(pending)) PROVE Owed(Tail(pending)[i])
    <3>1. i + 1 \in 1..Len(pending) /\ i \in 1..Len(pending) - 1
      BY <1>3, <2>1
    <3>. QED
      BY <1>3, <2>1, <3>1
  <2>4. \A x : Owed(x)' <=> Owed(x)
    BY <1>2 DEF Owed, OfWrite
  <2>5. IsSeq(pending)'
    BY <1>2, <2>2 DEF IsSeq, Elements
  <2>. QED
    BY <1>2, <2>3, <2>4, <2>5 DEF OwedInv
<1>8. PlacedInv'
  <2>1. DOMAIN disk = Disk
    BY Typed DEF LbaInv
  <2>2. CASE disk' = Applied(disk, m, k)
    BY <1>1, <1>2, <1>4, <2>1, <2>2, OwedPlaced DEF ProgramInv
  <2>3. CASE disk' = Overlay(disk, m.pos * SectorSize, Fill(Spoiled, k * SectorSize), k * SectorSize)
    <3>1. ASSUME NEW b \in Disk PROVE disk'[b] = Spoiled \/ disk'[b] = disk[b]
      <4>1. m.pos * SectorSize = m.pos /\ k * SectorSize = k /\ m.pos \in Nat /\ k \in Nat /\ b \in Int
        BY <1>1, <1>4, Sectored DEF Owed
      <4>2. disk' = Overlay(disk, m.pos, Fill(Spoiled, k), k)
        BY <2>3, <4>1
      <4>3. disk'[b] = IF m.pos <= b /\ b < m.pos + k THEN Fill(Spoiled, k)[b - m.pos] ELSE disk[b]
        BY <2>1, <4>2 DEF Overlay
      <4>. QED
        BY <4>1, <4>3 DEF Fill, Bytes
    <3>2. \A b \in Disk : disk'[b] = Spoiled \/ disk'[b] = Byte(0, b) \/ OfWrite(disk'[b], b)
      BY <3>1 DEF ProgramInv, PlacedInv
    <3>3. (\A b \in Disk : disk[b] = Spoiled \/ disk[b] = Byte(0, b) \/ OfWrite(disk[b], b))'
      BY <1>2, <3>2 DEF OfWrite, Disk
    <3>. QED
      BY <3>3 DEF PlacedInv
  <2>. QED
    BY <1>1, <2>2, <2>3
<1>. QED
  BY <1>5, <1>6, <1>7, <1>8 DEF ProgramInv

LEMMA UpgradeStart == UpgradeInit => UpgradeInv
<1> SUFFICES ASSUME UpgradeInit PROVE ProgramInv
  BY LbaInit DEF UpgradeInv
<1>1. /\ pc = "idle" /\ call = NoCall /\ disk = Initial /\ pending = <<>>
      /\ step = "idle" /\ image = Shipped /\ outcome = "none" /\ supported \in BOOLEAN
      /\ written = <<>> /\ call.id = 0
  BY DEF UpgradeInit, Init, NoCall
<1>2. written \in Seq(Images) /\ Len(written) = 0 /\ IsSeq(pending) /\ Len(pending) = 0
  BY <1>1 DEF IsSeq
<1>3. AttemptInv
  BY <1>1, <1>2, ImagesAssumption DEF AttemptInv
<1>4. SuitInv
  BY <1>1, <1>2 DEF SuitInv
<1>5. OwedInv
  BY <1>2 DEF OwedInv
<1>6. PlacedInv
  BY <1>1 DEF PlacedInv, Initial, InitialStorage, CallData, Disk
<1>. QED
  BY <1>3, <1>4, <1>5, <1>6 DEF ProgramInv

LEMMA UpgradeGoesOn == ASSUME UpgradeInv, [UpgradeNext]_upgradeVars PROVE UpgradeInv'
<1>1. LbaInv /\ ProgramInv
  BY DEF UpgradeInv
<1>2. LbaInv'
  BY <1>1, LbaStep DEF ProgramInv
<1>3. CASE UNCHANGED upgradeVars
  <2>1. UNCHANGED <<pc, call, next, result, disk, pending, step, image, supported, written, outcome>>
    BY <1>3 DEF upgradeVars, vars, session, attempt
  <2>2. AttemptInv' /\ SuitInv'
    BY <1>1, <2>1 DEF ProgramInv, AttemptInv, SuitInv, Writing, Suitable, Checked
  <2>3. OwedInv' /\ PlacedInv'
    BY <1>1, <2>1, Kept DEF ProgramInv
  <2>. QED
    BY <1>2, <2>2, <2>3 DEF ProgramInv, UpgradeInv
<1>4. UpgradeNext => ProgramInv'
  BY <1>1, ReadFileStep, ReadCapabilityStep, StartWriteStep, WriteOn, FinishStep, StartStep, LateStep
  DEF UpgradeNext, Run, LbaInv
<1>. QED
  BY <1>2, <1>3, <1>4 DEF UpgradeInv

(* The types of upgrade-loader: among others, that the number of a write   *)
(* is that of the image it writes, and that a write_lba runs only inside   *)
(* the step that called it, with the length of that image's block.         *)
THEOREM UpgradeTypes == UpgradeSpec => []UpgradeTypeOK
<1>1. UpgradeInv => UpgradeTypeOK
  BY DEF UpgradeInv, LbaInv, ProgramInv, AttemptInv, UpgradeTypeOK, Writing
<1>. QED
  BY <1>1, UpgradeStart, UpgradeGoesOn, PTL DEF UpgradeSpec

(* Nothing of a file that fails a check of upgrade-loader, or that has a   *)
(* FlashHead the device does not support, is ever on the storage.          *)
THEOREM SuitableOnly == UpgradeSpec => []OnlySuitable
<1>1. ASSUME UpgradeInv, NEW b \in Disk, disk[b].from > 0
      PROVE  Suitable(written[disk[b].from])
  <2>1. OfWrite(disk[b], b)
    <3>1. disk[b] = Spoiled \/ disk[b] = Byte(0, b) \/ OfWrite(disk[b], b)
      BY <1>1 DEF UpgradeInv, ProgramInv, PlacedInv
    <3>2. Spoiled.from = -3 /\ Byte(0, b).from = 0
      BY DEF Spoiled, Byte
    <3>3. ~(-3 > 0) /\ ~(0 > 0)
      OBVIOUS
    <3>. QED
      BY <1>1, <3>1, <3>2, <3>3
  <2>2. disk[b].from \in 1..Len(written)
    BY <2>1 DEF OfWrite, Byte
  <2>. QED
    BY <1>1, <2>2 DEF UpgradeInv, ProgramInv, SuitInv
<1>2. UpgradeInv => OnlySuitable
  BY <1>1 DEF OnlySuitable
<1>. QED
  BY <1>2, UpgradeStart, UpgradeGoesOn, PTL DEF UpgradeSpec

-----------------------------------------------------------------------------
(* What the board finds where it starts from.                              *)

\* The images a sector can come from.
Sources == {Shipped} \cup {written[i] : i \in DOMAIN written}

LEMMA WrittenHasBlock ==
  ASSUME UpgradeInv, NEW id \in 1..Len(written)
  PROVE  written[id] \in DOMAIN Block
<1>1. Suitable(written[id]) /\ written[id] \in Images
  BY DEF UpgradeInv, ProgramInv, SuitInv, AttemptInv
<1>. QED
  BY <1>1 DEF Suitable, Block

LEMMA SourcesAreBlocks == UpgradeInv => Sources \in SUBSET DOMAIN Block
<1> SUFFICES ASSUME UpgradeInv PROVE Sources \subseteq DOMAIN Block
  OBVIOUS
<1>1. DOMAIN written = 1..Len(written)
  BY DEF UpgradeInv, ProgramInv, AttemptInv
<1>2. Shipped \in DOMAIN Block
  BY BlocksAssumption
<1>. QED
  BY <1>1, <1>2, WrittenHasBlock DEF Sources

LEMMA RegionShape ==
  /\ IsSeq(Region) /\ Len(Region) = DiskSectors - IdbLba
  /\ \A k \in 1..Len(Region) : IdbLba + k - 1 \in Disk /\ Region[k] = SectorAt(IdbLba + k - 1)
<1>1. PICK n : n = DiskSectors - IdbLba
  OBVIOUS
<1>2. n \in Nat /\ Region = [k \in 1..n |-> SectorAt(IdbLba + k - 1)]
  BY <1>1, Sectored DEF Region
<1>3. Region = [k \in 1..n |-> Region[k]]
  BY <1>2
<1>4. IsSeq(Region) /\ Len(Region) = n
  BY <1>2, <1>3, IsSeqIntro
<1>5. \A k \in 1..n : IdbLba + k - 1 \in Disk
  BY <1>1, <1>2, Sectored
<1>. QED
  BY <1>1, <1>2, <1>4, <1>5

\* A sector that a write has put there is read as that sector of its block.
LEMMA SectorOfWrite ==
  ASSUME UpgradeInv, NEW b \in Disk, NEW id \in 1..Len(written), NEW f, f = written[id],
         b - IdbLba \in 0..Len(Block[f]) - 1, disk[b] = Byte(id, b - IdbLba)
  PROVE  /\ b - IdbLba + 1 \in DOMAIN Block[f] /\ f \in DOMAIN Block
         /\ SectorAt(b) = Block[f][b - IdbLba + 1]
<1>1. f \in DOMAIN Block
  BY WrittenHasBlock
<1>2. DOMAIN Block[f] = 1..Len(Block[f]) /\ Len(Block[f]) \in Nat
  BY <1>1, BlockIsSeq
<1>3. b - IdbLba + 1 \in DOMAIN Block[f]
  BY <1>2, Sectored, SMTT(30)
<1>4. disk[b].from = id /\ disk[b].at = b - IdbLba /\ id # 0 /\ disk[b] # Spoiled
  <2>1. Spoiled.from = -3 /\ Byte(id, b - IdbLba).from = id /\ Byte(id, b - IdbLba).at = b - IdbLba
    BY DEF Spoiled, Byte
  <2>2. id # -3 /\ id # 0
    OBVIOUS
  <2>. QED
    BY <2>1, <2>2
<1>. QED
  BY <1>1, <1>3, <1>4 DEF SectorAt

LEMMA RegionIsOf ==
  ASSUME UpgradeInv, NEW k \in 1..Len(Region)
  PROVE  IsOf(Region, k, Sources)
<1>1. PICK b : b = IdbLba + k - 1
  OBVIOUS
<1>2. b \in Disk /\ Region[k] = SectorAt(b) /\ k = b - IdbLba + 1 /\ k \in Nat
  BY <1>1, RegionShape, Sectored
<1>3. disk[b] = Spoiled \/ disk[b] = Byte(0, b) \/ OfWrite(disk[b], b)
  BY <1>2 DEF UpgradeInv, ProgramInv, PlacedInv
<1>4. CASE disk[b] = Spoiled
  BY <1>2, <1>4 DEF SectorAt, Other, IsOf
<1>5. CASE disk[b] = Byte(0, b)
  <2>1. disk[b].from = 0 /\ disk[b].at = b /\ disk[b] # Spoiled
    <3>1. Spoiled.from = -3 /\ Byte(0, b).from = 0 /\ Byte(0, b).at = b /\ 0 # -3
      BY DEF Spoiled, Byte
    <3>. QED
      BY <1>5, <3>1
  <2>2. SectorAt(b) = IF k \in DOMAIN Block[Shipped] THEN Block[Shipped][k] ELSE Other
    BY <1>2, <2>1 DEF SectorAt, Other
  <2>3. Shipped \in Sources
    BY DEF Sources
  <2>. QED
    BY <1>2, <2>2, <2>3 DEF IsOf
<1>6. CASE OfWrite(disk[b], b)
  <2>1. PICK id \in 1..Len(written) :
          b - IdbLba \in 0..Len(Block[written[id]]) - 1 /\ disk[b] = Byte(id, b - IdbLba)
    BY <1>6 DEF OfWrite
  <2>2. /\ k \in DOMAIN Block[written[id]] /\ SectorAt(b) = Block[written[id]][k]
    BY <1>2, <2>1, SectorOfWrite
  <2>3. written[id] \in Sources
    BY <2>1 DEF Sources, UpgradeInv, ProgramInv, AttemptInv
  <2>. QED
    BY <1>2, <2>2, <2>3 DEF IsOf
<1>. QED
  BY <1>3, <1>4, <1>5, <1>6

(* At no moment, whatever upgrade-loader was interrupted by and however    *)
(* often, does the board start the stages of two files: what it accepts is *)
(* one of the files written, or the shipped one.                           *)
THEOREM NeverMixes == UpgradeSpec => []NeverMixed
<1>1. ASSUME UpgradeInv, NEW stages \in Bootable(Region)
      PROVE  \E f \in Sources : IsImage(stages, f)
  <2>1. Sources \in SUBSET DOMAIN Block
    BY <1>1, SourcesAreBlocks
  <2>2. IsSeq(Region) /\ Len(Region) \in Nat /\ Len(Region) >= 1
    BY RegionShape, Sectored
  <2>3. IsOf(Region, 1, Sources)
    BY <1>1, <2>2, RegionIsOf
  <2>4. Len(Region) >= 3 => IsOf(Region, 3, Sources)
    BY <1>1, <2>2, RegionIsOf
  <2>5. PICK c \in BOOLEAN :
          \/ stages = OldStages(Region, c) /\ OldAccepted(Region, c)
          \/ stages = NewStages(Region, c) /\ NewAccepted(Region, c)
    BY <1>1, Zenon DEF Bootable
  <2>6. CASE stages = OldStages(Region, c) /\ OldAccepted(Region, c)
    BY <2>1, <2>2, <2>3, <2>4, <2>6, OldBoots
  <2>7. CASE stages = NewStages(Region, c) /\ NewAccepted(Region, c)
    BY <2>1, <2>2, <2>3, <2>7, NewBoots
  <2>. QED
    BY <2>5, <2>6, <2>7
<1>2. UpgradeInv => NeverMixed
  BY <1>1 DEF NeverMixed, Sources
<1>. QED
  BY <1>2, UpgradeStart, UpgradeGoesOn, PTL DEF UpgradeSpec

\* After an Ok the region begins with the block of the file.
LEMMA OkBegins ==
  ASSUME UpgradeInv, outcome = "Ok"
  PROVE  /\ image \in DOMAIN Block /\ Len(Block[image]) >= 1
         /\ Begins(Region, Block[image])
<1>1. /\ Writing /\ result = "Ok" /\ next = IdbLba + call.len /\ next <= DiskSectors
      /\ Len(written) = call.id
  BY DEF UpgradeInv, ProgramInv, AttemptInv
<1>2. PICK len, id : len = call.len /\ id = call.id
  OBVIOUS
<1>3. /\ image \in DOMAIN Block /\ len = Len(Block[image]) /\ id \in 1..Len(written)
      /\ written[id] = image /\ len \in Nat /\ id \in Nat
      /\ call.op = "write" /\ call.pos = IdbLba
  <2>1. call.id \in Nat
    BY Sizes DEF UpgradeInv, LbaInv, TypeOK
  <2>. QED
    BY <1>1, <1>2, <2>1, BlockIsSeq DEF Writing
<1>4. len >= 1
  <2>1. HasBlock(image)
    BY <1>3, Blocks
  <2>2. CASE IsNew(image)
    <3>1. PICK head, ddr, boot : head = FlashHead(image) /\ ddr = Ddr(image) /\ boot = Boot(image)
      OBVIOUS
    <3>2. /\ IsSeq(head) /\ IsSeq(ddr) /\ IsSeq(boot) /\ head # <<>>
          /\ ThreeAreas(Block[image], head, ddr, boot, Cipher(image))
      BY <2>1, <2>2, <3>1 DEF HasBlock, IsStage, Describes
    <3>3. Len(head) \in Nat /\ Len(head) >= 1 /\ Len(ddr) \in Nat /\ Len(boot) \in Nat
      BY <3>2 DEF IsSeq
    <3>4. /\ Padded(Len(head)) \in Nat /\ Len(head) <= Padded(Len(head))
          /\ Padded(Len(ddr)) \in Nat /\ Padded(Len(boot)) \in Nat
      BY <3>3, PaddedSize
    <3>. QED
      BY <1>3, <3>2, <3>3, <3>4 DEF ThreeAreas
  <2>3. CASE ~IsNew(image)
    <3>1. PICK ddr, boot : ddr = Ddr(image) /\ boot = Boot(image)
      OBVIOUS
    <3>2. IsSeq(ddr) /\ IsSeq(boot) /\ OldShape(Block[image], ddr, boot, Cipher(image))
      BY <2>1, <2>3, <3>1 DEF HasBlock, IsStage
    <3>3. Padded(Len(ddr)) \in Nat /\ Padded(Len(boot)) \in Nat
      BY <3>2, SeqFacts, PaddedSize
    <3>. QED
      BY <1>3, <3>2, <3>3 DEF OldShape, HeaderSectors
  <2>. QED
    BY <2>2, <2>3
<1>5. disk = Overlay(old, IdbLba, Data(call), len) /\ DOMAIN disk = Disk
  <2>1. disk = Written(TargetLen(call))
    BY <1>1, <1>2, <1>3, <1>4 DEF UpgradeInv, LbaInv, WriteInv, OkMeansComplete
  <2>2. Target(call) = Data(call) /\ TargetLen(call) = len
    BY <1>2, <1>3 DEF Target, TargetLen
  <2>3. call.pos * SectorSize = IdbLba
    BY <1>3, Sectored
  <2>4. DOMAIN disk = Disk
    BY Typed DEF UpgradeInv, LbaInv
  <2>. QED
    BY <2>1, <2>2, <2>3, <2>4 DEF Written
<1>6. Len(Region) = DiskSectors - IdbLba /\ len <= DiskSectors - IdbLba /\ IsSeq(Region)
  BY <1>1, <1>2, <1>3, RegionShape, Sectored
<1>7. ASSUME NEW k \in 1..len PROVE Region[k] = Block[image][k]
  <2>1. PICK b : b = IdbLba + k - 1
    OBVIOUS
  <2>2. b \in Disk /\ Region[k] = SectorAt(b)
    BY <1>3, <1>6, <2>1, RegionShape, Sectored
  <2>3. /\ b - IdbLba = k - 1 /\ b - IdbLba + 1 = k /\ k - 1 \in 0..len - 1
        /\ IdbLba <= b /\ b < IdbLba + len
    BY <1>3, <2>1, Sectored
  <2>4. disk[b] = Data(call)[b - IdbLba]
    BY <1>5, <2>2, <2>3 DEF Overlay
  <2>5. disk[b] = Byte(id, k - 1)
    BY <1>2, <2>3, <2>4 DEF Data, CallData, Bytes
  <2>6. SectorAt(b) = Block[image][b - IdbLba + 1]
    BY <1>3, <2>2, <2>3, <2>5, SectorOfWrite
  <2>. QED
    BY <2>2, <2>3, <2>6
<1>. QED
  BY <1>3, <1>4, <1>6, <1>7 DEF Begins

(* After an upgrade-loader that said Ok the board starts the FlashData and *)
(* the FlashBoot of this very file and nothing else, whatever earlier      *)
(* attempts left on the storage and in the pipes.                          *)
THEOREM OkStarts == UpgradeSpec => []OkBoots
<1>1. ASSUME UpgradeInv, outcome = "Ok"
      PROVE  Bootable(Region) # {} /\ \A stages \in Bootable(Region) : IsImage(stages, image)
  <2>1. PICK r, one : r = Region /\ one = {image}
    OBVIOUS
  <2>2. image \in DOMAIN Block /\ Len(Block[image]) >= 1 /\ Begins(r, Block[image])
    BY <1>1, <2>1, OkBegins
  <2>3. /\ IsSeq(r) /\ Len(r) \in Nat /\ Len(Block[image]) \in Nat
        /\ DOMAIN Block[image] = 1..Len(Block[image]) /\ HasBlock(image)
        /\ \A k \in 1..Len(Block[image]) : r[k] = Block[image][k]
    BY <2>2, BlockIsSeq, Blocks, SeqFacts DEF Begins
  <2>4. Cipher(image) \in BOOLEAN
    BY <2>3 DEF HasBlock
  <2>5. Bootable(r) # {}
    <3>1. OldAccepted(r, Cipher(image)) \/ NewAccepted(r, Cipher(image))
      BY <2>2, OldStarts, NewStarts
    <3>. QED
      BY <2>4, <3>1, Zenon DEF Bootable
  <2>6. one \in SUBSET DOMAIN Block /\ IsOf(r, 1, one)
    <3>1. 1 \in DOMAIN Block[image] /\ r[1] = Block[image][1]
      BY <2>2, <2>3
    <3>. QED
      BY <2>1, <2>2, <3>1 DEF IsOf
  <2>7. ASSUME NEW c \in BOOLEAN, OldAccepted(r, c)
        PROVE  \E f \in one : IsImage(OldStages(r, c), f)
    <3>1. ~IsNew(image)
      <4>1. SUFFICES ASSUME IsNew(image) PROVE FALSE
        OBVIOUS
      <4>2. r[1] = Sealed(FlashHead(image)[1], Cipher(image)) /\ FlashHead(image)[1].kind = "RKNS"
        BY <2>2, <2>3, <4>1, FirstSectors
      <4>3. Content(r, 1, c).kind = "tag"
        BY <2>7 DEF OldAccepted
      <4>. QED
        BY <2>4, <4>2, <4>3, ReadsAs
    <3>2. 3 \in DOMAIN Block[image]
      <4>1. PICK ddr, boot : ddr = Ddr(image) /\ boot = Boot(image)
        OBVIOUS
      <4>2. IsSeq(ddr) /\ IsSeq(boot) /\ OldShape(Block[image], ddr, boot, Cipher(image))
        BY <2>3, <3>1, <4>1 DEF HasBlock, IsStage
      <4>3. Padded(Len(ddr)) \in Nat /\ Padded(Len(boot)) \in Nat
        BY <4>2, SeqFacts, PaddedSize
      <4>4. Len(Block[image]) >= 3
        BY <2>3, <4>2, <4>3 DEF OldShape, HeaderSectors
      <4>. QED
        BY <2>3, <4>4
    <3>3. r[3] = Block[image][3]
      BY <2>3, <3>2
    <3>4. IsOf(r, 3, one)
      BY <2>1, <3>2, <3>3 DEF IsOf
    <3>. QED
      BY <2>3, <2>6, <2>7, <3>4, OldBoots
  <2>8. ASSUME NEW c \in BOOLEAN, NewAccepted(r, c)
        PROVE  \E f \in one : IsImage(NewStages(r, c), f)
    BY <2>3, <2>6, <2>8, NewBoots
  <2>9. ASSUME NEW stages \in Bootable(r) PROVE IsImage(stages, image)
    <3>1. PICK c \in BOOLEAN :
            \/ stages = OldStages(r, c) /\ OldAccepted(r, c)
            \/ stages = NewStages(r, c) /\ NewAccepted(r, c)
      BY <2>9, Zenon DEF Bootable
    <3>2. \E f \in one : IsImage(stages, f)
      BY <2>7, <2>8, <3>1
    <3>. QED
      BY <2>1, <3>2
  <2>. QED
    BY <2>1, <2>5, <2>9
<1>2. UpgradeInv => OkBoots
  BY <1>1 DEF OkBoots
<1>. QED
  BY <1>2, UpgradeStart, UpgradeGoesOn, PTL DEF UpgradeSpec

=============================================================================
