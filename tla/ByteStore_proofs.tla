-------------------------- MODULE ByteStore_proofs --------------------------
(***************************************************************************)
(* Facts about sectors, bytes and writes on a storage that the proofs      *)
(* about the transfers rest on.                                            *)
(***************************************************************************)
EXTENDS ByteStore, TLAPS

(* Arithmetic of sectors and bytes.                                        *)

LEMMA MulMono ==
  ASSUME NEW s \in Nat, NEW a \in Int, NEW b \in Int, a <= b
  PROVE  a * s <= b * s
OBVIOUS

LEMMA MulDistr ==
  ASSUME NEW s \in Int, NEW a \in Int, NEW b \in Int
  PROVE  /\ (a + b) * s = a * s + b * s
         /\ (a - b) * s = a * s - b * s
         /\ a * s \in Int
OBVIOUS

LEMMA DivMod ==
  ASSUME NEW n \in Nat, NEW s \in Nat \ {0}
  PROVE  /\ n \div s \in Nat /\ n % s \in 0..s - 1
         /\ n = (n \div s) * s + (n % s)
OBVIOUS

(* The sector of a byte.                                                   *)
LEMMA DivBetween ==
  ASSUME NEW s \in Nat \ {0}, NEW b \in Nat, NEW p \in Int, NEW q \in Int,
         p * s <= b, b < q * s
  PROVE  b \div s \in p..q - 1
<1> DEFINE d == b \div s
           r == b % s
<1>1. d \in Nat /\ r \in 0..s - 1 /\ b = d * s + r
  BY DivMod
<1> HIDE DEF d, r
<1>2. ~(d + 1 <= p)
  <2> SUFFICES ASSUME d + 1 <= p PROVE FALSE
    OBVIOUS
  <2>1. (d + 1) * s <= p * s
    BY <1>1, MulMono
  <2>2. (d + 1) * s = d * s + s
    BY <1>1, MulDistr
  <2>. QED
    BY <1>1, <2>1, <2>2, MulDistr
<1>3. ~(q <= d)
  <2> SUFFICES ASSUME q <= d PROVE FALSE
    OBVIOUS
  <2>1. q * s <= d * s
    BY <1>1, MulMono
  <2>. QED
    BY <1>1, <2>1, MulDistr
<1>. QED
  BY <1>1, <1>2, <1>3 DEF d

LEMMA DivExact ==
  ASSUME NEW s \in Nat \ {0}, NEW d \in Int, NEW r \in 0..s - 1, d * s + r \in Nat
  PROVE  (d * s + r) \div s = d
<1>1. d * s \in Int /\ (d + 1) * s = d * s + s
  BY MulDistr
<1>2. (d * s + r) \div s \in d..(d + 1) - 1
  BY <1>1, DivBetween
<1>. QED
  BY <1>2

-----------------------------------------------------------------------------
(* Writes on a storage.                                                    *)

LEMMA OverlayShape ==
  ASSUME NEW d, NEW at \in Int, NEW f, NEW n \in Int, DOMAIN d \subseteq Int
  PROVE  /\ DOMAIN Overlay(d, at, f, n) = DOMAIN d
         /\ \A b \in DOMAIN d :
              Overlay(d, at, f, n)[b] = IF at <= b /\ b < at + n THEN f[b - at] ELSE d[b]
BY DEF Overlay

LEMMA OverlayNone ==
  ASSUME NEW S, NEW d, d = [b \in S |-> d[b]], S \subseteq Int, NEW at \in Int, NEW f
  PROVE  Overlay(d, at, f, 0) = d
<1>1. DOMAIN d = S
  OBVIOUS
<1>2. \A b \in S : ~(at <= b /\ b < at + 0)
  OBVIOUS
<1>3. Overlay(d, at, f, 0) = [b \in S |-> d[b]]
  BY <1>1, <1>2 DEF Overlay
<1>. QED
  BY <1>3

\* m bytes of g are those of f from offset n.
Carries(g, m, f, n) == \A k \in 0..m - 1 : g[k] = f[n + k]

\* m bytes of g are k bytes of f and then what d holds there.
Patches(g, m, f, k, d, at) == \A j \in 0..m - 1 : g[j] = IF j < k THEN f[j] ELSE d[at + j]

(* A write that goes on where another ended is one write.                  *)
LEMMA OverlayJoin ==
  ASSUME NEW d, DOMAIN d \subseteq Int, NEW at \in Int, NEW n \in Nat, NEW m \in Nat,
         NEW f, NEW g, Carries(g, m, f, n), NEW e, e = Overlay(d, at, f, n)
  PROVE  Overlay(e, at + n, g, m) = Overlay(d, at, f, n + m)
<1>1. /\ DOMAIN e = DOMAIN d
      /\ \A b \in DOMAIN d : e[b] = IF at <= b /\ b < at + n THEN f[b - at] ELSE d[b]
  BY OverlayShape
<1>2. ASSUME NEW b \in DOMAIN d
      PROVE  (IF at + n <= b /\ b < (at + n) + m THEN g[b - (at + n)] ELSE e[b])
               = (IF at <= b /\ b < at + (n + m) THEN f[b - at] ELSE d[b])
  <2>1. CASE at + n <= b /\ b < (at + n) + m
    <3>1. b - (at + n) \in 0..m - 1 /\ n + (b - (at + n)) = b - at
      BY <2>1
    <3>2. g[b - (at + n)] = f[b - at]
      BY <3>1 DEF Carries
    <3>. QED
      BY <2>1, <3>2
  <2>2. CASE ~(at + n <= b /\ b < (at + n) + m)
    BY <1>1, <2>2
  <2>. QED
    BY <2>1, <2>2
<1>3. Overlay(e, at + n, g, m)
        = [b \in DOMAIN d |-> IF at + n <= b /\ b < (at + n) + m THEN g[b - (at + n)] ELSE e[b]]
  BY <1>1 DEF Overlay
<1>4. Overlay(d, at, f, n + m)
        = [b \in DOMAIN d |-> IF at <= b /\ b < at + (n + m) THEN f[b - at] ELSE d[b]]
  BY DEF Overlay
<1>. QED
  BY <1>2, <1>3, <1>4

(* A write of m bytes that puts back what was there after the first k of   *)
(* them is a write of those k bytes.                                       *)
LEMMA OverlayPatched ==
  ASSUME NEW d, DOMAIN d \subseteq Int, NEW at \in Int, NEW k \in Nat, NEW m \in Nat, k <= m,
         NEW f, NEW g, Patches(g, m, f, k, d, at)
  PROVE  Overlay(d, at, g, m) = Overlay(d, at, f, k)
<1>1. ASSUME NEW b \in DOMAIN d
      PROVE  (IF at <= b /\ b < at + m THEN g[b - at] ELSE d[b])
               = (IF at <= b /\ b < at + k THEN f[b - at] ELSE d[b])
  <2>1. CASE at <= b /\ b < at + m
    <3>1. b - at \in 0..m - 1 /\ at + (b - at) = b
      BY <2>1
    <3>2. g[b - at] = IF b - at < k THEN f[b - at] ELSE d[b]
      BY <3>1 DEF Patches
    <3>. QED
      BY <2>1, <3>2
  <2>2. CASE ~(at <= b /\ b < at + m)
    BY <2>2
  <2>. QED
    BY <2>1, <2>2
<1>. QED
  BY <1>1 DEF Overlay

\* m bytes of g for place a: the l bytes of f laid at p that are due from x
\* on, and for the rest what d holds.
Puts(d, a, m, g, x, l, f, p) ==
  \A j \in 0..m - 1 :
    g[j] = IF x <= a + j /\ a + j < x + l THEN f[(a + j) - p] ELSE d[a + j]

(* Putting back whole sectors with the next l bytes of a write in them is  *)
(* to write these bytes.                                                   *)
LEMMA OverlayPut ==
  ASSUME NEW base, DOMAIN base \subseteq Int, NEW p \in Int, NEW n \in Nat, NEW l \in Nat,
         NEW f, NEW d, d = Overlay(base, p, f, n),
         NEW a \in Int, NEW m \in Nat, NEW g, NEW x, x = p + n, a <= x, x + l <= a + m,
         Puts(d, a, m, g, x, l, f, p)
  PROVE  Overlay(d, a, g, m) = Overlay(base, p, f, n + l)
<1>1. /\ DOMAIN d = DOMAIN base
      /\ \A b \in DOMAIN base : d[b] = IF p <= b /\ b < p + n THEN f[b - p] ELSE base[b]
  BY OverlayShape
<1>2. ASSUME NEW b \in DOMAIN base
      PROVE  (IF a <= b /\ b < a + m THEN g[b - a] ELSE d[b])
               = (IF p <= b /\ b < p + (n + l) THEN f[b - p] ELSE base[b])
  <2>1. b \in Int
    OBVIOUS
  <2>2. CASE a <= b /\ b < a + m
    <3>1. b - a \in 0..m - 1 /\ a + (b - a) = b
      BY <2>1, <2>2
    <3>2. g[b - a] = IF x <= b /\ b < x + l THEN f[b - p] ELSE d[b]
      BY <3>1 DEF Puts
    <3>. QED
      BY <1>1, <2>1, <2>2, <3>2
  <2>3. CASE ~(a <= b /\ b < a + m)
    BY <1>1, <2>1, <2>3
  <2>. QED
    BY <2>2, <2>3
<1>3. Overlay(d, a, g, m)
        = [b \in DOMAIN base |-> IF a <= b /\ b < a + m THEN g[b - a] ELSE d[b]]
  BY <1>1 DEF Overlay
<1>4. Overlay(base, p, f, n + l)
        = [b \in DOMAIN base |-> IF p <= b /\ b < p + (n + l) THEN f[b - p] ELSE base[b]]
  BY DEF Overlay
<1>. QED
  BY <1>2, <1>3, <1>4

=============================================================================
