-------------------------- MODULE AddressingProofs --------------------------
(***************************************************************************)
(* Proofs about carve and newWGIPAllocator for addresses of any width.     *)
(* Both loops keep an invariant about what they have built so far; what it *)
(* says of them when they end is arithmetic on multiples of powers of two. *)
(***************************************************************************)
EXTENDS Addressing, TLAPS, FiniteSetTheorems, WellFoundedInduction

-----------------------------------------------------------------------------
(***************************************************************************)
(* Induction.                                                              *)
(***************************************************************************)

\* The library's principle of induction takes the predicate as an operator; for
\* a set it follows from the least element of its complement.
LEMMA SetInduction ==
    ASSUME NEW S, 0 \in S, \A n \in Nat : n \in S => n + 1 \in S
    PROVE  Nat \subseteq S
<1> DEFINE Less == OpToRel(<, Nat)
           T    == Nat \ S
<1>1. \A m \in Nat : <<m, m + 1>> \in Less
  <2> DEFINE L == {p \in Nat \X Nat : p[1] < p[2]}
  <2>1. Less = L
    BY DEF OpToRel
  <2>2. \A m \in Nat : <<m, m + 1>> \in L
    OBVIOUS
  <2> QED
    BY <2>1, <2>2
<1>2. IsWellFoundedOn(Less, Nat)
  BY NatLessThanWellFounded
<1> HIDE DEF Less
<1>3. ASSUME T # {} PROVE FALSE
  <2>1. PICK x \in T : \A y \in T : ~ (<<y, x>> \in Less)
    BY <1>2, <1>3, WFMin
  <2>2. x - 1 \in Nat /\ (x - 1) + 1 = x
    OBVIOUS
  <2> QED
    BY <1>1, <2>1, <2>2
<1> QED
  BY <1>3

-----------------------------------------------------------------------------
(***************************************************************************)
(* Powers of two.  The recursive definition means what it says because the *)
(* tables of the first n powers exist and agree.                           *)
(***************************************************************************)

\* A table of the first powers.
Table(n, f) ==
    /\ f \in [0 .. n -> Nat]
    /\ f[0] = 1
    /\ \A i \in 1 .. n : f[i] = 2 * f[i - 1]

LEMMA TablesExist == \A n \in Nat : \E f : Table(n, f)
<1> DEFINE S == {n \in Nat : \E f : Table(n, f)}
<1>1. 0 \in S
  <2>1. Table(0, [i \in 0 .. 0 |-> 1])
    BY DEF Table
  <2> QED
    BY <2>1
<1>2. ASSUME NEW n \in Nat, n \in S PROVE n + 1 \in S
  <2>1. PICK f : Table(n, f)
    BY <1>2
  <2> DEFINE g == [i \in 0 .. n + 1 |-> IF i = n + 1 THEN 2 * f[n] ELSE f[i]]
  <2>2. g \in [0 .. n + 1 -> Nat] /\ g[0] = 1
    BY <2>1 DEF Table
  <2>3. \A i \in 1 .. n + 1 : g[i] = 2 * g[i - 1]
    BY <2>1 DEF Table
  <2> HIDE DEF g
  <2>4. Table(n + 1, g)
    BY <2>2, <2>3 DEF Table
  <2> QED
    BY <2>4
<1> HIDE DEF S
<1>3. Nat \subseteq S
  BY <1>1, <1>2, SetInduction
<1> QED
  BY <1>3 DEF S

LEMMA TablesAgree ==
    ASSUME NEW m \in Nat, NEW n \in Nat, NEW f, NEW g, Table(m, f), Table(n, g)
    PROVE  \A i \in Nat : i <= m /\ i <= n => f[i] = g[i]
<1> DEFINE S == {i \in Nat : i <= m /\ i <= n => f[i] = g[i]}
<1>1. 0 \in S
  BY DEF Table
<1>2. ASSUME NEW i \in Nat, i \in S PROVE i + 1 \in S
  <2>1. CASE i + 1 <= m /\ i + 1 <= n
    <3>1. f[i] = g[i]
      BY <1>2, <2>1
    <3>2. f[i + 1] = 2 * f[i] /\ g[i + 1] = 2 * g[i]
      BY <2>1 DEF Table
    <3> QED
      BY <3>1, <3>2
  <2> QED
    BY <2>1
<1> HIDE DEF S
<1>3. Nat \subseteq S
  BY <1>1, <1>2, SetInduction
<1> QED
  BY <1>3 DEF S

LEMMA Pow2Def ==
    /\ Pow2 \in [Nat -> Nat]
    /\ Pow2[0] = 1
    /\ \A n \in Nat : Pow2[n + 1] = 2 * Pow2[n]
<1> DEFINE F == [n \in Nat |-> (CHOOSE f : Table(n, f))[n]]
           Step(g) == [n \in Nat |-> IF n = 0 THEN 1 ELSE 2 * g[n - 1]]
<1>1. \A n \in Nat : Table(n, CHOOSE f : Table(n, f))
  BY TablesExist
<1>2. F \in [Nat -> Nat] /\ F[0] = 1
  <2>1. ASSUME NEW n \in Nat, NEW f, Table(n, f) PROVE f[n] \in Nat
    BY <2>1 DEF Table
  <2>2. ASSUME NEW f, Table(0, f) PROVE f[0] = 1
    BY <2>2 DEF Table
  <2> QED
    BY <1>1, <2>1, <2>2
<1>3. ASSUME NEW n \in Nat PROVE F[n + 1] = 2 * F[n]
  <2> DEFINE f == CHOOSE f : Table(n, f)
             g == CHOOSE g : Table(n + 1, g)
  <2>1. Table(n, f) /\ Table(n + 1, g)
    BY <1>1
  <2>2. F[n] = f[n] /\ F[n + 1] = g[n + 1]
    OBVIOUS
  <2> HIDE DEF f, g
  <2>3. f[n] = g[n]
    BY <2>1, TablesAgree
  <2>4. g[n + 1] = 2 * g[n]
    BY <2>1 DEF Table
  <2> QED
    BY <2>2, <2>3, <2>4
<1> HIDE DEF F
<1>4. \A n \in Nat : F[n] = Step(F)[n]
  <2> TAKE n \in Nat
  <2>1. CASE n = 0
    BY <1>2, <2>1
  <2>2. CASE n # 0
    BY <1>3, <2>2
  <2> QED
    BY <2>1, <2>2
<1>5. F = Step(F)
  BY <1>2, <1>4
<1>6. Pow2 = CHOOSE g : g = Step(g)
  BY DEF Pow2
<1>7. Pow2 = Step(Pow2)
  BY <1>5, <1>6
<1>8. /\ DOMAIN Pow2 = Nat /\ Pow2 = [n \in Nat |-> Pow2[n]]
      /\ Pow2[0] = 1
      /\ \A n \in Nat : Pow2[n + 1] = 2 * Pow2[n]
  BY <1>7
<1>9. Pow2 \in [Nat -> Nat]
  <2> DEFINE S == {n \in Nat : Pow2[n] \in Nat}
  <2>1. 0 \in S
    BY <1>8
  <2>2. ASSUME NEW n \in Nat, n \in S PROVE n + 1 \in S
    BY <1>8, <2>2
  <2> HIDE DEF S
  <2>3. Nat \subseteq S
    BY <2>1, <2>2, SetInduction
  <2> QED
    BY <1>8, <2>3 DEF S
<1> QED
  BY <1>8, <1>9

LEMMA Pow2Positive == \A n \in Nat : Pow2[n] \in Nat \ {0}
<1> DEFINE S == {n \in Nat : Pow2[n] # 0}
<1>1. 0 \in S
  BY Pow2Def
<1>2. ASSUME NEW n \in Nat, n \in S PROVE n + 1 \in S
  BY <1>2, Pow2Def
<1> HIDE DEF S
<1>3. Nat \subseteq S
  BY <1>1, <1>2, SetInduction
<1> QED
  BY <1>3, Pow2Def DEF S

LEMMA Pow2Product == \A m, n \in Nat : Pow2[m + n] = Pow2[m] * Pow2[n]
<1> SUFFICES ASSUME NEW m \in Nat PROVE \A n \in Nat : Pow2[m + n] = Pow2[m] * Pow2[n]
  OBVIOUS
<1> DEFINE S == {n \in Nat : Pow2[m + n] = Pow2[m] * Pow2[n]}
<1>1. 0 \in S
  BY Pow2Def
<1>2. ASSUME NEW n \in Nat, n \in S PROVE n + 1 \in S
  <2>1. Pow2[m + (n + 1)] = 2 * Pow2[m + n]
    BY Pow2Def
  <2>2. 2 * (Pow2[m] * Pow2[n]) = Pow2[m] * (2 * Pow2[n])
    BY Pow2Def
  <2> QED
    BY <1>2, <2>1, <2>2, Pow2Def
<1> HIDE DEF S
<1>3. Nat \subseteq S
  BY <1>1, <1>2, SetInduction
<1> QED
  BY <1>3 DEF S

-----------------------------------------------------------------------------
(***************************************************************************)
(* Division.                                                               *)
(***************************************************************************)

LEMMA Division ==
    ASSUME NEW a \in Nat, NEW d \in Nat \ {0}
    PROVE  /\ a \div d \in Nat
           /\ a % d \in 0 .. d - 1
           /\ a = d * (a \div d) + (a % d)
OBVIOUS

LEMMA DivisionUnique ==
    ASSUME NEW d \in Nat \ {0}, NEW q \in Nat, NEW r \in 0 .. d - 1
    PROVE  (d * q + r) % d = r /\ (d * q + r) \div d = q
OBVIOUS

LEMMA QuotientsAgree ==
    ASSUME NEW d \in Nat \ {0}, NEW p \in Nat, NEW q \in Nat,
           NEW r \in 0 .. d - 1, NEW s \in 0 .. d - 1,
           d * p + r = d * q + s
    PROVE  p = q /\ r = s
BY DivisionUnique

LEMMA Remainder ==
    ASSUME NEW m \in Nat, NEW r \in Nat, NEW a, a = m + r
    PROVE  a - r = m
OBVIOUS

\* A multiple of d below a multiple of d is a whole d below.
LEMMA MultiplesApart ==
    ASSUME NEW d \in Nat \ {0}, NEW p \in Nat, NEW q \in Nat, d * p < d * q
    PROVE  d * p + d <= d * q
OBVIOUS

-----------------------------------------------------------------------------
(***************************************************************************)
(* Networks.                                                               *)
(***************************************************************************)

LEMMA Sizes ==
    ASSUME NEW b \in 0 .. AddrBits
    PROVE  /\ Size(b) \in Nat \ {0}
           /\ Pow2[b] \in Nat \ {0}
           /\ Space \in Nat \ {0}
           /\ Space = Size(b) * Pow2[b]
<1>1. AddrBits - b \in Nat /\ (AddrBits - b) + b = AddrBits
  BY WidthsAreNat
<1> QED
  BY <1>1, WidthsAreNat, Pow2Positive, Pow2Product DEF Size, Space

\* A prefix contains an interval of addresses.
LEMMA BlockIsInterval ==
    ASSUME NEW b \in 0 .. AddrBits, NEW q \in Nat, NEW a \in Nat
    PROVE  Contains([base |-> Size(b) * q, bits |-> b], a)
             <=> Size(b) * q <= a /\ a < Size(b) * q + Size(b)
<1> DEFINE S == Size(b)
<1>1. S \in Nat \ {0}
  BY Sizes
<1>2. Contains([base |-> S * q, bits |-> b], a) <=> a - (a % S) = S * q
  BY DEF Contains, Masked
<1> HIDE DEF S
<1>3. a = S * (a \div S) + (a % S) /\ a \div S \in Nat /\ a % S \in 0 .. S - 1
  BY <1>1, Division
<1>4. ASSUME a - (a % S) = S * q PROVE S * q <= a /\ a < S * q + S
  <2>1. S * q \in Nat
    BY <1>1
  <2> QED
    BY <1>1, <1>3, <1>4, <2>1
<1>5. ASSUME S * q <= a, a < S * q + S PROVE a - (a % S) = S * q
  <2>1. S * q \in Nat
    BY <1>1
  <2>2. PICK r \in 0 .. S - 1 : a = S * q + r
    <3>1. a - S * q \in 0 .. S - 1 /\ a = S * q + (a - S * q)
      BY <1>1, <1>5, <2>1
    <3> QED
      BY <3>1
  <2>3. a % S = r
    BY <1>1, <2>2, DivisionUnique
  <2> QED
    BY <2>1, <2>2, <2>3, Remainder
<1> QED
  BY <1>2, <1>4, <1>5 DEF S

\* So does a network, and it ends in the address space.
LEMMA NetworkIsInterval ==
    ASSUME NEW w \in Networks
    PROVE  /\ w.bits \in 0 .. AddrBits
           /\ w.base \in Addresses
           /\ w.base + Size(w.bits) <= Space
           /\ \E q \in Nat : w.base = Size(w.bits) * q
           /\ \A a \in Nat : Contains(w, a)
                <=> w.base <= a /\ a < w.base + Size(w.bits)
<1>1. PICK a \in Addresses, b \in 0 .. AddrBits :
        w = [base |-> Masked(a, b), bits |-> b]
  BY DEF Networks
<1> DEFINE S == Size(b)
           q == a \div S
<1>2. /\ S \in Nat \ {0}
      /\ Pow2[b] \in Nat \ {0}
      /\ Space \in Nat \ {0}
      /\ Space = S * Pow2[b]
  BY Sizes
<1>3. a \in Nat /\ a < Space
  BY <1>2 DEF Addresses
<1>4. Masked(a, b) = a - (a % S)
  BY DEF Masked
<1> HIDE DEF S
<1>5. a = S * q + (a % S) /\ q \in Nat /\ a % S \in 0 .. S - 1
  BY <1>2, <1>3, Division
<1> HIDE DEF q
<1>6. S * q \in Nat
  BY <1>2, <1>5
<1>7. Masked(a, b) = S * q
  <2>1. a % S \in Nat
    BY <1>5
  <2> QED
    BY <1>4, <1>5, <1>6, <2>1, Remainder
<1>8. S * q < S * Pow2[b]
  BY <1>2, <1>3, <1>5, <1>6
<1>9. S * q + S <= Space
  BY <1>2, <1>5, <1>8, MultiplesApart
<1>10. w.base = S * q /\ w.bits = b /\ w = [base |-> S * q, bits |-> b]
  BY <1>1, <1>7
<1>11. S * q \in Addresses
  BY <1>2, <1>6, <1>9 DEF Addresses
<1>12. \A c \in Nat : Contains(w, c) <=> S * q <= c /\ c < S * q + S
  BY <1>5, <1>10, BlockIsInterval DEF S
<1> QED
  BY <1>5, <1>9, <1>10, <1>11, <1>12 DEF S

-----------------------------------------------------------------------------
(***************************************************************************)
(* carve.                                                                  *)
(***************************************************************************)
Count == Pow2[subnetBits - net.bits]

\* The sub-prefixes made so far lie side by side from the aggregate's base.
CarveInv ==
    pc \in {"carve", "carved"} =>
        /\ AcceptableBits
        /\ at <= Count
        /\ pc = "carved" => at = Count
        /\ DOMAIN result = 1 .. at
        /\ \A i \in 1 .. at :
             result[i] = net.base + (i - 1) * SubnetSize(subnetBits)

\* The sub-prefixes fill the aggregate.
LEMMA SubnetsFill ==
    ASSUME AddrTypeOK, AcceptableBits
    PROVE  /\ Count \in Nat \ {0}
           /\ 2 * Count <= Space
           /\ subnetBits \in 0 .. AddrBits
           /\ SubnetSize(subnetBits) \in Nat \ {0}
           /\ Size(net.bits) = Count * SubnetSize(subnetBits)
<1>1. net.bits \in 0 .. AddrBits
  BY NetworkIsInterval DEF AddrTypeOK
<1>2. subnetBits \in 0 .. AddrBits /\ subnetBits - net.bits \in Nat
  BY <1>1, WidthsAreNat DEF AddrTypeOK, AcceptableBits
<1> DEFINE h == subnetBits - net.bits
           k == AddrBits - h - 1
<1>3. Count \in Nat \ {0}
  BY <1>2, Pow2Positive DEF Count
<1>4. 2 * Count <= Space
  <2>1. k \in Nat /\ k + 1 \in Nat /\ h + (k + 1) = AddrBits
    BY <1>1, <1>2, WidthsAreNat DEF AcceptableBits
  <2>2. Space = Count * (2 * Pow2[k])
    BY <1>2, <2>1, Pow2Product, Pow2Def DEF Space, Count
  <2>3. Pow2[k] \in Nat \ {0}
    BY <2>1, Pow2Positive
  <2> HIDE DEF k
  <2> QED
    BY <1>3, <2>2, <2>3
<1>5. SubnetSize(subnetBits) \in Nat \ {0}
  BY <1>2, Sizes DEF SubnetSize
<1>6. Size(net.bits) = Count * SubnetSize(subnetBits)
  <2>1. AddrBits - subnetBits \in Nat /\ h + (AddrBits - subnetBits) = AddrBits - net.bits
    BY <1>1, <1>2, WidthsAreNat
  <2> QED
    BY <1>2, <2>1, Pow2Product DEF Size, SubnetSize, Count
<1> QED
  BY <1>2, <1>3, <1>4, <1>5, <1>6

LEMMA CarveStep ==
    ASSUME AddrTypeOK, CarveInv, CarveNext
    PROVE  at' \in Addresses /\ result' \in Seq(Addresses) /\ CarveInv'
<1> DEFINE ss == SubnetSize(subnetBits)
           ip == (net.base + at * ss) % Space
<1>1. /\ pc = "carve" /\ AcceptableBits
      /\ at <= Count
      /\ DOMAIN result = 1 .. at
      /\ \A i \in 1 .. at : result[i] = net.base + (i - 1) * ss
      /\ UNCHANGED <<net, subnetBits, core>>
      /\ net \in Networks
      /\ at \in Nat
      /\ result \in Seq(Addresses)
  <2>1. Addresses \subseteq Nat
    BY DEF Addresses
  <2> QED
    BY <2>1 DEF CarveNext, CarveInv, AddrTypeOK
<1>2. /\ Count \in Nat \ {0}
      /\ 2 * Count <= Space
      /\ subnetBits \in 0 .. AddrBits
      /\ ss \in Nat \ {0}
      /\ Size(net.bits) = Count * ss
  BY <1>1, SubnetsFill
<1>3. /\ net.base \in Nat
      /\ net.base + Size(net.bits) <= Space
      /\ \E q \in Nat : net.base = Size(net.bits) * q
  BY <1>1, NetworkIsInterval DEF Addresses
<1>4. Space \in Nat \ {0} /\ Space = ss * Pow2[subnetBits] /\ ss = Size(subnetBits)
  BY <1>2, Sizes DEF SubnetSize
<1> HIDE DEF ss
<1>5. CASE at < Count /\ result' = Append(result, Masked(ip, subnetBits))
                      /\ at' = at + 1 /\ UNCHANGED pc
  <2>1. at * ss \in Nat /\ at * ss + ss <= Count * ss
    BY <1>1, <1>2, <1>5
  <2>2. net.base + at * ss < Space /\ net.base + at * ss \in Nat
    BY <1>2, <1>3, <1>4, <2>1
  <2>3. ip = net.base + at * ss
    BY <1>4, <2>2
  <2>4. PICK q \in Nat : net.base = Size(net.bits) * q
    BY <1>3
  <2>5. net.base + at * ss = ss * (Count * q + at) + 0
    BY <1>1, <1>2, <2>4
  <2>6. (net.base + at * ss) % ss = 0
    <3>1. Count * q + at \in Nat
      BY <1>1, <1>2
    <3>2. 0 \in 0 .. ss - 1
      BY <1>2
    <3> QED
      BY <1>2, <2>5, <3>1, <3>2, DivisionUnique
  <2>7. Masked(ip, subnetBits) = net.base + at * ss
    BY <1>4, <2>2, <2>3, <2>6 DEF Masked
  <2> HIDE DEF ip
  <2>8. Masked(ip, subnetBits) \in Addresses
    BY <1>4, <2>2, <2>7 DEF Addresses
  <2>9. at' \in Addresses
    BY <1>1, <1>2, <1>4, <1>5 DEF Addresses
  <2>10. result' \in Seq(Addresses)
    BY <1>1, <1>5, <2>8
  <2>11. /\ DOMAIN result' = 1 .. at + 1
         /\ \A i \in 1 .. at : result'[i] = result[i]
         /\ result'[at + 1] = Masked(ip, subnetBits)
    <3>1. Len(result) = at
      BY <1>1
    <3> QED
      BY <1>1, <1>5, <2>8, <3>1
  <2>12. \A i \in 1 .. at' : result'[i] = net.base + (i - 1) * ss
    <3> SUFFICES ASSUME NEW i \in 1 .. at + 1
                 PROVE  result'[i] = net.base + (i - 1) * ss
      BY <1>5
    <3>1. CASE i = at + 1
      BY <1>1, <2>7, <2>11, <3>1
    <3>2. CASE i # at + 1
      BY <1>1, <2>11, <3>2
    <3> QED
      BY <3>1, <3>2
  <2>13. CarveInv'
    <3>1. Count' = Count /\ SubnetSize(subnetBits)' = ss /\ AcceptableBits'
      BY <1>1 DEF Count, ss, AcceptableBits
    <3>2. at' <= Count /\ pc' = "carve"
      BY <1>1, <1>2, <1>5
    <3> QED
      BY <1>1, <1>5, <2>11, <2>12, <3>1, <3>2 DEF CarveInv
  <2> QED
    BY <2>9, <2>10, <2>13
<1>6. CASE at = Count /\ pc' = "carved" /\ UNCHANGED <<at, result>>
  <2>1. CarveInv'
    <3>1. Count' = Count /\ SubnetSize(subnetBits)' = ss /\ AcceptableBits'
      BY <1>1 DEF Count, ss, AcceptableBits
    <3> QED
      BY <1>1, <1>6, <3>1 DEF CarveInv
  <2> QED
    BY <1>6, <2>1 DEF AddrTypeOK
<1> QED
  BY <1>5, <1>6 DEF CarveNext, Count, ss

\* What carve has made in the end is the partition.
LEMMA CarvedIsPartition ==
    ASSUME AddrTypeOK, CarveInv
    PROVE  AggregateIsPartitioned
<1> SUFFICES ASSUME pc = "carved", NEW a \in Addresses
             PROVE  Cardinality({i \in DOMAIN result :
                      Contains([base |-> result[i], bits |-> subnetBits], a)})
                        = IF Contains(net, a) THEN 1 ELSE 0
  BY DEF AggregateIsPartitioned
<1> DEFINE ss == SubnetSize(subnetBits)
           In(i) == Contains([base |-> result[i], bits |-> subnetBits], a)
<1>1. /\ AcceptableBits
      /\ DOMAIN result = 1 .. Count
      /\ \A i \in 1 .. Count : result[i] = net.base + (i - 1) * ss
      /\ net \in Networks
  BY DEF CarveInv, AddrTypeOK
<1>2. /\ Count \in Nat \ {0}
      /\ subnetBits \in 0 .. AddrBits
      /\ ss \in Nat \ {0}
      /\ Size(net.bits) = Count * ss
  BY <1>1, SubnetsFill
<1>3. /\ net.base \in Nat
      /\ \E q \in Nat : net.base = Size(net.bits) * q
      /\ a \in Nat
      /\ Contains(net, a) <=> net.base <= a /\ a < net.base + Size(net.bits)
  BY <1>1, NetworkIsInterval DEF Addresses
<1>4. ss = Size(subnetBits)
  BY DEF SubnetSize
<1> HIDE DEF ss
<1>5. \A i \in 1 .. Count :
        In(i) <=> net.base + (i - 1) * ss <= a /\ a < net.base + (i - 1) * ss + ss
  <2> TAKE i \in 1 .. Count
  <2>1. PICK q \in Nat : net.base = Size(net.bits) * q
    BY <1>3
  <2> DEFINE p == Count * q + (i - 1)
  <2>2. p \in Nat /\ net.base + (i - 1) * ss = ss * p
    BY <1>2, <2>1
  <2> HIDE DEF p
  <2> QED
    BY <1>1, <1>2, <1>3, <1>4, <2>2, BlockIsInterval
<1> HIDE DEF In
<1>6. CASE Contains(net, a)
  <2> DEFINE d == a - net.base
             j == d \div ss
  <2>1. d \in Nat /\ d < Count * ss /\ a = net.base + d
    BY <1>2, <1>3, <1>6
  <2> HIDE DEF d
  <2>2. d = ss * j + (d % ss) /\ j \in Nat /\ d % ss \in 0 .. ss - 1
    BY <1>2, <2>1, Division
  <2> HIDE DEF j
  <2>3. j < Count
    BY <1>2, <2>1, <2>2
  <2>4. j + 1 \in 1 .. Count /\ In(j + 1)
    BY <1>2, <1>3, <1>5, <2>1, <2>2, <2>3
  <2>5. ASSUME NEW i \in 1 .. Count, In(i) PROVE i = j + 1
    <3>1. net.base + (i - 1) * ss <= a /\ a < net.base + (i - 1) * ss + ss
      BY <1>5, <2>5
    <3> DEFINE r == d - ss * (i - 1)
    <3>2. r \in 0 .. ss - 1 /\ d = ss * (i - 1) + r /\ i - 1 \in Nat
      BY <1>2, <1>3, <2>1, <3>1
    <3> HIDE DEF r
    <3>3. i - 1 = j
      BY <1>2, <2>2, <3>2, QuotientsAgree
    <3> QED
      BY <3>3
  <2>6. {i \in DOMAIN result : In(i)} = {j + 1}
    BY <1>1, <2>4, <2>5
  <2> QED
    BY <1>6, <2>6, FS_Singleton DEF In
<1>7. CASE ~ Contains(net, a)
  <2>1. ASSUME NEW i \in 1 .. Count, In(i) PROVE FALSE
    <3>1. net.base + (i - 1) * ss <= a /\ a < net.base + (i - 1) * ss + ss
      BY <1>5, <2>1
    <3>2. (i - 1) * ss \in Nat /\ (i - 1) * ss + ss <= Count * ss
      BY <1>2
    <3> QED
      BY <1>2, <1>3, <1>7, <3>1, <3>2
  <2>2. {i \in DOMAIN result : In(i)} = {}
    BY <1>1, <2>1
  <2> QED
    BY <1>7, <2>2, FS_EmptySet DEF In
<1> QED
  BY <1>6, <1>7

-----------------------------------------------------------------------------
(***************************************************************************)
(* newWGIPAllocator.                                                       *)
(***************************************************************************)

\* The addresses the pool may offer.
Usable == {a \in Addresses : ~ Skipped(a)}

\* result has the usable addresses of net that are below the bound.
Scan(seen, bound) ==
    /\ \A i \in DOMAIN seen :
         seen[i] \in Usable /\ net.base <= seen[i] /\ seen[i] < bound
    /\ \A i, j \in DOMAIN seen : i < j => seen[i] < seen[j]
    /\ \A a \in Usable :
         net.base <= a /\ a < bound => \E i \in DOMAIN seen : seen[i] = a

\* What is behind the scan is in the pool, unless it is skipped.
ScanInv ==
    pc \in {"scan", "scanned"} =>
        /\ net.bits > 0
        /\ net.base <= Scanned
        /\ Scanned <= net.base + Size(net.bits)
        /\ pc = "scanned" => ~ Contains(net, at)
        /\ Scan(result, Scanned)

\* A range that is not the whole space is smaller.
LEMMA ProperRange ==
    ASSUME NEW w \in Networks, w.bits > 0
    PROVE  Size(w.bits) < Space
<1>1. w.bits \in 0 .. AddrBits
  BY NetworkIsInterval
<1>2. w.bits - 1 \in Nat /\ (w.bits - 1) + 1 = w.bits
  BY <1>1
<1>3. Pow2[w.bits] = 2 * Pow2[w.bits - 1] /\ Pow2[w.bits - 1] \in Nat \ {0}
  BY <1>2, Pow2Def, Pow2Positive
<1>4. Size(w.bits) \in Nat \ {0} /\ Space = Size(w.bits) * Pow2[w.bits]
  BY <1>1, Sizes
<1> HIDE DEF Size
<1>5. Space = Size(w.bits) * Pow2[w.bits - 1] + Size(w.bits) * Pow2[w.bits - 1]
  BY <1>3, <1>4
<1>6. Size(w.bits) * Pow2[w.bits - 1] >= Size(w.bits)
  BY <1>3, <1>4
<1> QED
  BY <1>3, <1>4, <1>5, <1>6

\* The loop variable leaves the range behind, at the end of the space too.
LEMMA ScanMovesOn ==
    ASSUME net \in Networks, net.bits > 0, at \in Addresses, Contains(net, at)
    PROVE  LET next == Increment(at)
           IN  /\ next \in Addresses
               /\ Scanned = at
               /\ at + 1 <= net.base + Size(net.bits)
               /\ (IF next < net.base THEN Space ELSE next) = at + 1
<1>1. /\ net.base \in Nat
      /\ net.base + Size(net.bits) <= Space
      /\ net.base <= at
      /\ at < net.base + Size(net.bits)
      /\ at \in Nat
      /\ at < Space
      /\ Space \in Nat \ {0}
      /\ Size(net.bits) \in Nat \ {0}
      /\ Size(net.bits) < Space
  BY NetworkIsInterval, ProperRange, Sizes DEF Addresses
<1>2. CASE at + 1 < Space
  <2>1. Increment(at) = at + 1
    BY <1>1, <1>2 DEF Increment
  <2> QED
    BY <1>1, <1>2, <2>1 DEF Scanned, Addresses
<1>3. CASE at + 1 = Space
  <2>1. Increment(at) = 0
    BY <1>1, <1>3 DEF Increment
  <2>2. net.base > 0
    BY <1>1, <1>3
  <2> QED
    BY <1>1, <1>3, <2>1, <2>2 DEF Scanned, Addresses
<1> QED
  BY <1>1, <1>2, <1>3

\* The two outcomes of an iteration.
LEMMA ScanSkips ==
    ASSUME NEW seen, NEW a \in Nat, Scan(seen, a), a \notin Usable
    PROVE  Scan(seen, a + 1)
<1>1. Usable \subseteq Nat
  BY DEF Usable, Addresses
<1>2. \A b \in Usable : b < a + 1 => b < a
  BY <1>1
<1>3. \A b \in Usable : b < a => b < a + 1
  BY <1>1
<1> QED
  BY <1>2, <1>3 DEF Scan

LEMMA ScanAppends ==
    ASSUME NEW seen \in Seq(Addresses), NEW a \in Usable, Scan(seen, a),
           net.base \in Nat, net.base <= a
    PROVE  Scan(Append(seen, a), a + 1)
<1> DEFINE n    == Len(seen) + 1
           more == Append(seen, a)
<1>1. Usable \subseteq Nat /\ a \in Addresses
  BY DEF Usable, Addresses
<1>2. /\ n \in Nat \ {0}
      /\ DOMAIN seen = 1 .. n - 1
      /\ DOMAIN more = 1 .. n
      /\ more[n] = a
      /\ \A i \in 1 .. n - 1 : more[i] = seen[i]
  BY <1>1
<1> HIDE DEF n, more
<1>3. \A i \in 1 .. n : i = n \/ i \in 1 .. n - 1
  BY <1>2
<1>4. \A i \in 1 .. n - 1 : i \in 1 .. n /\ i < n
  BY <1>2
<1>5. /\ \A i \in 1 .. n - 1 :
           more[i] \in Usable /\ net.base <= more[i] /\ more[i] < a
      /\ \A i, j \in 1 .. n - 1 : i < j => more[i] < more[j]
      /\ \A b \in Usable : net.base <= b /\ b < a => \E i \in 1 .. n - 1 : more[i] = b
  BY <1>2 DEF Scan
<1>6. \A i \in 1 .. n : more[i] \in Usable /\ net.base <= more[i] /\ more[i] < a + 1
  <2> TAKE i \in 1 .. n
  <2>1. CASE i = n
    BY <1>1, <1>2, <2>1
  <2>2. CASE i \in 1 .. n - 1
    <3>1. more[i] \in Usable /\ net.base <= more[i] /\ more[i] < a
      BY <1>5, <2>2
    <3>2. \A b \in Usable : b < a => b < a + 1
      BY <1>1
    <3> QED
      BY <3>1, <3>2
  <2> QED
    BY <1>3, <2>1, <2>2
<1>7. \A i, j \in 1 .. n : i < j => more[i] < more[j]
  <2> SUFFICES ASSUME NEW i \in 1 .. n, NEW j \in 1 .. n, i < j
               PROVE  more[i] < more[j]
    OBVIOUS
  <2>1. i \in 1 .. n - 1
    BY <1>2
  <2> QED
    BY <1>2, <1>3, <1>5, <2>1
<1>8. \A b \in Usable : net.base <= b /\ b < a + 1 => \E i \in 1 .. n : more[i] = b
  <2> SUFFICES ASSUME NEW b \in Usable, net.base <= b, b < a + 1
               PROVE  \E i \in 1 .. n : more[i] = b
    OBVIOUS
  <2>1. CASE b < a
    BY <1>4, <1>5, <2>1
  <2>2. CASE b = a
    <3>1. n \in 1 .. n
      BY <1>2
    <3> QED
      BY <1>2, <2>2, <3>1
  <2> QED
    BY <1>1, <2>1, <2>2
<1>9. Scan(more, a + 1)
  BY <1>2, <1>6, <1>7, <1>8 DEF Scan
<1> QED
  BY <1>9 DEF more

LEMMA ScanStep ==
    ASSUME AddrTypeOK, ScanInv, ScanNext
    PROVE  at' \in Addresses /\ result' \in Seq(Addresses) /\ ScanInv'
<1>1. /\ pc = "scan"
      /\ net \in Networks
      /\ net.bits > 0
      /\ at \in Addresses
      /\ at \in Nat
      /\ result \in Seq(Addresses)
      /\ UNCHANGED <<net, subnetBits, core>>
  BY DEF ScanNext, ScanInv, AddrTypeOK, Addresses
<1>2. /\ net.base \in Nat
      /\ Size(net.bits) \in Nat
      /\ Contains(net, at) <=> net.base <= at /\ at < net.base + Size(net.bits)
  BY <1>1, NetworkIsInterval, Sizes DEF Addresses
<1>3. Scan(result, Scanned)
  BY <1>1 DEF ScanInv
<1>4. CASE Contains(net, at) /\ at' = Increment(at) /\ UNCHANGED pc
           /\ result' = IF Skipped(at) THEN result ELSE Append(result, at)
  <2>1. /\ at' \in Addresses
        /\ Scanned = at
        /\ Scanned' = at + 1
        /\ at + 1 <= net.base + Size(net.bits)
    BY <1>1, <1>4, ScanMovesOn DEF Scanned
  <2>2. Scan(result', at + 1)
    <3>1. CASE Skipped(at)
      BY <1>1, <1>3, <1>4, <2>1, <3>1, ScanSkips DEF Usable
    <3>2. CASE ~ Skipped(at)
      BY <1>1, <1>2, <1>3, <1>4, <2>1, <3>2, ScanAppends DEF Usable
    <3> QED
      BY <3>1, <3>2
  <2>3. result' \in Seq(Addresses)
    BY <1>1, <1>4
  <2>4. ScanInv'
    <3>1. net.base <= at + 1
      BY <1>1, <1>2, <1>4
    <3>2. pc' = "scan"
      BY <1>1, <1>4
    <3>3. Scan(result, Scanned)'
      BY <1>1, <2>1, <2>2 DEF Scan, Usable, Skipped
    <3> QED
      BY <1>1, <2>1, <3>1, <3>2, <3>3 DEF ScanInv
  <2> QED
    BY <2>1, <2>3, <2>4
<1>5. CASE ~ Contains(net, at) /\ pc' = "scanned" /\ UNCHANGED <<at, result>>
  <2>1. UNCHANGED Scanned /\ ~ Contains(net, at)'
    BY <1>1, <1>5 DEF Scanned, Contains
  <2>2. Scan(result, Scanned)'
    BY <1>1, <1>3, <1>5, <2>1 DEF Scan, Usable, Skipped
  <2>3. ScanInv'
    BY <1>1, <1>5, <2>1, <2>2 DEF ScanInv
  <2> QED
    BY <1>1, <1>5, <2>3
<1> QED
  BY <1>4, <1>5 DEF ScanNext

\* What has been scanned in the end is the range.
LEMMA ScannedIsRange ==
    ASSUME AddrTypeOK, ScanInv
    PROVE  PoolIsTheRange
<1> SUFFICES ASSUME pc = "scanned"
             PROVE  PoolIsTheRange
  BY DEF PoolIsTheRange
<1>1. net \in Networks /\ at \in Nat /\ at < Space /\ Space \in Nat
  BY Sizes, WidthsAreNat DEF AddrTypeOK, Addresses
<1>2. /\ net.base \in Nat
      /\ Size(net.bits) \in Nat
      /\ net.base + Size(net.bits) <= Space
      /\ \A a \in Nat : Contains(net, a)
            <=> net.base <= a /\ a < net.base + Size(net.bits)
  BY <1>1, NetworkIsInterval, Sizes DEF Addresses
<1>3. Scanned = net.base + Size(net.bits)
  BY <1>1, <1>2 DEF ScanInv, Scanned
<1>4. ASSUME NEW a \in Addresses
      PROVE  Skipped(a) <=> \/ a = core
                            \/ a \in {Masked(a, AddrBits - OctetBits),
                                      Masked(a, AddrBits - OctetBits) + Octet - 1}
  <2>1. a \in Nat
    BY <1>1 DEF Addresses
  <2>2. Size(AddrBits - OctetBits) = Octet /\ Octet \in Nat \ {0}
    <3>1. AddrBits - (AddrBits - OctetBits) = OctetBits /\ OctetBits \in Nat
      BY WidthsAreNat
    <3> QED
      BY <3>1, Pow2Positive DEF Size, Octet
  <2>3. Masked(a, AddrBits - OctetBits) = a - (a % Octet)
    BY <2>2 DEF Masked
  <2>4. a % Octet \in 0 .. Octet - 1
    BY <2>1, <2>2, Division
  <2>5. Skipped(a) <=> a % Octet = 0 \/ a % Octet = Octet - 1 \/ a = core
    BY DEF Skipped
  <2> DEFINE r == a % Octet
  <2>6. r \in Nat
    BY <2>2, <2>4
  <2> HIDE DEF r
  <2>7. /\ a = a - r <=> r = 0
        /\ a = a - r + Octet - 1 <=> r = Octet - 1
    BY <2>1, <2>2, <2>6
  <2> QED
    BY <2>3, <2>5, <2>7 DEF r
<1>5. ASSUME NEW a \in Addresses
      PROVE  (\E i \in DOMAIN result : result[i] = a)
                <=> Contains(net, a) /\ ~ Skipped(a)
  <2>1. a \in Nat
    BY <1>1 DEF Addresses
  <2> QED
    BY <1>2, <1>3, <2>1 DEF ScanInv, Scan, Usable
<1>6. \A i, j \in DOMAIN result : i < j => result[i] < result[j]
  BY DEF ScanInv, Scan
<1> QED
  BY <1>4, <1>5, <1>6 DEF PoolIsTheRange

-----------------------------------------------------------------------------
(***************************************************************************)
(* The theorems, for addresses of any width: 32 bits and octets of 8       *)
(* included.                                                               *)
(***************************************************************************)

\* What the loop that is not running has to say of the state.
AddressingInv ==
    /\ AddrTypeOK
    /\ pc = "check" => at = 0 /\ result = <<>>
    /\ CarveInv
    /\ ScanInv

LEMMA AddressingInit == AddrInit => AddressingInv
<1> SUFFICES ASSUME AddrInit PROVE AddressingInv
  OBVIOUS
<1>1. net \in Networks /\ result = <<>>
  BY DEF AddrInit
<1>2. /\ net.base \in Addresses
      /\ net.base \in Nat
      /\ Size(net.bits) \in Nat \ {0}
      /\ Space \in Nat \ {0}
      /\ 0 \in Addresses
      /\ 0 \in 0 .. AddrBits + 1
  BY <1>1, NetworkIsInterval, Sizes, WidthsAreNat DEF Addresses
<1>3. CASE pc = "check" /\ subnetBits \in 0 .. AddrBits + 1 /\ core = 0 /\ at = 0
  BY <1>1, <1>2, <1>3 DEF AddressingInv, AddrTypeOK, CarveInv, ScanInv
<1>4. CASE /\ pc = "scan" /\ net.bits > 0 /\ subnetBits = 0
           /\ core \in Addresses /\ at = net.base
  <2>1. Scanned = net.base
    BY <1>2, <1>4 DEF Scanned
  <2>2. Scan(result, net.base)
    <3>1. DOMAIN result = {}
      BY <1>1
    <3>2. \A a \in Usable : a \in Nat
      BY DEF Usable, Addresses
    <3>3. \A a \in Usable : ~ (net.base <= a /\ a < net.base)
      BY <1>2, <3>2
    <3> QED
      BY <3>1, <3>3 DEF Scan
  <2>3. ScanInv
    <3>1. net.base <= Scanned /\ Scanned <= net.base + Size(net.bits)
      BY <1>2, <2>1
    <3> QED
      BY <1>4, <2>1, <2>2, <3>1 DEF ScanInv
  <2>4. AddrTypeOK
    BY <1>1, <1>2, <1>4 DEF AddrTypeOK
  <2> QED
    BY <1>4, <2>3, <2>4 DEF AddressingInv, CarveInv
<1> QED
  BY <1>3, <1>4 DEF AddrInit

LEMMA AddressingStep == AddressingInv /\ [AddrNext]_addrVars => AddressingInv'
<1> SUFFICES ASSUME AddressingInv, [AddrNext]_addrVars PROVE AddressingInv'
  OBVIOUS
<1>1. CASE RefuseBits
  BY <1>1 DEF RefuseBits, AddressingInv, AddrTypeOK, CarveInv, ScanInv
<1>2. CASE EnterCarve
  <2>1. /\ pc = "check" /\ pc' = "carve" /\ AcceptableBits
        /\ UNCHANGED <<net, subnetBits, core, at, result>>
        /\ at = 0 /\ result = <<>>
    BY <1>2 DEF EnterCarve, AddressingInv
  <2>2. Count \in Nat
    BY <2>1, SubnetsFill DEF AddressingInv
  <2>3. Count' = Count /\ AcceptableBits'
    BY <2>1 DEF Count, AcceptableBits
  <2>4. CarveInv'
    BY <2>1, <2>2, <2>3 DEF CarveInv
  <2> QED
    BY <2>1, <2>4 DEF AddressingInv, AddrTypeOK, ScanInv
<1>3. CASE CarveNext
  <2>1. at' \in Addresses /\ result' \in Seq(Addresses) /\ CarveInv'
    BY <1>3, CarveStep DEF AddressingInv
  <2>2. pc' \in {"carve", "carved"} /\ UNCHANGED <<net, subnetBits, core>>
    BY <1>3 DEF CarveNext
  <2> QED
    BY <2>1, <2>2 DEF AddressingInv, AddrTypeOK, ScanInv
<1>4. CASE ScanNext
  <2>1. at' \in Addresses /\ result' \in Seq(Addresses) /\ ScanInv'
    BY <1>4, ScanStep DEF AddressingInv
  <2>2. pc' \in {"scan", "scanned"} /\ UNCHANGED <<net, subnetBits, core>>
    BY <1>4 DEF ScanNext
  <2> QED
    BY <2>1, <2>2 DEF AddressingInv, AddrTypeOK, CarveInv
<1>5. CASE UNCHANGED addrVars
  BY <1>5 DEF addrVars, AddressingInv, AddrTypeOK, CarveInv, ScanInv, AcceptableBits,
              Count, Scanned, Scan, Usable, Skipped, Contains
<1> QED
  BY <1>1, <1>2, <1>3, <1>4, <1>5 DEF AddrNext

\* Both loops keep what they have built so far in order.
THEOREM AddressingInvariant == AddrSpec => []AddressingInv
BY AddressingInit, AddressingStep, PTL DEF AddrSpec

\* Loop variables stay addresses: nothing overflows.
THEOREM AddressingTypeCorrect == AddrSpec => []AddrTypeOK
<1>1. AddressingInv => AddrTypeOK
  BY DEF AddressingInv
<1> QED
  BY <1>1, AddressingInvariant, PTL

\* carve partitions every aggregate (allocator.go:154-175).
THEOREM CarvePartitions == AddrSpec => []AggregateIsPartitioned
<1>1. AddressingInv => AggregateIsPartitioned
  BY CarvedIsPartition DEF AddressingInv
<1> QED
  BY <1>1, AddressingInvariant, PTL

\* newWGIPAllocator offers the range it is given (registry.go:508-516).
THEOREM PoolOffersTheRange == AddrSpec => []PoolIsTheRange
<1>1. AddressingInv => PoolIsTheRange
  BY ScannedIsRange DEF AddressingInv
<1> QED
  BY <1>1, AddressingInvariant, PTL

\* Neither loop can go on for ever (allocator.go:167, registry.go:509).
THEOREM LoopsAlwaysShrink == AddrSpec => LoopsShrink
<1>1. ASSUME AddressingInv, [AddrNext]_addrVars
      PROVE  [StepsLeft' \in 0 .. StepsLeft - 1]_addrVars
  <2>1. net \in Networks /\ Space \in Nat \ {0}
    BY <1>1, Sizes, WidthsAreNat DEF AddressingInv, AddrTypeOK
  <2>2. net.base \in Nat /\ Size(net.bits) \in Nat \ {0}
    BY <2>1, NetworkIsInterval, Sizes DEF Addresses
  <2>3. CASE RefuseBits
    BY <2>1, <2>3 DEF RefuseBits, StepsLeft
  <2>4. CASE EnterCarve
    <3>1. /\ pc = "check" /\ pc' = "carve" /\ at' = 0
          /\ UNCHANGED <<net, subnetBits>> /\ AcceptableBits
      BY <1>1, <2>4 DEF EnterCarve, AddressingInv
    <3>2. Count \in Nat \ {0} /\ 2 * Count <= Space
      BY <1>1, <3>1, SubnetsFill DEF AddressingInv
    <3>3. StepsLeft = Space + 1 /\ StepsLeft' = Count + 1
      BY <3>1, <3>2 DEF StepsLeft, Count
    <3>4. StepsLeft' \in 0 .. StepsLeft - 1
      BY <2>1, <3>2, <3>3
    <3> QED
      BY <3>4
  <2>5. CASE CarveNext
    <3>1. /\ pc = "carve" /\ at \in Nat /\ at <= Count
          /\ UNCHANGED <<net, subnetBits>> /\ AcceptableBits
      BY <1>1, <2>5 DEF CarveNext, AddressingInv, AddrTypeOK, CarveInv, Addresses
    <3>2. Count \in Nat \ {0} /\ Count' = Count
      BY <1>1, <3>1, SubnetsFill DEF AddressingInv, Count
    <3>3. StepsLeft = Count - at + 1
      BY <3>1 DEF StepsLeft, Count
    <3>4. CASE at < Count /\ at' = at + 1 /\ pc' = pc
      <4>1. StepsLeft' = Count - (at + 1) + 1
        BY <3>1, <3>2, <3>4 DEF StepsLeft, Count
      <4> QED
        BY <3>1, <3>2, <3>3, <3>4, <4>1
    <3>5. CASE pc' = "carved"
      BY <3>1, <3>2, <3>3, <3>5 DEF StepsLeft
    <3> QED
      BY <2>5, <3>4, <3>5 DEF CarveNext, Count
  <2>6. CASE ScanNext
    <3>1. /\ pc = "scan" /\ net.bits > 0 /\ at \in Addresses /\ net' = net
          /\ net.base <= Scanned /\ Scanned <= net.base + Size(net.bits)
          /\ Scanned \in Nat
      BY <1>1, <2>1, <2>6 DEF ScanNext, AddressingInv, AddrTypeOK, ScanInv, Addresses, Scanned
    <3>2. StepsLeft = net.base + Size(net.bits) - Scanned + 1
      BY <3>1 DEF StepsLeft
    <3>3. CASE Contains(net, at) /\ at' = Increment(at) /\ pc' = pc
      <4>1. Scanned' = Scanned + 1 /\ Scanned + 1 <= net.base + Size(net.bits)
        BY <2>1, <3>1, <3>3, ScanMovesOn DEF Scanned
      <4>2. StepsLeft' = net.base + Size(net.bits) - (Scanned + 1) + 1
        BY <3>1, <3>3, <4>1 DEF StepsLeft
      <4> QED
        BY <2>2, <3>1, <3>2, <4>1, <4>2
    <3>4. CASE pc' = "scanned"
      BY <2>2, <3>1, <3>2, <3>4 DEF StepsLeft
    <3> QED
      BY <2>6, <3>3, <3>4 DEF ScanNext
  <2>7. CASE UNCHANGED addrVars
    BY <2>7
  <2> QED
    BY <1>1, <2>3, <2>4, <2>5, <2>6, <2>7 DEF AddrNext
<1> QED
  BY <1>1, AddressingInvariant, PTL DEF AddrSpec, LoopsShrink
=============================================================================
