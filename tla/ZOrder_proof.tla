----------------------------- MODULE ZOrder_proof -----------------------------
(***************************************************************************)
(* Proofs about ZOrder: whatever windows the desktop adds, raises, hides   *)
(* and removes, the links of the znodes are those of one list per level,   *)
(* and the active window is the one that has been told so.                 *)
(***************************************************************************)
EXTENDS ZOrder, SequenceTheorems, FiniteSetTheorems, WellFoundedInduction, TLAPS

(* c has no slot twice in the places 1 .. n, and s in none of them.        *)
OneToOne(c, n)  == \A i, j \in 1 .. n : c[i] = c[j] => i = j
Absent(c, n, s) == \A i \in 1 .. n : c[i] # s

(* The list of a level, as the function c of the places 1 .. n, with 0     *)
(* before the first and behind the last: f is its first slot, and nx and   *)
(* pv are its links.                                                       *)
Links(c, n, f, nx, pv) ==
    /\ c[0] = 0 /\ c[n + 1] = 0 /\ f = c[1]
    /\ \A i \in 1 .. n : c[i] # 0 /\ nx[c[i]] = c[i + 1] /\ pv[c[i]] = c[i - 1]
    /\ OneToOne(c, n)

(* s put in behind place k, and the slot of place k taken out.             *)
Ins(c, k, s) == [i \in Nat |-> IF i <= k THEN c[i] ELSE IF i = k + 1 THEN s ELSE c[i - 1]]
Del(c, k)    == [i \in Nat |-> IF i < k THEN c[i] ELSE c[i + 1]]

Chains == [Nat -> Slots]
Used(l) == {s \in Slots : hwnd[s] \in Windows /\ TypeOf[hwnd[s]] = l}

-----------------------------------------------------------------------------
LEMMA InsertLinks ==
  ASSUME NEW c \in Chains, NEW n \in Nat, NEW f, NEW nx, NEW pv, Links(c, n, f, nx, pv),
         NEW k \in 0 .. n, NEW s \in Slots \ {0}, Absent(c, n, s),
         NEW f2, NEW nx2, NEW pv2,
         f2 = IF k = 0 THEN s ELSE f,
         \A x \in Slots \ {0} :
            /\ nx2[x] = IF x = s THEN c[k + 1] ELSE IF x = c[k] THEN s ELSE nx[x]
            /\ pv2[x] = IF x = s THEN c[k] ELSE IF x = c[k + 1] THEN s ELSE pv[x]
  PROVE  Ins(c, k, s) \in Chains /\ Links(Ins(c, k, s), n + 1, f2, nx2, pv2)
  <1> USE DEF OneToOne, Absent
  <1> DEFINE d == Ins(c, k, s)
  <1>1. d \in Chains
    BY DEF Ins, Chains
  <1>2. \A i \in Nat : d[i] = IF i <= k THEN c[i] ELSE IF i = k + 1 THEN s ELSE c[i - 1]
    BY DEF Ins
  <1> HIDE DEF d
  <1>3. \A i \in Nat : c[i] \in Slots
    BY DEF Chains
  <1>4. d[0] = 0 /\ d[(n + 1) + 1] = 0 /\ f2 = d[1]
    BY <1>2 DEF Links
  <1>5. ASSUME NEW i \in 1 .. n + 1
        PROVE  d[i] # 0 /\ nx2[d[i]] = d[i + 1] /\ pv2[d[i]] = d[i - 1]
    <2>1. CASE i <= k
      <3>1. i \in 1 .. n /\ d[i] = c[i] /\ c[i] \in Slots \ {0} /\ c[i] # s /\ d[i - 1] = c[i - 1]
        BY <1>2, <1>3, <2>1 DEF Links
      <3>2. c[i] # c[k + 1]
        BY <2>1, <3>1 DEF Links
      <3>3. pv2[c[i]] = c[i - 1]
        BY <3>1, <3>2 DEF Links
      <3>4. nx2[c[i]] = d[i + 1]
        <4>1. CASE i = k
          BY <1>2, <3>1, <4>1
        <4>2. CASE i # k
          <5>1. c[i] # c[k] /\ d[i + 1] = c[i + 1]
            BY <1>2, <2>1, <3>1, <4>2 DEF Links
          <5>2. QED
            BY <3>1, <5>1 DEF Links
        <4>3. QED
          BY <4>1, <4>2
      <3>5. QED
        BY <3>1, <3>3, <3>4
    <2>2. CASE i = k + 1
      BY <1>2, <2>2
    <2>3. CASE i > k + 1
      <3>1. i - 1 \in 1 .. n /\ d[i] = c[i - 1] /\ d[i + 1] = c[i]
        BY <1>2, <2>3
      <3>2. c[i - 1] \in Slots \ {0} /\ c[i - 1] # s /\ c[i - 1] # c[k]
        BY <1>3, <2>3, <3>1 DEF Links
      <3>3. nx2[c[i - 1]] = c[i]
        BY <3>1, <3>2 DEF Links
      <3>4. pv2[c[i - 1]] = d[i - 1]
        <4>1. CASE i = k + 2
          BY <1>2, <3>1, <3>2, <4>1
        <4>2. CASE i # k + 2
          <5>1. c[i - 1] # c[k + 1] /\ d[i - 1] = c[(i - 1) - 1]
            BY <1>2, <2>3, <3>1, <4>2 DEF Links
          <5>2. QED
            BY <3>1, <3>2, <5>1 DEF Links
        <4>3. QED
          BY <4>1, <4>2
      <3>5. QED
        BY <3>1, <3>2, <3>3, <3>4
    <2>4. QED
      BY <2>1, <2>2, <2>3
  <1>6. ASSUME NEW i \in 1 .. n + 1, NEW j \in 1 .. n + 1, d[i] = d[j] PROVE i = j
    BY <1>2, <1>6 DEF Links
  <1>7. QED
    BY <1>1, <1>4, <1>5, <1>6 DEF Links, d

(* nx2 and pv2 pass by place k.                                            *)
RelinkedAround(c, k, nx, pv, nx2, pv2) ==
    \A x \in Slots \ {0, c[k]} :
       /\ nx2[x] = IF x = c[k - 1] THEN c[k + 1] ELSE nx[x]
       /\ pv2[x] = IF x = c[k + 1] THEN c[k - 1] ELSE pv[x]

LEMMA DeleteLinks ==
  ASSUME NEW c \in Chains, NEW n \in Nat, NEW f, NEW nx, NEW pv, Links(c, n, f, nx, pv),
         NEW k \in 1 .. n,
         NEW f2, NEW nx2, NEW pv2,
         f2 = IF k = 1 THEN c[2] ELSE f, RelinkedAround(c, k, nx, pv, nx2, pv2)
  PROVE  Del(c, k) \in Chains /\ Links(Del(c, k), n - 1, f2, nx2, pv2)
  <1> USE DEF RelinkedAround, OneToOne
  <1> DEFINE d == Del(c, k)
  <1>1. d \in Chains
    BY DEF Del, Chains
  <1>2. \A i \in Nat : d[i] = IF i < k THEN c[i] ELSE c[i + 1]
    BY DEF Del
  <1> HIDE DEF d
  <1>3. \A i \in Nat : c[i] \in Slots
    BY DEF Chains
  <1>4. d[0] = 0 /\ d[(n - 1) + 1] = 0 /\ f2 = d[1]
    BY <1>2 DEF Links
  <1>5. ASSUME NEW i \in 1 .. n - 1
        PROVE  d[i] # 0 /\ nx2[d[i]] = d[i + 1] /\ pv2[d[i]] = d[i - 1]
    <2>1. CASE i < k
      <3>1. i \in 1 .. n /\ d[i] = c[i] /\ c[i] \in Slots \ {0, c[k]} /\ d[i - 1] = c[i - 1]
        BY <1>2, <1>3, <2>1 DEF Links
      <3>2. c[i] # c[k + 1]
        BY <2>1, <3>1 DEF Links
      <3>3. pv2[c[i]] = c[i - 1]
        BY <3>1, <3>2 DEF Links
      <3>4. nx2[c[i]] = d[i + 1]
        <4>1. CASE i = k - 1
          BY <1>2, <3>1, <4>1
        <4>2. CASE i # k - 1
          <5>1. c[i] # c[k - 1] /\ d[i + 1] = c[i + 1]
            BY <1>2, <2>1, <3>1, <4>2 DEF Links
          <5>2. QED
            BY <3>1, <5>1 DEF Links
        <4>3. QED
          BY <4>1, <4>2
      <3>5. QED
        BY <3>1, <3>3, <3>4 DEF Links
    <2>2. CASE i >= k
      <3>1. /\ i + 1 \in 1 .. n /\ d[i] = c[i + 1] /\ d[i + 1] = c[(i + 1) + 1]
            /\ c[i + 1] \in Slots \ {0, c[k]}
        BY <1>2, <1>3, <2>2 DEF Links
      <3>2. c[i + 1] # c[k - 1]
        BY <2>2, <3>1 DEF Links
      <3>3. nx2[c[i + 1]] = c[(i + 1) + 1]
        BY <3>1, <3>2 DEF Links
      <3>4. pv2[c[i + 1]] = d[i - 1]
        <4>1. CASE i = k
          BY <1>2, <3>1, <4>1
        <4>2. CASE i # k
          <5>1. c[i + 1] # c[k + 1] /\ d[i - 1] = c[(i + 1) - 1]
            BY <1>2, <2>2, <3>1, <4>2 DEF Links
          <5>2. QED
            BY <3>1, <5>1 DEF Links
        <4>3. QED
          BY <4>1, <4>2
      <3>5. QED
        BY <3>1, <3>3, <3>4
    <2>3. QED
      BY <2>1, <2>2
  <1>6. ASSUME NEW i \in 1 .. n - 1, NEW j \in 1 .. n - 1, d[i] = d[j] PROVE i = j
    BY <1>2, <1>6 DEF Links
  <1>7. QED
    BY <1>1, <1>4, <1>5, <1>6 DEF Links, d

(* The links of the other lists stay as they are.                          *)
LEMMA OtherLinks ==
  ASSUME NEW c \in Chains, NEW n \in Nat, NEW f, NEW nx, NEW pv, Links(c, n, f, nx, pv),
         NEW nx2, NEW pv2,
         \A i \in 1 .. n : nx2[c[i]] = nx[c[i]] /\ pv2[c[i]] = pv[c[i]]
  PROVE  Links(c, n, f, nx2, pv2)
  BY DEF Links
-----------------------------------------------------------------------------
(* From, along a list that is right, gives its slots and stops.            *)
LEMMA LeastNat ==
  ASSUME NEW S \in SUBSET Nat, S # {}
  PROVE  \E m \in S : \A k \in S : m <= k
  <1> DEFINE R == OpToRel(<, Nat)
  <1>1. IsWellFoundedOn(R, Nat)
    BY NatLessThanWellFounded
  <1> HIDE DEF R
  <1>2. \A k, m \in Nat : k < m => <<k, m>> \in R
    BY DEF R, OpToRel
  <1>3. PICK m \in S : \A k \in S : ~(<<k, m>> \in R)
    BY <1>1, WFMin
  <1>4. ASSUME NEW k \in S PROVE m <= k
    <2>1. ~(k < m)
      BY <1>2, <1>3
    <2>2. QED
      BY <2>1
  <1>5. QED
    BY <1>4

LEMMA ShortEnough ==
  ASSUME NEW c \in Chains, NEW n \in Nat, NEW f, NEW nx, NEW pv, Links(c, n, f, nx, pv),
         NrSlots \in Nat \ {0}
  PROVE  n < NrSlots
  <1> DEFINE g == [i \in 1 .. n |-> c[i]]
             T == 1 .. NrSlots - 1
  <1>1. g \in [1 .. n -> T]
    BY DEF Links, Chains, Slots
  <1>2. \A i, j \in 1 .. n : g[i] = g[j] => i = j
    BY DEF Links, OneToOne
  <1>3. IsFiniteSet(1 .. n) /\ Cardinality(1 .. n) = n
    BY FS_Interval
  <1>4. IsFiniteSet(T) /\ Cardinality(T) = NrSlots - 1
    BY FS_Interval
  <1> HIDE DEF g, T
  <1>5. g \in Injection(1 .. n, T)
    BY <1>1, <1>2 DEF Injection, IsInjective
  <1>6. Cardinality(1 .. n) <= Cardinality(T)
    BY <1>3, <1>4, <1>5, FS_Injection DEF ExistsInjection
  <1>7. QED
    BY <1>3, <1>4, <1>6

LEMMA FromIs ==
  ASSUME NEW c \in Chains, NEW n \in Nat, NEW f, NEW nx, NEW pv, Links(c, n, f, nx, pv),
         NrSlots \in Nat \ {0}, nx[0] = 0
  PROVE  From(f, nx) = [i \in 1 .. n |-> c[i]]
  <1> DEFINE IsAt(at) == at = [m \in 0 .. NrSlots |-> IF m = 0 THEN f ELSE nx[at[m - 1]]]
             at == CHOOSE at : IsAt(at)
             g == [m \in 0 .. NrSlots |-> IF m < n THEN c[m + 1] ELSE 0]
  <1>1. n < NrSlots
    BY ShortEnough
  <1>2. IsAt(g)
    <2> DEFINE h == [m \in 0 .. NrSlots |-> IF m = 0 THEN f ELSE nx[g[m - 1]]]
    <2>1. ASSUME NEW m \in 0 .. NrSlots PROVE g[m] = IF m = 0 THEN f ELSE nx[g[m - 1]]
      <3>1. CASE m = 0
        BY <3>1 DEF Links
      <3>2. CASE m \in 1 .. n
        <4>1. g[m - 1] = c[m] /\ nx[c[m]] = c[m + 1]
          BY <1>1, <3>2 DEF Links
        <4>2. g[m] = c[m + 1]
          BY <1>1, <3>2 DEF Links
        <4>3. QED
          BY <3>2, <4>1, <4>2
      <3>3. CASE m > n
        <4>1. g[m - 1] = 0 /\ g[m] = 0
          BY <3>3
        <4>2. QED
          BY <3>3, <4>1
      <3>4. QED
        BY <3>1, <3>2, <3>3
    <2>2. g = h
      BY <2>1
    <2>3. QED
      BY <2>2
  <1>3. IsAt(at)
    BY <1>2
  <1>4. \A m \in 0 .. NrSlots : at[m] = IF m = 0 THEN f ELSE nx[at[m - 1]]
    <2> HIDE DEF at
    <2>1. QED
      BY <1>3
  <1>5. \A m \in 0 .. NrSlots : g[m] = IF m = 0 THEN f ELSE nx[g[m - 1]]
    <2> HIDE DEF g
    <2>1. QED
      BY <1>2
  <1>6. ASSUME NEW m0 \in 0 .. NrSlots PROVE at[m0] = g[m0]
    <2> HIDE DEF at, g
    <2> DEFINE S == {m \in 0 .. NrSlots : at[m] # g[m]}
    <2>1. SUFFICES ASSUME S # {} PROVE FALSE
      OBVIOUS
    <2>2. S \in SUBSET Nat
      OBVIOUS
    <2>3. PICK m \in S : \A k \in S : m <= k
      BY <2>1, <2>2, LeastNat
    <2>4. CASE m = 0
      BY <1>4, <1>5, <2>3, <2>4
    <2>5. CASE m # 0
      <3>1. m - 1 \in 0 .. NrSlots /\ m - 1 \notin S
        BY <2>3, <2>5
      <3>2. at[m - 1] = g[m - 1]
        BY <3>1
      <3>3. QED
        BY <1>4, <1>5, <2>3, <2>5, <3>2
    <2>6. QED
      BY <2>4, <2>5
  <1>7. {k \in 0 .. NrSlots : at[k] # 0} = 0 .. n - 1
    <2>1. \A k \in 0 .. NrSlots : at[k] # 0 <=> k < n
      <3>1. \A k \in 0 .. NrSlots : k < n => c[k + 1] # 0
        BY DEF Links
      <3>2. \A k \in 0 .. NrSlots : g[k] = IF k < n THEN c[k + 1] ELSE 0
        OBVIOUS
      <3> HIDE DEF at, g
      <3>3. QED
        BY <1>6, <3>1, <3>2
    <2> HIDE DEF at
    <2>2. QED
      BY <1>1, <2>1
  <1>8. Cardinality(0 .. n - 1) = n
    BY FS_Interval
  <1>9. From(f, nx) = [i \in 1 .. Cardinality({k \in 0 .. NrSlots : at[k] # 0}) |-> at[i - 1]]
    BY DEF From
  <1>10. \A i \in 1 .. n : at[i - 1] = c[i]
    <2>1. \A k \in 0 .. NrSlots : g[k] = IF k < n THEN c[k + 1] ELSE 0
      OBVIOUS
    <2> HIDE DEF at, g
    <2>2. QED
      BY <1>1, <1>6, <2>1
  <1> HIDE DEF at
  <1>11. QED
    BY <1>7, <1>8, <1>9, <1>10

-----------------------------------------------------------------------------
(* The last of those at the front that are always on top, and what putting *)
(* a znode behind it does.                                                 *)
LEMMA MostNat ==
  ASSUME NEW n \in Nat, NEW S \in SUBSET (0 .. n), S # {}
  PROVE  Max(S) \in S /\ \A k \in S : k <= Max(S)
  <1> DEFINE T == {m \in 0 .. n : n - m \in S}
  <1>1. T \in SUBSET Nat /\ T # {}
    <2>1. PICK k \in S : TRUE
      OBVIOUS
    <2>2. n - k \in 0 .. n /\ n - (n - k) = k
      BY <2>1
    <2>3. n - k \in T
      BY <2>1, <2>2
    <2>4. T \in SUBSET Nat
      OBVIOUS
    <2> HIDE DEF T
    <2>5. QED
      BY <2>3, <2>4
  <1> HIDE DEF T
  <1>2. PICK m \in T : \A k \in T : m <= k
    BY <1>1, LeastNat
  <1>3. n - m \in S /\ m \in 0 .. n
    BY <1>2 DEF T
  <1>4. ASSUME NEW k \in S PROVE k <= n - m
    <2>1. k \in 0 .. n /\ n - k \in 0 .. n /\ n - (n - k) = k
      BY <1>4
    <2>2. n - k \in T
      BY <1>4, <2>1 DEF T
    <2>3. QED
      BY <1>2, <1>3, <2>1, <2>2
  <1>5. \E x \in S : \A y \in S : x >= y
    BY <1>3, <1>4
  <1>6. Max(S) \in S /\ \A y \in S : Max(S) >= y
    BY <1>5 DEF Max
  <1>7. QED
    BY <1>6

LEMMA LastTopIs ==
  ASSUME NEW c \in Chains, NEW n \in Nat, NEW f, NEW nx, NEW pv, Links(c, n, f, nx, pv),
         NrSlots \in Nat \ {0}, nx[0] = 0, NEW tops
  PROVE  \E k \in 0 .. n :
            /\ LastTop(f, nx, tops) = c[k]
            /\ \A i \in 1 .. k : hwnd[c[i]] \in tops
            /\ k < n => hwnd[c[k + 1]] \notin tops
  <1> DEFINE chain == From(f, nx)
             S == {m \in 0 .. Len(chain) : \A i \in 1 .. m : hwnd[chain[i]] \in tops}
             k == Max(S)
  <1>1. chain = [i \in 1 .. n |-> c[i]]
    BY FromIs
  <1> HIDE DEF chain
  <1>2. Len(chain) = n /\ \A i \in 1 .. n : chain[i] = c[i]
    BY <1>1
  <1>3. S = {m \in 0 .. n : \A i \in 1 .. m : hwnd[c[i]] \in tops}
    BY <1>2
  <1>4. 0 \in S
    BY <1>3
  <1>5. LastTop(f, nx, tops) = IF k = 0 THEN 0 ELSE chain[k]
    BY DEF LastTop, chain
  <1> HIDE DEF S
  <1>6. S \in SUBSET (0 .. n) /\ S # {}
    BY <1>3, <1>4
  <1>7. Max(S) \in S /\ \A m \in S : m <= Max(S)
    BY <1>6, MostNat
  <1> HIDE DEF k
  <1>8. k \in 0 .. n /\ \A i \in 1 .. k : hwnd[c[i]] \in tops
    BY <1>3, <1>7 DEF k
  <1>9. k < n => hwnd[c[k + 1]] \notin tops
    <2>1. ASSUME k < n, hwnd[c[k + 1]] \in tops PROVE FALSE
      <3>1. k + 1 \in S
        BY <1>3, <1>8, <2>1
      <3>2. QED
        BY <1>7, <1>8, <3>1 DEF k
    <2>2. QED
      BY <2>1
  <1>10. LastTop(f, nx, tops) = c[k]
    BY <1>2, <1>5, <1>8 DEF Links
  <1>11. QED
    BY <1>8, <1>9, <1>10

(* Behind place k of the list c come those that are not always on top.     *)
Below(c, n, k, tops) ==
    /\ k \in 0 .. n
    /\ \A i \in 1 .. k : hwnd[c[i]] \in tops
    /\ k < n => hwnd[c[k + 1]] \notin tops

(* s has been put into the list c of level t, whose links were nx and pv.  *)
PutBelow(c, n, t, s, nx, pv, tops) ==
    /\ \E k \in 0 .. n :
          /\ Below(c, n, k, tops)
          /\ Ins(c, k, s) \in Chains
          /\ Links(Ins(c, k, s), n + 1, first'[t], next', prev')
    /\ next' \in [Slots -> Slots] /\ prev' \in [Slots -> Slots] /\ next'[0] = 0
    /\ first' \in [Levels -> Slots] /\ \A l \in Levels \ {t} : first'[l] = first[l]
    /\ \A x \in Slots \ {0, s} : Absent(c, n, x) => next'[x] = nx[x] /\ prev'[x] = pv[x]

LEMMA PutFirstLinks ==
  ASSUME NEW c \in Chains, NEW n \in Nat, NEW w, NEW s \in Slots \ {0}, NEW tops,
         NEW nx \in [Slots -> Slots], NEW pv \in [Slots -> Slots],
         TypeOf[w] \in Levels, first \in [Levels -> Slots],
         Links(c, n, List(w), nx, pv), Absent(c, n, s),
         NrSlots \in Nat \ {0}, nx[0] = 0,
         PutFirst(w, s, nx, pv, tops)
  PROVE  PutBelow(c, n, TypeOf[w], s, nx, pv, tops)
  <1>1. PICK k \in 0 .. n :
            /\ LastTop(List(w), nx, tops) = c[k]
            /\ \A i \in 1 .. k : hwnd[c[i]] \in tops
            /\ k < n => hwnd[c[k + 1]] \notin tops
    BY LastTopIs
  <1>2. /\ c[k] \in Slots /\ c[k + 1] \in Slots /\ c[k] # s
        /\ c[k] = 0 <=> k = 0
        /\ 0 \in Slots
    <2>1. 0 \in Slots /\ k \in Nat /\ k + 1 \in Nat
      BY DEF Slots
    <2>2. c[0] = 0 /\ \A i \in 1 .. n : c[i] # 0 /\ c[i] # s
      BY DEF Links, Absent
    <2>3. c[k] \in Slots /\ c[k + 1] \in Slots
      BY <2>1 DEF Chains
    <2>4. QED
      BY <2>1, <2>2, <2>3
  <1>3. /\ next' \in [Slots -> Slots] /\ prev' \in [Slots -> Slots] /\ next'[0] = 0
        /\ first' \in [Levels -> Slots] /\ \A l \in Levels \ {TypeOf[w]} : first'[l] = first[l]
        /\ first'[TypeOf[w]] = IF k = 0 THEN s ELSE List(w)
        /\ \A x \in Slots \ {0} :
            /\ next'[x] = IF x = s THEN c[k + 1] ELSE IF x = c[k] THEN s ELSE nx[x]
            /\ prev'[x] = IF x = s THEN c[k] ELSE IF x = c[k + 1] THEN s ELSE pv[x]
    <2>1. CASE k = 0
      <3>1. /\ first' = [first EXCEPT ![TypeOf[w]] = s]
            /\ next' = [nx EXCEPT ![s] = List(w)]
            /\ prev' = Set([pv EXCEPT ![s] = 0], List(w), s)
        BY <1>1, <1>2, <2>1 DEF PutFirst
      <3>2. List(w) = c[1] /\ c[0] = 0 /\ c[1] \in Slots /\ c[1] # s
        BY <1>2, <2>1 DEF Links, Absent
      <3>3. \A x \in Slots \ {0} :
               /\ next'[x] = IF x = s THEN c[1] ELSE nx[x]
               /\ prev'[x] = IF x = s THEN 0 ELSE IF x = c[1] THEN s ELSE pv[x]
        BY <3>1, <3>2 DEF Set
      <3>4. next' \in [Slots -> Slots] /\ prev' \in [Slots -> Slots] /\ next'[0] = 0
        BY <1>2, <3>1, <3>2 DEF Set
      <3>5. first' \in [Levels -> Slots] /\ first'[TypeOf[w]] = s
            /\ \A l \in Levels \ {TypeOf[w]} : first'[l] = first[l]
        BY <3>1
      <3>6. QED
        BY <2>1, <3>2, <3>3, <3>4, <3>5
    <2>2. CASE k # 0
      <3>1. /\ next' = [nx EXCEPT ![s] = nx[c[k]], ![c[k]] = s]
            /\ prev' = Set([pv EXCEPT ![s] = c[k]], nx[c[k]], s)
            /\ first' = first
        BY <1>1, <1>2, <2>2 DEF PutFirst
      <3>2. nx[c[k]] = c[k + 1] /\ c[k] # 0 /\ c[k + 1] # s
        BY <1>2, <2>2 DEF Links, Absent
      <3>3. \A x \in Slots \ {0} :
               /\ next'[x] = IF x = s THEN c[k + 1] ELSE IF x = c[k] THEN s ELSE nx[x]
               /\ prev'[x] = IF x = s THEN c[k] ELSE IF x = c[k + 1] THEN s ELSE pv[x]
        BY <1>2, <3>1, <3>2 DEF Set
      <3>4. next' \in [Slots -> Slots] /\ prev' \in [Slots -> Slots] /\ next'[0] = 0
        BY <1>2, <3>1, <3>2 DEF Set
      <3>5. QED
        BY <2>2, <3>1, <3>3, <3>4 DEF List
    <2>3. QED
      BY <2>1, <2>2
  <1>4. Ins(c, k, s) \in Chains /\ Links(Ins(c, k, s), n + 1, first'[TypeOf[w]], next', prev')
    <2>1. ASSUME NEW f2, NEW nx2, NEW pv2,
                 f2 = IF k = 0 THEN s ELSE List(w),
                 \A x \in Slots \ {0} :
                    /\ nx2[x] = IF x = s THEN c[k + 1] ELSE IF x = c[k] THEN s ELSE nx[x]
                    /\ pv2[x] = IF x = s THEN c[k] ELSE IF x = c[k + 1] THEN s ELSE pv[x]
          PROVE  Ins(c, k, s) \in Chains /\ Links(Ins(c, k, s), n + 1, f2, nx2, pv2)
      BY <2>1, InsertLinks
    <2>2. QED
      BY <1>3, <2>1
  <1>5. \A x \in Slots \ {0, s} : (\A i \in 1 .. n : c[i] # x) =>
               next'[x] = nx[x] /\ prev'[x] = pv[x]
    BY <1>3 DEF Links
  <1>6. QED
    BY <1>1, <1>3, <1>4, <1>5 DEF PutBelow, Below, Absent

-----------------------------------------------------------------------------
(* The lists are right, with c[l] the list of level l.                     *)
ListInv(c) ==
    /\ hwnd \in [Slots -> Windows \cup {Desktop, NULL}]
    /\ next \in [Slots -> Slots] /\ prev \in [Slots -> Slots] /\ next[0] = 0
    /\ first \in [Levels -> Slots] /\ nr \in [Levels -> Nat]
    /\ \A s \in Slots : hwnd[s] = Desktop <=> s = 0
    /\ \A s, r \in Slots : hwnd[s] \in Windows /\ hwnd[s] = hwnd[r] => s = r
    /\ \A l \in Levels :
          /\ Links(c[l], nr[l], first[l], next, prev)
          /\ \A s \in Slots : s \in Used(l) <=> ~Absent(c[l], nr[l], s)

LEMMA Constants ==
  /\ NrSlots \in Nat \ {0} /\ 0 \in Slots
  /\ \A l \in Levels : Room(l) \subseteq Slots \ {0}
  /\ TypeOf \in [Windows -> Levels]
  /\ Windows \cap {Desktop, NULL} = {} /\ Desktop # NULL
  /\ Windows = Mains \cup Tools \cup Ctrls
  BY ZOrderAssumption DEF ZOrderAssumption, Slots, Room, Windows, Tops

(* A window that is there has one slot, which has one place in its list.   *)
LEMMA SlotIs ==
  ASSUME NEW c \in [Levels -> Chains], ListInv(c), NEW w \in There
  PROVE  /\ w \in Windows /\ Slot(w) \in Slots \ {0} /\ hwnd[Slot(w)] = w
         /\ \A s \in Slots : hwnd[s] = w => s = Slot(w)
         /\ \E k \in 1 .. nr[TypeOf[w]] : c[TypeOf[w]][k] = Slot(w)
  <1>1. w \in Windows /\ \E s \in Slots : hwnd[s] = w
    BY DEF There, Range, ListInv
  <1>2. Slot(w) \in Slots /\ hwnd[Slot(w)] = w
    BY <1>1 DEF Slot
  <1>3. Slot(w) # 0
    BY <1>1, <1>2, Constants DEF ListInv
  <1>4. \A s \in Slots : hwnd[s] = w => s = Slot(w)
    BY <1>1, <1>2 DEF ListInv
  <1>5. Slot(w) \in Used(TypeOf[w]) /\ TypeOf[w] \in Levels
    BY <1>1, <1>2, Constants DEF Used
  <1>6. QED
    BY <1>1, <1>2, <1>3, <1>4, <1>5 DEF ListInv, Absent

(* A place of a level is the slot of a window of that level.               *)
LEMMA PlaceIs ==
  ASSUME NEW c \in [Levels -> Chains], ListInv(c), NEW l \in Levels, NEW i \in 1 .. nr[l]
  PROVE  /\ c[l][i] \in Slots \ {0} /\ c[l][i] \in Used(l)
         /\ hwnd[c[l][i]] \in There /\ TypeOf[hwnd[c[l][i]]] = l
  <1>1. c[l][i] \in Slots
    <2>1. i \in Nat /\ c[l] \in Chains
      BY DEF ListInv
    <2>2. QED
      BY <2>1 DEF Chains
  <1>2. c[l][i] \in Used(l) /\ c[l][i] # 0
    BY <1>1 DEF ListInv, Links, Absent
  <1>3. QED
    BY <1>1, <1>2 DEF Used, There, Range, ListInv

LEMMA InsRange ==
  ASSUME NEW c, NEW n \in Nat, NEW k \in 0 .. n, NEW s, NEW x
  PROVE  Absent(Ins(c, k, s), n + 1, x) <=> x # s /\ Absent(c, n, x)
  <1>1. \A i \in Nat : Ins(c, k, s)[i] = IF i <= k THEN c[i] ELSE IF i = k + 1 THEN s ELSE c[i - 1]
    BY DEF Ins
  <1>2. ASSUME NEW i \in 1 .. n, c[i] = x PROVE \E j \in 1 .. n + 1 : Ins(c, k, s)[j] = x
    <2>1. CASE i <= k
      <3>1. i \in 1 .. n + 1 /\ Ins(c, k, s)[i] = x
        BY <1>1, <1>2, <2>1
      <3>2. QED
        BY <3>1
    <2>2. CASE i > k
      <3>1. i + 1 \in 1 .. n + 1 /\ (i + 1) - 1 = i
        OBVIOUS
      <3>2. Ins(c, k, s)[i + 1] = x
        BY <1>1, <1>2, <2>2, <3>1
      <3>3. QED
        BY <3>1, <3>2
    <2>3. QED
      BY <2>1, <2>2
  <1>3. k + 1 \in 1 .. n + 1 /\ Ins(c, k, s)[k + 1] = s
    BY <1>1
  <1>4. ASSUME NEW i \in 1 .. n + 1, Ins(c, k, s)[i] = x
        PROVE  x = s \/ \E j \in 1 .. n : c[j] = x
    <2>1. (i > k + 1 => i - 1 \in 1 .. n) /\ (i <= k => i \in 1 .. n)
      OBVIOUS
    <2>2. QED
      BY <1>1, <1>4, <2>1
  <1>5. QED
    BY <1>2, <1>3, <1>4 DEF Absent

LEMMA DelRange ==
  ASSUME NEW c, NEW n \in Nat, NEW k \in 1 .. n, NEW x,
         OneToOne(c, n)
  PROVE  Absent(Del(c, k), n - 1, x) <=> x = c[k] \/ Absent(c, n, x)
  <1>1. \A i \in Nat : Del(c, k)[i] = IF i < k THEN c[i] ELSE c[i + 1]
    BY DEF Del
  <1>2. ASSUME NEW i \in 1 .. n, c[i] = x, x # c[k] PROVE \E j \in 1 .. n - 1 : Del(c, k)[j] = x
    <2>1. CASE i < k
      <3>1. i \in 1 .. n - 1 /\ Del(c, k)[i] = x
        BY <1>1, <1>2, <2>1
      <3>2. QED
        BY <3>1
    <2>2. CASE i > k
      <3>1. i - 1 \in 1 .. n - 1 /\ (i - 1) + 1 = i
        BY <2>2
      <3>2. Del(c, k)[i - 1] = x
        BY <1>1, <1>2, <2>2, <3>1
      <3>3. QED
        BY <3>1, <3>2
    <2>3. QED
      BY <1>2, <2>1, <2>2 DEF OneToOne
  <1>3. ASSUME NEW i \in 1 .. n - 1, Del(c, k)[i] = x
        PROVE  x # c[k] /\ \E j \in 1 .. n : c[j] = x
    <2>1. i \in 1 .. n /\ i + 1 \in 1 .. n
      OBVIOUS
    <2>2. CASE i < k
      BY <1>1, <1>3, <2>1, <2>2 DEF OneToOne
    <2>3. CASE i >= k
      BY <1>1, <1>3, <2>1, <2>3 DEF OneToOne
    <2>4. QED
      BY <2>2, <2>3
  <1>4. QED
    BY <1>2, <1>3 DEF Absent

(* What is changed for s in the list of t does not touch another list.     *)
LEMMA OthersKeep ==
  ASSUME NEW c \in [Levels -> Chains], ListInv(c), NEW t \in Levels, NEW l \in Levels, l # t,
         NEW s, Absent(c[l], nr[l], s),
         \A x \in Slots \ {0, s} : Absent(c[t], nr[t], x) => next'[x] = next[x] /\ prev'[x] = prev[x]
  PROVE  Links(c[l], nr[l], first[l], next', prev')
  <1>1. ASSUME NEW i \in 1 .. nr[l]
        PROVE  next'[c[l][i]] = next[c[l][i]] /\ prev'[c[l][i]] = prev[c[l][i]]
    <2>1. Absent(c[t], nr[t], c[l][i])
      BY PlaceIs DEF Absent
    <2>2. c[l][i] \in Slots \ {0, s}
      BY PlaceIs DEF Absent
    <2>3. QED
      BY <2>1, <2>2
  <1>2. Links(c[l], nr[l], first[l], next, prev) /\ nr[l] \in Nat /\ c[l] \in Chains
    BY DEF ListInv
  <1>3. QED
    BY <1>1, <1>2, OtherLinks

(* A znode is put into a list.                                             *)
LEMMA AllocKeeps ==
  ASSUME NEW c \in [Levels -> Chains], ListInv(c), NEW w \in Windows, NEW top,
         AllocZOrderNode(w, top)
  PROVE  \E s \in Slots \ {0}, k \in 0 .. nr[TypeOf[w]], d \in [Levels -> Chains] :
            /\ hwnd[s] = NULL /\ hwnd' = [hwnd EXCEPT ![s] = w]
            /\ nr' = [nr EXCEPT ![TypeOf[w]] = @ + 1]
            /\ Below(c[TypeOf[w]], nr[TypeOf[w]], k, alwaystop)
            /\ d = [c EXCEPT ![TypeOf[w]] = Ins(c[TypeOf[w]], k, s)]
            /\ ListInv(d)'
  <1>1. PICK t \in Levels : t = TypeOf[w]
    BY Constants
  <1>2. w \notin There /\ nr' = [nr EXCEPT ![t] = @ + 1]
    BY <1>1 DEF AllocZOrderNode
  <1>3. PICK s \in Room(t) : /\ hwnd[s] = NULL /\ hwnd' = [hwnd EXCEPT ![s] = w]
                             /\ PutFirst(w, s, next, prev, alwaystop)
    BY <1>1 DEF AllocZOrderNode
  <1>4. s \in Slots \ {0}
    BY Constants, <1>3
  <1>5. nr[t] \in Nat /\ c[t] \in Chains /\ Links(c[t], nr[t], List(w), next, prev)
    BY <1>1 DEF ListInv, List
  <1>6. \A l \in Levels : \A i \in 1 .. nr[l] : c[l][i] # s
    <2>1. \A l \in Levels : s \notin Used(l)
      BY <1>3, Constants DEF Used
    <2>2. ASSUME NEW l \in Levels, NEW i \in 1 .. nr[l] PROVE c[l][i] # s
      <3>1. c[l][i] \in Used(l)
        BY PlaceIs
      <3>2. QED
        BY <2>1, <3>1
    <2>3. QED
      BY <2>2
  <1>7. PutBelow(c[t], nr[t], t, s, next, prev, alwaystop)
    <2>1. /\ next \in [Slots -> Slots] /\ prev \in [Slots -> Slots] /\ next[0] = 0
          /\ first \in [Levels -> Slots]
      BY DEF ListInv
    <2>2. Absent(c[t], nr[t], s)
      BY <1>6 DEF Absent
    <2>3. TypeOf[w] \in Levels /\ NrSlots \in Nat \ {0}
      BY <1>1, Constants
    <2>4. PutFirst(w, s, next, prev, alwaystop)
      BY <1>3
    <2>5. QED
      BY <1>1, <1>4, <1>5, <2>1, <2>2, <2>3, <2>4, PutFirstLinks
  <1>8. PICK k \in 0 .. nr[t] :
            /\ Below(c[t], nr[t], k, alwaystop)
            /\ Ins(c[t], k, s) \in Chains
            /\ Links(Ins(c[t], k, s), nr[t] + 1, first'[t], next', prev')
    BY <1>7 DEF PutBelow
  <1>9. PICK d \in [Levels -> Chains] : d = [c EXCEPT ![t] = Ins(c[t], k, s)]
    BY <1>8
  <1>10. ListInv(d)'
    <2>1. /\ hwnd' \in [Slots -> Windows \cup {Desktop, NULL}]
          /\ nr' \in [Levels -> Nat] /\ nr'[t] = nr[t] + 1
          /\ \A l \in Levels \ {t} : nr'[l] = nr[l] /\ d[l] = c[l]
          /\ d[t] = Ins(c[t], k, s)
      <3>1. hwnd' \in [Slots -> Windows \cup {Desktop, NULL}]
        BY <1>3 DEF ListInv
      <3>2. nr' \in [Levels -> Nat] /\ nr'[t] = nr[t] + 1 /\ \A l \in Levels \ {t} : nr'[l] = nr[l]
        BY <1>2, <1>5 DEF ListInv
      <3>3. d[t] = Ins(c[t], k, s) /\ \A l \in Levels \ {t} : d[l] = c[l]
        BY <1>9
      <3>4. QED
        BY <3>1, <3>2, <3>3
    <2>2. \A x \in Slots : hwnd'[x] = IF x = s THEN w ELSE hwnd[x]
      BY <1>3 DEF ListInv
    <2>3. \A x \in Slots : hwnd'[x] = Desktop <=> x = 0
      BY <1>4, <2>2, Constants DEF ListInv
    <2>4. \A x, r \in Slots : hwnd'[x] \in Windows /\ hwnd'[x] = hwnd'[r] => x = r
      BY <1>2, <2>2 DEF ListInv, There, Range
    <2>5. \A l \in Levels, x \in Slots : x \in Used(l)' <=> (x = s /\ l = t) \/ x \in Used(l)
      BY <1>1, <1>3, <2>2, Constants DEF Used
    <2>6. ASSUME NEW l \in Levels
          PROVE  /\ Links(d[l], nr'[l], first'[l], next', prev')
                 /\ \A x \in Slots : x \in Used(l)' <=> ~Absent(d[l], nr'[l], x)
      <3>1. CASE l = t
        <4>1. Links(d[l], nr'[l], first'[l], next', prev')
          BY <1>8, <2>1, <3>1
        <4>2. ASSUME NEW x
              PROVE  Absent(Ins(c[t], k, s), nr[t] + 1, x) <=> x # s /\ Absent(c[t], nr[t], x)
          BY <1>5, InsRange
        <4>3. \A x \in Slots : x \in Used(t) <=> ~Absent(c[t], nr[t], x)
          BY DEF ListInv
        <4>4. QED
          BY <2>1, <2>5, <3>1, <4>1, <4>2, <4>3
      <3>2. CASE l # t
        <4>1. \A x \in Slots \ {0, s} : Absent(c[t], nr[t], x) => next'[x] = next[x] /\ prev'[x] = prev[x]
          BY <1>7 DEF PutBelow
        <4>2. Absent(c[l], nr[l], s)
          BY <1>6 DEF Absent
        <4>3. Links(c[l], nr[l], first[l], next', prev')
          BY <3>2, <4>1, <4>2, OthersKeep
        <4>4. QED
          BY <1>7, <2>1, <2>5, <3>2, <4>3 DEF ListInv, PutBelow
      <3>3. QED
        BY <3>1, <3>2
    <2>7. QED
      BY <1>7, <2>1, <2>3, <2>4, <2>6 DEF ListInv, PutBelow
  <1>11. QED
    BY <1>1, <1>2, <1>3, <1>4, <1>8, <1>9, <1>10

(* NextWithout and PrevWithout take the znode of place k out.              *)
TakenOut(c, k, s) ==
    /\ NextWithout(s) \in [Slots -> Slots] /\ NextWithout(s)[0] = 0
    /\ PrevWithout(s) \in [Slots -> Slots]
    /\ next[s] = c[k + 1]
    /\ \A x \in Slots \ {0} :
          /\ NextWithout(s)[x] = IF x = c[k - 1] THEN c[k + 1] ELSE next[x]
          /\ PrevWithout(s)[x] = IF x = c[k + 1] THEN c[k - 1] ELSE prev[x]

(* A link that is written as HaveOut writes it is taken out. *)
LEMMA WithoutIs ==
  ASSUME NEW c \in Chains, NEW n \in Nat, NEW f, Links(c, n, f, next, prev), NEW k \in 1 .. n,
         next \in [Slots -> Slots], prev \in [Slots -> Slots], next[0] = 0, 0 \in Slots,
         NEW s, s = c[k]
  PROVE  TakenOut(c, k, s)
  <1>1. next[c[k]] = c[k + 1] /\ prev[c[k]] = c[k - 1]
    BY DEF Links
  <1>2. c[k + 1] \in Slots /\ c[k - 1] \in Slots
    <2>1. k + 1 \in Nat /\ k - 1 \in Nat
      OBVIOUS
    <2>2. QED
      BY <2>1 DEF Chains
  <1>3. QED
    BY <1>1, <1>2 DEF TakenOut, NextWithout, PrevWithout, Set

LEMMA UnchainKeeps ==
  ASSUME NEW c \in [Levels -> Chains], ListInv(c), NEW w \in There, Unchain(w)
  PROVE  \E k \in 1 .. nr[TypeOf[w]], d \in [Levels -> Chains] :
            /\ c[TypeOf[w]][k] = Slot(w) /\ hwnd' = [hwnd EXCEPT ![Slot(w)] = NULL]
            /\ nr' = [nr EXCEPT ![TypeOf[w]] = @ - 1]
            /\ d = [c EXCEPT ![TypeOf[w]] = Del(c[TypeOf[w]], k)]
            /\ ListInv(d)'
  <1>1. w \in Windows
    BY SlotIs
  <1>2. PICK t \in Levels : t = TypeOf[w]
    BY <1>1, Constants
  <1>3. PICK s \in Slots \ {0} : s = Slot(w) /\ hwnd[s] = w /\ \A x \in Slots : hwnd[x] = w => x = s
    BY SlotIs
  <1>4. PICK k \in 1 .. nr[t] : c[t][k] = s
    BY <1>2, <1>3, SlotIs
  <1>5. /\ nr[t] \in Nat /\ c[t] \in Chains /\ Links(c[t], nr[t], first[t], next, prev)
        /\ next \in [Slots -> Slots] /\ prev \in [Slots -> Slots] /\ next[0] = 0
    BY DEF ListInv
  <1>6. /\ NextWithout(s) \in [Slots -> Slots] /\ NextWithout(s)[0] = 0
        /\ PrevWithout(s) \in [Slots -> Slots]
        /\ next[s] = c[t][k + 1]
        /\ \A x \in Slots \ {0} :
              /\ NextWithout(s)[x] = IF x = c[t][k - 1] THEN c[t][k + 1] ELSE next[x]
              /\ PrevWithout(s)[x] = IF x = c[t][k + 1] THEN c[t][k - 1] ELSE prev[x]
    <2>1. TakenOut(c[t], k, s)
      BY <1>4, <1>5, Constants, WithoutIs
    <2>2. QED
      BY <2>1 DEF TakenOut
  <1>7. /\ hwnd' = [hwnd EXCEPT ![s] = NULL]
        /\ next' = NextWithout(s) /\ prev' = [PrevWithout(s) EXCEPT ![s] = 0]
        /\ first' = IF first[t] = s THEN [first EXCEPT ![t] = next[s]] ELSE first
        /\ nr' = [nr EXCEPT ![t] = @ - 1]
    BY <1>2, <1>3 DEF Unchain, List
  <1>8. /\ next' \in [Slots -> Slots] /\ prev' \in [Slots -> Slots] /\ next'[0] = 0
        /\ \A x \in Slots \ {0, s} :
              /\ next'[x] = IF x = c[t][k - 1] THEN c[t][k + 1] ELSE next[x]
              /\ prev'[x] = IF x = c[t][k + 1] THEN c[t][k - 1] ELSE prev[x]
    BY <1>6, <1>7, Constants
  <1>9. /\ first' \in [Levels -> Slots] /\ \A l \in Levels \ {t} : first'[l] = first[l]
        /\ first'[t] = IF k = 1 THEN c[t][2] ELSE first[t]
    <2>1. first[t] = s <=> k = 1
      BY <1>4, <1>5 DEF Links
    <2>2. next[s] \in Slots
      BY <1>3, <1>5
    <2>3. first \in [Levels -> Slots]
      BY DEF ListInv
    <2>4. QED
      BY <1>6, <1>7, <2>1, <2>2, <2>3
  <1>10. Del(c[t], k) \in Chains /\ Links(Del(c[t], k), nr[t] - 1, first'[t], next', prev')
    <2>1. RelinkedAround(c[t], k, next, prev, next', prev')
      BY <1>4, <1>8 DEF RelinkedAround
    <2>2. QED
      BY <1>5, <1>9, <2>1, DeleteLinks
  <1>11. PICK d \in [Levels -> Chains] : d = [c EXCEPT ![t] = Del(c[t], k)]
    BY <1>10
  <1>12. ListInv(d)'
    <2>1. /\ hwnd' \in [Slots -> Windows \cup {Desktop, NULL}]
          /\ nr' \in [Levels -> Nat] /\ nr'[t] = nr[t] - 1
          /\ \A l \in Levels \ {t} : nr'[l] = nr[l] /\ d[l] = c[l]
          /\ d[t] = Del(c[t], k)
      <3>1. hwnd' \in [Slots -> Windows \cup {Desktop, NULL}]
        BY <1>7 DEF ListInv
      <3>2. nr' \in [Levels -> Nat] /\ nr'[t] = nr[t] - 1 /\ \A l \in Levels \ {t} : nr'[l] = nr[l]
        <4>1. nr[t] - 1 \in Nat
          BY <1>4, <1>5
        <4>2. QED
          BY <1>7, <4>1 DEF ListInv
      <3>3. d[t] = Del(c[t], k) /\ \A l \in Levels \ {t} : d[l] = c[l]
        BY <1>11
      <3>4. QED
        BY <3>1, <3>2, <3>3
    <2>2. \A x \in Slots : hwnd'[x] = IF x = s THEN NULL ELSE hwnd[x]
      BY <1>7 DEF ListInv
    <2>3. \A x \in Slots : hwnd'[x] = Desktop <=> x = 0
      BY <1>3, <2>2, Constants DEF ListInv
    <2>4. \A x, r \in Slots : hwnd'[x] \in Windows /\ hwnd'[x] = hwnd'[r] => x = r
      BY <2>2, Constants DEF ListInv
    <2>5. \A l \in Levels, x \in Slots : x \in Used(l)' <=> x # s /\ x \in Used(l)
      BY <2>2, Constants DEF Used
    <2>6. ASSUME NEW l \in Levels
          PROVE  /\ Links(d[l], nr'[l], first'[l], next', prev')
                 /\ \A x \in Slots : x \in Used(l)' <=> ~Absent(d[l], nr'[l], x)
      <3>1. CASE l = t
        <4>1. Links(d[l], nr'[l], first'[l], next', prev')
          BY <1>10, <2>1, <3>1
        <4>2. ASSUME NEW x
              PROVE  Absent(Del(c[t], k), nr[t] - 1, x) <=> x = s \/ Absent(c[t], nr[t], x)
          <5>1. OneToOne(c[t], nr[t])
            BY <1>5 DEF Links
          <5>2. QED
            BY <1>4, <1>5, <5>1, DelRange
        <4>3. \A x \in Slots : x \in Used(t) <=> ~Absent(c[t], nr[t], x)
          BY DEF ListInv
        <4>4. QED
          BY <2>1, <2>5, <3>1, <4>1, <4>2, <4>3
      <3>2. CASE l # t
        <4>1. \A x \in Slots \ {0, s} : Absent(c[t], nr[t], x) => next'[x] = next[x] /\ prev'[x] = prev[x]
          <5>1. ASSUME NEW x \in Slots \ {0, s}, Absent(c[t], nr[t], x)
                PROVE  x # c[t][k - 1] /\ x # c[t][k + 1]
            BY <1>4, <1>5, <5>1 DEF Absent, Links
          <5>2. QED
            BY <1>8, <5>1
        <4>2. Absent(c[l], nr[l], s)
          BY <1>4, <3>2, PlaceIs DEF Absent
        <4>3. Links(c[l], nr[l], first[l], next', prev')
          BY <3>2, <4>1, <4>2, OthersKeep
        <4>4. \A x \in Slots : x \in Used(l) <=> ~Absent(c[l], nr[l], x)
          BY DEF ListInv
        <4>5. s \notin Used(l)
          BY <1>2, <1>3, <3>2 DEF Used
        <4>6. QED
          BY <1>9, <2>1, <2>5, <3>2, <4>3, <4>4, <4>5
      <3>3. QED
        BY <3>1, <3>2
    <2>7. QED
      BY <1>8, <1>9, <2>1, <2>3, <2>4, <2>6 DEF ListInv
  <1>13. QED
    BY <1>2, <1>3, <1>4, <1>7, <1>11, <1>12

(* A znode that is not the first is taken out of its list and put in again.*)
LEMMA MoveKeeps ==
  ASSUME NEW c \in [Levels -> Chains], ListInv(c), NEW w \in There, NEW tops,
         dskMove2Top(w, tops)
  PROVE  \E k \in 1 .. nr[TypeOf[w]], d \in [Levels -> Chains] :
            /\ c[TypeOf[w]][k] = Slot(w)
            /\ \/ k = 1 /\ d = c
               \/ /\ k # 1
                  /\ \E j \in 0 .. nr[TypeOf[w]] - 1 :
                        /\ Below(Del(c[TypeOf[w]], k), nr[TypeOf[w]] - 1, j, tops)
                        /\ d = [c EXCEPT ![TypeOf[w]] = Ins(Del(c[TypeOf[w]], k), j, Slot(w))]
            /\ ListInv(d)'
  <1>1. w \in Windows
    BY SlotIs
  <1>2. PICK t \in Levels : t = TypeOf[w]
    BY <1>1, Constants
  <1>3. PICK s \in Slots \ {0} : s = Slot(w) /\ hwnd[s] = w /\ \A x \in Slots : hwnd[x] = w => x = s
    BY SlotIs
  <1>4. PICK k \in 1 .. nr[t] : c[t][k] = s
    BY <1>2, <1>3, SlotIs
  <1>5. /\ nr[t] \in Nat /\ c[t] \in Chains /\ Links(c[t], nr[t], first[t], next, prev)
        /\ next \in [Slots -> Slots] /\ prev \in [Slots -> Slots] /\ next[0] = 0
        /\ first \in [Levels -> Slots]
    BY DEF ListInv
  <1>6. UNCHANGED <<hwnd, nr>>
    BY DEF dskMove2Top
  <1>7. first[t] = s <=> k = 1
    BY <1>4, <1>5 DEF Links, OneToOne
  <1>8. CASE k = 1
    <2>1. UNCHANGED <<next, prev, first>>
      BY <1>2, <1>3, <1>7, <1>8 DEF dskMove2Top, List
    <2>2. ListInv(c)'
      BY <1>6, <2>1 DEF ListInv, Used
    <2>3. QED
      BY <1>2, <1>3, <1>4, <1>8, <2>2
  <1>9. CASE k # 1
    <2> DEFINE e == Del(c[t], k)
               m == nr[t] - 1
               nx == NextWithout(s)
               pv == PrevWithout(s)
    <2>1. PutFirst(w, s, nx, pv, tops)
      BY <1>2, <1>3, <1>7, <1>9 DEF dskMove2Top, List
    <2>2. /\ nx \in [Slots -> Slots] /\ nx[0] = 0
          /\ pv \in [Slots -> Slots]
          /\ \A x \in Slots \ {0} :
                /\ nx[x] = IF x = c[t][k - 1] THEN c[t][k + 1] ELSE next[x]
                /\ pv[x] = IF x = c[t][k + 1] THEN c[t][k - 1] ELSE prev[x]
      <3>1. TakenOut(c[t], k, s)
        BY <1>4, <1>5, Constants, WithoutIs
      <3>2. QED
        BY <3>1 DEF TakenOut
    <2> HIDE DEF nx, pv
    <2>3. e \in Chains /\ Links(e, m, first[t], nx, pv)
      <3>1. RelinkedAround(c[t], k, next, prev, nx, pv)
        BY <2>2 DEF RelinkedAround
      <3>2. first[t] = IF k = 1 THEN c[t][2] ELSE first[t]
        BY <1>9
      <3>3. QED
        BY <1>5, <3>1, <3>2, DeleteLinks
    <2>4. m \in Nat
      BY <1>4, <1>5
    <2>5. ASSUME NEW x PROVE Absent(e, m, x) <=> x = s \/ Absent(c[t], nr[t], x)
      <3>1. OneToOne(c[t], nr[t])
        BY <1>5 DEF Links
      <3>2. QED
        BY <1>4, <1>5, <3>1, DelRange
    <2> HIDE DEF e, m
    <2>6. PutBelow(e, m, t, s, nx, pv, tops)
      <3>1. Absent(e, m, s)
        BY <2>5
      <3>2. TypeOf[w] \in Levels /\ NrSlots \in Nat \ {0}
        BY <1>2, Constants
      <3>3. Links(e, m, List(w), nx, pv)
        BY <1>2, <2>3 DEF List
      <3>4. PutBelow(e, m, TypeOf[w], s, nx, pv, tops)
        BY <1>3, <1>5, <2>1, <2>2, <2>3, <2>4, <3>1, <3>2, <3>3, PutFirstLinks
      <3>5. QED
        BY <1>2, <3>4
    <2>7. PICK j \in 0 .. m :
              /\ Below(e, m, j, tops)
              /\ Ins(e, j, s) \in Chains
              /\ Links(Ins(e, j, s), m + 1, first'[t], next', prev')
      BY <2>6 DEF PutBelow
    <2>8. PICK d \in [Levels -> Chains] : d = [c EXCEPT ![t] = Ins(e, j, s)]
      BY <2>7
    <2>9. d[t] = Ins(e, j, s) /\ \A l \in Levels \ {t} : d[l] = c[l]
      BY <2>8
    <2>10. m + 1 = nr'[t] /\ nr' = nr
      BY <1>5, <1>6 DEF m
    <2>11. ASSUME NEW l \in Levels
           PROVE  /\ Links(d[l], nr'[l], first'[l], next', prev')
                  /\ \A x \in Slots : x \in Used(l)' <=> ~Absent(d[l], nr'[l], x)
      <3>1. \A x \in Slots : x \in Used(l)' <=> ~Absent(c[l], nr[l], x)
        BY <1>6 DEF ListInv, Used
      <3>2. CASE l = t
        <4>1. ASSUME NEW x \in Slots PROVE Absent(d[t], nr'[t], x) <=> Absent(c[t], nr[t], x)
          <5>1. Absent(Ins(e, j, s), m + 1, x) <=> x # s /\ Absent(e, m, x)
            BY <2>4, InsRange
          <5>2. ~Absent(c[t], nr[t], s)
            BY <1>4 DEF Absent
          <5>3. QED
            BY <2>5, <2>9, <2>10, <5>1, <5>2
        <4>2. QED
          BY <2>7, <2>9, <2>10, <3>1, <3>2, <4>1
      <3>3. CASE l # t
        <4>1. ASSUME NEW x \in Slots \ {0, s}, Absent(c[t], nr[t], x)
              PROVE  next'[x] = next[x] /\ prev'[x] = prev[x]
          <5>1. x # c[t][k - 1] /\ x # c[t][k + 1]
            BY <1>4, <1>5, <4>1 DEF Absent, Links
          <5>2. nx[x] = next[x] /\ pv[x] = prev[x]
            BY <2>2, <5>1
          <5>3. next'[x] = nx[x] /\ prev'[x] = pv[x]
            BY <2>5, <2>6, <4>1 DEF PutBelow
          <5>4. QED
            BY <5>2, <5>3
        <4>2. Absent(c[l], nr[l], s)
          BY <1>4, <3>3, PlaceIs DEF Absent
        <4>3. Links(c[l], nr[l], first[l], next', prev')
          BY <3>3, <4>1, <4>2, OthersKeep
        <4>4. QED
          BY <2>6, <2>9, <2>10, <3>1, <3>3, <4>3 DEF PutBelow
      <3>4. QED
        BY <3>2, <3>3
    <2>12. ListInv(d)'
      BY <1>6, <2>6, <2>11 DEF ListInv, PutBelow
    <2>13. QED
      BY <1>2, <1>3, <1>4, <1>9, <2>7, <2>8, <2>12 DEF e, m
  <1>10. QED
    BY <1>8, <1>9

-----------------------------------------------------------------------------
(* Going down the z-order: of a set that is not left by going from a znode *)
(* to the next, get_next_activable_mainwin finds a member.                 *)
Goes(S, z, y, N) ==
    \E g \in [1 .. N -> S] : \A n \in 1 .. N : g[n] = IF n = 1 THEN y ELSE z[g[n - 1]]

LEMMA Orbit ==
  ASSUME NEW S, NEW z \in [S -> S], NEW y \in S, NEW N \in Nat
  PROVE  Goes(S, z, y, N)
  <1> DEFINE Follows(g, m) == \A n \in 1 .. m : g[n] = IF n = 1 THEN y ELSE z[g[n - 1]]
             Bad == {m \in 0 .. N : ~\E g \in [1 .. m -> S] : Follows(g, m)}
  <1>1. SUFFICES ASSUME Bad # {} PROVE FALSE
    <2>1. N \in 0 .. N
      OBVIOUS
    <2>2. QED
      BY <2>1 DEF Goes
  <1>2. PICK m \in Bad : \A k \in Bad : m <= k
    <2>1. Bad \in SUBSET Nat
      OBVIOUS
    <2> HIDE DEF Bad
    <2>2. QED
      BY <1>1, <2>1, LeastNat
  <1>3. m \in 0 .. N /\ ~\E g \in [1 .. m -> S] : Follows(g, m)
    BY <1>2
  <1>4. CASE m = 0
    <2>1. [i \in 1 .. 0 |-> y] \in [1 .. 0 -> S] /\ Follows([i \in 1 .. 0 |-> y], 0)
      OBVIOUS
    <2>2. QED
      BY <1>3, <1>4, <2>1
  <1>5. CASE m # 0
    <2>1. m - 1 \in 0 .. N /\ m - 1 \notin Bad
      BY <1>2, <1>3, <1>5
    <2>2. PICK g \in [1 .. m - 1 -> S] : Follows(g, m - 1)
      BY <2>1
    <2> DEFINE h == [n \in 1 .. m |-> IF n = m THEN (IF m = 1 THEN y ELSE z[g[m - 1]]) ELSE g[n]]
    <2>3. \A n \in 1 .. m : n # m => n \in 1 .. m - 1 /\ g[n] \in S
      BY <1>3
    <2>4. m # 1 => m - 1 \in 1 .. m - 1 /\ g[m - 1] \in S
      BY <1>3, <1>5
    <2>5. h \in [1 .. m -> S]
      BY <2>3, <2>4
    <2>6. ASSUME NEW n \in 1 .. m PROVE h[n] = IF n = 1 THEN y ELSE z[h[n - 1]]
      <3>1. CASE n = m
        <4>1. n # 1 => n - 1 \in 1 .. m /\ n - 1 # m /\ h[n - 1] = g[n - 1]
          BY <1>3, <3>1
        <4>2. QED
          BY <3>1, <4>1
      <3>2. CASE n # m
        <4>1. h[n] = g[n] /\ n \in 1 .. m - 1
          BY <2>3, <3>2
        <4>2. n # 1 => n - 1 \in 1 .. m /\ n - 1 # m /\ h[n - 1] = g[n - 1]
          BY <1>3, <3>2
        <4>3. g[n] = IF n = 1 THEN y ELSE z[g[n - 1]]
          BY <2>2, <4>1
        <4>4. QED
          BY <4>1, <4>2, <4>3
      <3>3. QED
        BY <3>1, <3>2
    <2> HIDE DEF h
    <2>7. Follows(h, m)
      BY <2>6
    <2>8. QED
      BY <1>3, <2>5, <2>7
  <1>6. QED
    BY <1>4, <1>5

LEMMA LeastOf ==
  ASSUME NEW S \in SUBSET Nat, S # {} PROVE Min(S) \in S
  <1>1. \E x \in S : \A y \in S : x =< y
    BY LeastNat
  <1>2. QED
    BY <1>1 DEF Min

LEMMA ActivableIn ==
  ASSUME NEW S, 0 \in S, NEW s, NextZNode(s) \in S,
         \A x \in S \ {0} : NextZNode(x) \in S,
         NrSlots \in Nat \ {0}
  PROVE  /\ NextActivable(s) \in S
         /\ NextActivable(s) # 0 => Activable(NextActivable(s))
  <1> DEFINE z == [x \in S |-> IF x = 0 THEN 0 ELSE NextZNode(x)]
             y == NextZNode(s)
             IsAt(at) == at = [n \in 1 .. NrSlots |->
                            IF n = 1 THEN y ELSE IF at[n - 1] = 0 THEN 0 ELSE NextZNode(at[n - 1])]
             at == Downwards(s)
             ok == {n \in 1 .. NrSlots : Activable(at[n])}
  <1>1. z \in [S -> S] /\ \A x \in S : z[x] = IF x = 0 THEN 0 ELSE NextZNode(x)
    OBVIOUS
  <1>2. NextActivable(s) = IF ok = {} THEN 0 ELSE at[Min(ok)]
    BY DEF NextActivable
  <1> HIDE DEF z
  <1>3. PICK g \in [1 .. NrSlots -> S] :
            \A n \in 1 .. NrSlots : g[n] = IF n = 1 THEN y ELSE z[g[n - 1]]
    <2>1. y \in S /\ NrSlots \in Nat
      OBVIOUS
    <2> HIDE DEF y, at, ok, IsAt
    <2>2. z \in [S -> S]
      BY <1>1
    <2>3. Goes(S, z, y, NrSlots)
      BY <2>1, <2>2, Orbit
    <2>4. QED
      BY <2>3 DEF Goes
  <1>4. \A n \in 1 .. NrSlots : g[n] =
            IF n = 1 THEN y ELSE IF g[n - 1] = 0 THEN 0 ELSE NextZNode(g[n - 1])
    <2>1. \A n \in 1 .. NrSlots : n # 1 => n - 1 \in 1 .. NrSlots
      OBVIOUS
    <2>2. QED
      BY <1>1, <1>3, <2>1
  <1>5. IsAt(g)
    BY <1>3, <1>4
  <1>6. IsAt(at)
    <2>1. at = CHOOSE h : IsAt(h)
      BY DEF Downwards
    <2> HIDE DEF at, IsAt
    <2>2. QED
      BY <1>5, <2>1
  <1> HIDE DEF at
  <1>7. \A n \in 1 .. NrSlots : at[n] =
            IF n = 1 THEN y ELSE IF at[n - 1] = 0 THEN 0 ELSE NextZNode(at[n - 1])
    BY <1>6
  <1>8. ASSUME NEW n \in 1 .. NrSlots PROVE at[n] \in S
    <2> DEFINE Bad == {k \in 1 .. NrSlots : at[k] \notin S}
    <2>1. SUFFICES ASSUME Bad # {} PROVE FALSE
      OBVIOUS
    <2>2. Bad \in SUBSET Nat
      OBVIOUS
    <2>3. PICK m \in Bad : \A k \in Bad : m <= k
      BY <2>1, <2>2, LeastNat
    <2>4. m # 1
      BY <1>7, <2>3
    <2>5. m - 1 \in 1 .. NrSlots /\ m - 1 \notin Bad
      BY <2>3, <2>4
    <2>6. QED
      BY <1>7, <2>3, <2>4, <2>5
  <1>9. ok # {} => Min(ok) \in ok
    <2>1. ok \in SUBSET Nat
      OBVIOUS
    <2> HIDE DEF ok
    <2>2. QED
      BY <2>1, LeastOf
  <1>10. QED
    BY <1>2, <1>8, <1>9

(* The first znode of the levels below the k-th.                           *)
LEMMA FirstBelowIs ==
  ASSUME NEW c \in [Levels -> Chains], ListInv(c), NEW k \in 0 .. Len(Types)
  PROVE  \/ FirstBelow(k) = 0
         \/ \E i \in k + 1 .. Len(Types) :
               /\ Types[i] \in Levels /\ 1 \in 1 .. nr[Types[i]]
               /\ FirstBelow(k) = c[Types[i]][1]
  <1> DEFINE ks == {i \in k + 1 .. Len(Types) : first[Types[i]] # 0}
  <1>1. FirstBelow(k) = IF ks = {} THEN 0 ELSE first[Types[Min(ks)]]
    BY DEF FirstBelow
  <1>2. Len(Types) \in Nat /\ DOMAIN Types = 1 .. Len(Types)
    BY ZOrderAssumption, LenProperties DEF ZOrderAssumption
  <1>3. CASE ks # {}
    <2>1. ks \in SUBSET Nat
      BY <1>2
    <2> HIDE DEF ks
    <2>2. PICK i \in ks : i = Min(ks)
      BY <1>3, <2>1, LeastOf
    <2>3. i \in k + 1 .. Len(Types) /\ first[Types[i]] # 0
      BY <2>2 DEF ks
    <2>4. Types[i] \in Levels
      BY <1>2, <2>3 DEF Levels, Range
    <2>5. nr[Types[i]] \in Nat /\ Links(c[Types[i]], nr[Types[i]], first[Types[i]], next, prev)
      BY <2>4 DEF ListInv
    <2>6. nr[Types[i]] # 0 /\ first[Types[i]] = c[Types[i]][1]
      BY <2>3, <2>5 DEF Links
    <2>7. 1 \in 1 .. nr[Types[i]]
      BY <2>5, <2>6
    <2>8. QED
      BY <1>1, <1>3, <2>2, <2>3, <2>4, <2>6, <2>7
  <1>4. QED
    BY <1>1, <1>3

(* The places below place k of level t.                                    *)
BelowPlace(c, t, k) ==
    {0} \cup {x \in Slots : \E l \in Levels : \E j \in 1 .. nr[l] : c[l][j] = x /\
                 \/ l = t /\ j > k
                 \/ \E a, b \in DOMAIN Types : Types[a] = t /\ Types[b] = l /\ a < b}

LEMMA NextBelow ==
  ASSUME NEW c \in [Levels -> Chains], ListInv(c), NEW t \in Levels, NEW k \in 1 .. nr[t]
  PROVE  /\ NextZNode(c[t][k]) \in Slots
         /\ NextZNode(c[t][k]) \in BelowPlace(c, t, k)
         /\ \A x \in BelowPlace(c, t, k) \ {0} : NextZNode(x) \in BelowPlace(c, t, k)
  <1>1. Len(Types) \in Nat /\ DOMAIN Types = 1 .. Len(Types) /\ 0 \in Slots
    BY ZOrderAssumption, Constants, LenProperties DEF ZOrderAssumption
  <1>2. ASSUME NEW l \in Levels, NEW j \in 1 .. nr[l]
        PROVE  \/ NextZNode(c[l][j]) = 0
               \/ j + 1 \in 1 .. nr[l] /\ NextZNode(c[l][j]) = c[l][j + 1]
               \/ \E a, b \in DOMAIN Types : Types[a] = l /\ a < b /\ Types[b] \in Levels /\
                     1 \in 1 .. nr[Types[b]] /\ NextZNode(c[l][j]) = c[Types[b]][1]
    <2>1. /\ c[l][j] \in Slots \ {0} /\ hwnd[c[l][j]] \in There /\ TypeOf[hwnd[c[l][j]]] = l
          /\ nr[l] \in Nat /\ next[c[l][j]] = c[l][j + 1]
          /\ c[l][nr[l] + 1] = 0
      BY PlaceIs DEF ListInv, Links
    <2>2. hwnd[c[l][j]] # NULL
      BY <2>1, Constants DEF There
    <2>3. CASE next[c[l][j]] # 0
      <3>1. j # nr[l] /\ NextZNode(c[l][j]) = c[l][j + 1]
        BY <2>1, <2>3 DEF NextZNode
      <3>2. QED
        BY <2>1, <3>1
    <2>4. CASE next[c[l][j]] = 0
      <3>1. PICK a \in DOMAIN Types : a = CHOOSE i \in DOMAIN Types : Types[i] = l
        BY DEF Levels, Range
      <3>2. Types[a] = l
        BY <3>1 DEF Levels, Range
      <3>3. NextZNode(c[l][j]) = FirstBelow(a)
        BY <2>1, <2>2, <2>4, <3>1 DEF NextZNode
      <3>4. a \in 0 .. Len(Types)
        BY <1>1
      <3>5. CASE FirstBelow(a) = 0
        BY <3>3, <3>5
      <3>6. CASE FirstBelow(a) # 0
        <4>1. PICK b \in a + 1 .. Len(Types) :
                  /\ Types[b] \in Levels /\ 1 \in 1 .. nr[Types[b]]
                  /\ FirstBelow(a) = c[Types[b]][1]
          BY <3>4, <3>6, FirstBelowIs
        <4>2. b \in DOMAIN Types /\ a < b
          BY <1>1, <4>1
        <4>3. QED
          BY <3>2, <3>3, <4>1, <4>2
      <3>7. QED
        BY <3>5, <3>6
    <2>5. QED
      BY <2>3, <2>4
  <1>3. ASSUME NEW l \in Levels, NEW j \in 1 .. nr[l] PROVE NextZNode(c[l][j]) \in Slots
    BY <1>1, <1>2, PlaceIs
  <1>4. NextZNode(c[t][k]) \in BelowPlace(c, t, k)
    <2>1. CASE NextZNode(c[t][k]) = 0
      BY <2>1 DEF BelowPlace
    <2>2. CASE k + 1 \in 1 .. nr[t] /\ NextZNode(c[t][k]) = c[t][k + 1]
      BY <1>3, <2>2 DEF BelowPlace
    <2>3. ASSUME NEW a \in DOMAIN Types, NEW b \in DOMAIN Types, Types[a] = t, a < b,
                 Types[b] \in Levels, 1 \in 1 .. nr[Types[b]], NextZNode(c[t][k]) = c[Types[b]][1]
          PROVE  NextZNode(c[t][k]) \in BelowPlace(c, t, k)
      BY <1>3, <2>3 DEF BelowPlace
    <2>4. QED
      BY <1>2, <2>1, <2>2, <2>3
  <1>5. ASSUME NEW x \in BelowPlace(c, t, k) \ {0} PROVE NextZNode(x) \in BelowPlace(c, t, k)
    <2>0. PICK l \in Levels : \E j \in 1 .. nr[l] : c[l][j] = x /\
                 \/ l = t /\ j > k
                 \/ \E a, b \in DOMAIN Types : Types[a] = t /\ Types[b] = l /\ a < b
      BY DEF BelowPlace
    <2>1. PICK j \in 1 .. nr[l] : c[l][j] = x /\
                 \/ l = t /\ j > k
                 \/ \E a, b \in DOMAIN Types : Types[a] = t /\ Types[b] = l /\ a < b
      BY <2>0
    <2>2. CASE NextZNode(x) = 0
      BY <2>2 DEF BelowPlace
    <2>3. CASE j + 1 \in 1 .. nr[l] /\ NextZNode(x) = c[l][j + 1]
      <3>1. NextZNode(x) \in Slots
        BY <1>3, <2>1
      <3>2. QED
        BY <2>1, <2>3, <3>1 DEF BelowPlace
    <2>4. ASSUME NEW a \in DOMAIN Types, NEW b \in DOMAIN Types, Types[a] = l, a < b,
                 Types[b] \in Levels, 1 \in 1 .. nr[Types[b]], NextZNode(x) = c[Types[b]][1]
          PROVE  NextZNode(x) \in BelowPlace(c, t, k)
      <3>1. NextZNode(x) \in Slots
        BY <1>3, <2>1
      <3>2. \E e \in DOMAIN Types : Types[e] = t /\ e < b
        <4>1. CASE l = t
          BY <2>4, <4>1
        <4>2. CASE l # t
          <5>1. PICK e, d \in DOMAIN Types : Types[e] = t /\ Types[d] = l /\ e < d
            BY <2>1, <4>2
          <5>2. d = a
            BY <2>4, <5>1, ZOrderAssumption DEF ZOrderAssumption
          <5>3. QED
            BY <1>1, <2>4, <5>1, <5>2
        <4>3. QED
          BY <4>1, <4>2
      <3>3. QED
        BY <2>4, <3>1, <3>2 DEF BelowPlace
    <2>5. QED
      BY <1>2, <2>1, <2>2, <2>3, <2>4
  <1>6. QED
    BY <1>3, <1>4, <1>5

-----------------------------------------------------------------------------
(* Every step leaves the lists right.                                      *)
ListsInv == \E c \in [Levels -> Chains] : ListInv(c)

(* The flags and the active window, as far as the types go.                *)
FlagsInv ==
    /\ active_win \in Slots
    /\ visible \subseteq There /\ disabled \subseteq Tops /\ alwaystop \subseteq Tops
    /\ told \subseteq Mains /\ overlooked \in BOOLEAN

LEMMA ListsSame ==
  ListsInv /\ UNCHANGED <<hwnd, next, prev, first, nr>> => ListsInv'
  BY DEF ListsInv, ListInv, Used

LEMMA ListsFree ==
  ASSUME ListsInv, NEW w \in There, Unchain(w) PROVE ListsInv'
  <1>1. PICK c \in [Levels -> Chains] : ListInv(c)
    BY DEF ListsInv
  <1>2. PICK d \in [Levels -> Chains] : ListInv(d)'
    BY <1>1, UnchainKeeps
  <1>3. QED
    BY <1>2 DEF ListsInv

LEMMA ListsAlloc ==
  ASSUME ListsInv, NEW w \in Windows, NEW top, AllocZOrderNode(w, top) PROVE ListsInv'
  <1>1. PICK c \in [Levels -> Chains] : ListInv(c)
    BY DEF ListsInv
  <1>2. PICK d \in [Levels -> Chains] : ListInv(d)'
    BY <1>1, AllocKeeps
  <1>3. QED
    BY <1>2 DEF ListsInv

LEMMA ListsMove ==
  ASSUME ListsInv, NEW w \in There, NEW tops, dskMove2Top(w, tops) PROVE ListsInv'
  <1>1. PICK c \in [Levels -> Chains] : ListInv(c)
    BY DEF ListsInv
  <1>2. PICK k \in 1 .. nr[TypeOf[w]] : \E d \in [Levels -> Chains] : ListInv(d)'
    BY <1>1, MoveKeeps
  <1>3. PICK d \in [Levels -> Chains] : ListInv(d)'
    BY <1>2
  <1>4. QED
    BY <1>3 DEF ListsInv

(* Of whatever slot, the next is a slot.                                   *)
LEMMA NextIsSlot ==
  ASSUME ListsInv, NEW s \in Slots PROVE NextZNode(s) \in Slots
  <1>1. PICK c \in [Levels -> Chains] : ListInv(c)
    BY DEF ListsInv
  <1>2. ASSUME NEW k \in 0 .. Len(Types) PROVE FirstBelow(k) \in Slots
    <2>1. CASE FirstBelow(k) = 0
      BY <2>1, Constants
    <2>2. CASE FirstBelow(k) # 0
      <3>1. PICK i \in k + 1 .. Len(Types) :
                /\ Types[i] \in Levels /\ 1 \in 1 .. nr[Types[i]]
                /\ FirstBelow(k) = c[Types[i]][1]
        BY <1>1, <2>2, FirstBelowIs
      <3>2. QED
        BY <1>1, <3>1, PlaceIs
    <2>3. QED
      BY <2>1, <2>2
  <1>3. Len(Types) \in Nat /\ DOMAIN Types = 1 .. Len(Types)
    BY ZOrderAssumption, LenProperties DEF ZOrderAssumption
  <1>4. CASE s # 0 /\ next[s] = 0 /\ hwnd[s] # NULL
    <2>1. TypeOf[hwnd[s]] \in Levels
      BY <1>1, <1>4, Constants DEF ListInv
    <2>2. PICK i \in DOMAIN Types : i = CHOOSE j \in DOMAIN Types : Types[j] = TypeOf[hwnd[s]]
      BY <2>1 DEF Levels, Range
    <2>3. NextZNode(s) = FirstBelow(i)
      BY <1>4, <2>2 DEF NextZNode
    <2>4. i \in 0 .. Len(Types)
      BY <1>3
    <2>5. QED
      BY <1>2, <2>3, <2>4
  <1>5. CASE s = 0
    <2>1. 0 \in 0 .. Len(Types)
      BY <1>3
    <2>2. QED
      BY <1>2, <1>5, <2>1 DEF NextZNode
  <1>6. next[s] \in Slots /\ 0 \in Slots
    BY <1>1, Constants DEF ListInv
  <1>7. QED
    BY <1>4, <1>5, <1>6 DEF NextZNode

LEMMA NextActivableIs ==
  ASSUME ListsInv, NEW s \in Slots
  PROVE  /\ NextActivable(s) \in Slots
         /\ NextActivable(s) # 0 => Activable(NextActivable(s))
  BY NextIsSlot, Constants, ActivableIn

LEMMA ActivableThere ==
  ASSUME ListsInv, NEW s \in Slots, Activable(s)
  PROVE  hwnd[s] \in There /\ hwnd[s] \in Mains \cap visible
  BY DEF ListsInv, ListInv, Activable, There, Range, Windows, Tops

LEMMA ListsStep ==
  ListsInv /\ FlagsInv /\ [Next]_vars => ListsInv'
  <1> SUFFICES ASSUME ListsInv, FlagsInv, [Next]_vars PROVE ListsInv'
    OBVIOUS
  <1> USE DEF Windows
  <1>1. ASSUME NEW w \in Tops, NEW shown, NEW top, AddNewMainWindow(w, shown, top) PROVE ListsInv'
    BY <1>1, ListsAlloc DEF AddNewMainWindow
  <1>2. ASSUME NEW w \in There, FreeZOrderNode(w) PROVE ListsInv'
    BY <1>2, ListsFree DEF FreeZOrderNode
  <1>3. ASSUME NEW w \in There, MoveToTopMost(w) PROVE ListsInv'
    BY <1>3, ListsMove DEF MoveToTopMost
  <1>4. ASSUME NEW c \in Ctrls, NEW shown, NewCtrl(c, shown) PROVE ListsInv'
    BY <1>4, ListsAlloc DEF NewCtrl
  <1>5. ASSUME NEW w \in Tops, Click(w) PROVE ListsInv'
    <2>1. w \in There
      BY <1>5 DEF Click, FlagsInv
    <2>2. QED
      BY <1>3, <1>5, <2>1, ListsSame DEF Click, lists
  <1>6. CASE AltTab
    <2>1. PICK s \in Slots : s = NextActivable(active_win) /\ s # 0
      BY <1>6, NextActivableIs DEF AltTab, FlagsInv
    <2>2. hwnd[s] \in There
      BY <2>1, NextActivableIs, ActivableThere DEF FlagsInv
    <2>3. dskMove2Top(hwnd[s], alwaystop)
      BY <1>6, <2>1 DEF AltTab
    <2>4. QED
      BY <2>2, <2>3, ListsMove
  <1>7. ASSUME NEW w \in Tops, NEW set, SetAlwaysTop(w, set) PROVE ListsInv'
    BY <1>7, ListsMove DEF SetAlwaysTop
  <1>8. ASSUME NEW w, \/ ShowMainWindow(w) \/ SetActiveMain(w) \/ HideMainWindow(w)
                     \/ ClickDesktop \/ EnableWindow(w, TRUE) \/ EnableWindow(w, FALSE)
        PROVE  ListsInv'
    BY <1>8, ListsSame
    DEF ShowMainWindow, SetActiveMain, HideMainWindow, ClickDesktop, EnableWindow, lists
  <1>9. CASE UNCHANGED vars
    BY <1>9, ListsSame DEF vars, lists
  <1>10. Switched \subseteq Tops
    BY ZOrderAssumption DEF ZOrderAssumption
  <1>11. QED
    BY <1>1, <1>2, <1>3, <1>4, <1>5, <1>6, <1>7, <1>8, <1>9, <1>10
    DEF Next, RemoveMainWindow, RemoveCtrl, Raise, ShowGlobalCtrl

-----------------------------------------------------------------------------
(* The types of the flags and of the active window.                        *)
LEMMA ThereIs ==
  ASSUME ListsInv
  PROVE  \A w : w \in There <=> w \in Windows /\ \E s \in Slots : hwnd[s] = w
  BY DEF ListsInv, ListInv, There, Range

LEMMA ThereStays == ListsInv /\ UNCHANGED hwnd => There' = There
  BY DEF There

LEMMA ThereAfter ==
  ListsInv' => /\ \A w : w \in There' <=> w \in Windows /\ \E s \in Slots : hwnd'[s] = w
               /\ hwnd'[0] = Desktop
  <1>1. (ListsInv => /\ \A w : w \in There <=> w \in Windows /\ \E s \in Slots : hwnd[s] = w
                     /\ hwnd[0] = Desktop)
    BY ThereIs, Constants DEF ListsInv, ListInv
  <1>2. (ListsInv => /\ \A w : w \in There <=> w \in Windows /\ \E s \in Slots : hwnd[s] = w
                     /\ hwnd[0] = Desktop)'
    BY <1>1, PTL
  <1>3. QED
    BY <1>2

LEMMA ActivateTypes ==
  ASSUME NEW s \in Slots, NEW old \in Slots, told \subseteq Mains, overlooked \in BOOLEAN,
         hwnd'[s] \notin Ctrls, SetActiveZOrderNode(s, old)
  PROVE  active_win' \in Slots /\ told' \subseteq Mains /\ overlooked' \in BOOLEAN
  BY DEF SetActiveZOrderNode, Windows, Tops

LEMMA WindowTypes ==
  ASSUME ListsInv', active_win \in Slots, told \subseteq Mains, overlooked \in BOOLEAN,
         NEW w, w = NULL \/ w \in Tops \cap There', SetActiveWindow(w)
  PROVE  active_win' \in Slots /\ told' \subseteq Mains /\ overlooked' \in BOOLEAN
  <1>1. CASE hwnd'[active_win] = w
    BY <1>1 DEF SetActiveWindow, active
  <1>2. CASE hwnd'[active_win] # w
    <2>1. PICK s \in Slots : /\ s = IF w = NULL THEN 0 ELSE CHOOSE x \in Slots : hwnd'[x] = w
                             /\ hwnd'[s] \in Tops \cup {Desktop}
      <3>1. CASE w = NULL
        BY <3>1, Constants, ThereAfter
      <3>2. CASE w # NULL
        <4>1. \E x \in Slots : hwnd'[x] = w
          BY <3>2, ThereAfter
        <4>2. QED
          BY <3>2, <4>1
      <3>3. QED
        BY <3>1, <3>2
    <2>2. hwnd'[s] \notin Ctrls
      BY <2>1, ZOrderAssumption DEF ZOrderAssumption, Windows
    <2>3. SetActiveZOrderNode(s, active_win)
      BY <1>2, <2>1 DEF SetActiveWindow
    <2>4. QED
      BY <2>2, <2>3, ActivateTypes
  <1>3. QED
    BY <1>1, <1>2

LEMMA FlagsStep ==
  ListsInv /\ ListsInv' /\ FlagsInv /\ [Next]_vars => FlagsInv'
  <1> SUFFICES ASSUME ListsInv, ListsInv', FlagsInv, [Next]_vars PROVE FlagsInv'
    OBVIOUS
  <1> DEFINE ActiveTypes == active_win' \in Slots /\ told' \subseteq Mains /\ overlooked' \in BOOLEAN
  <1>1. /\ active_win \in Slots /\ told \subseteq Mains /\ overlooked \in BOOLEAN
        /\ visible \subseteq There /\ disabled \subseteq Tops /\ alwaystop \subseteq Tops
    BY DEF FlagsInv
  <1>2. UNCHANGED hwnd => There' = There
    BY ThereStays
  <1>3. ASSUME NEW w \in Windows, NEW top, AllocZOrderNode(w, top)
        PROVE  There \subseteq There' /\ w \in There'
    <2>1. PICK s \in Slots : hwnd[s] = NULL /\ hwnd' = [hwnd EXCEPT ![s] = w]
      BY <1>3, Constants DEF AllocZOrderNode
    <2>2. hwnd \in [Slots -> Windows \cup {Desktop, NULL}]
      BY DEF ListsInv, ListInv
    <2>3. \A x \in Slots : hwnd'[x] = IF x = s THEN w ELSE hwnd[x]
      BY <2>1, <2>2
    <2>4. \A v \in There : \E x \in Slots : x # s /\ hwnd[x] = v
      BY <2>1, ThereIs, Constants
    <2>5. QED
      BY <2>3, <2>4, ThereIs, ThereAfter
  <1>4. ASSUME NEW w \in There, Unchain(w)
        PROVE  There \ {w} \subseteq There'
    <2>1. PICK s \in Slots : hwnd[s] = w /\ hwnd' = [hwnd EXCEPT ![s] = NULL]
      BY <1>4, SlotIs DEF Unchain, ListsInv
    <2>2. hwnd \in [Slots -> Windows \cup {Desktop, NULL}]
      BY DEF ListsInv, ListInv
    <2>3. \A x \in Slots : hwnd'[x] = IF x = s THEN NULL ELSE hwnd[x]
      BY <2>1, <2>2
    <2>4. QED
      BY <2>1, <2>3, ThereIs, ThereAfter
  <1>5. ASSUME NEW w \in Tops, NEW shown, NEW top, AddNewMainWindow(w, shown, top) PROVE FlagsInv'
    <2>1. w \in Windows /\ AllocZOrderNode(w, top)
      BY <1>5 DEF AddNewMainWindow, Windows
    <2>2. There \subseteq There' /\ w \in There'
      BY <1>3, <2>1
    <2>3. ActiveTypes
      BY <1>1, <1>5, <2>2, WindowTypes DEF AddNewMainWindow, active
    <2>4. QED
      BY <1>1, <1>5, <2>1, <2>2, <2>3 DEF AddNewMainWindow, AllocZOrderNode, FlagsInv
  <1>6. ASSUME NEW w \in There, FreeZOrderNode(w) PROVE FlagsInv'
    <2>1. PICK s \in Slots : s = Slot(w)
      BY SlotIs DEF ListsInv
    <2>2. There \ {w} \subseteq There' /\ visible' = visible \ {w} /\ disabled' = disabled \ {w}
          /\ alwaystop' = alwaystop \ {w}
      BY <1>4, <1>6 DEF FreeZOrderNode, Unchain
    <2>3. ActiveTypes
      <3>1. CASE w \in visible /\ active_win = s
        <4>1. NextActivable(s) \in Slots /\ 0 \in Slots
          BY NextActivableIs, Constants
        <4>2. hwnd'[NextActivable(s)] \notin Ctrls
          <5>1. hwnd' = [hwnd EXCEPT ![s] = NULL] /\ hwnd \in [Slots -> Windows \cup {Desktop, NULL}]
                /\ hwnd[0] = Desktop
            BY <1>6, <2>1, Constants DEF FreeZOrderNode, Unchain, ListsInv, ListInv
          <5>2. NextActivable(s) # 0 => hwnd[NextActivable(s)] \in Mains
            BY NextActivableIs DEF Activable
          <5>3. Mains \cap Ctrls = {} /\ Desktop \notin Ctrls /\ NULL \notin Ctrls
            BY ZOrderAssumption DEF ZOrderAssumption, Windows, Tops
          <5>4. QED
            BY <4>1, <5>1, <5>2, <5>3
        <4>3. SetActiveZOrderNode(NextActivable(s), 0)
          BY <1>6, <2>1, <3>1 DEF FreeZOrderNode
        <4>4. QED
          BY <1>1, <4>1, <4>2, <4>3, ActivateTypes
      <3>2. CASE ~(w \in visible /\ active_win = s)
        BY <1>1, <1>6, <2>1, <3>2 DEF FreeZOrderNode
      <3>3. QED
        BY <3>1, <3>2
    <2>4. QED
      BY <1>1, <2>2, <2>3 DEF FlagsInv
  <1>7. ASSUME NEW w \in There, MoveToTopMost(w)
        PROVE  There' = There /\ visible' \subseteq There' /\ UNCHANGED <<disabled, alwaystop>>
    BY <1>1, <1>2, <1>7 DEF MoveToTopMost, dskMove2Top
  <1>8. ASSUME NEW w \in Tops, Raise(w) PROVE FlagsInv'
    <2>1. w \in There /\ MoveToTopMost(w) /\ SetActiveWindow(w)
      BY <1>8 DEF Raise
    <2>2. ActiveTypes
      BY <1>1, <1>7, <2>1, WindowTypes
    <2>3. QED
      BY <1>1, <1>7, <2>1, <2>2 DEF FlagsInv
  <1>9. ASSUME NEW c \in Ctrls, ShowGlobalCtrl(c) PROVE FlagsInv'
    BY <1>1, <1>7, <1>9 DEF FlagsInv, ShowGlobalCtrl, active
  <1>10. ASSUME NEW w \in Tops, Click(w) PROVE FlagsInv'
    <2>1. w \in There /\ SetActiveWindow(w)
      BY <1>1, <1>10 DEF Click
    <2>2. There' = There /\ visible' \subseteq There' /\ UNCHANGED <<disabled, alwaystop>>
      BY <1>1, <1>2, <1>7, <1>10, <2>1 DEF Click, lists
    <2>3. ActiveTypes
      BY <1>1, <2>1, <2>2, WindowTypes
    <2>4. QED
      BY <1>1, <2>2, <2>3 DEF FlagsInv
  <1>11. ASSUME NEW c \in Ctrls, NEW shown, NewCtrl(c, shown) PROVE FlagsInv'
    <2>1. c \in Windows /\ AllocZOrderNode(c, FALSE)
      BY <1>11 DEF NewCtrl, Windows
    <2>2. There \subseteq There' /\ c \in There'
      BY <1>3, <2>1
    <2>3. QED
      BY <1>1, <1>11, <2>1, <2>2 DEF NewCtrl, AllocZOrderNode, FlagsInv, active
  <1>12. CASE AltTab
    <2>1. PICK s \in Slots : s = NextActivable(active_win) /\ s # 0
      BY <1>1, <1>12, NextActivableIs DEF AltTab
    <2>2. hwnd[s] \in Mains
      BY <1>1, <2>1, NextActivableIs DEF Activable
    <2>3. UNCHANGED <<hwnd, alwaystop, visible, disabled>> /\ SetActiveZOrderNode(s, active_win)
      BY <1>12, <2>1 DEF AltTab, dskMove2Top
    <2>4. hwnd'[s] \notin Ctrls
      BY <2>2, <2>3, ZOrderAssumption DEF ZOrderAssumption, Tops
    <2>5. ActiveTypes
      BY <1>1, <2>3, <2>4, ActivateTypes
    <2>6. QED
      BY <1>1, <1>2, <2>3, <2>5 DEF FlagsInv
  <1>13. ASSUME NEW w \in Tops, NEW set, SetAlwaysTop(w, set) PROVE FlagsInv'
    BY <1>1, <1>2, <1>13 DEF SetAlwaysTop, dskMove2Top, FlagsInv, active
  <1>14. ASSUME NEW w \in Tops, ShowMainWindow(w) \/ SetActiveMain(w) PROVE FlagsInv'
    <2>1. w \in There /\ UNCHANGED <<hwnd, alwaystop, disabled>> /\ SetActiveWindow(w)
          /\ visible' \in {visible, visible \cup {w}}
      BY <1>14 DEF ShowMainWindow, SetActiveMain, lists
    <2>2. ActiveTypes
      BY <1>1, <1>2, <2>1, WindowTypes
    <2>3. QED
      BY <1>1, <1>2, <2>1, <2>2 DEF FlagsInv
  <1>15. ASSUME NEW w, HideMainWindow(w) PROVE FlagsInv'
    BY <1>1, <1>2, <1>15 DEF HideMainWindow, FlagsInv, lists
  <1>16. CASE ClickDesktop
    BY <1>1, <1>2, <1>16, WindowTypes DEF ClickDesktop, FlagsInv, lists
  <1>17. ASSUME NEW w \in Tops, NEW enable, EnableWindow(w, enable) PROVE FlagsInv'
    <2>1. UNCHANGED <<hwnd, alwaystop, visible>> /\ disabled' \in {disabled \ {w}, disabled \cup {w}}
          /\ (SetActiveWindow(NULL) \/ UNCHANGED active)
      BY <1>17 DEF EnableWindow, lists
    <2>2. ActiveTypes
      BY <1>1, <2>1, WindowTypes DEF active
    <2>3. QED
      BY <1>1, <1>2, <2>1, <2>2 DEF FlagsInv
  <1>18. CASE UNCHANGED vars
    BY <1>1, <1>2, <1>18 DEF FlagsInv, vars, lists, active
  <1>19. Switched \subseteq Tops
    BY ZOrderAssumption DEF ZOrderAssumption
  <1>20. QED
    BY <1>5, <1>6, <1>8, <1>9, <1>10, <1>11, <1>12, <1>13, <1>14, <1>15, <1>16, <1>17, <1>18, <1>19
    DEF Next, RemoveMainWindow, RemoveCtrl

-----------------------------------------------------------------------------
(* Who has been told.  The invariant behind ActiveKnows: as long as nobody *)
(* has hidden the active window, it is a plain main window that is shown,  *)
(* or the desktop; so the next window to be activated finds it visible     *)
(* when it tells it that it is active no longer.                           *)
KnowsInv ==
    /\ told = IF overlooked THEN {} ELSE {hwnd[active_win]} \cap Windows
    /\ overlooked \/ hwnd[active_win] \in (Mains \cap visible) \cup {Desktop}

(* The same in the middle of a step, of the slot old that is to lose the   *)
(* activity, when the lists and the flags have changed.                    *)
KnowsStill(old) ==
    /\ told \cap Range(hwnd') = IF overlooked THEN {} ELSE {hwnd'[old]} \cap Windows
    /\ overlooked \/ hwnd'[old] \in (Mains \cap visible') \cup {Desktop}

LEMMA ActivateKnows ==
  ASSUME NEW s \in Slots, NEW old \in Slots, KnowsStill(old),
         hwnd'[s] \in (Mains \cap visible') \cup {Desktop} \cup Tools,
         SetActiveZOrderNode(s, old)
  PROVE  KnowsInv'
  <1>1. Desktop \notin Windows /\ Desktop \notin Ime \cup Tools
    BY ZOrderAssumption DEF ZOrderAssumption, Windows, Tops
  <1>2. CASE hwnd'[s] \in Ime \cup Tools
    BY <1>2 DEF SetActiveZOrderNode, KnowsStill, KnowsInv
  <1>3. CASE hwnd'[s] \notin Ime \cup Tools
    <2>1. /\ active_win' = s /\ overlooked' = FALSE
          /\ told' = ((told \cap Range(hwnd')) \ ({hwnd'[old]} \cap visible'))
                     \cup ({hwnd'[s]} \cap Windows)
      BY <1>3 DEF SetActiveZOrderNode
    <2>2. (told \cap Range(hwnd')) \ ({hwnd'[old]} \cap visible') = {}
      BY <1>1 DEF KnowsStill
    <2>3. hwnd'[active_win'] \in (Mains \cap visible') \cup {Desktop}
      BY <1>3, <2>1
    <2>4. told' = {hwnd'[active_win']} \cap Windows
      BY <2>1, <2>2
    <2>5. QED
      BY <2>1, <2>3, <2>4 DEF KnowsInv
  <1>4. QED
    BY <1>2, <1>3

LEMMA WindowKnows ==
  ASSUME ListsInv', active_win \in Slots, KnowsStill(active_win), told \subseteq Range(hwnd'),
         NEW w, w = NULL \/ w \in Tops \cap There' \cap visible', SetActiveWindow(w)
  PROVE  KnowsInv'
  <1>1. CASE hwnd'[active_win] = w
    <2>1. UNCHANGED active
      BY <1>1 DEF SetActiveWindow
    <2>2. QED
      BY <2>1 DEF active, KnowsStill, KnowsInv
  <1>2. CASE hwnd'[active_win] # w
    <2>1. PICK s \in Slots : /\ s = IF w = NULL THEN 0 ELSE CHOOSE x \in Slots : hwnd'[x] = w
                             /\ hwnd'[s] \in {Desktop, w}
                             /\ w = NULL => hwnd'[s] = Desktop
      <3>1. CASE w = NULL
        BY <3>1, Constants, ThereAfter
      <3>2. CASE w # NULL
        <4>1. \E x \in Slots : hwnd'[x] = w
          BY <3>2, ThereAfter
        <4>2. QED
          BY <3>2, <4>1
      <3>3. QED
        BY <3>1, <3>2
    <2>2. hwnd'[s] \in (Mains \cap visible') \cup {Desktop} \cup Tools
      BY <2>1 DEF Tops
    <2>3. SetActiveZOrderNode(s, active_win)
      BY <1>2, <2>1 DEF SetActiveWindow
    <2>4. QED
      BY <2>2, <2>3, ActivateKnows
  <1>3. QED
    BY <1>1, <1>2

(* The lists change, and no window goes: nobody knows anything new.        *)
LEMMA SameKnows ==
  ASSUME ListsInv, ListsInv', FlagsInv, KnowsInv, UNCHANGED hwnd, Mains \cap visible \subseteq visible'
  PROVE  KnowsStill(active_win) /\ told \subseteq Range(hwnd')
  <1>1. hwnd \in [Slots -> Windows \cup {Desktop, NULL}] /\ active_win \in Slots
    BY DEF ListsInv, ListInv, FlagsInv
  <1>2. hwnd[active_win] \in Range(hwnd)
    BY <1>1 DEF Range
  <1>3. QED
    BY <1>2 DEF KnowsInv, KnowsStill

LEMMA AddKnows ==
  ASSUME ListsInv, ListsInv', FlagsInv, KnowsInv, NEW w \in Windows, NEW top, AllocZOrderNode(w, top),
         visible \subseteq visible'
  PROVE  /\ KnowsStill(active_win) /\ told \subseteq Range(hwnd') /\ w \in There'
         /\ overlooked \/ hwnd'[active_win] = hwnd[active_win]
  <1>1. PICK s \in Slots : hwnd[s] = NULL /\ hwnd' = [hwnd EXCEPT ![s] = w]
    BY Constants DEF AllocZOrderNode
  <1>2. hwnd \in [Slots -> Windows \cup {Desktop, NULL}] /\ active_win \in Slots
    BY DEF ListsInv, ListInv, FlagsInv
  <1>3. \A x \in Slots : hwnd'[x] = IF x = s THEN w ELSE hwnd[x]
    BY <1>1, <1>2
  <1>4. w \in There'
    BY <1>3, ThereAfter
  <1>5. CASE overlooked
    BY <1>4, <1>5 DEF KnowsInv, KnowsStill
  <1>6. CASE ~overlooked
    <2>1. hwnd[active_win] # NULL
      BY <1>6, Constants DEF KnowsInv, Windows, Tops
    <2>2. hwnd'[active_win] = hwnd[active_win]
      BY <1>1, <1>2, <1>3, <2>1
    <2>3. hwnd'[active_win] \in Range(hwnd')
      BY <1>1, <1>2 DEF Range
    <2>4. QED
      BY <1>4, <1>6, <2>2, <2>3 DEF KnowsInv, KnowsStill
  <1>7. QED
    BY <1>5, <1>6

(* The next activable window is never the one that goes.                   *)
LEMMA NotItself ==
  ASSUME ListsInv, NEW w \in There
  PROVE  NextActivable(Slot(w)) # Slot(w)
  <1>1. PICK c \in [Levels -> Chains] : ListInv(c)
    BY DEF ListsInv
  <1>2. PICK t \in Levels : t = TypeOf[w]
    BY <1>1, SlotIs, Constants
  <1>3. PICK k \in 1 .. nr[t] : c[t][k] = Slot(w)
    BY <1>1, <1>2, SlotIs
  <1>4. PICK S : S = BelowPlace(c, t, k)
    OBVIOUS
  <1>5. 0 \in S
    BY <1>4 DEF BelowPlace
  <1>6. NextZNode(Slot(w)) \in S /\ \A x \in S \ {0} : NextZNode(x) \in S
    BY <1>1, <1>3, <1>4, NextBelow
  <1>7. NextActivable(Slot(w)) \in S
    BY <1>5, <1>6, Constants, ActivableIn
  <1>8. Slot(w) \notin S
    <2>1. SUFFICES ASSUME Slot(w) \in S PROVE FALSE
      OBVIOUS
    <2>2. Slot(w) # 0
      BY <1>1, SlotIs
    <2>3. PICK l \in Levels : \E j \in 1 .. nr[l] : c[l][j] = Slot(w) /\
                 \/ l = t /\ j > k
                 \/ \E a, b \in DOMAIN Types : Types[a] = t /\ Types[b] = l /\ a < b
      BY <1>4, <2>1, <2>2 DEF BelowPlace
    <2>4. PICK j \in 1 .. nr[l] : c[l][j] = Slot(w) /\
                 \/ l = t /\ j > k
                 \/ \E a, b \in DOMAIN Types : Types[a] = t /\ Types[b] = l /\ a < b
      BY <2>3
    <2>5. l = t
      BY <1>1, <1>2, <2>4, PlaceIs, SlotIs
    <2>6. j = k
      BY <1>1, <1>3, <2>4, <2>5 DEF ListInv, Links, OneToOne
    <2>7. DOMAIN Types = 1 .. Len(Types) /\ Len(Types) \in Nat
      BY ZOrderAssumption, LenProperties DEF ZOrderAssumption
    <2>8. PICK a, b \in DOMAIN Types : Types[a] = t /\ Types[b] = t /\ a < b
      BY <2>4, <2>5, <2>6
    <2>9. a = b
      BY <2>8, ZOrderAssumption DEF ZOrderAssumption
    <2>10. QED
      BY <2>7, <2>8, <2>9
  <1>9. QED
    BY <1>7, <1>8

LEMMA FreeKnows ==
  ASSUME ListsInv, ListsInv', FlagsInv, KnowsInv, NEW w \in There, FreeZOrderNode(w)
  PROVE  KnowsInv'
  <1>1. PICK s \in Slots : s = Slot(w) /\ s # 0 /\ hwnd[s] = w /\ \A x \in Slots : hwnd[x] = w => x = s
    BY SlotIs DEF ListsInv
  <1>2. /\ hwnd \in [Slots -> Windows \cup {Desktop, NULL}] /\ hwnd[0] = Desktop /\ 0 \in Slots
        /\ active_win \in Slots
    BY Constants DEF ListsInv, ListInv, FlagsInv
  <1>3. hwnd' = [hwnd EXCEPT ![s] = NULL] /\ visible' = visible \ {w}
    BY <1>1 DEF FreeZOrderNode, Unchain
  <1>4. \A x \in Slots : hwnd'[x] = IF x = s THEN NULL ELSE hwnd[x]
    BY <1>2, <1>3
  <1>5. w \in Windows /\ w \notin Range(hwnd')
    <2>1. w \in Windows
      BY ThereIs
    <2>2. hwnd' \in [Slots -> Windows \cup {Desktop, NULL}]
      BY <1>2, <1>3
    <2>3. \A x \in Slots : hwnd'[x] # w
      BY <1>1, <1>4, <2>1, Constants
    <2>4. QED
      BY <2>1, <2>2, <2>3 DEF Range
  <1>6. CASE w \in visible /\ active_win = s
    <2>1. PICK r \in Slots : /\ r = NextActivable(s) /\ r # s
                             /\ r # 0 => hwnd[r] \in Mains \cap visible
      BY <1>1, NextActivableIs, NotItself DEF Activable
    <2>2. hwnd'[r] \in (Mains \cap visible') \cup {Desktop}
      <3>1. r # 0 => hwnd[r] # w
        BY <1>1, <2>1
      <3>2. QED
        BY <1>2, <1>3, <1>4, <2>1, <3>1
    <2>3. KnowsStill(0)
      <3>1. told \subseteq {w}
        BY <1>1, <1>6 DEF KnowsInv
      <3>2. told \cap Range(hwnd') = {}
        BY <1>5, <3>1
      <3>3. hwnd'[0] = Desktop
        BY <1>1, <1>2, <1>4
      <3>4. QED
        BY <3>2, <3>3, Constants DEF KnowsStill
    <2>4. SetActiveZOrderNode(r, 0)
      BY <1>1, <1>6, <2>1 DEF FreeZOrderNode
    <2>5. QED
      BY <1>2, <2>2, <2>3, <2>4, ActivateKnows
  <1>7. CASE ~(w \in visible /\ active_win = s)
    <2>1. told' = told \ {w} /\ UNCHANGED <<active_win, overlooked>>
      BY <1>1, <1>7 DEF FreeZOrderNode
    <2>2. CASE overlooked
      BY <2>1, <2>2 DEF KnowsInv
    <2>3. CASE ~overlooked
      <3>1. hwnd[active_win] # w
        BY <1>1, <1>2, <1>5, <1>7, <2>3, Constants DEF KnowsInv
      <3>2. active_win # s /\ hwnd'[active_win] = hwnd[active_win]
        BY <1>1, <1>2, <1>4, <3>1
      <3>3. told' = told
        BY <2>1, <2>3, <3>1 DEF KnowsInv
      <3>4. QED
        BY <1>3, <2>1, <2>3, <3>1, <3>2, <3>3 DEF KnowsInv
    <2>4. QED
      BY <2>2, <2>3
  <1>8. QED
    BY <1>6, <1>7

(* Raising a window hides no plain main window.                            *)
LEMMA RaiseHidesNoMain ==
  ASSUME NEW w, MoveToTopMost(w)
  PROVE  UNCHANGED hwnd /\ Mains \cap visible \subseteq visible' /\ w \in visible'
  BY DEF MoveToTopMost, dskMove2Top, HiddenFor

LEMMA KnowsStep ==
  ASSUME ListsInv, ListsInv', FlagsInv, FlagsInv', KnowsInv, "hidden" \notin Careless, [Next]_vars
  PROVE  KnowsInv'
  <1>1. active_win \in Slots /\ visible \subseteq There /\ visible' \subseteq There'
    BY DEF FlagsInv
  <1>2. ASSUME NEW w \in Tops, NEW shown, NEW top, AddNewMainWindow(w, shown, top) PROVE KnowsInv'
    <2>1. /\ w \in Windows /\ AllocZOrderNode(w, top) /\ visible \subseteq visible'
          /\ shown => w \in visible'
      BY <1>2 DEF AddNewMainWindow, Windows
    <2>2. KnowsStill(active_win) /\ told \subseteq Range(hwnd') /\ w \in There'
      BY <2>1, AddKnows
    <2>3. CASE shown
      BY <1>1, <1>2, <2>1, <2>2, <2>3, WindowKnows DEF AddNewMainWindow
    <2>4. CASE ~shown
      BY <1>2, <2>2, <2>4 DEF AddNewMainWindow, active, KnowsStill, KnowsInv
    <2>5. QED
      BY <2>3, <2>4
  <1>3. ASSUME NEW w \in There, FreeZOrderNode(w) PROVE KnowsInv'
    BY <1>3, FreeKnows
  <1>4. ASSUME NEW w \in Tops, Raise(w) \/ (Click(w) /\ MoveToTopMost(w)) PROVE KnowsInv'
    <2>1. MoveToTopMost(w) /\ SetActiveWindow(w)
      BY <1>4 DEF Raise, Click
    <2>2. QED
      BY <1>1, <2>1, RaiseHidesNoMain, SameKnows, WindowKnows
  <1>5. ASSUME NEW c \in Ctrls, ShowGlobalCtrl(c) PROVE KnowsInv'
    <2>1. MoveToTopMost(c) /\ UNCHANGED active
      BY <1>5 DEF ShowGlobalCtrl
    <2>2. KnowsStill(active_win) /\ told \subseteq Range(hwnd')
      BY <2>1, RaiseHidesNoMain, SameKnows
    <2>3. QED
      BY <2>1, <2>2 DEF active, KnowsStill, KnowsInv
  <1>6. ASSUME NEW c \in Ctrls, NEW shown, NewCtrl(c, shown) PROVE KnowsInv'
    <2>1. c \in Windows /\ AllocZOrderNode(c, FALSE) /\ visible \subseteq visible' /\ UNCHANGED active
      BY <1>6 DEF NewCtrl, Windows
    <2>2. KnowsStill(active_win) /\ told \subseteq Range(hwnd')
      BY <2>1, AddKnows
    <2>3. QED
      BY <2>1, <2>2 DEF active, KnowsStill, KnowsInv
  <1>7. CASE AltTab
    <2>1. PICK s \in Slots : s = NextActivable(active_win) /\ s # 0
      BY <1>1, <1>7, NextActivableIs DEF AltTab
    <2>2. hwnd[s] \in Mains \cap visible
      BY <1>1, <2>1, NextActivableIs DEF Activable
    <2>3. UNCHANGED <<hwnd, visible>> /\ SetActiveZOrderNode(s, active_win)
      BY <1>7, <2>1 DEF AltTab, dskMove2Top
    <2>4. KnowsStill(active_win)
      BY <2>3, SameKnows
    <2>5. hwnd'[s] \in (Mains \cap visible') \cup {Desktop} \cup Tools
      BY <2>2, <2>3
    <2>6. QED
      BY <1>1, <2>3, <2>4, <2>5, ActivateKnows
  <1>8. ASSUME NEW w \in Tops, NEW set, SetAlwaysTop(w, set) PROVE KnowsInv'
    BY <1>8 DEF SetAlwaysTop, dskMove2Top, KnowsInv, active
  <1>9. ASSUME NEW w \in Tops,
               \/ ShowMainWindow(w) \/ SetActiveMain(w) \/ (Click(w) /\ UNCHANGED <<lists, visible>>)
        PROVE  KnowsInv'
    <2>1. SetActiveWindow(w) /\ UNCHANGED hwnd /\ visible \subseteq visible' /\ w \in visible'
      BY <1>9 DEF ShowMainWindow, SetActiveMain, Click, lists
    <2>2. QED
      BY <1>1, <2>1, SameKnows, WindowKnows
  <1>10. ASSUME NEW w \in Windows, HideMainWindow(w) PROVE KnowsInv'
    BY <1>10 DEF HideMainWindow, KnowsInv, lists
  <1>11. CASE ClickDesktop
    BY <1>1, <1>11, SameKnows, WindowKnows DEF ClickDesktop, lists
  <1>12. ASSUME NEW w \in Tops, NEW enable, EnableWindow(w, enable) PROVE KnowsInv'
    <2>1. UNCHANGED <<hwnd, visible>>
      BY <1>12 DEF EnableWindow, lists
    <2>2. CASE UNCHANGED active
      BY <2>1, <2>2 DEF KnowsInv, active
    <2>3. CASE SetActiveWindow(NULL)
      BY <1>1, <2>1, <2>3, SameKnows, WindowKnows
    <2>4. QED
      BY <1>12, <2>2, <2>3 DEF EnableWindow
  <1>13. CASE UNCHANGED vars
    BY <1>13 DEF KnowsInv, vars, lists, active
  <1>14. Switched \subseteq Tops
    BY ZOrderAssumption DEF ZOrderAssumption
  <1>15. ASSUME NEW w \in Tops, Click(w) PROVE KnowsInv'
    BY <1>4, <1>9, <1>15 DEF Click
  <1>16. QED
    BY <1>2, <1>3, <1>4, <1>5, <1>6, <1>7, <1>8, <1>9, <1>10, <1>11, <1>12, <1>13, <1>14, <1>15
    DEF Next, RemoveMainWindow, RemoveCtrl

-----------------------------------------------------------------------------
LEMMA InitInv ==
  Init => ListsInv /\ FlagsInv /\ KnowsInv
  <1> SUFFICES ASSUME Init PROVE ListsInv /\ FlagsInv /\ KnowsInv
    OBVIOUS
  <1> DEFINE none == [i \in Nat |-> 0]
  <1>1. PICK c \in [Levels -> Chains] : c = [l \in Levels |-> none]
    BY Constants DEF Chains
  <1>2. /\ hwnd = [s \in Slots |-> IF s = 0 THEN Desktop ELSE NULL]
        /\ next = [s \in Slots |-> 0] /\ prev = [s \in Slots |-> 0]
        /\ first = [l \in Levels |-> 0] /\ nr = [l \in Levels |-> 0]
    BY DEF Init
  <1>3. hwnd \in [Slots -> Windows \cup {Desktop, NULL}] /\ \A s \in Slots : hwnd[s] \notin Windows
    BY <1>2, Constants
  <1>4. \A s \in Slots : hwnd[s] = Desktop <=> s = 0
    BY <1>2, Constants
  <1>5. ASSUME NEW l \in Levels
        PROVE  /\ Links(c[l], nr[l], first[l], next, prev)
               /\ \A s \in Slots : s \in Used(l) <=> ~Absent(c[l], nr[l], s)
    <2>1. nr[l] = 0 /\ first[l] = 0 /\ c[l] = none
      BY <1>1, <1>2
    <2>2. Links(c[l], nr[l], first[l], next, prev)
      BY <2>1 DEF Links, OneToOne
    <2>3. \A s \in Slots : s \notin Used(l)
      BY <1>3 DEF Used
    <2>4. \A s \in Slots : Absent(c[l], nr[l], s)
      BY <2>1 DEF Absent
    <2>5. QED
      BY <2>2, <2>3, <2>4
  <1>6. ListInv(c)
    BY <1>2, <1>3, <1>4, <1>5, Constants DEF ListInv
  <1>7. ListsInv
    BY <1>6 DEF ListsInv
  <1>8. FlagsInv
    BY Constants DEF Init, FlagsInv
  <1>9. KnowsInv
    BY <1>2, Constants DEF Init, KnowsInv
  <1>10. QED
    BY <1>7, <1>8, <1>9

(* What From returns of a level is its list, and a window has one place    *)
(* in it.                                                                  *)
LEMMA RightFromInv ==
  ListsInv => ListsRight
  <1>1. SUFFICES ASSUME ListsInv, NEW l \in Levels
                 PROVE  LET chain == Listed(l)
                        IN  /\ {hwnd[s] : s \in Range(chain)} = {w \in There : TypeOf[w] = l}
                            /\ Len(chain) = Cardinality({w \in There : TypeOf[w] = l}) /\ nr[l] = Len(chain)
                            /\ \A i \in DOMAIN chain : prev[chain[i]] = IF i = 1 THEN 0 ELSE chain[i - 1]
    BY DEF ListsRight
  <1>2. PICK c \in [Levels -> Chains] : ListInv(c)
    BY <1>1 DEF ListsInv
  <1>3. PICK n \in Nat : n = nr[l] /\ Links(c[l], n, first[l], next, prev)
    BY <1>2 DEF ListInv
  <1> DEFINE chain == Listed(l)
             Ws == {w \in There : TypeOf[w] = l}
             h == [i \in 1 .. n |-> hwnd[c[l][i]]]
  <1>4. chain = [i \in 1 .. n |-> c[l][i]]
    <2>1. next[0] = 0 /\ c[l] \in Chains /\ NrSlots \in Nat \ {0}
      BY <1>2, Constants DEF ListInv
    <2>2. QED
      BY <1>3, <2>1, FromIs DEF Listed
  <1> HIDE DEF chain
  <1>5. DOMAIN chain = 1 .. n /\ Len(chain) = n /\ \A i \in 1 .. n : chain[i] = c[l][i]
    BY <1>4
  <1>6. \A i \in 1 .. n : hwnd[c[l][i]] \in Ws
    BY <1>2, <1>3, PlaceIs
  <1>7. \A w \in Ws : \E i \in 1 .. n : hwnd[c[l][i]] = w
    BY <1>2, <1>3, SlotIs
  <1>8. \A i, j \in 1 .. n : hwnd[c[l][i]] = hwnd[c[l][j]] => i = j
    <2>1. ASSUME NEW i \in 1 .. n, NEW j \in 1 .. n, hwnd[c[l][i]] = hwnd[c[l][j]] PROVE i = j
      <3>1. hwnd[c[l][i]] \in There /\ c[l][i] \in Slots /\ c[l][j] \in Slots
        BY <1>2, <1>3, PlaceIs
      <3>2. c[l][i] = c[l][j]
        BY <1>2, <2>1, <3>1, SlotIs
      <3>3. QED
        BY <1>3, <3>2 DEF Links, OneToOne
    <2>2. QED
      BY <2>1
  <1>9. Cardinality(Ws) = n
    <2>1. h \in [1 .. n -> Ws]
      BY <1>6
    <2>2. \A i, j \in 1 .. n : h[i] = h[j] => i = j
      BY <1>8
    <2>3. \A w \in Ws : \E i \in 1 .. n : h[i] = w
      BY <1>7
    <2> HIDE DEF h, Ws
    <2>4. h \in Bijection(1 .. n, Ws)
      BY <2>1, <2>2, <2>3 DEF Bijection, Injection, Surjection, IsInjective
    <2>5. ExistsBijection(1 .. n, Ws)
      BY <2>4 DEF ExistsBijection
    <2>6. QED
      BY <2>5, FS_CountingElements
  <1>10. {hwnd[s] : s \in Range(chain)} = Ws
    BY <1>5, <1>6, <1>7 DEF Range
  <1>11. \A i \in DOMAIN chain : prev[chain[i]] = IF i = 1 THEN 0 ELSE chain[i - 1]
    <2>1. ASSUME NEW i \in 1 .. n PROVE prev[c[l][i]] = IF i = 1 THEN 0 ELSE chain[i - 1]
      <3>1. prev[c[l][i]] = c[l][i - 1] /\ c[l][0] = 0
        BY <1>3 DEF Links
      <3>2. i # 1 => i - 1 \in 1 .. n
        OBVIOUS
      <3>3. QED
        BY <1>5, <3>1, <3>2
    <2>2. QED
      BY <1>5, <2>1
  <1>12. QED
    BY <1>3, <1>5, <1>9, <1>10, <1>11 DEF chain

LEMMA InvHolds == Spec => [](ListsInv /\ FlagsInv)
  <1>1. Init => ListsInv /\ FlagsInv
    BY InitInv
  <1>2. ListsInv /\ FlagsInv /\ [Next]_vars => (ListsInv /\ FlagsInv)'
    BY ListsStep, FlagsStep
  <1>3. QED
    BY <1>1, <1>2, PTL DEF Spec

(* The variables keep their types.                                         *)
THEOREM TypesHold == Spec => []TypeOK
  <1>1. ListsInv /\ FlagsInv => TypeOK
    BY ThereIs DEF ListsInv, ListInv, FlagsInv, TypeOK
  <1>2. QED
    BY <1>1, InvHolds, PTL

(* The links, the first slots and the counts of every level are those of   *)
(* one list of the windows that are there.                                 *)
THEOREM ListsHold == Spec => []ListsRight
  BY RightFromInv, InvHolds, PTL

(* If no caller activates a window that is hidden, the window that is      *)
(* active has been told so and no other one believes it is.                *)
THEOREM ActiveHolds ==
  ASSUME "hidden" \notin Careless PROVE Spec => []ActiveKnows
  <1>1. Init => KnowsInv
    BY InitInv
  <1>2. /\ ListsInv /\ FlagsInv /\ (ListsInv /\ FlagsInv)' /\ KnowsInv /\ [Next]_vars
        => KnowsInv'
    BY KnowsStep
  <1>3. KnowsInv => ActiveKnows
    BY DEF KnowsInv, ActiveKnows
  <1>4. QED
    BY <1>1, <1>2, <1>3, InvHolds, PTL DEF Spec

-----------------------------------------------------------------------------
(* The lists as stacks of windows.                                         *)

(* What the first n places of the list c hold.                             *)
Wins(h, c, n) == [i \in 1 .. n |-> h[c[i]]]

(* Those that are always on top come first.                                *)
Ordered(q, tops)  == \A i, j \in 1 .. Len(q) : i < j /\ q[j] \in tops => q[i] \in tops
Split(q, k, tops) == \A i \in 1 .. Len(q) : q[i] \in tops <=> i <= k
Agree(q, T, U)    == \A i \in 1 .. Len(q) : q[i] \in T <=> q[i] \in U

(* A function of the first numbers is a sequence.                          *)
LEMMA WinsSeq ==
  ASSUME NEW h, NEW c, NEW n \in Nat
  PROVE  /\ Len(Wins(h, c, n)) = n /\ DOMAIN Wins(h, c, n) = 1 .. n
         /\ \A i \in 1 .. n : Wins(h, c, n)[i] = h[c[i]]
  <1>1. PICK S : S = {h[c[i]] : i \in 1 .. n}
    OBVIOUS
  <1>2. PICK q : q = Wins(h, c, n)
    OBVIOUS
  <1>3. q \in [1 .. n -> S] /\ \A i \in 1 .. n : q[i] = h[c[i]]
    BY <1>1, <1>2 DEF Wins
  <1>4. Len(q) = n
    <2>1. q \in Seq(S)
      BY <1>3, SeqDef
    <2>2. QED
      BY <1>3, <2>1, LenProperties
  <1>5. QED
    BY <1>2, <1>3, <1>4

(* What the links of a level, followed from its first znode, show.         *)
LEMMA StackedIs ==
  ASSUME NEW c \in [Levels -> Chains], ListInv(c), NEW l \in Levels
  PROVE  Stacked(l) = Wins(hwnd, c[l], nr[l])
  <1>1. PICK q : q = Listed(l)
    OBVIOUS
  <1>2. q = [i \in 1 .. nr[l] |-> c[l][i]]
    <2>1. /\ c[l] \in Chains /\ nr[l] \in Nat /\ next[0] = 0
          /\ Links(c[l], nr[l], first[l], next, prev)
      BY DEF ListInv
    <2>2. QED
      BY <1>1, <2>1, Constants, FromIs DEF Listed
  <1>3. Stacked(l) = [n \in DOMAIN q |-> hwnd[q[n]]]
    BY <1>1 DEF Stacked
  <1>4. QED
    BY <1>2, <1>3 DEF Wins

StacksAre(c) == \A l \in Levels : Stacked(l) = Wins(hwnd, c[l], nr[l])

(* So they do for whatever lists ListsInv speaks of, before a step and     *)
(* after it.                                                               *)
LEMMA StacksNow == \A d \in [Levels -> Chains] : ListInv(d) => StacksAre(d)
  BY StackedIs DEF StacksAre

(* The same of the lists after a step.                                     *)
LEMMA StacksNext == (\A d \in [Levels -> Chains] : ListInv(d) => StacksAre(d))'
  BY StacksNow, PTL

(* The same for one choice of lists.                                       *)
LEMMA StacksThen ==
  ASSUME NEW d \in [Levels -> Chains], ListInv(d)'
  PROVE  \A l \in Levels : Stacked(l)' = Wins(hwnd', d[l], nr'[l])
  <1>1. StacksAre(d)'
    BY StacksNext
  <1>2. QED
    BY <1>1 DEF StacksAre

(* Every place of the list but the one given holds what it held.           *)
SameHeld(h2, h, c, n, but) == \A i \in 1 .. n : i # but => h2[c[i]] = h[c[i]]

(* Putting a znode into a list, or taking one out, does so to the stack.   *)
LEMMA InWins ==
  ASSUME NEW h, NEW h2, NEW c, NEW n \in Nat, NEW k \in 0 .. n, NEW s, NEW w,
         h2[s] = w, SameHeld(h2, h, c, n, 0)
  PROVE  Wins(h2, Ins(c, k, s), n + 1) = Stack!In(Wins(h, c, n), k, w)
  <1>0. \A i \in 1 .. n : h2[c[i]] = h[c[i]]
    BY DEF SameHeld
  <1>1. PICK q : q = Wins(h, c, n) /\ Len(q) = n /\ \A i \in 1 .. n : q[i] = h[c[i]]
    BY WinsSeq
  <1>2. PICK d : d = Ins(c, k, s)
    OBVIOUS
  <1>3. ASSUME NEW i \in 1 .. n + 1
        PROVE  h2[d[i]] = IF i <= k THEN q[i] ELSE IF i = k + 1 THEN w ELSE q[i - 1]
    <2>1. d[i] = IF i <= k THEN c[i] ELSE IF i = k + 1 THEN s ELSE c[i - 1]
      BY <1>2 DEF Ins
    <2>2. CASE i <= k
      <3>1. i \in 1 .. n
        BY <2>2
      <3>2. QED
        BY <1>0, <1>1, <2>1, <2>2, <3>1
    <2>3. CASE i = k + 1
      BY <2>1, <2>3
    <2>4. CASE i > k + 1
      <3>1. i - 1 \in 1 .. n /\ ~(i <= k) /\ i # k + 1
        BY <2>4
      <3>2. QED
        BY <1>0, <1>1, <2>1, <3>1
    <2>5. QED
      BY <2>2, <2>3, <2>4
  <1>4. Wins(h2, d, n + 1) = [i \in 1 .. n + 1 |->
            IF i <= k THEN q[i] ELSE IF i = k + 1 THEN w ELSE q[i - 1]]
    BY <1>3 DEF Wins
  <1>5. Stack!In(q, k, w) = [i \in 1 .. n + 1 |->
            IF i <= k THEN q[i] ELSE IF i = k + 1 THEN w ELSE q[i - 1]]
    BY <1>1 DEF Stack!In
  <1>6. QED
    BY <1>1, <1>2, <1>4, <1>5

(* Taking one out.                                                         *)
LEMMA OutWins ==
  ASSUME NEW h, NEW h2, NEW c, NEW n \in Nat, NEW k \in 1 .. n,
         SameHeld(h2, h, c, n, k)
  PROVE  Wins(h2, Del(c, k), n - 1) = Stack!Out(Wins(h, c, n), k)
  <1>0. \A i \in 1 .. n : i # k => h2[c[i]] = h[c[i]]
    BY DEF SameHeld
  <1>1. PICK q : q = Wins(h, c, n) /\ Len(q) = n /\ \A i \in 1 .. n : q[i] = h[c[i]]
    BY WinsSeq
  <1>2. PICK d : d = Del(c, k)
    OBVIOUS
  <1>3. ASSUME NEW i \in 1 .. n - 1
        PROVE  h2[d[i]] = IF i < k THEN q[i] ELSE q[i + 1]
    <2>1. d[i] = IF i < k THEN c[i] ELSE c[i + 1]
      BY <1>2 DEF Del
    <2>2. i \in 1 .. n /\ i + 1 \in 1 .. n /\ (i < k => i # k) /\ (~(i < k) => i + 1 # k)
      OBVIOUS
    <2>3. QED
      BY <1>0, <1>1, <2>1, <2>2
  <1>4. Wins(h2, d, n - 1) = [i \in 1 .. n - 1 |-> IF i < k THEN q[i] ELSE q[i + 1]]
    BY <1>3 DEF Wins
  <1>5. Stack!Out(q, k) = [i \in 1 .. n - 1 |-> IF i < k THEN q[i] ELSE q[i + 1]]
    BY <1>1 DEF Stack!Out
  <1>6. QED
    BY <1>1, <1>2, <1>4, <1>5

(* The place behind those at the front that are always on top is where the *)
(* others begin, if the order is right.                                    *)
LEMMA OrderedSplit ==
  ASSUME NEW q, NEW n \in Nat, Len(q) = n, NEW tops, Ordered(q, tops), NEW k \in 0 .. n,
         \A i \in 1 .. k : q[i] \in tops, k < n => q[k + 1] \notin tops
  PROVE  Split(q, k, tops)
  <1>1. ASSUME NEW i \in 1 .. n PROVE q[i] \in tops <=> i <= k
    <2>1. CASE i <= k
      BY <2>1
    <2>2. CASE i = k + 1
      BY <2>2
    <2>3. CASE i > k + 1
      <3>1. k + 1 \in 1 .. n /\ k + 1 < i /\ k < n
        BY <2>3
      <3>2. QED
        BY <2>3, <3>1 DEF Ordered
    <2>4. QED
      BY <2>1, <2>2, <2>3
  <1>2. QED
    BY <1>1 DEF Split

(* There a window can be put in.                                           *)
LEMMA OrderedIns ==
  ASSUME NEW h, NEW h2, NEW c, NEW n \in Nat, NEW k \in 0 .. n, NEW s, NEW tops,
         SameHeld(h2, h, c, n, 0),
         Split(Wins(h, c, n), k, tops)
  PROVE  Ordered(Wins(h2, Ins(c, k, s), n + 1), tops)
  <1>0. \A i \in 1 .. n : h2[c[i]] = h[c[i]]
    BY DEF SameHeld
  <1>1. PICK q : q = Wins(h, c, n) /\ Len(q) = n /\ \A i \in 1 .. n : q[i] = h[c[i]]
    BY WinsSeq
  <1>2. PICK d : d = Ins(c, k, s)
    OBVIOUS
  <1>3. PICK r : r = Wins(h2, d, n + 1) /\ Len(r) = n + 1 /\ \A i \in 1 .. n + 1 : r[i] = h2[d[i]]
    <2>1. n + 1 \in Nat
      OBVIOUS
    <2>2. QED
      BY <2>1, WinsSeq
  <1>4. \A i \in 1 .. n : q[i] \in tops <=> i <= k
    BY <1>1 DEF Split
  <1>5. ASSUME NEW i \in 1 .. n + 1
        PROVE  /\ i <= k => i \in 1 .. n /\ r[i] = q[i]
               /\ i > k + 1 => i - 1 \in 1 .. n /\ r[i] = q[i - 1]
    <2>1. d[i] = IF i <= k THEN c[i] ELSE IF i = k + 1 THEN s ELSE c[i - 1]
      BY <1>2 DEF Ins
    <2>2. CASE i <= k
      BY <1>0, <1>1, <1>3, <2>1, <2>2
    <2>3. CASE i > k + 1
      <3>1. i - 1 \in 1 .. n /\ ~(i <= k) /\ i # k + 1
        BY <2>3
      <3>2. QED
        BY <1>0, <1>1, <1>3, <2>1, <2>3, <3>1
    <2>4. QED
      BY <2>2, <2>3
  <1>6. ASSUME NEW i \in 1 .. n + 1, NEW j \in 1 .. n + 1, i < j, r[j] \in tops
        PROVE  r[i] \in tops
    <2>1. j <= k + 1
      <3>1. ASSUME j > k + 1 PROVE FALSE
        <4>1. j - 1 \in 1 .. n /\ r[j] = q[j - 1] /\ ~(j - 1 <= k)
          BY <1>5, <3>1
        <4>2. QED
          BY <1>4, <1>6, <4>1
      <3>2. QED
        BY <3>1
    <2>2. i <= k
      BY <1>6, <2>1
    <2>3. QED
      BY <1>4, <1>5, <2>2
  <1>7. QED
    BY <1>2, <1>3, <1>6 DEF Ordered

(* Taking one out leaves the order right.                                  *)
LEMMA OrderedDel ==
  ASSUME NEW h, NEW h2, NEW c, NEW n \in Nat, NEW k \in 1 .. n, NEW tops,
         SameHeld(h2, h, c, n, k),
         Ordered(Wins(h, c, n), tops)
  PROVE  Ordered(Wins(h2, Del(c, k), n - 1), tops)
  <1>0. \A i \in 1 .. n : i # k => h2[c[i]] = h[c[i]]
    BY DEF SameHeld
  <1>1. PICK q : q = Wins(h, c, n) /\ Len(q) = n /\ \A i \in 1 .. n : q[i] = h[c[i]]
    BY WinsSeq
  <1>2. PICK d : d = Del(c, k)
    OBVIOUS
  <1>3. PICK r : r = Wins(h2, d, n - 1) /\ Len(r) = n - 1 /\ \A i \in 1 .. n - 1 : r[i] = h2[d[i]]
    <2>1. n - 1 \in Nat
      OBVIOUS
    <2>2. QED
      BY <2>1, WinsSeq
  <1>4. ASSUME NEW i \in 1 .. n - 1
        PROVE  r[i] = IF i < k THEN q[i] ELSE q[i + 1]
    <2>1. d[i] = IF i < k THEN c[i] ELSE c[i + 1]
      BY <1>2 DEF Del
    <2>2. i \in 1 .. n /\ i + 1 \in 1 .. n /\ (i < k => i # k) /\ (~(i < k) => i + 1 # k)
      OBVIOUS
    <2>3. QED
      BY <1>0, <1>1, <1>3, <2>1, <2>2
  <1>5. ASSUME NEW i \in 1 .. n - 1, NEW j \in 1 .. n - 1, i < j, r[j] \in tops
        PROVE  r[i] \in tops
    <2>1. PICK a \in 1 .. n : r[i] = q[a] /\ a = IF i < k THEN i ELSE i + 1
      BY <1>4
    <2>2. PICK b \in 1 .. n : r[j] = q[b] /\ b = IF j < k THEN j ELSE j + 1
      BY <1>4
    <2>3. a < b
      BY <1>5, <2>1, <2>2
    <2>4. QED
      BY <1>1, <1>5, <2>1, <2>2, <2>3 DEF Ordered
  <1>6. QED
    BY <1>2, <1>3, <1>5 DEF Ordered

(* Only what the stack holds matters.                                      *)
LEMMA OrderedAgree ==
  ASSUME NEW q, NEW T, NEW U, Agree(q, T, U), Ordered(q, T)
  PROVE  Ordered(q, U)
  BY DEF Agree, Ordered
(* The same of the place that divides it.                                  *)
LEMMA SplitAgree ==
  ASSUME NEW q, NEW k, NEW T, NEW U, Agree(q, T, U), Split(q, k, T)
  PROVE  Split(q, k, U)
  BY DEF Agree, Split

(* Those that are always on top are above the others of their level.       *)
OrderInv == \A l \in Levels : Ordered(Stacked(l), alwaystop)

(* What a stack holds, and where.                                          *)
LEMMA StackHolds ==
  ASSUME NEW c \in [Levels -> Chains], ListInv(c), NEW l \in Levels
  PROVE  /\ nr[l] \in Nat /\ Len(Stacked(l)) = nr[l] /\ DOMAIN Stacked(l) = 1 .. nr[l]
         /\ \A i \in 1 .. nr[l] : /\ Stacked(l)[i] = hwnd[c[l][i]] /\ c[l][i] \in Slots
                                  /\ Stacked(l)[i] \in There /\ TypeOf[Stacked(l)[i]] = l
         /\ \A i, j \in 1 .. nr[l] : Stacked(l)[i] = Stacked(l)[j] => i = j
  <1>1. nr[l] \in Nat /\ Links(c[l], nr[l], first[l], next, prev)
    BY DEF ListInv
  <1>2. Stacked(l) = Wins(hwnd, c[l], nr[l])
    BY StackedIs
  <1>3. /\ Len(Stacked(l)) = nr[l] /\ DOMAIN Stacked(l) = 1 .. nr[l]
        /\ \A i \in 1 .. nr[l] : Stacked(l)[i] = hwnd[c[l][i]]
    BY <1>1, <1>2, WinsSeq
  <1>4. \A i \in 1 .. nr[l] : /\ c[l][i] \in Slots \ {0}
                              /\ hwnd[c[l][i]] \in There /\ TypeOf[hwnd[c[l][i]]] = l
    BY PlaceIs
  <1>5. ASSUME NEW i \in 1 .. nr[l], NEW j \in 1 .. nr[l], Stacked(l)[i] = Stacked(l)[j]
        PROVE  i = j
    <2>1. hwnd[c[l][i]] = hwnd[c[l][j]] /\ hwnd[c[l][i]] \in Windows
      BY <1>3, <1>4, <1>5, SlotIs
    <2>2. c[l][i] = c[l][j]
      BY <1>4, <2>1 DEF ListInv
    <2>3. QED
      BY <1>1, <2>2 DEF Links, OneToOne
  <1>6. QED
    BY <1>1, <1>3, <1>4, <1>5

(* The place of a window on its stack.                                     *)
LEMMA PlacesThere ==
  ASSUME NEW c \in [Levels -> Chains], ListInv(c), NEW w \in There,
         NEW k \in 1 .. nr[TypeOf[w]], c[TypeOf[w]][k] = Slot(w)
  PROVE  /\ k \in Stack!Places(w) /\ Stacked(TypeOf[w])[k] = w
         /\ \A l \in Levels : \A i \in 1 .. nr[l] : Stacked(l)[i] = w => l = TypeOf[w] /\ i = k
  <1>1. w \in Windows /\ hwnd[Slot(w)] = w
    BY SlotIs
  <1>2. PICK t \in Levels : t = TypeOf[w]
    BY <1>1, Constants
  <1>3. /\ DOMAIN Stacked(t) = 1 .. nr[t] /\ Stacked(t)[k] = hwnd[c[t][k]]
        /\ \A i \in 1 .. nr[t] : Stacked(t)[i] = Stacked(t)[k] => i = k
    BY <1>2, StackHolds
  <1>4. Stacked(t)[k] = w
    BY <1>1, <1>2, <1>3
  <1>5. ASSUME NEW l \in Levels, NEW i \in 1 .. nr[l], Stacked(l)[i] = w
        PROVE  l = t /\ i = k
    <2>1. l = t
      BY <1>2, <1>5, StackHolds
    <2>2. QED
      BY <1>3, <1>4, <1>5, <2>1
  <1>6. k \in Stack!Places(w)
    BY <1>2, <1>3, <1>4 DEF Stack!Places
  <1>7. QED
    BY <1>2, <1>4, <1>5, <1>6

(* A level whose znodes are left alone.                                    *)
LEMMA SameStack ==
  ASSUME NEW c \in [Levels -> Chains], ListInv(c), NEW d \in [Levels -> Chains], ListInv(d)',
         NEW l \in Levels, d[l] = c[l], nr'[l] = nr[l],
         \A i \in 1 .. nr[l] : hwnd'[c[l][i]] = hwnd[c[l][i]]
  PROVE  Stacked(l)' = Stacked(l)
  <1>1. Stacked(l) = Wins(hwnd, c[l], nr[l])
    BY StackedIs
  <1>2. Stacked(l)' = Wins(hwnd', c[l], nr[l])
    BY StacksThen
  <1>3. QED
    BY <1>1, <1>2 DEF Wins

(* FreeZOrderNodeEx.                                                       *)
LEMMA RemoveStack ==
  ASSUME NEW c \in [Levels -> Chains], ListInv(c), OrderInv, NEW w \in There, Unchain(w)
  PROVE  Stack!Remove(w) /\ OrderInv'
  <1>1. w \in Windows /\ Slot(w) \in Slots \ {0} /\ hwnd[Slot(w)] = w
    BY SlotIs
  <1>2. PICK t \in Levels : t = TypeOf[w]
    BY <1>1, Constants
  <1>3. PICK s \in Slots : s = Slot(w)
    BY <1>1
  <1>4. PICK k \in 1 .. nr[t], d \in [Levels -> Chains] :
            /\ c[t][k] = s /\ hwnd' = [hwnd EXCEPT ![s] = NULL]
            /\ nr' = [nr EXCEPT ![t] = @ - 1]
            /\ d = [c EXCEPT ![t] = Del(c[t], k)]
            /\ ListInv(d)'
    BY <1>2, <1>3, UnchainKeeps
  <1>5. /\ hwnd \in [Slots -> Windows \cup {Desktop, NULL}] /\ nr \in [Levels -> Nat]
        /\ nr[t] \in Nat
    BY DEF ListInv
  <1>6. k \in Stack!Places(w) /\ Stacked(t)[k] = w
        /\ \A l \in Levels : \A i \in 1 .. nr[l] : Stacked(l)[i] = w => l = t /\ i = k
    BY <1>2, <1>3, <1>4, PlacesThere
  <1>7. \A l \in Levels : \A i \in 1 .. nr[l] : (l # t \/ i # k) => hwnd'[c[l][i]] = hwnd[c[l][i]]
    <2> SUFFICES ASSUME NEW l \in Levels, NEW i \in 1 .. nr[l], l # t \/ i # k
                 PROVE  hwnd'[c[l][i]] = hwnd[c[l][i]]
      OBVIOUS
    <2>1. Stacked(l)[i] = hwnd[c[l][i]] /\ c[l][i] \in Slots
      BY StackHolds
    <2>2. c[l][i] # s
      BY <1>1, <1>3, <1>6, <2>1
    <2>3. QED
      BY <1>4, <1>5, <2>1, <2>2
  <1>8. ASSUME NEW l \in Levels, l # t
        PROVE  Stacked(l)' = Stacked(l) /\ Ordered(Stacked(l), alwaystop')
    <2>1. d[l] = c[l] /\ nr'[l] = nr[l]
      BY <1>4, <1>5, <1>8
    <2>2. Stacked(l)' = Stacked(l)
      BY <1>4, <1>7, <1>8, <2>1, SameStack
    <2>3. Len(Stacked(l)) = nr[l] /\ \A i \in 1 .. nr[l] : Stacked(l)[i] # w
      BY <1>6, <1>8, StackHolds
    <2>4. alwaystop' = alwaystop \ {w}
      BY DEF Unchain
    <2>5. Agree(Stacked(l), alwaystop, alwaystop')
      BY <2>3, <2>4 DEF Agree
    <2>6. QED
      BY <2>2, <2>5, OrderedAgree DEF OrderInv
  <1>9. /\ Stacked(t)' = Stack!Out(Stacked(t), k)
        /\ Ordered(Stacked(t)', alwaystop')
    <2>1. d[t] = Del(c[t], k) /\ nr'[t] = nr[t] - 1
      BY <1>4, <1>5
    <2>2. Stacked(t) = Wins(hwnd, c[t], nr[t])
      BY StackedIs
    <2>3. Stacked(t)' = Wins(hwnd', Del(c[t], k), nr[t] - 1)
      BY <1>4, <2>1, StacksThen
    <2>4. PICK h, g, n : h = hwnd /\ g = hwnd' /\ n = nr[t]
      OBVIOUS
    <2>5. SameHeld(g, h, c[t], n, k) /\ k \in 1 .. n /\ n \in Nat
      BY <1>4, <1>5, <1>7, <2>4 DEF SameHeld
    <2>6. Wins(g, Del(c[t], k), n - 1) = Stack!Out(Wins(h, c[t], n), k)
      BY <2>5, OutWins
    <2>7. Ordered(Wins(g, Del(c[t], k), n - 1), alwaystop)
      <3>1. Ordered(Wins(h, c[t], n), alwaystop)
        BY <2>2, <2>4 DEF OrderInv
      <3>2. QED
        BY <2>5, <3>1, OrderedDel
    <2>8. Agree(Stacked(t)', alwaystop, alwaystop')
      <3>1. Len(Stacked(t)') = n - 1 /\ \A i \in 1 .. n - 1 : Stacked(t)'[i] = g[Del(c[t], k)[i]]
        <4>1. n - 1 \in Nat
          BY <1>4, <1>5, <2>4
        <4>2. QED
          BY <2>3, <2>4, <4>1, WinsSeq
      <3>2. ASSUME NEW i \in 1 .. n - 1 PROVE g[Del(c[t], k)[i]] # w
        <4>1. PICK j \in 1 .. n : j # k /\ Del(c[t], k)[i] = c[t][j]
          <5>1. Del(c[t], k)[i] = IF i < k THEN c[t][i] ELSE c[t][i + 1]
            BY <1>5, <2>4 DEF Del
          <5>2. QED
            BY <1>4, <1>5, <2>4, <5>1
        <4>2. g[c[t][j]] = hwnd[c[t][j]] /\ Stacked(t)[j] = hwnd[c[t][j]]
          BY <2>4, <2>5, <4>1, StackHolds DEF SameHeld
        <4>3. QED
          BY <1>6, <2>4, <4>1, <4>2
      <3>3. alwaystop' = alwaystop \ {w}
        BY DEF Unchain
      <3>4. QED
        BY <3>1, <3>2, <3>3 DEF Agree
    <2>9. QED
      BY <2>2, <2>3, <2>4, <2>6, <2>7, <2>8, OrderedAgree
  <1>10. OrderInv'
    BY <1>8, <1>9 DEF OrderInv
  <1>11. Stack!Remove(w)
    <2>1. PICK K : K = [l \in Levels |-> Stacked(l)]
      OBVIOUS
    <2>2. [l \in Levels |-> Stacked(l)'] = [K EXCEPT ![t] = Stack!Out(K[t], k)]
      BY <1>8, <1>9, <2>1
    <2>3. alwaystop' = alwaystop \ {w}
      BY DEF Unchain
    <2>4. QED
      BY <1>2, <1>6, <2>1, <2>2, <2>3 DEF Stack!Remove, Stack!Without
  <1>12. QED
    BY <1>10, <1>11

(* The flags of every window but one are the same.                         *)
SameBut(T, U, w) == \A v : v # w => (v \in T <=> v \in U)
Lacks(q, w)      == \A i \in 1 .. Len(q) : q[i] # w

(* A level that the window is not of keeps its order, whatever becomes of  *)
(* the window's own flag.                                                  *)
LEMMA OtherOrder ==
  ASSUME OrderInv, NEW l \in Levels, NEW w, Lacks(Stacked(l), w),
         SameBut(alwaystop', alwaystop, w)
  PROVE  Ordered(Stacked(l), alwaystop')
  <1>1. PICK T, U : T = alwaystop /\ U = alwaystop'
    OBVIOUS
  <1>2. Agree(Stacked(l), T, U)
    BY <1>1 DEF Agree, SameBut, Lacks
  <1>3. QED
    BY <1>1, <1>2, OrderedAgree DEF OrderInv

(* AllocZOrderNodeEx.                                                      *)
LEMMA AddStack ==
  ASSUME NEW c \in [Levels -> Chains], ListInv(c), OrderInv, NEW w \in Windows, NEW top,
         AllocZOrderNode(w, top)
  PROVE  Stack!Add(w) /\ OrderInv'
  <1>1. PICK t \in Levels : t = TypeOf[w]
    BY Constants
  <1>2. PICK s \in Slots \ {0}, k \in 0 .. nr[t], d \in [Levels -> Chains] :
            /\ hwnd[s] = NULL /\ hwnd' = [hwnd EXCEPT ![s] = w]
            /\ nr' = [nr EXCEPT ![t] = @ + 1]
            /\ Below(c[t], nr[t], k, alwaystop)
            /\ d = [c EXCEPT ![t] = Ins(c[t], k, s)]
            /\ ListInv(d)'
    BY <1>1, AllocKeeps
  <1>3. /\ hwnd \in [Slots -> Windows \cup {Desktop, NULL}] /\ nr \in [Levels -> Nat]
        /\ nr[t] \in Nat
    BY DEF ListInv
  <1>4. /\ w \notin There /\ nr[t] < MaxNr[t] /\ alwaystop' \in {alwaystop, alwaystop \cup {w}}
    BY <1>1 DEF AllocZOrderNode
  <1>5. \A l \in Levels : \A i \in 1 .. nr[l] : Stacked(l)[i] # w /\ hwnd'[c[l][i]] = hwnd[c[l][i]]
    <2> SUFFICES ASSUME NEW l \in Levels, NEW i \in 1 .. nr[l]
                 PROVE  Stacked(l)[i] # w /\ hwnd'[c[l][i]] = hwnd[c[l][i]]
      OBVIOUS
    <2>1. Stacked(l)[i] = hwnd[c[l][i]] /\ c[l][i] \in Slots /\ Stacked(l)[i] \in There
      BY StackHolds
    <2>2. hwnd[c[l][i]] \in Windows
      BY <2>1, SlotIs
    <2>3. c[l][i] # s
      BY <1>2, <2>2, Constants
    <2>4. QED
      BY <1>2, <1>3, <1>4, <2>1, <2>3
  <1>6. ASSUME NEW l \in Levels, l # t
        PROVE  Stacked(l)' = Stacked(l) /\ Ordered(Stacked(l), alwaystop')
    <2>1. d[l] = c[l] /\ nr'[l] = nr[l]
      BY <1>2, <1>3, <1>6
    <2>2. Stacked(l)' = Stacked(l)
      <3>1. \A i \in 1 .. nr[l] : hwnd'[c[l][i]] = hwnd[c[l][i]]
        BY <1>5
      <3>2. QED
        BY <1>2, <2>1, <3>1, SameStack
    <2>3. Lacks(Stacked(l), w)
      BY <1>5, StackHolds DEF Lacks
    <2>4. SameBut(alwaystop', alwaystop, w)
      BY <1>4 DEF SameBut
    <2>5. Ordered(Stacked(l), alwaystop')
      BY <2>3, <2>4, OtherOrder
    <2>6. QED
      BY <2>2, <2>5
  <1>0. PICK n \in Nat : n = nr[t]
    BY <1>3
  <1>7. PICK h, g, e : h = hwnd /\ g = hwnd' /\ n = nr[t] /\ e = c[t]
    BY <1>0
  <1>8. SameHeld(g, h, e, n, 0) /\ g[s] = w /\ k \in 0 .. n
    BY <1>2, <1>3, <1>5, <1>7 DEF SameHeld
  <1>9. /\ Stacked(t) = Wins(h, e, n) /\ Len(Stacked(t)) = n
        /\ \A i \in 1 .. n : Stacked(t)[i] = h[e[i]]
    BY <1>7, StackedIs, StackHolds
  <1>10. Stacked(t)' = Wins(g, Ins(e, k, s), n + 1)
    <2>1. d[t] = Ins(e, k, s) /\ nr'[t] = n + 1
      BY <1>2, <1>3, <1>7
    <2>2. QED
      BY <1>2, <1>7, <2>1, StacksThen
  <1>11. Split(Stacked(t), k, alwaystop)
    <2>1. /\ \A i \in 1 .. k : Stacked(t)[i] \in alwaystop
          /\ k < n => Stacked(t)[k + 1] \notin alwaystop
      BY <1>2, <1>7, <1>8, <1>9 DEF Below
    <2>2. QED
      BY <1>8, <1>9, <2>1, OrderedSplit DEF OrderInv
  <1>12. PICK T : T = alwaystop'
    OBVIOUS
  <1>13. Split(Stacked(t), k, T)
    <2>1. Agree(Stacked(t), alwaystop, T)
      BY <1>4, <1>5, <1>7, <1>9, <1>12 DEF Agree
    <2>2. QED
      BY <1>11, <2>1, SplitAgree
  <1>14. Stacked(t)' = Stack!In(Stacked(t), k, w)
    BY <1>8, <1>9, <1>10, InWins
  <1>15. Ordered(Stacked(t)', T)
    BY <1>8, <1>9, <1>10, <1>13, OrderedIns
  <1>16. OrderInv'
    BY <1>6, <1>12, <1>15 DEF OrderInv
  <1>17. Stack!Add(w)
    <2>1. PICK K : K = [l \in Levels |-> Stacked(l)]
      OBVIOUS
    <2>2. [l \in Levels |-> Stacked(l)'] = [K EXCEPT ![t] = Stack!In(K[t], k, w)]
      BY <1>6, <1>14, <2>1
    <2>3. k \in 0 .. Len(K[t]) /\ \A i \in 1 .. Len(K[t]) : K[t][i] \in T <=> i <= k
      BY <1>8, <1>9, <1>13, <2>1 DEF Split
    <2>4. Stack!Put(w, K[t], T)
      BY <1>1, <1>12, <2>1, <2>2, <2>3 DEF Stack!Put
    <2>5. Stack!Places(w) = {}
      <3>1. DOMAIN Stacked(t) = 1 .. nr[t] /\ \A i \in 1 .. nr[t] : Stacked(t)[i] # w
        BY <1>5, StackHolds
      <3>2. QED
        BY <1>1, <3>1 DEF Stack!Places
    <2>6. QED
      BY <1>1, <1>4, <1>7, <1>9, <1>12, <2>1, <2>4, <2>5 DEF Stack!Add
  <1>18. QED
    BY <1>16, <1>17

(* dskMove2Top, with the flag of the window as it has just been set.       *)
LEMMA MoveStack ==
  ASSUME NEW c \in [Levels -> Chains], ListInv(c), OrderInv, NEW w \in There, NEW tops,
         dskMove2Top(w, tops), alwaystop' = tops, SameBut(tops, alwaystop, w),
         \/ tops = alwaystop \/ w \in tops \/ List(w) # Slot(w)
         \/ \A v \in alwaystop \ {w} : TypeOf[v] # TypeOf[w]
  PROVE  /\ OrderInv'
         /\ \E k \in Stack!Places(w) :
               \/ k = 1 /\ tops = alwaystop /\ \A l \in Levels : Stacked(l)' = Stacked(l)
               \/ (k # 1 \/ tops # alwaystop) /\ Stack!Put(w, Stack!Without(k, w), tops)
  <1>1. w \in Windows /\ Slot(w) \in Slots \ {0} /\ hwnd[Slot(w)] = w
    BY SlotIs
  <1>2. PICK t \in Levels : t = TypeOf[w]
    BY <1>1, Constants
  <1>3. PICK s \in Slots \ {0} : s = Slot(w) /\ hwnd[s] = w
    BY <1>1
  <1>4. PICK k \in 1 .. nr[t], d \in [Levels -> Chains] :
            /\ c[t][k] = s
            /\ \/ k = 1 /\ d = c
               \/ /\ k # 1
                  /\ \E j \in 0 .. nr[t] - 1 :
                        /\ Below(Del(c[t], k), nr[t] - 1, j, tops)
                        /\ d = [c EXCEPT ![t] = Ins(Del(c[t], k), j, s)]
            /\ ListInv(d)'
    BY <1>2, <1>3, MoveKeeps
  <1>0. PICK n \in Nat : n = nr[t]
    BY DEF ListInv
  <1>5. PICK h, e : /\ e \in Chains /\ h = hwnd /\ n = nr[t] /\ e = c[t]
                    /\ hwnd' = h /\ nr' = nr
    BY <1>0 DEF dskMove2Top
  <1>6. /\ k \in Stack!Places(w) /\ Stacked(t)[k] = w
        /\ \A l \in Levels : \A i \in 1 .. nr[l] : Stacked(l)[i] = w => l = t /\ i = k
    BY <1>2, <1>3, <1>4, PlacesThere
  <1>7. ASSUME NEW l \in Levels, l # t
        PROVE  Stacked(l)' = Stacked(l) /\ Ordered(Stacked(l), alwaystop')
    <2>1. d[l] = c[l] /\ nr'[l] = nr[l]
      BY <1>4, <1>5, <1>7
    <2>2. Stacked(l)' = Stacked(l)
      BY <1>4, <1>5, <2>1, SameStack
    <2>3. Lacks(Stacked(l), w)
      BY <1>6, <1>7, StackHolds DEF Lacks
    <2>4. Ordered(Stacked(l), alwaystop')
      BY <2>3, OtherOrder
    <2>5. QED
      BY <2>2, <2>4
  <1>8. /\ Stacked(t) = Wins(h, e, n) /\ Len(Stacked(t)) = n
        /\ \A i \in 1 .. n : Stacked(t)[i] = h[e[i]]
    BY <1>5, StackedIs, StackHolds
  <1>9. CASE k = 1 /\ tops = alwaystop
    <2>1. d = c
      BY <1>4, <1>9
    <2>2. Stacked(t)' = Stacked(t)
      BY <1>4, <1>5, <2>1, SameStack
    <2>3. OrderInv'
      BY <1>7, <1>9, <2>2 DEF OrderInv
    <2>4. QED
      BY <1>6, <1>7, <1>9, <2>2, <2>3
  <1>10. CASE k # 1 \/ tops # alwaystop
    <2>1. PICK q : q = Wins(h, Del(e, k), n - 1) /\ Len(q) = n - 1
                   /\ \A i \in 1 .. n - 1 : q[i] = h[Del(e, k)[i]]
      <3>1. n - 1 \in Nat
        BY <1>4, <1>5
      <3>2. QED
        BY <3>1, WinsSeq
    <2>2. k \in 1 .. n /\ n - 1 \in Nat /\ SameHeld(h, h, e, n, k)
          /\ SameHeld(h, h, Del(e, k), n - 1, 0)
      BY <1>4, <1>5 DEF SameHeld
    <2>3. q = Stack!Out(Stacked(t), k)
      BY <1>8, <2>1, <2>2, OutWins
    <2>4. Ordered(q, alwaystop)
      <3>1. Ordered(Wins(h, e, n), alwaystop)
        BY <1>8 DEF OrderInv
      <3>2. QED
        BY <2>1, <2>2, <3>1, OrderedDel
    <2>5. \A i \in 1 .. n - 1 : \E j \in 1 .. n : j # k /\ q[i] = Stacked(t)[j]
                                               /\ (k = 1 => j = i + 1)
      <3> SUFFICES ASSUME NEW i \in 1 .. n - 1
                   PROVE  \E j \in 1 .. n : j # k /\ q[i] = Stacked(t)[j] /\ (k = 1 => j = i + 1)
        OBVIOUS
      <3>1. Del(e, k)[i] = IF i < k THEN e[i] ELSE e[i + 1]
        BY DEF Del
      <3>2. CASE i < k
        <4>1. i \in 1 .. n /\ i # k /\ k # 1
          BY <2>2, <3>2
        <4>2. q[i] = Stacked(t)[i]
          BY <1>8, <2>1, <3>1, <3>2, <4>1
        <4>3. QED
          BY <4>1, <4>2
      <3>3. CASE ~(i < k)
        <4>1. i + 1 \in 1 .. n /\ i + 1 # k
          BY <2>2, <3>3
        <4>2. q[i] = Stacked(t)[i + 1]
          BY <1>8, <2>1, <3>1, <3>3, <4>1
        <4>3. QED
          BY <4>1, <4>2
      <3>4. QED
        BY <3>2, <3>3
    <2>6. \A i \in 1 .. n - 1 : q[i] # w
      BY <1>5, <1>6, <2>5
    <2>7. Agree(q, alwaystop, tops) /\ Ordered(q, tops)
      <3>1. Agree(q, alwaystop, tops)
        BY <2>1, <2>6 DEF Agree, SameBut
      <3>2. QED
        BY <2>4, <3>1, OrderedAgree
    <2>8. PICK j \in 0 .. n - 1 :
             /\ Stacked(t)' = Wins(h, Ins(Del(e, k), j, s), (n - 1) + 1)
             /\ Split(q, j, tops)
      <3>1. CASE k # 1
        <4>1. PICK j \in 0 .. n - 1 :
                 /\ Below(Del(e, k), n - 1, j, tops)
                 /\ d = [c EXCEPT ![t] = Ins(Del(e, k), j, s)]
          BY <1>4, <1>5, <3>1
        <4>2. d[t] = Ins(Del(e, k), j, s) /\ nr'[t] = (n - 1) + 1
          BY <1>5, <4>1
        <4>3. Stacked(t)' = Wins(h, Ins(Del(e, k), j, s), (n - 1) + 1)
          BY <1>4, <1>5, <4>2, StacksThen
        <4>4. /\ \A i \in 1 .. j : q[i] \in tops
              /\ j < n - 1 => q[j + 1] \notin tops
          <5>1. /\ \A i \in 1 .. j : h[Del(e, k)[i]] \in tops
                /\ j < n - 1 => h[Del(e, k)[j + 1]] \notin tops
            BY <1>5, <4>1 DEF Below
          <5>2. ASSUME NEW i \in 1 .. j PROVE q[i] \in tops
            <6>1. i \in 1 .. n - 1
              BY <2>2
            <6>2. QED
              BY <2>1, <5>1, <6>1
          <5>3. ASSUME j < n - 1 PROVE q[j + 1] \notin tops
            <6>1. j + 1 \in 1 .. n - 1
              BY <2>2, <5>3
            <6>2. q[j + 1] = h[Del(e, k)[j + 1]]
              BY <2>1, <6>1
            <6>3. QED
              BY <5>1, <5>3, <6>2
          <5>4. QED
            BY <5>2, <5>3
        <4>5. Split(q, j, tops)
          BY <2>1, <2>2, <2>7, <4>1, <4>4, OrderedSplit
        <4>6. QED
          BY <4>3, <4>5
      <3>2. CASE k = 1
        <4>1. tops # alwaystop /\ d = c
          BY <1>4, <1>10, <3>2
        <4>2. Stacked(t)' = Stacked(t)
          BY <1>4, <1>5, <4>1, SameStack
        <4>3. \A i \in 1 .. n : Ins(Del(e, k), 0, s)[i] = e[i]
          <5>1. ASSUME NEW i \in 1 .. n PROVE Ins(Del(e, k), 0, s)[i] = e[i]
            <6>1. Ins(Del(e, k), 0, s)[i] = IF i = 1 THEN s ELSE Del(e, k)[i - 1]
              BY DEF Ins
            <6>2. CASE i = 1
              BY <1>4, <1>5, <3>2, <6>1, <6>2
            <6>3. CASE i # 1
              <7>1. i - 1 \in Nat /\ ~(i - 1 < k) /\ (i - 1) + 1 = i
                BY <3>2, <6>3
              <7>2. Del(e, k)[i - 1] = e[i]
                BY <7>1 DEF Del
              <7>3. QED
                BY <6>1, <6>3, <7>2
            <6>4. QED
              BY <6>2, <6>3
          <5>2. QED
            BY <5>1
        <4>4. Stacked(t)' = Wins(h, Ins(Del(e, k), 0, s), (n - 1) + 1)
          <5>1. (n - 1) + 1 = n
            OBVIOUS
          <5>2. Wins(h, Ins(Del(e, k), 0, s), n) = Wins(h, e, n)
            BY <4>3 DEF Wins
          <5>3. QED
            BY <1>8, <4>2, <5>1, <5>2
        <4>5. \A i \in 1 .. n - 1 : q[i] \notin tops
          <5>1. CASE w \in tops
            <6>1. w \notin alwaystop /\ w = Stacked(t)[1]
              <7>1. w \notin alwaystop
                <8>1. ASSUME w \in alwaystop PROVE tops = alwaystop
                  <9>1. \A v : v \in tops <=> v \in alwaystop
                    BY <5>1, <8>1 DEF SameBut
                  <9>2. QED
                    BY <9>1
                <8>2. QED
                  BY <4>1, <8>1
              <7>2. QED
                BY <1>6, <3>2, <7>1
            <6>2. ASSUME NEW i \in 1 .. n - 1 PROVE q[i] \notin alwaystop
              <7>1. i + 1 \in 1 .. n /\ 1 \in 1 .. n /\ 1 < i + 1 /\ q[i] = Stacked(t)[i + 1]
                BY <2>2, <2>5, <3>2
              <7>2. Ordered(Stacked(t), alwaystop)
                BY DEF OrderInv
              <7>3. Len(Stacked(t)) = n
                BY <1>8
              <7>4. QED
                BY <6>1, <7>1, <7>2, <7>3 DEF Ordered
            <6>3. QED
              BY <2>6, <6>2 DEF SameBut
          <5>2. CASE w \notin tops
            <6>1. List(w) = Slot(w)
              <7>1. first[t] = c[t][1]
                BY DEF ListInv, Links
              <7>2. QED
                BY <1>2, <1>3, <1>4, <3>2, <7>1 DEF List
            <6>2. \A v \in alwaystop \ {w} : TypeOf[v] # t
              BY <1>2, <4>1, <5>2, <6>1
            <6>3. ASSUME NEW i \in 1 .. n - 1 PROVE TypeOf[q[i]] = t
              <7>1. PICK m \in 1 .. n : q[i] = Stacked(t)[m]
                BY <2>5
              <7>2. m \in 1 .. nr[t]
                BY <1>5
              <7>3. QED
                BY <7>1, <7>2, StackHolds
            <6>4. QED
              BY <2>6, <6>2, <6>3 DEF SameBut
          <5>3. QED
            BY <5>1, <5>2
        <4>6. Split(q, 0, tops)
          BY <2>1, <4>5 DEF Split
        <4>7. 0 \in 0 .. n - 1
          BY <2>2
        <4>8. QED
          BY <4>4, <4>6, <4>7
      <3>3. QED
        BY <3>1, <3>2
    <2>9. Stacked(t)' = Stack!In(q, j, w)
      BY <1>3, <1>5, <2>1, <2>2, <2>8, InWins
    <2>10. Ordered(Stacked(t)', tops)
      BY <2>1, <2>2, <2>8, OrderedIns
    <2>11. OrderInv'
      BY <1>7, <2>10 DEF OrderInv
    <2>12. Stack!Put(w, Stack!Without(k, w), tops)
      <3>1. PICK K : K = [l \in Levels |-> Stacked(l)]
        OBVIOUS
      <3>2. [l \in Levels |-> Stacked(l)'] = [K EXCEPT ![t] = Stack!In(q, j, w)]
        BY <1>7, <2>9, <3>1
      <3>3. j \in 0 .. Len(q) /\ \A i \in 1 .. Len(q) : q[i] \in tops <=> i <= j
        BY <2>1, <2>8 DEF Split
      <3>4. Stack!Without(k, w) = q
        BY <1>2, <2>3 DEF Stack!Without
      <3>5. QED
        BY <1>2, <3>1, <3>2, <3>3, <3>4 DEF Stack!Put
    <2>13. QED
      BY <1>6, <1>10, <2>11, <2>12
  <1>11. QED
    BY <1>9, <1>10

(* What has to be shown of a step.                                         *)
StackStep == OrderInv' /\ [Stack!Next]_(Stack!vars)

(* A step that leaves the lists alone leaves the stacks.                   *)
LEMMA StackIsSame ==
  ASSUME OrderInv, UNCHANGED lists
  PROVE  StackStep
  <1>1. \A l \in Levels : Stacked(l)' = Stacked(l)
    BY DEF lists, Stacked, Listed
  <1>2. alwaystop' = alwaystop
    BY DEF lists
  <1>3. OrderInv'
    BY <1>1, <1>2 DEF OrderInv
  <1>4. UNCHANGED Stack!vars
    BY <1>1, <1>2 DEF Stack!vars
  <1>5. QED
    BY <1>3, <1>4 DEF StackStep

(* A new znode.                                                            *)
LEMMA StackAdd ==
  ASSUME ListsInv, OrderInv, NEW w \in Windows, NEW top, AllocZOrderNode(w, top)
  PROVE  StackStep
  <1>1. PICK c \in [Levels -> Chains] : ListInv(c)
    BY DEF ListsInv
  <1>2. Stack!Add(w) /\ OrderInv'
    BY <1>1, AddStack
  <1>3. QED
    BY <1>2 DEF StackStep, Stack!Next

(* One that is freed.                                                      *)
LEMMA StackRemove ==
  ASSUME ListsInv, OrderInv, NEW w \in There, Unchain(w)
  PROVE  StackStep
  <1>1. PICK c \in [Levels -> Chains] : ListInv(c)
    BY DEF ListsInv
  <1>2. Stack!Remove(w) /\ OrderInv'
    BY <1>1, RemoveStack
  <1>3. w \in Windows
    BY DEF There
  <1>4. QED
    BY <1>2, <1>3 DEF StackStep, Stack!Next

(* A window that is raised, with its flag as it was.                       *)
LEMMA StackRaise ==
  ASSUME ListsInv, OrderInv, NEW w \in There, dskMove2Top(w, alwaystop), UNCHANGED alwaystop
  PROVE  StackStep
  <1>1. PICK c \in [Levels -> Chains] : ListInv(c)
    BY DEF ListsInv
  <1>2. PICK tops : tops = alwaystop
    OBVIOUS
  <1>3. dskMove2Top(w, tops) /\ alwaystop' = tops /\ SameBut(tops, alwaystop, w)
    BY <1>2 DEF SameBut
  <1>4. PICK k \in Stack!Places(w) :
               \/ k = 1 /\ tops = alwaystop /\ \A l \in Levels : Stacked(l)' = Stacked(l)
               \/ (k # 1 \/ tops # alwaystop) /\ Stack!Put(w, Stack!Without(k, w), tops)
    BY <1>1, <1>2, <1>3, MoveStack
  <1>5. OrderInv'
    BY <1>1, <1>2, <1>3, MoveStack
  <1>6. w \in Windows
    BY DEF There
  <1>7. CASE \A l \in Levels : Stacked(l)' = Stacked(l)
    BY <1>5, <1>7 DEF StackStep, Stack!vars
  <1>8. CASE k # 1 /\ Stack!Put(w, Stack!Without(k, w), tops)
    <2>1. Stack!Raise(w)
      BY <1>2, <1>4, <1>8 DEF Stack!Raise
    <2>2. QED
      BY <1>5, <1>6, <2>1 DEF StackStep, Stack!Next
  <1>9. QED
    BY <1>2, <1>4, <1>7, <1>8

(* One whose flag is changed.                                              *)
LEMMA StackSet ==
  ASSUME ListsInv, OrderInv, NEW w \in Windows, NEW set \in BOOLEAN,
         "unset" \notin Careless, SetAlwaysTop(w, set)
  PROVE  StackStep
  <1>1. PICK c \in [Levels -> Chains] : ListInv(c)
    BY DEF ListsInv
  <1>2. PICK tops : tops = IF set THEN alwaystop \cup {w} ELSE alwaystop \ {w}
    OBVIOUS
  <1>3. w \in There /\ dskMove2Top(w, tops) /\ alwaystop' = tops
    BY <1>2 DEF SetAlwaysTop
  <1>4. SameBut(tops, alwaystop, w)
    BY <1>2 DEF SameBut
  <1>5. \/ tops = alwaystop \/ w \in tops \/ List(w) # Slot(w)
        \/ \A v \in alwaystop \ {w} : TypeOf[v] # TypeOf[w]
    BY <1>2 DEF SetAlwaysTop
  <1>6. PICK k \in Stack!Places(w) :
               \/ k = 1 /\ tops = alwaystop /\ \A l \in Levels : Stacked(l)' = Stacked(l)
               \/ (k # 1 \/ tops # alwaystop) /\ Stack!Put(w, Stack!Without(k, w), tops)
    BY <1>1, <1>3, <1>4, <1>5, MoveStack
  <1>7. OrderInv'
    BY <1>1, <1>3, <1>4, <1>5, MoveStack
  <1>8. CASE alwaystop' = alwaystop /\ \A l \in Levels : Stacked(l)' = Stacked(l)
    BY <1>7, <1>8 DEF StackStep, Stack!vars
  <1>9. CASE Stack!Put(w, Stack!Without(k, w), tops)
    <2>1. Stack!SetAlwaysTop(w, set)
      BY <1>2, <1>6, <1>9 DEF Stack!SetAlwaysTop
    <2>2. QED
      BY <1>7, <2>1 DEF StackStep, Stack!Next
  <1>10. QED
    BY <1>3, <1>6, <1>8, <1>9

(* Every action of the desktop, as what becomes of the stacks.             *)
LEMMA StackNext ==
  ASSUME "unset" \notin Careless
  PROVE  ListsInv /\ FlagsInv /\ OrderInv /\ [Next]_vars => StackStep
  <1> SUFFICES ASSUME ListsInv, FlagsInv, OrderInv, [Next]_vars PROVE StackStep
    OBVIOUS
  <1> USE DEF Windows
  <1>1. ASSUME NEW w \in Tops, NEW shown, NEW top, AddNewMainWindow(w, shown, top) PROVE StackStep
    BY <1>1, StackAdd DEF AddNewMainWindow
  <1>2. ASSUME NEW w \in There, FreeZOrderNode(w) PROVE StackStep
    BY <1>2, StackRemove DEF FreeZOrderNode
  <1>3. ASSUME NEW w \in There, MoveToTopMost(w) PROVE StackStep
    BY <1>3, StackRaise DEF MoveToTopMost
  <1>4. ASSUME NEW c \in Ctrls, NEW shown, NewCtrl(c, shown) PROVE StackStep
    BY <1>4, StackAdd DEF NewCtrl
  <1>5. ASSUME NEW w \in Tops, Click(w) PROVE StackStep
    <2>1. w \in There
      BY <1>5 DEF Click, FlagsInv
    <2>2. QED
      BY <1>3, <1>5, <2>1, StackIsSame DEF Click
  <1>6. CASE AltTab
    <2>1. PICK s \in Slots : s = NextActivable(active_win) /\ s # 0
      BY <1>6, NextActivableIs DEF AltTab, FlagsInv
    <2>2. hwnd[s] \in There
      BY <2>1, NextActivableIs, ActivableThere DEF FlagsInv
    <2>3. dskMove2Top(hwnd[s], alwaystop) /\ UNCHANGED alwaystop
      BY <1>6, <2>1 DEF AltTab
    <2>4. QED
      BY <2>2, <2>3, StackRaise
  <1>7. ASSUME NEW w \in Tops, NEW set \in BOOLEAN, SetAlwaysTop(w, set) PROVE StackStep
    BY <1>7, StackSet
  <1>8. ASSUME NEW w, \/ ShowMainWindow(w) \/ SetActiveMain(w) \/ HideMainWindow(w)
                     \/ ClickDesktop \/ EnableWindow(w, TRUE) \/ EnableWindow(w, FALSE)
        PROVE  StackStep
    BY <1>8, StackIsSame
    DEF ShowMainWindow, SetActiveMain, HideMainWindow, ClickDesktop, EnableWindow
  <1>9. CASE UNCHANGED vars
    BY <1>9, StackIsSame DEF vars
  <1>10. Switched \subseteq Tops
    BY ZOrderAssumption DEF ZOrderAssumption
  <1>11. QED
    BY <1>1, <1>2, <1>3, <1>4, <1>5, <1>6, <1>7, <1>8, <1>9, <1>10
    DEF Next, RemoveMainWindow, RemoveCtrl, Raise, ShowGlobalCtrl

(* There are no windows at first.                                          *)
LEMMA StackInit == Init => Stack!Init /\ OrderInv
  <1> SUFFICES ASSUME Init PROVE Stack!Init /\ OrderInv
    OBVIOUS
  <1>1. PICK c \in [Levels -> Chains] : ListInv(c)
    BY InitInv DEF ListsInv
  <1>2. ASSUME NEW l \in Levels PROVE Stacked(l) = <<>>
    <2>1. nr[l] = 0
      BY DEF Init
    <2>2. Stacked(l) = Wins(hwnd, c[l], 0)
      BY <1>1, <2>1, StackedIs
    <2>3. Len(Wins(hwnd, c[l], 0)) = 0 /\ DOMAIN Wins(hwnd, c[l], 0) = 1 .. 0
      BY WinsSeq
    <2>4. QED
      BY <2>2, <2>3 DEF Wins
  <1>3. OrderInv
    BY <1>2 DEF OrderInv, Ordered
  <1>4. Stack!Init
    BY <1>2 DEF Stack!Init, Init
  <1>5. QED
    BY <1>3, <1>4

(* The znodes that the code links are a stack of windows for each level,   *)
(* with those that are always on top above the others: every message the   *)
(* desktop handles is a step of ZStack or none.  A window at the front may *)
(* not lose WS_ALWAYSTOP while another one of its level has it: there      *)
(* dskMove2Top leaves it before that one.                                  *)
THEOREM StackRefined ==
  ASSUME "unset" \notin Careless
  PROVE  Spec => StackSpec
  <1>1. Init => Stack!Init /\ OrderInv
    BY StackInit
  <1>2. ListsInv /\ FlagsInv /\ OrderInv /\ [Next]_vars => OrderInv' /\ [Stack!Next]_(Stack!vars)
    BY StackNext DEF StackStep
  <1>3. Spec => [](ListsInv /\ FlagsInv)
    BY InvHolds
  <1>4. QED
    BY <1>1, <1>2, <1>3, PTL DEF Spec, StackSpec, Stack!Spec

(* Every window that is always on top is above every other of its level,   *)
(* whatever is created, raised, hidden and destroyed meanwhile, and        *)
(* however its level grows.                                                *)
THEOREM TopsAbove ==
  ASSUME "unset" \notin Careless
  PROVE  Spec => []OrderInv
  <1>1. Init => OrderInv
    BY StackInit
  <1>2. ListsInv /\ FlagsInv /\ OrderInv /\ [Next]_vars => OrderInv'
    BY StackNext DEF StackStep
  <1>3. Spec => [](ListsInv /\ FlagsInv)
    BY InvHolds
  <1>4. QED
    BY <1>1, <1>2, <1>3, PTL DEF Spec
==============================================================================
