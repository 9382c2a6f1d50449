----------------------------- MODULE Sv32Proofs -----------------------------
(***************************************************************************)
(* Lemmas about the operators of Sv32, for tables of every size and every  *)
(* content of memory: where an entry lies, and what the iterations of a    *)
(* call of translateAddress come to, also of a call whose i runs below 0.  *)
(***************************************************************************)
EXTENDS Sv32, Arithmetic, FiniteSetTheorems

-----------------------------------------------------------------------------
(* Addresses *)

\* The address space is not empty, and wrapping stays inside it.
LEMMA AddrSpacePositive == AddrSpace \in Nat /\ AddrSpace > 0
<1>1. PteCount \in Nat /\ PteCount > 0
  BY Sv32Assumption
<1>2. PteCount * PteCount \in Nat /\ PteCount * PteCount > 0
  BY <1>1, SMT
<1>3. \A m, n \in Nat : m > 0 /\ n > 0 => m * (4 * n) \in Nat /\ m * (4 * n) > 0
  BY SMT
<1> QED
  BY <1>1, <1>2, <1>3 DEF AddrSpace, PAGE_SIZE, PTE_SIZE

LEMMA WrapsIntoAddr == \A n \in Nat : n % AddrSpace \in Addr
<1> SUFFICES ASSUME NEW n \in Nat PROVE n % AddrSpace \in Addr
  OBVIOUS
<1>1. \A m \in Nat : m > 0 => n % m \in 0 .. (m - 1)
  BY SMT
<1> QED
  BY <1>1, AddrSpacePositive DEF Addr

LEMMA AddrIsNat == Addr \subseteq Nat /\ 0 \in Addr
  BY AddrSpacePositive DEF Addr

PageCount == PteCount * PteCount

LEMMA PageSizes ==
  /\ PteCount \in Nat \ {0} /\ PAGE_SIZE \in Nat \ {0}
  /\ PageCount \in Nat \ {0}
  /\ AddrSpace \in Nat \ {0} /\ AddrSpace = PageCount * PAGE_SIZE
  /\ PAGE_SIZE = 4 * PteCount
<1>1. PteCount \in Nat \ {0}
  BY Sv32Assumption
<1>2. PAGE_SIZE = 4 * PteCount /\ PAGE_SIZE \in Nat \ {0}
  BY <1>1 DEF PAGE_SIZE, PTE_SIZE
<1>3. PageCount \in Nat \ {0}
  BY <1>1 DEF PageCount
<1> QED
  BY <1>1, <1>2, <1>3, AddrSpacePositive DEF AddrSpace, PageCount

\* An offset in a page, on a page number that is cut to those of the guest.
LEMMA PageWraps ==
  ASSUME NEW q \in Nat, NEW off \in 0 .. (PAGE_SIZE - 1)
  PROVE  /\ (q * PAGE_SIZE + off) % AddrSpace = (q % PageCount) * PAGE_SIZE + off
         /\ ((q * PAGE_SIZE + off) % AddrSpace) \div PAGE_SIZE = q % PageCount
<1> DEFINE S == PAGE_SIZE
           N == PageCount
           d == q \div N
           r == q % N
<1>1. S \in Nat \ {0} /\ N \in Nat \ {0} /\ AddrSpace = N * S /\ AddrSpace \in Nat \ {0}
  BY PageSizes
<1> HIDE DEF S, N
<1>2. r \in 0 .. (N - 1) /\ d \in Nat /\ q = N * d + r
  <2>1. q \in Int /\ d \in Nat
    BY <1>1, QuotientNat
  <2>2. r \in 0 .. (N - 1) /\ q = N * d + r
    BY <1>1, <2>1, DivMod
  <2> QED
    BY <2>1, <2>2
<1> HIDE DEF d, r
<1>3. r * S + off \in Nat /\ r * S + off < AddrSpace
  <2>1. r \in Nat /\ N - 1 \in Nat /\ r <= N - 1
    BY <1>1, <1>2
  <2>2. r * S <= (N - 1) * S
    BY <1>1, <2>1, Monotone
  <2>3. (N - 1) * S = N * S - S /\ r * S \in Nat /\ N * S \in Nat
    BY <1>1, <2>1
  <2>4. off \in Nat /\ off < S
    BY <1>1 DEF S
  <2> QED
    BY <1>1, <2>2, <2>3, <2>4
<1>4. q * S + off = (r * S + off) + d * AddrSpace
  <2>1. (N * d + r) * S = d * (N * S) + r * S
    BY <1>1, <1>2
  <2>2. d * (N * S) \in Nat /\ r * S \in Nat /\ off \in Nat
    BY <1>1, <1>2 DEF S
  <2> QED
    BY <1>1, <1>2, <2>1, <2>2
<1>5. (q * S + off) % AddrSpace = r * S + off
  <2>1. ((r * S + off) + d * AddrSpace) % AddrSpace = (r * S + off) % AddrSpace
    <3> DEFINE x == r * S + off
    <3>1. x \in Int /\ d \in Int
      BY <1>2, <1>3
    <3> HIDE DEF x
    <3>2. (x + d * AddrSpace) % AddrSpace = x % AddrSpace
      BY <1>1, <3>1, ModOfSum
    <3> QED
      BY <3>2 DEF x
  <2>2. (r * S + off) % AddrSpace = r * S + off
    BY <1>1, <1>3, ModSmall
  <2> QED
    BY <1>4, <2>1, <2>2
<1>6. (r * S + off) \div S = r
  <2>1. r \in Nat /\ off \in 0 .. (S - 1)
    BY <1>1, <1>2 DEF S
  <2> QED
    BY <1>1, <2>1, DivModUnique
<1> QED
  BY <1>5, <1>6 DEF S, N, r

LEMMA EntryOffset ==
  ASSUME NEW va \in Addr
  PROVE  /\ Vpn0(va) \in 0 .. (PteCount - 1)
         /\ Vpn1(va) \in 0 .. (PteCount - 1)
         /\ PageOffset(va) \in 0 .. (PAGE_SIZE - 1)
<1> DEFINE P == PteCount
           S == PAGE_SIZE
<1>1. P \in Nat \ {0} /\ S \in Nat \ {0} /\ P * S \in Nat \ {0} /\ va \in Nat
  BY PageSizes, AddrIsNat
<1>2. Vpn0(va) \in 0 .. (P - 1)
  <2>1. va \div S \in Int
    BY <1>1, DivMod
  <2> QED
    BY <1>1, <2>1, DivMod DEF Vpn0
<1>3. PageOffset(va) \in 0 .. (S - 1)
  BY <1>1, DivMod DEF PageOffset
<1>4. Vpn1(va) \in 0 .. (P - 1)
  <2> DEFINE v == Vpn1(va)
             T == P * S
  <2>1. v \in Nat /\ va = T * v + (va % T) /\ va % T \in Nat
    <3>1. v = va \div T
      BY DEF Vpn1
    <3>2. va \in Int /\ T \in Nat \ {0}
      BY <1>1
    <3> HIDE DEF v, T
    <3>3. v \in Nat
      BY <1>1, <3>1, <3>2, QuotientNat
    <3>4. va = T * v + (va % T) /\ va % T \in Nat
      BY <3>1, <3>2, DivMod
    <3> QED
      BY <3>3, <3>4
  <2>2. AddrSpace = P * T /\ va < AddrSpace
    <3>1. AddrSpace = P * (P * S)
      BY <1>1 DEF AddrSpace
    <3> QED
      BY <3>1, AddrSpacePositive DEF Addr
  <2>3. T \in Nat \ {0}
    BY <1>1
  <2> HIDE DEF v, T
  <2>4. ~(P <= v)
    <3> SUFFICES ASSUME P <= v PROVE FALSE
      OBVIOUS
    <3>1. P * T <= v * T
      BY <1>1, <2>1, <2>3, Monotone
    <3>2. v * T = T * v /\ v * T \in Nat /\ P * T \in Nat
      BY <1>1, <2>1, <2>3
    <3> QED
      BY <1>1, <2>1, <2>2, <3>1, <3>2
  <2>5. v \in 0 .. (P - 1)
    BY <1>1, <2>1, <2>4
  <2> QED
    BY <2>5 DEF v
<1> QED
  BY <1>2, <1>3, <1>4

\* The base that an entry points to is a 34-bit physical address.
LEMMA BaseOfEntry ==
  ASSUME NEW pte \in PTE
  PROVE  (pte.ppn1 * PteCount + pte.ppn0) * PAGE_SIZE \in 0 .. (4 * AddrSpace - 1)
<1> DEFINE P == PteCount
<1> DEFINE a == pte.ppn1
<1> DEFINE b == pte.ppn0
<1>1. /\ a \in Nat /\ a <= 4 * P - 1
      /\ b \in Nat /\ b <= P - 1
  BY PageSizes DEF PTE
<1>2. P \in Nat /\ P > 0 /\ PAGE_SIZE \in Nat /\ PAGE_SIZE > 0
  BY PageSizes
<1> HIDE DEF a, b, P
<1>3. a * P \in Nat /\ a * P <= (4 * P - 1) * P
  BY <1>1, <1>2, SMT
<1>4. (4 * P - 1) * P = 4 * (P * P) - P
  BY <1>2, SMT
<1>5. P * P \in Nat
  BY <1>2, SMT
<1>6. a * P + b \in Nat /\ a * P + b <= 4 * (P * P) - 1
  BY <1>1, <1>2, <1>3, <1>4, <1>5, SMT
<1>7. \A n, m, s \in Nat : n <= m - 1 /\ s > 0 => n * s \in Nat /\ n * s <= m * s - s
  BY SMT
<1>8. 4 * (P * P) \in Nat
  BY <1>5, SMT
<1>9. /\ (a * P + b) * PAGE_SIZE \in Nat
      /\ (a * P + b) * PAGE_SIZE <= (4 * (P * P)) * PAGE_SIZE - PAGE_SIZE
  BY <1>2, <1>6, <1>7, <1>8
<1>10. (4 * (P * P)) * PAGE_SIZE = 4 * ((P * P) * PAGE_SIZE)
  BY <1>2, <1>5, SMT
<1>11. AddrSpace = (P * P) * PAGE_SIZE
  BY DEF AddrSpace, P
<1>12. (a * P + b) * PAGE_SIZE <= 4 * AddrSpace - PAGE_SIZE
  BY <1>9, <1>10, <1>11
<1>13. (a * P + b) * PAGE_SIZE \in 0 .. (4 * AddrSpace - 1)
  BY <1>2, <1>9, <1>12, PageSizes
<1> QED
  BY <1>13 DEF a, b, P

-----------------------------------------------------------------------------
(* The call *)

\* The iterations of Translate, as far as n of them.
Iterations(s, m, h, va, accessType, n) ==
  s = [k \in 0 .. n |->
         IF k = 0 THEN WalkStart(h)
         ELSE LET w == s[k - 1]
              IN  IF w.status # "walking" THEN w
                  ELSE WalkStep(m, h, va, accessType, w)]

LEMMA IterationsGrow ==
  ASSUME NEW m, NEW h, NEW va, NEW accessType, NEW n \in Nat, NEW f,
         Iterations(f, m, h, va, accessType, n)
  PROVE  \E g : /\ Iterations(g, m, h, va, accessType, n + 1)
                /\ g[n + 1] = IF f[n].status # "walking" THEN f[n]
                              ELSE WalkStep(m, h, va, accessType, f[n])
<1> DEFINE After(w) == IF w.status # "walking" THEN w
                       ELSE WalkStep(m, h, va, accessType, w)
           g == [k \in 0 .. (n + 1) |-> IF k = n + 1 THEN After(f[n]) ELSE f[k]]
<1>1. ASSUME NEW k \in 0 .. (n + 1)
      PROVE  g[k] = IF k = 0 THEN WalkStart(h) ELSE After(g[k - 1])
  <2> HIDE DEF After
  <2>1. CASE k = n + 1
    <3>1. g[k] = After(f[n]) /\ g[k - 1] = f[n] /\ k # 0
      BY <2>1
    <3> HIDE DEF g
    <3> QED
      BY <3>1
  <2>2. CASE k # n + 1
    <3>1. k \in 0 .. n
      BY <2>2
    <3>2. f[k] = IF k = 0 THEN WalkStart(h) ELSE After(f[k - 1])
      BY <3>1 DEF Iterations, After
    <3>3. g[k] = f[k] /\ (k # 0 => g[k - 1] = f[k - 1])
      BY <3>1
    <3> HIDE DEF g
    <3> QED
      BY <3>2, <3>3
  <2> QED
    BY <2>1, <2>2
<1>2. g = [k \in 0 .. (n + 1) |-> g[k]] /\ g[n + 1] = After(f[n])
  OBVIOUS
<1> HIDE DEF g
<1>3. Iterations(g, m, h, va, accessType, n + 1)
  BY <1>1, <1>2 DEF Iterations
<1> QED
  BY <1>2, <1>3

LEMMA IterationsExist ==
  ASSUME NEW m, NEW h, NEW va, NEW accessType, NEW bound \in Nat
  PROVE  \E s : Iterations(s, m, h, va, accessType, bound)
<1> DEFINE T == {n \in Nat : ~\E s : Iterations(s, m, h, va, accessType, n)}
<1> SUFFICES ASSUME T # {} PROVE FALSE
  OBVIOUS
<1>1. PICK n \in T : \A j \in T : ~(j < n)
  <2>1. T \subseteq Nat
    OBVIOUS
  <2> HIDE DEF T
  <2> QED
    BY <2>1, Least
<1>2. n # 0
  <2>1. Iterations([k \in 0 .. 0 |-> WalkStart(h)], m, h, va, accessType, 0)
    BY DEF Iterations
  <2> QED
    BY <2>1
<1>3. n - 1 \in Nat /\ (n - 1) + 1 = n
  BY <1>2
<1>4. PICK f : Iterations(f, m, h, va, accessType, n - 1)
  BY <1>1, <1>3
<1> QED
  BY <1>3, <1>4, IterationsGrow

\* They are one function, whichever hart and memory they are made on that
\* begin and go on alike, and however many of them there are.
LEMMA IterationsAgree ==
  ASSUME NEW m, NEW g, NEW h, NEW va, NEW accessType, NEW n \in Nat, NEW p \in Nat,
         NEW s, NEW t, NEW last \in 0 .. n, last <= p,
         Iterations(s, m, g, va, accessType, n),
         Iterations(t, m, h, va, accessType, p),
         WalkStart(g) = WalkStart(h),
         \A w : WalkStep(m, g, va, accessType, w) = WalkStep(m, h, va, accessType, w)
  PROVE  s[last] = t[last]
<1> DEFINE T == {k \in 0 .. last : s[k] # t[k]}
<1> SUFFICES ASSUME T # {} PROVE FALSE
  OBVIOUS
<1>1. PICK k \in T : \A j \in T : ~(j < k)
  <2>1. T \subseteq Nat
    OBVIOUS
  <2> HIDE DEF T
  <2> QED
    BY <2>1, Least
<1>2. k \in 0 .. n /\ k \in 0 .. p
  OBVIOUS
<1>3. /\ s[k] = IF k = 0 THEN WalkStart(g)
                ELSE IF s[k - 1].status # "walking" THEN s[k - 1]
                ELSE WalkStep(m, g, va, accessType, s[k - 1])
      /\ t[k] = IF k = 0 THEN WalkStart(h)
                ELSE IF t[k - 1].status # "walking" THEN t[k - 1]
                ELSE WalkStep(m, h, va, accessType, t[k - 1])
  BY <1>2 DEF Iterations
<1>4. k # 0
  BY <1>3
<1>5. s[k - 1] = t[k - 1]
  BY <1>1, <1>4
<1> QED
  BY <1>3, <1>4, <1>5

LEMMA MaxWalkNat == MaxWalk \in Nat /\ MaxWalk = (UintMax + 1) * PageCount
<1>1. UintMax + 1 \in Nat
  BY Sv32Assumption
<1> QED
  BY <1>1, PageSizes DEF MaxWalk, PageCount

LEMMA TranslateIterates ==
  ASSUME NEW m, NEW h, NEW va, NEW accessType, h.satp.mode = 1
  PROVE  \E s : /\ Iterations(s, m, h, va, accessType, MaxWalk)
                /\ Translate(m, h, va, accessType) = Finish(va, s[MaxWalk])
<1> DEFINE s == CHOOSE f : Iterations(f, m, h, va, accessType, MaxWalk)
<1>1. Iterations(s, m, h, va, accessType, MaxWalk)
  BY MaxWalkNat, IterationsExist
<1>2. Translate(m, h, va, accessType) = Finish(va, s[MaxWalk])
  BY DEF Translate, Iterations
<1> QED
  BY <1>1, <1>2

\* A loop that has been left has done its last iteration.
LEMMA IterationsFreeze ==
  ASSUME NEW m, NEW h, NEW va, NEW accessType, NEW n \in Nat, NEW s,
         Iterations(s, m, h, va, accessType, n),
         NEW k \in 0 .. n, s[k].status # "walking"
  PROVE  \A j \in k .. n : s[j] = s[k]
<1> DEFINE T == {j \in k .. n : s[j] # s[k]}
<1> SUFFICES ASSUME T # {} PROVE FALSE
  OBVIOUS
<1>1. PICK j \in T : \A l \in T : ~(l < j)
  <2>1. T \subseteq Nat
    OBVIOUS
  <2> HIDE DEF T
  <2> QED
    BY <2>1, Least
<1>2. j # k /\ j \in 0 .. n /\ j # 0
  OBVIOUS
<1>3. j - 1 \in k .. n /\ j - 1 < j
  BY <1>2
<1>4. s[j - 1] = s[k]
  BY <1>1, <1>3
<1>5. s[j] = IF s[j - 1].status # "walking" THEN s[j - 1]
             ELSE WalkStep(m, h, va, accessType, s[j - 1])
  BY <1>2 DEF Iterations
<1> QED
  BY <1>4, <1>5

-----------------------------------------------------------------------------
(* Iterations that repeat.  What an iteration does depends on i and on the *)
(* page, of those the guest has, that the base is the address of.          *)

Numbered(w) ==
  /\ w = [i |-> w.i, base |-> w.base, pte |-> w.pte, status |-> w.status]
  /\ w.i \in 0 .. UintMax
  /\ \E q \in Nat : w.base = q * PAGE_SIZE

TableOf(w) == (w.base \div PAGE_SIZE) % PageCount

Alike(v, w) ==
  /\ v.i = w.i
  /\ v.status = w.status
  /\ TableOf(v) = TableOf(w)

LEMMA TableNumber ==
  ASSUME NEW w, NEW q \in Nat, w.base = q * PAGE_SIZE
  PROVE  TableOf(w) = q % PageCount /\ TableOf(w) \in 0 .. (PageCount - 1)
<1>1. 0 \in 0 .. (PAGE_SIZE - 1) /\ PAGE_SIZE \in Nat \ {0} /\ PageCount \in Nat \ {0}
  BY PageSizes
<1>2. (q * PAGE_SIZE + 0) \div PAGE_SIZE = q
  BY <1>1, DivModUnique
<1>3. w.base \div PAGE_SIZE = q
  BY <1>1, <1>2
<1>4. q % PageCount \in 0 .. (PageCount - 1)
  BY <1>1, DivMod
<1> QED
  BY <1>3, <1>4 DEF TableOf

\* The entry that an iteration reads.
LEMMA PteAddrOf ==
  ASSUME NEW va \in Addr, NEW w, Numbered(w)
  PROVE  PteAddr(va, w)
           = TableOf(w) * PAGE_SIZE + 4 * (IF w.i = 0 THEN Vpn0(va) ELSE Vpn1(va))
<1> DEFINE v == IF w.i = 0 THEN Vpn0(va) ELSE Vpn1(va)
<1>1. PICK q \in Nat : w.base = q * PAGE_SIZE
  BY DEF Numbered
<1>2. v \in 0 .. (PteCount - 1)
  BY EntryOffset
<1>3. PteAddr(va, w) = (q * PAGE_SIZE + 4 * v) % AddrSpace
  BY <1>1 DEF PteAddr, PTE_SIZE
<1> HIDE DEF v
<1>4. 4 * v \in 0 .. (PAGE_SIZE - 1)
  BY <1>2, PageSizes
<1>5. PteAddr(va, w) = (q % PageCount) * PAGE_SIZE + 4 * v
  BY <1>3, <1>4, PageWraps
<1> QED
  BY <1>1, <1>5, TableNumber DEF v

LEMMA StartNumbered ==
  ASSUME NEW h, h.satp.ppn \in Nat
  PROVE  Numbered(WalkStart(h))
<1> DEFINE w == WalkStart(h)
           q == h.satp.ppn
<1>1. q \in Nat /\ 0 \in 0 .. (PAGE_SIZE - 1) /\ PAGE_SIZE \in Nat \ {0}
      /\ PageCount \in Nat \ {0}
  BY PageSizes
<1>2. w.base = (q * PAGE_SIZE) % AddrSpace /\ w.i = 1
      /\ w = [i |-> w.i, base |-> w.base, pte |-> w.pte, status |-> w.status]
  BY DEF WalkStart
<1> HIDE DEF w, q
<1>3. q * PAGE_SIZE + 0 = q * PAGE_SIZE
  BY <1>1
<1>4. (q * PAGE_SIZE + 0) % AddrSpace = (q % PageCount) * PAGE_SIZE + 0
  BY <1>1, PageWraps
<1>5. q % PageCount \in Nat
  <2>1. q \in Int
    BY <1>1
  <2> QED
    BY <1>1, <2>1, DivMod
<1>6. w.base = (q % PageCount) * PAGE_SIZE
  BY <1>1, <1>2, <1>3, <1>4, <1>5
<1>7. 1 \in 0 .. UintMax
  BY Sv32Assumption
<1>8. Numbered(w)
  BY <1>2, <1>5, <1>6, <1>7 DEF Numbered
<1> QED
  BY <1>8 DEF w

LEMMA StepNumbered ==
  ASSUME NEW m, \A a \in DOMAIN m : m[a] \in PTE,
         NEW h, NEW va, NEW accessType, NEW w, Numbered(w)
  PROVE  Numbered(WalkStep(m, h, va, accessType, w))
<1> DEFINE a == PteAddr(va, w)
           g == WalkStep(m, h, va, accessType, w)
           verdict == Verdict(h, m[a], accessType, w.i)
           n == m[a].ppn1 * PteCount + m[a].ppn0
<1>1. w = [i |-> w.i, base |-> w.base, pte |-> w.pte, status |-> w.status]
  BY DEF Numbered
<1>2. CASE a \notin DOMAIN m
  <2>1. g = [w EXCEPT !.status = "throw"]
    BY <1>2 DEF WalkStep
  <2>2. g = [i |-> w.i, base |-> w.base, pte |-> w.pte, status |-> "throw"]
    BY <1>1, <2>1
  <2> QED
    BY <2>2 DEF Numbered
<1>3. CASE a \in DOMAIN m /\ verdict = "walking"
  <2>1. g = [i |-> NextLevel(w.i), base |-> n * PAGE_SIZE, pte |-> m[a],
             status |-> "walking"]
    BY <1>3 DEF WalkStep
  <2>2. NextLevel(w.i) \in 0 .. UintMax
    BY Sv32Assumption DEF NextLevel, Numbered
  <2>3. n \in Nat
    <3>1. m[a] \in PTE
      BY <1>3
    <3>2. m[a].ppn1 \in Nat /\ m[a].ppn0 \in Nat
      BY <3>1, PageSizes DEF PTE
    <3> QED
      BY <3>2, PageSizes
  <2> HIDE DEF n
  <2> QED
    BY <2>1, <2>2, <2>3 DEF Numbered
<1>4. CASE a \in DOMAIN m /\ verdict # "walking"
  <2>1. g = [w EXCEPT !.pte = m[a], !.status = verdict]
    BY <1>4 DEF WalkStep
  <2>2. g = [i |-> w.i, base |-> w.base, pte |-> m[a], status |-> verdict]
    BY <1>1, <2>1
  <2> QED
    BY <2>2 DEF Numbered
<1> QED
  BY <1>2, <1>3, <1>4

LEMMA StepAlike ==
  ASSUME NEW m, NEW h, NEW va \in Addr, NEW accessType,
         NEW v, NEW w, Numbered(v), Numbered(w), Alike(v, w)
  PROVE  Alike(WalkStep(m, h, va, accessType, v), WalkStep(m, h, va, accessType, w))
<1> DEFINE a == PteAddr(va, v)
           f == WalkStep(m, h, va, accessType, v)
           g == WalkStep(m, h, va, accessType, w)
           verdict == Verdict(h, m[a], accessType, v.i)
<1>1. /\ v = [i |-> v.i, base |-> v.base, pte |-> v.pte, status |-> v.status]
      /\ w = [i |-> w.i, base |-> w.base, pte |-> w.pte, status |-> w.status]
  BY DEF Numbered
<1>2. a = PteAddr(va, w)
  BY PteAddrOf DEF Alike
<1>3. v.i = w.i /\ TableOf(v) = TableOf(w)
  BY DEF Alike
<1>4. CASE a \notin DOMAIN m
  <2>1. f = [v EXCEPT !.status = "throw"] /\ g = [w EXCEPT !.status = "throw"]
    BY <1>2, <1>4 DEF WalkStep
  <2>2. /\ f.i = v.i /\ f.base = v.base /\ f.status = "throw"
        /\ g.i = w.i /\ g.base = w.base /\ g.status = "throw"
    BY <1>1, <2>1
  <2> QED
    BY <1>3, <2>2 DEF Alike, TableOf
<1>5. CASE a \in DOMAIN m /\ verdict = "walking"
  <2>1. f = g
    BY <1>2, <1>3, <1>5 DEF WalkStep
  <2> QED
    BY <2>1 DEF Alike
<1>6. CASE a \in DOMAIN m /\ verdict # "walking"
  <2>1. /\ f = [v EXCEPT !.pte = m[a], !.status = verdict]
        /\ g = [w EXCEPT !.pte = m[a], !.status = verdict]
    BY <1>2, <1>3, <1>6 DEF WalkStep
  <2> HIDE DEF verdict
  <2>2. /\ f.i = v.i /\ f.base = v.base /\ f.status = verdict
        /\ g.i = w.i /\ g.base = w.base /\ g.status = verdict
    BY <1>1, <2>1
  <2> QED
    BY <1>3, <2>2 DEF Alike, TableOf
<1> QED
  BY <1>4, <1>5, <1>6

LEMMA IterationsNumbered ==
  ASSUME NEW m, \A a \in DOMAIN m : m[a] \in PTE,
         NEW h, h.satp.ppn \in Nat, NEW va, NEW accessType, NEW n \in Nat, NEW s,
         Iterations(s, m, h, va, accessType, n)
  PROVE  \A k \in 0 .. n : Numbered(s[k])
<1> DEFINE T == {k \in 0 .. n : ~Numbered(s[k])}
<1> SUFFICES ASSUME T # {} PROVE FALSE
  OBVIOUS
<1>1. PICK k \in T : \A j \in T : ~(j < k)
  <2>1. T \subseteq Nat
    OBVIOUS
  <2> HIDE DEF T
  <2> QED
    BY <2>1, Least
<1>2. s[k] = IF k = 0 THEN WalkStart(h)
             ELSE IF s[k - 1].status # "walking" THEN s[k - 1]
             ELSE WalkStep(m, h, va, accessType, s[k - 1])
  BY DEF Iterations
<1>3. k # 0
  BY <1>2, StartNumbered
<1>4. Numbered(s[k - 1])
  BY <1>1, <1>3
<1> QED
  BY <1>2, <1>3, <1>4, StepNumbered

-----------------------------------------------------------------------------
(* Among more iterations than there are pairs of an i and a table, two are *)
(* alike, and from them on the loop goes round.                            *)

\* The pairs, numbered.
PairOf(w) == w.i * PageCount + TableOf(w)

LEMMA PairsAreCounted ==
  ASSUME NEW w, Numbered(w)
  PROVE  PairOf(w) \in 0 .. (MaxWalk - 1)
<1> DEFINE t == TableOf(w)
           i == w.i
<1>1. t \in 0 .. (PageCount - 1) /\ i \in 0 .. UintMax
  BY TableNumber DEF Numbered
<1>2. PageCount \in Nat \ {0} /\ UintMax \in Nat
  BY PageSizes, Sv32Assumption
<1> HIDE DEF t, i
<1>3. i * PageCount <= UintMax * PageCount
  <2>1. i \in Nat /\ PageCount \in Nat /\ i <= UintMax
    BY <1>1, <1>2
  <2> QED
    BY <1>2, <2>1, Monotone
<1>4. MaxWalk = UintMax * PageCount + PageCount
  BY <1>2, MaxWalkNat
<1>5. i * PageCount \in Nat /\ UintMax * PageCount \in Nat
  BY <1>1, <1>2
<1>6. i * PageCount + t \in 0 .. (MaxWalk - 1)
  BY <1>1, <1>2, <1>3, <1>4, <1>5
<1> QED
  BY <1>6 DEF PairOf, t, i

LEMMA SamePair ==
  ASSUME NEW v, NEW w, Numbered(v), Numbered(w), PairOf(v) = PairOf(w)
  PROVE  v.i = w.i /\ TableOf(v) = TableOf(w)
<1>1. ASSUME NEW u, Numbered(u)
      PROVE  PairOf(u) \div PageCount = u.i /\ PairOf(u) % PageCount = TableOf(u)
  <2>1. TableOf(u) \in 0 .. (PageCount - 1)
    BY <1>1, TableNumber DEF Numbered
  <2>2. u.i \in Nat
    BY <1>1, Sv32Assumption DEF Numbered
  <2> QED
    BY <2>1, <2>2, PageSizes, DivModUnique DEF PairOf
<1> QED
  BY <1>1

LEMMA TwoAlike ==
  ASSUME NEW s, \A k \in 0 .. MaxWalk : Numbered(s[k]) /\ s[k].status = "walking"
  PROVE  \E a, b \in 0 .. MaxWalk : a < b /\ Alike(s[a], s[b])
<1> DEFINE S == 0 .. MaxWalk
           T == 0 .. (MaxWalk - 1)
           f == [k \in S |-> PairOf(s[k])]
<1>1. MaxWalk \in Nat
  BY MaxWalkNat
<1>2. f \in [S -> T]
  BY PairsAreCounted
<1>3. IsFiniteSet(S) /\ IsFiniteSet(T) /\ Cardinality(T) < Cardinality(S)
  <2>1. 0 \in Int /\ MaxWalk \in Int /\ MaxWalk - 1 \in Int
    BY <1>1
  <2>2. IsFiniteSet(S) /\ Cardinality(S) = IF 0 > MaxWalk THEN 0 ELSE MaxWalk - 0 + 1
    BY <2>1, FS_Interval
  <2>3. IsFiniteSet(T)
        /\ Cardinality(T) = IF 0 > MaxWalk - 1 THEN 0 ELSE (MaxWalk - 1) - 0 + 1
    BY <2>1, FS_Interval
  <2> HIDE DEF S, T
  <2> QED
    BY <1>1, <2>2, <2>3
<1> HIDE DEF T
<1>4. PICK x, y \in S : x # y /\ f[x] = f[y]
  <2> HIDE DEF S, f
  <2> QED
    BY <1>2, <1>3, FS_PigeonHole
<1>5. PairOf(s[x]) = PairOf(s[y])
  BY <1>4
<1>6. Alike(s[x], s[y]) /\ Alike(s[y], s[x])
  BY <1>5, SamePair DEF Alike
<1>7. x < y \/ y < x
  BY <1>1, <1>4
<1> QED
  BY <1>6, <1>7

LEMMA LoopsForEver ==
  ASSUME NEW m, \A a \in DOMAIN m : m[a] \in PTE,
         NEW h, h.satp.ppn \in Nat, NEW va \in Addr, NEW accessType,
         NEW n \in Nat, NEW s, Iterations(s, m, h, va, accessType, n),
         MaxWalk <= n, s[MaxWalk].status = "walking"
  PROVE  s[n].status = "walking"
<1> DEFINE T == {k \in 0 .. n : s[k].status # "walking"}
<1> SUFFICES ASSUME T # {} PROVE FALSE
  OBVIOUS
<1>1. PICK k \in T : \A j \in T : ~(j < k)
  <2>1. T \subseteq Nat
    OBVIOUS
  <2> HIDE DEF T
  <2> QED
    BY <2>1, Least
<1>2. MaxWalk \in Nat /\ k \in 0 .. n /\ k \in Nat
  BY MaxWalkNat
<1>3. MaxWalk < k
  <2>1. k \notin 0 .. MaxWalk
    <3> SUFFICES ASSUME k <= MaxWalk PROVE FALSE
      BY <1>2
    <3>1. MaxWalk \in k .. n
      BY <1>2
    <3>2. k \in 0 .. n /\ s[k].status # "walking"
      OBVIOUS
    <3> HIDE DEF T
    <3>3. \A j \in k .. n : s[j] = s[k]
      BY <3>2, IterationsFreeze
    <3>4. s[MaxWalk] = s[k]
      BY <3>1, <3>3
    <3> QED
      BY <3>2, <3>4
  <2> QED
    BY <1>2, <2>1
<1>4. \A j \in 0 .. n : Numbered(s[j])
  BY IterationsNumbered
<1>5. \A j \in 0 .. n : j < k => s[j].status = "walking"
  BY <1>1
<1>6. \A j \in 0 .. MaxWalk : Numbered(s[j]) /\ s[j].status = "walking"
  BY <1>2, <1>3, <1>4, <1>5
<1>7. PICK a, b \in 0 .. MaxWalk : a < b /\ Alike(s[a], s[b])
  BY <1>6, TwoAlike
<1>8. a \in Nat /\ b \in Nat /\ a < b /\ b < k
  BY <1>2, <1>3, <1>7
<1>9. \A j \in 0 .. (k - b) : Alike(s[a + j], s[b + j])
  <2> DEFINE U == {j \in 0 .. (k - b) : ~Alike(s[a + j], s[b + j])}
  <2> SUFFICES ASSUME U # {} PROVE FALSE
    OBVIOUS
  <2>1. PICK j \in U : \A l \in U : ~(l < j)
    <3>1. U \subseteq Nat
      OBVIOUS
    <3> HIDE DEF U
    <3> QED
      BY <3>1, Least
  <2>2. j # 0
    BY <1>7, <1>8
  <2>3. j - 1 \in 0 .. (k - b) /\ j \in Nat
    BY <1>8, <2>2
  <2>4. Alike(s[a + (j - 1)], s[b + (j - 1)])
    BY <2>1, <2>3
  <2> DEFINE x == a + j
             y == b + j
  <2>5. /\ x \in 0 .. n /\ x # 0 /\ x - 1 \in 0 .. n /\ x - 1 < k
        /\ y \in 0 .. n /\ y # 0 /\ y - 1 \in 0 .. n /\ y - 1 < k
        /\ x - 1 = a + (j - 1) /\ y - 1 = b + (j - 1)
    BY <1>2, <1>8, <2>2, <2>3
  <2> HIDE DEF x, y
  <2>6. /\ s[x] = WalkStep(m, h, va, accessType, s[x - 1])
        /\ s[y] = WalkStep(m, h, va, accessType, s[y - 1])
    <3>1. s[x - 1].status = "walking" /\ s[y - 1].status = "walking"
      BY <1>5, <2>5
    <3> QED
      BY <2>5, <3>1 DEF Iterations
  <2>7. Alike(s[x - 1], s[y - 1]) /\ Numbered(s[x - 1]) /\ Numbered(s[y - 1])
    BY <1>4, <2>4, <2>5
  <2>8. Alike(s[x], s[y])
    BY <2>6, <2>7, StepAlike
  <2> QED
    BY <2>8 DEF x, y
<1>10. Alike(s[a + (k - b)], s[b + (k - b)])
  <2>1. k - b \in 0 .. (k - b)
    BY <1>2, <1>8
  <2> QED
    BY <1>9, <2>1
<1>11. b + (k - b) = k /\ a + (k - b) \in 0 .. n /\ a + (k - b) < k
  BY <1>2, <1>8
<1>12. s[a + (k - b)].status = "walking"
  BY <1>5, <1>11
<1> QED
  BY <1>10, <1>11, <1>12 DEF Alike

\* A call answers as its loop does after any number of iterations, once that is
\* left; and no loop that is left takes more than MaxWalk iterations.
LEMMA EndsAsTranslate ==
  ASSUME NEW m, \A a \in DOMAIN m : m[a] \in PTE,
         NEW h, h.satp.ppn \in Nat, h.satp.mode = 1, NEW va \in Addr, NEW accessType,
         NEW n \in Nat, NEW s, Iterations(s, m, h, va, accessType, n),
         s[n].status # "walking"
  PROVE  Finish(va, s[n]) = Translate(m, h, va, accessType)
<1>1. PICK t : /\ Iterations(t, m, h, va, accessType, MaxWalk)
               /\ Translate(m, h, va, accessType) = Finish(va, t[MaxWalk])
  BY TranslateIterates
<1>2. MaxWalk \in Nat
  BY MaxWalkNat
<1>3. CASE MaxWalk <= n
  <2>1. MaxWalk \in 0 .. n /\ n \in MaxWalk .. n
    BY <1>2, <1>3
  <2>2. s[MaxWalk].status # "walking"
    BY <1>3, LoopsForEver
  <2>3. s[n] = s[MaxWalk]
    BY <2>1, <2>2, IterationsFreeze
  <2>4. s[MaxWalk] = t[MaxWalk]
    BY <1>1, <1>2, <2>1, IterationsAgree
  <2> QED
    BY <1>1, <2>3, <2>4
<1>4. CASE n < MaxWalk
  <2>1. n \in 0 .. MaxWalk /\ MaxWalk \in n .. MaxWalk /\ n \in 0 .. n
    BY <1>2, <1>4
  <2>2. s[n] = t[n]
    BY <1>1, <1>2, <1>4, <2>1, IterationsAgree
  <2>3. t[MaxWalk] = t[n]
    BY <1>1, <1>2, <2>1, <2>2, IterationsFreeze
  <2> QED
    BY <1>1, <2>2, <2>3
<1> QED
  BY <1>2, <1>3, <1>4
=============================================================================
